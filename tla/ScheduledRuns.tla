---------------------------- MODULE ScheduledRuns ----------------------------
(***************************************************************************)
(* The scheduled_agent_runs table and the services of                      *)
(* db/services/scheduled-agent-jobs.ts that move one of its rows: the      *)
(* lease of a worker attempt, the question of a parked worker, the outcome *)
(* and the report lease.  Every service is one SQL statement guarded by a  *)
(* lease token, or one transaction on locked rows, and is one action; only *)
(* releaseScheduledAgentRun reads and writes in two statements.            *)
(*                                                                         *)
(* The callers are left open here: whoever was given a token may use it in *)
(* any call, at any time, any number of times.  ScheduledWorkers gives the *)
(* real callers (schedule tick, Eve session hooks, answer route).          *)
(*                                                                         *)
(* A timestamp is abstracted to what the queries ask of it: absent, still  *)
(* in the future, or reached.  pendingInputRequests is abstracted to the   *)
(* report sequence under which it was asked, 0 when it is null.            *)
(***************************************************************************)
EXTENDS Naturals, FiniteSets

CONSTANTS
    Runs,           \* the rows, one per materialized occurrence
    Channels,       \* kinds of conversation channel: eve and linq are interactive,
                    \* telegram and kapso are native
    Tokens,         \* worker lease tokens (randomUUID)
    ReportTokens,   \* report lease tokens (randomUUID)
    Sessions,       \* Eve worker sessions
    Turns,          \* Eve turn identifiers
    None,           \* SQL NULL
    MaxAttempts,    \* attempts before a run is dead-lettered (3 in the code)
    MaxQuestions,   \* bound of the model: report sequences a question may open
    MaxReads        \* bound of the model: releases between their two statements

ASSUME ChannelsAssumption == Channels \subseteq {"interactive", "native"}
ASSUME NoneAssumption ==
    None \notin Tokens \cup ReportTokens \cup Sessions \cup Turns
               \cup {"result", "nothing_to_report", "blocked"}
ASSUME BoundsAssumption ==
    MaxAttempts \in Nat \ {0} /\ MaxQuestions \in Nat /\ MaxReads \in Nat

VARIABLES
    run,            \* the row of each run
    granted,        \* history: the lease tokens each run was claimed under
    reads           \* rows read by releases that have not written yet

vars == <<run, granted, reads>>

Clock == {"none", "future", "reached"}
Outcomes == {"result", "nothing_to_report", "blocked"}
RunStatus == {"queued", "running", "waiting_for_input", "completed", "dead_letter"}
ReportStatus == {"not_ready", "not_needed", "pending", "queued", "delivered",
                 "suppressed", "failed", "cancelled", "uncertain"}

Row == [channel: Channels,  \* of its job
        status: RunStatus, attempts: Nat,
        token: Tokens \cup {None}, lease: Clock, retry: Clock,
        session: Sessions \cup {None}, deferred: Turns \cup {None},
        question: Nat, outcome: Outcomes \cup {None},
        report: ReportStatus, seq: Nat,
        reportToken: ReportTokens \cup {None}, reportLease: Clock]

\* A release is called by the dispatcher of an attempt and by its session hooks.
Callers == {"dispatcher", "worker"}

\* What releaseScheduledAgentRun keeps of the row it read.
Read == [run: Runs, by: Callers, token: Tokens, attempts: Nat,
         outcome: Outcomes \cup {None}, report: ReportStatus]

TypeOK == /\ run \in [Runs -> Row]
          /\ granted \in [Runs -> SUBSET Tokens]
          /\ reads \subseteq Read

\* The row materializeDueScheduledAgentRuns inserts.
QueuedRow(channel) ==
             [channel |-> channel, status |-> "queued", attempts |-> 0,
              token |-> None, lease |-> "none", retry |-> "none",
              session |-> None, deferred |-> None,
              question |-> 0, outcome |-> None,
              report |-> "not_ready", seq |-> 0,
              reportToken |-> None, reportLease |-> "none"]

Init == /\ run \in [Runs -> {QueuedRow(channel) : channel \in Channels}]
        /\ granted = [r \in Runs |-> {}]
        /\ reads = {}

Issued == UNION {granted[r] : r \in Runs}

Terminal(row) == row.status \in {"completed", "dead_letter"}
Reportable(row) == row.status \in {"completed", "dead_letter", "waiting_for_input"}

\* The condition every worker-side update puts in its WHERE clause.
Holds(row, t) == row.status = "running" /\ row.token = t

\* isScheduledAgentRunLeaseActive: what a model step of the worker needs.
LeaseActive(row, t) == Holds(row, t) /\ row.lease = "future"

(***************************************************************************)
(* Claiming attempts.                                                      *)
(***************************************************************************)
Ready(row) ==
    /\ \/ row.status = "queued"
       \/ row.status = "running" /\ row.session = None /\ row.lease = "reached"
    /\ row.retry # "future"

Exhausted(row) ==
    [row EXCEPT !.status = "dead_letter", !.token = None, !.lease = "none",
                !.retry = "none", !.outcome = "blocked",
                !.report = "pending", !.seq = @ + 1]

\* Mutant of Claimed: the attempt is not counted.
ClaimedUncounted(row, t) ==
    [row EXCEPT !.status = "running", !.token = t, !.lease = "future",
                !.retry = "none", !.deferred = None]

Claimed(row, t) ==
    [row EXCEPT !.status = "running", !.attempts = @ + 1, !.token = t,
                !.lease = "future", !.retry = "none", !.deferred = None]

\* One tick claims a batch of ready rows under one fresh token; the limit and
\* SKIP LOCKED make it any batch.  Rows out of attempts become dead letters,
\* and no token is drawn when there is nothing else.
ClaimReady(batch, t) ==
    LET spent == {r \in batch : run[r].attempts >= MaxAttempts}
    IN  /\ batch # {}
        /\ \A r \in batch : Ready(run[r])
        /\ batch # spent => t \notin Issued
        /\ run' = [r \in Runs |->
                     IF r \in spent THEN Exhausted(run[r])
                     ELSE IF r \in batch THEN Claimed(run[r], t)
                     ELSE run[r]]
        /\ granted' = [r \in Runs |-> IF r \in batch \ spent
                                      THEN granted[r] \cup {t} ELSE granted[r]]
        /\ UNCHANGED reads

(***************************************************************************)
(* Calls of the worker attempt that holds token t.                         *)
(***************************************************************************)
Write(r, row) == run' = [run EXCEPT ![r] = row] /\ UNCHANGED <<granted, reads>>

SetSession(r, t, s) ==
    /\ Holds(run[r], t)
    /\ Write(r, [run[r] EXCEPT !.session = s])

\* setScheduledRunSession answers true when it wrote the session, or found it.
SessionPersisted(row, t, s) == Holds(row, t) \/ row.session = s

\* Mutant of MarkStarted: the lease is renewed by whoever asks, not by its holder.
MarkStartedUnfenced(r, t, s) ==
    /\ run[r].status = "running"
    /\ Write(r, [run[r] EXCEPT !.token = t, !.lease = "future", !.session = s])

MarkStarted(r, t, s) ==
    /\ Holds(run[r], t)
    /\ Write(r, [run[r] EXCEPT !.lease = "future", !.session = s])

\* Mutant of WaitForInput: the question is keyed by the sequence before it.
WaitForInputOffByOne(r, t) ==
    /\ Holds(run[r], t)
    /\ run[r].seq < MaxQuestions
    /\ Write(r, [run[r] EXCEPT !.question = run[r].seq, !.lease = "none",
                               !.seq = @ + 1, !.report = "pending",
                               !.status = "waiting_for_input"])

WaitForInput(r, t) ==
    /\ Holds(run[r], t)
    /\ run[r].seq < MaxQuestions
    /\ Write(r, [run[r] EXCEPT !.question = run[r].seq + 1, !.lease = "none",
                               !.seq = @ + 1, !.report = "pending",
                               !.status = "waiting_for_input"])

Defer(r, t, turn) ==
    /\ Holds(run[r], t)
    /\ Write(r, [run[r] EXCEPT !.deferred = turn])

\* Mutant of MayComplete: any later turn may be silent.
MayCompleteAnyKind(row, turn, kind) ==
    row.deferred = None \/ row.deferred # turn

\* A report must come from a later turn than the one that delegated work; a
\* silent turn completes only when no work is delegated.
MayComplete(row, turn, kind) ==
    \/ row.deferred = None
    \/ kind # "nothing_to_report" /\ row.deferred # turn

\* Mutants of Completed: the lease outlives the run; silence is announced.
CompletedLeased(row, kind) ==
    LET silent == kind = "nothing_to_report"
    IN  [row EXCEPT !.status = "completed", !.deferred = None, !.question = 0,
                    !.lease = "none", !.outcome = kind,
                    !.seq = IF silent THEN @ ELSE @ + 1,
                    !.report = IF silent THEN "not_needed" ELSE "pending"]

CompletedAloud(row, kind) ==
    [row EXCEPT !.status = "completed", !.deferred = None, !.question = 0,
                !.lease = "none", !.token = None, !.outcome = kind,
                !.seq = @ + 1, !.report = "pending"]

Completed(row, kind) ==
    LET silent == kind = "nothing_to_report"
    IN  [row EXCEPT !.status = "completed", !.deferred = None, !.question = 0,
                    !.lease = "none", !.token = None, !.outcome = kind,
                    !.seq = IF silent THEN @ ELSE @ + 1,
                    !.report = IF silent THEN "not_needed" ELSE "pending"]

Complete(r, t, turn, kind) ==
    /\ Holds(run[r], t)
    /\ MayComplete(run[r], turn, kind)
    /\ Write(r, Completed(run[r], kind))

\* releaseScheduledAgentRun, first statement: whatever the status, the row must
\* still carry the token.
ReleaseRead(r, t, by) ==
    /\ run[r].token = t
    /\ Cardinality(reads) < MaxReads
    /\ reads' = reads \cup {[run |-> r, by |-> by, token |-> t,
                             attempts |-> run[r].attempts,
                             outcome |-> run[r].outcome, report |-> run[r].report]}
    /\ UNCHANGED <<run, granted>>

\* Mutant of Released: the lease is kept.
ReleasedLeased(row, read) ==
    LET dead == read.attempts >= MaxAttempts
    IN  [row EXCEPT !.deferred = None, !.lease = "none",
                    !.outcome = IF dead THEN "blocked" ELSE read.outcome,
                    !.seq = IF dead THEN @ + 1 ELSE @,
                    !.report = IF dead THEN "pending" ELSE read.report,
                    !.retry = IF dead THEN "none" ELSE "future",
                    !.status = IF dead THEN "dead_letter" ELSE "queued"]

\* The row the second statement writes, from what the first one read.
Released(row, read) ==
    LET dead == read.attempts >= MaxAttempts
    IN  [row EXCEPT !.deferred = None, !.lease = "none", !.token = None,
                    !.outcome = IF dead THEN "blocked" ELSE read.outcome,
                    !.seq = IF dead THEN @ + 1 ELSE @,
                    !.report = IF dead THEN "pending" ELSE read.report,
                    !.retry = IF dead THEN "none" ELSE "future",
                    !.status = IF dead THEN "dead_letter" ELSE "queued"]

\* Mutant of ReleaseWrite: the second statement does not check the token again.
ReleaseWriteUnfenced(read) ==
    /\ read \in reads
    /\ reads' = reads \ {read}
    /\ run' = [run EXCEPT ![read.run] = Released(@, read)]
    /\ UNCHANGED granted

ReleaseWrite(read) ==
    /\ read \in reads
    /\ reads' = reads \ {read}
    /\ run' = IF run[read.run].token = read.token
              THEN [run EXCEPT ![read.run] = Released(@, read)] ELSE run
    /\ UNCHANGED granted

\* The releasing process stops before its second statement.
ReleaseLost(read) ==
    /\ read \in reads
    /\ reads' = reads \ {read}
    /\ UNCHANGED <<run, granted>>

(***************************************************************************)
(* Calls of the answer route.                                              *)
(***************************************************************************)
ClaimInput(r, t) ==
    /\ run[r].status = "waiting_for_input"
    /\ run[r].token = t
    /\ Write(r, [run[r] EXCEPT !.status = "running", !.lease = "future"])

RestoreInput(r, t) ==
    /\ Holds(run[r], t)
    /\ Write(r, [run[r] EXCEPT !.status = "waiting_for_input",
                               !.lease = "none", !.deferred = None])

FinishInput(r, t) ==
    /\ Holds(run[r], t)
    /\ Write(r, [run[r] EXCEPT !.deferred = None, !.question = 0,
                               !.reportLease = "none", !.reportToken = None,
                               !.report = "not_ready"])

(***************************************************************************)
(* Report leases: interactive channels (eve, linq) hand a report to an     *)
(* agent turn; native channels settle it from their outbox receipts.       *)
(***************************************************************************)
ReportTokensInUse == {run[r].reportToken : r \in Runs} \ {None}

ClaimReport(r, p) ==
    /\ run[r].channel = "interactive"
    /\ Reportable(run[r])
    /\ run[r].report = "pending"
    /\ p \notin ReportTokensInUse
    /\ Write(r, [run[r] EXCEPT !.reportLease = "future", !.reportToken = p,
                               !.report = "queued"])

\* listRecoverableScheduledReports returns a stale report lease to pending.
RecoverReport(r) ==
    /\ run[r].channel = "interactive"
    /\ Reportable(run[r])
    /\ run[r].report = "queued"
    /\ run[r].reportLease = "reached"
    /\ Write(r, [run[r] EXCEPT !.reportLease = "none", !.reportToken = None,
                               !.report = "pending"])

ReleaseReport(r, p) ==
    /\ run[r].reportToken = p
    /\ Write(r, [run[r] EXCEPT !.reportLease = "none", !.reportToken = None,
                               !.report = "pending"])

\* Mutant of FinalizeReport: the report lease outlives its report.
FinalizeReportLeased(r, p, status) ==
    /\ run[r].reportToken = p
    /\ run[r].report = "queued"
    /\ IF status = "suppressed" THEN Terminal(run[r]) ELSE Reportable(run[r])
    /\ Write(r, [run[r] EXCEPT !.report = status])

FinalizeReport(r, p, status) ==
    /\ run[r].reportToken = p
    /\ run[r].report = "queued"
    /\ IF status = "suppressed" THEN Terminal(run[r]) ELSE Reportable(run[r])
    /\ Write(r, [run[r] EXCEPT !.reportLease = "none", !.reportToken = None,
                               !.report = status])

\* dispatchNativeScheduledReport writes the status it computed from the outbox
\* receipts of the report, abstracted here to any of them.  Only an enqueue and
\* a cancellation clear the report lease, which a native run never holds.
NativeReport(r, status) ==
    /\ run[r].channel = "native"
    /\ Reportable(run[r])
    /\ run[r].report \in {"pending", "queued"}
    /\ Write(r, [run[r] EXCEPT !.report = status])

(***************************************************************************)
(* The passage of time.                                                    *)
(***************************************************************************)
Reaches(field, r) ==
    /\ run[r][field] = "future"
    /\ Write(r, [run[r] EXCEPT ![field] = "reached"])

TimePasses(r) == Reaches("lease", r) \/ Reaches("retry", r) \/ Reaches("reportLease", r)

WorkerCall(r, t) ==
    \/ \E s \in Sessions : SetSession(r, t, s) \/ MarkStarted(r, t, s)
    \/ WaitForInput(r, t)
    \/ \E turn \in Turns : \/ Defer(r, t, turn)
                           \/ \E kind \in {"result", "nothing_to_report"} :
                                 Complete(r, t, turn, kind)
    \/ \E by \in Callers : ReleaseRead(r, t, by)

AnswerCall(r, t) == ClaimInput(r, t) \/ RestoreInput(r, t) \/ FinishInput(r, t)

ReportCall(r) ==
    \/ \E p \in ReportTokens :
          \/ ClaimReport(r, p)
          \/ ReleaseReport(r, p)
          \/ \E status \in {"delivered", "suppressed"} : FinalizeReport(r, p, status)
    \/ RecoverReport(r)
    \/ \E status \in {"queued", "delivered", "failed", "cancelled", "uncertain",
                      "not_needed"} : NativeReport(r, status)

Next == \/ \E batch \in SUBSET Runs, t \in Tokens : ClaimReady(batch, t)
        \/ \E r \in Runs, t \in Tokens : WorkerCall(r, t) \/ AnswerCall(r, t)
        \/ \E read \in reads : ReleaseWrite(read) \/ ReleaseLost(read)
        \/ \E r \in Runs : ReportCall(r) \/ TimePasses(r)

Spec == Init /\ [][Next]_vars

-----------------------------------------------------------------------------
(***************************************************************************)
(* Properties.                                                             *)
(***************************************************************************)

\* A run is handed to workers at most MaxAttempts times, each time under a
\* token of its own: a tick never re-issues a lease and a release never gives
\* an attempt back, whatever row it read.
AttemptsAreLeases ==
    \A r \in Runs : /\ Cardinality(granted[r]) = run[r].attempts
                    /\ run[r].attempts <= MaxAttempts

\* A row carries an outcome exactly when it is finished, a finished row has
\* lost its lease and has decided about its report, and only a run that used
\* every attempt is a dead letter.  The release that writes back an outcome
\* and a report status it read earlier must not break this.
FinishedMeansOutcome ==
    \A r \in Runs :
        /\ Terminal(run[r]) <=> run[r].outcome # None
        /\ Terminal(run[r]) => run[r].token = None /\ run[r].report # "not_ready"
        /\ run[r].status = "dead_letter" <=> run[r].outcome = "blocked"
        /\ run[r].status = "dead_letter" => run[r].attempts = MaxAttempts

\* Nothing a late caller does changes the status or the outcome of a finished
\* run: neither a worker whose lease was taken over, nor a release that read
\* the row before it finished, nor an answer to its last question.
FinishedIsFinal ==
    [][\A r \in Runs : Terminal(run[r]) =>
          /\ run'[r].status = run[r].status
          /\ run'[r].outcome = run[r].outcome
          /\ run'[r].attempts = run[r].attempts]_vars

\* Once a run has lost a lease token, or passed to another, it never carries
\* that token again, so a superseded worker stays fenced for good.
LostLeaseStaysLost ==
    [][\A r \in Runs : \A t \in granted[r] :
          run[r].token # t => run'[r].token # t]_vars

\* The report of a finished run, once delivered or suppressed, is not put back
\* in line by a stale report turn or by lease recovery.
SettledReportStays ==
    [][\A r \in Runs :
          Terminal(run[r]) /\ run[r].report \in {"delivered", "suppressed"} =>
              run'[r].report = run[r].report]_vars

(***************************************************************************)
(* The inductive invariant behind the properties above.                    *)
(***************************************************************************)
LeaseInv(row, tokens) ==
    /\ IsFiniteSet(tokens) /\ Cardinality(tokens) = row.attempts
    /\ row.attempts <= MaxAttempts
    /\ row.token # None => /\ row.token \in tokens
                           /\ row.status \in {"running", "waiting_for_input"}
    /\ row.status = "queued" => row.attempts < MaxAttempts

EndingInv(row) ==
    /\ Terminal(row) <=> row.outcome # None
    /\ Terminal(row) => row.token = None /\ row.report # "not_ready"
    /\ row.status = "dead_letter" <=> row.outcome = "blocked"
    /\ row.status = "dead_letter" => row.attempts = MaxAttempts

ReportInv(row) ==
    /\ row.channel = "native" => row.reportToken = None
    /\ Terminal(row) /\ row.report \in {"delivered", "suppressed"} => row.reportToken = None

\* What a release read still describes the row if the row still has its token.
ReadInv(read) ==
    /\ read.token \in granted[read.run]
    /\ run[read.run].token = read.token =>
          read.attempts = run[read.run].attempts /\ read.outcome = None

RunsInv == /\ TypeOK
           /\ \A r \in Runs : /\ LeaseInv(run[r], granted[r])
                              /\ EndingInv(run[r])
                              /\ ReportInv(run[r])
           /\ \A read \in reads : ReadInv(read)

(***************************************************************************)
(* The promise made to the owner of the schedule.                          *)
(***************************************************************************)
PhaseOf(row) == CASE row.status = "queued" -> "due"
                  [] row.status = "running" -> "working"
                  [] row.status = "waiting_for_input" -> "asking"
                  [] OTHER -> "over"

Promise == INSTANCE RunPromise WITH
    phase     <- [r \in Runs |-> PhaseOf(run[r])],
    tries     <- [r \in Runs |-> run[r].attempts],
    result    <- [r \in Runs |-> run[r].outcome],
    announced <- [r \in Runs |-> run[r].seq]

\* The rows, with their leases and the calls of late workers and releases,
\* keep the promise of RunPromise: bounded attempts, one ending, and one
\* report sequence for each question and each ending worth telling.
KeepsPromise == Promise!PromiseSpec
=============================================================================
