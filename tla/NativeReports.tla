---------------------------- MODULE NativeReports ----------------------------
(***************************************************************************)
(* server/schedules/native-report.ts over the outbox of OutboxDispatch: the  *)
(* reports of scheduled runs for one Telegram or WhatsApp identity.  A report  *)
(* is enqueued as the chunks of its text, once, and its status is from then   *)
(* on what the receipts of the chunks say, read while the drains go on.       *)
(*                                                                         *)
(* The runs belong to a member of a workspace who may be removed, or delete  *)
(* the account; ScheduledRuns models the rest of a run.                      *)
(***************************************************************************)
EXTENDS OutboxDispatch

CONSTANTS
    Runs,
    Sizes,       \* how many chunks a report may have
    MaxReports   \* bound of the model: reports of a run, its questions included

VARIABLES
    run,         \* phase, report_sequence and report_status of each run
    seal,        \* the report whose output a message is, if any
    read,        \* the status a dispatch holding the run computed, to be written
    member       \* the owner is a member of the workspace

reportVars == <<run, seal, read, member>>
nativeVars == <<rows, active, held, drain, late, copies, run, seal, read, member>>

ReportStatus == {"not_ready", "pending", "queued", "delivered", "failed", "cancelled", "uncertain"}
Run == [phase : {"running", "waiting", "completed"}, seq : 0..MaxReports, report : ReportStatus]

NativeTypeOK ==
    /\ OutboxTypeOK
    /\ run \in [Runs -> Run]
    /\ \A r \in Runs : run[r].phase = "running" => run[r].report = "not_ready"
    /\ seal \in [Slots -> (Runs \X (1..MaxReports)) \cup {None}]
    /\ read \in [Runs -> ReportStatus \cup {None}]
    /\ member \in BOOLEAN

NativeInit ==
    /\ OutboxInit
    /\ run = [r \in Runs |-> [phase |-> "running", seq |-> 0, report |-> "not_ready"]]
    /\ seal = [i \in Slots |-> None] /\ read = [r \in Runs |-> None] /\ member = TRUE

\* The run's row, unless a dispatch holds it or it went with the membership.
Free(r) == member /\ read[r] = None
Writes(r, row) == run' = [run EXCEPT ![r] = row] /\ UNCHANGED <<seal, member>>
OutboxUnchanged == UNCHANGED <<queueVars, dispatchVars>>

(***************************************************************************)
(* What makes and withdraws reports: a question, its answer, an outcome       *)
(***************************************************************************)

Reports(r, phase) ==
    /\ Free(r) /\ run[r].phase = "running" /\ run[r].seq < MaxReports
    /\ Writes(r, [phase |-> phase, seq |-> run[r].seq + 1, report |-> "pending"])
    /\ UNCHANGED read /\ OutboxUnchanged

\* claimScheduledAgentRunInput and finishScheduledAgentRunInput.
AnswerComes(r) ==
    /\ Free(r) /\ run[r].phase = "waiting"
    /\ Writes(r, [run[r] EXCEPT !.phase = "running", !.report = "not_ready"])
    /\ UNCHANGED read /\ OutboxUnchanged

(***************************************************************************)
(* dispatchNativeScheduledReport, which holds the row of the run             *)
(***************************************************************************)

ChunksOf(r) == {i \in Slots : seal[i] = <<r, run[r].seq>>}
Reportable(r) == run[r].phase # "running"

\* nativeReportReceiptStatus
Receipt(statuses) ==
    CASE "uncertain" \in statuses -> "uncertain"
      [] "uncertain" \notin statuses /\ statuses \cap {"dispatching", "queued"} # {} -> "queued"
      [] "failed" \in statuses /\ statuses \cap {"uncertain", "dispatching", "queued"} = {} -> "failed"
      [] "cancelled" \in statuses /\ statuses \subseteq {"cancelled", "done"} -> "cancelled"
      [] OTHER -> "delivered"

\* The chunks and the queued status are one transaction; an owner who is not
\* there any more gets no report.
Seals(r) ==
    /\ Free(r) /\ Reportable(r) /\ run[r].report = "pending"
    /\ IF active
       THEN \E n \in Sizes :
              LET first == Cardinality({i \in Slots : rows[i].status # "absent"}) + 1
                  chunks == first..(first + n - 1)
              IN /\ chunks \subseteq Slots
                 /\ rows' = [i \in Slots |-> IF i \in chunks THEN [AbsentRow EXCEPT !.status = "queued"]
                                             ELSE rows[i]]
                 /\ seal' = [i \in Slots |-> IF i \in chunks THEN <<r, run[r].seq>> ELSE seal[i]]
                 /\ run' = [run EXCEPT ![r].report = "queued"]
       ELSE run' = [run EXCEPT ![r].report = "cancelled"] /\ UNCHANGED <<rows, seal>>
    /\ UNCHANGED <<active, held, dispatchVars, read, member>>

\* The receipts are read in one statement, and written in another.
ReadsReceipts(r) ==
    /\ Free(r) /\ Reportable(r) /\ run[r].report = "queued"
    /\ read' = [read EXCEPT ![r] = Receipt({rows[i].status : i \in ChunksOf(r)})]
    /\ UNCHANGED <<run, seal, member>> /\ OutboxUnchanged

WritesReceipt(r) ==
    /\ read[r] # None
    /\ Writes(r, [run[r] EXCEPT !.report = read[r]])
    /\ read' = [read EXCEPT ![r] = None] /\ OutboxUnchanged

(***************************************************************************)
(* The owner leaves                                                         *)
(***************************************************************************)

\* Mutant of Withdrawn: a chunk that a drain has claimed is left to it.
WithdrawnQueued == [i \in Slots |->
    IF seal[i] # None /\ rows[i].status = "queued" THEN Ends(rows[i], "cancelled") ELSE rows[i]]
Withdrawn == [i \in Slots |->
    IF seal[i] # None /\ rows[i].status \in {"queued", "dispatching"}
    THEN Ends(rows[i], "cancelled") ELSE rows[i]]

\* The runs and the seals go with the membership, which waits for whoever holds a
\* run; the seals are kept here as history.
Withdraws ==
    /\ \A r \in Runs : Free(r)
    /\ member' = FALSE /\ rows' = Withdrawn
    /\ UNCHANGED <<held, dispatchVars, run, seal, read>>

IsRemoved == Withdraws /\ UNCHANGED active
DeletesAccount == Withdraws /\ active' = FALSE

OutboxMoves ==
    /\ \/ \E d \in Drains : DrainClaims(d) \/ DrainStep(d) \/ DrainCrash(d)
       \/ \E i \in Slots : LateRequest(i)
       \/ \E i \in Slots : (Resolve(i) \/ TimeComes(i)) /\ UNCHANGED dispatchVars
       \/ Revoke /\ UNCHANGED dispatchVars
    /\ UNCHANGED reportVars

Dispatch(r) == Seals(r) \/ ReadsReceipts(r) \/ WritesReceipt(r)

NativeNext ==
    \/ OutboxMoves
    \/ \E r \in Runs : Reports(r, "waiting") \/ Reports(r, "completed") \/ AnswerComes(r) \/ Dispatch(r)
    \/ IsRemoved \/ DeletesAccount

NativeSpec == NativeInit /\ [][NativeNext]_nativeVars

\* The tick takes up the reports every minute; the rest is as for the outbox.
NativeFairness ==
    /\ \A d \in Drains : /\ WF_nativeVars(Eligible /\ DrainClaims(d) /\ UNCHANGED reportVars)
                         /\ WF_nativeVars(DrainStep(d) /\ UNCHANGED reportVars)
    /\ \A i \in Slots :
          /\ WF_nativeVars(TimeComes(i) /\ UNCHANGED dispatchVars /\ UNCHANGED reportVars)
          /\ SF_nativeVars(\E d \in Drains : drain[d].slot = i /\ Confirms(d) /\ UNCHANGED reportVars)
    /\ \A r \in Runs : WF_nativeVars(Dispatch(r))

-----------------------------------------------------------------------------
(***************************************************************************)
(* Properties                                                               *)
(***************************************************************************)

\* A report that is called delivered was delivered to the last chunk, and one that
\* is called failed or cancelled will not go on by itself: no chunk is still to be
\* sent, though the status was computed before the drains went on.
ReceiptsAreTrue ==
    \A r \in Runs : member =>
        /\ run[r].report = "delivered" => \A i \in ChunksOf(r) : rows[i].status = "done"
        /\ run[r].report \in {"failed", "cancelled"} => \A i \in ChunksOf(r) : Settled(rows[i])

\* Once the owner is removed, no request for a chunk of the reports begins, but a
\* retry that an operator authorizes (README section 6): true of every step.
NothingStartsByItself ==
    \A d \in Drains : ~member /\ drain[d].phase = "valid" /\ drain'[d].phase = "sending" =>
        rows[drain[d].slot].authorized > 0

\* A report that is queued gets its last status, unless an operator must judge a
\* message before it, its question is answered, or its owner leaves.
ReportsSettle ==
    \A r \in Runs, s \in 1..MaxReports :
        run[r].seq = s /\ run[r].report = "queued" ~>
            \/ run[r].seq # s \/ run[r].report # "queued" \/ ~member
            \/ \E i \in Slots : rows[i].status = "uncertain" /\ seal[i] # <<r, s>>
=============================================================================
