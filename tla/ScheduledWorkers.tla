--------------------------- MODULE ScheduledWorkers ---------------------------
(***************************************************************************)
(* The callers of ScheduledRuns and the Eve session each run talks to:     *)
(*                                                                         *)
(*  - the minute tick of agent/schedules/dynamic.ts claims a run and       *)
(*    dispatches it to the address "scheduled-run:<id>", restarting the    *)
(*    session there when an earlier attempt had recorded one;              *)
(*  - the session takes turns, and the hook of                             *)
(*    agent/hooks/scheduled-run-completion.ts reports each of its events   *)
(*    with the lease token found in the session's auth;                    *)
(*  - the answer route of agent/channels/scheduled-run.ts takes the answer *)
(*    to a parked worker's question back to its session.                   *)
(*                                                                         *)
(* A session is named by the token of the dispatch that opened it, which   *)
(* is the token of auth.initiator for as long as the session lives.        *)
(* Eve is external: its turns, its message queue and what its calls answer *)
(* are modelled from how this code uses them.                              *)
(***************************************************************************)
EXTENDS ScheduledRuns, Sequences

CONSTANTS
    Answers,         \* concurrent executions of the answer route
    Faults,          \* which of AllFaults may happen
    MaxDelegations   \* bound of the model: background tasks a run delegates

AllFaults == {"dispatch_crash",  \* the tick's process stops during a dispatch
              "send_unknown",    \* send delivers the message, then throws
              "send_refused",    \* send, or the owner check before it, throws
              "answer_crash",    \* the answer route's process stops
              "answer_unknown",  \* respond or its last statement throws
              "worker_failure",  \* the turn fails, is cancelled or stops short
              "parked_failure"}  \* the session fails while it waits for input

ASSUME FaultsAssumption == Faults \subseteq AllFaults /\ MaxDelegations \in Nat
ASSUME SessionsAreDispatches == Sessions = Tokens

VARIABLES
    dispatch,   \* the dispatch of each lease: its phase, restart and session
    address,    \* the session behind scheduled-run:<id>, None without one
    inbox,      \* lease tokens of the messages that session has not begun
    worker,     \* the current turn of that session
    tasks,      \* background tasks: delegated so far, still outstanding
    answer,     \* the executions of the answer route
    overtaken   \* history: runs whose worker went on past an answer to its question,
                \* which it asks again meanwhile or which the route will put back

workerVars == <<dispatch, address, inbox, worker, tasks, answer, overtaken>>
allVars == <<run, granted, reads, dispatch, address, inbox, worker, tasks, answer, overtaken>>

\* idle between turns; starting a turn whose turn.started hook has not run;
\* model between two model steps; step inside one; parked on a question;
\* failing while a release is written.
Phase == {"idle", "starting", "model", "step", "parked", "failing"}
Dispatch == [phase: {"none", "claimed", "sent", "refused", "done"},
             restart: BOOLEAN, session: Sessions \cup {None}]
Worker == [phase: Phase, current: Tokens \cup {None}, turn: Turns \cup {None},
           delegated: BOOLEAN]  \* history: this turn delegated background work
Answer == [phase: {"idle", "asked", "claimed", "respond", "accepted", "restore"},
           run: Runs \cup {None}, token: Tokens \cup {None},
           session: Sessions \cup {None}]

WorkersTypeOK ==
    /\ TypeOK
    /\ dispatch \in [Runs -> [Tokens -> Dispatch]]
    /\ address \in [Runs -> Sessions \cup {None}]
    /\ inbox \in [Runs -> Seq(Tokens)]
    /\ worker \in [Runs -> Worker]
    /\ tasks \in [Runs -> [delegated: Nat, waiting: Nat]]
    /\ answer \in [Answers -> Answer]
    /\ overtaken \subseteq Runs

NoDispatch == [phase |-> "none", restart |-> FALSE, session |-> None]
DispatchOver == [NoDispatch EXCEPT !.phase = "done"]
IdleWorker == [phase |-> "idle", current |-> None, turn |-> None, delegated |-> FALSE]
IdleAnswer == [phase |-> "idle", run |-> None, token |-> None, session |-> None]

WorkersInit ==
    /\ Init
    /\ dispatch = [r \in Runs |-> [t \in Tokens |-> NoDispatch]]
    /\ address = [r \in Runs |-> None]
    /\ inbox = [r \in Runs |-> <<>>]
    /\ worker = [r \in Runs |-> IdleWorker]
    /\ tasks = [r \in Runs |-> [delegated |-> 0, waiting |-> 0]]
    /\ answer = [a \in Answers |-> IdleAnswer]
    /\ overtaken = {}

RunUnchanged == UNCHANGED <<run, granted, reads>>

(***************************************************************************)
(* The tick: claim, dispatch, record the session, release on error.        *)
(***************************************************************************)
Tick(batch, t) ==
    /\ ClaimReady(batch, t)
    /\ dispatch' = [r \in Runs |->
          IF r \in batch /\ run[r].attempts < MaxAttempts
          THEN [dispatch[r] EXCEPT ![t] =
                  [phase |-> "claimed", restart |-> run[r].session # None,
                   session |-> None]]
          ELSE dispatch[r]]
    /\ UNCHANGED <<address, inbox, worker, tasks, answer, overtaken>>

Dispatching(r, t, phase) == dispatch[r][t].phase = phase

\* Mutant of SessionEnds: one task ends with its session, not all of them.
SessionEndsOneTask(r) ==
    /\ address' = [address EXCEPT ![r] = None]
    /\ inbox' = [inbox EXCEPT ![r] = <<>>]
    /\ worker' = [worker EXCEPT ![r] = IdleWorker]
    /\ tasks' = [tasks EXCEPT ![r].waiting = @ - 1]

\* The session at the address is gone, with its turn, messages and tasks.
SessionEnds(r) ==
    /\ address' = [address EXCEPT ![r] = None]
    /\ inbox' = [inbox EXCEPT ![r] = <<>>]
    /\ worker' = [worker EXCEPT ![r] = IdleWorker]
    /\ tasks' = [tasks EXCEPT ![r].waiting = 0]

\* The message reaches the address: a restart resets the session there first,
\* and a message to no session opens one whose initiator holds this lease.
Deliver(r, t, phase) ==
    LET fresh == dispatch[r][t].restart \/ address[r] = None
        s == IF fresh THEN t ELSE address[r]
    IN  /\ address' = [address EXCEPT ![r] = s]
        /\ inbox' = [inbox EXCEPT ![r] = IF fresh THEN <<t>> ELSE Append(@, t)]
        /\ worker' = IF fresh THEN [worker EXCEPT ![r] = IdleWorker] ELSE worker
        /\ tasks' = IF fresh THEN [tasks EXCEPT ![r].waiting = 0] ELSE tasks
        /\ dispatch' = [dispatch EXCEPT ![r][t].phase = phase, ![r][t].session = s]

Send(r, t) ==
    /\ Dispatching(r, t, "claimed")
    /\ Deliver(r, t, "sent")
    /\ RunUnchanged /\ UNCHANGED <<answer, overtaken>>

SendUnknown(r, t) ==
    /\ "send_unknown" \in Faults
    /\ Dispatching(r, t, "claimed")
    /\ Deliver(r, t, "refused")
    /\ RunUnchanged /\ UNCHANGED <<answer, overtaken>>

\* Nothing was sent, but a restart may already have reset the session.
SendRefused(r, t) ==
    /\ "send_refused" \in Faults
    /\ Dispatching(r, t, "claimed")
    /\ dispatch' = [dispatch EXCEPT ![r][t].phase = "refused"]
    /\ \/ UNCHANGED <<address, inbox, worker, tasks>>
       \/ dispatch[r][t].restart /\ SessionEnds(r)
    /\ RunUnchanged /\ UNCHANGED <<answer, overtaken>>

\* Mutant of PersistSession: the session is written without the lease.
PersistSessionUnfenced(r, t) ==
    LET s == dispatch[r][t].session
    IN  /\ Dispatching(r, t, "sent")
        /\ Write(r, [run[r] EXCEPT !.session = s])
        /\ dispatch' = [dispatch EXCEPT ![r][t] = DispatchOver]
        /\ UNCHANGED <<address, inbox, worker, tasks, answer, overtaken>>

\* setScheduledRunSession, and the error when the lease was lost meanwhile.
PersistSession(r, t) ==
    LET s == dispatch[r][t].session
    IN  /\ Dispatching(r, t, "sent")
        /\ IF Holds(run[r], t) THEN SetSession(r, t, s) ELSE RunUnchanged
        /\ dispatch' = [dispatch EXCEPT ![r][t] =
                          IF SessionPersisted(run[r], t, s) THEN DispatchOver
                          ELSE [@ EXCEPT !.phase = "refused"]]
        /\ UNCHANGED <<address, inbox, worker, tasks, answer, overtaken>>

\* A release by a caller whose token the row no longer carries finds nothing.
Release(r, t, by) ==
    IF run[r].token = t THEN ReleaseRead(r, t, by) ELSE RunUnchanged

ReleaseDispatch(r, t) ==
    /\ Dispatching(r, t, "refused")
    /\ Release(r, t, "dispatcher")
    /\ dispatch' = [dispatch EXCEPT ![r][t] = DispatchOver]
    /\ UNCHANGED <<address, inbox, worker, tasks, answer, overtaken>>

DispatchCrash(r, t) ==
    /\ "dispatch_crash" \in Faults
    /\ \/ dispatch[r][t].phase \in {"claimed", "sent", "refused"} /\ RunUnchanged
       \/ \E read \in reads : /\ read.by = "dispatcher" /\ read.run = r /\ read.token = t
                              /\ ReleaseLost(read)
    /\ dispatch' = [dispatch EXCEPT ![r][t] = DispatchOver]
    /\ UNCHANGED <<address, inbox, worker, tasks, answer, overtaken>>

(***************************************************************************)
(* The session: turns, model steps, and the hook on each of their events.  *)
(***************************************************************************)
\* scheduledRunIdentity: the lease of auth.current when a dispatch sent the
\* message of this turn, the lease of auth.initiator otherwise.
Identity(r) == IF worker[r].current # None THEN worker[r].current ELSE address[r]

AtPhase(r, phases) == worker[r].phase \in phases

\* A turn begins under an identifier no row still remembers, and its turn.started hook runs.
StartTurn(r, current) ==
    LET t == IF current # None THEN current ELSE address[r]
    IN  /\ \E u \in Turns \ {run[r].deferred} :
              worker' = [worker EXCEPT ![r] = [phase |-> "model", current |-> current,
                                               turn |-> u, delegated |-> FALSE]]
        /\ IF Holds(run[r], t) THEN MarkStarted(r, t, address[r]) ELSE RunUnchanged
        /\ UNCHANGED <<dispatch, address, answer, overtaken>>

MessageTurn(r) ==
    /\ AtPhase(r, {"idle"}) /\ inbox[r] # <<>>
    /\ StartTurn(r, Head(inbox[r]))
    /\ inbox' = [inbox EXCEPT ![r] = Tail(@)]
    /\ UNCHANGED tasks

\* A background task ends and wakes the session; no caller is current.
WakeTurn(r) ==
    /\ AtPhase(r, {"idle"}) /\ tasks[r].waiting > 0
    /\ StartTurn(r, None)
    /\ tasks' = [tasks EXCEPT ![r].waiting = @ - 1]
    /\ UNCHANGED inbox

\* The caller of an answered turn is "scheduled-input", which is no lease.
AnsweredTurn(r) ==
    /\ AtPhase(r, {"starting"})
    /\ StartTurn(r, None)
    /\ UNCHANGED <<inbox, tasks>>

Becomes(r, state) ==
    /\ worker' = [worker EXCEPT ![r] = state]
    /\ UNCHANGED <<dispatch, address, inbox, answer>>

Moves(r, phase) == Becomes(r, [worker[r] EXCEPT !.phase = phase])
Rests(r) == Becomes(r, IdleWorker)

\* Every event that ends a turn without a final message releases the run.
Fails(r) == Release(r, Identity(r), "worker") /\ Moves(r, "failing") /\ UNCHANGED <<tasks, overtaken>>

\* The step.started gate of agent/agent.ts asks whether the lease is active.
ModelStep(r) ==
    /\ AtPhase(r, {"model"})
    /\ IF LeaseActive(run[r], Identity(r))
       THEN RunUnchanged /\ Moves(r, "step") /\ UNCHANGED <<tasks, overtaken>>
       ELSE Fails(r)

ToolCalls(r) ==
    /\ AtPhase(r, {"step"})
    /\ RunUnchanged /\ Moves(r, "model") /\ UNCHANGED <<tasks, overtaken>>

\* action.result with a task receipt: the turn delegated background work.
Delegate(r) ==
    /\ AtPhase(r, {"step"})
    /\ tasks[r].delegated < MaxDelegations
    /\ tasks' = [tasks EXCEPT ![r] = [delegated |-> @.delegated + 1,
                                      waiting |-> @.waiting + 1]]
    /\ IF Holds(run[r], Identity(r)) THEN Defer(r, Identity(r), worker[r].turn)
       ELSE RunUnchanged
    /\ Becomes(r, [worker[r] EXCEPT !.phase = "model", !.delegated = TRUE])
    /\ UNCHANGED overtaken

\* An execution of the route that has claimed the run's question and is not over.
UnderWay(a, r) == answer[a].phase \notin {"idle", "asked"} /\ answer[a].run = r

Ask(r) ==
    /\ AtPhase(r, {"step"})
    /\ IF Holds(run[r], Identity(r))
       THEN /\ WaitForInput(r, Identity(r))
            /\ overtaken' = IF \E a \in Answers : UnderWay(a, r)
                            THEN overtaken \cup {r} ELSE overtaken
       ELSE RunUnchanged /\ UNCHANGED overtaken
    /\ Moves(r, "parked") /\ UNCHANGED tasks

FinalMessage(r, kind) ==
    LET t == Identity(r)
        turn == worker[r].turn
    IN  /\ AtPhase(r, {"step"})
        /\ IF Holds(run[r], t) /\ MayComplete(run[r], turn, kind)
           THEN Complete(r, t, turn, kind) ELSE RunUnchanged
        /\ Rests(r) /\ UNCHANGED <<tasks, overtaken>>

\* turn.failed, turn.cancelled, or a message with another finish reason.
TurnFails(r) ==
    /\ \/ "worker_failure" \in Faults /\ AtPhase(r, {"model", "step"})
       \/ "parked_failure" \in Faults /\ AtPhase(r, {"parked"})
    /\ Fails(r)

SessionFails(r) ==
    /\ "parked_failure" \in Faults /\ AtPhase(r, {"parked"})
    /\ Release(r, Identity(r), "worker")
    /\ SessionEnds(r)
    /\ UNCHANGED <<dispatch, answer, overtaken>>

\* The hook returns once its release is written.
FailureHandled(r) ==
    /\ AtPhase(r, {"failing"})
    /\ \A read \in reads : read.run # r \/ read.by # "worker"
    /\ RunUnchanged /\ Rests(r) /\ UNCHANGED <<tasks, overtaken>>

ReleaseWrites(read) == ReleaseWrite(read) /\ UNCHANGED workerVars

(***************************************************************************)
(* The answer route.                                                       *)
(***************************************************************************)
AnswerAt(a, phase) == answer[a].phase = phase

OnlyAnswer == UNCHANGED <<dispatch, address, inbox, tasks>>

\* schedules-answer looks the waiting run up, in the conversation once its
\* question was delivered or in the report turn that carries it.
AnswerAsked(a, r) ==
    /\ AnswerAt(a, "idle")
    /\ run[r].status = "waiting_for_input"
    /\ run[r].report \in {"queued", "delivered"}
    /\ run[r].token # None /\ run[r].question # 0 /\ run[r].session # None
    /\ answer' = [answer EXCEPT ![a] = [phase |-> "asked", run |-> r,
                                        token |-> run[r].token, session |-> None]]
    /\ RunUnchanged /\ OnlyAnswer /\ UNCHANGED <<worker, overtaken>>

\* The claim is written before its row is judged: a row without a question or
\* a session answers 409 and stays running.
AnswerClaims(a) ==
    LET r == answer[a].run
        t == answer[a].token
        open == run[r].status = "waiting_for_input" /\ run[r].token = t
    IN  /\ AnswerAt(a, "asked")
        /\ IF open THEN ClaimInput(r, t) ELSE RunUnchanged
        /\ answer' = [answer EXCEPT ![a] =
              IF open /\ run[r].question # 0 /\ run[r].session # None
              THEN [@ EXCEPT !.phase = "claimed"] ELSE IdleAnswer]
        /\ OnlyAnswer /\ UNCHANGED <<worker, overtaken>>

\* The claimed row is read again, with its job, before the answer is parsed.
AnswerReads(a) ==
    LET r == answer[a].run
    IN  /\ AnswerAt(a, "claimed")
        /\ answer' = [answer EXCEPT ![a] =
              IF run[r].question # 0 /\ run[r].session # None
              THEN [@ EXCEPT !.phase = "respond", !.session = run[r].session]
              ELSE IdleAnswer]
        /\ RunUnchanged /\ OnlyAnswer /\ UNCHANGED <<worker, overtaken>>

Resumes(r) == worker' = [worker EXCEPT ![r] = [IdleWorker EXCEPT !.phase = "starting"]]

\* The session takes the answer, or is no longer there, or respond throws with
\* the answer delivered or not.
AnswerResponds(a) ==
    LET r == answer[a].run
        alive == address[r] = answer[a].session
        parked == alive /\ AtPhase(r, {"parked"})
        Next_(phase) == answer' = [answer EXCEPT ![a].phase = phase]
    IN  /\ AnswerAt(a, "respond")
        /\ \/ parked /\ Resumes(r) /\ Next_("accepted") /\ UNCHANGED overtaken
           \/ alive /\ ~parked /\ UNCHANGED <<worker, overtaken>> /\ Next_("accepted")
           \/ ~parked /\ UNCHANGED <<worker, overtaken>> /\ Next_("restore")
           \/ /\ "answer_unknown" \in Faults
              /\ \/ parked /\ Resumes(r) /\ overtaken' = overtaken \cup {r}
                 \/ UNCHANGED <<worker, overtaken>>
              /\ Next_("restore")
        /\ RunUnchanged /\ OnlyAnswer

\* restoreScheduledAgentRunInput; also the whole of a 422 answer.
AnswerRestores(a) ==
    LET r == answer[a].run
        t == answer[a].token
    IN  /\ AnswerAt(a, "restore") \/ AnswerAt(a, "respond")
        /\ IF Holds(run[r], t) THEN RestoreInput(r, t) ELSE RunUnchanged
        /\ answer' = [answer EXCEPT ![a] = IdleAnswer]
        /\ OnlyAnswer /\ UNCHANGED <<worker, overtaken>>

AnswerFinishes(a) ==
    LET r == answer[a].run
        t == answer[a].token
        Finish == IF Holds(run[r], t) THEN FinishInput(r, t) ELSE RunUnchanged
    IN  /\ AnswerAt(a, "accepted")
        /\ \/ Finish /\ answer' = [answer EXCEPT ![a] = IdleAnswer] /\ UNCHANGED overtaken
           \/ /\ "answer_unknown" \in Faults
              /\ Finish \/ RunUnchanged
              /\ answer' = [answer EXCEPT ![a].phase = "restore"]
              /\ overtaken' = overtaken \cup {r}
        /\ OnlyAnswer /\ UNCHANGED worker

AnswerCrash(a) ==
    /\ "answer_crash" \in Faults
    /\ ~AnswerAt(a, "idle")
    /\ answer' = [answer EXCEPT ![a] = IdleAnswer]
    /\ RunUnchanged /\ OnlyAnswer /\ UNCHANGED <<worker, overtaken>>

(***************************************************************************)
(* The specification.                                                      *)
(***************************************************************************)
DispatchStep(r, t) ==
    Send(r, t) \/ SendUnknown(r, t) \/ SendRefused(r, t) \/ PersistSession(r, t)
    \/ ReleaseDispatch(r, t)

WorkerStep(r) ==
    \/ MessageTurn(r) \/ WakeTurn(r) \/ AnsweredTurn(r)
    \/ ModelStep(r) \/ ToolCalls(r) \/ Delegate(r) \/ Ask(r)
    \/ \E kind \in {"result", "nothing_to_report"} : FinalMessage(r, kind)
    \/ TurnFails(r) \/ SessionFails(r) \/ FailureHandled(r)

AnswerStep(a) ==
    AnswerClaims(a) \/ AnswerReads(a) \/ AnswerResponds(a) \/ AnswerRestores(a)
    \/ AnswerFinishes(a)

WorkersNext ==
    \/ \E batch \in SUBSET Runs, t \in Tokens : Tick(batch, t)
    \/ \E r \in Runs, t \in Tokens : DispatchStep(r, t) \/ DispatchCrash(r, t)
    \/ \E r \in Runs : WorkerStep(r)
    \/ \E read \in reads : ReleaseWrites(read)
    \/ \E a \in Answers : \/ \E r \in Runs : AnswerAsked(a, r)
                           \/ AnswerStep(a)
                           \/ AnswerCrash(a)
    \/ \E r \in Runs : (ReportCall(r) \/ TimePasses(r)) /\ UNCHANGED workerVars

WorkersSafety == WorkersInit /\ [][WorkersNext]_allVars

\* The tick comes every minute, a live process takes its next statement, Eve
\* drives a session until its turn ends, a background task ends, and time
\* passes.  Nothing obliges a user to answer or a fault to happen.
Fairness ==
    /\ \A r \in Runs :
          /\ WF_allVars(\E t \in Tokens : Tick({r}, t))
          /\ \A t \in Tokens : WF_allVars(DispatchStep(r, t))
          /\ WF_allVars(WorkerStep(r))
          /\ WF_allVars(\E read \in reads : read.run = r /\ ReleaseWrites(read))
          /\ WF_allVars(Reaches("lease", r) /\ UNCHANGED workerVars)
          /\ WF_allVars(Reaches("retry", r) /\ UNCHANGED workerVars)
    /\ \A a \in Answers : WF_allVars(AnswerStep(a))

WorkersSpec == WorkersSafety /\ Fairness

-----------------------------------------------------------------------------
(***************************************************************************)
(* Properties.                                                             *)
(***************************************************************************)

\* A run that waits has a question to show and a session to take the answer
\* to, or the answer route would claim it and leave it running.
WaitingIsAnswerable ==
    \A r \in Runs \ overtaken : run[r].status = "waiting_for_input" =>
        run[r].question # 0 /\ run[r].session # None

\* A run waits only while the session it names is parked on its question, or
\* is about to release it: no answer is asked for on behalf of a worker that
\* went on, was reset or was replaced.
WaitingHasParkedWorker ==
    \A r \in Runs \ overtaken : run[r].status = "waiting_for_input" =>
        \/ AtPhase(r, {"parked"}) /\ address[r] = run[r].session
        \/ \E read \in reads : read.run = r /\ read.token = run[r].token

\* A question is reported under the report sequence it opened, so the key
\* scheduled-report:<run>:<sequence> never names two messages.
QuestionKeepsItsSequence ==
    \A r \in Runs \ overtaken : run[r].status = "waiting_for_input" =>
        run[r].question = run[r].seq

\* The question of a waiting run can be shown, answered and told from every other,
\* unless the worker asked it while an answer was under way, or went on with an answer
\* whose question the route put back all the same (README section 6).
QuestionsStand == WaitingIsAnswerable /\ WaitingHasParkedWorker /\ QuestionKeepsItsSequence

\* A running run has somebody who will move it on: its dispatch, a reclaim
\* when the startup lease ends, a turn under its lease, or an answer on its
\* way to the parked session.
RunningIsOwned ==
    \A r \in Runs : run[r].status = "running" =>
        LET t == run[r].token
        IN  \/ dispatch[r][t].phase \in {"claimed", "sent", "refused"}
            \/ run[r].session = None
            \/ \E i \in 1..Len(inbox[r]) : inbox[r][i] = t
            \/ worker[r].phase \notin {"idle", "parked"} /\ Identity(r) = t
            \/ tasks[r].waiting > 0
            \/ \E read \in reads : read.run = r /\ read.token = t
            \/ \E a \in Answers : ~AnswerAt(a, "idle") /\ answer[a].token = t

\* The final message of the turn that delegated background work is interim: it
\* does not complete the run, a later turn does, if the run asked no question
\* (README section 6).
InterimIsNotFinal ==
    [][\A r \in Runs : worker[r].delegated /\ run[r].status = "running" /\ run[r].seq = 0 =>
          run'[r].status # "completed"]_allVars

\* A run that asked no question is not closed as having nothing to report while
\* background work its session delegated may still wake it.
SilenceWaitsForTasks ==
    [][\A r \in Runs :
          run[r].status = "running" /\ run[r].seq = 0 /\ run'[r].outcome = "nothing_to_report" =>
              tasks[r].waiting = 0]_allVars

\* A run that delegated work and asked no question ends by the final word of its worker:
\* neither an interim message nor an early silence ends it.
FinalWordsEnd == InterimIsNotFinal /\ SilenceWaitsForTasks

\* Every run that is due leaves the queue and its worker's hands: it finishes
\* or waits for its user.
RunSettles ==
    \A r \in Runs : run[r].status \in {"queued", "running"} ~>
                    run[r].status \in {"waiting_for_input", "completed", "dead_letter"}

\* The callers only ever use the store as ScheduledRuns allows: every step of
\* the composition is one of its calls, with a token that was granted to its
\* caller, or leaves the rows alone.  So what holds of ScheduledRuns holds here.
FollowsStore == Spec
=============================================================================
