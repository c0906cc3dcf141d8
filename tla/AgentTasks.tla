----------------------------- MODULE AgentTasks -----------------------------
(***************************************************************************)
(* server/a2a: the tasks another agent sends under a grant.  A task is a    *)
(* row; its work is an Eve session found at the task's own address.  The    *)
(* request and the minute schedule deliver it, the session reports to the   *)
(* row, its questions are answered through the row, and the row's deletion  *)
(* or cancellation must reach a session that may not be recorded yet.       *)
(*                                                                         *)
(* A turn belongs to Eve and is external: it may ask, end, fail or be       *)
(* stopped at any time.  Limits on the number of tasks, contexts and reads  *)
(* of a task only refuse or report, and are left out.                       *)
(***************************************************************************)
EXTENDS Naturals, FiniteSets, Sequences, SequencesExt

CONSTANTS
    Tasks,        \* tasks of one grant
    Deliverers,   \* requests and schedule runs that deliver a task
    Questions,    \* what a session may ask
    Answers,      \* message identifiers of answers
    None,         \* no task, no answer
    Faults        \* among: "timeout" (25 s), "crash" (a deliverer), "replay" (a session)

VARIABLES
    grant,      \* the authority every task depends on
    task,       \* agent_protocol_tasks: state, and whether session_id is set
    outbox,     \* agent_protocol_cancellations, by the task of the session
    receipts,   \* native_delivery_receipts of the answers
    ses,        \* Eve's session of each task
    chan,       \* the channel state its next checkpoint keeps
    mail,       \* answers Eve queued for each session
    deliverer,  \* where each delivery is
    answer      \* where each answer's request is

VARIABLES
    known,      \* history: tasks a delivery or the row has known the session of
    used        \* history: answers a session went on with

taskVars == <<grant, task, outbox, receipts, ses, chan, mail, deliverer, answer, known, used>>

Active == {"SUBMITTED", "WORKING", "INPUT_REQUIRED"}
Terminal == {"COMPLETED", "FAILED", "CANCELED"}

\* none: not accepted yet.  dropped: deleted while active or canceled; removed:
\* deleted after it completed or failed.
TaskStates == Active \cup Terminal \cup {"none", "dropped", "removed"}

\* queued: the prompt waits in Eve; running and parked: a turn; ending: its
\* end was authorized; rest: no turn; over: the session failed.  visible: the
\* checkpoint published the receipt and the alias.  live: requests Eve waits for;
\* asked: those it ever made, each under an identifier of its own.
\* taking: the answer whose acceptance is committed and not checkpointed.
Phases == {"none", "queued", "running", "parked", "ending", "rest", "over"}
Session == [phase: Phases, visible: BOOLEAN, told: BOOLEAN, live: SUBSET Questions,
            asked: SUBSET Questions, taking: Answers \cup {None}]
Channel == [questions: SUBSET Questions, human: BOOLEAN, receipts: SUBSET Answers]

\* sending holds the lock of the task's address; seen has Eve's session.
Delivery == [pc: {"idle", "checked", "sending", "seen", "bound", "lost"}, task: Tasks \cup {None}]
Request == [pc: {"none", "sent", "timedOut"}, task: Tasks \cup {None}, to: Questions \cup {None}]

\* The last conjunct: a session the row records has begun.
TaskTypeOK ==
    /\ grant \in {"live", "expired", "revoked", "gone"}
    /\ task \in [Tasks -> [state: TaskStates, bound: BOOLEAN]]
    /\ outbox \subseteq Tasks
    /\ receipts \subseteq Answers /\ used \subseteq Answers /\ known \subseteq Tasks
    /\ ses \in [Tasks -> Session] /\ chan \in [Tasks -> Channel]
    /\ mail \in [Tasks -> Seq(Answers)]
    /\ deliverer \in [Deliverers -> Delivery]
    /\ answer \in [Answers -> Request]
    /\ \A t \in Tasks : task[t].bound => ses[t].phase \notin {"none", "queued"}

NewSession == [phase |-> "none", visible |-> FALSE, told |-> FALSE, live |-> {},
               asked |-> {}, taking |-> None]
NewChannel == [questions |-> {}, human |-> FALSE, receipts |-> {}]
IdleDelivery == [pc |-> "idle", task |-> None]
NoRequest == [pc |-> "none", task |-> None, to |-> None]

TaskInit ==
    /\ grant = "live"
    /\ task = [t \in Tasks |-> [state |-> "none", bound |-> FALSE]]
    /\ outbox = {} /\ receipts = {} /\ used = {} /\ known = {}
    /\ ses = [t \in Tasks |-> NewSession]
    /\ chan = [t \in Tasks |-> NewChannel]
    /\ mail = [t \in Tasks |-> <<>>]
    /\ deliverer = [d \in Deliverers |-> IdleDelivery]
    /\ answer = [a \in Answers |-> NoRequest]

Is(t, states) == task[t].state \in states
Underway == {t \in Tasks : Is(t, Active)}
Authorized(t) == grant = "live" /\ Is(t, Active \cup Terminal)
MayAct(t) == grant = "live" /\ Is(t, {"SUBMITTED", "WORKING"})

(***************************************************************************)
(* Rows.  The trigger on every UPDATE and DELETE of a task queues the       *)
(* cancellation of its session, when it has one.                            *)
(***************************************************************************)
Enqueued(W, new) ==
    outbox \cup {t \in W : new[t].bound /\ new[t].state \in {"CANCELED", "dropped"}}

\* One statement on the rows W.
Writes(W, new) ==
    /\ task' = new
    /\ outbox' = Enqueued(W, new)
    /\ known' = known \cup {t \in W : new[t].bound}

NoWrite == UNCHANGED <<task, outbox, known>>

Delivering == UNCHANGED <<receipts, ses, chan, mail, answer, used>>

Submits(t) ==
    /\ grant = "live" /\ Is(t, {"none"})
    /\ Writes({t}, [task EXCEPT ![t].state = "SUBMITTED"])
    /\ UNCHANGED <<grant, deliverer>> /\ Delivering

\* CancelTask: the row first; the session itself is told unless that call fails.
Cancels(t) ==
    /\ Authorized(t) /\ Is(t, Active \cup {"CANCELED"})
    /\ Writes({t}, [task EXCEPT ![t].state = "CANCELED"])
    /\ UNCHANGED <<grant, deliverer, receipts, chan, mail, answer, used>>
    /\ \/ UNCHANGED ses
       \/ task[t].bound /\ ses' = [ses EXCEPT ![t].told = TRUE]

Expires ==
    /\ grant = "live"
    /\ grant' = "expired"
    /\ NoWrite /\ UNCHANGED deliverer /\ Delivering

Revokes ==
    /\ grant \in {"live", "expired"}
    /\ grant' = "revoked"
    /\ Writes(Underway, [t \in Tasks |-> IF t \in Underway THEN [task[t] EXCEPT !.state = "CANCELED"]
                                         ELSE task[t]])
    /\ UNCHANGED deliverer /\ Delivering

Deleted(row) ==
    [row EXCEPT !.state = IF @ = "none" THEN "none"
                          ELSE IF @ \in Active \cup {"CANCELED"} THEN "dropped" ELSE "removed"]

\* A member, bot or workspace that goes takes the grant and its tasks along.
DeletesGrant ==
    /\ grant # "gone"
    /\ grant' = "gone"
    /\ Writes(Tasks, [t \in Tasks |-> Deleted(task[t])])
    /\ UNCHANGED deliverer /\ Delivering

(***************************************************************************)
(* Delivery, by the request that submitted the task or by the schedule.     *)
(***************************************************************************)
At(d, pc, t) == deliverer[d] = [pc |-> pc, task |-> t]
Moves(d, pc, t) == deliverer' = [deliverer EXCEPT ![d] = [pc |-> pc, task |-> t]]
Leaves(d) == deliverer' = [deliverer EXCEPT ![d] = IdleDelivery]

Picks(d, t) ==
    /\ deliverer[d].pc = "idle"
    /\ grant = "live" /\ Is(t, {"SUBMITTED"})
    /\ Moves(d, "checked", t)
    /\ UNCHANGED grant /\ NoWrite /\ Delivering

\* The authority is asked again; refused, or the address locked until the timeout.
GivesUp(d, t) ==
    /\ At(d, "checked", t)
    /\ ~MayAct(t) \/ "timeout" \in Faults
    /\ Leaves(d)
    /\ UNCHANGED grant /\ NoWrite /\ Delivering

Free(t) == \A d \in Deliverers : ~At(d, "sending", t)

\* A second copy of the prompt is dropped by its receipt.
Sends(d, t) ==
    /\ At(d, "checked", t) /\ MayAct(t) /\ Free(t)
    /\ Moves(d, "sending", t)
    /\ ses' = [ses EXCEPT ![t].phase = IF @ = "none" THEN "queued" ELSE @]
    /\ UNCHANGED <<grant, receipts, chan, mail, answer, used>> /\ NoWrite

Sees(d, t) ==
    /\ At(d, "sending", t)
    /\ ses[t].visible /\ ses[t].phase # "over"
    /\ Moves(d, "seen", t)
    /\ known' = known \cup {t}
    /\ UNCHANGED <<grant, task, outbox>> /\ Delivering

StopsWaiting(d, t) ==
    /\ At(d, "sending", t) /\ "timeout" \in Faults
    /\ Leaves(d)
    /\ UNCHANGED grant /\ NoWrite /\ Delivering

BoundRow(row) == [state |-> IF row.state = "SUBMITTED" THEN "WORKING" ELSE row.state, bound |-> TRUE]

Binds(d, t) ==
    /\ At(d, "seen", t) /\ Authorized(t)
    /\ Writes({t}, [task EXCEPT ![t] = BoundRow(@)])
    /\ Moves(d, "bound", t)
    /\ UNCHANGED grant /\ Delivering

LosesSource(d, t) ==
    /\ At(d, "seen", t) \/ At(d, "bound", t)
    /\ ~Authorized(t)
    /\ Moves(d, "lost", t)
    /\ UNCHANGED grant /\ NoWrite /\ Delivering

KeepsCancellation(d, t) ==
    /\ At(d, "lost", t)
    /\ outbox' = outbox \cup {t}
    /\ Leaves(d)
    /\ UNCHANGED <<grant, task, known>> /\ Delivering

ReadsBack(d, t) ==
    /\ At(d, "bound", t) /\ Authorized(t)
    /\ Leaves(d)
    /\ ses' = [ses EXCEPT ![t].told = @ \/ Is(t, {"CANCELED"})]
    /\ UNCHANGED <<grant, receipts, chan, mail, answer, used>> /\ NoWrite

Crashes(d) ==
    /\ "crash" \in Faults /\ deliverer[d].pc # "idle"
    /\ Leaves(d)
    /\ UNCHANGED grant /\ NoWrite /\ Delivering

\* The schedule takes a cancellation to its session; an unknown one waits.
DeliversCancellation(t) ==
    /\ t \in outbox
    /\ ses[t].visible /\ ses[t].phase # "over"
    /\ ses' = [ses EXCEPT ![t].told = TRUE]
    /\ outbox' = outbox \ {t}
    /\ UNCHANGED <<grant, task, known, deliverer, receipts, chan, mail, answer, used>>

(***************************************************************************)
(* The session.                                                             *)
(***************************************************************************)
Working == UNCHANGED <<grant, deliverer, answer>>

Begins(t) ==
    /\ ses[t].phase = "queued"
    /\ ses' = [ses EXCEPT ![t].phase = "running"]
    /\ NoWrite /\ Working /\ UNCHANGED <<receipts, chan, mail, used>>

Checkpoints(t) ==
    /\ ses[t].phase \notin {"none", "queued", "over"} /\ ~ses[t].visible
    /\ ses' = [ses EXCEPT ![t].visible = TRUE]
    /\ NoWrite /\ Working /\ UNCHANGED <<receipts, chan, mail, used>>

\* input.requested: questions Q and, perhaps, a request only a human may answer.
\* A terminal task keeps its state and its channel; without a grant the hook fails.
Asks(t, Q, human) ==
    /\ ses[t].phase = "running"
    /\ Q # {} \/ human
    /\ Q \cap ses[t].asked = {}
    /\ ses' = [ses EXCEPT ![t].phase = "parked", ![t].live = @ \cup Q, ![t].asked = @ \cup Q]
    /\ IF grant = "live" /\ Is(t, Active)
       THEN /\ Writes({t}, [task EXCEPT ![t] = [state |-> "INPUT_REQUIRED", bound |-> TRUE]])
            /\ chan' = [chan EXCEPT ![t].questions = @ \cup Q, ![t].human = @ \/ human]
       ELSE NoWrite /\ UNCHANGED chan
    /\ Working /\ UNCHANGED <<receipts, mail, used>>

\* message.completed, turn.failed: the authority first, the row after it.
Ends(t) ==
    /\ ses[t].phase = "running"
    /\ ses' = [ses EXCEPT ![t].phase = IF MayAct(t) THEN "ending" ELSE "rest"]
    /\ NoWrite /\ Working /\ UNCHANGED <<receipts, chan, mail, used>>

\* Mutant of Finished: the row is written whatever became of it.
FinishedAnyway(row, state) == [row EXCEPT !.state = IF @ \in Active \cup Terminal THEN state ELSE @]

Finished(row, state) == [row EXCEPT !.state = IF @ \in Active THEN state ELSE @]

Finishes(t, state) ==
    /\ ses[t].phase = "ending"
    /\ ses' = [ses EXCEPT ![t].phase = "rest"]
    /\ IF Authorized(t) THEN Writes({t} \cap Underway, [task EXCEPT ![t] = Finished(@, state)]) ELSE NoWrite
    /\ Working /\ UNCHANGED <<receipts, chan, mail, used>>

Failed(row) == IF row.state \in Active THEN [state |-> "FAILED", bound |-> TRUE] ELSE row

\* session.failed ends the session, whether or not its prompt was acknowledged.
SessionFails(t) ==
    /\ ses[t].phase \in {"running", "parked", "ending", "rest"}
    /\ ses' = [ses EXCEPT ![t] = [@ EXCEPT !.phase = "over", !.live = {}, !.taking = None]]
    /\ Writes({t} \cap Underway, [task EXCEPT ![t] = Failed(@)])
    /\ Working /\ UNCHANGED <<receipts, chan, mail, used>>

\* context.cleared: the conversation starts over and its task fails.
Clears(t) ==
    /\ ses[t].phase \in {"running", "parked", "rest"} /\ ses[t].taking = None
    /\ ses' = [ses EXCEPT ![t] = [@ EXCEPT !.phase = "rest", !.live = {}]]
    /\ chan' = [chan EXCEPT ![t].questions = {}, ![t].human = FALSE]
    /\ Writes({t} \cap Underway, [task EXCEPT ![t] = Failed(@)])
    /\ Working /\ UNCHANGED <<receipts, mail, used>>

\* A session told to stop drops its turn and what it waits for.
Stops(t) ==
    /\ ses[t].told /\ ses[t].phase \in {"running", "parked"} /\ ses[t].taking = None
    /\ ses' = [ses EXCEPT ![t] = [@ EXCEPT !.phase = "rest", !.live = {}]]
    /\ NoWrite /\ Working /\ UNCHANGED <<receipts, chan, mail, used>>

(***************************************************************************)
(* Answers.  The request holds the lock of the session while it waits for   *)
(* the receipt of its answer.                                               *)
(***************************************************************************)
Unlocked(t) == \A a \in Answers : ~(answer[a].pc = "sent" /\ answer[a].task = t)
IsFor(a, t, q) == answer[a].pc = "none" \/ (answer[a].task = t /\ answer[a].to = q)

\* A message identifier keeps its answer: anything else is refused as its reuse.
Responds(a, t, q) ==
    /\ answer[a].pc # "sent" /\ IsFor(a, t, q) /\ Unlocked(t)
    /\ a \notin receipts
    /\ Authorized(t) /\ Is(t, {"INPUT_REQUIRED"}) /\ task[t].bound
    /\ q \in ses[t].live
    /\ answer' = [answer EXCEPT ![a] = [pc |-> "sent", task |-> t, to |-> q]]
    /\ mail' = [mail EXCEPT ![t] = Append(@, a)]
    /\ NoWrite /\ UNCHANGED <<grant, receipts, ses, chan, deliverer, used>>

\* The receipt is there, or 25 seconds went by.
StopsAnswering(a) ==
    /\ answer[a].pc = "sent"
    /\ a \in receipts \/ "timeout" \in Faults
    /\ answer' = [answer EXCEPT ![a].pc = "timedOut"]
    /\ NoWrite /\ UNCHANGED <<grant, receipts, ses, chan, mail, deliverer, used>>

\* The consumer's fence: a replay may find the task working already.
Pending(t, a) ==
    /\ Authorized(t) /\ task[t].bound
    /\ answer[a].to \in chan[t].questions
    /\ Is(t, {"INPUT_REQUIRED"}) \/ (Is(t, {"WORKING"}) /\ a \in receipts)

StateAfter(t, a) ==
    IF chan[t].questions \ {answer[a].to} # {} \/ chan[t].human THEN "INPUT_REQUIRED" ELSE "WORKING"

Consumes(t) ==
    LET a == Head(mail[t])
    IN  /\ mail[t] # <<>> /\ ses[t].taking = None
        /\ ses[t].phase \in {"parked", "rest"}
        /\ IF a \notin chan[t].receipts /\ Pending(t, a)
           THEN /\ Writes({t}, [task EXCEPT ![t].state = StateAfter(t, a)])
                /\ receipts' = receipts \cup {a}
                /\ ses' = [ses EXCEPT ![t].taking = a]
                /\ UNCHANGED mail
           ELSE /\ mail' = [mail EXCEPT ![t] = Tail(@)]
                /\ NoWrite /\ UNCHANGED <<receipts, ses>>
        /\ Working /\ UNCHANGED <<chan, used>>

\* The checkpoint: the channel forgets the question and Eve goes on with the answer.
Takes(t) ==
    LET a == ses[t].taking
        left == ses[t].live \ {answer[a].to}
    IN  /\ a # None
        /\ chan' = [chan EXCEPT ![t].questions = @ \ {answer[a].to}, ![t].receipts = @ \cup {a}]
        /\ ses' = [ses EXCEPT ![t] = [@ EXCEPT
                     !.taking = None, !.live = left,
                     !.phase = IF left = {} /\ ~chan[t].human /\ @ = "parked" THEN "running" ELSE @]]
        /\ mail' = [mail EXCEPT ![t] = Tail(@)]
        /\ used' = used \cup {a}
        /\ NoWrite /\ Working /\ UNCHANGED receipts

\* The worker of the session goes before its checkpoint: Eve delivers the answer again.
Replays(t) ==
    /\ "replay" \in Faults /\ ses[t].taking # None
    /\ ses' = [ses EXCEPT ![t].taking = None]
    /\ NoWrite /\ Working /\ UNCHANGED <<receipts, chan, mail, used>>

RowsNext == Expires \/ Revokes \/ DeletesGrant \/ \E t \in Tasks : Submits(t) \/ Cancels(t)

DeliveryNext ==
    \/ \E d \in Deliverers : Crashes(d)
    \/ \E d \in Deliverers, t \in Tasks :
          \/ Picks(d, t) \/ GivesUp(d, t) \/ Sends(d, t) \/ Sees(d, t) \/ StopsWaiting(d, t)
          \/ Binds(d, t) \/ LosesSource(d, t) \/ KeepsCancellation(d, t) \/ ReadsBack(d, t)
    \/ \E t \in Tasks : DeliversCancellation(t)

SessionNext ==
    \E t \in Tasks :
        \/ Begins(t) \/ Checkpoints(t) \/ Ends(t) \/ SessionFails(t) \/ Clears(t) \/ Stops(t)
        \/ \E Q \in SUBSET Questions, human \in BOOLEAN : Asks(t, Q, human)
        \/ \E state \in {"COMPLETED", "FAILED"} : Finishes(t, state)

AnswerNext ==
    \/ \E a \in Answers : StopsAnswering(a)
    \/ \E a \in Answers, t \in Tasks, q \in Questions : Responds(a, t, q)
    \/ \E t \in Tasks : Consumes(t) \/ Takes(t) \/ Replays(t)

TaskNext == RowsNext \/ DeliveryNext \/ SessionNext \/ AnswerNext

TaskSpec == TaskInit /\ [][TaskNext]_taskVars

\* The schedule picks submitted tasks and queued cancellations every minute and
\* a process goes on with what it does; a checkpoint is written in the end; a
\* turn whose end was authorized reports it.
TaskFairness ==
    /\ \A t \in Tasks : /\ WF_taskVars(Begins(t)) /\ WF_taskVars(Checkpoints(t))
                        /\ SF_taskVars(DeliversCancellation(t))
    /\ \A d \in Deliverers, t \in Tasks :
          /\ SF_taskVars(Picks(d, t)) /\ SF_taskVars(Sends(d, t)) /\ SF_taskVars(Sees(d, t))
          /\ WF_taskVars(GivesUp(d, t) /\ ~MayAct(t))
          /\ WF_taskVars(Binds(d, t) \/ LosesSource(d, t))
          /\ WF_taskVars(KeepsCancellation(d, t))
          /\ WF_taskVars(ReadsBack(d, t))

(***************************************************************************)
(* Properties.                                                              *)
(***************************************************************************)
\* tasks.ts: what ended stays as it ended, whoever delivers late, answers,
\* cancels, fails or finishes: a step takes a row from its last state only by its
\* deletion.
EndedStaysEnded ==
    \A t \in Tasks : task[t].state \in Terminal =>
        task'[t].state \in {task[t].state, "dropped", "removed"}

\* inputs.ts: while a session waits for an answer and the grant is good, its
\* task says so, so that the answer is let through: neither a late binding nor a lost checkpoint
\* leaves a parked session behind a working task.
ParkedIsAnswerable ==
    \A t \in Tasks :
        grant = "live" /\ ses[t].phase = "parked" /\ chan[t].questions # {} /\ Is(t, Active) =>
            \/ Is(t, {"INPUT_REQUIRED"})
            \/ ses[t].taking # None
            \/ mail[t] # <<>> /\ Head(mail[t]) \in receipts /\ answer[Head(mail[t])].to \in chan[t].questions

\* inputs.ts, durable-delivery.ts:166: a session goes on with one answer to a
\* question, however many messages answered it and however often their requests
\* were retried; and it is the answer whose receipt its sender read.
OneAnswerEach ==
    \A a \in receipts, b \in used :
        answer[a].task = answer[b].task /\ answer[a].to = answer[b].to => a = b

\* delivery.ts:61, the trigger of migration 0052: once the row or a delivery
\* knows the session of a task, the task's cancellation or deletion is told to
\* it, unless its turn ended before.
CancellationIsDurable ==
    \A t \in Tasks :
        (t \in known /\ Is(t, {"CANCELED", "dropped"})) ~> (ses[t].told \/ ses[t].phase \in {"rest", "over"})

\* delivery.ts: an accepted task does not wait forever while its grant is good.
SubmittedIsDelivered ==
    \A t \in Tasks : Is(t, {"SUBMITTED"}) ~> (~Is(t, {"SUBMITTED"}) \/ grant # "live")
=============================================================================
