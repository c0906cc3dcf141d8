-------------------------- MODULE MatrixDeliveries --------------------------
(***************************************************************************)
(* server/matrix: a mention of Zoen in a team room is accepted once as a    *)
(* delivery row.  The request that brought it and the minute schedule hand  *)
(* it to an Eve session at the event's own address, and what the session    *)
(* says is sent to the room inside a transaction, under a transaction id    *)
(* the homeserver knows again.  A mention may instead answer a question an  *)
(* earlier delivery of its sender asked in the room.                        *)
(*                                                                         *)
(* One room, one sender.  The room's epoch changes with its members, the    *)
(* sender's access and the binding; the audience check may refuse any       *)
(* publication, which is the step not taken (MatrixAudience models it).     *)
(***************************************************************************)
EXTENDS Naturals, FiniteSets

CONSTANTS
    Events,      \* numbers of the mentions, in the order they are sent
    Decisions,   \* those that say only "approve" or "cancel"
    Attempts,    \* requests and schedule runs that deliver an event
    Requests,    \* what a session may ask
    Approvals,   \* those that approve a tool; the others take any text
    Prompts,     \* what the history around an event may read like
    None,
    MaxEpoch,    \* bound on the changes of the room
    Faults       \* "lost": the homeserver takes a message and the commit is
                 \* lost; "stop": an attempt fails, times out or crashes

VARIABLES
    epoch,      \* the binding's epoch
    row,        \* matrix_deliveries
    receipt,    \* native_delivery_receipts: the digest, which the prompt decides
    ses,        \* Eve's session of each event
    said,       \* the room: what it holds under each event's transaction id
    asked,      \* the room: the requests it shows, with the event they belong to
    before,     \* the room: the requests above each event
    attempt,    \* where each delivery of an event is
    consumed    \* history: the replies a session resolved a request with

matrixVars == <<epoch, row, receipt, ses, said, asked, before, attempt, consumed>>

Epochs == 1..MaxEpoch
Outputs == {"none", "answer", "failure"}
References == Events \X Requests
Unsettled == {"pending", "dispatched", "answer_ready"}

Row == [state : {"none", "completed", "suppressed"} \cup Unsettled, session : BOOLEAN,
        epoch : Epochs, prompt : Prompts \cup {None}, output : Outputs]

\* queue: copies of the prompt Eve holds; visible: its checkpoint shows the
\* alias; live: what Eve waits for; answers: responses Eve accepted.
SessionOf == [phase : {"none", "running", "parked", "rest", "over"}, visible : BOOLEAN,
              queue : SUBSET Prompts, live : SUBSET Requests, resolved : SUBSET Requests,
              answers : SUBSET (Requests \X Events)]

Steps == {"idle", "listed", "matching", "matched", "admitted", "responding", "waiting", "notice",
          "unhandled", "hydrated", "prepared", "sending", "seen"}
Attempt == [pc : Steps, event : Events \cup {None}, candidates : SUBSET Events,
            to : References \cup {None}, prompt : Prompts \cup {None}]

\* The last two conjuncts: a session of the row has its receipt, and an answer
\* its session.
MatrixTypeOK ==
    /\ epoch \in Epochs
    /\ row \in [Events -> Row] /\ receipt \in [Events -> Prompts \cup {None}]
    /\ ses \in [Events -> SessionOf]
    /\ said \in [Events -> Outputs \cup {"notice"}]
    /\ asked \subseteq References /\ before \in [Events -> SUBSET References]
    /\ attempt \in [Attempts -> Attempt]
    /\ consumed \subseteq (Events \X Requests \X Events)
    /\ \A e \in Events : row[e].session => receipt[e] # None
    /\ \A e \in Events : row[e].state = "answer_ready" => row[e].session /\ row[e].output # "none"

NewRow == [state |-> "none", session |-> FALSE, epoch |-> 1, prompt |-> None, output |-> "none"]
NewSession == [phase |-> "none", visible |-> FALSE, queue |-> {}, live |-> {}, resolved |-> {},
               answers |-> {}]
Idle == [pc |-> "idle", event |-> None, candidates |-> {}, to |-> None, prompt |-> None]

MatrixInit ==
    /\ epoch = 1
    /\ row = [e \in Events |-> NewRow] /\ receipt = [e \in Events |-> None]
    /\ ses = [e \in Events |-> NewSession]
    /\ said = [e \in Events |-> "none"] /\ asked = {} /\ before = [e \in Events |-> {}]
    /\ attempt = [d \in Attempts |-> Idle]
    /\ consumed = {}

In(e, states) == row[e].state \in states
Obsolete(e) == row[e].epoch # epoch
DeliveryActor(e) == In(e, Unsettled) /\ ~Obsolete(e)
SessionActor(e) == DeliveryActor(e) /\ receipt[e] # None

InTheRoom == UNCHANGED <<said, asked, before>>
InEve == UNCHANGED <<receipt, ses, consumed>>

\* The homeserver takes a transaction id once.
Put(e, content) == [said EXCEPT ![e] = IF @ = "none" THEN content ELSE @]

(***************************************************************************)
(* Inbound, and what the schedule's cleanup does.                           *)
(***************************************************************************)
Accepts(e) ==
    /\ In(e, {"none"}) /\ \A f \in Events : f < e => ~In(f, {"none"})
    /\ row' = [row EXCEPT ![e] = [NewRow EXCEPT !.state = "pending", !.epoch = epoch]]
    /\ before' = [before EXCEPT ![e] = asked]
    /\ UNCHANGED <<epoch, said, asked, attempt>> /\ InEve

RoomChanges ==
    /\ epoch < MaxEpoch
    /\ epoch' = epoch + 1
    /\ UNCHANGED <<row, attempt>> /\ InTheRoom /\ InEve

Suppresses(e) ==
    /\ In(e, Unsettled) /\ Obsolete(e)
    /\ row' = [row EXCEPT ![e].state = "suppressed", ![e].output = "none"]
    /\ UNCHANGED <<epoch, attempt>> /\ InTheRoom /\ InEve

(***************************************************************************)
(* An attempt at an event.                                                  *)
(***************************************************************************)
At(d, pc, e) == attempt[d].pc = pc /\ attempt[d].event = e
Goes(d, pc) == attempt' = [attempt EXCEPT ![d].pc = pc]
Stops(d) == attempt' = [attempt EXCEPT ![d] = Idle]
Attempting == UNCHANGED epoch /\ InTheRoom

\* The request attempts what it accepted; the schedule what is pending.
Picks(d, e) ==
    /\ attempt[d].pc = "idle" /\ In(e, {"pending"}) /\ ~Obsolete(e)
    /\ attempt' = [attempt EXCEPT ![d].pc = "listed", ![d].event = e]
    /\ UNCHANGED row /\ Attempting /\ InEve

Candidates(e) ==
    {f \in Events : f < e /\ In(f, {"dispatched"}) /\ row[f].session /\ row[f].epoch = row[e].epoch}

Locates(d, e) ==
    /\ At(d, "listed", e) /\ DeliveryActor(e)
    /\ attempt' = [attempt EXCEPT ![d].pc = "matching", ![d].candidates = Candidates(e)]
    /\ UNCHANGED row /\ Attempting /\ InEve

Open(F) == {r \in References : r[1] \in F /\ ses[r[1]].visible /\ r[2] \in ses[r[1]].live}

IsDelivered(e, r) == r \in before[e]

Takes(e, r) == e \in Decisions \/ r[2] \notin Approvals

\* An exact decision, or any text when one question is open, is a reply.
Matches(d, e) ==
    LET open == Open(attempt[d].candidates)
        exact == {r \in open : Cardinality(open) = 1 /\ Takes(e, r)}
    IN  /\ At(d, "matching", e)
        /\ \/ exact = {} /\ e \in Decisions /\ Goes(d, "notice")
           \/ exact = {} /\ e \notin Decisions /\ Goes(d, "unhandled")
           \/ \E r \in exact :
                 IF IsDelivered(e, r)
                 THEN attempt' = [attempt EXCEPT ![d].pc = "matched", ![d].to = r]
                 ELSE Goes(d, "notice")
        /\ UNCHANGED row /\ Attempting /\ InEve

OriginalReceipt(e, f) ==
    /\ row[f].session /\ receipt[f] # None /\ row[f].epoch = row[e].epoch
    /\ In(f, Unsettled \cup {"completed"})

Admits(d, e) ==
    /\ At(d, "matched", e)
    /\ DeliveryActor(e) /\ OriginalReceipt(e, attempt[d].to[1])
    /\ Goes(d, "admitted")
    /\ UNCHANGED row /\ Attempting /\ InEve

LooksAgain(d, e) ==
    /\ At(d, "admitted", e)
    /\ Goes(d, IF attempt[d].to \in Open(Events) THEN "responding" ELSE "notice")
    /\ UNCHANGED row /\ Attempting /\ InEve

\* session.respond: Eve accepts it for an active session.
Responds(d, e) ==
    LET r == attempt[d].to
    IN  /\ At(d, "responding", e) /\ ses[r[1]].phase # "over"
        /\ ses' = [ses EXCEPT ![r[1]].answers = @ \cup {<<r[2], e>>}]
        /\ Goes(d, "waiting")
        /\ UNCHANGED <<row, receipt, consumed>> /\ Attempting

StateOfReply(resolved) == IF resolved THEN "completed" ELSE "dispatched"

\* resolved is false also when its observation fails or takes 15 seconds.
Acknowledges(d, e, resolved) ==
    LET r == attempt[d].to
    IN  /\ At(d, "waiting", e)
        /\ resolved => r[2] \in ses[r[1]].resolved
        /\ DeliveryActor(e) /\ OriginalReceipt(e, r[1])
        /\ row' = IF ~row[e].session /\ In(e, {"pending", "dispatched"})
                  THEN [row EXCEPT ![e].state = StateOfReply(resolved)] ELSE row
        /\ Stops(d)
        /\ Attempting /\ InEve

\* publishMatrixInputNotice; with "lost" the room has it and the row does not.
Notifies(d, e, committed) ==
    /\ At(d, "notice", e)
    /\ DeliveryActor(e) /\ ~row[e].session /\ receipt[e] = None
    /\ In(e, {"pending", "dispatched"})
    /\ committed \/ "lost" \in Faults
    /\ said' = Put(e, "notice")
    /\ row' = IF committed THEN [row EXCEPT ![e].state = "completed"] ELSE row
    /\ Stops(d)
    /\ UNCHANGED <<epoch, asked, before>> /\ InEve

(***************************************************************************)
(* deliverMatrixEvent.                                                      *)
(***************************************************************************)
\* The first transaction and, without a prompt, the history around the event.
Hydrates(d, e, p) ==
    /\ At(d, "unhandled", e) /\ DeliveryActor(e) /\ In(e, {"pending", "dispatched"})
    /\ row[e].prompt \in {None, p}
    /\ attempt' = [attempt EXCEPT ![d].pc = "hydrated", ![d].prompt = p]
    /\ UNCHANGED row /\ Attempting /\ InEve

\* Mutant of StoredPrompt: the later history replaces the earlier one.
StoredPromptLatest(e, p) == p
StoredPrompt(e, p) == IF row[e].prompt = None THEN p ELSE row[e].prompt

Prepares(d, e) ==
    LET p == StoredPrompt(e, attempt[d].prompt)
    IN  /\ At(d, "hydrated", e) /\ DeliveryActor(e)
        /\ row' = [row EXCEPT ![e].prompt = p]
        /\ attempt' = [attempt EXCEPT ![d].pc = "prepared", ![d].prompt = p]
        /\ Attempting /\ InEve

\* The lock of the event's address; a receipt with another digest is a conflict.
Sends(d, e) ==
    LET p == attempt[d].prompt
    IN  /\ At(d, "prepared", e) /\ \A o \in Attempts : ~At(o, "sending", e)
        /\ receipt[e] \in {None, p}
        /\ ses' = [ses EXCEPT ![e].queue = IF receipt[e] = None THEN @ \cup {p} ELSE @]
        /\ Goes(d, "sending")
        /\ UNCHANGED <<row, receipt, consumed>> /\ Attempting

Sees(d, e) ==
    /\ At(d, "sending", e)
    /\ receipt[e] # None /\ ses[e].visible /\ ses[e].phase # "over"
    /\ Goes(d, "seen")
    /\ UNCHANGED row /\ Attempting /\ InEve

Dispatched(e) == [row[e] EXCEPT !.session = TRUE, !.state = IF @ = "pending" THEN "dispatched" ELSE @]

\* A fast turn that completed needs no authority.
Records(d, e) ==
    /\ At(d, "seen", e)
    /\ \/ In(e, {"completed"}) /\ row[e].session /\ UNCHANGED row
       \/ SessionActor(e) /\ row' = [row EXCEPT ![e] = Dispatched(e)]
    /\ Stops(d)
    /\ Attempting /\ InEve

\* Why an attempt is refused: its authority, a conflict, or a session that ended.
Refused(d, e) ==
    LET t == attempt[d]
        to == t.to[1]
    IN  \/ t.pc \in {"listed", "unhandled", "hydrated"} /\ ~DeliveryActor(e)
        \/ t.pc \in {"unhandled", "notice"} /\ ~In(e, {"pending", "dispatched"})
        \/ t.pc = "notice" /\ ~(DeliveryActor(e) /\ ~row[e].session /\ receipt[e] = None)
        \/ t.pc \in {"matched", "waiting"} /\ ~(DeliveryActor(e) /\ OriginalReceipt(e, to))
        \/ t.pc = "responding" /\ ses[to].phase = "over"
        \/ t.pc = "prepared" /\ receipt[e] \notin {None, t.prompt}
        \/ t.pc = "sending" /\ ses[e].phase = "over"
        \/ t.pc = "seen" /\ ~SessionActor(e) /\ ~(In(e, {"completed"}) /\ row[e].session)

GivesUp(d, e) ==
    /\ attempt[d].event = e
    /\ Refused(d, e) \/ "stop" \in Faults
    /\ Stops(d)
    /\ UNCHANGED row /\ Attempting /\ InEve

(***************************************************************************)
(* The session and its events.                                              *)
(***************************************************************************)
Native == UNCHANGED <<epoch, before, attempt>>

\* The first copy of the prompt is consumed; its receipt is written with it.
Begins(e, p) ==
    /\ ses[e].phase = "none" /\ p \in ses[e].queue
    /\ ses' = [ses EXCEPT ![e].phase = "running"]
    /\ receipt' = [receipt EXCEPT ![e] = p]
    /\ Native /\ UNCHANGED <<row, said, asked, consumed>>

Checkpoints(e) ==
    /\ ses[e].phase \notin {"none", "over"} /\ ~ses[e].visible
    /\ ses' = [ses EXCEPT ![e].visible = TRUE]
    /\ Native /\ UNCHANGED <<row, receipt, said, asked, consumed>>

\* input.requested: the session waits, whether or not the room was told.  An
\* identifier is Eve's, and new.
Asks(e, q, told) ==
    LET bound == SessionActor(e) /\ In(e, {"pending", "dispatched"})
    IN  /\ ses[e].phase = "running" /\ q \notin ses[e].live \cup ses[e].resolved
        /\ <<e, q>> \notin asked
        /\ ses' = [ses EXCEPT ![e].phase = "parked", ![e].live = @ \cup {q}]
        /\ \/ told = "committed" /\ bound
              /\ row' = [row EXCEPT ![e].session = TRUE, ![e].state = "dispatched"]
              /\ asked' = asked \cup {<<e, q>>}
           \/ told = "lost" /\ bound /\ "lost" \in Faults
              /\ asked' = asked \cup {<<e, q>>} /\ UNCHANGED row
           \/ told = "refused" /\ UNCHANGED <<row, asked>>
        /\ Native /\ UNCHANGED <<receipt, said, consumed>>

\* A response to a request that is not live any more is dropped.
Resolves(e, q, by) ==
    /\ <<q, by>> \in ses[e].answers
    /\ ses' = [ses EXCEPT ![e] = [@ EXCEPT
                 !.answers = @ \ {<<q, by>>},
                 !.live = @ \ {q},
                 !.resolved = IF q \in ses[e].live THEN @ \cup {q} ELSE @,
                 !.phase = IF q \in ses[e].live THEN "running" ELSE @]]
    /\ consumed' = IF q \in ses[e].live THEN consumed \cup {<<e, q, by>>} ELSE consumed
    /\ Native /\ UNCHANGED <<row, receipt, said, asked>>

Settles(e, phases, phase) ==
    /\ ses[e].phase \in phases
    /\ ses' = [ses EXCEPT ![e] = [@ EXCEPT !.phase = phase, !.live = {}]]
    /\ Native /\ UNCHANGED <<receipt, said, asked, consumed>>

Cancels(e) == Settles(e, {"running", "parked"}, "rest") /\ UNCHANGED row

\* turn.completed when a tool said it all, or there is nothing to say.
Completes(e) ==
    /\ Settles(e, {"running"}, "rest")
    /\ row' = IF SessionActor(e)
              THEN [row EXCEPT ![e].session = TRUE,
                               ![e].state = IF @ \in {"pending", "dispatched"} THEN "completed" ELSE @]
              ELSE row

Finished(r, output) ==
    IF r.state \in {"pending", "dispatched"}
    THEN [r EXCEPT !.session = TRUE, !.output = output, !.state = "answer_ready"]
    ELSE [r EXCEPT !.session = TRUE]

Finishes(e, output) == row' = IF SessionActor(e) THEN [row EXCEPT ![e] = Finished(@, output)] ELSE row

\* turn.completed with text and turn.failed; then session.failed.
TurnEnds(e, output) == Settles(e, {"running"}, "rest") /\ Finishes(e, output)
SessionFails(e) == Settles(e, {"running", "parked", "rest"}, "over") /\ Finishes(e, "failure")

\* publishMatrixAnswer, after the end of a turn and by the schedule.
Publishes(e, committed) ==
    /\ In(e, {"answer_ready"}) /\ row[e].session /\ SessionActor(e)
    /\ committed \/ "lost" \in Faults
    /\ said' = Put(e, row[e].output)
    /\ row' = IF committed THEN [row EXCEPT ![e].state = "completed"] ELSE row
    /\ UNCHANGED <<epoch, asked, before, attempt>> /\ InEve

InboundNext == RoomChanges \/ \E e \in Events : Accepts(e) \/ Suppresses(e)

ReplyNext(d, e) ==
    \/ Picks(d, e) \/ Locates(d, e) \/ Matches(d, e) \/ Admits(d, e) \/ LooksAgain(d, e)
    \/ Responds(d, e)
    \/ \E ok \in BOOLEAN : Acknowledges(d, e, ok) \/ Notifies(d, e, ok)

HandoffNext(d, e) ==
    \/ Prepares(d, e) \/ Sends(d, e) \/ Sees(d, e) \/ Records(d, e) \/ GivesUp(d, e)
    \/ \E p \in Prompts : Hydrates(d, e, p)

NativeNext ==
    \E e \in Events :
        \/ Checkpoints(e) \/ Cancels(e) \/ Completes(e) \/ SessionFails(e)
        \/ \E p \in Prompts : Begins(e, p)
        \/ \E q \in Requests, told \in {"committed", "lost", "refused"} : Asks(e, q, told)
        \/ \E q \in Requests, by \in Events : Resolves(e, q, by)
        \/ \E output \in {"answer", "failure"} : TurnEnds(e, output)
        \/ \E committed \in BOOLEAN : Publishes(e, committed)

MatrixNext ==
    \/ InboundNext \/ NativeNext
    \/ \E d \in Attempts, e \in Events : ReplyNext(d, e) \/ HandoffNext(d, e)

MatrixSpec == MatrixInit /\ [][MatrixNext]_matrixVars

\* The schedule runs every minute and an attempt goes on until it is done or
\* refused; a commit is lost now and then and not forever; a prompt that is
\* queued is consumed and checkpointed.
MatrixFairness ==
    /\ \A d \in Attempts : WF_matrixVars(\E e \in Events : ReplyNext(d, e) \/ HandoffNext(d, e))
    /\ \A e \in Events :
          /\ SF_matrixVars(Publishes(e, TRUE))
          /\ SF_matrixVars(\E d \in Attempts : Notifies(d, e, TRUE))
          /\ WF_matrixVars(Suppresses(e) \/ Checkpoints(e) \/ \E p \in Prompts : Begins(e, p))

(***************************************************************************)
(* Properties.                                                              *)
(***************************************************************************)
\* delivery.ts:100: a turn may end before its dispatch is recorded.  Whoever
\* writes late, no step takes an end back or replaces an answer.
EndsAreKept ==
    \A e \in Events :
        /\ In(e, {"completed", "suppressed"}) => row'[e] = row[e]
        /\ In(e, {"answer_ready"}) =>
              /\ row'[e].state \in {"answer_ready", "completed", "suppressed"}
              /\ row'[e].state # "suppressed" => row'[e].output = row[e].output

\* delivery.ts:70, durable-delivery.ts:106: the request and the schedule may read
\* the room at different times, and still what every one of them sends for an
\* event has the digest of its receipt: no retry is refused as a conflict.
RetriesAgree ==
    \A d \in Attempts, e \in Events :
        attempt[d].pc \in {"prepared", "sending"} /\ attempt[d].event = e =>
            /\ receipt[e] \in {None, attempt[d].prompt}
            /\ ses[e].queue \subseteq {attempt[d].prompt}

\* delivery.ts:143: the message leaves inside a transaction that may not commit.
\* What a completed delivery says it answered is what the room shows.
CompletedIsShown ==
    \A e \in Events : In(e, {"completed"}) /\ row[e].output # "none" => said[e] = row[e].output

\* inputs.ts:246: a reply is settled without a notice only when the request it
\* answered was resolved, and nothing is resolved by a reply that was sent
\* before its request was shown in the room.
RepliesAreDecisions ==
    /\ \A e \in Events :
          In(e, {"completed"}) /\ ~row[e].session /\ said[e] = "none" =>
              \E r \in before[e] : r[2] \in ses[r[1]].resolved
    /\ \A c \in consumed : <<c[1], c[2]>> \in before[c[3]]

\* Not kept (README, section 6); delivery.ts:191: a rejection notice is for a response that entered no session.
NoticesAreRejections == \A e \in Events : said[e] = "notice" => \A c \in consumed : c[3] # e

\* matrix-delivery.ts, delivery.ts:224: an accepted mention is handed over or
\* settled, an answer reaches the room, and what the room outgrew is suppressed.
AcceptedIsHandled == \A e \in Events : In(e, {"pending"}) ~> ~In(e, {"pending"})
AnswersAreSettled == \A e \in Events : In(e, {"answer_ready"}) ~> In(e, {"completed", "suppressed"})
=============================================================================
