------------------------------- MODULE MCRooms -------------------------------
(***************************************************************************)
(* Team rooms, other agents and other people's bots: MatrixAudience,        *)
(* MatrixDeliveries, AgentTasks and NetworkTrust on small instances.  A     *)
(* behaviour is a scene of one component while the others keep their        *)
(* initial state.                                                           *)
(***************************************************************************)
EXTENDS MatrixAudience, Sequences, TLC

CONSTANTS
    x1, x2,      \* two people, two attempts at a delivery, two questions of a task, two transactions
    y1, y2,      \* two readings of a room's history, two answers of a task, two grants
    q, d, None   \* a request or a message, a deliverer of a task, nothing

VARIABLES
    scene, ses, tasksAnswer,
    row, receipt, said, asked, before, attempt, consumed,
    grant, task, outbox, receipts, chan, mail, deliverer, known, used,
    invites, trusted, blocked, published, grants, conversation, retirements, room, event, spoken, tx

\* Every transaction may fail, with a request on its way; requests of two that failed meet.
Members == INSTANCE MatrixAudience WITH MaxLate <- 1
Crossing == INSTANCE MatrixAudience WITH Failing <- {"open", "erase"}

ASSUME AudienceAssumption == Members!AudienceConstants /\ Crossing!AudienceConstants

\* A mention and a reply to what its session asked, in a room that changes once.
Replies == INSTANCE MatrixDeliveries WITH
    Events <- 1..2, Decisions <- {2}, Attempts <- {x1, x2}, Requests <- {q}, Approvals <- {q},
    Prompts <- {y1}, MaxEpoch <- 2, Faults <- {"lost", "stop"}

\* Attempts that read the history at different times.
Handoff == INSTANCE MatrixDeliveries WITH
    Events <- 1..2, Decisions <- {2}, Attempts <- {x1, x2}, Requests <- {q}, Approvals <- {q},
    Prompts <- {y1, y2}, MaxEpoch <- 1, Faults <- {"lost", "stop"}

Tasks == {"t"}
Answers == INSTANCE AgentTasks WITH
    Deliverers <- {d}, Questions <- {x1, x2}, Answers <- {y1, y2}, Faults <- {"timeout", "replay", "crash"},
    answer <- tasksAnswer

\* Two grants and no message; one grant and a message.
Trust == INSTANCE NetworkTrust WITH Transactions <- {x1, x2}, Grants <- {y1, y2}, Events <- {}
Network == INSTANCE NetworkTrust WITH Transactions <- {x1, x2}, Grants <- {y1}, Events <- {q}

MailBound == 3   \* an answer is queued at most twice

roomVars == <<access, deleted, open, member, pending, departures, native, late, pushed, answer, lost>>
deliveryVars == <<row, receipt, said, asked, before, attempt, consumed>>
agentVars == <<grant, task, outbox, receipts, chan, mail, deliverer, known, used, tasksAnswer>>
networkVars == <<invites, trusted, blocked, published, grants, conversation, retirements, room,
                 event, spoken, tx>>
vars == <<scene, epoch, ses, roomVars, deliveryVars, agentVars, networkVars>>

DeliveriesIdle == /\ row = <<>> /\ receipt = <<>> /\ said = <<>> /\ asked = {} /\ before = <<>>
                  /\ attempt = <<>> /\ consumed = {}
TasksIdle == /\ grant = "gone" /\ task = <<>> /\ outbox = {} /\ receipts = {} /\ chan = <<>>
             /\ mail = <<>> /\ deliverer = <<>> /\ known = {} /\ used = {} /\ tasksAnswer = <<>>
NetworkIdle == /\ invites = {} /\ trusted = FALSE /\ blocked = FALSE /\ published = FALSE
               /\ grants = <<>> /\ conversation = <<>> /\ retirements = {} /\ room = <<>>
               /\ event = <<>> /\ spoken = {} /\ tx = <<>>

Init ==
    /\ AudienceInit
    /\ \/ scene \in {"audience", "crossing"} /\ ses = <<>> /\ DeliveriesIdle /\ TasksIdle /\ NetworkIdle
       \/ scene \in {"replies", "handoff"} /\ Replies!MatrixInit /\ TasksIdle /\ NetworkIdle
       \/ scene = "answers" /\ Answers!TaskInit /\ DeliveriesIdle /\ NetworkIdle
       \/ /\ \/ scene = "trust" /\ Trust!TrustInit
             \/ scene = "network" /\ Network!TrustInit
          /\ ses = <<>> /\ DeliveriesIdle /\ TasksIdle

Next ==
    /\ UNCHANGED scene
    /\ \/ /\ \/ scene = "audience" /\ Members!AudienceNext
             \/ scene = "crossing" /\ Crossing!AudienceNext
          /\ UNCHANGED <<ses, deliveryVars, agentVars, networkVars>>
       \/ /\ \/ scene = "replies" /\ Replies!MatrixNext
             \/ scene = "handoff" /\ Handoff!MatrixNext
          /\ UNCHANGED <<roomVars, agentVars, networkVars>>
       \/ /\ scene = "answers" /\ Answers!TaskNext /\ \A t \in Tasks : Len(mail'[t]) <= MailBound
          /\ UNCHANGED <<epoch, roomVars, deliveryVars, networkVars>>
       \/ /\ \/ scene = "trust" /\ Trust!TrustNext
             \/ scene = "network" /\ Network!TrustNext
          /\ UNCHANGED <<epoch, ses, roomVars, deliveryVars, agentVars>>

Spec == Init /\ [][Next]_vars

Symmetry == Permutations({x1, x2}) \cup Permutations({y1, y2})

-----------------------------------------------------------------------------
\* MatrixDeliveries: the room shows what a completed delivery answered, a reply that
\* was settled in silence is the decision of the request it saw, every attempt at an
\* event sends the prompt of its receipt, and no step takes an end back.
DeliveriesAreSafe ==
    /\ [](scene = "replies" =>
            Replies!MatrixTypeOK /\ Replies!CompletedIsShown /\ Replies!RepliesAreDecisions)
    /\ [](scene = "handoff" => Handoff!MatrixTypeOK /\ Handoff!RetriesAgree)
    /\ [][scene = "replies" => Replies!EndsAreKept]_vars

\* AgentTasks: a session that waits for an answer is found by that answer and goes on
\* with one, and what ended stays as it ended until it is deleted.  NetworkTrust: no
\* grant outlives the trust it was issued under, a conversation that is closed is
\* quiet and its room is left, and an answer enters the room of people who trust each other.
TasksAreSafe ==
    /\ [](scene = "answers" =>
            Answers!TaskTypeOK /\ Answers!ParkedIsAnswerable /\ Answers!OneAnswerEach)
    /\ [](scene = "trust" => Trust!TrustTypeOK /\ Trust!GrantsNeedTrust /\ Trust!OneLiveGrant)
    /\ [](scene = "network" =>
            /\ Network!TrustTypeOK /\ Network!GrantsNeedTrust
            /\ Network!ClosedIsQuiet /\ Network!ClosedRoomsAreLeft)
    /\ [][scene = "answers" => Answers!EndedStaysEnded]_vars
    /\ [][scene = "network" => Network!AnswersAreTrusted]_vars
=============================================================================
