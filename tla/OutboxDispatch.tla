---------------------------- MODULE OutboxDispatch ----------------------------
(***************************************************************************)
(* server/channels/transport.ts over the outbox lane of MessageQueue: the  *)
(* drains of the schedule tick and of the channel hooks claim the messages *)
(* of one identity and call its provider.  No transaction spans that call: *)
(* its answer is recorded under the lease, if the lease still lives.       *)
(*                                                                         *)
(* The provider is external.  A request that the drain gave up on, or that *)
(* outlived its process, may still be taken later: it is "late".           *)
(***************************************************************************)
EXTENDS MessageQueue

CONSTANTS
    Drains,    \* concurrent executions of drainOutbox
    Faults     \* which of AllFaults may happen

AllFaults == {"refused",       \* the installation, target or message is refused
              "rate_limited",  \* the provider answers 429
              "answer_lost",   \* the provider takes the message, its answer is lost
              "timeout",       \* the drain gives up on the request
              "crash"}         \* the drain's process stops

ASSUME OutboxAssumption == Lane = "outbox"
ASSUME FaultsAssumption == Faults \subseteq AllFaults
ASSUME DrainsAssumption == IsFiniteSet(Drains)

VARIABLES
    drain,     \* where each drain is with the message it claimed
    late,      \* requests of each message that nobody waits for any more
    copies     \* times the provider took each message

dispatchVars == <<drain, late, copies>>
outboxVars == <<rows, active, held, drain, late, copies>>

\* claimed until dispatch has validated the message; valid until it has checked
\* its lease; sending until the provider answers; the answer until it is
\* recorded; over until the drain lets go of its lease.
Answers == {"confirmed", "refused", "limited", "unknown"}
Drain == [phase: {"idle", "claimed", "valid", "sending", "over"} \cup Answers,
          slot: Slots \cup {0}, token: Tokens \cup {None}]

OutboxTypeOK == /\ QueueTypeOK
                /\ drain \in [Drains -> Drain]
                /\ late \in [Slots -> Nat]
                /\ copies \in [Slots -> Nat]

IdleDrain == [phase |-> "idle", slot |-> 0, token |-> None]

OutboxInit == /\ QueueInit
              /\ drain = [d \in Drains |-> IdleDrain]
              /\ late = [i \in Slots |-> 0]
              /\ copies = [i \in Slots |-> 0]

At(d, phase) == drain[d].phase = phase
Goes(d, phase) == drain' = [drain EXCEPT ![d].phase = phase]
QueueUnchanged == UNCHANGED queueVars
ProviderUnchanged == UNCHANGED <<late, copies>>

DrainClaims(d) ==
    /\ At(d, "idle")
    /\ \/ \E i \in Slots, t \in Tokens :
             /\ Claim(i, t)
             /\ drain' = [drain EXCEPT ![d] = [phase |-> "claimed", slot |-> i, token |-> t]]
       \/ ClaimNothing /\ UNCHANGED drain
    /\ ProviderUnchanged

\* An inactive identity, another installation or a payload that is not text is
\* refused before any request is made.
Validates(d) ==
    /\ At(d, "claimed")
    /\ \/ active /\ Goes(d, "valid")
       \/ (~active \/ "refused" \in Faults) /\ Goes(d, "refused")
    /\ QueueUnchanged /\ ProviderUnchanged

\* The last check before provider I/O.
Starts(d) ==
    /\ At(d, "valid")
    /\ Goes(d, IF LeaseLive(drain[d].slot, drain[d].token) THEN "sending" ELSE "over")
    /\ QueueUnchanged /\ ProviderUnchanged

(***************************************************************************)
(* What the provider does with a request, and what the drain learns of it. *)
(***************************************************************************)
Taken(i) == copies' = [copies EXCEPT ![i] = @ + 1]

Confirms(d) ==
    /\ At(d, "sending")
    /\ Goes(d, "confirmed") /\ Taken(drain[d].slot)
    /\ QueueUnchanged /\ UNCHANGED late

Refuses(d) ==
    /\ At(d, "sending")
    /\ \/ "refused" \in Faults /\ Goes(d, "refused")
       \/ "rate_limited" \in Faults /\ Goes(d, "limited")
    /\ QueueUnchanged /\ ProviderUnchanged

LosesAnswer(d) ==
    /\ "answer_lost" \in Faults
    /\ At(d, "sending")
    /\ Goes(d, "unknown") /\ Taken(drain[d].slot)
    /\ QueueUnchanged /\ UNCHANGED late

Abandons(d) ==
    /\ "timeout" \in Faults
    /\ At(d, "sending")
    /\ Goes(d, "unknown")
    /\ late' = [late EXCEPT ![drain[d].slot] = @ + 1]
    /\ QueueUnchanged /\ UNCHANGED copies

\* Mutant of LateRequest: the provider takes what nobody asked for.
LateRequestUnasked(i) ==
    /\ late' = [late EXCEPT ![i] = @ - 1]
    /\ Taken(i) \/ UNCHANGED copies
    /\ QueueUnchanged /\ UNCHANGED drain

LateRequest(i) ==
    /\ late[i] > 0
    /\ late' = [late EXCEPT ![i] = @ - 1]
    /\ Taken(i) \/ UNCHANGED copies
    /\ QueueUnchanged /\ UNCHANGED drain

(***************************************************************************)
(* The answer is recorded under the lease, or lost with it.                *)
(***************************************************************************)
\* Mutant of Records: a timeout is taken for a rejection.
RecordsTimeoutAsFailure(d) ==
    LET i == drain[d].slot
        t == drain[d].token
    IN  /\ drain[d].phase \in Answers
        /\ IF LeaseLive(i, t)
           THEN \/ At(d, "confirmed") /\ Complete(i, t)
                \/ At(d, "refused") /\ Stop(i, t, "failed")
                \/ At(d, "limited") /\ ScheduleRetry(i, t)
                \/ At(d, "unknown") /\ Stop(i, t, "failed")
           ELSE QueueUnchanged
        /\ Goes(d, "over") /\ ProviderUnchanged

Records(d) ==
    LET i == drain[d].slot
        t == drain[d].token
    IN  /\ drain[d].phase \in Answers
        /\ IF LeaseLive(i, t)
           THEN \/ At(d, "confirmed") /\ Complete(i, t)
                \/ At(d, "refused") /\ Stop(i, t, "failed")
                \/ At(d, "limited") /\ ScheduleRetry(i, t)
                \/ At(d, "unknown") /\ Stop(i, t, "uncertain")
           ELSE QueueUnchanged
        /\ Goes(d, "over") /\ ProviderUnchanged

Leaves(d) == /\ Forget([slot |-> drain[d].slot, token |-> drain[d].token])
             /\ drain' = [drain EXCEPT ![d] = IdleDrain]

DrainEnds(d) == At(d, "over") /\ Leaves(d) /\ ProviderUnchanged

DrainCrash(d) ==
    /\ "crash" \in Faults
    /\ ~At(d, "idle")
    /\ Leaves(d)
    /\ late' = IF At(d, "sending") THEN [late EXCEPT ![drain[d].slot] = @ + 1] ELSE late
    /\ UNCHANGED copies

Answered(d) == Confirms(d) \/ Refuses(d) \/ LosesAnswer(d) \/ Abandons(d)

DrainStep(d) ==
    Validates(d) \/ Starts(d) \/ Answered(d) \/ Records(d) \/ DrainEnds(d)

OutboxNext ==
    \/ \E d \in Drains : DrainClaims(d) \/ DrainStep(d) \/ DrainCrash(d)
    \/ \E i \in Slots : LateRequest(i)
    \/ \E i \in Slots : (Insert(i) \/ Resolve(i) \/ TimeComes(i)) /\ UNCHANGED dispatchVars
    \/ Revoke /\ UNCHANGED dispatchVars

OutboxSafety == OutboxInit /\ [][OutboxNext]_outboxVars

\* The tick drains the candidates every minute, a live process takes its next statement, time
\* passes, and a provider that is asked for a message again and again does not
\* answer 429 for ever.  Nothing obliges an operator, a sender or a fault.
OutboxFairness ==
    /\ \A d \in Drains : /\ WF_outboxVars(Eligible /\ DrainClaims(d))
                         /\ WF_outboxVars(DrainStep(d))
    /\ \A i \in Slots :
          /\ WF_outboxVars(TimeComes(i) /\ UNCHANGED dispatchVars)
          /\ SF_outboxVars(\E d \in Drains : drain[d].slot = i /\ Confirms(d))

OutboxSpec == OutboxSafety /\ OutboxFairness

-----------------------------------------------------------------------------
(***************************************************************************)
(* Properties.                                                             *)
(***************************************************************************)
FateOf(row) == CASE row.status = "absent" -> "absent"
                 [] row.status \in {"queued", "dispatching"} -> "open"
                 [] row.status = "uncertain" -> "doubt"
                 [] row.status = "done" -> "sent"
                 [] OTHER -> row.status

Promise == INSTANCE MessagePromise WITH
    fate    <- [i \in Slots |-> FateOf(rows[i])],
    retries <- [i \in Slots |-> rows[i].authorized]

\* The outbox keeps the promise of MessagePromise: at most one copy and one
\* more per authorized retry, in order, settled once, sent and failed honestly.
KeepsMessagePromise == Promise!PromiseSpec

\* The drains only use the queue as MessageQueue allows, under the leases they
\* were given, so what holds of MessageQueue holds here.
FollowsQueue == QueueSpec

\* The requests of a message that reached the provider, that may still reach
\* it, and that a drain is about to make.
Movers(i) == {d \in Drains : /\ drain[d].slot = i
                             /\ drain[d].phase \in {"claimed", "valid", "sending"}}
Possible(i) == copies[i] + late[i] + Cardinality(Movers(i))

Spares(i) == \/ rows[i].status \in {"absent", "queued", "failed"}
             \/ \E d \in Drains : /\ drain[d].phase \in {"refused", "limited"}
                                  /\ drain[d].slot = i /\ drain[d].token = rows[i].token

\* Every request that may reach the provider is covered by the first sending
\* or by an authorized retry, and a message that is queued, or was refused,
\* has not used the last of them.  This is the invariant behind the promise.
RequestsAreAuthorized ==
    \A i \in Slots :
        Possible(i) <= rows[i].authorized + (IF Spares(i) THEN 0 ELSE 1)

\* A message that is queued or handed out is settled, or stays behind a
\* message whose fate an operator must judge.
MessagesSettle ==
    \A i \in Slots : rows[i].status \in {"queued", "dispatching"} ~>
        \/ Settled(rows[i])
        \/ \E j \in 1..i : rows[j].status = "uncertain"
=============================================================================
