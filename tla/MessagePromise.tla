---------------------------- MODULE MessagePromise ----------------------------
(***************************************************************************)
(* What the outbox promises about the messages of one identity, whatever   *)
(* leases, drains and provider answers it goes through:                    *)
(*                                                                         *)
(*  - a message reaches the provider at most once, and once more for each  *)
(*    retry that an operator authorized while its fate was in doubt;       *)
(*  - it reaches the provider only when every message before it is settled;*)
(*  - it is called sent because the provider took it, or because an        *)
(*    operator settled a doubt, and failed or cancelled without a doubt    *)
(*    only if the provider never took it, unless a retry was authorized;   *)
(*  - it is settled once.                                                  *)
(*                                                                         *)
(* One step may concern several messages, as a claim does.                 *)
(***************************************************************************)
EXTENDS Naturals

CONSTANT MaxRows

VARIABLES
    fate,     \* "absent", "open", "doubt", "sent", "failed" or "cancelled"
    copies,   \* times the provider took the message
    retries   \* retries authorized of it

promise == <<fate, copies, retries>>

Messages == 1..MaxRows

Over(i) == fate[i] \in {"sent", "failed", "cancelled"}

PromiseInit == /\ fate = [i \in Messages |-> "absent"]
               /\ copies = [i \in Messages |-> 0]
               /\ retries = [i \in Messages |-> 0]

Same(f, i) == f'[i] = f[i]

Turns(i, from, to) == fate[i] = from /\ fate'[i] = to /\ Same(copies, i)

Post(i) == /\ Turns(i, "absent", "open") /\ Same(retries, i)
           /\ \A j \in Messages : j < i => fate[j] # "absent"

\* The provider takes the message, perhaps long after its fate was settled.
Reach(i) == /\ fate[i] # "absent" /\ Same(fate, i) /\ Same(retries, i)
            /\ copies[i] <= retries[i] /\ copies'[i] = copies[i] + 1
            /\ \A j \in Messages : j < i => Over(j)

Confirm(i) == Turns(i, "open", "sent") /\ copies[i] > 0 /\ Same(retries, i)

GiveUp(i) == /\ Turns(i, "open", "failed") \/ Turns(i, "open", "cancelled")
             /\ copies[i] <= retries[i] /\ Same(retries, i)

Doubt(i) == Turns(i, "open", "doubt") /\ Same(retries, i)

Judge(i) == /\ Turns(i, "doubt", "sent") \/ Turns(i, "doubt", "cancelled")
            /\ Same(retries, i)

Authorize(i) == Turns(i, "doubt", "open") /\ retries'[i] = retries[i] + 1

Still(i) == Same(fate, i) /\ Same(copies, i) /\ Same(retries, i)

PromiseNext == \A i \in Messages :
    \/ Post(i) \/ Reach(i) \/ Confirm(i) \/ GiveUp(i)
    \/ Doubt(i) \/ Judge(i) \/ Authorize(i) \/ Still(i)

PromiseSpec == PromiseInit /\ [][PromiseNext]_promise
===============================================================================
