------------------------------ MODULE RunPromise ------------------------------
(***************************************************************************)
(* What a scheduled run promises to the person who scheduled it, whatever  *)
(* leases, tokens and sessions its workers go through:                     *)
(*                                                                         *)
(*  - it is tried at most MaxAttempts times;                               *)
(*  - it ends once, with a result, with nothing to report, or blocked, and *)
(*    blocked only after its last attempt;                                 *)
(*  - every question and every ending worth telling opens one announcement *)
(*    number, and nothing else does.                                       *)
(*                                                                         *)
(* One step may concern several runs, as a schedule tick does.             *)
(***************************************************************************)
EXTENDS Naturals

CONSTANTS Runs, MaxAttempts, None

VARIABLES
    phase,      \* "due", "working", "asking" or "over"
    tries,      \* attempts begun
    result,     \* the outcome of a run that is over
    announced   \* announcement numbers opened so far

promise == <<phase, tries, result, announced>>

PromiseInit ==
    /\ phase = [r \in Runs |-> "due"]
    /\ tries = [r \in Runs |-> 0]
    /\ result = [r \in Runs |-> None]
    /\ announced = [r \in Runs |-> 0]

Goes(r, from, to) == phase[r] \in from /\ phase'[r] = to

Opens(r) == announced'[r] = announced[r] + 1

\* An attempt begins: the first, one after a retry, or one that takes over
\* from an attempt that never got to a worker.
Try(r) == /\ Goes(r, {"due", "working"}, "working")
          /\ tries[r] < MaxAttempts /\ tries'[r] = tries[r] + 1
          /\ result'[r] = result[r] /\ announced'[r] = announced[r]

\* The worker asks its user, who answers, or whose answer is handed back.
AskUser(r) == /\ Goes(r, {"working"}, "asking") /\ Opens(r)
              /\ tries'[r] = tries[r] /\ result'[r] = result[r]

Answer(r) == /\ Goes(r, {"asking"}, "working") \/ Goes(r, {"working"}, "asking")
             /\ tries'[r] = tries[r] /\ result'[r] = result[r]
             /\ announced'[r] = announced[r]

\* An attempt fails and another one is left.
Retry(r) == /\ Goes(r, {"working", "asking"}, "due")
            /\ tries[r] < MaxAttempts /\ tries'[r] = tries[r]
            /\ result'[r] = result[r] /\ announced'[r] = announced[r]

\* The worker closes the run, speaking up or not.
Finish(r) == /\ Goes(r, {"working"}, "over") /\ tries'[r] = tries[r]
             /\ \/ result'[r] = "result" /\ Opens(r)
                \/ result'[r] = "nothing_to_report" /\ announced'[r] = announced[r]

\* The last attempt failed.
GiveUp(r) == /\ Goes(r, {"working", "asking"}, "over")
             /\ tries[r] = MaxAttempts /\ tries'[r] = tries[r]
             /\ result'[r] = "blocked" /\ Opens(r)

Still(r) == /\ phase'[r] = phase[r] /\ tries'[r] = tries[r]
            /\ result'[r] = result[r] /\ announced'[r] = announced[r]

PromiseNext == \A r \in Runs :
    Try(r) \/ AskUser(r) \/ Answer(r) \/ Retry(r) \/ Finish(r) \/ GiveUp(r) \/ Still(r)

PromiseSpec == PromiseInit /\ [][PromiseNext]_promise
===============================================================================
