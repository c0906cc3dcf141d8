-------------------------- MODULE MCScheduledWorkers --------------------------
(***************************************************************************)
(* One scheduled run with its dispatches, its session and the answer route, *)
(* and one that asks nothing and delegates more.  Lease tokens, which also  *)
(* name sessions, and turns are interchangeable.                            *)
(***************************************************************************)
EXTENDS ScheduledWorkers, TLC

\* The runs of a native channel ask nothing.  The others delegate once, or in their first
\* attempt have an answer of unknown outcome or ask a second time; after that attempt they
\* have one execution of the answer route.
GoesOn(r) == r \in overtaken' \/ (run'[r].seq = 2 /\ ~Terminal(run'[r]))
Alone == \A a, b \in Answers : answer'[a].phase # "idle" /\ answer'[b].phase # "idle" => a = b

Bounded(r) ==
    /\ run[r].channel = "native" => worker'[r].phase # "parked"
    /\ run[r].channel # "native" => tasks'[r].delegated <= IF GoesOn(r) THEN 0 ELSE 1
    /\ GoesOn(r) => run'[r].attempts = 1
    /\ run'[r].attempts = 1 \/ Alone

MCSafety == WorkersInit /\ [][WorkersNext /\ \A r \in Runs : Bounded(r)]_allVars

Symmetry == Permutations(Tokens) \cup Permutations(Answers) \cup Permutations(Turns)
=============================================================================
