--------------------------- MODULE MCScheduledRuns ---------------------------
(* One run of either kind of channel, with as many lease tokens as attempts; *)
(* sets of model values are interchangeable.                                 *)
EXTENDS ScheduledRuns, TLC

Symmetry == Permutations(Tokens) \cup Permutations(ReportTokens)
            \cup Permutations(Sessions) \cup Permutations(Turns)
=============================================================================
