--------------------------- MODULE MCOutboxDispatch ---------------------------
(* Two messages and two drains of one identity.  Lease tokens, and drains,    *)
(* are interchangeable.                                                       *)
EXTENDS OutboxDispatch, TLC

Symmetry == Permutations(Tokens) \cup Permutations(Drains)
=============================================================================
