---------------------------- MODULE MCInboxHandoff ----------------------------
(* Two messages and two handoffs of one identity.  Lease tokens, handoffs and *)
(* contents are interchangeable.                                              *)
EXTENDS InboxHandoff, TLC

Symmetry == Permutations(Tokens) \cup Permutations(Handoffs) \cup Permutations(Contents)
=============================================================================
