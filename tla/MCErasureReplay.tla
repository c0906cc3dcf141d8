--------------------------- MODULE MCErasureReplay ---------------------------
(* Two people of a company ask for their deletion; a deletion fails after its record *)
(* was written to the journal, and the service restarts once.                        *)
EXTENDS AccountErasure, TLC

CONSTANTS u1, u2, h1, h2

TwoAsk == h1 :> u1 @@ h2 :> u2
=============================================================================
