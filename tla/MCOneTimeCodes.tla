---------------------------- MODULE MCOneTimeCodes ----------------------------
(* OneTimeCodes for TLC: the clients are interchangeable.                  *)
EXTENDS OneTimeCodes, TLC

Symmetry == Permutations(Clients)
=============================================================================
