--------------------------- MODULE MCCallSession ----------------------------
(* CallSession for TLC: sockets and call ids are interchangeable.          *)
EXTENDS CallSession, TLC

Symmetry == Permutations(Sockets) \cup Permutations(Calls)
=============================================================================
