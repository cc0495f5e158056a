----------------------------- MODULE MCPresence -----------------------------
(* Presence for TLC: pages are interchangeable, and so are connections.      *)
EXTENDS Presence, TLC

Symmetry == Permutations(Pages) \cup Permutations(Conns)
=============================================================================
