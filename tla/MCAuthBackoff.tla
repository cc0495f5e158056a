---------------------------- MODULE MCAuthBackoff ----------------------------
(* AuthBackoff for TLC: requests are interchangeable, and so are an address  *)
(* and an account.                                                           *)
EXTENDS AuthBackoff, TLC

Symmetry == Permutations(Requests) \cup Permutations(Identities)
=============================================================================
