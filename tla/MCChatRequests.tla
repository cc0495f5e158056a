--------------------------- MODULE MCChatRequests ---------------------------
(* ChatRequests for TLC: handlers and rooms are interchangeable.           *)
EXTENDS ChatRequests, TLC

Symmetry == Permutations(Handlers) \cup Permutations(Rooms)
=============================================================================
