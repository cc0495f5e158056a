---------------------------- MODULE MCRoomAccess ----------------------------
(* RoomAccess for TLC: two connections of the host and one guest.          *)
EXTENDS RoomAccess, TLC

\* The host's connections are interchangeable, and so are the guests'.
Symmetry == Permutations(Hosts) \cup Permutations(Guests)
=============================================================================
