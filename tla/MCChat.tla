-------------------------------- MODULE MCChat --------------------------------
EXTENDS Chat, TLC

CONSTANTS p, q
MCRooms == {p, q}
Symmetry == Permutations(MCRooms)
===============================================================================
