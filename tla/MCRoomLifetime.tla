--------------------------- MODULE MCRoomLifetime ---------------------------
(* RoomLifetime for TLC.                                                    *)
EXTENDS RoomLifetime
=============================================================================
