-------------------------- MODULE InactivityLease --------------------------
(***************************************************************************)
(* What the lifetime of an ephemeral room promises its members, whatever   *)
(* timers, documents and servers stand behind it: the room stays active    *)
(* for TTL ticks after its last activity, up to a grace for the activity   *)
(* that was still being recorded, unless its host ends it; and an idle     *)
(* room ends.                                                              *)
(***************************************************************************)
EXTENDS Naturals

CONSTANTS TTL,    \* ticks a room lives without activity
          Grace   \* ticks by which it may end early

VARIABLES lease,  \* active, expired or ended
          idle    \* ticks since the last activity, at most TTL

leaseVars == <<lease, idle>>

Init == lease = "active" /\ idle = 0

Activity == lease = "active" /\ idle' = 0 /\ lease' = lease
Wait == lease = "active" /\ idle < TTL /\ idle' = idle + 1 /\ lease' = lease
Expire == lease = "active" /\ idle + Grace >= TTL
          /\ lease' = "expired" /\ idle' = idle
HostEnds == lease = "active" /\ lease' = "ended" /\ idle' = idle

Next == Activity \/ Wait \/ Expire \/ HostEnds

Safety == Init /\ [][Next]_leaseVars
Spec == Safety /\ WF_leaseVars(Wait) /\ WF_leaseVars(Expire)
=============================================================================
