------------------------- MODULE RoomAccess_proofs -------------------------
(***************************************************************************)
(* RoomAccess for every number of sockets, every capacity and any number   *)
(* of events: the inductive invariants and the proofs that every step of   *)
(* every handler keeps them.                                               *)
(*                                                                         *)
(* Each lemma *Step takes the steps of Next in the same groups: requests,  *)
(* the steps of a join, of a knock or a verdict, of a leave, failures and  *)
(* expiries, the steps of destroyRoom, and the room's own events.          *)
(***************************************************************************)
EXTENDS RoomAccess, FiniteSetTheorems, TLAPS

AdmitPcs == {"admitAlias", "admitKnock", "admitDelete", "admitAdd",
             "rejectAlias", "rejectDelete"}

\* Only guests knock, and a verdict names a guest.
Roles == \A s \in Sockets : /\ at[s] \in KnockPcs => s \in Guests
                            /\ at[s] \in AdmitPcs => of[s] \in Guests
TypeInv == TypeOK /\ Roles

\* Before the code is known nothing is recorded and only the creator's
\* handler runs; a destroyRoom in flight means that the document is gone
\* once its Redis keys are being deleted.
CreatorPcs == {"idle", "addUser", "setAlias"}

Phases ==
  /\ room = "none" => /\ \A p \in Procs : at[p] = "idle"
                      /\ \A s \in Sockets : leaving[s] = "idle"
  /\ room = "creating" =>
       /\ \A p \in Procs : at[p] \in CreatorPcs
       /\ \A p \in Procs : at[p] # "idle" => p \in Hosts
  /\ room \in {"none", "creating"} =>
       /\ knocks = {} /\ aliases = {} /\ admitted = {}
       /\ \A p \in Procs : at[p] = "idle" =>
                             p \notin users \cup rooms \cup channel
  /\ \A p \in Procs : at[p] \in {"scanKeys", "delKeys"} => room = "gone"

\* A guest past the lock check of a locked room was admitted.
LockInv ==
  Locked /\ room # "gone" =>
    \A s \in Guests :
      \/ s \in users \cup aliases \cup channel
      \/ at[s] \in {"addUser", "setAlias"}
      => s \in admitted

\* A host in the alias hash either has every pending knock behind it or is
\* still bound to read it.
KnockInv ==
  Locked =>
    \A k \in knocks \ aborted : \A h \in (aliases \cap Hosts) \ aborted :
      at[k] # "findHost" =>
        \/ k \in told
        \/ at[h] = "scanKnocks"
        \/ at[h] = "tellHost" /\ k \in scan[h]

\* Where the four records of a socket stand at each step of its handlers.
Recorded(s) ==
  /\ at[s] \notin {"addUser", "setAlias"} =>
       /\ leaving[s] \in {"idle", "removeUser"} =>
            (s \in users <=> s \in aliases) /\ (s \in users <=> s \in rooms)
       /\ leaving[s] = "idle" => (s \in users <=> s \in channel)
  /\ at[s] = "addUser" =>
       s \in rooms /\ s \in channel /\ (s \in users <=> s \in aliases)
  /\ at[s] = "setAlias" => s \in rooms /\ s \in channel /\ s \in users
  /\ leaving[s] \in {"removeAlias", "exit", "again"} => s \notin users
  /\ leaving[s] \in {"exit", "again"} => s \notin aliases
  /\ leaving[s] = "again" => s \notin rooms \cup channel
  /\ link[s] = "closed" => s \notin channel /\ at[s] \notin JoinPcs
  /\ leaving[s] = "again" => link[s] = "closed"

PresenceInv ==
  room # "gone" =>
    \A s \in Sockets \ (raced \cup aborted) : Recorded(s)

\* A join and a leave of one socket that overlap have been noted.
RacedInv ==
  \A s \in Sockets : at[s] \in JoinPcs /\ leaving[s] # "idle" => s \in raced

\* The sockets that count against maxUsers or are about to.
Counted == users \cup Entering

CapacityInv == crowded \/ Cardinality(Counted) <= MaxUsers

IInv == /\ TypeInv /\ Phases /\ LockInv /\ KnockInv /\ RacedInv
        /\ PresenceInv /\ CapacityInv

-----------------------------------------------------------------------------
\* Every step of every handler keeps the variables in their types and lets
\* only guests knock.
LEMMA TypeStep ==
  ASSUME TypeInv, [Next]_vars
  PROVE  TypeInv'
<1> USE SocketsAssumption DEF Pcs, JoinPcs, KnockPcs, HostPcs, TellPcs,
      DestroyPcs, LeavePcs, RoomKeys, Procs, Guests, redisVars, socketVars,
      history, TypeInv, TypeOK, Roles, AdmitPcs
<1>1. ASSUME NEW s \in Sockets, Request(s) PROVE TypeInv'
  <2>1. CASE CreateRoom(s) \/ JoinRoom(s)
    BY <2>1 DEF CreateRoom, EnterChannel, JoinRoom, MayAsk, Event
  <2>2. CASE \/ Knock(s) \/ EndRoom(s)
             \/ \E k \in Guests : AdmitUser(s, k) \/ RejectUser(s, k)
    BY <2>2 DEF Knock, EndRoom, AdmitUser, RejectUser, Ask, MayAsk, Event
  <2>3. CASE LeaveRoom(s) \/ LoseLink(s) \/ Disconnect(s)
    BY <2>3 DEF LeaveRoom, LoseLink, Disconnect, StartLeave, JoinInFlight,
                Event
  <2>4. QED
    BY <1>1, <2>1, <2>2, <2>3 DEF Request
<1>2. ASSUME NEW s \in Sockets, JoinStep(s) PROVE TypeInv'
  <2>1. CASE RoomFull(s) \/ IsAdmitted(s)
    BY <2>1 DEF RoomFull, IsAdmitted, EnterChannel
  <2>5. CASE GetRoomUsers(s)
    <3>1. crowded' \in BOOLEAN
      BY <2>5, Zenon DEF GetRoomUsers
    <3>2. QED
      BY <2>5, <3>1 DEF GetRoomUsers, EnterChannel
  <2>2. CASE AddUser(s) \/ SetAlias(s)
    BY <2>2 DEF AddUser, SetAlias
  <2>3. CASE ScanKnocks(s)
    BY <2>3 DEF ScanKnocks
  <2>4. CASE TellHost(s)
    BY <2>4 DEF TellHost
  <2>6. QED
    BY <1>2, <2>1, <2>2, <2>3, <2>4, <2>5 DEF JoinStep
<1>3. ASSUME NEW s \in Sockets, KnockStep(s) PROVE TypeInv'
  BY <1>3 DEF KnockStep, SetKnock, FindHost, CheckHost, AsHost, IsHost,
              AdmitKnock, AdmitDelete, AdmitAdd, RejectDelete, DropKnock
<1>4. ASSUME NEW s \in Sockets, LeaveStep(s) PROVE TypeInv'
  BY <1>4 DEF LeaveStep, RemoveUser, RemoveAlias, Exit, Again
<1>5. ASSUME NEW s \in Sockets,
             KnockExpires(s) \/ AbortRequest(s) \/ AbortLeave(s)
      PROVE  TypeInv'
  BY <1>5 DEF KnockExpires, DropKnock, AbortRequest, AbortLeave, Event
<1>6. ASSUME NEW p \in Procs, DestroyStep(p) PROVE TypeInv'
  BY <1>6 DEF DestroyStep, FindRoom, DeleteRoom, ScanKeys, ExistingKeys,
              DelKeys
<1>7. CASE CreateByRest \/ Expire \/ DocExpires
  BY <1>7 DEF CreateByRest, Expire, DocExpires, Event
<1>8. CASE UNCHANGED vars
  BY <1>8 DEF vars
<1>9. QED
  BY <1>1, <1>2, <1>3, <1>4, <1>5, <1>6, <1>7, <1>8 DEF Next

\* Nothing is recorded for a room before its code is known, and the
\* document is gone before destroyRoom touches Redis.
LEMMA PhasesStep ==
  ASSUME TypeInv, Phases, [Next]_vars
  PROVE  Phases'
<1> USE SocketsAssumption DEF Pcs, JoinPcs, KnockPcs, HostPcs, TellPcs,
      DestroyPcs, LeavePcs, RoomKeys, Procs, Guests, redisVars, socketVars,
      history, TypeInv, TypeOK, Roles, AdmitPcs, Phases, CreatorPcs
<1>1. ASSUME NEW s \in Sockets, Request(s) PROVE Phases'
  <2>1. CASE CreateRoom(s) \/ JoinRoom(s)
    BY <2>1 DEF CreateRoom, EnterChannel, JoinRoom, MayAsk, Event
  <2>2. CASE \/ Knock(s) \/ EndRoom(s)
             \/ \E k \in Guests : AdmitUser(s, k) \/ RejectUser(s, k)
    BY <2>2 DEF Knock, EndRoom, AdmitUser, RejectUser, Ask, MayAsk, Event
  <2>3. CASE LeaveRoom(s) \/ LoseLink(s) \/ Disconnect(s)
    BY <2>3 DEF LeaveRoom, LoseLink, Disconnect, StartLeave, JoinInFlight,
                Event
  <2>4. QED
    BY <1>1, <2>1, <2>2, <2>3 DEF Request
<1>2. ASSUME NEW s \in Sockets, JoinStep(s) PROVE Phases'
  BY <1>2 DEF JoinStep, RoomFull, GetRoomUsers, IsAdmitted, AddUser, SetAlias,
              ScanKnocks, TellHost, EnterChannel
<1>3. ASSUME NEW s \in Sockets, KnockStep(s) PROVE Phases'
  BY <1>3 DEF KnockStep, SetKnock, FindHost, CheckHost, AsHost, IsHost,
              AdmitKnock, AdmitDelete, AdmitAdd, RejectDelete, DropKnock
<1>4. ASSUME NEW s \in Sockets, LeaveStep(s) PROVE Phases'
  BY <1>4 DEF LeaveStep, RemoveUser, RemoveAlias, Exit, Again
<1>5. ASSUME NEW s \in Sockets,
             KnockExpires(s) \/ AbortRequest(s) \/ AbortLeave(s)
      PROVE  Phases'
  BY <1>5 DEF KnockExpires, DropKnock, AbortRequest, AbortLeave, Event
<1>6. ASSUME NEW p \in Procs, DestroyStep(p) PROVE Phases'
  BY <1>6 DEF DestroyStep, FindRoom, DeleteRoom, ScanKeys, ExistingKeys,
              DelKeys
<1>7. CASE CreateByRest \/ Expire \/ DocExpires
  BY <1>7 DEF CreateByRest, Expire, DocExpires, Event
<1>8. CASE UNCHANGED vars
  BY <1>8 DEF vars
<1>9. QED
  BY <1>1, <1>2, <1>3, <1>4, <1>5, <1>6, <1>7, <1>8 DEF Next

\* The lock check stands before every way into a locked room.
LEMMA LockStep ==
  ASSUME TypeInv, Phases, LockInv, [Next]_vars
  PROVE  LockInv'
<1> USE SocketsAssumption DEF Pcs, JoinPcs, KnockPcs, HostPcs, TellPcs,
      DestroyPcs, LeavePcs, RoomKeys, Procs, Guests, redisVars, socketVars,
      history, TypeInv, TypeOK, Roles, AdmitPcs, Phases, CreatorPcs,
      LockInv
<1>1. ASSUME NEW s \in Sockets, Request(s) PROVE LockInv'
  <2>1. CASE CreateRoom(s) \/ JoinRoom(s)
    BY <2>1 DEF CreateRoom, EnterChannel, JoinRoom, MayAsk, Event
  <2>2. CASE \/ Knock(s) \/ EndRoom(s)
             \/ \E k \in Guests : AdmitUser(s, k) \/ RejectUser(s, k)
    BY <2>2 DEF Knock, EndRoom, AdmitUser, RejectUser, Ask, MayAsk, Event
  <2>3. CASE LeaveRoom(s) \/ LoseLink(s) \/ Disconnect(s)
    BY <2>3 DEF LeaveRoom, LoseLink, Disconnect, StartLeave, JoinInFlight,
                Event
  <2>4. QED
    BY <1>1, <2>1, <2>2, <2>3 DEF Request
<1>2. ASSUME NEW s \in Sockets, JoinStep(s) PROVE LockInv'
  BY <1>2 DEF JoinStep, RoomFull, GetRoomUsers, IsAdmitted, AddUser, SetAlias,
              ScanKnocks, TellHost, EnterChannel
<1>3. ASSUME NEW s \in Sockets, KnockStep(s) PROVE LockInv'
  BY <1>3 DEF KnockStep, SetKnock, FindHost, CheckHost, AsHost, IsHost,
              AdmitKnock, AdmitDelete, AdmitAdd, RejectDelete, DropKnock
<1>4. ASSUME NEW s \in Sockets, LeaveStep(s) PROVE LockInv'
  BY <1>4 DEF LeaveStep, RemoveUser, RemoveAlias, Exit, Again
<1>5. ASSUME NEW s \in Sockets,
             KnockExpires(s) \/ AbortRequest(s) \/ AbortLeave(s)
      PROVE  LockInv'
  BY <1>5 DEF KnockExpires, DropKnock, AbortRequest, AbortLeave, Event
<1>6. ASSUME NEW p \in Procs, DestroyStep(p) PROVE LockInv'
  BY <1>6 DEF DestroyStep, FindRoom, DeleteRoom, ScanKeys, ExistingKeys,
              DelKeys
<1>7. CASE CreateByRest \/ Expire \/ DocExpires
  BY <1>7 DEF CreateByRest, Expire, DocExpires, Event
<1>8. CASE UNCHANGED vars
  BY <1>8 DEF vars
<1>9. QED
  BY <1>1, <1>2, <1>3, <1>4, <1>5, <1>6, <1>7, <1>8 DEF Next

\* Between them, the knocker and the host miss no knock.
LEMMA KnockStepKeeps ==
  ASSUME TypeInv, Phases, KnockInv, [Next]_vars
  PROVE  KnockInv'
<1> USE SocketsAssumption DEF Pcs, JoinPcs, KnockPcs, HostPcs, TellPcs,
      DestroyPcs, LeavePcs, RoomKeys, Procs, Guests, redisVars, socketVars,
      history, TypeInv, TypeOK, Roles, AdmitPcs, Phases, CreatorPcs,
      KnockInv
<1>1. ASSUME NEW s \in Sockets, Request(s) PROVE KnockInv'
  <2>1. CASE CreateRoom(s) \/ JoinRoom(s)
    BY <2>1 DEF CreateRoom, EnterChannel, JoinRoom, MayAsk, Event
  <2>2. CASE \/ Knock(s) \/ EndRoom(s)
             \/ \E k \in Guests : AdmitUser(s, k) \/ RejectUser(s, k)
    BY <2>2 DEF Knock, EndRoom, AdmitUser, RejectUser, Ask, MayAsk, Event
  <2>3. CASE LeaveRoom(s) \/ LoseLink(s) \/ Disconnect(s)
    BY <2>3 DEF LeaveRoom, LoseLink, Disconnect, StartLeave, JoinInFlight,
                Event
  <2>4. QED
    BY <1>1, <2>1, <2>2, <2>3 DEF Request
<1>2. ASSUME NEW s \in Sockets, JoinStep(s) PROVE KnockInv'
  BY <1>2 DEF JoinStep, RoomFull, GetRoomUsers, IsAdmitted, AddUser, SetAlias,
              ScanKnocks, TellHost, EnterChannel
<1>3. ASSUME NEW s \in Sockets, KnockStep(s) PROVE KnockInv'
  BY <1>3 DEF KnockStep, SetKnock, FindHost, CheckHost, AsHost, IsHost,
              AdmitKnock, AdmitDelete, AdmitAdd, RejectDelete, DropKnock
<1>4. ASSUME NEW s \in Sockets, LeaveStep(s) PROVE KnockInv'
  BY <1>4 DEF LeaveStep, RemoveUser, RemoveAlias, Exit, Again
<1>5. ASSUME NEW s \in Sockets,
             KnockExpires(s) \/ AbortRequest(s) \/ AbortLeave(s)
      PROVE  KnockInv'
  BY <1>5 DEF KnockExpires, DropKnock, AbortRequest, AbortLeave, Event
<1>6. ASSUME NEW p \in Procs, DestroyStep(p) PROVE KnockInv'
  BY <1>6 DEF DestroyStep, FindRoom, DeleteRoom, ScanKeys, ExistingKeys,
              DelKeys
<1>7. CASE CreateByRest \/ Expire \/ DocExpires
  BY <1>7 DEF CreateByRest, Expire, DocExpires, Event
<1>8. CASE UNCHANGED vars
  BY <1>8 DEF vars
<1>9. QED
  BY <1>1, <1>2, <1>3, <1>4, <1>5, <1>6, <1>7, <1>8 DEF Next

\* A join and a leave of one socket never overlap unnoted.
LEMMA RacedStep ==
  ASSUME TypeInv, Phases, RacedInv, [Next]_vars
  PROVE  RacedInv'
<1> USE SocketsAssumption DEF Pcs, JoinPcs, KnockPcs, HostPcs, TellPcs,
      DestroyPcs, LeavePcs, RoomKeys, Procs, Guests, redisVars, socketVars,
      history, TypeInv, TypeOK, Roles, AdmitPcs, Phases, CreatorPcs,
      RacedInv
<1>1. ASSUME NEW s \in Sockets, Request(s) PROVE RacedInv'
  <2>1. CASE CreateRoom(s) \/ JoinRoom(s)
    BY <2>1 DEF CreateRoom, EnterChannel, JoinRoom, MayAsk, Event
  <2>2. CASE \/ Knock(s) \/ EndRoom(s)
             \/ \E k \in Guests : AdmitUser(s, k) \/ RejectUser(s, k)
    BY <2>2 DEF Knock, EndRoom, AdmitUser, RejectUser, Ask, MayAsk, Event
  <2>3. CASE LeaveRoom(s) \/ LoseLink(s) \/ Disconnect(s)
    BY <2>3 DEF LeaveRoom, LoseLink, Disconnect, StartLeave, JoinInFlight,
                Event
  <2>4. QED
    BY <1>1, <2>1, <2>2, <2>3 DEF Request
<1>2. ASSUME NEW s \in Sockets, JoinStep(s) PROVE RacedInv'
  BY <1>2 DEF JoinStep, RoomFull, GetRoomUsers, IsAdmitted, AddUser, SetAlias,
              ScanKnocks, TellHost, EnterChannel
<1>3. ASSUME NEW s \in Sockets, KnockStep(s) PROVE RacedInv'
  BY <1>3 DEF KnockStep, SetKnock, FindHost, CheckHost, AsHost, IsHost,
              AdmitKnock, AdmitDelete, AdmitAdd, RejectDelete, DropKnock
<1>4. ASSUME NEW s \in Sockets, LeaveStep(s) PROVE RacedInv'
  BY <1>4 DEF LeaveStep, RemoveUser, RemoveAlias, Exit, Again
<1>5. ASSUME NEW s \in Sockets,
             KnockExpires(s) \/ AbortRequest(s) \/ AbortLeave(s)
      PROVE  RacedInv'
  BY <1>5 DEF KnockExpires, DropKnock, AbortRequest, AbortLeave, Event
<1>6. ASSUME NEW p \in Procs, DestroyStep(p) PROVE RacedInv'
  BY <1>6 DEF DestroyStep, FindRoom, DeleteRoom, ScanKeys, ExistingKeys,
              DelKeys
<1>7. CASE CreateByRest \/ Expire \/ DocExpires
  BY <1>7 DEF CreateByRest, Expire, DocExpires, Event
<1>8. CASE UNCHANGED vars
  BY <1>8 DEF vars
<1>9. QED
  BY <1>1, <1>2, <1>3, <1>4, <1>5, <1>6, <1>7, <1>8 DEF Next

\* The four presence records of a socket move together through its join,
\* its leave and its disconnect, whatever the other sockets do.
LEMMA PresenceStep ==
  ASSUME TypeInv, Phases, RacedInv, PresenceInv, [Next]_vars
  PROVE  PresenceInv'
<1> USE SocketsAssumption DEF Pcs, JoinPcs, KnockPcs, HostPcs, TellPcs,
      DestroyPcs, LeavePcs, RoomKeys, Procs, Guests, redisVars, socketVars,
      history, TypeInv, TypeOK, Roles, AdmitPcs, Phases, CreatorPcs,
      RacedInv, PresenceInv, Recorded
<1>1. ASSUME NEW s \in Sockets, Request(s) PROVE PresenceInv'
  <2>1. CASE CreateRoom(s) \/ JoinRoom(s)
    BY <2>1 DEF CreateRoom, EnterChannel, JoinRoom, MayAsk, Event
  <2>2. CASE \/ Knock(s) \/ EndRoom(s)
             \/ \E k \in Guests : AdmitUser(s, k) \/ RejectUser(s, k)
    BY <2>2 DEF Knock, EndRoom, AdmitUser, RejectUser, Ask, MayAsk, Event
  <2>3. CASE LeaveRoom(s) \/ LoseLink(s) \/ Disconnect(s)
    BY <2>3 DEF LeaveRoom, LoseLink, Disconnect, StartLeave, JoinInFlight,
                Event
  <2>4. QED
    BY <1>1, <2>1, <2>2, <2>3 DEF Request
<1>2. ASSUME NEW s \in Sockets, JoinStep(s) PROVE PresenceInv'
  BY <1>2 DEF JoinStep, RoomFull, GetRoomUsers, IsAdmitted, AddUser, SetAlias,
              ScanKnocks, TellHost, EnterChannel
<1>3. ASSUME NEW s \in Sockets, KnockStep(s) PROVE PresenceInv'
  BY <1>3 DEF KnockStep, SetKnock, FindHost, CheckHost, AsHost, IsHost,
              AdmitKnock, AdmitDelete, AdmitAdd, RejectDelete, DropKnock
<1>4. ASSUME NEW s \in Sockets, LeaveStep(s) PROVE PresenceInv'
  BY <1>4 DEF LeaveStep, RemoveUser, RemoveAlias, Exit, Again
<1>5. ASSUME NEW s \in Sockets,
             KnockExpires(s) \/ AbortRequest(s) \/ AbortLeave(s)
      PROVE  PresenceInv'
  BY <1>5 DEF KnockExpires, DropKnock, AbortRequest, AbortLeave, Event
<1>6. ASSUME NEW p \in Procs, DestroyStep(p) PROVE PresenceInv'
  BY <1>6 DEF DestroyStep, FindRoom, DeleteRoom, ScanKeys, ExistingKeys,
              DelKeys
<1>7. CASE CreateByRest \/ Expire \/ DocExpires
  BY <1>7 DEF CreateByRest, Expire, DocExpires, Event
<1>8. CASE UNCHANGED vars
  BY <1>8 DEF vars
<1>9. QED
  BY <1>1, <1>2, <1>3, <1>4, <1>5, <1>6, <1>7, <1>8 DEF Next

\* Only a socket that passes the capacity check joins those counted.
LEMMA CountedShrinks ==
  ASSUME TypeInv, [Next]_vars,
         \A s \in Sockets : ~ GetRoomUsers(s) /\ ~ CreateRoom(s)
  PROVE  Counted' \subseteq Counted /\ crowded' = crowded
<1> USE SocketsAssumption DEF Procs, Guests, redisVars, socketVars,
    history, TypeInv, TypeOK, Counted, Entering
<1>1. ASSUME NEW s \in Sockets, Request(s)
      PROVE  Counted' \subseteq Counted /\ crowded' = crowded
  <2>1. CASE JoinRoom(s)
    BY <2>1 DEF JoinRoom, MayAsk, Event
  <2>2. CASE \/ Knock(s) \/ EndRoom(s)
             \/ \E k \in Guests : AdmitUser(s, k) \/ RejectUser(s, k)
    BY <2>2 DEF Knock, EndRoom, AdmitUser, RejectUser, Ask, MayAsk, Event
  <2>3. CASE LeaveRoom(s) \/ LoseLink(s) \/ Disconnect(s)
    BY <2>3 DEF LeaveRoom, LoseLink, Disconnect, StartLeave, Event
  <2>4. QED
    BY <1>1, <2>1, <2>2, <2>3 DEF Request
<1>2. ASSUME NEW s \in Sockets, JoinStep(s)
      PROVE  Counted' \subseteq Counted /\ crowded' = crowded
  BY <1>2 DEF JoinStep, RoomFull, IsAdmitted, AddUser, SetAlias, ScanKnocks,
              TellHost, EnterChannel
<1>3. ASSUME NEW s \in Sockets, KnockStep(s)
      PROVE  Counted' \subseteq Counted /\ crowded' = crowded
  BY <1>3 DEF KnockStep, SetKnock, FindHost, CheckHost, AsHost, IsHost,
              AdmitKnock, AdmitDelete, AdmitAdd, RejectDelete, DropKnock
<1>4. ASSUME NEW s \in Sockets, LeaveStep(s)
      PROVE  Counted' \subseteq Counted /\ crowded' = crowded
  BY <1>4 DEF LeaveStep, RemoveUser, RemoveAlias, Exit, Again
<1>5. ASSUME NEW s \in Sockets,
             KnockExpires(s) \/ AbortRequest(s) \/ AbortLeave(s)
      PROVE  Counted' \subseteq Counted /\ crowded' = crowded
  BY <1>5 DEF KnockExpires, DropKnock, AbortRequest, AbortLeave, Event
<1>6. ASSUME NEW p \in Procs, DestroyStep(p)
      PROVE  Counted' \subseteq Counted /\ crowded' = crowded
  BY <1>6 DEF DestroyStep, FindRoom, DeleteRoom, ScanKeys, DelKeys
<1>7. CASE CreateByRest \/ Expire \/ DocExpires
  BY <1>7 DEF CreateByRest, Expire, DocExpires, Event
<1>8. CASE UNCHANGED vars
  BY <1>8 DEF vars
<1>9. QED
  BY <1>1, <1>2, <1>3, <1>4, <1>5, <1>6, <1>7, <1>8 DEF Next

\* Unless two sockets are past the check of room.handler.js:226 together, a
\* socket that passes it leaves room for itself.
LEMMA CapacityStep ==
  ASSUME TypeInv, Phases, CapacityInv, [Next]_vars PROVE CapacityInv'
<1> USE SocketsAssumption DEF TypeInv, TypeOK, Procs, Guests, CapacityInv
<1>1. /\ IsFiniteSet(users) /\ IsFiniteSet(Counted)
      /\ Cardinality(users) \in Nat /\ MaxUsers \in Nat \ {0}
  <2>1. users \subseteq Sockets /\ Counted \subseteq Sockets
    BY DEF Counted, Entering
  <2>2. QED
    BY <2>1, FS_Subset, FS_CardinalityType, RoomAssumption
<1>2. CASE \A s \in Sockets : ~ GetRoomUsers(s) /\ ~ CreateRoom(s)
  <2>1. Counted' \subseteq Counted /\ crowded' = crowded
    BY <1>2, CountedShrinks
  <2>2. Cardinality(Counted') <= Cardinality(Counted) /\ IsFiniteSet(Counted')
    BY <1>1, <2>1, FS_Subset
  <2>3. Cardinality(Counted') \in Nat /\ Cardinality(Counted) \in Nat
    BY <1>1, <2>2, FS_CardinalityType
  <2>4. QED
    BY <1>1, <2>1, <2>2, <2>3 DEF Counted
<1>3. ASSUME NEW s \in Sockets, GetRoomUsers(s) PROVE CapacityInv'
  <2>1. CASE crowded'
    BY <2>1
  <2>2. CASE ~ crowded' /\ s \in users
    <3>1. Counted' \subseteq Counted /\ ~ crowded
      BY <1>3, <2>2 DEF GetRoomUsers, EnterChannel, Counted, Entering,
                        redisVars
    <3>2. Cardinality(Counted') <= Cardinality(Counted)
          /\ IsFiniteSet(Counted')
      BY <1>1, <3>1, FS_Subset
    <3>3. Cardinality(Counted') \in Nat /\ Cardinality(Counted) \in Nat
      BY <1>1, <3>2, FS_CardinalityType
    <3>4. QED
      BY <1>1, <3>1, <3>2, <3>3 DEF Counted
  <2>3. CASE ~ crowded' /\ s \notin users
    <3>1. Entering = {} /\ Cardinality(users) < MaxUsers
      BY <1>3, <2>3 DEF GetRoomUsers
    <3>2. Counted' \subseteq users \cup {s}
      BY <1>3, <3>1 DEF GetRoomUsers, EnterChannel, Counted, Entering,
                        redisVars
    <3>3. IsFiniteSet(users \cup {s})
          /\ Cardinality(users \cup {s}) = Cardinality(users) + 1
      BY <1>1, <2>3, FS_AddElement
    <3>4. Cardinality(Counted') <= Cardinality(users \cup {s})
          /\ IsFiniteSet(Counted')
      BY <3>2, <3>3, FS_Subset
    <3>5. Cardinality(Counted') \in Nat
      BY <3>4, FS_CardinalityType
    <3>6. QED
      BY <1>1, <3>1, <3>3, <3>4, <3>5 DEF Counted
  <2>4. QED
    BY <2>1, <2>2, <2>3
<1>4. ASSUME NEW s \in Sockets, CreateRoom(s) PROVE CapacityInv'
  <2>1. Counted' \subseteq {s} /\ crowded' = crowded
    BY <1>4 DEF CreateRoom, EnterChannel, Counted, Entering, redisVars,
                history, Phases
  <2>2. IsFiniteSet({s}) /\ Cardinality({s}) = 1
    BY FS_Singleton
  <2>3. Cardinality(Counted') <= 1 /\ IsFiniteSet(Counted')
    BY <2>1, <2>2, FS_Subset
  <2>4. Cardinality(Counted') \in Nat
    BY <2>3, FS_CardinalityType
  <2>5. QED
    BY <1>1, <2>3, <2>4 DEF Counted
<1>5. QED
  BY <1>2, <1>3, <1>4

-----------------------------------------------------------------------------
\* The initial state: no room, nobody in it, every handler idle.
LEMMA InitInv == Init => IInv
<1> SUFFICES ASSUME Init PROVE IInv
  OBVIOUS
<1> USE SocketsAssumption, RoomAssumption DEF Init, Procs, Guests, Pcs,
      LeavePcs, JoinPcs, KnockPcs, HostPcs, TellPcs, DestroyPcs, AdmitPcs
<1>1. TypeInv
  BY DEF TypeInv, TypeOK, Roles
<1>2. Phases /\ LockInv /\ KnockInv /\ RacedInv
  BY DEF Phases, LockInv, KnockInv, RacedInv, CreatorPcs
<1>3. PresenceInv
  BY DEF PresenceInv, Recorded
<1>4. CapacityInv
  <2>1. Counted = {}
    BY DEF Counted, Entering
  <2>2. QED
    BY <2>1, FS_EmptySet DEF CapacityInv
<1>5. QED
  BY <1>1, <1>2, <1>3, <1>4 DEF IInv

\* The conjunction is inductive: the lemmas above, put together.
LEMMA StepInv == IInv /\ [Next]_vars => IInv'
  BY TypeStep, PhasesStep, LockStep, KnockStepKeeps, RacedStep, PresenceStep,
     CapacityStep DEF IInv

\* In every behaviour, for any sockets, capacity and number of events.
THEOREM Invariance == Spec => []IInv
  BY InitInv, StepInv, PTL DEF Spec

\* The room document, the Redis keys, the socket.io records and the handlers'
\* positions always have their types.
THEOREM TypeCorrect == Spec => []TypeOK
<1>1. IInv => TypeOK
  BY DEF IInv, TypeInv
<1>2. QED
  BY <1>1, Invariance, PTL

\* In a locked room only hosts and admitted sockets are counted, named or
\* reached by its messages.
THEOREM LockedRoomEntry == Spec => []LockedEntry
<1>1. IInv => LockedEntry
  BY DEF IInv, TypeInv, TypeOK, LockInv, LockedEntry, Guests
<1>2. QED
  BY <1>1, Invariance, PTL

\* A pending knock whose delivery is over was sent to a host's socket.
THEOREM KnockDelivery == Spec => []KnockReachesHost
<1>1. IInv => KnockReachesHost
  BY DEF IInv, KnockInv, KnockReachesHost, TellPcs
<1>2. QED
  BY <1>1, Invariance, PTL

\* The records of who is in an open room agree for every socket at rest
\* whose join never overlapped its own leave.
THEOREM PresenceAgreement == Spec => []PresenceAgrees
<1>1. IInv => PresenceAgrees
  BY DEF IInv, PresenceInv, Recorded, PresenceAgrees, Quiet, JoinPcs
<1>2. QED
  BY <1>1, Invariance, PTL

\* maxUsers holds unless two sockets were past its check at the same time.
THEOREM Capacity == Spec => []CapacityUnlessCrowded
<1>1. IInv => CapacityUnlessCrowded
  <2> SUFFICES ASSUME IInv, ~ crowded PROVE Cardinality(users) <= MaxUsers
    BY DEF CapacityUnlessCrowded
  <2>1. users \subseteq Counted /\ Counted \subseteq Sockets
    BY DEF IInv, TypeInv, TypeOK, Counted, Entering
  <2>2. IsFiniteSet(Counted) /\ IsFiniteSet(users)
        /\ Cardinality(users) <= Cardinality(Counted)
    BY <2>1, FS_Subset, SocketsAssumption
  <2>3. Cardinality(users) \in Nat /\ Cardinality(Counted) \in Nat
    BY <2>2, FS_CardinalityType
  <2>4. QED
    BY <2>2, <2>3, RoomAssumption DEF IInv, CapacityInv
<1>2. QED
  BY <1>1, Invariance, PTL
=============================================================================
