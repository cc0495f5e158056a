----------------------------- MODULE RoomAccess -----------------------------
(***************************************************************************)
(* Entry to one ephemeral room: room.handler.js (create, join, leave, end, *)
(* disconnect) and knock.handler.js (knock, admit, reject), over the room  *)
(* document in MongoDB and the presence, admission and knock keys in Redis.*)
(*                                                                         *)
(* A handler is an async function.  It gives up the event loop at every    *)
(* await, and the sockets of a room may sit on different server instances, *)
(* so between two awaited calls anything else may happen.  One action is   *)
(* one awaited call taking effect together with the synchronous code up to *)
(* the next await; at[p] names the call that process p waits for.          *)
(*                                                                         *)
(* A socket here is one connection: a client that reconnects is another    *)
(* socket.  Each socket has at most one request handler and one leave or   *)
(* disconnect handler in flight.                                           *)
(***************************************************************************)
EXTENDS Naturals, FiniteSets

CONSTANTS Sockets,    \* connections that may name the room's code
          Hosts,      \* those whose client uses the alias in room.createdBy
          Timer,      \* the process of the expiry timer
          Locked,     \* room.isLocked
          MaxUsers,   \* room.maxUsers
          MaxEvents   \* bound: requests, disconnects, expiries and failures

Guests == Sockets \ Hosts
Procs == Sockets \cup {Timer}

ASSUME SocketsAssumption == /\ IsFiniteSet(Sockets)
                            /\ Hosts \subseteq Sockets
                            /\ Timer \notin Sockets
ASSUME RoomAssumption == /\ Locked \in BOOLEAN
                         /\ MaxUsers \in Nat \ {0}
                         /\ MaxEvents \in Nat

VARIABLES
  room,       \* the room document: none, creating, open, gone
  users,      \* Redis set   room:<code>:users
  aliases,    \* Redis hash  room:<code>:aliases, the sockets that have a field
  admitted,   \* Redis set   room:<code>:admitted
  knocks,     \* Redis keys  knock:<code>:<socket>
  channel,    \* the socket.io room, over all instances
  rooms,      \* the sockets whose socket.data.rooms holds the code
  link,       \* the connection: up, lost (server not told yet), closed
  at,         \* the awaited call of each process's request handler
  of,         \* the knockSocketId of an admit or reject in flight
  leaving,    \* the awaited call of the leave or disconnect handler
  scan,       \* the keys a SCAN in flight is bound to return
  doomed,     \* the room keys found by cleanupRoom's SCAN
  told,       \* sockets whose knock was emitted to a host socket (history)
  raced,      \* sockets whose join overlapped their own leave (history)
  crowded,    \* two joins were past the capacity check at once (history)
  aborted,    \* sockets that had a handler fail half way (history)
  events      \* events so far, up to the bound

redisVars == <<users, aliases, admitted, knocks>>
socketVars == <<channel, rooms, link>>
history == <<told, raced, crowded, aborted>>
vars == <<room, redisVars, socketVars, at, of, leaving, scan, doomed,
          history, events>>

JoinPcs == {"getRoomUsers", "isAdmitted", "addUser", "setAlias"}
KnockPcs == {"setKnock", "findHost"}
HostPcs == {"admitAlias", "admitKnock", "admitDelete", "admitAdd",
            "rejectAlias", "rejectDelete", "endAlias"}
TellPcs == {"scanKnocks", "tellHost"}
DestroyPcs == {"findRoom", "deleteRoom", "scanKeys", "delKeys"}
Pcs == {"idle"} \cup JoinPcs \cup KnockPcs \cup HostPcs \cup TellPcs
                \cup DestroyPcs
LeavePcs == {"idle", "removeUser", "removeAlias", "exit", "again"}
RoomKeys == {"users", "aliases", "admitted"}

Init ==
  /\ room = "none"
  /\ users = {} /\ aliases = {} /\ admitted = {} /\ knocks = {}
  /\ channel = {} /\ rooms = {}
  /\ link = [s \in Sockets |-> "up"]
  /\ at = [p \in Procs |-> "idle"]
  /\ of = [s \in Sockets |-> s]
  /\ leaving = [s \in Sockets |-> "idle"]
  /\ scan = [s \in Sockets |-> {}]
  /\ doomed = [p \in Procs |-> {}]
  /\ told = {} /\ raced = {} /\ crowded = FALSE /\ aborted = {}
  /\ events = 0

-----------------------------------------------------------------------------
\* One more event from outside: a request, a lost link, an expiry.
Event == events < MaxEvents /\ events' = events + 1

(* Creating the room.                                                      *)

\* POST /rooms: the document exists, nobody is in the room and no timer runs.
CreateByRest ==
  /\ room = "none"
  /\ room' = "open"
  /\ UNCHANGED <<redisVars, socketVars, at, of, leaving, scan, doomed,
                 history, events>>

\* socket.join and data.rooms.add, the synchronous head of joinSocketToRoom.
\* socket.io replaces join by a no-op once the connection is closed.
EnterChannel(s) ==
  /\ at' = [at EXCEPT ![s] = "addUser"]
  /\ rooms' = rooms \cup {s}
  /\ channel' = IF link[s] = "closed" THEN channel ELSE channel \cup {s}

\* create_room: nobody else knows the code before room_created is emitted.
CreateRoom(s) ==
  /\ room = "none" /\ s \in Hosts /\ link[s] = "up" /\ at[s] = "idle"
  /\ Event
  /\ room' = "creating"
  /\ EnterChannel(s)
  /\ UNCHANGED <<redisVars, link, of, leaving, scan, doomed, history>>

-----------------------------------------------------------------------------
(* join_room.                                                              *)

\* A client that has the code may send a request whenever it is connected.
MayAsk(s) == link[s] = "up" /\ at[s] = "idle" /\ room = "open" /\ Event

\* findOne finds the room; without it the handler answers ROOM_NOT_FOUND.
JoinRoom(s) ==
  /\ MayAsk(s)
  /\ at' = [at EXCEPT ![s] = "getRoomUsers"]
  /\ raced' = IF leaving[s] # "idle" THEN raced \cup {s} ELSE raced
  /\ UNCHANGED <<room, redisVars, socketVars, of, leaving, scan, doomed, told,
                 crowded, aborted>>

\* Sockets past the capacity check and not yet counted by it.
Entering == {t \in Sockets : at[t] \in {"isAdmitted", "addUser"}} \ users

RoomFull(s) ==
  /\ at[s] = "getRoomUsers"
  /\ Cardinality(users) >= MaxUsers /\ s \notin users
  /\ at' = [at EXCEPT ![s] = "idle"]
  /\ UNCHANGED <<room, redisVars, socketVars, of, leaving, scan, doomed,
                 history, events>>

\* Mutation: one user too many.
GetRoomUsersOffByOne(s) ==
  /\ at[s] = "getRoomUsers"
  /\ Cardinality(users) <= MaxUsers \/ s \in users
  /\ crowded' = (crowded \/ (s \notin users /\ Entering # {}))
  /\ IF Locked /\ s \notin Hosts
     THEN /\ at' = [at EXCEPT ![s] = "isAdmitted"]
          /\ UNCHANGED <<channel, rooms>>
     ELSE EnterChannel(s)
  /\ UNCHANGED <<room, redisVars, link, of, leaving, scan, doomed, told,
                 raced, aborted, events>>

GetRoomUsers(s) ==
  /\ at[s] = "getRoomUsers"
  /\ Cardinality(users) < MaxUsers \/ s \in users
  /\ crowded' = (crowded \/ (s \notin users /\ Entering # {}))
  /\ IF Locked /\ s \notin Hosts
     THEN /\ at' = [at EXCEPT ![s] = "isAdmitted"]
          /\ UNCHANGED <<channel, rooms>>
     ELSE EnterChannel(s)
  /\ UNCHANGED <<room, redisVars, link, of, leaving, scan, doomed, told,
                 raced, aborted, events>>

\* Mutation: a pending knock counts as an admission.
IsAdmittedByKnock(s) ==
  /\ at[s] = "isAdmitted"
  /\ IF s \in admitted \cup knocks
     THEN EnterChannel(s)
     ELSE /\ at' = [at EXCEPT ![s] = "idle"]
          /\ UNCHANGED <<channel, rooms>>
  /\ UNCHANGED <<room, redisVars, link, of, leaving, scan, doomed, history,
                 events>>

\* A locked room lets in the sockets the host admitted; WRONG_PASSPHRASE
\* to the others.
IsAdmitted(s) ==
  /\ at[s] = "isAdmitted"
  /\ IF s \in admitted
     THEN EnterChannel(s)
     ELSE /\ at' = [at EXCEPT ![s] = "idle"]
          /\ UNCHANGED <<channel, rooms>>
  /\ UNCHANGED <<room, redisVars, link, of, leaving, scan, doomed,
                 history, events>>

AddUser(s) ==
  /\ at[s] = "addUser"
  /\ users' = users \cup {s}
  /\ at' = [at EXCEPT ![s] = "setAlias"]
  /\ UNCHANGED <<room, aliases, admitted, knocks, socketVars, of, leaving,
                 scan, doomed, history, events>>

\* Mutation: the host is not given the knocks that came before it.
SetAliasOnly(s) ==
  /\ at[s] = "setAlias"
  /\ aliases' = aliases \cup {s}
  /\ room' = IF room = "creating" THEN "open" ELSE room
  /\ at' = [at EXCEPT ![s] = "idle"]
  /\ UNCHANGED <<users, admitted, knocks, socketVars, of, leaving, scan,
                 doomed, history, events>>

\* After the alias: colour, currentUsers, touchRoom, history, room_joined;
\* a host of a locked room goes on to read the pending knocks.
SetAlias(s) ==
  /\ at[s] = "setAlias"
  /\ aliases' = aliases \cup {s}
  /\ room' = IF room = "creating" THEN "open" ELSE room
  /\ at' = [at EXCEPT ![s] = IF room # "creating" /\ Locked /\ s \in Hosts
                             THEN "scanKnocks" ELSE "idle"]
  /\ UNCHANGED <<users, admitted, knocks, socketVars, of, leaving, scan,
                 doomed, history, events>>

\* getPendingKnocks: SCAN returns every key that stays present from its
\* first call to its last, and may or may not return the others.
ScanKnocks(s) ==
  /\ at[s] = "scanKnocks"
  /\ scan' = [scan EXCEPT ![s] = knocks]
  /\ at' = [at EXCEPT ![s] = "tellHost"]
  /\ UNCHANGED <<room, redisVars, socketVars, of, leaving, doomed,
                 history, events>>

TellHost(s) ==
  /\ at[s] = "tellHost"
  /\ \E extra \in SUBSET (knocks \ scan[s]) :
       told' = told \cup scan[s] \cup extra
  /\ scan' = [scan EXCEPT ![s] = {}]
  /\ at' = [at EXCEPT ![s] = "idle"]
  /\ UNCHANGED <<room, redisVars, socketVars, of, leaving, doomed, raced,
                 crowded, aborted, events>>

-----------------------------------------------------------------------------
(* knock, admit_user, reject_user.                                         *)

\* Mutation: the host's client knocks too.
KnockByAnyone(s) ==
  /\ MayAsk(s)
  /\ at' = [at EXCEPT ![s] = "setKnock"]
  /\ UNCHANGED <<room, redisVars, socketVars, of, leaving, scan, doomed,
                 history>>

\* The client of a locked room that is not the host's knocks instead of
\* joining (ChatController.js:128-130).
Knock(s) ==
  /\ MayAsk(s) /\ s \notin Hosts
  /\ at' = [at EXCEPT ![s] = "setKnock"]
  /\ UNCHANGED <<room, redisVars, socketVars, of, leaving, scan, doomed,
                 history>>

SetKnock(s) ==
  /\ at[s] = "setKnock"
  /\ knocks' = knocks \cup {s}
  /\ told' = told \ {s}
  /\ at' = [at EXCEPT ![s] = "findHost"]
  /\ UNCHANGED <<room, users, aliases, admitted, socketVars, of, leaving,
                 scan, doomed, raced, crowded, aborted, events>>

\* The first socket under the host's alias, in the hash's own order; with
\* none the host's devices get a push and the knock waits.
FindHost(s) ==
  /\ at[s] = "findHost"
  /\ at' = [at EXCEPT ![s] = "idle"]
  /\ \/ /\ aliases \cap Hosts = {}
        /\ UNCHANGED told
     \/ /\ aliases \cap Hosts # {}
        /\ told' = told \cup {s}
  /\ UNCHANGED <<room, redisVars, socketVars, of, leaving, scan, doomed,
                 raced, crowded, aborted, events>>

\* A deleted knock key is no longer one a SCAN must return.
DropKnock(k) ==
  /\ knocks' = knocks \ {k}
  /\ scan' = [s \in Sockets |-> scan[s] \ {k}]

\* The key's EX 300 runs out.
KnockExpires(k) ==
  /\ Event
  /\ k \in knocks
  /\ DropKnock(k)
  /\ UNCHANGED <<room, users, aliases, admitted, socketVars, at, of, leaving,
                 doomed, history>>

\* admit_user, reject_user or end_room: findOne finds the room.
\* Only the host's screen offers them; its alias may be gone by now.
Ask(s, pc, k) ==
  /\ MayAsk(s) /\ s \in Hosts
  /\ at' = [at EXCEPT ![s] = pc]
  /\ of' = [of EXCEPT ![s] = k]
  /\ UNCHANGED <<room, redisVars, socketVars, leaving, scan, doomed,
                 history>>

AdmitUser(s, k) == Ask(s, "admitAlias", k)
RejectUser(s, k) == Ask(s, "rejectAlias", k)
EndRoom(s) == Ask(s, "endAlias", s)

\* The caller is the host when its alias field holds room.createdBy;
\* NOT_HOST otherwise.
IsHost(s) == s \in aliases /\ s \in Hosts

AsHost(s, pc) == at' = [at EXCEPT ![s] = IF IsHost(s) THEN pc ELSE "idle"]

CheckHost(s) ==
  /\ \/ at[s] = "admitAlias" /\ AsHost(s, "admitKnock")
     \/ at[s] = "rejectAlias" /\ AsHost(s, "rejectDelete")
     \/ at[s] = "endAlias" /\ AsHost(s, "findRoom")
  /\ UNCHANGED <<room, redisVars, socketVars, of, leaving, scan, doomed,
                 history, events>>

\* getKnock: a knock that expired or was handled is not admitted.
AdmitKnock(s) ==
  /\ at[s] = "admitKnock"
  /\ at' = [at EXCEPT ![s] = IF of[s] \in knocks THEN "admitDelete"
                                                  ELSE "idle"]
  /\ UNCHANGED <<room, redisVars, socketVars, of, leaving, scan, doomed,
                 history, events>>

AdmitDelete(s) ==
  /\ at[s] = "admitDelete"
  /\ DropKnock(of[s])
  /\ at' = [at EXCEPT ![s] = "admitAdd"]
  /\ UNCHANGED <<room, users, aliases, admitted, socketVars, of, leaving,
                 doomed, history, events>>

AdmitAdd(s) ==
  /\ at[s] = "admitAdd"
  /\ admitted' = admitted \cup {of[s]}
  /\ at' = [at EXCEPT ![s] = "idle"]
  /\ UNCHANGED <<room, users, aliases, knocks, socketVars, of, leaving, scan,
                 doomed, history, events>>

RejectDelete(s) ==
  /\ at[s] = "rejectDelete"
  /\ DropKnock(of[s])
  /\ at' = [at EXCEPT ![s] = "idle"]
  /\ UNCHANGED <<room, users, aliases, admitted, socketVars, of, leaving,
                 doomed, history, events>>

-----------------------------------------------------------------------------
(* leave_room and disconnect: leaveEphemeralRoom.                          *)

JoinInFlight(s) == at[s] \in JoinPcs

StartLeave(s) ==
  /\ leaving' = [leaving EXCEPT ![s] = "removeUser"]
  /\ raced' = IF JoinInFlight(s) THEN raced \cup {s} ELSE raced

LeaveRoom(s) ==
  /\ Event
  /\ link[s] = "up" /\ leaving[s] = "idle" /\ room \in {"open", "gone"}
  /\ StartLeave(s)
  /\ UNCHANGED <<room, redisVars, socketVars, at, of, scan, doomed, told,
                 crowded, aborted>>

\* The client is gone; the server learns of it at the next ping timeout.
LoseLink(s) ==
  /\ Event
  /\ link[s] = "up"
  /\ link' = [link EXCEPT ![s] = "lost"]
  /\ UNCHANGED <<room, redisVars, channel, rooms, at, of, leaving, scan,
                 doomed, history>>

\* socket.io empties the socket's rooms, then the handler walks data.rooms.
Disconnect(s) ==
  /\ Event
  /\ link[s] # "closed" /\ leaving[s] = "idle"
  /\ link' = [link EXCEPT ![s] = "closed"]
  /\ channel' = channel \ {s}
  /\ IF s \in rooms
     THEN StartLeave(s)
     ELSE /\ raced' = IF JoinInFlight(s) THEN raced \cup {s} ELSE raced
          /\ UNCHANGED leaving
  /\ UNCHANGED <<room, redisVars, rooms, at, of, scan, doomed, told, crowded,
                 aborted>>

RemoveUser(s) ==
  /\ leaving[s] = "removeUser"
  /\ users' = users \ {s}
  /\ leaving' = [leaving EXCEPT ![s] = "removeAlias"]
  /\ UNCHANGED <<room, aliases, admitted, knocks, socketVars, at, of, scan,
                 doomed, history, events>>

RemoveAlias(s) ==
  /\ leaving[s] = "removeAlias"
  /\ aliases' = aliases \ {s}
  /\ leaving' = [leaving EXCEPT ![s] = "exit"]
  /\ UNCHANGED <<room, users, admitted, knocks, socketVars, at, of, scan,
                 doomed, history, events>>

\* Mutation: the code stays in socket.data.rooms.
ExitChannelOnly(s) ==
  /\ leaving[s] = "exit"
  /\ channel' = channel \ {s}
  /\ leaving' = [leaving EXCEPT ![s] = IF link[s] = "closed" THEN "again"
                                                             ELSE "idle"]
  /\ UNCHANGED <<room, redisVars, rooms, link, at, of, scan, doomed, history,
                 events>>

\* After the awaited update of currentUsers: leave the channel.
Exit(s) ==
  /\ leaving[s] = "exit"
  /\ channel' = channel \ {s}
  /\ rooms' = rooms \ {s}
  /\ leaving' = [leaving EXCEPT ![s] = IF link[s] = "closed" THEN "again"
                                                             ELSE "idle"]
  /\ UNCHANGED <<room, redisVars, link, at, of, scan, doomed, history, events>>

\* The disconnect handler's iterator visits a code added back meanwhile.
Again(s) ==
  /\ leaving[s] = "again"
  /\ leaving' = [leaving EXCEPT ![s] = IF s \in rooms THEN "removeUser"
                                                      ELSE "idle"]
  /\ UNCHANGED <<room, redisVars, socketVars, at, of, scan, doomed,
                 history, events>>

-----------------------------------------------------------------------------
(* destroyRoom, called by end_room or by the expiry timer.                 *)

Expire ==
  /\ Event
  /\ at[Timer] = "idle" /\ room \in {"open", "gone"}
  /\ at' = [at EXCEPT ![Timer] = "findRoom"]
  /\ UNCHANGED <<room, redisVars, socketVars, of, leaving, scan, doomed,
                 history>>

\* MongoDB's TTL index removes the document and nothing else.
DocExpires ==
  /\ Event
  /\ room = "open"
  /\ room' = "gone"
  /\ UNCHANGED <<redisVars, socketVars, at, of, leaving, scan, doomed,
                 history>>

FindRoom(p) ==
  /\ at[p] = "findRoom"
  /\ at' = [at EXCEPT ![p] = IF room = "open" THEN "deleteRoom"
                                              ELSE "scanKeys"]
  /\ UNCHANGED <<room, redisVars, socketVars, of, leaving, scan, doomed,
                 history, events>>

DeleteRoom(p) ==
  /\ at[p] = "deleteRoom"
  /\ room' = "gone"
  /\ at' = [at EXCEPT ![p] = "scanKeys"]
  /\ UNCHANGED <<redisVars, socketVars, of, leaving, scan, doomed,
                 history, events>>

\* Redis has no empty set or hash: a key exists when it has a member.
ExistingKeys == {k \in RoomKeys : \/ k = "users" /\ users # {}
                                  \/ k = "aliases" /\ aliases # {}
                                  \/ k = "admitted" /\ admitted # {}}

ScanKeys(p) ==
  /\ at[p] = "scanKeys"
  /\ doomed' = [doomed EXCEPT ![p] = ExistingKeys]
  /\ at' = [at EXCEPT ![p] = "delKeys"]
  /\ UNCHANGED <<room, redisVars, socketVars, of, leaving, scan,
                 history, events>>

\* One DEL of the keys found, then everyone is put out of the channel.
\* Knock keys and socket.data.rooms stay.
DelKeys(p) ==
  /\ at[p] = "delKeys"
  /\ users' = IF "users" \in doomed[p] THEN {} ELSE users
  /\ aliases' = IF "aliases" \in doomed[p] THEN {} ELSE aliases
  /\ admitted' = IF "admitted" \in doomed[p] THEN {} ELSE admitted
  /\ channel' = {}
  /\ doomed' = [doomed EXCEPT ![p] = {}]
  /\ at' = [at EXCEPT ![p] = "idle"]
  /\ UNCHANGED <<room, knocks, rooms, link, of, leaving, scan, history,
                 events>>

-----------------------------------------------------------------------------
(* A MongoDB or Redis call fails and the handler's catch block logs it.    *)

AbortRequest(s) ==
  /\ at[s] \notin {"idle"} \cup DestroyPcs /\ room # "creating"
  /\ Event
  /\ at' = [at EXCEPT ![s] = "idle"]
  /\ scan' = [scan EXCEPT ![s] = {}]
  /\ aborted' = aborted \cup {s}
  /\ UNCHANGED <<room, redisVars, socketVars, of, leaving, doomed, told,
                 raced, crowded>>

AbortLeave(s) ==
  /\ leaving[s] \in {"removeUser", "removeAlias"}
  /\ Event
  /\ leaving' = [leaving EXCEPT ![s] = "idle"]
  /\ aborted' = aborted \cup {s}
  /\ UNCHANGED <<room, redisVars, socketVars, at, of, scan, doomed, told,
                 raced, crowded>>

-----------------------------------------------------------------------------

JoinStep(s) ==
  \/ RoomFull(s) \/ GetRoomUsers(s) \/ IsAdmitted(s) \/ AddUser(s)
  \/ SetAlias(s) \/ ScanKnocks(s) \/ TellHost(s)
KnockStep(s) ==
  \/ SetKnock(s) \/ FindHost(s) \/ CheckHost(s) \/ AdmitKnock(s)
  \/ AdmitDelete(s) \/ AdmitAdd(s) \/ RejectDelete(s)
LeaveStep(s) == RemoveUser(s) \/ RemoveAlias(s) \/ Exit(s) \/ Again(s)
DestroyStep(p) == FindRoom(p) \/ DeleteRoom(p) \/ ScanKeys(p) \/ DelKeys(p)

\* What clients send and what happens to their connections.
Request(s) ==
  \/ CreateRoom(s) \/ JoinRoom(s) \/ Knock(s) \/ EndRoom(s)
  \/ \E k \in Guests : AdmitUser(s, k) \/ RejectUser(s, k)
  \/ LeaveRoom(s) \/ LoseLink(s) \/ Disconnect(s)

Next ==
  \/ CreateByRest \/ Expire \/ DocExpires
  \/ \E s \in Sockets :
       \/ Request(s) \/ JoinStep(s) \/ KnockStep(s) \/ LeaveStep(s)
       \/ KnockExpires(s) \/ AbortRequest(s) \/ AbortLeave(s)
  \/ \E p \in Procs : DestroyStep(p)

Spec == Init /\ [][Next]_vars

-----------------------------------------------------------------------------
(* Properties.                                                             *)

TypeOK ==
  /\ room \in {"none", "creating", "open", "gone"}
  /\ users \subseteq Sockets /\ aliases \subseteq Sockets
  /\ admitted \subseteq Guests /\ knocks \subseteq Guests
  /\ channel \subseteq Sockets /\ rooms \subseteq Sockets
  /\ link \in [Sockets -> {"up", "lost", "closed"}]
  /\ at \in [Procs -> Pcs]
  /\ of \in [Sockets -> Sockets]
  /\ leaving \in [Sockets -> LeavePcs]
  /\ scan \in [Sockets -> SUBSET Guests]
  /\ doomed \in [Procs -> SUBSET RoomKeys]
  /\ told \subseteq Guests
  /\ raced \subseteq Sockets /\ aborted \subseteq Sockets
  /\ crowded \in BOOLEAN /\ events \in Nat

\* In a locked room nobody but a host is counted, named or reached by the
\* room's messages unless a host admitted that very socket (the check of
\* room.handler.js:233 holds through every overlap of join, leave and end).
LockedEntry ==
  Locked /\ room = "open" =>
    (users \cup aliases \cup channel) \ Hosts \subseteq admitted

\* Neither joining nor leaving.
Quiet(s) == at[s] \notin JoinPcs /\ leaving[s] = "idle"

\* The four records of who is in the room agree (Redis users and aliases,
\* the socket.io channel, socket.data.rooms), and a closed connection is in
\* none, for every socket whose join did not overlap its own leave and whose
\* handlers did not fail, whatever the other sockets do meanwhile.
PresenceAgrees ==
  room = "open" =>
    \A s \in Sockets \ (raced \cup aborted) : Quiet(s) =>
      /\ s \in users <=> s \in aliases
      /\ s \in users <=> s \in channel
      /\ s \in users <=> s \in rooms
      /\ s \in users => link[s] # "closed"

\* No knock is lost between the two halves of its delivery: the knocker
\* writes its key and then looks for a host, a host writes its alias and
\* then looks for keys, so one of them sees the other (room.handler.js:270,
\* knock.handler.js:38-50).  Once both have finished, some host's socket has
\* been sent the knock.
KnockReachesHost ==
  Locked =>
    \A k \in knocks \ aborted : \A h \in (aliases \cap Hosts) \ aborted :
      at[k] # "findHost" /\ at[h] \notin TellPcs => k \in told

\* The room holds maxUsers at most, unless two sockets were past the check
\* of room.handler.js:226 together.
CapacityUnlessCrowded == crowded \/ Cardinality(users) <= MaxUsers
=============================================================================
