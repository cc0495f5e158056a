------------------------ MODULE RoomLifetime_proofs ------------------------
(***************************************************************************)
(* RoomLifetime for every number of servers and requests, every TTL and    *)
(* every bound on faults: the order of the teardown, and, where one server *)
(* sees all the activity, the lease.                                       *)
(*                                                                         *)
(* The lease rests on two bounds that every step keeps while the room is   *)
(* active: a running timer has at least TTL - idle ticks left, and the     *)
(* document at least TTL - idle - 2 * Delay.  The second needs the         *)
(* deadlines still on their way to MongoDB to be at most Delay old.        *)
(***************************************************************************)
EXTENDS RoomLifetime, TLAPS

\* What is known of a touch between its Date.now() and its timers, and of
\* the document while the room is active.
TouchInv ==
  /\ \A c \in Clients : Touching(c) => left[c] + Delay >= TTL
  /\ \A c \in Clients : at[c] = "rearm" /\ room = "open" =>
                          docLeft + Delay >= left[c]
  /\ \A p \in Enders : at[p] \notin {"idle", "done"} => verdict # "active"
  /\ verdict = "active" =>
       room = "open" /\ docLeft + Delay + Delay + idle >= TTL

\* Every running timer was set by the last activity or after it.
TimerInv ==
  verdict = "active" =>
    \A s \in Servers : timer[s] # NoTimer => timer[s] + idle >= TTL

\* Behind a destroyRoom that has read the files, everything stored before is
\* out of R2, in its batch, or excused.
Settled(m) == m \in late \cup spared
BlobInv ==
  /\ messages \subseteq sent
  /\ \A c \in Clients : at[c] \in {"idle", "findRoom", "createMessage"} =>
                          c \notin sent
  /\ \A p \in Enders : \A m \in sent \cap Files :
       /\ at[p] = "deleteBlobs" /\ ~ Settled(m) => m \notin blobs \ batch[p]
       /\ at[p] = "deleteMessages" /\ ~ Settled(m) => m \notin blobs
  /\ BlobsBeforeMessages

\* Behind a destroyRoom that has deleted the messages, only late ones exist.
MessageInv ==
  /\ \A p \in Enders : at[p] = "deleteRoom" => messages \subseteq late
  /\ MessagesBeforeRoom

-----------------------------------------------------------------------------
\* Every step keeps the variables in their types.
LEMMA TypeStep ==
  ASSUME TypeOK, [Next]_vars
  PROVE  TypeOK'
<1> USE LifetimeAssumption, TimeAssumption DEF TypeOK, ClientPcs, EnderPcs,
      Procs, Enders, docs, procs, lease, traces, Go, Fault, Decide
<1>1. ASSUME NEW c \in Clients, Request(c) PROVE TypeOK'
  BY <1>1 DEF Request
<1>2. ASSUME NEW c \in Clients, FindRoom(c) PROVE TypeOK'
  BY <1>2 DEF FindRoom, Touch
<1>3. ASSUME NEW c \in Clients, CreateMessage(c) PROVE TypeOK'
  BY <1>3 DEF CreateMessage, Touch, BeingDestroyed
<1>4. ASSUME NEW c \in Clients, UpdateRoom(c) \/ UpdateFails(c)
      PROVE  TypeOK'
  BY <1>4 DEF UpdateRoom, UpdateFails
<1>5. ASSUME NEW c \in Clients, Rearm(c) PROVE TypeOK'
  BY <1>5 DEF Rearm
<1>6. ASSUME NEW p \in Enders, FindOne(p) \/ FindFiles(p) PROVE TypeOK'
  <2>1. CASE FindOne(p)
    BY <2>1 DEF FindOne
  <2>2. CASE FindFiles(p)
    BY <2>2 DEF FindFiles
  <2>3. QED
    BY <1>6, <2>1, <2>2
<1>7. ASSUME NEW p \in Enders, DeleteBlobs(p) \/ BlobsFail(p) PROVE TypeOK'
  BY <1>7 DEF DeleteBlobs, BlobsFail
<1>8. ASSUME NEW p \in Enders, DeleteMessages(p) \/ DeleteRoom(p)
      PROVE  TypeOK'
  BY <1>8 DEF DeleteMessages, DeleteRoom
<1>9. ASSUME NEW p \in Enders, Cleanup(p) PROVE TypeOK'
  BY <1>9 DEF Cleanup, Finished
<1>10. ASSUME NEW s \in Servers, Fire(s) PROVE TypeOK'
  BY <1>10 DEF Fire
<1>11. ASSUME NEW s \in Servers, Restart(s) PROVE TypeOK'
  BY <1>11 DEF Restart
<1>12. ASSUME NEW p \in Procs, Abort(p) PROVE TypeOK'
  BY <1>12 DEF Abort
<1>13. CASE EndRoom \/ Monitor
  BY <1>13 DEF EndRoom, Monitor
<1>14. CASE Tick
  BY <1>14 DEF Tick, Less, Touching
<1>15. CASE UNCHANGED vars
  BY <1>15 DEF vars
<1>16. QED
  BY <1>1, <1>2, <1>3, <1>4, <1>5, <1>6, <1>7, <1>8, <1>9, <1>10, <1>11,
     <1>12, <1>13, <1>14, <1>15 DEF Next, ClientStep, EnderStep

\* A touch is at most Delay old when it reaches MongoDB, so the document is
\* at most 2 * Delay behind the last activity.
LEMMA TouchStep ==
  ASSUME TypeOK, TouchInv, [Next]_vars
  PROVE  TouchInv'
<1> USE LifetimeAssumption, TimeAssumption DEF TypeOK, ClientPcs, EnderPcs,
      Procs, Enders, docs, procs, lease, traces, Go, Fault, Decide,
      TouchInv, Touching
<1>1. ASSUME NEW c \in Clients, Request(c) PROVE TouchInv'
  BY <1>1 DEF Request
<1>2. ASSUME NEW c \in Clients, FindRoom(c) PROVE TouchInv'
  BY <1>2 DEF FindRoom, Touch
<1>3. ASSUME NEW c \in Clients, CreateMessage(c) PROVE TouchInv'
  BY <1>3 DEF CreateMessage, Touch, BeingDestroyed
<1>4. ASSUME NEW c \in Clients, UpdateRoom(c) \/ UpdateFails(c)
      PROVE  TouchInv'
  BY <1>4 DEF UpdateRoom, UpdateFails
<1>5. ASSUME NEW c \in Clients, Rearm(c) PROVE TouchInv'
  BY <1>5 DEF Rearm
<1>6. ASSUME NEW p \in Enders, FindOne(p) \/ FindFiles(p) PROVE TouchInv'
  <2>1. CASE FindOne(p)
    BY <2>1 DEF FindOne
  <2>2. CASE FindFiles(p)
    BY <2>2 DEF FindFiles
  <2>3. QED
    BY <1>6, <2>1, <2>2
<1>7. ASSUME NEW p \in Enders, DeleteBlobs(p) \/ BlobsFail(p) PROVE TouchInv'
  BY <1>7 DEF DeleteBlobs, BlobsFail
<1>8. ASSUME NEW p \in Enders, DeleteMessages(p) \/ DeleteRoom(p)
      PROVE  TouchInv'
  BY <1>8 DEF DeleteMessages, DeleteRoom
<1>9. ASSUME NEW p \in Enders, Cleanup(p) PROVE TouchInv'
  BY <1>9 DEF Cleanup, Finished
<1>10. ASSUME NEW s \in Servers, Fire(s) PROVE TouchInv'
  BY <1>10 DEF Fire
<1>11. ASSUME NEW s \in Servers, Restart(s) PROVE TouchInv'
  BY <1>11 DEF Restart
<1>12. ASSUME NEW p \in Procs, Abort(p) PROVE TouchInv'
  BY <1>12 DEF Abort
<1>13. CASE EndRoom \/ Monitor
  BY <1>13 DEF EndRoom, Monitor
<1>14. CASE Tick
  BY <1>14 DEF Tick, Less, Touching
<1>15. CASE UNCHANGED vars
  BY <1>15 DEF vars
<1>16. QED
  BY <1>1, <1>2, <1>3, <1>4, <1>5, <1>6, <1>7, <1>8, <1>9, <1>10, <1>11,
     <1>12, <1>13, <1>14, <1>15 DEF Next, ClientStep, EnderStep

\* With one server every activity resets the only timer there is.
LEMMA TimerStep ==
  ASSUME TypeOK, TouchInv, TimerInv, [Next]_vars,
         \A s, t \in Servers : s = t
  PROVE  TimerInv'
<1> USE LifetimeAssumption, TimeAssumption DEF TypeOK, ClientPcs, EnderPcs,
      Procs, Enders, docs, procs, lease, traces, Go, Fault, Decide,
      TouchInv, TimerInv, Touching
<1>1. ASSUME NEW c \in Clients, Request(c) PROVE TimerInv'
  BY <1>1 DEF Request
<1>2. ASSUME NEW c \in Clients, FindRoom(c) PROVE TimerInv'
  BY <1>2 DEF FindRoom, Touch
<1>3. ASSUME NEW c \in Clients, CreateMessage(c) PROVE TimerInv'
  BY <1>3 DEF CreateMessage, Touch, BeingDestroyed
<1>4. ASSUME NEW c \in Clients, UpdateRoom(c) \/ UpdateFails(c)
      PROVE  TimerInv'
  BY <1>4 DEF UpdateRoom, UpdateFails
<1>5. ASSUME NEW c \in Clients, Rearm(c) PROVE TimerInv'
  BY <1>5 DEF Rearm
<1>6. ASSUME NEW p \in Enders, FindOne(p) \/ FindFiles(p) PROVE TimerInv'
  <2>1. CASE FindOne(p)
    BY <2>1 DEF FindOne
  <2>2. CASE FindFiles(p)
    BY <2>2 DEF FindFiles
  <2>3. QED
    BY <1>6, <2>1, <2>2
<1>7. ASSUME NEW p \in Enders, DeleteBlobs(p) \/ BlobsFail(p) PROVE TimerInv'
  BY <1>7 DEF DeleteBlobs, BlobsFail
<1>8. ASSUME NEW p \in Enders, DeleteMessages(p) \/ DeleteRoom(p)
      PROVE  TimerInv'
  BY <1>8 DEF DeleteMessages, DeleteRoom
<1>9. ASSUME NEW p \in Enders, Cleanup(p) PROVE TimerInv'
  BY <1>9 DEF Cleanup, Finished
<1>10. ASSUME NEW s \in Servers, Fire(s) PROVE TimerInv'
  BY <1>10 DEF Fire
<1>11. ASSUME NEW s \in Servers, Restart(s) PROVE TimerInv'
  BY <1>11 DEF Restart
<1>12. ASSUME NEW p \in Procs, Abort(p) PROVE TimerInv'
  BY <1>12 DEF Abort
<1>13. CASE EndRoom \/ Monitor
  BY <1>13 DEF EndRoom, Monitor
<1>14. CASE Tick
  BY <1>14 DEF Tick, Less, Touching
<1>15. CASE UNCHANGED vars
  BY <1>15 DEF vars
<1>16. QED
  BY <1>1, <1>2, <1>3, <1>4, <1>5, <1>6, <1>7, <1>8, <1>9, <1>10, <1>11,
     <1>12, <1>13, <1>14, <1>15 DEF Next, ClientStep, EnderStep

\* No step of any destroyRoom leaves a file behind its message.
LEMMA BlobStep ==
  ASSUME TypeOK, BlobInv, [Next]_vars
  PROVE  BlobInv'
<1> USE LifetimeAssumption, TimeAssumption DEF TypeOK, ClientPcs, EnderPcs,
      Procs, Enders, docs, procs, lease, traces, Go, Fault, Decide, BlobInv,
      Settled, BlobsBeforeMessages
<1>1. ASSUME NEW c \in Clients, Request(c) PROVE BlobInv'
  BY <1>1 DEF Request
<1>2. ASSUME NEW c \in Clients, FindRoom(c) PROVE BlobInv'
  BY <1>2 DEF FindRoom, Touch
<1>3. ASSUME NEW c \in Clients, CreateMessage(c) PROVE BlobInv'
  BY <1>3 DEF CreateMessage, Touch, BeingDestroyed
<1>4. ASSUME NEW c \in Clients, UpdateRoom(c) \/ UpdateFails(c)
      PROVE  BlobInv'
  BY <1>4 DEF UpdateRoom, UpdateFails
<1>5. ASSUME NEW c \in Clients, Rearm(c) PROVE BlobInv'
  BY <1>5 DEF Rearm
<1>6. ASSUME NEW p \in Enders, FindOne(p) \/ FindFiles(p) PROVE BlobInv'
  <2>1. CASE FindOne(p)
    BY <2>1 DEF FindOne
  <2>2. CASE FindFiles(p)
    BY <2>2 DEF FindFiles
  <2>3. QED
    BY <1>6, <2>1, <2>2
<1>7. ASSUME NEW p \in Enders, DeleteBlobs(p) \/ BlobsFail(p) PROVE BlobInv'
  BY <1>7 DEF DeleteBlobs, BlobsFail
<1>8. ASSUME NEW p \in Enders, DeleteMessages(p) \/ DeleteRoom(p)
      PROVE  BlobInv'
  BY <1>8 DEF DeleteMessages, DeleteRoom
<1>9. ASSUME NEW p \in Enders, Cleanup(p) PROVE BlobInv'
  BY <1>9 DEF Cleanup, Finished
<1>10. ASSUME NEW s \in Servers, Fire(s) PROVE BlobInv'
  BY <1>10 DEF Fire
<1>11. ASSUME NEW s \in Servers, Restart(s) PROVE BlobInv'
  BY <1>11 DEF Restart
<1>12. ASSUME NEW p \in Procs, Abort(p) PROVE BlobInv'
  BY <1>12 DEF Abort
<1>13. CASE EndRoom \/ Monitor
  BY <1>13 DEF EndRoom, Monitor
<1>14. CASE Tick
  BY <1>14 DEF Tick, Less, Touching
<1>15. CASE UNCHANGED vars
  BY <1>15 DEF vars
<1>16. QED
  BY <1>1, <1>2, <1>3, <1>4, <1>5, <1>6, <1>7, <1>8, <1>9, <1>10, <1>11,
     <1>12, <1>13, <1>14, <1>15 DEF Next, ClientStep, EnderStep

\* No step of any destroyRoom leaves a message behind its room.
LEMMA MessageStep ==
  ASSUME TypeOK, MessageInv, [Next]_vars
  PROVE  MessageInv'
<1> USE LifetimeAssumption, TimeAssumption DEF TypeOK, ClientPcs, EnderPcs,
      Procs, Enders, docs, procs, lease, traces, Go, Fault, Decide,
      MessageInv, MessagesBeforeRoom
<1>1. ASSUME NEW c \in Clients, Request(c) PROVE MessageInv'
  BY <1>1 DEF Request
<1>2. ASSUME NEW c \in Clients, FindRoom(c) PROVE MessageInv'
  BY <1>2 DEF FindRoom, Touch
<1>3. ASSUME NEW c \in Clients, CreateMessage(c) PROVE MessageInv'
  BY <1>3 DEF CreateMessage, Touch, BeingDestroyed
<1>4. ASSUME NEW c \in Clients, UpdateRoom(c) \/ UpdateFails(c)
      PROVE  MessageInv'
  BY <1>4 DEF UpdateRoom, UpdateFails
<1>5. ASSUME NEW c \in Clients, Rearm(c) PROVE MessageInv'
  BY <1>5 DEF Rearm
<1>6. ASSUME NEW p \in Enders, FindOne(p) \/ FindFiles(p) PROVE MessageInv'
  <2>1. CASE FindOne(p)
    BY <2>1 DEF FindOne
  <2>2. CASE FindFiles(p)
    BY <2>2 DEF FindFiles
  <2>3. QED
    BY <1>6, <2>1, <2>2
<1>7. ASSUME NEW p \in Enders, DeleteBlobs(p) \/ BlobsFail(p) PROVE MessageInv'
  BY <1>7 DEF DeleteBlobs, BlobsFail
<1>8. ASSUME NEW p \in Enders, DeleteMessages(p) \/ DeleteRoom(p)
      PROVE  MessageInv'
  BY <1>8 DEF DeleteMessages, DeleteRoom
<1>9. ASSUME NEW p \in Enders, Cleanup(p) PROVE MessageInv'
  BY <1>9 DEF Cleanup, Finished
<1>10. ASSUME NEW s \in Servers, Fire(s) PROVE MessageInv'
  BY <1>10 DEF Fire
<1>11. ASSUME NEW s \in Servers, Restart(s) PROVE MessageInv'
  BY <1>11 DEF Restart
<1>12. ASSUME NEW p \in Procs, Abort(p) PROVE MessageInv'
  BY <1>12 DEF Abort
<1>13. CASE EndRoom \/ Monitor
  BY <1>13 DEF EndRoom, Monitor
<1>14. CASE Tick
  BY <1>14 DEF Tick, Less, Touching
<1>15. CASE UNCHANGED vars
  BY <1>15 DEF vars
<1>16. QED
  BY <1>1, <1>2, <1>3, <1>4, <1>5, <1>6, <1>7, <1>8, <1>9, <1>10, <1>11,
     <1>12, <1>13, <1>14, <1>15 DEF Next, ClientStep, EnderStep

-----------------------------------------------------------------------------
\* What every step keeps, whatever the number of servers.
Steady == TypeOK /\ TouchInv /\ BlobInv /\ MessageInv

\* A room just created satisfies all of it.
LEMMA InitInv == Init => Steady /\ TimerInv
<1> SUFFICES ASSUME Init PROVE Steady /\ TimerInv
  OBVIOUS
<1> USE LifetimeAssumption, TimeAssumption DEF Init, Procs, Enders
<1>1. TypeOK
  <2>1. on \in [Procs -> Servers]
    OBVIOUS
  <2>2. at \in [Procs -> ClientPcs \cup EnderPcs]
    BY DEF ClientPcs, EnderPcs
  <2>3. batch \in [Enders -> SUBSET Files]
    OBVIOUS
  <2>4. QED
    <3>1. docLeft \in 0..TTL /\ idle \in 0..TTL /\ faults \in 0..MaxFaults
      OBVIOUS
    <3>2. /\ timer \in [Servers -> (0..TTL) \cup {NoTimer}]
          /\ left \in [Clients -> 0..TTL]
      OBVIOUS
    <3>3. QED
      BY <2>1, <2>2, <2>3, <3>1, <3>2 DEF TypeOK
<1>2. TouchInv /\ TimerInv
  BY DEF TouchInv, TimerInv, Touching
<1>3. BlobInv /\ MessageInv
  BY DEF BlobInv, MessageInv, BlobsBeforeMessages, MessagesBeforeRoom
<1>4. QED
  BY <1>1, <1>2, <1>3 DEF Steady

\* What holds with any number of servers, in every behaviour.
THEOREM Invariance == Safety => []Steady
<1>1. Steady /\ [Next]_vars => Steady'
  BY TypeStep, TouchStep, BlobStep, MessageStep DEF Steady
<1>2. QED
  BY <1>1, InitInv, PTL DEF Safety

\* The deadlines, timers, documents and positions keep their types.
THEOREM TypeCorrect == Safety => []TypeOK
<1>1. Steady => TypeOK
  BY DEF Steady
<1>2. QED
  BY <1>1, Invariance, PTL

\* Wherever destroyRooms stop, a file whose message is gone is gone too, and a
\* room one of them removed left no earlier message.
THEOREM NothingStranded == Safety => []NothingIsStranded
<1>1. Steady => NothingIsStranded
  BY DEF Steady, BlobInv, MessageInv, NothingIsStranded
<1>2. QED
  BY <1>1, Invariance, PTL

-----------------------------------------------------------------------------
\* What holds in addition when there is one server.
LEMMA SingleServerInvariance ==
  ASSUME \A s, t \in Servers : s = t
  PROVE  Safety => [](Steady /\ TimerInv)
<1>1. Steady /\ TimerInv /\ [Next]_vars => (Steady /\ TimerInv)'
  BY TypeStep, TouchStep, BlobStep, MessageStep, TimerStep DEF Steady
<1>2. QED
  BY <1>1, InitInv, PTL DEF Safety

\* Every step of the room is a step of the lease or none.
LEMMA StepRefines ==
  ASSUME Steady, TimerInv, [Next]_vars
  PROVE  [Lease!Next]_<<verdict, idle>>
<1> USE LifetimeAssumption, TimeAssumption DEF Steady, TypeOK, Procs, Enders,
      docs, procs, lease, traces, Go, Fault, Decide, Lease!Next
<1>1. ASSUME NEW c \in Clients, Rearm(c)
      PROVE  [Lease!Next]_<<verdict, idle>>
  BY <1>1 DEF Rearm, Lease!Activity
<1>2. CASE Tick
  BY <1>2 DEF Tick, Lease!Wait
<1>3. ASSUME NEW s \in Servers, Fire(s)
      PROVE  [Lease!Next]_<<verdict, idle>>
  BY <1>3 DEF Fire, TimerInv, Lease!Expire
<1>4. CASE Monitor
  BY <1>4 DEF Monitor, TouchInv, Lease!Expire
<1>5. CASE EndRoom
  BY <1>5 DEF EndRoom, Lease!HostEnds
<1>6. ASSUME NEW c \in Clients,
             \/ Request(c) \/ FindRoom(c) \/ CreateMessage(c)
             \/ UpdateRoom(c) \/ UpdateFails(c)
      PROVE  UNCHANGED <<verdict, idle>>
  BY <1>6 DEF Request, FindRoom, CreateMessage, UpdateRoom, UpdateFails
<1>7. ASSUME NEW p \in Enders, EnderStep(p) \/ BlobsFail(p)
      PROVE  UNCHANGED <<verdict, idle>>
  BY <1>7 DEF EnderStep, FindOne, FindFiles, DeleteBlobs, DeleteMessages,
              DeleteRoom, Cleanup, BlobsFail
<1>8. ASSUME NEW p \in Procs, Abort(p) PROVE UNCHANGED <<verdict, idle>>
  BY <1>8 DEF Abort
<1>9. ASSUME NEW s \in Servers, Restart(s)
      PROVE  UNCHANGED <<verdict, idle>>
  BY <1>9 DEF Restart
<1>10. CASE UNCHANGED vars
  BY <1>10 DEF vars
<1>11. QED
  BY <1>1, <1>2, <1>3, <1>4, <1>5, <1>6, <1>7, <1>8, <1>9, <1>10
     DEF Next, ClientStep

\* With one server, whatever overlaps, fails or restarts, the room keeps the
\* safety half of the lease: only the host ends it before TTL - 2 * Delay
\* ticks without activity.
THEOREM LeaseIsKept ==
  ASSUME \A s, t \in Servers : s = t
  PROVE  Safety => Lease!Safety
<1>1. Init => Lease!Init
  BY DEF Init, Lease!Init
<1>2. Steady /\ TimerInv /\ [Next]_vars => [Lease!Next]_<<verdict, idle>>
  BY StepRefines
<1>3. Safety => [](Steady /\ TimerInv)
  BY SingleServerInvariance
<1>4. QED
  BY <1>1, <1>2, <1>3, PTL DEF Safety, Lease!Safety, Lease!leaseVars

\* With one server an active room never dies.
THEOREM ActiveRoomLivesOnOneServer ==
  ASSUME \A s, t \in Servers : s = t
  PROVE  Safety => ActiveRoomLives
<1>1. ASSUME Steady, TimerInv, [Next]_vars,
             verdict = "active", verdict' = "expired"
      PROVE  idle + Delay + Delay >= TTL
  BY <1>1, StepRefines, TimeAssumption DEF Steady, TypeOK, Lease!Next,
     Lease!Activity, Lease!Wait, Lease!Expire, Lease!HostEnds
<1>2. Steady /\ TimerInv /\ [Next]_vars =>
        [verdict = "active" /\ verdict' = "expired"
           => idle + Delay + Delay >= TTL]_vars
  BY <1>1
<1>3. Safety => [](Steady /\ TimerInv)
  BY SingleServerInvariance
<1>4. QED
  BY <1>2, <1>3, PTL DEF Safety, ActiveRoomLives
=============================================================================
