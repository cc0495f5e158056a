---------------------------- MODULE RoomLifetime ----------------------------
(***************************************************************************)
(* The life and end of one ephemeral room: touchRoom and destroyRoom of    *)
(* room.handler.js, the messages and files of message.handler.js that the  *)
(* end must take along, and MongoDB's TTL index on the room document.      *)
(*                                                                         *)
(* Every server instance keeps its own roomTimers; the documents are       *)
(* shared.  Time is counted in ticks: a deadline is the number of ticks    *)
(* left to it, and Tick takes one from each.  As in RoomAccess one action  *)
(* is one awaited call taking effect; the update that touchRoom awaits and *)
(* the timers it sets when the answer is back are two.                     *)
(*                                                                         *)
(* The model starts when the room document has just been created.  A call  *)
(* of touchRoom is taken to last Delay ticks at most.                      *)
(***************************************************************************)
EXTENDS Naturals, FiniteSets

CONSTANTS Servers,    \* server instances
          Clients,    \* join_room, send_message and send_file requests
          Files,      \* the requests that carry a file
          Host,       \* the request end_room
          TTL,        \* room.inactivityTTL
          Delay,      \* ticks from touchRoom's Date.now() to its timers
          NoTimer,    \* no entry in roomTimers, or one that has fired
          MaxFaults   \* bound: failed calls and restarts

Enders == Servers \cup {Host}
Procs == Enders \cup Clients

ASSUME LifetimeAssumption == /\ Files \subseteq Clients
                             /\ Servers \cap Clients = {}
                             /\ Host \notin Servers \cup Clients
ASSUME TimeAssumption == /\ TTL \in Nat /\ Delay \in Nat
                         /\ Delay + Delay < TTL
                         /\ NoTimer \notin Nat
                         /\ MaxFaults \in Nat

VARIABLES
  room,       \* the room document: open or gone
  docLeft,    \* ticks to its lastActivityAt
  messages,   \* Message documents of the room, named by their request
  blobs,      \* files in R2
  timer,      \* ticks to the expire timer of each server's roomTimers
  at,         \* the awaited call of each process
  on,         \* the server a process runs on
  left,       \* ticks to the expiresAt a touchRoom has computed
  batch,      \* the blobs a destroyRoom has found
  announced,  \* room_ended or room_expired was emitted
  verdict,    \* who decided the room's end first (history)
  idle,       \* ticks since the last activity was recorded (history)
  sent,       \* requests that stored a message (history)
  late,       \* those that did while the room was being destroyed (history)
  spared,     \* blobs whose deletion failed (history)
  lapsed,     \* the TTL index removed the document (history)
  faults      \* failed calls and restarts so far

docs == <<room, docLeft, messages, blobs>>
procs == <<at, on, left, batch>>
lease == <<verdict, idle>>
traces == <<sent, late, spared, lapsed>>
vars == <<docs, timer, procs, announced, lease, traces, faults>>

ClientPcs == {"idle", "findRoom", "createMessage", "updateRoom", "rearm",
              "rearmOnly", "done"}
EnderPcs == {"idle", "findOne", "findFiles", "deleteBlobs", "deleteMessages",
             "deleteRoom", "cleanup", "done"}

Init ==
  /\ room = "open" /\ docLeft = TTL /\ messages = {} /\ blobs = {}
  /\ timer = [s \in Servers |-> NoTimer]
  /\ at = [p \in Procs |-> "idle"]
  /\ on \in {f \in [Procs -> Servers] : \A s \in Servers : f[s] = s}
  /\ left = [c \in Clients |-> 0]
  /\ batch = [p \in Enders |-> {}]
  /\ announced = FALSE
  /\ verdict = "active" /\ idle = 0
  /\ sent = {} /\ late = {} /\ spared = {} /\ lapsed = FALSE
  /\ faults = 0

Go(p, pc) == at' = [at EXCEPT ![p] = pc]
Fault == faults < MaxFaults /\ faults' = faults + 1

\* The first decision that the room ends is the one that counts.
Decide(who) == /\ verdict' = IF verdict = "active" THEN who ELSE verdict
               /\ idle' = idle

-----------------------------------------------------------------------------
(* join_room, send_message, send_file.                                     *)

\* A file is in R2 before its message is sent.
Request(c) ==
  /\ at[c] = "idle"
  /\ Go(c, "findRoom")
  /\ blobs' = IF c \in Files THEN blobs \cup {c} ELSE blobs
  /\ UNCHANGED <<room, docLeft, messages, timer, on, left, batch, announced,
                 lease, traces, faults>>

\* Mutation: the deadline is two lifetimes away.
TouchTwice(c) ==
  Go(c, "updateRoom") /\ left' = [left EXCEPT ![c] = TTL + TTL]

\* new Date(Date.now() + ttlSeconds * 1000), at the head of touchRoom.
Touch(c) == Go(c, "updateRoom") /\ left' = [left EXCEPT ![c] = TTL]

\* ROOM_NOT_FOUND without the document; a join only touches the room.
FindRoom(c) ==
  /\ at[c] = "findRoom"
  /\ \/ room = "gone" /\ Go(c, "done") /\ UNCHANGED left
     \/ room = "open" /\ Go(c, "createMessage") /\ UNCHANGED left
     \/ room = "open" /\ c \notin Files /\ Touch(c)
  /\ UNCHANGED <<docs, timer, on, batch, announced, lease, traces, faults>>

BeingDestroyed ==
  \/ room = "gone"
  \/ \E d \in Enders : at[d] \in {"deleteBlobs", "deleteMessages",
                                  "deleteRoom"}

CreateMessage(c) ==
  /\ at[c] = "createMessage"
  /\ messages' = messages \cup {c}
  /\ sent' = sent \cup {c}
  /\ late' = IF BeingDestroyed THEN late \cup {c} ELSE late
  /\ Touch(c)
  /\ UNCHANGED <<room, docLeft, blobs, timer, on, batch, announced, lease,
                 spared, lapsed, faults>>

\* Mutation: the deadline is the time of the activity itself.
UpdateRoomNow(c) ==
  /\ at[c] = "updateRoom"
  /\ docLeft' = IF room = "open" THEN 0 ELSE docLeft
  /\ Go(c, "rearm")
  /\ UNCHANGED <<room, messages, blobs, timer, on, left, batch, announced,
                 lease, traces, faults>>

\* lastActivityAt takes the deadline computed before the call, even when a
\* later one is there already.
UpdateRoom(c) ==
  /\ at[c] = "updateRoom"
  /\ docLeft' = IF room = "open" THEN left[c] ELSE docLeft
  /\ Go(c, "rearm")
  /\ UNCHANGED <<room, messages, blobs, timer, on, left, batch, announced,
                 lease, traces, faults>>

\* A failed update is swallowed; the timers are set all the same.
UpdateFails(c) ==
  /\ at[c] = "updateRoom"
  /\ Fault
  /\ Go(c, "rearmOnly")
  /\ UNCHANGED <<docs, timer, on, left, batch, announced, lease, traces>>

\* Mutation: the running timers are kept when there are some.
RearmOnce(c) ==
  /\ at[c] \in {"rearm", "rearmOnly"}
  /\ timer' = IF timer[on[c]] = NoTimer
              THEN [timer EXCEPT ![on[c]] = TTL] ELSE timer
  /\ idle' = IF at[c] = "rearm" /\ verdict = "active" THEN 0 ELSE idle
  /\ Go(c, "done")
  /\ left' = [left EXCEPT ![c] = 0]
  /\ UNCHANGED <<docs, on, batch, announced, verdict, traces, faults>>

\* The timers of this server only, from now on; the activity is recorded.
Rearm(c) ==
  /\ at[c] \in {"rearm", "rearmOnly"}
  /\ timer' = [timer EXCEPT ![on[c]] = TTL]
  /\ idle' = IF at[c] = "rearm" /\ verdict = "active" THEN 0 ELSE idle
  /\ Go(c, "done")
  /\ left' = [left EXCEPT ![c] = 0]
  /\ UNCHANGED <<docs, on, batch, announced, verdict, traces, faults>>

-----------------------------------------------------------------------------
(* destroyRoom, for a timer or for the host.                               *)

\* The expire timer of server s runs out.
Fire(s) ==
  /\ timer[s] = 0 /\ at[s] = "idle"
  /\ timer' = [timer EXCEPT ![s] = NoTimer]
  /\ Go(s, "findOne")
  /\ Decide("expired")
  /\ UNCHANGED <<docs, on, left, batch, announced, traces, faults>>

\* end_room, once the caller is known to be the host.
EndRoom ==
  /\ room = "open" /\ at[Host] = "idle"
  /\ Go(Host, "findOne")
  /\ Decide("ended")
  /\ UNCHANGED <<docs, timer, on, left, batch, announced, traces, faults>>

FindOne(p) ==
  /\ at[p] = "findOne"
  /\ Go(p, IF room = "open" THEN "findFiles" ELSE "cleanup")
  /\ UNCHANGED <<docs, timer, on, left, batch, announced, lease, traces,
                 faults>>

FindFiles(p) ==
  /\ at[p] = "findFiles"
  /\ batch' = [batch EXCEPT ![p] = messages \cap Files]
  /\ Go(p, "deleteBlobs")
  /\ UNCHANGED <<docs, timer, on, left, announced, lease, traces, faults>>

\* Mutation: the Message documents go first.
DeleteBlobsAfter(p) ==
  /\ at[p] = "deleteBlobs"
  /\ messages' = {}
  /\ Go(p, "deleteMessages")
  /\ UNCHANGED <<room, docLeft, blobs, timer, on, left, batch, announced,
                 lease, traces, faults>>

DeleteBlobs(p) ==
  /\ at[p] = "deleteBlobs"
  /\ blobs' = blobs \ batch[p]
  /\ Go(p, "deleteMessages")
  /\ UNCHANGED <<room, docLeft, messages, timer, on, left, batch, announced,
                 lease, traces, faults>>

\* R2 refuses, and the error is swallowed.
BlobsFail(p) ==
  /\ at[p] = "deleteBlobs"
  /\ Fault
  /\ spared' = spared \cup batch[p]
  /\ Go(p, "deleteMessages")
  /\ UNCHANGED <<docs, timer, on, left, batch, announced, lease, sent, late,
                 lapsed>>

DeleteMessages(p) ==
  /\ at[p] = "deleteMessages"
  /\ messages' = {}
  /\ Go(p, "deleteRoom")
  /\ UNCHANGED <<room, docLeft, blobs, timer, on, left, batch, announced,
                 lease, traces, faults>>

DeleteRoom(p) ==
  /\ at[p] = "deleteRoom"
  /\ room' = "gone" /\ docLeft' = 0
  /\ Go(p, "cleanup")
  /\ UNCHANGED <<messages, blobs, timer, on, left, batch, announced,
                 lease, traces, faults>>

Finished(p) == IF p = Host THEN "done" ELSE "idle"

\* Mutation: a room that is gone already is not announced.
CleanupQuietly(p) ==
  /\ at[p] = "cleanup"
  /\ timer' = [timer EXCEPT ![on[p]] = NoTimer]
  /\ announced' = (announced \/ ~ lapsed)
  /\ batch' = [batch EXCEPT ![p] = {}]
  /\ Go(p, Finished(p))
  /\ UNCHANGED <<docs, on, left, lease, traces, faults>>

\* cleanupRoom is awaited and its errors are swallowed; then this server's
\* timers are cleared and everyone is told and put out.
Cleanup(p) ==
  /\ at[p] = "cleanup"
  /\ timer' = [timer EXCEPT ![on[p]] = NoTimer]
  /\ announced' = TRUE
  /\ batch' = [batch EXCEPT ![p] = {}]
  /\ Go(p, Finished(p))
  /\ UNCHANGED <<docs, on, left, lease, traces, faults>>

-----------------------------------------------------------------------------
(* MongoDB, time and faults.                                               *)

\* The TTL monitor removes the room document, and nothing else, at its next
\* round after lastActivityAt.
Monitor ==
  /\ room = "open" /\ docLeft = 0
  /\ room' = "gone" /\ lapsed' = TRUE
  /\ Decide("expired")
  /\ UNCHANGED <<docLeft, messages, blobs, timer, procs, announced, sent,
                 late, spared, faults>>

Less(n) == IF n > 0 THEN n - 1 ELSE 0
Touching(c) == at[c] \in {"updateRoom", "rearm", "rearmOnly"}

\* A timer or the monitor may act late; a touchRoom takes Delay at most.
Tick ==
  /\ \A c \in Clients : Touching(c) => left[c] + Delay > TTL
  /\ docLeft' = Less(docLeft)
  /\ timer' = [s \in Servers |-> IF timer[s] = NoTimer THEN NoTimer
                                 ELSE Less(timer[s])]
  /\ left' = [c \in Clients |-> Less(left[c])]
  /\ idle' = IF verdict = "active" /\ idle < TTL THEN idle + 1 ELSE idle
  /\ UNCHANGED <<room, messages, blobs, at, on, batch, announced, verdict,
                 traces, faults>>

\* A call other than the caught ones throws: the handler ends there.
Abort(p) ==
  /\ at[p] \in {"findRoom", "createMessage", "findOne", "findFiles",
                "deleteMessages", "deleteRoom"}
  /\ Fault
  /\ Go(p, IF p \in Servers THEN "idle" ELSE "done")
  /\ UNCHANGED <<docs, timer, on, left, batch, announced, lease, traces>>

\* The instance restarts: its timers and its running handlers are lost.
Restart(s) ==
  /\ Fault
  /\ timer' = [timer EXCEPT ![s] = NoTimer]
  /\ at' = [p \in Procs |-> IF on[p] = s /\ at[p] # "idle"
                            THEN IF p = s THEN "idle" ELSE "done"
                            ELSE at[p]]
  /\ UNCHANGED <<docs, on, left, batch, announced, lease, traces>>

-----------------------------------------------------------------------------

ClientStep(c) ==
  \/ FindRoom(c) \/ CreateMessage(c) \/ UpdateRoom(c) \/ Rearm(c)
EnderStep(p) ==
  \/ FindOne(p) \/ FindFiles(p) \/ DeleteBlobs(p) \/ DeleteMessages(p)
  \/ DeleteRoom(p) \/ Cleanup(p)

Next ==
  \/ \E c \in Clients : Request(c) \/ ClientStep(c) \/ UpdateFails(c)
  \/ \E p \in Enders : EnderStep(p) \/ BlobsFail(p)
  \/ \E s \in Servers : Fire(s) \/ Restart(s)
  \/ \E p \in Procs : Abort(p)
  \/ EndRoom \/ Monitor \/ Tick

\* Time passes, an answer comes or the call fails, a due timer fires and the
\* monitor makes its rounds.
Fairness ==
  /\ WF_vars(Tick) /\ WF_vars(Monitor)
  /\ \A c \in Clients : WF_vars(ClientStep(c))
  /\ \A p \in Enders : WF_vars(EnderStep(p))
  /\ \A s \in Servers : WF_vars(Fire(s))

Safety == Init /\ [][Next]_vars
Spec == Safety /\ Fairness

-----------------------------------------------------------------------------
(* Properties.                                                             *)

TypeOK ==
  /\ room \in {"open", "gone"} /\ docLeft \in 0..TTL
  /\ messages \subseteq Clients /\ blobs \subseteq Files
  /\ timer \in [Servers -> (0..TTL) \cup {NoTimer}]
  /\ at \in [Procs -> ClientPcs \cup EnderPcs]
  /\ on \in [Procs -> Servers]
  /\ left \in [Clients -> 0..TTL]
  /\ batch \in [Enders -> SUBSET Files]
  /\ announced \in BOOLEAN
  /\ verdict \in {"active", "expired", "ended"} /\ idle \in 0..TTL
  /\ sent \subseteq Clients /\ late \subseteq sent /\ spared \subseteq Files
  /\ lapsed \in BOOLEAN /\ faults \in 0..MaxFaults

\* The lifetime of the room as its members know it.
Lease == INSTANCE InactivityLease
           WITH Grace <- Delay + Delay, lease <- verdict, idle <- idle

\* A room implements the lease when all its activity meets one server: no
\* overlap of touches, timers, faults or restarts ends it early, and an idle
\* room ends (room.handler.js:51-106 with room.model.js:91-97).
KeepsLease == Lease!Spec

\* room.handler.js:6: the timers are reset "whenever a room sees activity (so
\* an active room never dies)".
ActiveRoomLives ==
  [][verdict = "active" /\ verdict' = "expired"
       => idle + Delay + Delay >= TTL]_vars

\* The blobs go before the messages that name them: wherever destroyRoom
\* stops, and whoever else runs it meanwhile, a file whose message is deleted
\* is deleted too, unless R2 refused or the message came in the middle.
BlobsBeforeMessages ==
  \A m \in (sent \cap Files) \ (messages \cup late \cup spared) :
    m \notin blobs

\* The messages go before the room document: as long as destroyRoom and not
\* the TTL index removed it, no message is left that was not stored while the
\* room was being destroyed, wherever a destroyRoom failed or was cut off.
MessagesBeforeRoom == room = "gone" /\ ~ lapsed => messages \subseteq late

\* The order of the teardown strands nothing: no file without the message
\* that names it, no message without its room, in every interleaving of
\* destroyRooms, requests and faults.
NothingIsStranded == BlobsBeforeMessages /\ MessagesBeforeRoom

\* A room that somebody has been active in is announced as ended to those in
\* it, also when the TTL index removed the document first, unless a call
\* failed or a server restarted.
EndIsAnnounced ==
  (room = "gone" /\ \E s \in Servers : timer[s] # NoTimer)
    ~> (announced \/ faults > 0)

\* Every room ends: here the requests are finitely many.
RoomEnds == <>(room = "gone")

\* Every room ends, and those in it are told.
RoomEndsAnnounced == RoomEnds /\ EndIsAnnounced
=============================================================================
