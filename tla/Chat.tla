--------------------------------- MODULE Chat ---------------------------------
(***************************************************************************)
(* An account user's open conversations: message.handler.js, join_permanent*)
(* of room.handler.js and the web client that shows them, ChatController.js*)
(* on the socket its shell keeps (AppShell.jsx).                           *)
(*                                                                         *)
(* Me is the user of the one socket modelled; Peer is the other one of     *)
(* every conversation, known by what it asks of the server.  A message is  *)
(* its place in the order of createdAt.  One emoji is counted.             *)
(***************************************************************************)
EXTENDS Naturals, Sequences, SequencesExt

CONSTANTS Me, Peer, Rooms, NoRoom,
          MaxMessages, \* bound: messages stored
          MaxOpens,    \* bound: chats opened
          MaxEvents    \* bound: things the two users and the network do

ASSUME ChatAssumption ==
  /\ Me # Peer /\ NoRoom \notin Rooms
  /\ MaxMessages \in Nat /\ MaxOpens \in Nat /\ MaxEvents \in Nat

VARIABLES
  docs,      \* the messages stored
  jobs,      \* handlers of the server between two of their calls
  joined,    \* the rooms whose channel Me's socket is in
  wire,      \* what the server has emitted to Me's socket
  up,        \* whether the socket is connected
  outbox,    \* what the socket keeps to emit when it is connected again
  chats,     \* the ChatControllers made so far; the last one is mounted
  onScreen,  \* messages the mounted chat showed in the foreground (history)
  unwatched, \* messages on their way when the page was hidden or the chat
             \* left, or reported by one that was closed, had no history yet
             \* or was given another's messages (history)
  upset,     \* messages with news that met their own loading (history)
  missed,    \* messages announced, or in a history, while the socket was
             \* not there or its chat had taken another's room (history)
  crossed,   \* the mounted chat was given what is of another (history)
  overlap,   \* messages with two reactions in flight at once (history)
  events

server == <<docs, jobs, joined>>
link == <<wire, up, outbox>>
client == <<chats, onScreen, unwatched, crossed>>
marks == <<upset, missed, overlap>>
vars == <<server, link, client, marks, events>>

Users == {Me, Peer}
Ids == 1..Len(docs)
Larger(a, b) == IF a > b THEN a ELSE b

Init ==
  /\ docs = <<>> /\ jobs = {} /\ joined = {}
  /\ wire = <<>> /\ up = TRUE /\ outbox = {}
  /\ chats = <<>> /\ onScreen = {} /\ unwatched = {}
  /\ upset = {} /\ missed = {} /\ overlap = {} /\ crossed = FALSE
  /\ events = 0

Event == events < MaxEvents /\ events' = events + 1

(***************************************************************************)
(* The server.                                                             *)
(***************************************************************************)
\* What Peer has done with a message of Me: sent, delivered, read.
Tick(d) == IF Peer \in d.read THEN 2 ELSE IF Peer \in d.delivered THEN 1
           ELSE 0

\* A message as a client has it, at its place in a list.
Item(m, place) ==
  [m |-> m, count |-> docs[m].count, tick |-> Tick(docs[m]), place |-> place]

\* The history of a room: what is not deleted for Me, in the order of the
\* messages.
History(r) ==
  {Item(m, m) : m \in {n \in Ids : /\ docs[n].room = r
                                  /\ Me \notin docs[n].hidden}}

\* An event about the messages ms goes to everyone in the channel of r.
\* History: it is out of step with a message still to be announced and
\* with a history that was read and not sent.
Cast(r, ms, e) ==
  /\ wire' = IF up /\ r \in joined THEN Append(wire, e) ELSE wire
  /\ upset' = upset \cup
       (ms \cap {m \in Ids : [at |-> "announce", m |-> m] \in jobs})
       \cup (IF \E j \in jobs : j.at = "reply" /\ j.room = r THEN ms ELSE {})

\* What the mounted chat lets its user do: write to its room when it has the
\* key, react to or delete a message that it shows.
Writes(r) == up /\ chats # <<>> /\ Last(chats).ready /\ Last(chats).room = r
Shows(m) ==
  up /\ chats # <<>> /\ \E x \in Last(chats).shown : x.m = m

\* send_message, send_file: the message is stored.
Post(u, r) ==
  /\ Event /\ Len(docs) < MaxMessages
  /\ u = Me => Writes(r)
  /\ docs' = Append(docs, [room |-> r, from |-> u, hidden |-> {},
                           delivered |-> {}, read |-> {},
                           count |-> 0, reacted |-> 0])
  /\ jobs' = jobs \cup {[at |-> "announce", m |-> Len(docs) + 1]}
  /\ UNCHANGED <<joined, link, client, marks>>

\* pingParticipants: every participant hears of it.
Ping(r) == [k |-> "ping", room |-> r]

\* ... and sent to the channel, as it was when it was made, with a ping to
\* every participant; a socket that gets both takes them in one step.
Announce(j) ==
  /\ j.at = "announce"
  /\ LET r == docs[j.m].room
         e == IF r \in joined
              THEN [k |-> "new", room |-> r,
                    item |-> [m |-> j.m, count |-> 0, tick |-> 0,
                              place |-> j.m]]
              ELSE Ping(r)
     IN /\ wire' = IF up THEN Append(wire, e) ELSE wire
        /\ upset' = IF \E h \in jobs : h.at = "reply" /\ h.room = r
                    THEN upset \cup {j.m} ELSE upset
        /\ missed' = IF up /\ r \in joined THEN missed ELSE missed \cup {j.m}
  /\ jobs' = jobs \ {j}
  /\ UNCHANGED <<docs, joined, up, outbox, client, overlap, events>>

\* add_reaction reads the count,
React(u, m) ==
  /\ Event /\ m \in Ids
  /\ u = Me => Shows(m)
  /\ jobs' = jobs \cup {[at |-> "count", m |-> m, n |-> docs[m].count,
                         id |-> events]}
  /\ overlap' = IF \E j \in jobs : j.at \in {"count", "tell"} /\ j.m = m
                THEN overlap \cup {m} ELSE overlap
  /\ UNCHANGED <<docs, joined, link, client, upset, missed>>

\* Mutation: the count is sent and not saved.
SaveNoReaction(j) ==
  /\ j.at = "count"
  /\ docs' = [docs EXCEPT ![j.m].reacted = @ + 1]
  /\ jobs' = (jobs \ {j}) \cup {[j EXCEPT !.at = "tell", !.n = @ + 1]}
  /\ UNCHANGED <<joined, link, client, marks, events>>

\* saves it one higher,
SaveReaction(j) ==
  /\ j.at = "count"
  /\ docs' = [docs EXCEPT ![j.m].count = j.n + 1, ![j.m].reacted = @ + 1]
  /\ jobs' = (jobs \ {j}) \cup {[j EXCEPT !.at = "tell", !.n = @ + 1]}
  /\ UNCHANGED <<joined, link, client, marks, events>>

\* and tells the channel.
TellReaction(j) ==
  /\ j.at = "tell"
  /\ Cast(docs[j.m].room, {j.m}, [k |-> "reaction", m |-> j.m, n |-> j.n])
  /\ jobs' = jobs \ {j}
  /\ UNCHANGED <<docs, joined, up, outbox, client, missed, overlap,
                 events>>

\* delete_message by its sender: hidden from the sender,
Delete(u, m) ==
  /\ Event /\ m \in Ids /\ docs[m].from = u
  /\ u = Me => Shows(m)
  /\ docs' = [docs EXCEPT ![m].hidden = @ \cup {u}]
  /\ jobs' = jobs \cup {[at |-> "erased", m |-> m]}
  /\ UNCHANGED <<joined, link, client, marks>>

\* and gone from the screens of the whole channel.
TellDeleted(j) ==
  /\ j.at = "erased"
  /\ Cast(docs[j.m].room, {j.m}, [k |-> "deleted", m |-> j.m])
  /\ jobs' = jobs \ {j}
  /\ UNCHANGED <<docs, joined, up, outbox, client, missed, overlap,
                 events>>

\* A message_seen: of the anchor's room and time (the room it names is not
\* looked at), or without an anchor (0) of the room it names and of now.
See(by, r, m, read) ==
  [at |-> "see", by |-> by, room |-> r, upTo |-> m, read |-> read]

\* What it covers when it is carried out: messages of others.
UpTo(j) == IF j.upTo = 0 THEN Len(docs) ELSE j.upTo

\* Mutation: the reader's own messages too.
CoveredOwn(j) == {m \in Ids : docs[m].room = j.room /\ m <= UpTo(j)}

Covered(j) == {m \in Ids : /\ docs[m].room = j.room /\ m <= UpTo(j)
                           /\ docs[m].from # j.by}

Marked(j) ==
  [m \in Ids |->
     IF m \notin Covered(j) THEN docs[m]
     ELSE [docs[m] EXCEPT !.delivered = @ \cup {j.by},
                          !.read = IF j.read THEN @ \cup {j.by} ELSE @]]

\* They are marked,
Mark(j) ==
  /\ j.at = "see"
  /\ docs' = Marked(j)
  /\ jobs' = (jobs \ {j}) \cup
       (IF j.by = Me THEN {}
        ELSE {[j EXCEPT !.at = "receipt", !.upTo = UpTo(j)]})
  /\ UNCHANGED <<joined, link, client, marks, events>>

\* and the channel is told, but for the socket that saw them.
TellReceipt(j) ==
  /\ j.at = "receipt"
  /\ Cast(j.room, Covered(j),
          [k |-> "receipt", room |-> j.room, upTo |-> j.upTo,
           tick |-> IF j.read THEN 2 ELSE 1])
  /\ jobs' = jobs \ {j}
  /\ UNCHANGED <<docs, joined, up, outbox, client, missed, overlap,
                 events>>

PeerSees(r, m, read) ==
  /\ Event
  /\ \/ m = 0 /\ ~read
     \/ m \in Ids /\ docs[m].room = r /\ docs[m].from = Me
  /\ jobs' = jobs \cup {See(Peer, r, m, read)}
  /\ UNCHANGED <<docs, joined, link, client, marks>>

\* join_permanent: the socket enters the channel (the way of the request is
\* not a step: before it arrives the chat is as before it started),
Join(rs) ==
  /\ joined' = joined \cup rs
  /\ jobs' = jobs \cup {[at |-> "find", room |-> r] : r \in rs}

\* the history is read,
Find(j) ==
  /\ j.at = "find"
  /\ jobs' = (jobs \ {j}) \cup
       {[at |-> "reply", room |-> j.room, list |-> History(j.room)]}
  /\ UNCHANGED <<docs, joined, link, client, marks, events>>

\* and sent to the socket.
Reply(j) ==
  /\ j.at = "reply"
  /\ wire' = Append(wire, [k |-> "joined", room |-> j.room,
                           list |-> j.list])
  /\ jobs' = jobs \ {j}
  /\ UNCHANGED <<docs, joined, up, outbox, client, marks, events>>

(***************************************************************************)
(* The client.                                                             *)
(***************************************************************************)
Shown(c) == {x.m : x \in c.shown}
Fresh(c) == {x.m : x \in c.fresh}
ListOf(h) == {x.m : x \in h.list}

\* The chats, and what the user sees of the mounted one.
Chats(f) ==
  /\ chats' = f
  /\ onScreen' = IF f # <<>> /\ Last(f).front
                 THEN onScreen \cup Shown(Last(f)) ELSE onScreen

\* The socket emits now, or when it is connected again.
Emit(js) ==
  IF up THEN jobs' = jobs \cup js /\ UNCHANGED outbox
        ELSE outbox' = outbox \cup js /\ UNCHANGED jobs

\* The last message of another in the list; none is in an empty one.
LastOfOthers(c) ==
  LET others == {x \in c.shown : docs[x.m].from # Me}
  IN {x.m : x \in {y \in others : \A z \in others : z.place <= y.place}}

\* Mutation: what arrives in the background is read.
MarkSeenAsRead(c) ==
  {See(Me, docs[m].room, m, TRUE) : m \in LastOfOthers(c)}

\* _markSeen: up to that message.
MarkSeen(c) ==
  {See(Me, docs[m].room, m, c.front) : m \in LastOfOthers(c)}

\* History: what a chat reports that is closed, has no history yet or was
\* given another's messages.
Ahead(c) == unwatched \cup
  {m \in Ids : /\ c.closed \/ ~c.loaded \/ crossed
               /\ \E s \in MarkSeen(c) : m <= s.upTo}

\* Messages on their way to a chat.
OnItsWay(m) ==
  \/ [at |-> "announce", m |-> m] \in jobs
  \/ \E j \in jobs : j.at = "reply" /\ m \in ListOf(j)
  \/ \E i \in DOMAIN wire : \/ wire[i].k = "new" /\ wire[i].item.m = m
                            \/ wire[i].k = "joined" /\ m \in ListOf(wire[i])
  \/ \E i \in DOMAIN chats : \/ m \in Fresh(chats[i])
                             \/ \E h \in chats[i].lists : m \in ListOf(h)

\* dispose of the chat that was mounted: every chat's listeners come off the
\* socket, but only its own connect listener.
Disposed ==
  [i \in DOMAIN chats |->
     [chats[i] EXCEPT !.wired = FALSE, !.closed = TRUE,
        !.rejoins = @ /\ i # Len(chats),
        !.seen = IF i = Len(chats) THEN {} ELSE @]]

\* ChatPane mounts the chat of another room.
Open(r) ==
  /\ Event /\ Len(chats) < MaxOpens
  /\ chats # <<>> => r # Last(chats).room
  /\ Chats(Append(Disposed,
       [room |-> r, ready |-> FALSE, wired |-> FALSE, closed |-> FALSE,
        rejoins |-> FALSE, front |-> TRUE, loaded |-> FALSE,
        active |-> NoRoom, seen |-> {}, shown |-> {}, next |-> 1,
        lists |-> {}, fresh |-> {}]))
  /\ crossed' = FALSE
  /\ unwatched' = unwatched \cup {m \in Ids : OnItsWay(m)}
  /\ UNCHANGED <<server, link, marks>>

\* start: the room's key is derived; the chat listens and joins, although
\* it may have been disposed of meanwhile.
KeyReady(i) ==
  /\ ~chats[i].ready
  /\ Chats([chats EXCEPT ![i].ready = TRUE, ![i].wired = TRUE,
                         ![i].rejoins = ~up])
  /\ Join(IF up THEN {chats[i].room} ELSE {})
  /\ UNCHANGED <<docs, link, unwatched, crossed, marks, events>>

\* Mutation: events of other rooms are not filtered.
ForeignNever(c, r) == FALSE

\* Another conversation's, once a history has said which this one is.
Foreign(c, r) == c.active # NoRoom /\ r # c.active

\* _onRoomJoined: an empty history is shown at once, another when it is
\* decrypted; either way it replaces the list.
TakeHistory(c, e) ==
  IF e.list = {}
  THEN [c EXCEPT !.active = e.room, !.shown = {}, !.loaded = TRUE]
  ELSE [c EXCEPT !.active = e.room, !.lists = @ \cup {e}]

\* _onNewMessage: it is shown when it is decrypted.
TakeNew(c, e) ==
  IF Foreign(c, e.room) \/ e.item.m \in c.seen \cup Shown(c) THEN c
  ELSE [c EXCEPT !.seen = @ \cup {e.item.m}, !.fresh = @ \cup {e.item}]

\* _onMessageDeleted, _onReaction, _onReceiptUpdate: of messages shown.
TakeDeleted(c, e) ==
  [c EXCEPT !.shown = {x \in @ : x.m # e.m}]

TakeReaction(c, e) ==
  [c EXCEPT !.shown =
     {IF x.m = e.m THEN [x EXCEPT !.count = e.n] ELSE x : x \in @}]

TakeReceipt(c, e) ==
  IF Foreign(c, e.room) THEN c
  ELSE [c EXCEPT !.shown =
          {IF x.m <= e.upTo THEN [x EXCEPT !.tick = Larger(@, e.tick)]
           ELSE x : x \in @}]

Take(c, e) ==
  CASE ~c.wired -> c
    [] c.wired /\ e.k = "joined" -> TakeHistory(c, e)
    [] c.wired /\ e.k = "new" -> TakeNew(c, e)
    [] c.wired /\ e.k = "deleted" -> TakeDeleted(c, e)
    [] c.wired /\ e.k = "reaction" -> TakeReaction(c, e)
    [] c.wired /\ e.k = "receipt" -> TakeReceipt(c, e)
    [] OTHER -> c

\* The messages of the histories that are being decrypted.
Loading(c) == UNION {ListOf(h) : h \in c.lists}

\* History: the messages whose own loading in the chat c the event meets; two
\* histories may be shown in either order.
Meets(c, e) ==
  LET about == CASE e.k = "new" -> {e.item.m}
                 [] e.k \in {"deleted", "reaction"} -> {e.m}
                 [] e.k = "receipt" -> 1..e.upTo
                 [] OTHER -> {}
  IN IF e.k = "joined"
     THEN UNION {Fresh(c), Loading(c), IF c.lists = {} THEN {} ELSE ListOf(e)}
     ELSE IF c.lists # {} THEN about ELSE about \cap Fresh(c)

\* Every chat that listens takes the event.  The shell answers a ping with a
\* message_seen without anchor: the room's messages are delivered.  It is
\* carried out at once, since nothing here depends on when it is.
Receive ==
  /\ wire # <<>>
  /\ LET e == Head(wire)
         c == Last(chats)
     IN /\ Chats([i \in DOMAIN chats |-> Take(chats[i], e)])
        /\ crossed' = (crossed \/ (/\ chats # <<>> /\ c.wired
                                   /\ e.k \in {"joined", "new"}
                                   /\ e.room # c.room
                                   /\ e.k = "new" => c.active # c.room))
        /\ upset' = IF chats = <<>> THEN upset ELSE upset \cup Meets(c, e)
        /\ missed' =
             IF chats = <<>> \/ ~c.wired THEN missed
             ELSE IF e.k = "joined" /\ c.front THEN missed \ ListOf(e)
             ELSE IF e.k = "new" /\ Foreign(c, e.room) /\ e.room = c.room
             THEN missed \cup {e.item.m} ELSE missed
        /\ docs' = IF e.k \in {"new", "ping"}
                   THEN Marked(See(Me, e.room, 0, FALSE)) ELSE docs
  /\ wire' = Tail(wire)
  /\ UNCHANGED <<jobs, joined, up, outbox, unwatched, overlap, events>>

\* A history is decrypted.
ShowHistory(i, h) ==
  /\ h \in chats[i].lists
  /\ LET c == [chats[i] EXCEPT !.lists = @ \ {h}, !.shown = h.list,
                               !.next = Len(docs) + 1, !.loaded = TRUE]
     IN /\ Chats([chats EXCEPT ![i] = c])
        /\ Emit(MarkSeen(c)) /\ unwatched' = Ahead(c)
  /\ UNCHANGED <<docs, joined, wire, up, crossed, marks,
                 events>>

\* A message is decrypted.
ShowNew(i, x) ==
  /\ x \in chats[i].fresh
  /\ LET c == [chats[i] EXCEPT !.fresh = @ \ {x}, !.next = @ + 1,
                 !.shown = @ \cup {[x EXCEPT !.place = chats[i].next]}]
     IN /\ Chats([chats EXCEPT ![i] = c])
        /\ IF docs[x.m].from = Me
           THEN UNCHANGED <<jobs, outbox, unwatched>>
           ELSE Emit(MarkSeen(c)) /\ unwatched' = Ahead(c)
  /\ UNCHANGED <<docs, joined, wire, up, crossed, marks,
                 events>>

\* The page is hidden, or seen again.
SetForeground ==
  /\ Event /\ chats # <<>>
  /\ LET c == [Last(chats) EXCEPT !.front = ~@]
     IN /\ Chats([chats EXCEPT ![Len(chats)] = c])
        /\ Emit(IF c.front THEN MarkSeen(c) ELSE {})
        /\ unwatched' = IF c.front THEN Ahead(c)
                        ELSE unwatched \cup {m \in Ids : OnItsWay(m)}
  /\ UNCHANGED <<docs, joined, wire, up, crossed, marks>>

(***************************************************************************)
(* The network.                                                            *)
(***************************************************************************)
\* What was on its way to the client is lost, answers to its joins with it,
\* and of what was on its way to the server what had not arrived.
Lose ==
  /\ Event /\ up /\ up' = FALSE
  /\ wire' = <<>> /\ joined' = {}
  /\ LET joins == {j \in jobs : j.at \in {"find", "reply"}}
     IN /\ \E lost \in SUBSET {j \in jobs : j.at = "see" /\ j.by = Me} :
              jobs' = jobs \ (joins \cup lost)
        /\ missed' = missed \cup
             {m \in Ids :
                \/ \E i \in DOMAIN wire :
                      \/ wire[i].k = "new" /\ wire[i].item.m = m
                      \/ wire[i].k = "joined" /\ wire[i].room = docs[m].room
                \/ \E j \in joins : j.room = docs[m].room}
  /\ UNCHANGED <<docs, outbox, client, upset, overlap>>

\* The socket emits what it kept; a chat that has a connect listener joins.
Reconnect ==
  /\ ~up /\ up' = TRUE
  /\ LET rs == {chats[i].room : i \in {n \in DOMAIN chats : chats[n].rejoins}}
     IN /\ joined' = rs
        /\ jobs' = jobs \cup outbox
                        \cup {[at |-> "find", room |-> r] : r \in rs}
  /\ outbox' = {}
  /\ UNCHANGED <<docs, wire, client, marks, events>>

Next ==
  \/ \E u \in Users, r \in Rooms : Post(u, r)
  \/ \E u \in Users, m \in Ids : React(u, m) \/ Delete(u, m)
  \/ \E r \in Rooms, m \in 0..Len(docs), read \in BOOLEAN :
        PeerSees(r, m, read)
  \/ \E j \in jobs :
        \/ Announce(j) \/ SaveReaction(j) \/ TellReaction(j)
        \/ TellDeleted(j)
        \/ Mark(j) \/ TellReceipt(j)
        \/ Find(j) \/ Reply(j)
  \/ \E r \in Rooms : Open(r)
  \/ \E i \in DOMAIN chats :
        \/ KeyReady(i)
        \/ \E h \in chats[i].lists : ShowHistory(i, h)
        \/ \E x \in chats[i].fresh : ShowNew(i, x)
  \/ Receive \/ SetForeground
  \/ Lose \/ Reconnect

Spec == Init /\ [][Next]_vars

(***************************************************************************)
(* Properties.                                                             *)
(***************************************************************************)
\* The state, and two conventions of message.model.js: a sender is never in
\* its own message's receipts and who has read a message has received it.
TypeOK ==
  /\ Len(docs) <= MaxMessages
  /\ \A m \in Ids :
       /\ docs[m].room \in Rooms /\ docs[m].from \in Users
       /\ docs[m].hidden \subseteq {docs[m].from}
       /\ docs[m].delivered \subseteq Users \ {docs[m].from}
       /\ docs[m].read \subseteq docs[m].delivered
       /\ docs[m].count <= docs[m].reacted
  /\ \A j \in jobs : j.at \in {"announce", "count", "tell", "erased", "see",
                               "receipt", "find", "reply"}
  /\ joined \subseteq Rooms /\ up \in BOOLEAN
  /\ \A j \in outbox : j.at = "see"
  /\ \A i \in DOMAIN chats :
       /\ chats[i].room \in Rooms
       /\ chats[i].active \in Rooms \cup {NoRoom}
       /\ Shown(chats[i]) \cup Fresh(chats[i]) \cup chats[i].seen
            \subseteq Ids
       /\ chats[i].wired => chats[i].ready
  /\ onScreen \cup unwatched \cup upset \cup missed \cup overlap \subseteq Ids
  /\ crossed \in BOOLEAN /\ events \in 0..MaxEvents

\* The mounted chat is in the channel and has nothing under way.
Settled ==
  /\ chats # <<>> /\ jobs = {} /\ wire = <<>>
  /\ LET c == Last(chats)
     IN c.loaded /\ c.lists = {} /\ c.fresh = {} /\ c.room \in joined

\* When all is delivered the list on the screen is the server's: every
\* message of the conversation once, none that is deleted for the user, the
\* counts and ticks as stored.  Not so for a message whose news met its own
\* loading, for a chat that was given another's messages, and for counts of
\* reactions that overlapped; a message its sender deleted for himself is
\* gone from the other's list until the next history.
ViewMatches ==
  (Settled /\ ~crossed) =>
    LET c == Last(chats)
        as(m) == {x \in c.shown : x.m = m}
    IN \A m \in Ids \ upset :
         /\ \A x, y \in as(m) : x = y
         /\ as(m) # {} => docs[m].room = c.room /\ Me \notin docs[m].hidden
         /\ (docs[m].room = c.room /\ docs[m].hidden = {}) => as(m) # {}
         /\ \A x \in as(m) :
              /\ m \in overlap \/ x.count = docs[m].count
              /\ docs[m].from = Me => x.tick = Tick(docs[m])

\* "Read" is true: a message the server holds as read by the user was on
\* the screen while the page was in the foreground, or is about to be;
\* unless its sender has deleted it, its news met its own loading, the
\* socket's absence or the page's being hidden, or a chat reported it that
\* was left, crossed or not loaded.
ReadWasOnScreen ==
  \A m \in Ids : Me \in docs[m].read /\ docs[m].hidden = {} =>
    (m \in onScreen \cup upset \cup missed \cup unwatched \/ OnItsWay(m))

\* Every reaction saved is in the count, whatever deletes and receipts are
\* written beside it, unless two were in flight at once.
ReactionsCounted ==
  \A m \in Ids \ overlap : docs[m].count = docs[m].reacted
===============================================================================
