--------------------------- MODULE Messaging_proofs ---------------------------
(***************************************************************************)
(* Proofs about Chat.tla and Presence.tla: what a conversation counts,     *)
(* calls read and shows, and what an account's contact sees of its         *)
(* presence; for any number of rooms, messages and chats, of pages and     *)
(* connections.                                                            *)
(***************************************************************************)
EXTENDS Chat, Presence, SequenceTheorems, TLAPS

(***************************************************************************)
(* Conversations.  A message is named by its place; n is the number of     *)
(* messages.                                                               *)
(***************************************************************************)
Doc == [room : Rooms, from : Users, hidden : SUBSET Users,
        delivered : SUBSET Users, read : SUBSET Users,
        count : Nat, reacted : Nat]
Items(n) == [m : 1..n, count : Nat, tick : Nat, place : Nat]

Seeing(n) == [at : {"see", "receipt"}, by : Users, room : Rooms,
              upTo : 0..n, read : BOOLEAN]
JobsOf(n) ==
  [at : {"announce", "erased"}, m : 1..n]
    \cup [at : {"count", "tell"}, m : 1..n, n : Nat, id : Nat]
    \cup Seeing(n)
    \cup [at : {"find"}, room : Rooms]
    \cup [at : {"reply"}, room : Rooms, list : SUBSET Items(n)]

Joineds(n) == [k : {"joined"}, room : Rooms, list : SUBSET Items(n)]
EventsOf(n) ==
  [k : {"new"}, room : Rooms, item : Items(n)]
    \cup [k : {"ping"}, room : Rooms]
    \cup Joineds(n)
    \cup [k : {"deleted"}, m : 1..n]
    \cup [k : {"reaction"}, m : 1..n, n : Nat]
    \cup [k : {"receipt"}, room : Rooms, upTo : 0..n, tick : Nat]

ChatsOf(n) ==
  [room : Rooms, ready : BOOLEAN, wired : BOOLEAN, closed : BOOLEAN,
   rejoins : BOOLEAN, front : BOOLEAN, loaded : BOOLEAN,
   active : Rooms \cup {NoRoom}, seen : SUBSET (1..n),
   shown : SUBSET Items(n), next : Nat, lists : SUBSET Joineds(n),
   fresh : SUBSET Items(n)]

Typed ==
  /\ docs \in Seq(Doc) /\ Len(docs) <= MaxMessages
  /\ jobs \subseteq JobsOf(Len(docs))
  /\ outbox \subseteq Seeing(Len(docs)) /\ \A j \in outbox : j.at = "see"
  /\ joined \subseteq Rooms /\ up \in BOOLEAN
  /\ wire \in Seq(EventsOf(Len(docs)))
  /\ chats \in Seq(ChatsOf(Len(docs)))
  /\ onScreen \cup unwatched \cup upset \cup missed \cup overlap \subseteq Ids
  /\ crossed \in BOOLEAN /\ events \in 0..MaxEvents

\* The conventions of a message, and a count that is about to be saved.
Conventions ==
  /\ \A m \in Ids : /\ docs[m].hidden \subseteq {docs[m].from}
                    /\ docs[m].delivered \subseteq Users \ {docs[m].from}
                    /\ docs[m].read \subseteq docs[m].delivered
                    /\ docs[m].count <= docs[m].reacted
  /\ \A j \in jobs : j.at = "count" => j.n <= docs[j.m].reacted

\* The reactions in flight.
InFlight(m) == {j \in jobs : j.at \in {"count", "tell"} /\ j.m = m}
Reactions ==
  \A m \in Ids \ overlap :
    /\ docs[m].count = docs[m].reacted
    /\ \A j, k \in InFlight(m) : j = k
    /\ \A j \in InFlight(m) : j.at = "count" => j.n = docs[m].count

\* Joins and histories are under way only in channels the socket is in.
Linked ==
  /\ ~ up => wire = <<>> /\ joined = {}
  /\ \A j \in jobs : j.at \in {"find", "reply"} => j.room \in joined
  /\ \A i \in DOMAIN wire : wire[i].k = "joined" => wire[i].room \in joined

\* The chat that is mounted.
Mounted == chats # <<>>
Page == Last(chats)

\* It alone is not closed; before it listens there is nothing in it, and what
\* it shows in the foreground is on the screen.
Wiring ==
  /\ \A i \in DOMAIN chats :
       /\ chats[i].closed <=> i < Len(chats)
       /\ chats[i].wired => chats[i].ready
  /\ Mounted =>
       /\ \/ Page.wired
          \/ /\ ~ Page.loaded
             /\ Page.lists = {} /\ Page.fresh = {} /\ Page.shown = {}
       /\ Page.front => Shown(Page) \subseteq onScreen

\* What is said to be deleted is.
Erased ==
  /\ \A j \in jobs : j.at = "erased" => docs[j.m].hidden # {}
  /\ \A i \in DOMAIN wire :
       wire[i].k = "deleted" => docs[wire[i].m].hidden # {}

\* Histories and new messages are of the room they name; and of the mounted
\* chat's, unless that was given another's.
OfRoom(r, list) == \A x \in list : docs[x.m].room = r
InRoom ==
  /\ \A j \in jobs : j.at = "reply" => OfRoom(j.room, j.list)
  /\ \A i \in DOMAIN wire :
       /\ wire[i].k = "joined" => OfRoom(wire[i].room, wire[i].list)
       /\ wire[i].k = "new" => docs[wire[i].item.m].room = wire[i].room
  /\ Mounted => \A h \in Page.lists : OfRoom(h.room, h.list)
  /\ Mounted /\ ~ crossed =>
       /\ Page.active \in {NoRoom, Page.room}
       /\ \A h \in Page.lists : h.room = Page.room
       /\ OfRoom(Page.room, Page.shown) /\ OfRoom(Page.room, Page.fresh)

\* A message that is still to be announced, or is announced to the socket.
Announced(m) == [at |-> "announce", m |-> m] \in jobs
New(i, m) == wire[i].k = "new" /\ wire[i].item.m = m
InWire(m) == \E i \in DOMAIN wire : New(i, m)

\* It is so once, and before the mounted chat has seen it.
Once ==
  \A m \in Ids :
    /\ Announced(m) => ~ InWire(m)
    /\ \A i, k \in DOMAIN wire : New(i, m) /\ New(k, m) => i = k
    /\ Mounted /\ (Announced(m) \/ InWire(m)) => m \notin Page.seen

\* What a history lacks of the messages of the other user comes after it.
Theirs(r) == {m \in Ids : docs[m].room = r /\ docs[m].from = Peer}
Complete ==
  /\ \A j \in jobs : j.at = "reply" =>
       \A m \in Theirs(j.room) : m \in ListOf(j) \cup upset \/ Announced(m)
  /\ \A i \in DOMAIN wire : wire[i].k = "joined" =>
       \A m \in Theirs(wire[i].room) :
         \/ m \in ListOf(wire[i]) \cup upset \/ Announced(m)
         \/ \E k \in DOMAIN wire : k > i /\ New(k, m)
  /\ Mounted => \A h \in Page.lists : \A m \in Theirs(h.room) :
       \/ m \in ListOf(h) \cup upset \cup missed
       \/ Announced(m) \/ InWire(m)

\* A message that was on the screen, or need not have been.
Excused(m) == \/ m \in onScreen \cup upset \cup missed \cup unwatched
              \/ docs[m].hidden # {}
\* A message the mounted chat is decrypting.
Taken(m) == m \in Fresh(Page) \cup Loading(Page)

\* A chat with a history shows the other user's messages, or is to.
Loaded ==
  Mounted /\ Page.loaded /\ ~ crossed =>
    \A m \in Theirs(Page.room) :
      \/ m \in Shown(Page) \/ Excused(m)
      \/ Announced(m) \/ InWire(m) \/ Taken(m)

\* It was on the screen in the foreground, or is on its way there.
Watched(m) ==
  \/ Excused(m)
  \/ /\ Mounted /\ Page.front
     /\ \/ Taken(m)
        \/ /\ Page.wired /\ Page.room = docs[m].room
           /\ Announced(m) \/ InWire(m)

\* What is read, or reported as read, was watched for.
ToRead(j) == j.at = "see" /\ j.by = Me /\ j.read
Reading ==
  /\ \A j \in jobs \cup outbox : ToRead(j) =>
       /\ j.upTo # 0
       /\ \A m \in Theirs(j.room) : m <= j.upTo => Watched(m)
  /\ \A m \in Ids : Me \in docs[m].read => Watched(m)

\* The inductive invariant.
Delivery ==
  /\ Linked /\ Wiring /\ Erased /\ InRoom /\ Once /\ Complete /\ Loaded
  /\ Reading
Full == Typed /\ Conventions /\ Reactions /\ Delivery

(***************************************************************************)
(* Jobs, events, chats and sequences.                                      *)
(***************************************************************************)
LEMMA JobKinds ==
  ASSUME NEW n \in Nat, NEW j \in JobsOf(n)
  PROVE  /\ j.at \in {"announce", "count", "tell", "erased", "see", "receipt",
                      "find", "reply"}
         /\ j.at \in {"announce", "erased", "count", "tell"} => j.m \in 1..n
         /\ j.at = "announce" => j = [at |-> "announce", m |-> j.m]
         /\ j.at \in {"count", "tell"} => j.n \in Nat
         /\ j.at \in {"see", "receipt"} => j \in Seeing(n)
         /\ j.at \in {"find", "reply"} => j.room \in Rooms
         /\ j.at = "reply" => j.list \subseteq Items(n)
BY DEF JobsOf, Seeing

\* The reaction of a handler that has saved it is to be told.
LEMMA TellType ==
  ASSUME NEW n \in Nat,
         NEW j \in [at : {"count", "tell"}, m : 1..n, n : Nat, id : Nat]
  PROVE  [j EXCEPT !.at = "tell", !.n = @ + 1] \in JobsOf(n)
<1>1. PICK k \in Nat : k = j.n + 1 OBVIOUS
<1>2. [j EXCEPT !.at = "tell", !.n = k]
        \in [at : {"count", "tell"}, m : 1..n, n : Nat, id : Nat]
  OBVIOUS
<1> QED BY <1>1, <1>2 DEF JobsOf

\* An event has what its kind has.
LEMMA EventKinds ==
  ASSUME NEW n \in Nat, NEW e \in EventsOf(n)
  PROVE  /\ e.k \in {"new", "ping", "joined", "deleted", "reaction",
                     "receipt"}
         /\ e.k \in {"new", "ping", "joined", "receipt"} => e.room \in Rooms
         /\ e.k = "new" => e.item \in Items(n)
         /\ e.k = "joined" => e \in Joineds(n) /\ e.list \subseteq Items(n)
         /\ e.k \in {"deleted", "reaction"} => e.m \in 1..n
         /\ e.k = "reaction" => e.n \in Nat
         /\ e.k = "receipt" => e.upTo \in 0..n /\ e.tick \in Nat
BY DEF EventsOf, Joineds

\* What is said of the first messages can be said of more.
LEMMA Wider ==
  ASSUME NEW n \in Nat, NEW k \in Nat, n <= k
  PROVE  /\ Items(n) \subseteq Items(k) /\ Seeing(n) \subseteq Seeing(k)
         /\ JobsOf(n) \subseteq JobsOf(k) /\ Joineds(n) \subseteq Joineds(k)
         /\ EventsOf(n) \subseteq EventsOf(k)
         /\ ChatsOf(n) \subseteq ChatsOf(k)
<1>1. 1..n \subseteq 1..k /\ 0..n \subseteq 0..k OBVIOUS
<1>2. Items(n) \subseteq Items(k) BY <1>1 DEF Items
<1>3. Seeing(n) \subseteq Seeing(k) BY <1>1 DEF Seeing
<1>4. Joineds(n) \subseteq Joineds(k) BY <1>2 DEF Joineds
<1>5. JobsOf(n) \subseteq JobsOf(k) BY <1>1, <1>2, <1>3 DEF JobsOf
<1>6. EventsOf(n) \subseteq EventsOf(k) BY <1>1, <1>2, <1>4 DEF EventsOf
<1>7. ChatsOf(n) \subseteq ChatsOf(k) BY <1>1, <1>2, <1>4 DEF ChatsOf
<1> QED BY <1>2, <1>3, <1>4, <1>5, <1>6, <1>7

\* A sequence with one more at its end.
LEMMA Appended ==
  ASSUME NEW S, NEW s \in Seq(S), NEW e \in S
  PROVE  /\ Append(s, e) \in Seq(S) /\ Len(Append(s, e)) = Len(s) + 1
         /\ DOMAIN Append(s, e) = 1 .. Len(s) + 1 /\ DOMAIN s = 1 .. Len(s)
         /\ \A i \in 1 .. Len(s) : Append(s, e)[i] = s[i]
         /\ Append(s, e)[Len(s) + 1] = e
OBVIOUS

\* A sequence without its first.
LEMMA HeadTaken ==
  ASSUME NEW S, NEW s \in Seq(S), s # <<>>
  PROVE  /\ Tail(s) \in Seq(S) /\ Len(s) >= 1 /\ Head(s) = s[1]
         /\ DOMAIN s = 1 .. Len(s) /\ DOMAIN Tail(s) = 1 .. Len(s) - 1
         /\ \A i \in 1 .. Len(s) - 1 : Tail(s)[i] = s[i + 1]
         /\ Head(s) \in S
BY HeadTailProperties, LenProperties, EmptySeq

\* A sequence with one replaced.
LEMMA Replaced ==
  ASSUME NEW S, NEW s \in Seq(S), NEW i \in DOMAIN s, NEW c \in S
  PROVE  /\ [s EXCEPT ![i] = c] \in Seq(S)
         /\ Len([s EXCEPT ![i] = c]) = Len(s)
         /\ DOMAIN [s EXCEPT ![i] = c] = DOMAIN s /\ DOMAIN s = 1 .. Len(s)
         /\ [s EXCEPT ![i] = c][i] = c
         /\ \A k \in DOMAIN s \ {i} : [s EXCEPT ![i] = c][k] = s[k]
         /\ s # <<>> /\ [s EXCEPT ![i] = c] # <<>> /\ Len(s) >= 1
BY ExceptSeq

\* A function of 1 .. n is a sequence.
LEMMA Mapped ==
  ASSUME NEW S, NEW n \in Nat, NEW f \in [1 .. n -> S]
  PROVE  f \in Seq(S) /\ Len(f) = n
OBVIOUS

\* What is known of a state of the right type.
LEMMA Basics ==
  ASSUME Typed
  PROVE  /\ Len(docs) \in Nat /\ DOMAIN docs = Ids /\ Ids = 1 .. Len(docs)
         /\ \A m \in Ids : docs[m] \in Doc
         /\ DOMAIN wire = 1 .. Len(wire) /\ Len(wire) \in Nat
         /\ \A i \in DOMAIN wire : wire[i] \in EventsOf(Len(docs))
         /\ DOMAIN chats = 1 .. Len(chats) /\ Len(chats) \in Nat
         /\ \A i \in DOMAIN chats : chats[i] \in ChatsOf(Len(docs))
         /\ Mounted => Len(chats) \in DOMAIN chats
         /\ Mounted => Page \in ChatsOf(Len(docs))
<1>1. Mounted => Len(chats) \in DOMAIN chats BY EmptySeq DEF Typed, Mounted
<1> QED BY <1>1 DEF Typed, Ids, Page, Last

\* Messages stay, where they are and whose they are; nobody a message is
\* hidden from sees it again.
Grown ==
  /\ Len(docs') \in Nat /\ Len(docs) <= Len(docs') /\ Ids \subseteq Ids'
  /\ \A m \in Ids : /\ docs'[m].room = docs[m].room
                    /\ docs'[m].from = docs[m].from
                    /\ docs[m].hidden \subseteq docs'[m].hidden

\* One message is changed.
LEMMA OneChanged ==
  ASSUME Typed, NEW m \in Ids, NEW d \in Doc, docs' = [docs EXCEPT ![m] = d]
  PROVE  /\ docs' \in Seq(Doc) /\ Len(docs') = Len(docs) /\ Ids' = Ids
         /\ \A k \in Ids : docs'[k] = IF k = m THEN d ELSE docs[k]
BY Basics, Replaced DEF Typed, Ids

\* Marking changes who a message was delivered to and read by.
LEMMA AllMarked ==
  ASSUME Typed, NEW j \in Seeing(Len(docs))
  PROVE  /\ Marked(j) \in Seq(Doc) /\ Len(Marked(j)) = Len(docs)
         /\ \A m \in Ids : 
              /\ Marked(j)[m].room = docs[m].room
              /\ Marked(j)[m].from = docs[m].from
              /\ Marked(j)[m].hidden = docs[m].hidden
              /\ Marked(j)[m].count = docs[m].count
              /\ Marked(j)[m].reacted = docs[m].reacted
              /\ Marked(j)[m].delivered =
                   docs[m].delivered \cup (IF m \in Covered(j) THEN {j.by}
                                           ELSE {})
              /\ Marked(j)[m].read =
                   docs[m].read \cup (IF m \in Covered(j) /\ j.read
                                      THEN {j.by} ELSE {})
<1>1. Ids = 1 .. Len(docs) /\ \A m \in Ids : docs[m] \in Doc
  BY Basics
<1>2. Len(docs) \in Nat BY Basics
<1>3. ASSUME NEW m \in Ids 
      PROVE  [docs[m] EXCEPT !.delivered = @ \cup {j.by},
                             !.read = IF j.read THEN @ \cup {j.by} ELSE @]
             \in Doc
  BY <1>1 DEF Doc, Seeing
<1>4. ASSUME NEW m \in Ids
      PROVE  Marked(j)[m] = IF m \notin Covered(j) THEN docs[m]
               ELSE [docs[m] EXCEPT !.delivered = @ \cup {j.by},
                               !.read = IF j.read THEN @ \cup {j.by} ELSE @]
  BY DEF Marked
<1>5. Marked(j) \in [1 .. Len(docs) -> Doc]
  <2>1. Marked(j) = [m \in 1 .. Len(docs) |-> Marked(j)[m]]
    BY Basics DEF Marked
  <2>2. \A m \in 1 .. Len(docs) : Marked(j)[m] \in Doc
    <3> SUFFICES ASSUME NEW m \in Ids PROVE Marked(j)[m] \in Doc
      BY <1>1
    <3> QED BY <1>1, <1>3, <1>4
  <2> QED BY <2>1, <2>2
<1>6. Marked(j) \in Seq(Doc) /\ Len(Marked(j)) = Len(docs)
  BY <1>2, <1>5, Mapped
<1>7. ASSUME NEW m \in Ids
      PROVE  /\ Marked(j)[m].room = docs[m].room
             /\ Marked(j)[m].from = docs[m].from
             /\ Marked(j)[m].hidden = docs[m].hidden
             /\ Marked(j)[m].count = docs[m].count
             /\ Marked(j)[m].reacted = docs[m].reacted
             /\ Marked(j)[m].delivered =
                   docs[m].delivered \cup (IF m \in Covered(j) THEN {j.by}
                                           ELSE {})
             /\ Marked(j)[m].read =
                   docs[m].read \cup (IF m \in Covered(j) /\ j.read
                                      THEN {j.by} ELSE {})
  BY <1>1, <1>4 DEF Doc
<1> QED BY <1>6, <1>7

\* What a chat reports as seen.
LEMMA Reported ==
  ASSUME Typed, NEW c \in ChatsOf(Len(docs)), NEW s \in MarkSeen(c)
  PROVE  /\ s \in Seeing(Len(docs)) /\ s.at = "see" /\ s.by = Me
         /\ s.upTo \in Ids /\ s.upTo \in Shown(c) /\ s.read = c.front
         /\ s.room = docs[s.upTo].room /\ docs[s.upTo].from = Peer
<1>1. PICK m \in LastOfOthers(c) :
        s = See(Me, docs[m].room, m, c.front)
  BY DEF MarkSeen
<1>2. m \in Shown(c) /\ docs[m].from # Me
  BY DEF LastOfOthers, Shown
<1>3. c.shown \subseteq Items(Len(docs)) /\ c.front \in BOOLEAN
  BY DEF ChatsOf
<1>4. m \in Ids BY <1>2, <1>3 DEF Shown, Items, Ids
<1>5. docs[m].room \in Rooms /\ docs[m].from \in Users
  BY <1>4, Basics DEF Doc
<1> QED BY <1>1, <1>2, <1>3, <1>4, <1>5 DEF See, Seeing, Users, Ids

\* What a chat is after an event.
LEMMA Taking ==
  ASSUME NEW n \in Nat, NEW c \in ChatsOf(n), NEW e \in EventsOf(n),
         NEW d, d = Take(c, e)
  PROVE  /\ d \in ChatsOf(n)
         /\ d.room = c.room /\ d.ready = c.ready /\ d.wired = c.wired
         /\ d.closed = c.closed /\ d.rejoins = c.rejoins
         /\ d.front = c.front /\ d.next = c.next
         /\ ~ c.wired => d = c
<1> USE DEF Take
<1>0. c.wired \in BOOLEAN BY DEF ChatsOf
<1>1. CASE ~ c.wired BY <1>1
<1>2. CASE c.wired /\ e.k = "joined"
  <2>1. e \in Joineds(n) /\ e.room \in Rooms BY <1>2, EventKinds
  <2>2. d = TakeHistory(c, e) BY <1>2
  <2>3. CASE e.list = {}
    <3>1. d = [c EXCEPT !.active = e.room, !.shown = {}, !.loaded = TRUE]
      BY <2>2, <2>3 DEF TakeHistory
    <3> QED BY <2>1, <3>1, <1>2 DEF ChatsOf
  <2>4. CASE e.list # {}
    <3>1. PICK l \in SUBSET Joineds(n) : l = c.lists \cup {e}
      BY <2>1 DEF ChatsOf
    <3>2. d = [c EXCEPT !.active = e.room, !.lists = l]
      BY <2>2, <2>4, <3>1 DEF TakeHistory
    <3> QED BY <2>1, <3>2, <1>2 DEF ChatsOf
  <2> QED BY <2>3, <2>4
<1>3. CASE c.wired /\ e.k = "new"
  <2>1. e.item \in Items(n) /\ e.item.m \in 1..n
    BY <1>3, EventKinds DEF Items
  <2>2. d = TakeNew(c, e) BY <1>3
  <2>3. CASE d = c BY <2>3, <1>3
  <2>4. CASE d = [c EXCEPT !.seen = @ \cup {e.item.m},
                           !.fresh = @ \cup {e.item}]
    <3>1. PICK seen \in SUBSET (1 .. n), fresh \in SUBSET Items(n) :
            /\ seen = c.seen \cup {e.item.m}
            /\ fresh = c.fresh \cup {e.item}
      BY <2>1 DEF ChatsOf
    <3>2. d = [c EXCEPT !.seen = seen, !.fresh = fresh] BY <2>4, <3>1
    <3> QED BY <3>2, <1>3 DEF ChatsOf
  <2> QED BY <2>2, <2>3, <2>4 DEF TakeNew
<1>4. CASE c.wired /\ e.k = "deleted"
  <2>1. d = [c EXCEPT !.shown = {x \in @ : x.m # e.m}]
    BY <1>4 DEF TakeDeleted
  <2> QED BY <2>1, <1>4 DEF ChatsOf
<1>5. CASE c.wired /\ e.k = "reaction"
  <2> DEFINE S == {IF x.m = e.m THEN [x EXCEPT !.count = e.n] ELSE x :
                     x \in c.shown}
  <2>1. d = [c EXCEPT !.shown = S] BY <1>5 DEF TakeReaction
  <2>2. e.n \in Nat /\ c.shown \subseteq Items(n)
    BY <1>5, EventKinds DEF ChatsOf
  <2>3. S \subseteq Items(n) BY <2>2 DEF Items
  <2> HIDE DEF S
  <2> QED BY <2>1, <2>3, <1>5 DEF ChatsOf
<1>6. CASE c.wired /\ e.k = "receipt"
  <2> DEFINE S == {IF x.m <= e.upTo
                     THEN [x EXCEPT !.tick = Larger(@, e.tick)]
                     ELSE x : x \in c.shown}
  <2>1. d = c \/ d = [c EXCEPT !.shown = S] BY <1>6 DEF TakeReceipt
  <2>2. e.tick \in Nat /\ c.shown \subseteq Items(n)
    BY <1>6, EventKinds DEF ChatsOf
  <2>3. S \subseteq Items(n) BY <2>2 DEF Items, Larger
  <2> HIDE DEF S
  <2> QED BY <2>1, <2>3, <1>6 DEF ChatsOf
<1>7. CASE c.wired /\ e.k = "ping" BY <1>7
<1> QED BY <1>0, <1>1, <1>2, <1>3, <1>4, <1>5, <1>6, <1>7, EventKinds

\* The lists of a chat after an event.
LEMMA TakingLists ==
  ASSUME NEW n \in Nat, NEW c \in ChatsOf(n), NEW e \in EventsOf(n),
         c.wired, NEW d, d = Take(c, e)
  PROVE  /\ e.k # "joined" => /\ d.lists = c.lists /\ d.active = c.active
                              /\ d.loaded = c.loaded
         /\ e.k # "new" => d.fresh = c.fresh /\ d.seen = c.seen
         /\ e.k \notin {"joined", "deleted"} => Shown(d) = Shown(c)
         /\ e.k = "joined" =>
              /\ d.active = e.room
              /\ e.list = {} => /\ d.loaded /\ Shown(d) = {}
                                /\ d.lists = c.lists
              /\ e.list # {} => /\ d.loaded = c.loaded
                                /\ d.shown = c.shown
                                /\ d.lists = c.lists \cup {e}
         /\ e.k = "deleted" => Shown(d) = Shown(c) \ {e.m}
         /\ e.k = "new" =>
              \/ d = c /\ Foreign(c, e.room)
              \/ d = c /\ e.item.m \in c.seen \cup Shown(c)
              \/ /\ ~ Foreign(c, e.room) /\ e.item.m \notin c.seen
                 /\ d.seen = c.seen \cup {e.item.m}
                 /\ d.fresh = c.fresh \cup {e.item}
<1> USE DEF Take
<1>2. CASE e.k = "joined"
  <2>1. d = TakeHistory(c, e) BY <1>2
  <2> QED BY <2>1, <1>2 DEF TakeHistory, ChatsOf, Shown
<1>3. CASE e.k = "new"
  <2>1. d = TakeNew(c, e) BY <1>3
  <2> QED BY <2>1, <1>3 DEF TakeNew, ChatsOf, Shown
<1>4. CASE e.k = "deleted"
  <2>1. d = [c EXCEPT !.shown = {x \in @ : x.m # e.m}]
    BY <1>4 DEF TakeDeleted
  <2> QED BY <2>1, <1>4 DEF ChatsOf, Shown
<1>5. CASE e.k = "reaction"
  <2> DEFINE S == {IF x.m = e.m THEN [x EXCEPT !.count = e.n] ELSE x :
                     x \in c.shown}
  <2>1. d = [c EXCEPT !.shown = S] BY <1>5 DEF TakeReaction
  <2>2. c.shown \subseteq Items(n) BY DEF ChatsOf
  <2>3. \A x \in c.shown : [x EXCEPT !.count = e.n].m = x.m
    BY <2>2 DEF Items
  <2>4. {x.m : x \in S} = {x.m : x \in c.shown} BY <2>3
  <2> HIDE DEF S
  <2> QED BY <2>1, <2>4, <1>5 DEF ChatsOf, Shown
<1>6. CASE e.k = "receipt"
  <2> DEFINE S == {IF x.m <= e.upTo
                     THEN [x EXCEPT !.tick = Larger(@, e.tick)]
                     ELSE x : x \in c.shown}
  <2>1. d = c \/ d = [c EXCEPT !.shown = S] BY <1>6 DEF TakeReceipt
  <2>2. c.shown \subseteq Items(n) BY DEF ChatsOf
  <2>3. \A x \in c.shown : [x EXCEPT !.tick = Larger(@, e.tick)].m = x.m
    BY <2>2 DEF Items
  <2>4. {x.m : x \in S} = {x.m : x \in c.shown}
    <3>1. \A x \in c.shown :
            (IF x.m <= e.upTo THEN [x EXCEPT !.tick = Larger(@, e.tick)]
             ELSE x).m = x.m
      BY <2>3
    <3> QED BY <3>1
  <2> HIDE DEF S
  <2> QED BY <2>1, <2>4, <1>6 DEF ChatsOf, Shown
<1>7. CASE e.k = "ping" BY <1>7
<1> QED BY <1>2, <1>3, <1>4, <1>5, <1>6, <1>7, EventKinds

(***************************************************************************)
(* The types.                                                              *)
(***************************************************************************)
LEMMA TypedStart == Init => Typed
<1> SUFFICES ASSUME Init PROVE Typed
  OBVIOUS
<1>1. docs = <<>> /\ wire = <<>> /\ chats = <<>> /\ Len(docs) = 0
  BY EmptySeq DEF Init
<1>2. docs \in Seq(Doc) /\ wire \in Seq(EventsOf(Len(docs)))
      /\ chats \in Seq(ChatsOf(Len(docs)))
  BY <1>1
<1>3. /\ jobs = {} /\ outbox = {} /\ joined = {} /\ up = TRUE
      /\ onScreen \cup unwatched \cup upset \cup missed \cup overlap = {}
      /\ crossed = FALSE /\ events = 0
  BY DEF Init
<1>4. Len(docs) <= MaxMessages /\ events \in 0 .. MaxEvents
  BY <1>1, <1>3, ChatAssumption
<1> QED BY <1>2, <1>3, <1>4 DEF Typed

\* The types but for those of the chats and what is marked.
ServerTyped ==
  /\ docs \in Seq(Doc) /\ Len(docs) <= MaxMessages
  /\ jobs \subseteq JobsOf(Len(docs))
  /\ joined \subseteq Rooms
  /\ wire \in Seq(EventsOf(Len(docs)))

\* A server's step whose messages are no less.
LEMMA ServerTypes ==
  ASSUME Typed, ServerTyped', Len(docs) <= Len(docs'),
         client' = client, outbox' = outbox, up' = up,
         upset' \cup missed' \cup overlap' \subseteq Ids',
         events' \in 0..MaxEvents
  PROVE  Typed'
<1>1. Len(docs) \in Nat /\ Len(docs') \in Nat BY DEF Typed, ServerTyped
<1>2. /\ Seeing(Len(docs)) \subseteq Seeing(Len(docs'))
      /\ ChatsOf(Len(docs)) \subseteq ChatsOf(Len(docs'))
  BY <1>1, Wider
<1>3. chats' \in Seq(ChatsOf(Len(docs')))
  BY <1>2, SeqMonotonic DEF Typed, client
<1>4. Ids \subseteq Ids' BY <1>1 DEF Ids
<1> QED BY <1>2, <1>3, <1>4 DEF Typed, ServerTyped, client

\* A post stores one more message and leaves the others as they are.
LEMMA PostTyped ==
  ASSUME Typed, NEW u \in Users, NEW r \in Rooms, Post(u, r)
  PROVE  Typed' /\ Grown
<1> DEFINE d == [room |-> r, from |-> u, hidden |-> {}, delivered |-> {},
                 read |-> {}, count |-> 0, reacted |-> 0]
<1>1. d \in Doc BY DEF Doc
<1>2. docs' = Append(docs, d) BY DEF Post
<1> HIDE DEF d
<1>3. /\ docs' \in Seq(Doc) /\ Len(docs') = Len(docs) + 1
      /\ \A m \in Ids : docs'[m] = docs[m]
  BY <1>1, <1>2, Appended DEF Typed, Ids
<1>4. Len(docs) \in Nat /\ Len(docs') \in Nat BY <1>3 DEF Typed
<1>5. /\ JobsOf(Len(docs)) \subseteq JobsOf(Len(docs'))
      /\ EventsOf(Len(docs)) \subseteq EventsOf(Len(docs'))
  BY <1>3, <1>4, Wider
<1>6. Ids \subseteq Ids' BY <1>3, <1>4 DEF Ids
<1>7. [at |-> "announce", m |-> Len(docs) + 1] \in JobsOf(Len(docs'))
  BY <1>3, <1>4 DEF JobsOf
<1>8. jobs' \subseteq JobsOf(Len(docs')) BY <1>5, <1>7 DEF Post, Typed
<1>9. wire' \in Seq(EventsOf(Len(docs')))
  BY <1>5, SeqMonotonic DEF Post, Typed, link
<1>10. Len(docs') <= MaxMessages
  BY <1>3, <1>4, ChatAssumption DEF Post
<1>11. events' \in 0 .. MaxEvents
  BY ChatAssumption DEF Post, Event, Typed
<1>12. ServerTyped'
  BY <1>3, <1>8, <1>9, <1>10 DEF ServerTyped, Post, Typed
<1>13. Typed'
  BY <1>3, <1>4, <1>6, <1>11, <1>12, ServerTypes
     DEF Post, Typed, link, marks
<1> QED BY <1>3, <1>4, <1>6, <1>13 DEF Grown

\* A handler's step in which messages may change, but none is added.
LEMMA JobTypes ==
  ASSUME Typed, docs' \in Seq(Doc), Len(docs') = Len(docs),
         jobs' \subseteq JobsOf(Len(docs)),
         joined' = joined, wire' \in Seq(EventsOf(Len(docs))),
         client' = client, outbox' = outbox, up' = up,
         upset' \cup missed' \cup overlap' \subseteq Ids,
         events' \in 0..MaxEvents
  PROVE  Typed'
<1>1. ServerTyped' BY DEF ServerTyped, Typed
<1>2. Len(docs) <= Len(docs') /\ Ids' = Ids BY DEF Typed, Ids
<1> QED BY <1>1, <1>2, ServerTypes

\* A reaction that starts is one more handler.
LEMMA ReactTyped ==
  ASSUME Typed, NEW u \in Users, NEW m \in Ids, React(u, m) PROVE Typed'
<1>1. [at |-> "count", m |-> m, n |-> docs[m].count, id |-> events]
        \in JobsOf(Len(docs))
  BY Basics DEF JobsOf, Doc, Typed
<1>2. events' \in 0 .. MaxEvents BY ChatAssumption DEF React, Event, Typed
<1> QED BY <1>1, <1>2, JobTypes DEF React, Typed, link

\* A reaction that is saved changes two counts of its message.
LEMMA SaveReactionTyped ==
  ASSUME Typed, NEW j \in jobs, SaveReaction(j)
  PROVE  /\ Typed' /\ Grown /\ Ids' = Ids /\ j.m \in Ids
         /\ \A m \in Ids : /\ docs'[m].hidden = docs[m].hidden
                           /\ docs'[m].delivered = docs[m].delivered
                           /\ docs'[m].read = docs[m].read
         /\ docs'[j.m].count = j.n + 1
         /\ docs'[j.m].reacted = docs[j.m].reacted + 1
         /\ \A m \in Ids \ {j.m} : docs'[m] = docs[m]
         /\ [j EXCEPT !.at = "tell", !.n = @ + 1] \in JobsOf(Len(docs))
<1> USE Basics DEF SaveReaction
<1>1. j \in JobsOf(Len(docs)) BY DEF Typed
<1>2. j.m \in Ids /\ j.n \in Nat BY <1>1, JobKinds
<1> DEFINE d == [docs[j.m] EXCEPT !.count = j.n + 1, !.reacted = @ + 1]
<1>3. /\ d \in Doc /\ d.count = j.n + 1 /\ d.room = docs[j.m].room
      /\ d.reacted = docs[j.m].reacted + 1 /\ d.from = docs[j.m].from
      /\ d.hidden = docs[j.m].hidden /\ d.read = docs[j.m].read
      /\ d.delivered = docs[j.m].delivered
  BY <1>2 DEF Doc
<1>4. docs' = [docs EXCEPT ![j.m] = d] OBVIOUS
<1> HIDE DEF d
<1>5. /\ docs' \in Seq(Doc) /\ Len(docs') = Len(docs) /\ Ids' = Ids
      /\ \A k \in Ids : docs'[k] = IF k = j.m THEN d ELSE docs[k]
  BY <1>2, <1>3, <1>4, OneChanged
<1>6. j \in [at : {"count", "tell"}, m : 1 .. Len(docs), n : Nat, id : Nat]
  BY <1>1 DEF JobsOf, Seeing
<1>7. [j EXCEPT !.at = "tell", !.n = @ + 1] \in JobsOf(Len(docs))
  BY <1>2, <1>6, TellType
<1>8. jobs' \subseteq JobsOf(Len(docs)) BY <1>7 DEF Typed
<1>9. Typed' BY <1>5, <1>8, JobTypes DEF Typed, link, marks
<1>10. Grown BY <1>3, <1>5 DEF Grown
<1> QED BY <1>2, <1>3, <1>5, <1>7, <1>9, <1>10

\* A delete hides the message from its sender.
LEMMA DeleteTyped ==
  ASSUME Typed, NEW u \in Users, NEW m \in Ids, Delete(u, m)
  PROVE  /\ Typed' /\ Grown /\ Ids' = Ids
         /\ docs'[m].hidden = docs[m].hidden \cup {docs[m].from}
         /\ \A k \in Ids : /\ docs'[k].count = docs[k].count
                           /\ docs'[k].reacted = docs[k].reacted
                           /\ docs'[k].delivered = docs[k].delivered
                           /\ docs'[k].read = docs[k].read
         /\ \A k \in Ids \ {m} : docs'[k] = docs[k]
<1> USE Basics DEF Delete
<1> DEFINE d == [docs[m] EXCEPT !.hidden = @ \cup {u}]
<1>3. /\ d \in Doc /\ d.count = docs[m].count /\ d.room = docs[m].room
      /\ d.reacted = docs[m].reacted /\ d.from = docs[m].from
      /\ d.hidden = docs[m].hidden \cup {u} /\ d.read = docs[m].read
      /\ d.delivered = docs[m].delivered
  BY DEF Doc
<1>4. docs' = [docs EXCEPT ![m] = d] OBVIOUS
<1> HIDE DEF d
<1>5. /\ docs' \in Seq(Doc) /\ Len(docs') = Len(docs) /\ Ids' = Ids
      /\ \A k \in Ids : docs'[k] = IF k = m THEN d ELSE docs[k]
  BY <1>3, <1>4, OneChanged
<1>6. [at |-> "erased", m |-> m] \in JobsOf(Len(docs)) BY DEF JobsOf
<1>7. jobs' \subseteq JobsOf(Len(docs)) BY <1>6 DEF Typed
<1>8. events' \in 0 .. MaxEvents BY ChatAssumption DEF Event, Typed
<1>9. Typed' BY <1>5, <1>7, <1>8, JobTypes DEF Typed, link, marks
<1>10. Grown BY <1>3, <1>5 DEF Grown
<1> QED BY <1>3, <1>5, <1>9, <1>10

\* What is marked is of others, and read if the report says so.
LEMMA MarkTyped ==
  ASSUME Typed, NEW j \in jobs, Mark(j)
  PROVE  /\ Typed' /\ Grown /\ Ids' = Ids /\ j \in Seeing(Len(docs))
         /\ docs' = Marked(j)
         /\ [j EXCEPT !.at = "receipt", !.upTo = UpTo(j)]
              \in Seeing(Len(docs))
<1> USE DEF Mark
<1>1. j \in JobsOf(Len(docs)) /\ Len(docs) \in Nat BY Basics DEF Typed
<1>2. j \in Seeing(Len(docs)) BY <1>1, JobKinds
<1>3. /\ Marked(j) \in Seq(Doc) /\ Len(Marked(j)) = Len(docs)
      /\ \A m \in Ids : /\ Marked(j)[m].room = docs[m].room
                        /\ Marked(j)[m].from = docs[m].from
                        /\ Marked(j)[m].hidden = docs[m].hidden
  BY <1>2, AllMarked
<1>4. PICK n \in 0 .. Len(docs) : n = UpTo(j)
  BY <1>1, <1>2 DEF UpTo, Seeing
<1>5. [j EXCEPT !.at = "receipt", !.upTo = n] \in Seeing(Len(docs))
  BY <1>2 DEF Seeing
<1>6. jobs' \subseteq JobsOf(Len(docs)) BY <1>4, <1>5 DEF Typed, JobsOf
<1>7. Ids' = Ids BY <1>3 DEF Ids
<1>8. Typed' BY <1>3, <1>6, JobTypes DEF Typed, link, marks
<1>9. Grown BY <1>1, <1>3, <1>7 DEF Grown
<1> QED BY <1>2, <1>4, <1>5, <1>7, <1>8, <1>9

\* The other user's report is one more handler.
LEMMA PeerSeesTyped ==
  ASSUME Typed, NEW r \in Rooms, NEW m \in 0 .. Len(docs),
         NEW read \in BOOLEAN, PeerSees(r, m, read)
  PROVE  Typed'
<1>1. See(Peer, r, m, read) \in JobsOf(Len(docs))
  BY DEF JobsOf, Seeing, See, Users
<1>2. events' \in 0 .. MaxEvents BY ChatAssumption DEF PeerSees, Event, Typed
<1> QED BY <1>1, <1>2, JobTypes DEF PeerSees, Typed, link, marks

\* A history has the messages of the room, but those hidden from Me.
LEMMA Histories ==
  ASSUME Typed, NEW r
  PROVE  /\ History(r) \subseteq Items(Len(docs))
         /\ OfRoom(r, History(r))
         /\ {x.m : x \in History(r)} =
              {m \in Ids : docs[m].room = r /\ Me \notin docs[m].hidden}
<1>1. \A m \in Ids : Item(m, m) \in Items(Len(docs)) /\ Item(m, m).m = m
  BY Basics DEF Items, Item, Doc, Tick
<1> QED BY <1>1 DEF History, OfRoom

\* A history that was read is a list of messages.
LEMMA FindTyped ==
  ASSUME Typed, NEW j \in jobs, Find(j) PROVE Typed'
<1>1. j \in JobsOf(Len(docs)) BY DEF Typed
<1>2. j.room \in Rooms BY <1>1, JobKinds, Basics DEF Find
<1>3. PICK l \in SUBSET Items(Len(docs)) : l = History(j.room)
  BY Histories
<1>4. [at |-> "reply", room |-> j.room, list |-> l] \in JobsOf(Len(docs))
  BY <1>2 DEF JobsOf
<1> QED BY <1>3, <1>4, JobTypes DEF Find, Typed, link, marks

\* What is announced is a message.
LEMMA AnnounceTyped ==
  ASSUME Typed, NEW j \in jobs, Announce(j)
  PROVE  /\ Typed' /\ j.m \in Ids
         /\ j = [at |-> "announce", m |-> j.m]
<1> USE DEF Announce
<1>1. j \in JobsOf(Len(docs)) BY DEF Typed
<1>2. j.m \in Ids /\ j = [at |-> "announce", m |-> j.m]
  BY <1>1, JobKinds, Basics
<1>3. docs[j.m].room \in Rooms BY <1>2, Basics DEF Doc
<1>4. [m |-> j.m, count |-> 0, tick |-> 0, place |-> j.m]
        \in Items(Len(docs))
  BY <1>2 DEF Items, Ids
<1>5. \A e : e = (IF docs[j.m].room \in joined
                  THEN [k |-> "new", room |-> docs[j.m].room,
                        item |-> [m |-> j.m, count |-> 0, tick |-> 0,
                                  place |-> j.m]]
                  ELSE Ping(docs[j.m].room)) => e \in EventsOf(Len(docs))
  BY <1>3, <1>4 DEF EventsOf, Ping
<1>6. wire' \in Seq(EventsOf(Len(docs)))
  BY <1>5, Appended DEF Typed
<1> QED BY <1>2, <1>6, JobTypes DEF Typed

\* An event that says what has become of messages.
LEMMA CastTypes ==
  ASSUME Typed, NEW r, NEW ms \in SUBSET Ids, NEW e \in EventsOf(Len(docs)),
         NEW j \in jobs, Cast(r, ms, e), jobs' = jobs \ {j},
         UNCHANGED <<docs, joined, up, outbox, client, missed, overlap,
                     events>>
  PROVE  Typed'
<1>1. wire' \in Seq(EventsOf(Len(docs))) BY Appended DEF Typed, Cast
<1>2. upset' \subseteq Ids BY DEF Typed, Cast
<1> QED BY <1>1, <1>2, JobTypes DEF Typed

\* A report is about messages there are.
LEMMA CoveredIds == \A j : Covered(j) \in SUBSET Ids
BY DEF Covered

\* What a handler that tells its news says of the messages ms of a room.
Says(j, r, ms, e) ==
  /\ j.at \in {"tell", "erased", "receipt"}
  /\ j.at = "tell" => /\ e.k = "reaction" /\ e.m = j.m /\ e.n = j.n
                      /\ j.m \in Ids /\ ms = {j.m} /\ r = docs[j.m].room
  /\ j.at = "erased" => /\ e.k = "deleted" /\ e.m = j.m
                        /\ j.m \in Ids /\ ms = {j.m} /\ r = docs[j.m].room
  /\ j.at = "receipt" => /\ e.k = "receipt" /\ e.room = j.room
                         /\ e.upTo = j.upTo
                         /\ e.tick = (IF j.read THEN 2 ELSE 1)
                         /\ ms = Covered(j) /\ r = j.room

LEMMA Cases ==
  ASSUME Typed, NEW j \in jobs,
         TellReaction(j) \/ TellDeleted(j) \/ TellReceipt(j)
  PROVE  \E r \in Rooms, ms \in SUBSET Ids, e \in EventsOf(Len(docs)) :
           /\ Cast(r, ms, e) /\ jobs' = jobs \ {j}
           /\ UNCHANGED <<docs, joined, up, outbox, client, missed, overlap,
                          events>>
           /\ Says(j, r, ms, e)
<1>1. j \in JobsOf(Len(docs)) /\ Len(docs) \in Nat /\ Ids = 1 .. Len(docs)
  BY Basics DEF Typed
<1>2. CASE TellReaction(j)
  <2>1. j.m \in Ids /\ j.n \in Nat BY <1>1, <1>2, JobKinds DEF TellReaction
  <2>2. docs[j.m].room \in Rooms BY <2>1, Basics DEF Doc
  <2>3. [k |-> "reaction", m |-> j.m, n |-> j.n] \in EventsOf(Len(docs))
    BY <1>1, <2>1 DEF EventsOf
  <2>4. {j.m} \in SUBSET Ids BY <2>1
  <2> DEFINE e == [k |-> "reaction", m |-> j.m, n |-> j.n]
  <2>5. Says(j, docs[j.m].room, {j.m}, e)
    BY <1>2, <2>1 DEF TellReaction, Says
  <2>6. Cast(docs[j.m].room, {j.m}, e) /\ jobs' = jobs \ {j}
        /\ UNCHANGED <<docs, joined, up, outbox, client, missed, overlap,
                       events>>
    BY <1>2 DEF TellReaction
  <2> HIDE DEF e
  <2> QED BY <2>2, <2>3, <2>4, <2>5, <2>6 DEF e
<1>3. CASE TellDeleted(j)
  <2>1. j.m \in Ids BY <1>1, <1>3, JobKinds DEF TellDeleted
  <2>2. docs[j.m].room \in Rooms BY <2>1, Basics DEF Doc
  <2>3. [k |-> "deleted", m |-> j.m] \in EventsOf(Len(docs))
    BY <1>1, <2>1 DEF EventsOf
  <2>4. {j.m} \in SUBSET Ids BY <2>1
  <2> DEFINE e == [k |-> "deleted", m |-> j.m]
  <2>5. Says(j, docs[j.m].room, {j.m}, e)
    BY <1>3, <2>1 DEF TellDeleted, Says
  <2>6. Cast(docs[j.m].room, {j.m}, e) /\ jobs' = jobs \ {j}
        /\ UNCHANGED <<docs, joined, up, outbox, client, missed, overlap,
                       events>>
    BY <1>3 DEF TellDeleted
  <2> HIDE DEF e
  <2> QED BY <2>2, <2>3, <2>4, <2>5, <2>6 DEF e
<1>4. CASE TellReceipt(j)
  <2>1. j \in Seeing(Len(docs)) BY <1>1, <1>4, JobKinds DEF TellReceipt
  <2>2. j.room \in Rooms /\ j.upTo \in 0 .. Len(docs)
    BY <2>1 DEF Seeing
  <2> DEFINE e == [k |-> "receipt", room |-> j.room, upTo |-> j.upTo,
                   tick |-> IF j.read THEN 2 ELSE 1]
  <2>3. e \in EventsOf(Len(docs)) BY <2>2 DEF EventsOf
  <2>4. Covered(j) \in SUBSET Ids BY CoveredIds
  <2>5. Says(j, j.room, Covered(j), e) BY <1>4 DEF TellReceipt, Says
  <2>6. Cast(j.room, Covered(j), e) /\ jobs' = jobs \ {j}
        /\ UNCHANGED <<docs, joined, up, outbox, client, missed, overlap,
                       events>>
    BY <1>4 DEF TellReceipt
  <2> HIDE DEF e
  <2> QED BY <2>2, <2>3, <2>4, <2>5, <2>6
<1> QED BY <1>2, <1>3, <1>4

\* A history that is sent is an event.
LEMMA ReplyTyped ==
  ASSUME Typed, NEW j \in jobs, Reply(j)
  PROVE  /\ Typed' /\ j.room \in Rooms
         /\ [k |-> "joined", room |-> j.room, list |-> j.list]
              \in EventsOf(Len(docs))
<1>1. j \in JobsOf(Len(docs)) BY DEF Typed
<1>2. j.room \in Rooms /\ j.list \subseteq Items(Len(docs))
  BY <1>1, JobKinds, Basics DEF Reply
<1>3. [k |-> "joined", room |-> j.room, list |-> j.list]
        \in EventsOf(Len(docs))
  BY <1>2 DEF EventsOf, Joineds
<1>4. wire' \in Seq(EventsOf(Len(docs)))
  BY <1>3, Appended DEF Reply, Typed
<1> QED BY <1>2, <1>3, <1>4, JobTypes DEF Reply, Typed, marks

\* One chat changes.
LEMMA Swapped ==
  ASSUME Typed, NEW i \in DOMAIN chats, NEW c \in ChatsOf(Len(docs)),
         Chats([chats EXCEPT ![i] = c])
  PROVE  /\ chats' \in Seq(ChatsOf(Len(docs))) /\ Len(chats') = Len(chats)
         /\ DOMAIN chats' = DOMAIN chats
         /\ chats'[i] = c /\ \A k \in DOMAIN chats \ {i} : chats'[k] = chats[k]
         /\ Mounted /\ Mounted' /\ Page' \in ChatsOf(Len(docs))
         /\ i = Len(chats) => Page' = c /\ Page = chats[i]
         /\ i # Len(chats) => Page' = Page
         /\ onScreen \subseteq onScreen'
         /\ onScreen' = IF Page'.front THEN onScreen \cup Shown(Page')
                        ELSE onScreen
<1> DEFINE f == [chats EXCEPT ![i] = c]
<1>1. chats \in Seq(ChatsOf(Len(docs))) BY DEF Typed
<1>2. /\ f \in Seq(ChatsOf(Len(docs))) /\ Len(f) = Len(chats)
      /\ DOMAIN f = DOMAIN chats /\ f[i] = c
      /\ \A k \in DOMAIN chats \ {i} : f[k] = chats[k]
      /\ chats # <<>> /\ f # <<>> /\ Len(chats) >= 1
      /\ DOMAIN chats = 1 .. Len(chats)
  BY <1>1, Replaced
<1>3. chats' = f /\ onScreen' = IF f # <<>> /\ Last(f).front
                 THEN onScreen \cup Shown(Last(f)) ELSE onScreen
  BY DEF Chats
<1> HIDE DEF f
<1>4. Page' = Last(f) /\ Last(f) = f[Len(chats)] /\ Page = chats[Len(chats)]
  BY <1>2, <1>3 DEF Page, Last
<1>5. Len(chats) \in DOMAIN chats BY <1>1, <1>2
<1>6. Page' \in ChatsOf(Len(docs)) BY <1>1, <1>2, <1>4, <1>5
<1> QED BY <1>2, <1>3, <1>4, <1>5, <1>6 DEF Mounted

\* What the socket has to emit.
LEMMA Emitting ==
  ASSUME Typed, NEW js \in SUBSET Seeing(Len(docs)),
         \A s \in js : s.at = "see", Emit(js)
  PROVE  /\ jobs' \subseteq JobsOf(Len(docs))
         /\ outbox' \subseteq Seeing(Len(docs))
         /\ \A s \in outbox' : s.at = "see"
         /\ jobs \subseteq jobs' /\ jobs' \subseteq jobs \cup js
         /\ outbox \subseteq outbox' /\ outbox' \subseteq outbox \cup js
BY DEF Emit, Typed, JobsOf

\* A chat's reports are about messages there are.
LEMMA Reports ==
  ASSUME Typed, NEW c \in ChatsOf(Len(docs))
  PROVE  /\ MarkSeen(c) \in SUBSET Seeing(Len(docs))
         /\ \A s \in MarkSeen(c) : s.at = "see"
         /\ unwatched \subseteq Ahead(c) /\ Ahead(c) \subseteq Ids
BY Reported DEF Ahead, Typed

\* Opening a chat closes all others and mounts it, with nothing in it.
LEMMA OpenTyped ==
  ASSUME Typed, NEW r \in Rooms, Open(r)
  PROVE  /\ Typed' /\ Len(chats') = Len(chats) + 1
         /\ Mounted' /\ Page'.room = r /\ Page'.front
         /\ ~ Page'.ready /\ ~ Page'.wired /\ ~ Page'.closed /\ ~ Page'.loaded
         /\ Page'.active = NoRoom /\ Page'.seen = {} /\ Page'.shown = {}
         /\ Page'.lists = {} /\ Page'.fresh = {}
         /\ \A i \in DOMAIN chats : chats'[i].closed /\ ~ chats'[i].wired
         /\ onScreen' = onScreen
<1> USE DEF Open
<1> DEFINE n == Len(docs)
           c == [room |-> r, ready |-> FALSE, wired |-> FALSE,
                 closed |-> FALSE, rejoins |-> FALSE, front |-> TRUE,
                 loaded |-> FALSE, active |-> NoRoom, seen |-> {},
                 shown |-> {}, next |-> 1, lists |-> {}, fresh |-> {}]
<1>1. c \in ChatsOf(n) BY DEF ChatsOf
<1>2. /\ c.room = r /\ c.front
      /\ ~ c.ready /\ ~ c.wired /\ ~ c.closed /\ ~ c.loaded
      /\ c.active = NoRoom /\ c.seen = {} /\ c.shown = {}
      /\ c.lists = {} /\ c.fresh = {}
  OBVIOUS
<1>3. Chats(Append(Disposed, c)) OBVIOUS
<1> HIDE DEF c
<1>4. ASSUME NEW i \in DOMAIN chats
      PROVE  \E d \in ChatsOf(n) : Disposed[i] = d /\ d.closed /\ ~ d.wired
  <2>1. chats[i] \in ChatsOf(n) BY Basics
  <2>2. PICK b \in BOOLEAN : b = (chats[i].rejoins /\ i # Len(chats))
    BY <2>1 DEF ChatsOf
  <2>3. PICK seen \in SUBSET (1 .. n) :
           seen = IF i = Len(chats) THEN {} ELSE chats[i].seen
    BY <2>1 DEF ChatsOf
  <2>4. Disposed[i] = [chats[i] EXCEPT !.wired = FALSE, !.closed = TRUE,
                                       !.rejoins = b, !.seen = seen]
    BY <2>2, <2>3 DEF Disposed
  <2> DEFINE d == [chats[i] EXCEPT !.wired = FALSE, !.closed = TRUE,
                                   !.rejoins = b, !.seen = seen]
  <2>5. d \in ChatsOf(n) /\ d.closed /\ ~ d.wired BY <2>1 DEF ChatsOf
  <2> HIDE DEF d
  <2> QED BY <2>4, <2>5 DEF d
<1>5. Disposed \in Seq(ChatsOf(n)) /\ Len(Disposed) = Len(chats)
  <2>1. DOMAIN chats = 1 .. Len(chats) /\ Len(chats) \in Nat BY Basics
  <2>2. Disposed = [i \in 1 .. Len(chats) |-> Disposed[i]]
    BY <2>1 DEF Disposed
  <2>3. Disposed \in [1 .. Len(chats) -> ChatsOf(n)] BY <1>4, <2>1, <2>2
  <2> QED BY <2>1, <2>3, Mapped
<1>6. /\ chats' \in Seq(ChatsOf(n)) /\ Len(chats') = Len(chats) + 1
      /\ DOMAIN chats' = 1 .. Len(chats) + 1 /\ chats' # <<>>
      /\ DOMAIN chats = 1 .. Len(chats)
      /\ \A i \in DOMAIN chats : chats'[i] = Disposed[i]
      /\ chats'[Len(chats) + 1] = c
  BY <1>1, <1>3, <1>5, Appended, Basics DEF Chats
<1>7. Page' = c /\ Last(Append(Disposed, c)) = c
  BY <1>3, <1>6 DEF Page, Last, Chats
<1>8. Shown(c) = {} BY <1>2 DEF Shown
<1>9. onScreen' = onScreen BY <1>3, <1>7, <1>8 DEF Chats
<1>10. events' \in 0 .. MaxEvents BY ChatAssumption DEF Event, Typed
<1>11. Typed'
  BY <1>6, <1>9, <1>10 DEF Typed, server, link, marks, Ids
<1> QED BY <1>2, <1>4, <1>6, <1>7, <1>9, <1>11 DEF Mounted

\* A chat whose key is ready listens.
LEMMA KeyReadyTyped ==
  ASSUME Typed, NEW i \in DOMAIN chats, KeyReady(i)
  PROVE  /\ Typed'
         /\ \E c \in ChatsOf(Len(docs)) :
              /\ Chats([chats EXCEPT ![i] = c])
              /\ c = [chats[i] EXCEPT !.ready = TRUE, !.wired = TRUE,
                                      !.rejoins = ~ up]
<1> USE DEF KeyReady
<1>1. chats[i] \in ChatsOf(Len(docs)) BY Basics
<1>2. PICK b \in BOOLEAN : b = ~ up BY DEF Typed
<1>3. PICK c \in ChatsOf(Len(docs)) :
        c = [chats[i] EXCEPT !.ready = TRUE, !.wired = TRUE, !.rejoins = b]
  BY <1>1 DEF ChatsOf
<1>4. [chats EXCEPT ![i].ready = TRUE, ![i].wired = TRUE, ![i].rejoins = ~ up]
        = [chats EXCEPT ![i] = c]
  BY <1>2, <1>3
<1>5. Chats([chats EXCEPT ![i] = c]) BY <1>4
<1>6. /\ chats' \in Seq(ChatsOf(Len(docs))) /\ Page' \in ChatsOf(Len(docs))
      /\ onScreen' = IF Page'.front THEN onScreen \cup Shown(Page')
                     ELSE onScreen
  BY <1>5, Swapped
<1>7. Shown(Page') \subseteq Ids BY <1>6, Basics DEF ChatsOf, Shown, Items
<1>8. chats[i].room \in Rooms BY <1>1 DEF ChatsOf
<1>9. joined' \subseteq Rooms /\ jobs' \subseteq JobsOf(Len(docs))
  BY <1>8 DEF Join, JobsOf, Typed
<1>10. Typed' BY <1>6, <1>7, <1>9 DEF Typed, link, marks, Ids
<1> QED BY <1>2, <1>3, <1>5, <1>10

\* A step of one chat, which shows something and reports it.
Showing(i, c, js) ==
  /\ Chats([chats EXCEPT ![i] = c]) /\ Emit(js) /\ js \subseteq MarkSeen(c)
  /\ js = {} \/ unwatched' = Ahead(c)
  /\ unwatched \subseteq unwatched' /\ unwatched' \subseteq Ids
  /\ c.room = chats[i].room /\ c.ready = chats[i].ready
  /\ c.wired = chats[i].wired /\ c.closed = chats[i].closed
  /\ c.active = chats[i].active /\ c.seen = chats[i].seen
  /\ UNCHANGED <<docs, joined, wire, up, crossed, marks>>
  /\ events' \in 0..MaxEvents

\* Such a step keeps the types.
LEMMA ShowingTyped ==
  ASSUME Typed, NEW i \in DOMAIN chats, NEW c \in ChatsOf(Len(docs)), NEW js,
         Showing(i, c, js)
  PROVE  Typed'
<1> USE DEF Showing
<1>1. /\ chats' \in Seq(ChatsOf(Len(docs))) /\ Page' \in ChatsOf(Len(docs))
      /\ onScreen' = IF Page'.front THEN onScreen \cup Shown(Page')
                     ELSE onScreen
  BY Swapped
<1>2. Shown(Page') \subseteq Ids BY <1>1, Basics DEF ChatsOf, Shown, Items
<1>3. js \in SUBSET Seeing(Len(docs)) /\ \A s \in js : s.at = "see"
  BY Reports
<1>4. /\ jobs' \subseteq JobsOf(Len(docs))
      /\ outbox' \subseteq Seeing(Len(docs))
      /\ \A s \in outbox' : s.at = "see"
  BY <1>3, Emitting
<1> QED BY <1>1, <1>2, <1>4 DEF Typed, marks, Ids

\* Showing a history is such a step,
LEMMA ShowHistoryParts ==
  ASSUME Typed, NEW i \in DOMAIN chats, NEW h \in chats[i].lists,
         ShowHistory(i, h)
  PROVE  \E c \in ChatsOf(Len(docs)) : \E js :
           /\ Showing(i, c, js)
           /\ c.front = chats[i].front /\ c.fresh = chats[i].fresh
           /\ c.lists = chats[i].lists \ {h} /\ c.shown = h.list /\ c.loaded
<1>1. chats[i] \in ChatsOf(Len(docs)) /\ Len(docs) \in Nat BY Basics
<1>2. h \in Joineds(Len(docs)) /\ h.list \subseteq Items(Len(docs))
  BY <1>1 DEF ChatsOf, Joineds
<1>3. PICK l \in SUBSET Joineds(Len(docs)) : l = chats[i].lists \ {h}
  BY <1>1 DEF ChatsOf
<1>4. PICK n \in Nat : n = Len(docs) + 1 BY <1>1
<1> DEFINE c == [chats[i] EXCEPT !.lists = l, !.shown = h.list,
                                 !.next = n, !.loaded = TRUE]
<1>5. /\ c \in ChatsOf(Len(docs)) /\ c.lists = l /\ c.shown = h.list
      /\ c.loaded /\ c.front = chats[i].front /\ c.fresh = chats[i].fresh
      /\ c.room = chats[i].room /\ c.ready = chats[i].ready
      /\ c.wired = chats[i].wired /\ c.closed = chats[i].closed
      /\ c.active = chats[i].active /\ c.seen = chats[i].seen
  BY <1>1, <1>2 DEF ChatsOf
<1>6. /\ Chats([chats EXCEPT ![i] = c]) /\ Emit(MarkSeen(c))
      /\ unwatched' = Ahead(c)
      /\ UNCHANGED <<docs, joined, wire, up, crossed, marks, events>>
  BY <1>3, <1>4 DEF ShowHistory
<1> HIDE DEF c
<1>7. unwatched \subseteq Ahead(c) /\ Ahead(c) \subseteq Ids
  BY <1>5, Reports
<1>8. Showing(i, c, MarkSeen(c)) BY <1>5, <1>6, <1>7 DEF Showing, Typed
<1> QED BY <1>3, <1>5, <1>8

\* and so is showing a new message,
LEMMA ShowNewParts ==
  ASSUME Typed, NEW i \in DOMAIN chats, NEW x \in chats[i].fresh,
         ShowNew(i, x)
  PROVE  \E c \in ChatsOf(Len(docs)) : \E js :
           /\ Showing(i, c, js) /\ x.m \in Ids
           /\ c.front = chats[i].front /\ c.fresh = chats[i].fresh \ {x}
           /\ c.lists = chats[i].lists /\ c.loaded = chats[i].loaded
           /\ Shown(c) = Shown(chats[i]) \cup {x.m}
           /\ \E y : /\ c.shown = chats[i].shown \cup {y}
                     /\ y.m = x.m /\ y.count = x.count /\ y.tick = x.tick
<1>1. chats[i] \in ChatsOf(Len(docs)) /\ Len(docs) \in Nat
      /\ Ids = 1 .. Len(docs)
  BY Basics
<1>2. x \in Items(Len(docs)) BY <1>1 DEF ChatsOf
<1>3. PICK f \in SUBSET Items(Len(docs)) : f = chats[i].fresh \ {x}
  BY <1>1 DEF ChatsOf
<1>4. PICK y \in Items(Len(docs)) :
        /\ y = [x EXCEPT !.place = chats[i].next] /\ y.m = x.m
        /\ y.count = x.count /\ y.tick = x.tick
  <2>1. PICK k \in Nat : k = chats[i].next BY <1>1 DEF ChatsOf
  <2> DEFINE y == [x EXCEPT !.place = k]
  <2>2. y \in Items(Len(docs)) /\ y.m = x.m /\ y.count = x.count
        /\ y.tick = x.tick
    BY <1>2 DEF Items
  <2> QED BY <2>1, <2>2
<1>5. PICK s \in SUBSET Items(Len(docs)) : s = chats[i].shown \cup {y}
  BY <1>1 DEF ChatsOf
<1>6. PICK n \in Nat : n = chats[i].next + 1 BY <1>1 DEF ChatsOf
<1> DEFINE c == [chats[i] EXCEPT !.fresh = f, !.next = n, !.shown = s]
<1>7. /\ c \in ChatsOf(Len(docs)) /\ c.fresh = f /\ c.shown = s
      /\ c.loaded = chats[i].loaded /\ c.front = chats[i].front
      /\ c.lists = chats[i].lists
      /\ c.room = chats[i].room /\ c.ready = chats[i].ready
      /\ c.wired = chats[i].wired /\ c.closed = chats[i].closed
      /\ c.active = chats[i].active /\ c.seen = chats[i].seen
  BY <1>1 DEF ChatsOf
<1>8. c = [chats[i] EXCEPT !.fresh = @ \ {x}, !.next = @ + 1,
                           !.shown = @ \cup {[x EXCEPT !.place =
                                                chats[i].next]}]
  BY <1>3, <1>4, <1>5, <1>6
<1>9. /\ Chats([chats EXCEPT ![i] = c])
      /\ IF docs[x.m].from = Me
         THEN UNCHANGED <<jobs, outbox, unwatched>>
         ELSE Emit(MarkSeen(c)) /\ unwatched' = Ahead(c)
      /\ UNCHANGED <<docs, joined, wire, up, crossed, marks, events>>
  BY <1>8 DEF ShowNew
<1> HIDE DEF c
<1>10. unwatched \subseteq Ahead(c) /\ Ahead(c) \subseteq Ids
       /\ unwatched \subseteq Ids
  BY <1>7, Reports DEF Typed
<1>11. \/ Showing(i, c, MarkSeen(c)) \/ Showing(i, c, {})
  <2>1. CASE docs[x.m].from = Me
    BY <1>7, <1>9, <1>10, <2>1 DEF Showing, Typed, Emit
  <2>2. CASE docs[x.m].from # Me
    BY <1>7, <1>9, <1>10, <2>2 DEF Showing, Typed
  <2> QED BY <2>1, <2>2
<1>12. x.m \in Ids BY <1>1, <1>2 DEF Items
<1>13. Shown(c) = Shown(chats[i]) \cup {x.m}
  <2>1. \A z : z \in s <=> z \in chats[i].shown \/ z = y BY <1>5
  <2> QED BY <1>4, <1>7, <2>1 DEF Shown
<1> QED BY <1>3, <1>4, <1>5, <1>7, <1>11, <1>12, <1>13

\* and hiding the page or seeing it again.
LEMMA SetForegroundParts ==
  ASSUME Typed, SetForeground
  PROVE  \E c \in ChatsOf(Len(docs)) : \E js :
           /\ Showing(Len(chats), c, js) /\ Mounted
           /\ c.front = ~ Page.front /\ c.fresh = Page.fresh
           /\ c.lists = Page.lists /\ c.loaded = Page.loaded
           /\ c.shown = Page.shown
           /\ ~ c.front => \A m \in Ids : OnItsWay(m) => m \in unwatched'
<1> USE DEF SetForeground
<1>1. Mounted /\ Page \in ChatsOf(Len(docs)) /\ Page = chats[Len(chats)]
  BY Basics DEF Mounted, Page, Last
<1>2. PICK b \in BOOLEAN : b = ~ Page.front BY <1>1 DEF ChatsOf
<1> DEFINE c == [Page EXCEPT !.front = b]
<1>3. /\ c \in ChatsOf(Len(docs)) /\ c.fresh = Page.fresh
      /\ c.shown = Page.shown
      /\ c.loaded = Page.loaded /\ c.front = b /\ c.lists = Page.lists
      /\ c.room = Page.room /\ c.ready = Page.ready
      /\ c.wired = Page.wired /\ c.closed = Page.closed
      /\ c.active = Page.active /\ c.seen = Page.seen
  BY <1>1 DEF ChatsOf
<1>4. c = [Last(chats) EXCEPT !.front = ~ @] BY <1>2 DEF Page
<1>5. /\ Chats([chats EXCEPT ![Len(chats)] = c])
      /\ Emit(IF c.front THEN MarkSeen(c) ELSE {})
      /\ unwatched' = IF c.front THEN Ahead(c)
                      ELSE unwatched \cup {m \in Ids : OnItsWay(m)}
      /\ UNCHANGED <<docs, joined, wire, up, crossed, marks>>
  BY <1>4
<1> HIDE DEF c
<1>6. unwatched \subseteq Ahead(c) /\ Ahead(c) \subseteq Ids
      /\ unwatched \subseteq Ids
  BY <1>3, Reports DEF Typed
<1>7. events' \in 0 .. MaxEvents BY ChatAssumption DEF Event, Typed
<1>8. \/ Showing(Len(chats), c, MarkSeen(c)) \/ Showing(Len(chats), c, {})
  <2>1. CASE c.front
    BY <1>1, <1>3, <1>5, <1>6, <1>7, <2>1 DEF Showing
  <2>2. CASE ~ c.front
    BY <1>1, <1>3, <1>5, <1>6, <1>7, <2>2 DEF Showing
  <2> QED BY <2>1, <2>2
<1>9. ~ c.front => \A m \in Ids : OnItsWay(m) => m \in unwatched'
  BY <1>5
<1> QED BY <1>1, <1>2, <1>3, <1>8, <1>9

\* An event meets messages there are.
LEMMA MeetsIds ==
  ASSUME Typed, NEW c \in ChatsOf(Len(docs)), NEW e \in EventsOf(Len(docs))
  PROVE  Meets(c, e) \subseteq Ids
<1>1. Len(docs) \in Nat /\ Ids = 1 .. Len(docs) BY Basics
<1>2. /\ c.fresh \subseteq Items(Len(docs))
      /\ c.lists \subseteq Joineds(Len(docs))
  BY DEF ChatsOf
<1>3. Fresh(c) \subseteq Ids BY <1>1, <1>2 DEF Fresh, Items
<1>4. \A h \in Joineds(Len(docs)) : ListOf(h) \subseteq Ids
  BY <1>1 DEF Joineds, ListOf, Items
<1>5. Loading(c) \subseteq Ids BY <1>2, <1>4 DEF Loading
<1>6. CASE e.k = "joined"
  <2>1. ListOf(e) \subseteq Ids BY <1>1, <1>4, <1>6, EventKinds
  <2> QED BY <1>3, <1>5, <1>6, <2>1 DEF Meets
<1>7. CASE e.k # "joined"
  <2>1. CASE e.k = "new"
    <3>1. e.item.m \in Ids BY <1>1, <2>1, EventKinds DEF Items
    <3> QED BY <2>1, <3>1 DEF Meets
  <2>2. CASE e.k \in {"deleted", "reaction"}
    BY <1>1, <2>2, EventKinds DEF Meets
  <2>3. CASE e.k = "receipt"
    <3>1. 1 .. e.upTo \subseteq Ids BY <1>1, <2>3, EventKinds
    <3> QED BY <2>3, <3>1 DEF Meets
  <2>4. CASE e.k = "ping" BY <2>4 DEF Meets
  <2> QED BY <1>1, <1>7, <2>1, <2>2, <2>3, <2>4, EventKinds
<1> QED BY <1>6, <1>7

\* The socket takes its first event and keeps the others.
LEMMA ReceiveParts ==
  ASSUME Typed, Receive
  PROVE  \E e \in EventsOf(Len(docs)) :
           /\ e = Head(wire) /\ 1 \in DOMAIN wire /\ e = wire[1]
           /\ wire' \in Seq(EventsOf(Len(docs)))
           /\ \A i \in DOMAIN wire' : /\ i + 1 \in DOMAIN wire
                                      /\ wire'[i] = wire[i + 1]
           /\ \A i \in DOMAIN wire \ {1} : /\ i - 1 \in DOMAIN wire'
                                           /\ wire'[i - 1] = wire[i]
           /\ DOMAIN wire' \subseteq Nat /\ DOMAIN wire \subseteq Nat
<1>1. wire \in Seq(EventsOf(Len(docs))) /\ wire # <<>>
      /\ wire' = Tail(wire)
  BY DEF Typed, Receive
<1>2. /\ Tail(wire) \in Seq(EventsOf(Len(docs))) /\ Len(wire) >= 1
      /\ Head(wire) = wire[1] /\ DOMAIN wire = 1 .. Len(wire)
      /\ DOMAIN Tail(wire) = 1 .. Len(wire) - 1
      /\ \A i \in 1 .. Len(wire) - 1 : Tail(wire)[i] = wire[i + 1]
      /\ Head(wire) \in EventsOf(Len(docs))
  BY <1>1, HeadTaken
<1>3. Len(wire) \in Nat BY <1>1
<1> QED BY <1>1, <1>2, <1>3

\* An event taken marks messages as delivered, at most.
LEMMA ReceiveDocs ==
  ASSUME Typed, Receive
  PROVE  /\ docs' \in Seq(Doc) /\ Len(docs') = Len(docs) /\ Ids' = Ids
         /\ Grown
         /\ \A m \in Ids : /\ docs'[m].count = docs[m].count
                           /\ docs'[m].reacted = docs[m].reacted
                           /\ docs'[m].hidden = docs[m].hidden
                           /\ docs'[m].read = docs[m].read
                           /\ docs'[m].delivered = docs[m].delivered
                                \cup (IF docs[m].from # Me THEN {Me} ELSE {})
                              \/ docs'[m].delivered = docs[m].delivered
<1>1. PICK e \in EventsOf(Len(docs)) : e = Head(wire) BY ReceiveParts
<1>2. docs' = IF e.k \in {"new", "ping"}
              THEN Marked(See(Me, e.room, 0, FALSE)) ELSE docs
  BY <1>1 DEF Receive
<1>3. CASE e.k \in {"new", "ping"}
  <2>1. e.room \in Rooms /\ Len(docs) \in Nat BY <1>3, EventKinds, Basics
  <2> DEFINE j == See(Me, e.room, 0, FALSE)
  <2>2. j \in Seeing(Len(docs)) /\ j.by = Me /\ ~ j.read
    BY <2>1 DEF See, Seeing, Users
  <2>3. docs' = Marked(j) BY <1>2, <1>3
  <2>4. \A m \in Covered(j) : docs[m].from # Me BY <2>2 DEF Covered
  <2> HIDE DEF j
  <2>5. docs' \in Seq(Doc) /\ Len(docs') = Len(docs) /\ Ids' = Ids
    BY <2>2, <2>3, AllMarked DEF Ids
  <2>6. \A m \in Ids : /\ docs'[m].room = docs[m].room
                       /\ docs'[m].from = docs[m].from
                       /\ docs'[m].hidden = docs[m].hidden
                       /\ docs'[m].count = docs[m].count
                       /\ docs'[m].reacted = docs[m].reacted
                       /\ docs'[m].read = docs[m].read
    <3>1. \A m \in Ids : Marked(j)[m].read = docs[m].read \cup {}
      BY <2>2, AllMarked
    <3> QED BY <2>2, <2>3, <3>1, AllMarked
  <2>7. ASSUME NEW m \in Ids
        PROVE  \/ docs'[m].delivered = docs[m].delivered
                    \cup (IF docs[m].from # Me THEN {Me} ELSE {})
               \/ docs'[m].delivered = docs[m].delivered
    <3>1. docs'[m].delivered =
            docs[m].delivered \cup (IF m \in Covered(j) THEN {Me} ELSE {})
      BY <2>2, <2>3, AllMarked
    <3> QED BY <2>4, <3>1
  <2> QED BY <2>1, <2>5, <2>6, <2>7 DEF Grown
<1>4. CASE e.k \notin {"new", "ping"}
  BY <1>2, <1>4, Basics DEF Grown, Typed, Ids
<1> QED BY <1>3, <1>4

\* Every chat takes the event.
LEMMA ReceiveChats ==
  ASSUME Typed, Receive
  PROVE  /\ chats' \in Seq(ChatsOf(Len(docs))) /\ Len(chats') = Len(chats)
         /\ DOMAIN chats' = DOMAIN chats /\ Mounted' = Mounted
         /\ \A i \in DOMAIN chats : chats'[i] = Take(chats[i], Head(wire))
         /\ Mounted => /\ Page' = Take(Page, Head(wire))
                       /\ Page' \in ChatsOf(Len(docs))
         /\ onScreen \subseteq onScreen'
         /\ Mounted /\ Page'.front => Shown(Page') \subseteq onScreen'
         /\ onScreen' \subseteq Ids
<1>1. PICK e \in EventsOf(Len(docs)) : e = Head(wire) BY ReceiveParts
<1> DEFINE f == [i \in DOMAIN chats |-> Take(chats[i], e)]
<1>2. Chats(f) BY <1>1 DEF Receive
<1>3. /\ Len(docs) \in Nat /\ DOMAIN chats = 1 .. Len(chats)
      /\ Len(chats) \in Nat
      /\ \A i \in DOMAIN chats : chats[i] \in ChatsOf(Len(docs))
      /\ Mounted => Len(chats) \in DOMAIN chats
  BY Basics
<1>4. \A i \in DOMAIN chats : Take(chats[i], e) \in ChatsOf(Len(docs))
  <2> SUFFICES ASSUME NEW i \in DOMAIN chats
               PROVE  Take(chats[i], e) \in ChatsOf(Len(docs))
    OBVIOUS
  <2>1. PICK c \in ChatsOf(Len(docs)) : c = chats[i] BY <1>3
  <2>2. PICK d : d = Take(c, e) OBVIOUS
  <2>3. d \in ChatsOf(Len(docs)) BY <1>3, <2>2, Taking
  <2> QED BY <2>1, <2>2, <2>3
<1>5. f \in [1 .. Len(chats) -> ChatsOf(Len(docs))] BY <1>3, <1>4
<1>6. f \in Seq(ChatsOf(Len(docs))) /\ Len(f) = Len(chats)
      /\ DOMAIN f = DOMAIN chats
      /\ \A i \in DOMAIN chats : f[i] = Take(chats[i], e)
  BY <1>3, <1>5, Mapped
<1>7. chats # <<>> <=> Len(chats) # 0 BY DEF Typed
<1>8. f # <<>> <=> Len(f) # 0 BY <1>6
<1> HIDE DEF f
<1>9. /\ chats' = f /\ onScreen' = IF f # <<>> /\ Last(f).front
                                   THEN onScreen \cup Shown(Last(f))
                                   ELSE onScreen
  BY <1>2 DEF Chats
<1>10. Mounted' = Mounted
  BY <1>6, <1>7, <1>8, <1>9 DEF Mounted
<1>11. Mounted => /\ Page' = Last(f) /\ Last(f) = Take(Page, e)
                  /\ Page' \in ChatsOf(Len(docs))
  <2> SUFFICES ASSUME Mounted
               PROVE  /\ Page' = Last(f) /\ Last(f) = Take(Page, e)
                      /\ Page' \in ChatsOf(Len(docs))
    OBVIOUS
  <2>1. Page' = Last(f) BY <1>9 DEF Page
  <2>2. Len(chats) \in DOMAIN chats /\ Page = chats[Len(chats)]
    BY <1>3 DEF Page, Last
  <2>3. Last(f) = f[Len(chats)] BY <1>6 DEF Last
  <2> QED BY <1>4, <1>6, <2>1, <2>2, <2>3
<1>12. Mounted => Shown(Page') \subseteq Ids
  BY <1>11, Basics DEF ChatsOf, Shown, Items
<1>13. Mounted <=> f # <<>> BY <1>6, <1>7, <1>8 DEF Mounted
<1>14. onScreen \subseteq Ids BY DEF Typed
<1>15. onScreen' = IF Mounted /\ Page'.front
                   THEN onScreen \cup Shown(Page') ELSE onScreen
  BY <1>9, <1>11, <1>13
<1> QED BY <1>1, <1>6, <1>9, <1>10, <1>11, <1>12, <1>14, <1>15

\* So an event taken keeps the types.
LEMMA ReceiveTyped == ASSUME Typed, Receive PROVE Typed'
<1>1. PICK e \in EventsOf(Len(docs)) :
        e = Head(wire) /\ wire' \in Seq(EventsOf(Len(docs)))
  BY ReceiveParts
<1>2. Mounted => Meets(Page, e) \subseteq Ids BY Basics, MeetsIds
<1>3. upset' \subseteq Ids
  BY <1>1, <1>2 DEF Receive, Typed, Mounted, Page
<1>4. e.k = "new" => e.item.m \in Ids
  BY Basics, EventKinds DEF Items
<1>5. missed' \subseteq Ids BY <1>1, <1>4 DEF Receive, Typed
<1>6. crossed' \in BOOLEAN
  <2>1. PICK b \in BOOLEAN :
          b = (/\ chats # <<>> /\ Page.wired
               /\ e.k \in {"joined", "new"}
               /\ e.room # Page.room
               /\ e.k = "new" => Page.active # Page.room)
    OBVIOUS
  <2>2. crossed' = (crossed \/ b) BY <1>1, <2>1 DEF Receive, Page
  <2> QED BY <2>2 DEF Typed
<1> QED BY <1>1, <1>3, <1>5, <1>6, ReceiveDocs, ReceiveChats
        DEF Receive, Typed

\* The same of a connection that is lost,
LEMMA LoseTyped == ASSUME Typed, Lose PROVE Typed'
<1>1. jobs' \subseteq jobs BY DEF Lose
<1>2. missed' \subseteq Ids BY DEF Lose, Typed
<1>3. events' \in 0 .. MaxEvents BY ChatAssumption DEF Lose, Event, Typed
<1>4. wire' \in Seq(EventsOf(Len(docs))) BY DEF Lose
<1> QED BY <1>1, <1>2, <1>3, <1>4 DEF Lose, Typed, client, Ids

\* and of one that is made again.
LEMMA ReconnectTyped == ASSUME Typed, Reconnect PROVE Typed'
<1>1. \A i \in DOMAIN chats : chats[i].room \in Rooms
  BY Basics DEF ChatsOf
<1>2. joined' \subseteq Rooms BY <1>1 DEF Reconnect
<1>3. jobs' \subseteq JobsOf(Len(docs))
  BY <1>1 DEF Reconnect, Typed, JobsOf
<1> QED BY <1>2, <1>3 DEF Reconnect, Typed, client, marks, Ids

\* Every step keeps the types.
LEMMA TypedStep == Typed /\ [Next]_vars => Typed'
<1> SUFFICES ASSUME Typed, [Next]_vars PROVE Typed'
  OBVIOUS
<1>1. ASSUME NEW u \in Users, NEW r \in Rooms, Post(u, r) PROVE Typed'
  BY <1>1, PostTyped
<1>2. ASSUME NEW u \in Users, NEW m \in Ids, React(u, m) \/ Delete(u, m)
      PROVE  Typed'
  BY <1>2, ReactTyped, DeleteTyped
<1>3. ASSUME NEW r \in Rooms, NEW m \in 0 .. Len(docs), NEW read \in BOOLEAN,
             PeerSees(r, m, read)
      PROVE  Typed'
  BY <1>3, PeerSeesTyped
<1>4. ASSUME NEW j \in jobs, Announce(j) \/ SaveReaction(j) \/ Mark(j)
      PROVE  Typed'
  BY <1>4, AnnounceTyped, SaveReactionTyped, MarkTyped
<1>5. ASSUME NEW j \in jobs,
             TellReaction(j) \/ TellDeleted(j) \/ TellReceipt(j)
      PROVE  Typed'
  BY <1>5, Cases, CastTypes
<1>6. ASSUME NEW j \in jobs, Find(j) \/ Reply(j) PROVE Typed'
  BY <1>6, FindTyped, ReplyTyped
<1>7. ASSUME NEW r \in Rooms, Open(r) PROVE Typed'
  BY <1>7, OpenTyped
<1>8. ASSUME NEW i \in DOMAIN chats, KeyReady(i) PROVE Typed'
  BY <1>8, KeyReadyTyped
<1>9. ASSUME NEW i \in DOMAIN chats, NEW h \in chats[i].lists,
             ShowHistory(i, h)
      PROVE  Typed'
  BY <1>9, ShowHistoryParts, ShowingTyped
<1>10. ASSUME NEW i \in DOMAIN chats, NEW x \in chats[i].fresh, ShowNew(i, x)
       PROVE  Typed'
  BY <1>10, ShowNewParts, ShowingTyped
<1>11. CASE SetForeground
  <2>1. Mounted BY <1>11 DEF SetForeground, Mounted
  <2> QED BY <1>11, <2>1, Basics, SetForegroundParts, ShowingTyped
<1>12. CASE Receive BY <1>12, ReceiveTyped
<1>13. CASE Lose \/ Reconnect BY <1>13, LoseTyped, ReconnectTyped
<1>14. CASE UNCHANGED vars
  BY <1>14 DEF vars, server, link, client, marks, Typed, Ids
<1> QED BY <1>1, <1>2, <1>3, <1>4, <1>5, <1>6, <1>7, <1>8, <1>9, <1>10,
           <1>11, <1>12, <1>13, <1>14 DEF Next

(***************************************************************************)
(* The messages, and reactions in flight.                                  *)
(***************************************************************************)
Conventional(d) ==
  /\ d.hidden \subseteq {d.from} /\ d.delivered \subseteq Users \ {d.from}
  /\ d.read \subseteq d.delivered
Counted == Typed /\ Conventions /\ Reactions

\* At first nothing is counted.
LEMMA CountedStart == Init => Conventions /\ Reactions
<1> SUFFICES ASSUME Init PROVE Conventions /\ Reactions
  OBVIOUS
<1>1. Ids = {} /\ jobs = {} BY EmptySeq DEF Init, Ids
<1> QED BY <1>1 DEF Conventions, Reactions

\* No reaction is begun or saved.
LEMMA NoReaction ==
  ASSUME Counted, Ids' = Ids,
         \A m \in Ids : /\ docs'[m].count = docs[m].count
                        /\ docs'[m].reacted = docs[m].reacted
                        /\ Conventional(docs'[m]),
         \A j \in jobs' : j.at \in {"count", "tell"} => j \in jobs,
         overlap \subseteq overlap'
  PROVE  Conventions' /\ Reactions'
<1>1. \A j \in jobs' : j.at = "count" => j \in jobs /\ j.m \in Ids
  BY Basics, JobKinds DEF Counted, Typed
<1>2. Conventions'
  BY <1>1 DEF Counted, Conventions, Conventional
<1>3. \A m : InFlight(m)' \subseteq InFlight(m) BY DEF InFlight
<1>4. Reactions' BY <1>3 DEF Counted, Reactions
<1> QED BY <1>2, <1>4

\* The conventions hold on while no message changes.
LEMMA SameDocs ==
  ASSUME Counted, docs' = docs
  PROVE  /\ Ids' = Ids
         /\ \A m \in Ids : /\ docs'[m].count = docs[m].count
                           /\ docs'[m].reacted = docs[m].reacted
                           /\ Conventional(docs'[m])
BY DEF Ids, Counted, Conventions, Conventional

\* A new message has no reaction.
LEMMA PostCounted ==
  ASSUME Counted, NEW u \in Users, NEW r \in Rooms, Post(u, r)
  PROVE  Conventions' /\ Reactions'
<1> DEFINE d == [room |-> r, from |-> u, hidden |-> {}, delivered |-> {},
                 read |-> {}, count |-> 0, reacted |-> 0]
<1>1. /\ d \in Doc /\ d.count = 0 /\ d.reacted = 0 /\ d.hidden = {}
      /\ d.delivered = {} /\ d.read = {}
  BY DEF Doc
<1>2. docs' = Append(docs, d) BY DEF Post
<1> HIDE DEF d
<1>3. /\ Len(docs') = Len(docs) + 1 /\ docs'[Len(docs) + 1] = d
      /\ \A m \in Ids : docs'[m] = docs[m]
  BY <1>1, <1>2, Appended DEF Counted, Typed, Ids
<1>4. Len(docs) \in Nat /\ Ids' = Ids \cup {Len(docs) + 1}
      /\ Len(docs) + 1 \notin Ids
  BY <1>3, Basics DEF Counted, Ids
<1>5. ASSUME NEW j \in jobs', j.at \in {"count", "tell"}
      PROVE  j \in jobs /\ j.m \in Ids
  <2>1. j \in jobs BY <1>5 DEF Post
  <2>2. Typed BY DEF Counted
  <2>3. j \in JobsOf(Len(docs)) BY <2>1, <2>2 DEF Typed
  <2> QED BY <1>4, <1>5, <2>1, <2>2, <2>3, Basics, JobKinds
<1>6. Conventions'
  BY <1>1, <1>3, <1>4, <1>5 DEF Counted, Conventions
<1>7. \A m \in Ids : InFlight(m)' \subseteq InFlight(m)
  BY <1>5 DEF InFlight
<1>8. \A m : m \notin Ids => InFlight(m)' = {} BY <1>5 DEF InFlight
<1>9. overlap' = overlap BY DEF Post, marks
<1>10. ASSUME NEW m \in Ids', m \notin overlap
       PROVE  /\ docs'[m].count = docs'[m].reacted
              /\ \A i, l \in InFlight(m)' : i = l
              /\ \A i \in InFlight(m)' :
                   i.at = "count" => i.n = docs'[m].count
  <2>1. CASE m \in Ids
    BY <1>3, <1>7, <1>10, <2>1 DEF Counted, Reactions
  <2>2. CASE m = Len(docs) + 1 BY <1>1, <1>3, <1>4, <1>8, <2>2
  <2> QED BY <1>4, <2>1, <2>2
<1>11. Reactions' BY <1>9, <1>10 DEF Reactions
<1> QED BY <1>6, <1>11

\* A reaction read while another is in flight makes an overlap.
LEMMA ReactCounted ==
  ASSUME Counted, NEW u \in Users, NEW m \in Ids, React(u, m)
  PROVE  Conventions' /\ Reactions'
<1> DEFINE k == [at |-> "count", m |-> m, n |-> docs[m].count,
                 id |-> events]
<1>1. k.at = "count" /\ k.m = m /\ k.n = docs[m].count OBVIOUS
<1>2. jobs' = jobs \cup {k} /\ docs' = docs
      /\ overlap' = IF InFlight(m) # {} THEN overlap \cup {m} ELSE overlap
  BY DEF React, InFlight
<1> HIDE DEF k
<1>3. Ids' = Ids BY <1>2 DEF Ids
<1>4. Conventions' BY <1>1, <1>2, <1>3 DEF Counted, Conventions
<1>5. \A n : InFlight(n)' = InFlight(n) \cup (IF n = m THEN {k} ELSE {})
  BY <1>1, <1>2 DEF InFlight
<1>6. Reactions'
  <2> SUFFICES ASSUME NEW n \in Ids, n \notin overlap'
               PROVE  /\ docs[n].count = docs[n].reacted
                      /\ \A i, j \in InFlight(n)' : i = j
                      /\ \A j \in InFlight(n)' :
                           j.at = "count" => j.n = docs[n].count
    BY <1>2, <1>3 DEF Reactions
  <2>1. n \notin overlap BY <1>2
  <2>2. CASE n = m BY <1>1, <1>2, <1>5, <2>1, <2>2 DEF Counted, Reactions
  <2>3. CASE n # m BY <1>5, <2>1, <2>3 DEF Counted, Reactions
  <2> QED BY <2>2, <2>3
<1> QED BY <1>4, <1>6

\* A reaction alone in flight saves the count it read, plus one.
LEMMA SaveReactionCounted ==
  ASSUME Counted, NEW j \in jobs, SaveReaction(j)
  PROVE  Conventions' /\ Reactions'
<1>1. Typed BY DEF Counted
<1>2. PICK k : k = [j EXCEPT !.at = "tell", !.n = @ + 1] OBVIOUS
<1>3. /\ Ids' = Ids /\ j.m \in Ids
      /\ \A m \in Ids : /\ docs'[m].hidden = docs[m].hidden
                        /\ docs'[m].delivered = docs[m].delivered
                        /\ docs'[m].read = docs[m].read
                        /\ docs'[m].from = docs[m].from
      /\ docs'[j.m].count = j.n + 1
      /\ docs'[j.m].reacted = docs[j.m].reacted + 1
      /\ \A m \in Ids \ {j.m} : docs'[m] = docs[m]
  BY <1>1, SaveReactionTyped DEF Grown
<1>4. j \in JobsOf(Len(docs)) /\ j.at = "count" BY <1>1 DEF Typed, SaveReaction
<1>5. j \in [at : {"count", "tell"}, m : 1 .. Len(docs), n : Nat, id : Nat]
  BY <1>4 DEF JobsOf, Seeing
<1>6. k.at = "tell" /\ k.m = j.m BY <1>2, <1>5
<1>7. jobs' = (jobs \ {j}) \cup {k} BY <1>2 DEF SaveReaction
<1>8. \A i \in jobs : i.at = "count" =>
        i.m \in Ids /\ i.n \in Nat /\ i.n <= docs[i.m].reacted
  BY <1>1, Basics, JobKinds DEF Typed, Counted, Conventions
<1>9. \A m \in Ids : docs[m].reacted \in Nat /\ docs[m].count \in Nat
  BY <1>1, Basics DEF Doc
<1>10. Conventions'
  <2>1. ASSUME NEW m \in Ids
        PROVE  /\ Conventional(docs'[m])
               /\ docs'[m].count <= docs'[m].reacted
    <3>1. Conventional(docs[m]) /\ docs[m].count <= docs[m].reacted
      BY DEF Counted, Conventions, Conventional
    <3>2. Conventional(docs'[m]) BY <1>3, <3>1 DEF Conventional
    <3>3. j.n \in Nat /\ j.n <= docs[j.m].reacted BY <1>4, <1>8
    <3>4. CASE m = j.m BY <1>3, <1>9, <3>2, <3>3, <3>4
    <3>5. CASE m # j.m BY <1>3, <3>1, <3>2, <3>5
    <3> QED BY <3>4, <3>5
  <2>2. ASSUME NEW i \in jobs', i.at = "count"
        PROVE  i.n <= docs'[i.m].reacted
    BY <1>3, <1>6, <1>7, <1>8, <1>9, <2>2
  <2> QED BY <1>3, <2>1, <2>2 DEF Conventions, Conventional
<1>11. \A m : InFlight(m)' = (InFlight(m) \ {j}) \cup
                               (IF m = j.m THEN {k} ELSE {})
  BY <1>6, <1>7 DEF InFlight
<1>12. j \in InFlight(j.m) BY <1>4 DEF InFlight
<1>13. overlap' = overlap BY DEF SaveReaction, marks
<1>14. ASSUME NEW m \in Ids, m \notin overlap
       PROVE  /\ docs'[m].count = docs'[m].reacted
              /\ \A i, l \in InFlight(m)' : i = l
              /\ \A i \in InFlight(m)' :
                   i.at = "count" => i.n = docs'[m].count
  <2>1. /\ docs[m].count = docs[m].reacted
        /\ \A i, l \in InFlight(m) : i = l
        /\ \A i \in InFlight(m) : i.at = "count" => i.n = docs[m].count
    BY <1>14 DEF Counted, Reactions
  <2>2. CASE m = j.m
    <3>1. InFlight(m)' = {k} BY <1>11, <1>12, <2>1, <2>2
    <3>2. j.n = docs[m].count BY <1>4, <1>12, <2>1, <2>2
    <3> QED BY <1>3, <1>6, <2>1, <2>2, <3>1, <3>2
  <2>3. CASE m # j.m
    <3>1. InFlight(m)' = InFlight(m) BY <1>11, <2>3 DEF InFlight
    <3> QED BY <1>3, <2>1, <2>3, <3>1
  <2> QED BY <2>2, <2>3
<1>15. Reactions' BY <1>3, <1>13, <1>14 DEF Reactions
<1> QED BY <1>10, <1>15

\* Marking a message keeps its counts and the conventions.
LEMMA MarkCounted ==
  ASSUME Counted, NEW j \in jobs, Mark(j) PROVE Conventions' /\ Reactions'
<1>1. Typed BY DEF Counted
<1>2. Ids' = Ids /\ j \in Seeing(Len(docs)) /\ docs' = Marked(j)
  BY <1>1, MarkTyped
<1>3. \A m \in Ids : /\ docs'[m].count = docs[m].count
                     /\ docs'[m].reacted = docs[m].reacted
  BY <1>1, <1>2, AllMarked
<1>4. ASSUME NEW m \in Ids PROVE Conventional(docs'[m])
  <2>1. Conventional(docs[m]) BY DEF Counted, Conventions, Conventional
  <2>2. j.by \in Users BY <1>2 DEF Seeing
  <2>3. m \in Covered(j) => j.by # docs[m].from BY DEF Covered
  <2>4. /\ docs'[m].from = docs[m].from /\ docs'[m].hidden = docs[m].hidden
        /\ docs'[m].delivered = docs[m].delivered \cup
             (IF m \in Covered(j) THEN {j.by} ELSE {})
        /\ docs'[m].read = docs[m].read \cup
             (IF m \in Covered(j) /\ j.read THEN {j.by} ELSE {})
    BY <1>1, <1>2, AllMarked
  <2> QED BY <2>1, <2>2, <2>3, <2>4 DEF Conventional
<1>5. \A i \in jobs' : i.at \in {"count", "tell"} => i \in jobs
  <2>1. [j EXCEPT !.at = "receipt", !.upTo = UpTo(j)].at = "receipt"
    BY <1>2 DEF Seeing
  <2> QED BY <2>1 DEF Mark
<1> QED BY <1>2, <1>3, <1>4, <1>5, NoReaction DEF Mark, marks

\* Every step keeps the conventions and the counts.
LEMMA CountedStep == Counted /\ [Next]_vars => Conventions' /\ Reactions'
<1> SUFFICES ASSUME Counted, [Next]_vars PROVE Conventions' /\ Reactions'
  OBVIOUS
<1>0. Typed BY DEF Counted
<1>1. ASSUME NEW u \in Users, NEW r \in Rooms, Post(u, r)
      PROVE  Conventions' /\ Reactions'
  BY <1>1, PostCounted
<1>2. ASSUME NEW u \in Users, NEW m \in Ids, React(u, m)
      PROVE  Conventions' /\ Reactions'
  BY <1>2, ReactCounted
<1>3. ASSUME NEW u \in Users, NEW m \in Ids, Delete(u, m)
      PROVE  Conventions' /\ Reactions'
  <2>1. /\ Ids' = Ids /\ docs'[m].hidden = docs[m].hidden \cup {docs[m].from}
        /\ \A k \in Ids : /\ docs'[k].count = docs[k].count
                          /\ docs'[k].reacted = docs[k].reacted
                          /\ docs'[k].delivered = docs[k].delivered
                          /\ docs'[k].read = docs[k].read
                          /\ docs'[k].from = docs[k].from
        /\ \A k \in Ids \ {m} : docs'[k] = docs[k]
    BY <1>0, <1>3, DeleteTyped DEF Grown
  <2>2. \A k \in Ids : Conventional(docs'[k])
    BY <2>1 DEF Conventional, Counted, Conventions
  <2>3. /\ \A j \in jobs' : j.at \in {"count", "tell"} => j \in jobs
        /\ overlap' = overlap
    BY <1>3 DEF Delete, marks
  <2> QED BY <2>1, <2>2, <2>3, NoReaction
<1>4. ASSUME NEW r \in Rooms, NEW m \in 0 .. Len(docs), NEW read \in BOOLEAN,
             PeerSees(r, m, read)
      PROVE  Conventions' /\ Reactions'
  BY <1>4, SameDocs, NoReaction DEF PeerSees, See, marks
<1>5. ASSUME NEW j \in jobs, SaveReaction(j) \/ Mark(j)
      PROVE  Conventions' /\ Reactions'
  BY <1>5, SaveReactionCounted, MarkCounted
<1>6. ASSUME NEW j \in jobs, \/ Announce(j) \/ Reply(j) \/ TellReaction(j)
                             \/ TellDeleted(j) \/ TellReceipt(j)
      PROVE  Conventions' /\ Reactions'
  <2>1. docs' = docs /\ jobs' = jobs \ {j} /\ overlap' = overlap
    BY <1>6 DEF Announce, Reply, TellReaction, TellDeleted, TellReceipt, marks
  <2> QED BY <2>1, SameDocs, NoReaction
<1>7. ASSUME NEW j \in jobs, Find(j) PROVE Conventions' /\ Reactions'
  BY <1>7, SameDocs, NoReaction DEF Find, marks
<1>8. ASSUME NEW r \in Rooms, Open(r) PROVE Conventions' /\ Reactions'
  BY <1>8, SameDocs, NoReaction DEF Open, server, marks
<1>9. ASSUME NEW i \in DOMAIN chats, KeyReady(i)
      PROVE  Conventions' /\ Reactions'
  <2>1. docs' = docs /\ overlap' = overlap BY <1>9 DEF KeyReady, marks
  <2>2. \A k \in jobs' : k \in jobs \/ k.at = "find"
    BY <1>9 DEF KeyReady, Join
  <2> QED BY <2>1, <2>2, SameDocs, NoReaction
<1>10. ASSUME NEW i \in DOMAIN chats, NEW c \in ChatsOf(Len(docs)), NEW js,
              Showing(i, c, js)
       PROVE  Conventions' /\ Reactions'
  <2>1. docs' = docs /\ overlap' = overlap BY <1>10 DEF Showing, marks
  <2>2. js \in SUBSET Seeing(Len(docs)) /\ \A s \in js : s.at = "see"
    BY <1>0, <1>10, Reports DEF Showing
  <2>3. jobs' \subseteq jobs \cup js
    BY <1>0, <1>10, <2>2, Emitting DEF Showing
  <2> QED BY <2>1, <2>2, <2>3, SameDocs, NoReaction
<1>11. ASSUME NEW i \in DOMAIN chats, NEW h \in chats[i].lists,
              ShowHistory(i, h)
       PROVE  Conventions' /\ Reactions'
  BY <1>0, <1>10, <1>11, ShowHistoryParts
<1>12. ASSUME NEW i \in DOMAIN chats, NEW x \in chats[i].fresh, ShowNew(i, x)
       PROVE  Conventions' /\ Reactions'
  BY <1>0, <1>10, <1>12, ShowNewParts
<1>13. CASE SetForeground
  BY <1>0, <1>10, <1>13, SetForegroundParts, Basics
<1>14. CASE Receive
  <2>1. jobs' = jobs /\ overlap' = overlap BY <1>14 DEF Receive
  <2>2. /\ Ids' = Ids
        /\ \A m \in Ids : /\ docs'[m].count = docs[m].count
                          /\ docs'[m].reacted = docs[m].reacted
                          /\ docs'[m].hidden = docs[m].hidden
                          /\ docs'[m].from = docs[m].from
                          /\ docs'[m].read = docs[m].read
                          /\ docs'[m].delivered = docs[m].delivered
                               \cup (IF docs[m].from # Me THEN {Me} ELSE {})
                             \/ docs'[m].delivered = docs[m].delivered
    BY <1>0, <1>14, ReceiveDocs DEF Grown
  <2>3. ASSUME NEW m \in Ids PROVE Conventional(docs'[m])
    <3>1. Conventional(docs[m]) BY DEF Counted, Conventions, Conventional
    <3> QED BY <2>2, <3>1 DEF Conventional, Users
  <2> QED BY <2>1, <2>2, <2>3, NoReaction
<1>15. CASE Lose \/ Reconnect
  <2>1. docs' = docs /\ overlap' = overlap BY <1>15 DEF Lose, Reconnect, marks
  <2>2. \A s \in outbox : s.at = "see" BY <1>0 DEF Typed
  <2>3. \A k \in jobs' : k \in jobs \/ k \in outbox \/ k.at = "find"
    BY <1>15 DEF Lose, Reconnect
  <2> QED BY <2>1, <2>2, <2>3, SameDocs, NoReaction
<1>16. CASE UNCHANGED vars
  BY <1>16, SameDocs, NoReaction DEF vars, server, marks
<1> QED BY <1>1, <1>2, <1>3, <1>4, <1>5, <1>6, <1>7, <1>8, <1>9, <1>11,
           <1>12, <1>13, <1>14, <1>15, <1>16 DEF Next

(***************************************************************************)
(* The way of messages to the screen, and of reads back.                   *)
(***************************************************************************)
\* The socket and the client are as before.
Still ==
  /\ up' = up /\ joined' = joined /\ outbox' = outbox /\ chats' = chats
  /\ onScreen' = onScreen /\ unwatched' = unwatched /\ crossed' = crossed
  /\ upset \subseteq upset' /\ missed \subseteq missed'

\* Messages that do not change have grown, trivially.
LEMMA SameGrown == ASSUME Typed, docs' = docs PROVE Grown /\ Ids' = Ids
BY Basics DEF Grown, Ids

\* What is of a room stays of the room.
LEMMA OfRoomKept ==
  ASSUME Grown, Typed
  PROVE  /\ \A r, l : l \subseteq Items(Len(docs)) /\ OfRoom(r, l)
                        => OfRoom(r, l)'
         /\ \A r : Theirs(r)' \cap Ids \subseteq Theirs(r)
<1>1. ASSUME NEW r, NEW l, l \subseteq Items(Len(docs)), OfRoom(r, l)
      PROVE  OfRoom(r, l)'
  <2>1. \A x \in l : x.m \in Ids BY <1>1 DEF Items, Ids
  <2> QED BY <1>1, <2>1 DEF OfRoom, Grown
<1>2. ASSUME NEW r, NEW m \in Theirs(r)', m \in Ids PROVE m \in Theirs(r)
  BY <1>2 DEF Theirs, Grown
<1> QED BY <1>1, <1>2

\* What is excused stays excused, while nothing is taken from missed.
LEMMA ExcusedKept ==
  ASSUME Grown, onScreen \subseteq onScreen', upset \subseteq upset',
         missed \subseteq missed', unwatched \subseteq unwatched'
  PROVE  \A m \in Ids : Excused(m) => Excused(m)'
BY DEF Excused, Grown

\* What is said of messages in jobs, events and the mounted chat.
LEMMA Named ==
  ASSUME Typed
  PROVE  /\ \A j \in jobs : /\ j.at = "erased" => j.m \in Ids
                            /\ j.at = "reply" =>
                                 j.list \subseteq Items(Len(docs))
         /\ \A i \in DOMAIN wire :
              /\ wire[i].k = "deleted" => wire[i].m \in Ids
              /\ wire[i].k = "joined" =>
                   wire[i].list \subseteq Items(Len(docs))
              /\ wire[i].k = "new" => wire[i].item.m \in Ids
         /\ Mounted => /\ Page.seen \subseteq Ids
                       /\ Page.shown \subseteq Items(Len(docs))
                       /\ Page.fresh \subseteq Items(Len(docs))
                       /\ \A h \in Page.lists :
                            h.list \subseteq Items(Len(docs))
         /\ \A m : Announced(m) \/ InWire(m) => m \in Ids
<1>1. Len(docs) \in Nat /\ Ids = 1 .. Len(docs) BY Basics
<1>2. ASSUME NEW j \in jobs
      PROVE  /\ j.at \in {"announce", "erased"} => j.m \in Ids
             /\ j.at = "reply" => j.list \subseteq Items(Len(docs))
  <2>1. j \in JobsOf(Len(docs)) BY DEF Typed
  <2> QED BY <1>1, <2>1, JobKinds
<1>3. ASSUME NEW i \in DOMAIN wire
      PROVE  /\ wire[i].k = "deleted" => wire[i].m \in Ids
             /\ wire[i].k = "joined" =>
                  wire[i].list \subseteq Items(Len(docs))
             /\ wire[i].k = "new" => wire[i].item.m \in Ids
  <2>1. PICK e \in EventsOf(Len(docs)) : e = wire[i] BY Basics
  <2> QED BY <1>1, <2>1, EventKinds DEF Items
<1>4. ASSUME Mounted
      PROVE  /\ Page.seen \subseteq Ids
             /\ Page.shown \subseteq Items(Len(docs))
             /\ Page.fresh \subseteq Items(Len(docs))
             /\ \A h \in Page.lists : h.list \subseteq Items(Len(docs))
  BY <1>1, <1>4, Basics DEF ChatsOf, Joineds
<1>5. \A m : Announced(m) \/ InWire(m) => m \in Ids
  BY <1>2, <1>3 DEF Announced, InWire, New
<1> QED BY <1>2, <1>3, <1>4, <1>5

\* A handler goes on, or messages are stored or changed, and nothing is sent.
LEMMA Quiet ==
  ASSUME Full, Typed', Grown, Still, wire' = wire,
         \A j \in jobs' \ jobs :
            \/ j.at \in {"count", "tell", "receipt"}
            \/ j.at = "see" /\ j.by = Peer
            \/ j.at = "erased" /\ docs'[j.m].hidden # {}
            \/ j.at = "announce" /\ j.m \notin Ids
            \/ /\ j.at = "reply" /\ j.room \in joined /\ docs' = docs
               /\ OfRoom(j.room, j.list) /\ Theirs(j.room) \subseteq ListOf(j),
         \A j \in jobs : j.at = "announce" => j \in jobs',
         \A m \in Ids' \ Ids : Announced(m)' /\ docs'[m].read = {},
         \A m \in Ids : Me \in docs'[m].read /\ Me \notin docs[m].read
                          => Watched(m)
  PROVE  Delivery'
<1> USE DEF Still
<1>t. Typed BY DEF Full
<1>a. \A m \in Ids : Announced(m)' <=> Announced(m)
  <2> SUFFICES ASSUME NEW m \in Ids PROVE Announced(m)' <=> Announced(m)
    OBVIOUS
  <2>1. PICK j : j = [at |-> "announce", m |-> m] OBVIOUS
  <2>2. j.at = "announce" /\ j.m = m BY <2>1
  <2>3. j \in jobs' <=> j \in jobs BY <2>2
  <2> QED BY <2>1, <2>3 DEF Announced
<1>w. \A m : InWire(m)' <=> InWire(m) BY DEF InWire, New
<1>p. Mounted' = Mounted /\ Page' = Page BY DEF Mounted, Page
<1>e. \A m \in Ids : Excused(m) => Excused(m)' BY ExcusedKept
<1>k. \A m \in Ids : Taken(m)' <=> Taken(m)
  BY <1>p DEF Taken, Fresh, Loading, ListOf
<1>1. Linked' BY DEF Full, Delivery, Linked
<1>2. Wiring' BY <1>p DEF Full, Delivery, Wiring, Shown
<1>3. Erased'
  <2>1. ASSUME NEW j \in jobs', j.at = "erased" PROVE docs'[j.m].hidden # {}
    BY <1>t, <2>1, Named DEF Full, Delivery, Erased, Grown
  <2>2. ASSUME NEW i \in DOMAIN wire, wire[i].k = "deleted"
        PROVE  docs'[wire[i].m].hidden # {}
    BY <1>t, <2>2, Named DEF Full, Delivery, Erased, Grown
  <2> QED BY <2>1, <2>2 DEF Erased
<1>4. InRoom'
  <2>1. ASSUME NEW j \in jobs', j.at = "reply"
        PROVE  OfRoom(j.room, j.list)'
    <3>1. PICK r, l : r = j.room /\ l = j.list OBVIOUS
    <3>2. CASE j \in jobs
      <4>1. l \subseteq Items(Len(docs)) /\ OfRoom(r, l)
        BY <1>t, <2>1, <3>1, <3>2, Named DEF Full, Delivery, InRoom
      <4>2. OfRoom(r, l)' BY <1>t, <4>1, OfRoomKept
      <4> QED BY <3>1, <4>2
    <3>3. CASE j \notin jobs
      <4>1. OfRoom(r, l) /\ docs' = docs BY <2>1, <3>1, <3>3
      <4> QED BY <3>1, <4>1 DEF OfRoom
    <3> QED BY <3>2, <3>3
  <2>2. ASSUME NEW i \in DOMAIN wire
        PROVE  /\ wire[i].k = "joined" =>
                    OfRoom(wire[i].room, wire[i].list)'
               /\ wire[i].k = "new" =>
                    docs'[wire[i].item.m].room = wire[i].room
    <3>1. PICK e : e = wire[i] OBVIOUS
    <3>2. ASSUME e.k = "joined" PROVE OfRoom(e.room, e.list)'
      <4>1. PICK r, l : r = e.room /\ l = e.list OBVIOUS
      <4>2. l \subseteq Items(Len(docs)) /\ OfRoom(r, l)
        BY <1>t, <3>1, <3>2, <4>1, Named DEF Full, Delivery, InRoom
      <4>3. OfRoom(r, l)' BY <1>t, <4>2, OfRoomKept
      <4> QED BY <4>1, <4>3
    <3>3. ASSUME e.k = "new" PROVE docs'[e.item.m].room = e.room
      BY <1>t, <3>1, <3>3, Named DEF Full, Delivery, InRoom, Grown
    <3>4. wire'[i] = e /\ wire[i] = e BY <3>1
    <3> QED BY <3>1, <3>2, <3>3 DEF OfRoom
  <2>3. Mounted => \A h \in Page.lists : OfRoom(h.room, h.list)'
    <3> SUFFICES ASSUME Mounted, NEW h \in Page.lists
                 PROVE  OfRoom(h.room, h.list)'
      OBVIOUS
    <3>1. PICK r, l : r = h.room /\ l = h.list OBVIOUS
    <3>2. l \subseteq Items(Len(docs)) /\ OfRoom(r, l)
      BY <1>t, <3>1, Named DEF Full, Delivery, InRoom
    <3>3. OfRoom(r, l)' BY <1>t, <3>2, OfRoomKept
    <3> QED BY <3>1, <3>3
  <2>4. Mounted /\ ~ crossed =>
          /\ Page.active \in {NoRoom, Page.room}
          /\ \A h \in Page.lists : h.room = Page.room
          /\ OfRoom(Page.room, Page.shown)'
          /\ OfRoom(Page.room, Page.fresh)'
    <3> SUFFICES ASSUME Mounted, ~ crossed
                 PROVE  /\ Page.active \in {NoRoom, Page.room}
                        /\ \A h \in Page.lists : h.room = Page.room
                        /\ OfRoom(Page.room, Page.shown)'
                        /\ OfRoom(Page.room, Page.fresh)'
      OBVIOUS
    <3>1. PICK r, s, f : r = Page.room /\ s = Page.shown /\ f = Page.fresh
      OBVIOUS
    <3>2. /\ OfRoom(r, s) /\ OfRoom(r, f)
          /\ s \subseteq Items(Len(docs)) /\ f \subseteq Items(Len(docs))
          /\ Page.active \in {NoRoom, Page.room}
          /\ \A h \in Page.lists : h.room = Page.room
      BY <1>t, <3>1, Named DEF Full, Delivery, InRoom
    <3>3. OfRoom(r, s)' /\ OfRoom(r, f)' BY <1>t, <3>2, OfRoomKept
    <3> QED BY <1>p, <3>1, <3>2, <3>3
  <2> QED BY <1>p, <2>1, <2>2, <2>3, <2>4 DEF InRoom, OfRoom
<1>5. Once'
  <2>1. ASSUME NEW m \in Ids'
        PROVE  /\ Announced(m)' => ~ InWire(m)
               /\ \A i, k \in DOMAIN wire : New(i, m) /\ New(k, m) => i = k
               /\ Mounted /\ (Announced(m)' \/ InWire(m)) => m \notin Page.seen
    <3>1. CASE m \in Ids BY <1>a, <3>1 DEF Full, Delivery, Once
    <3>2. CASE m \notin Ids
      BY <1>t, <3>2, Named DEF InWire
    <3> QED BY <3>1, <3>2
  <2> QED BY <1>p, <1>w, <2>1 DEF Once, New
<1>6. Complete'
  <2>1. ASSUME NEW j \in jobs', j.at = "reply", NEW m \in Theirs(j.room)'
        PROVE  m \in ListOf(j) \cup upset' \/ Announced(m)'
    <3>1. CASE m \notin Ids BY <3>1 DEF Theirs
    <3>2. CASE m \in Ids
      <4>1. PICK r : r = j.room OBVIOUS
      <4>2. m \in Theirs(r)
        BY <1>t, <2>1, <3>2, <4>1, OfRoomKept DEF Theirs
      <4>3. CASE j \in jobs
        BY <1>a, <2>1, <3>2, <4>1, <4>2, <4>3 DEF Full, Delivery, Complete
      <4>4. CASE j \notin jobs BY <2>1, <4>1, <4>2, <4>4
      <4> QED BY <4>3, <4>4
    <3> QED BY <3>1, <3>2
  <2>2. ASSUME NEW i \in DOMAIN wire, wire[i].k = "joined",
               NEW m \in Theirs(wire[i].room)'
        PROVE  \/ m \in ListOf(wire[i]) \cup upset' \/ Announced(m)'
               \/ \E k \in DOMAIN wire : k > i /\ New(k, m)
    <3>1. CASE m \notin Ids BY <3>1 DEF Theirs
    <3>2. CASE m \in Ids
      <4>2. m \in Theirs(wire[i].room) BY <3>2 DEF Theirs, Grown
      <4> QED BY <1>a, <2>2, <3>2, <4>2 DEF Full, Delivery, Complete
    <3> QED BY <3>1, <3>2
  <2>3. ASSUME Mounted, NEW h \in Page.lists, NEW m \in Theirs(h.room)'
        PROVE  \/ m \in ListOf(h) \cup upset' \cup missed'
               \/ Announced(m)' \/ InWire(m)
    <3>1. CASE m \notin Ids BY <3>1 DEF Theirs
    <3>2. CASE m \in Ids
      <4>2. m \in Theirs(h.room) BY <3>2 DEF Theirs, Grown
      <4> QED BY <1>a, <2>3, <3>2, <4>2 DEF Full, Delivery, Complete
    <3> QED BY <3>1, <3>2
  <2> QED BY <1>p, <1>w, <2>1, <2>2, <2>3 DEF Complete, ListOf, New, Theirs
<1>7. Loaded'
  <2> SUFFICES ASSUME Mounted, Page.loaded, ~ crossed,
                      NEW m \in Theirs(Page.room)'
               PROVE  \/ m \in Shown(Page) \/ Excused(m)'
                      \/ Announced(m)' \/ InWire(m)' \/ Taken(m)'
    BY <1>p DEF Loaded, Theirs, Shown
  <2>1. CASE m \notin Ids BY <2>1 DEF Theirs
  <2>2. CASE m \in Ids
    <3>1. m \in Theirs(Page.room) BY <1>p, <2>2 DEF Theirs, Grown
    <3> QED BY <1>a, <1>e, <1>k, <1>w, <2>2, <3>1 DEF Full, Delivery, Loaded
  <2> QED BY <2>1, <2>2
<1>8. Reading'
  <2>1. ASSUME NEW m \in Ids, Watched(m) PROVE Watched(m)'
    BY <1>a, <1>e, <1>k, <1>p, <1>w, <2>1 DEF Watched, Grown
  <2>2. ASSUME NEW j \in jobs' \cup outbox', ToRead(j)
        PROVE  j.upTo # 0 /\ \A m \in Theirs(j.room)' :
                               m <= j.upTo => Watched(m)'
    <3>1. j \in jobs \cup outbox /\ Me # Peer
      BY <2>2, ChatAssumption DEF ToRead
    <3>2. j.upTo # 0 /\ \A m \in Theirs(j.room) :
                           m <= j.upTo => Watched(m)
      BY <2>2, <3>1 DEF Full, Delivery, Reading
    <3>3. j \in Seeing(Len(docs))
      BY <1>t, <2>2, <3>1, Basics, JobKinds DEF ToRead, Typed
    <3>4. ASSUME NEW m \in Theirs(j.room)', m <= j.upTo PROVE m \in Ids
      <4>1. m \in Nat /\ m >= 1 /\ Len(docs) \in Nat /\ j.upTo \in Nat
            /\ j.upTo <= Len(docs)
        BY <1>t, <3>3, Basics DEF Theirs, Ids, Grown, Seeing
      <4> QED BY <3>4, <4>1 DEF Ids
    <3>5. \A m \in Theirs(j.room)' : m \in Ids => m \in Theirs(j.room)
      BY DEF Theirs, Grown
    <3> QED BY <2>1, <3>2, <3>4, <3>5
  <2>3. ASSUME NEW m \in Ids', Me \in docs'[m].read PROVE Watched(m)'
    BY <2>1, <2>3 DEF Full, Delivery, Reading
  <2> QED BY <2>2, <2>3 DEF Reading, ToRead, Theirs
<1> QED BY <1>1, <1>2, <1>3, <1>4, <1>5, <1>6, <1>7, <1>8 DEF Delivery

\* The steps at which nothing is sent to the socket.
LEMMA QuietSteps ==
  ASSUME Full, Typed',
         \/ \E u \in Users, r \in Rooms : Post(u, r)
         \/ \E u \in Users, m \in Ids : React(u, m) \/ Delete(u, m)
         \/ \E r \in Rooms, m \in 0..Len(docs), read \in BOOLEAN :
               PeerSees(r, m, read)
         \/ \E j \in jobs : SaveReaction(j) \/ Mark(j) \/ Find(j)
  PROVE  Delivery'
<1>t. Typed BY DEF Full
<1>1. ASSUME NEW u \in Users, NEW r \in Rooms, Post(u, r) PROVE Delivery'
  <2>1. Grown BY <1>t, <1>1, PostTyped
  <2> DEFINE d == [room |-> r, from |-> u, hidden |-> {}, delivered |-> {},
                   read |-> {}, count |-> 0, reacted |-> 0]
  <2>2. d \in Doc /\ d.read = {} BY DEF Doc
  <2>3. docs' = Append(docs, d) BY <1>1 DEF Post
  <2> HIDE DEF d
  <2>4. /\ Len(docs') = Len(docs) + 1 /\ docs'[Len(docs) + 1] = d
        /\ \A m \in Ids : docs'[m] = docs[m]
    BY <2>2, <2>3, Appended, <1>t DEF Typed, Ids
  <2>5. /\ Len(docs) \in Nat /\ Ids' = Ids \cup {Len(docs) + 1}
        /\ Len(docs) + 1 \notin Ids
    BY <1>t, <2>4, Basics DEF Ids
  <2>6. PICK k : k = [at |-> "announce", m |-> Len(docs) + 1] OBVIOUS
  <2>7. k.at = "announce" /\ k.m = Len(docs) + 1 /\ jobs' = jobs \cup {k}
    BY <1>1, <2>6 DEF Post
  <2>8. \A m \in Ids' \ Ids : Announced(m)' /\ docs'[m].read = {}
    BY <2>2, <2>4, <2>5, <2>6, <2>7 DEF Announced
  <2>9. Still /\ wire' = wire BY <1>1 DEF Post, Still, link, client, marks
  <2> QED BY <2>1, <2>4, <2>5, <2>7, <2>8, <2>9, Quiet
<1>2. ASSUME NEW u \in Users, NEW m \in Ids, React(u, m) PROVE Delivery'
  <2>1. Grown /\ Ids' = Ids BY <1>t, <1>2, SameGrown DEF React
  <2>2. Still /\ wire' = wire BY <1>2 DEF React, Still, link, client
  <2>3. \A j \in jobs' \ jobs : j.at = "count" BY <1>2 DEF React
  <2>4. jobs \subseteq jobs' /\ docs' = docs BY <1>2 DEF React
  <2> QED BY <2>1, <2>2, <2>3, <2>4, Quiet
<1>3. ASSUME NEW u \in Users, NEW m \in Ids, Delete(u, m) PROVE Delivery'
  <2>1. /\ Grown /\ Ids' = Ids
        /\ docs'[m].hidden = docs[m].hidden \cup {docs[m].from}
        /\ \A k \in Ids : docs'[k].read = docs[k].read
    BY <1>t, <1>3, DeleteTyped
  <2>2. Still /\ wire' = wire BY <1>3 DEF Delete, Still, link, client, marks
  <2>3. \A j \in jobs' \ jobs : j.at = "erased" /\ j.m = m
    BY <1>3 DEF Delete
  <2>4. jobs \subseteq jobs' BY <1>3 DEF Delete
  <2> QED BY <2>1, <2>2, <2>3, <2>4, Quiet
<1>4. ASSUME NEW r \in Rooms, NEW m \in 0 .. Len(docs), NEW read \in BOOLEAN,
             PeerSees(r, m, read)
      PROVE  Delivery'
  <2>1. Grown /\ Ids' = Ids BY <1>t, <1>4, SameGrown DEF PeerSees
  <2>2. Still /\ wire' = wire
    BY <1>4 DEF PeerSees, Still, link, client, marks
  <2>3. \A j \in jobs' \ jobs : j.at = "see" /\ j.by = Peer
    BY <1>4 DEF PeerSees, See
  <2>4. jobs \subseteq jobs' /\ docs' = docs BY <1>4 DEF PeerSees
  <2> QED BY <2>1, <2>2, <2>3, <2>4, Quiet
<1>5. ASSUME NEW j \in jobs, SaveReaction(j) PROVE Delivery'
  <2>1. /\ Grown /\ Ids' = Ids
        /\ \A m \in Ids : docs'[m].read = docs[m].read
    BY <1>t, <1>5, SaveReactionTyped
  <2>2. Still /\ wire' = wire
    BY <1>5 DEF SaveReaction, Still, link, client, marks
  <2>3. j \in JobsOf(Len(docs)) /\ j.at = "count"
    BY <1>5, <1>t DEF SaveReaction, Typed
  <2>4. j \in [at : {"count", "tell"}, m : 1 .. Len(docs), n : Nat, id : Nat]
    BY <2>3 DEF JobsOf, Seeing
  <2>5. PICK k : k = [j EXCEPT !.at = "tell", !.n = @ + 1] OBVIOUS
  <2>6. k.at = "tell" BY <2>4, <2>5
  <2>7. jobs' = (jobs \ {j}) \cup {k} BY <1>5, <2>5 DEF SaveReaction
  <2> QED BY <2>1, <2>2, <2>3, <2>6, <2>7, Quiet
<1>6. ASSUME NEW j \in jobs, Mark(j) PROVE Delivery'
  <2>1. /\ Grown /\ Ids' = Ids /\ docs' = Marked(j)
        /\ j \in Seeing(Len(docs))
    BY <1>t, <1>6, MarkTyped
  <2>2. Still /\ wire' = wire
    BY <1>6 DEF Mark, Still, link, client, marks
  <2>3. j.at = "see" BY <1>6 DEF Mark
  <2>4. PICK k : k = [j EXCEPT !.at = "receipt", !.upTo = UpTo(j)] OBVIOUS
  <2>5. k.at = "receipt" BY <2>1, <2>4 DEF Seeing
  <2>6. jobs \ {j} \subseteq jobs' /\ jobs' \subseteq jobs \cup {k}
    BY <1>6, <2>4 DEF Mark
  <2>7. ASSUME NEW m \in Ids, Me \in docs'[m].read, Me \notin docs[m].read
        PROVE  Watched(m)
    <3>1. m \in Covered(j) /\ j.read /\ j.by = Me
      BY <1>t, <2>1, <2>7, AllMarked
    <3>2. ToRead(j) BY <2>3, <3>1 DEF ToRead
    <3>3. j.upTo # 0 /\ \A l \in Theirs(j.room) :
                           l <= j.upTo => Watched(l)
      BY <3>2 DEF Full, Delivery, Reading
    <3>4. docs[m].from \in Users BY <1>t, Basics DEF Doc
    <3>5. m \in Theirs(j.room) /\ m <= j.upTo
      BY <3>1, <3>3, <3>4 DEF Covered, UpTo, Theirs, Users
    <3> QED BY <3>3, <3>5
  <2> QED BY <2>1, <2>2, <2>3, <2>5, <2>6, <2>7, Quiet
<1>7. ASSUME NEW j \in jobs, Find(j) PROVE Delivery'
  <2>1. Grown /\ Ids' = Ids /\ docs' = docs
    BY <1>t, <1>7, SameGrown DEF Find
  <2>2. Still /\ wire' = wire BY <1>7 DEF Find, Still, link, client, marks
  <2>3. j.at = "find" /\ j.room \in joined
    BY <1>7 DEF Find, Full, Delivery, Linked
  <2>4. PICK k : k = [at |-> "reply", room |-> j.room,
                      list |-> History(j.room)]
    OBVIOUS
  <2>5. k.at = "reply" /\ k.room = j.room /\ k.list = History(j.room)
        /\ jobs' = (jobs \ {j}) \cup {k}
    BY <1>7, <2>4 DEF Find
  <2>6. OfRoom(k.room, k.list) BY <1>t, <2>5, Histories
  <2>7. Theirs(k.room) \subseteq ListOf(k)
    <3>1. ASSUME NEW m \in Theirs(j.room) PROVE Me \notin docs[m].hidden
      BY <3>1, ChatAssumption DEF Theirs, Full, Conventions
    <3>2. {x.m : x \in History(j.room)} =
            {m \in Ids : docs[m].room = j.room /\ Me \notin docs[m].hidden}
      BY <1>t, Histories
    <3>3. Theirs(j.room) \subseteq {x.m : x \in History(j.room)}
      BY <3>1, <3>2 DEF Theirs
    <3> QED BY <2>5, <3>3 DEF ListOf
  <2> QED BY <2>1, <2>2, <2>3, <2>5, <2>6, <2>7, Quiet
<1> QED BY <1>1, <1>2, <1>3, <1>4, <1>5, <1>6, <1>7

\* A handler emits: jobs end, and an event may be sent.
Emits(j, e) ==
  /\ jobs' = jobs \ {j} /\ docs' = docs
  /\ \/ wire' = wire
     \/ wire' = Append(wire, e) /\ up

\* An event about messages is sent after the others: what it must meet.
LEMMA Emission ==
  ASSUME Full, Typed', Still, NEW j \in jobs, NEW e \in EventsOf(Len(docs)),
         Emits(j, e),
         wire' # wire /\ e.k = "new" =>
            j = [at |-> "announce", m |-> e.item.m]
            /\ docs[e.item.m].room = e.room,
         wire' # wire /\ e.k = "joined" =>
            j.at = "reply" /\ e.room = j.room /\ e.list = j.list,
         wire' # wire /\ e.k = "deleted" => docs[e.m].hidden # {},
         \A m \in Ids : j = [at |-> "announce", m |-> m] =>
            /\ \/ wire' = Append(wire, e) /\ e.k = "new" /\ e.item.m = m
               \/ /\ m \in missed'
                  /\ docs[m].room \notin joined
            /\ m \in upset' \/ \A h \in jobs : h.at = "reply"
                                                 => h.room # docs[m].room
  PROVE  Delivery'
<1> USE DEF Still
<1>t. Typed BY DEF Full
<1>g. Grown /\ Ids' = Ids /\ docs' = docs
  BY <1>t, SameGrown DEF Emits
<1>p. Mounted' = Mounted /\ Page' = Page BY DEF Mounted, Page
<1>e. \A m \in Ids : Excused(m) => Excused(m)' BY <1>g, ExcusedKept
<1>k. \A m \in Ids : Taken(m)' <=> Taken(m)
  BY <1>p DEF Taken, Fresh, Loading, ListOf
<1>w. /\ \A i \in DOMAIN wire : i \in DOMAIN wire' /\ wire'[i] = wire[i]
      /\ \A i \in DOMAIN wire' \ DOMAIN wire :
            /\ wire'[i] = e /\ wire' # wire /\ up
            /\ \A k \in DOMAIN wire : i > k
            /\ \A k \in DOMAIN wire' \ DOMAIN wire : k = i
      /\ wire' = Append(wire, e) =>
            \E i \in DOMAIN wire' \ DOMAIN wire : wire'[i] = e
  <2>1. wire \in Seq(EventsOf(Len(docs))) BY <1>t DEF Typed
  <2>0. Append(wire, e) # wire
    <3>1. Len(Append(wire, e)) = Len(wire) + 1 /\ Len(wire) \in Nat
      BY <2>1, Appended
    <3> QED BY <3>1
  <2>2. CASE wire' = wire BY <2>0, <2>2
  <2>3. CASE wire' = Append(wire, e) /\ up
    <3>1. /\ Len(Append(wire, e)) = Len(wire) + 1
          /\ DOMAIN Append(wire, e) = 1 .. Len(wire) + 1
          /\ DOMAIN wire = 1 .. Len(wire) /\ Len(wire) \in Nat
          /\ \A i \in 1 .. Len(wire) : Append(wire, e)[i] = wire[i]
          /\ Append(wire, e)[Len(wire) + 1] = e
      BY <2>1, Appended
    <3>2. /\ wire' # wire /\ DOMAIN wire' = 1 .. Len(wire) + 1
          /\ \A i \in 1 .. Len(wire) : wire'[i] = wire[i]
          /\ wire'[Len(wire) + 1] = e
      BY <2>0, <2>3, <3>1
    <3>3. \A i \in DOMAIN wire' \ DOMAIN wire :
             i = Len(wire) + 1 /\ \A k \in DOMAIN wire : i > k
      BY <3>1, <3>2
    <3>4. Len(wire) + 1 \in DOMAIN wire' \ DOMAIN wire BY <3>1, <3>2
    <3>5. \A i \in DOMAIN wire : i \in DOMAIN wire' /\ wire'[i] = wire[i]
      BY <3>1, <3>2
    <3> QED BY <2>3, <3>2, <3>3, <3>4, <3>5
  <2> QED BY <2>2, <2>3 DEF Emits
<1>j. \A h \in jobs' : h \in jobs /\ h # j BY DEF Emits
<1>a. \A m : Announced(m)' => Announced(m) /\ j # [at |-> "announce", m |-> m]
  BY <1>j DEF Announced
<1>b. \A m : Announced(m) => Announced(m)' \/ j = [at |-> "announce", m |-> m]
  BY DEF Announced, Emits
<1>n. \A m : InWire(m) => InWire(m)' BY <1>w DEF InWire, New
<1>c. \A m \in Ids : Announced(m) \/ InWire(m)
                        => Announced(m)' \/ InWire(m)' \/ m \in missed'
  <2> SUFFICES ASSUME NEW m \in Ids, Announced(m), ~ Announced(m)'
               PROVE  InWire(m)' \/ m \in missed'
    BY <1>n
  <2>1. j = [at |-> "announce", m |-> m] BY <1>b
  <2> QED BY <1>w, <2>1 DEF InWire, New
<1>1. Linked'
  <2>1. ~ up => wire' = <<>> /\ joined = {}
    BY DEF Full, Delivery, Linked, Emits
  <2>2. \A h \in jobs' : h.at \in {"find", "reply"} => h.room \in joined
    BY <1>j DEF Full, Delivery, Linked
  <2>3. \A i \in DOMAIN wire' : wire'[i].k = "joined"
                                  => wire'[i].room \in joined
    BY <1>w DEF Full, Delivery, Linked
  <2> QED BY <2>1, <2>2, <2>3 DEF Linked
<1>2. Wiring' BY <1>p DEF Full, Delivery, Wiring, Shown
<1>3. Erased'
  BY <1>g, <1>j, <1>w DEF Full, Delivery, Erased
<1>4. InRoom'
  <2>1. \A h \in jobs' : h.at = "reply" => OfRoom(h.room, h.list)
    BY <1>j DEF Full, Delivery, InRoom
  <2>2. \A i \in DOMAIN wire' :
          /\ wire'[i].k = "joined" => OfRoom(wire'[i].room, wire'[i].list)
          /\ wire'[i].k = "new" => docs[wire'[i].item.m].room = wire'[i].room
    BY <1>w DEF Full, Delivery, InRoom
  <2> QED BY <1>g, <1>p, <2>1, <2>2 DEF Full, Delivery, InRoom, OfRoom
<1>5. Once'
  <2> SUFFICES ASSUME NEW m \in Ids
               PROVE  /\ Announced(m)' => ~ InWire(m)'
                      /\ \A i, k \in DOMAIN wire' :
                           New(i, m)' /\ New(k, m)' => i = k
                      /\ Mounted /\ (Announced(m)' \/ InWire(m)')
                           => m \notin Page.seen
    BY <1>g, <1>p DEF Once
  <2>1. /\ Announced(m) => ~ InWire(m)
        /\ \A i, k \in DOMAIN wire : New(i, m) /\ New(k, m) => i = k
        /\ Mounted /\ (Announced(m) \/ InWire(m)) => m \notin Page.seen
    BY DEF Full, Delivery, Once
  <2>2. \A i \in DOMAIN wire : New(i, m)' <=> New(i, m) BY <1>w DEF New
  <2>3. \A i \in DOMAIN wire' \ DOMAIN wire : New(i, m)' =>
           Announced(m) /\ j = [at |-> "announce", m |-> m]
    BY <1>w DEF New, Announced
  <2>4. \A i \in DOMAIN wire : New(i, m) => InWire(m) BY DEF InWire
  <2>5. InWire(m)' => \/ InWire(m)
                      \/ /\ Announced(m)
                         /\ j = [at |-> "announce", m |-> m]
    BY <2>2, <2>3, <2>4 DEF InWire
  <2>6. ASSUME NEW i \in DOMAIN wire', NEW k \in DOMAIN wire',
               New(i, m)', New(k, m)'
        PROVE  i = k
    <3>1. CASE i \in DOMAIN wire /\ k \in DOMAIN wire
      BY <2>1, <2>2, <2>6, <3>1
    <3>2. CASE i \notin DOMAIN wire /\ k \notin DOMAIN wire
      BY <1>w, <3>2
    <3>3. CASE i \in DOMAIN wire <=> k \notin DOMAIN wire
      BY <2>1, <2>2, <2>3, <2>4, <2>6, <3>3
    <3> QED BY <3>1, <3>2, <3>3
  <2> QED BY <1>a, <2>1, <2>5, <2>6
<1>6. Complete'
  <2>1. ASSUME NEW h \in jobs', h.at = "reply", NEW m \in Theirs(h.room)
        PROVE  m \in ListOf(h) \cup upset' \/ Announced(m)'
    <3>1. m \in ListOf(h) \cup upset \/ Announced(m)
      BY <1>j, <2>1 DEF Full, Delivery, Complete
    <3>2. m \in Ids /\ docs[m].room = h.room BY DEF Theirs
    <3>3. j = [at |-> "announce", m |-> m] => m \in upset'
      BY <1>j, <2>1, <3>2
    <3> QED BY <1>b, <3>1, <3>3
  <2>2. ASSUME NEW i \in DOMAIN wire', wire'[i].k = "joined",
               NEW m \in Theirs(wire'[i].room)
        PROVE  \/ m \in ListOf(wire'[i]) \cup upset' \/ Announced(m)'
               \/ \E k \in DOMAIN wire' : k > i /\ New(k, m)'
    <3>1. m \in Ids /\ docs[m].room = wire'[i].room BY DEF Theirs
    <3>2. CASE i \in DOMAIN wire
      <4>1. \/ m \in ListOf(wire[i]) \cup upset \/ Announced(m)
            \/ \E k \in DOMAIN wire : k > i /\ New(k, m)
        BY <1>w, <2>2, <3>2 DEF Full, Delivery, Complete
      <4>2. wire'[i] = wire[i] BY <1>w, <3>2
      <4>3. CASE \E k \in DOMAIN wire : k > i /\ New(k, m)
        BY <1>w, <4>3 DEF New
      <4>4. CASE Announced(m) /\ ~ Announced(m)'
        <5>1. j = [at |-> "announce", m |-> m] BY <1>b, <4>4
        <5>2. docs[m].room \in joined
          BY <2>2, <3>1, <3>2, <4>2 DEF Full, Delivery, Linked
        <5>3. wire' = Append(wire, e) /\ e.k = "new" /\ e.item.m = m
          BY <3>1, <5>1, <5>2
        <5>4. PICK k \in DOMAIN wire' \ DOMAIN wire : wire'[k] = e
          BY <1>w, <5>3
        <5> QED BY <1>w, <3>2, <5>3, <5>4 DEF New
      <4> QED BY <4>1, <4>2, <4>3, <4>4
    <3>3. CASE i \notin DOMAIN wire
      <4>1. wire'[i] = e /\ wire' # wire BY <1>w, <3>3
      <4>2. j.at = "reply" /\ e.room = j.room /\ e.list = j.list
        BY <2>2, <4>1
      <4>3. m \in ListOf(j) \cup upset \/ Announced(m)
        BY <2>2, <4>1, <4>2 DEF Full, Delivery, Complete
      <4>4. j # [at |-> "announce", m |-> m] BY <4>2
      <4> QED BY <1>b, <4>1, <4>2, <4>3, <4>4 DEF ListOf
    <3> QED BY <3>2, <3>3
  <2>3. ASSUME Mounted, NEW h \in Page.lists, NEW m \in Theirs(h.room)
        PROVE  \/ m \in ListOf(h) \cup upset' \cup missed'
               \/ Announced(m)' \/ InWire(m)'
    <3>1. \/ m \in ListOf(h) \cup upset \cup missed
          \/ Announced(m) \/ InWire(m)
      BY <2>3 DEF Full, Delivery, Complete
    <3>2. m \in Ids BY DEF Theirs
    <3> QED BY <1>c, <3>1, <3>2
  <2> QED BY <1>g, <1>p, <2>1, <2>2, <2>3 DEF Complete, ListOf, Theirs
<1>7. Loaded'
  <2> SUFFICES ASSUME Mounted, Page.loaded, ~ crossed,
                      NEW m \in Theirs(Page.room)
               PROVE  \/ m \in Shown(Page) \/ Excused(m)'
                      \/ Announced(m)' \/ InWire(m)' \/ Taken(m)'
    BY <1>g, <1>p DEF Loaded, Theirs, Shown
  <2>1. m \in Ids BY DEF Theirs
  <2>2. m \in missed' => Excused(m)' BY DEF Excused
  <2> QED BY <1>c, <1>e, <1>k, <2>1, <2>2 DEF Full, Delivery, Loaded
<1>8. Reading'
  <2>1. ASSUME NEW m \in Ids, Watched(m) PROVE Watched(m)'
    <3>1. m \in missed' => Excused(m)' BY DEF Excused
    <3> QED BY <1>c, <1>e, <1>g, <1>k, <1>p, <2>1, <3>1 DEF Watched
  <2>2. \A h \in jobs' \cup outbox' : h \in jobs \cup outbox BY <1>j
  <2>3. \A r : Theirs(r)' = Theirs(r) /\ Theirs(r) \subseteq Ids
    BY <1>g DEF Theirs
  <2> QED BY <1>g, <2>1, <2>2, <2>3 DEF Full, Delivery, Reading, ToRead
<1> QED BY <1>1, <1>2, <1>3, <1>4, <1>5, <1>6, <1>7, <1>8 DEF Delivery

\* The steps at which something is sent to the socket.
LEMMA EmissionSteps ==
  ASSUME Full, Typed', NEW j \in jobs,
         \/ Announce(j) \/ TellReaction(j) \/ TellDeleted(j)
         \/ TellReceipt(j) \/ Reply(j)
  PROVE  Delivery'
<1>t. Typed BY DEF Full
<1>1. CASE Announce(j)
  <2> USE <1>1 DEF Announce
  <2>1. j.m \in Ids /\ j = [at |-> "announce", m |-> j.m]
    BY <1>t, AnnounceTyped
  <2>2. docs[j.m].room \in Rooms BY <1>t, <2>1, Basics DEF Doc
  <2> DEFINE r == docs[j.m].room
             x == [m |-> j.m, count |-> 0, tick |-> 0, place |-> j.m]
             new == [k |-> "new", room |-> r, item |-> x]
  <2>3. x \in Items(Len(docs)) /\ x.m = j.m BY <2>1 DEF Items, Ids
  <2>4. new \in EventsOf(Len(docs)) /\ Ping(r) \in EventsOf(Len(docs))
    BY <2>2, <2>3 DEF EventsOf, Ping
  <2>5. new.k = "new" /\ new.item = x /\ new.room = r /\ Ping(r).k = "ping"
    BY DEF Ping
  <2>6. PICK e \in EventsOf(Len(docs)) :
          e = IF r \in joined THEN new ELSE Ping(r)
    BY <2>4
  <2>7. /\ wire' = IF up THEN Append(wire, e) ELSE wire
        /\ upset' = IF \E h \in jobs : h.at = "reply" /\ h.room = r
                    THEN upset \cup {j.m} ELSE upset
        /\ missed' = IF up /\ r \in joined THEN missed
                     ELSE missed \cup {j.m}
        /\ jobs' = jobs \ {j}
        /\ UNCHANGED <<docs, joined, up, outbox, client, overlap, events>>
    BY <2>6
  <2>8. Still BY <2>7 DEF Still, client
  <2>9. Emits(j, e) BY <2>7 DEF Emits
  <2>10. e.k = "new" => e.item.m = j.m /\ e.room = r /\ r \in joined
    BY <2>3, <2>5, <2>6
  <2>11. e.k \in {"new", "ping"} BY <2>5, <2>6
  <2>12. ~ up => joined = {} BY DEF Full, Delivery, Linked
  <2>13. r \in joined => wire' = Append(wire, e) /\ e.k = "new"
    BY <2>5, <2>6, <2>7, <2>12
  <2>14. r \notin joined => j.m \in missed' BY <2>7
  <2>15. j.m \in upset' \/ \A h \in jobs : h.at = "reply" => h.room # r
    BY <2>7
  <2>16. \A m \in Ids : j = [at |-> "announce", m |-> m] => m = j.m
    BY <2>1
  <2> HIDE DEF new, x
  <2>17. \A m \in Ids : j = [at |-> "announce", m |-> m] =>
            /\ \/ wire' = Append(wire, e) /\ e.k = "new" /\ e.item.m = m
               \/ m \in missed' /\ docs[m].room \notin joined
            /\ m \in upset' \/ \A h \in jobs : h.at = "reply"
                                                 => h.room # docs[m].room
    BY <2>10, <2>13, <2>14, <2>15, <2>16
  <2>18. wire' # wire /\ e.k = "new" =>
            /\ j = [at |-> "announce", m |-> e.item.m]
            /\ docs[e.item.m].room = e.room
    BY <2>1, <2>10
  <2>19. e.k \notin {"joined", "deleted"} BY <2>11
  <2> QED BY <2>8, <2>9, <2>17, <2>18, <2>19, Emission
<1>2. CASE TellReaction(j) \/ TellDeleted(j) \/ TellReceipt(j)
  <2>1. PICK r \in Rooms, ms \in SUBSET Ids, e \in EventsOf(Len(docs)) :
          /\ Cast(r, ms, e) /\ jobs' = jobs \ {j}
          /\ UNCHANGED <<docs, joined, up, outbox, client, missed, overlap,
                         events>>
          /\ Says(j, r, ms, e)
    BY <1>t, <1>2, Cases
  <2>a. /\ j.at \in {"tell", "erased", "receipt"}
        /\ e.k \in {"deleted", "reaction", "receipt"}
        /\ e.k = "deleted" => j.at = "erased" /\ e.m = j.m
    BY <2>1 DEF Says
  <2>2. Still BY <2>1 DEF Still, client, Cast
  <2>3. Emits(j, e) BY <2>1 DEF Emits, Cast
  <2>4. e.k = "deleted" => docs[e.m].hidden # {}
    BY <2>a DEF Full, Delivery, Erased
  <2>5. \A m : j # [at |-> "announce", m |-> m] BY <2>a
  <2>6. e.k \notin {"new", "joined"} BY <2>a
  <2> QED BY <2>2, <2>3, <2>4, <2>5, <2>6, Emission
<1>3. CASE Reply(j)
  <2>1. PICK e \in EventsOf(Len(docs)) :
          e = [k |-> "joined", room |-> j.room, list |-> j.list]
    BY <1>t, <1>3, ReplyTyped
  <2>2. e.k = "joined" /\ e.room = j.room /\ e.list = j.list BY <2>1
  <2>3. j.at = "reply" /\ j.room \in joined
    BY <1>3 DEF Reply, Full, Delivery, Linked
  <2>4. up BY <2>3 DEF Full, Delivery, Linked
  <2>5. Still BY <1>3 DEF Reply, Still, client, marks
  <2>6. Emits(j, e) BY <1>3, <2>1, <2>4 DEF Reply, Emits
  <2>7. \A m : j # [at |-> "announce", m |-> m] BY <2>3
  <2> QED BY <2>2, <2>3, <2>5, <2>6, <2>7, Emission
<1> QED BY <1>1, <1>2, <1>3

\* A chat is mounted: what was on its way is not for this one's screen.
LEMMA OpenStep ==
  ASSUME Full, NEW r \in Rooms, Open(r) PROVE Delivery'
<1>t. Typed BY DEF Full
<1>o. /\ Typed' /\ Len(chats') = Len(chats) + 1
      /\ Mounted' /\ Page'.room = r /\ Page'.front
      /\ ~ Page'.ready /\ ~ Page'.wired /\ ~ Page'.closed /\ ~ Page'.loaded
      /\ Page'.active = NoRoom /\ Page'.seen = {} /\ Page'.shown = {}
      /\ Page'.lists = {} /\ Page'.fresh = {}
      /\ \A i \in DOMAIN chats : chats'[i].closed /\ ~ chats'[i].wired
      /\ onScreen' = onScreen
  BY <1>t, OpenTyped
<1>u. /\ docs' = docs /\ jobs' = jobs /\ joined' = joined /\ wire' = wire
      /\ up' = up /\ outbox' = outbox /\ upset' = upset /\ missed' = missed
      /\ unwatched' = unwatched \cup {m \in Ids : OnItsWay(m)}
  BY DEF Open, server, link, marks
<1>g. Grown /\ Ids' = Ids BY <1>t, <1>u, SameGrown
<1>d. /\ DOMAIN chats = 1 .. Len(chats) /\ Len(chats) \in Nat
      /\ DOMAIN chats' = 1 .. Len(chats) + 1
      /\ Page' = chats'[Len(chats) + 1]
      /\ Mounted => Len(chats) \in DOMAIN chats /\ Page = chats[Len(chats)]
  BY <1>t, <1>o, Basics DEF Typed, Page, Last
<1>1. Linked' BY <1>u DEF Full, Delivery, Linked
<1>2. Wiring'
  <2>1. ASSUME NEW i \in DOMAIN chats'
        PROVE  /\ chats'[i].closed <=> i < Len(chats')
               /\ chats'[i].wired => chats'[i].ready
    <3>1. CASE i \in DOMAIN chats BY <1>o, <1>d, <3>1
    <3>2. CASE i = Len(chats) + 1 BY <1>o, <1>d, <3>2
    <3> QED BY <1>d, <3>1, <3>2
  <2>2. Shown(Page)' = {} BY <1>o DEF Shown
  <2> QED BY <1>o, <2>1, <2>2 DEF Wiring
<1>3. Erased' BY <1>u DEF Full, Delivery, Erased
<1>4. InRoom' BY <1>o, <1>u DEF Full, Delivery, InRoom, OfRoom
<1>5. Once'
  BY <1>o, <1>g, <1>u DEF Full, Delivery, Once, Announced, InWire, New
<1>6. Complete'
  BY <1>o, <1>g, <1>u
     DEF Full, Delivery, Complete, Theirs, Announced, New, ListOf
<1>7. Loaded' BY <1>o DEF Loaded
<1>8. Reading'
  <2>1. \A m \in Ids : Excused(m) => Excused(m)'
    BY <1>g, <1>o, <1>u, ExcusedKept
  <2>2. ASSUME NEW m \in Ids, Watched(m) PROVE Excused(m)'
    <3>1. OnItsWay(m) => m \in unwatched' BY <1>u
    <3>2. Taken(m) /\ Mounted => OnItsWay(m)
      BY <1>d DEF Taken, OnItsWay, Loading
    <3>3. Announced(m) \/ InWire(m) => OnItsWay(m)
      BY DEF Announced, InWire, New, OnItsWay
    <3> QED BY <2>1, <2>2, <3>1, <3>2, <3>3 DEF Watched, Excused
  <2> QED BY <1>g, <1>u, <2>2 DEF Full, Delivery, Reading, Watched, Theirs
<1> QED BY <1>1, <1>2, <1>3, <1>4, <1>5, <1>6, <1>7, <1>8 DEF Delivery

\* A step of the client at which nothing arrives: the mounted chat goes from
\* p to q.
Onward(p, q) ==
  /\ q.room = p.room /\ q.active = p.active /\ q.seen = p.seen
  /\ p.wired => q.wired
  /\ q.lists \subseteq p.lists /\ q.fresh \subseteq p.fresh
  /\ Fresh(p) \cup Loading(p) \subseteq Fresh(q) \cup Loading(q) \cup Shown(q)

\* A message that a loaded chat is to show, and does not yet.
Coming(m, c) ==
  \/ Excused(m) \/ Announced(m) \/ InWire(m) \/ m \in Fresh(c) \cup Loading(c)

Inward ==
  /\ docs' = docs /\ wire' = wire /\ up' = up /\ crossed' = crossed
  /\ upset' = upset /\ missed' = missed
  /\ onScreen \subseteq onScreen' /\ unwatched \subseteq unwatched'
  /\ joined \subseteq joined' /\ (~ up => joined' = {})
  /\ jobs \subseteq jobs'
  /\ \A j \in jobs' \ jobs : \/ j.at = "find" /\ j.room \in joined'
                             \/ j.at = "see"

\* Such a step loses nothing on its way to the screen.
LEMMA Onwards ==
  ASSUME Full, Inward, Mounted, Mounted', Wiring', Onward(Page, Page'),
         ~ crossed => OfRoom(Page'.room, Page'.shown),
         Page'.loaded /\ ~ crossed => \A m \in Theirs(Page'.room) :
                                m \in Shown(Page') \/ Coming(m, Page'),
         \/ Page'.front = Page.front
         \/ Page'.front /\ ~ Page.front
         \/ \A m \in Ids : OnItsWay(m) => m \in unwatched'
  PROVE  /\ Linked' /\ Erased' /\ InRoom' /\ Once' /\ Complete' /\ Loaded'
         /\ \A m \in Ids : Watched(m) => Watched(m)'
<1> USE DEF Inward
<1>t. Typed BY DEF Full
<1>g. Grown /\ Ids' = Ids BY <1>t, SameGrown
<1>p. PICK p : p = Page OBVIOUS
<1>q. PICK q : q = Page' OBVIOUS
<1>o. Onward(p, q) BY <1>p, <1>q
<1>a. \A m : Announced(m)' <=> Announced(m)
  <2> SUFFICES ASSUME NEW m PROVE Announced(m)' <=> Announced(m)
    OBVIOUS
  <2>1. PICK j : j = [at |-> "announce", m |-> m] OBVIOUS
  <2>2. j.at = "announce" BY <2>1
  <2>3. j \in jobs' <=> j \in jobs BY <2>2
  <2> QED BY <2>1, <2>3 DEF Announced
<1>w. \A m : InWire(m)' <=> InWire(m) BY DEF InWire, New
<1>r. \A j \in jobs' : j.at \in {"reply", "erased"} => j \in jobs OBVIOUS
<1>e. \A m \in Ids : Excused(m) => Excused(m)' BY <1>g, ExcusedKept
<1>h. \A r : Theirs(r)' = Theirs(r) /\ Theirs(r) \subseteq Ids
  BY <1>g DEF Theirs
<1>1. Linked' BY DEF Full, Delivery, Linked
<1>2. Erased' BY <1>r DEF Full, Delivery, Erased
<1>3. InRoom'
  <2>1. \A j \in jobs' : j.at = "reply" => OfRoom(j.room, j.list)
    BY <1>r DEF Full, Delivery, InRoom
  <2>2. \A h \in q.lists : OfRoom(h.room, h.list)
    BY <1>p, <1>o DEF Full, Delivery, InRoom, Onward
  <2>3. ~ crossed => /\ q.active \in {NoRoom, q.room}
                     /\ \A h \in q.lists : h.room = q.room
                     /\ OfRoom(q.room, q.shown) /\ OfRoom(q.room, q.fresh)
    BY <1>p, <1>q, <1>o DEF Full, Delivery, InRoom, Onward, OfRoom
  <2> QED BY <1>q, <2>1, <2>2, <2>3 DEF Full, Delivery, InRoom, OfRoom
<1>4. Once'
  <2>1. q.seen = Page.seen BY <1>p, <1>o DEF Onward
  <2> QED BY <1>a, <1>g, <1>q, <1>w, <2>1 DEF Full, Delivery, Once, New
<1>5. Complete'
  <2>1. ASSUME NEW j \in jobs', j.at = "reply", NEW m \in Theirs(j.room)
        PROVE  m \in ListOf(j) \cup upset \/ Announced(m)
    BY <1>r, <2>1 DEF Full, Delivery, Complete
  <2>2. ASSUME NEW h \in q.lists, NEW m \in Theirs(h.room)
        PROVE  \/ m \in ListOf(h) \cup upset \cup missed
               \/ Announced(m) \/ InWire(m)
    BY <1>p, <1>o DEF Full, Delivery, Complete, Onward
  <2>3. \A i \in DOMAIN wire : wire[i].k = "joined" =>
          \A m \in Theirs(wire[i].room) :
            \/ m \in ListOf(wire[i]) \cup upset \/ Announced(m)
            \/ \E k \in DOMAIN wire : k > i /\ New(k, m)
    BY DEF Full, Delivery, Complete
  <2> QED BY <1>a, <1>h, <1>q, <1>w, <2>1, <2>2, <2>3
          DEF Complete, ListOf, New
<1>6. Loaded'
  <2>1. ASSUME NEW m \in Theirs(q.room), q.loaded, ~ crossed
        PROVE  \/ m \in Shown(q) \/ Excused(m)'
               \/ Announced(m)' \/ InWire(m)'
               \/ m \in Fresh(q) \cup Loading(q)
    <3>1. m \in Shown(q) \/ Coming(m, q) BY <1>q, <2>1
    <3> QED BY <1>a, <1>e, <1>h, <1>w, <3>1 DEF Coming
  <2> QED BY <1>h, <1>q, <2>1
          DEF Loaded, Taken, Fresh, Loading, Shown, ListOf
<1>7. ASSUME NEW m \in Ids, Watched(m) PROVE Watched(m)'
  <2>1. CASE Excused(m) BY <1>e, <2>1 DEF Watched
  <2>2. CASE ~ Excused(m)
    <3>1. /\ p.front
          /\ \/ m \in Fresh(p) \cup Loading(p)
             \/ /\ p.wired /\ p.room = docs[m].room
                /\ Announced(m) \/ InWire(m)
      BY <1>p, <2>2, <1>7 DEF Watched, Taken
    <3>2. Page \in ChatsOf(Len(docs)) /\ Len(chats) \in DOMAIN chats
          /\ Page = chats[Len(chats)]
      BY <1>t, Basics DEF Page, Last
    <3>3. OnItsWay(m)
      <4>1. m \in Fresh(p) \cup Loading(p) => OnItsWay(m)
        BY <1>p, <3>2 DEF OnItsWay, Loading
      <4>2. Announced(m) \/ InWire(m) => OnItsWay(m)
        BY DEF Announced, InWire, New, OnItsWay
      <4> QED BY <3>1, <4>1, <4>2
    <3>4. CASE m \in unwatched' BY <3>4 DEF Watched, Excused
    <3>5. CASE q.front
      <4>1. Shown(q) \subseteq onScreen'
        <5>1. Shown(Page)' \subseteq onScreen' BY <1>q, <3>5 DEF Wiring
        <5> QED BY <1>q, <5>1 DEF Shown
      <4>2. m \in Shown(q) => Excused(m)' BY <4>1 DEF Excused
      <4>3. m \in Fresh(q) \cup Loading(q) => Taken(m)'
        BY <1>q DEF Taken, Fresh, Loading, ListOf
      <4>4. docs'[m].room = docs[m].room OBVIOUS
      <4> QED BY <1>a, <1>o, <1>q, <1>w, <3>1, <3>5, <4>2, <4>3, <4>4
              DEF Watched, Onward
    <3> QED BY <1>p, <1>q, <3>1, <3>3, <3>4, <3>5
  <2> QED BY <2>1, <2>2
<1> QED BY <1>1, <1>2, <1>3, <1>4, <1>5, <1>6, <1>7

\* The chats of such a step.
LEMMA OneChatWiring ==
  ASSUME Full, NEW i \in DOMAIN chats, NEW c \in ChatsOf(Len(docs)),
         Chats([chats EXCEPT ![i] = c]), c.closed = chats[i].closed,
         c.wired => c.ready,
         \/ c.wired \/ i # Len(chats)
         \/ ~ c.loaded /\ c.lists = {} /\ c.fresh = {} /\ c.shown = {}
  PROVE  Wiring'
<1>t. Typed BY DEF Full
<1>1. /\ chats' \in Seq(ChatsOf(Len(docs))) /\ Len(chats') = Len(chats)
      /\ DOMAIN chats' = DOMAIN chats
      /\ chats'[i] = c /\ \A k \in DOMAIN chats \ {i} : chats'[k] = chats[k]
      /\ Mounted /\ Mounted' /\ Page' \in ChatsOf(Len(docs))
      /\ i = Len(chats) => Page' = c /\ Page = chats[i]
      /\ i # Len(chats) => Page' = Page
      /\ onScreen' = IF Page'.front THEN onScreen \cup Shown(Page')
                     ELSE onScreen
  BY <1>t, Swapped
<1>2. ASSUME NEW k \in DOMAIN chats
      PROVE  /\ chats'[k].closed <=> k < Len(chats)
             /\ chats'[k].wired => chats'[k].ready
  <2>1. /\ chats[k].closed <=> k < Len(chats)
        /\ chats[k].wired => chats[k].ready
    BY DEF Full, Delivery, Wiring
  <2>2. CASE k = i BY <1>1, <2>1, <2>2
  <2>3. CASE k # i BY <1>1, <2>1, <2>3
  <2> QED BY <2>2, <2>3
<1>3. PICK q : q = Page' OBVIOUS
<1>4. \/ q.wired
      \/ ~ q.loaded /\ q.lists = {} /\ q.fresh = {} /\ q.shown = {}
  <2>1. CASE i = Len(chats) BY <1>1, <1>3, <2>1
  <2>2. CASE i # Len(chats) BY <1>1, <1>3, <2>2 DEF Full, Delivery, Wiring
  <2> QED BY <2>1, <2>2
<1>5. q.front => Shown(q) \subseteq onScreen' BY <1>1, <1>3
<1> QED BY <1>1, <1>2, <1>3, <1>4, <1>5 DEF Wiring, Shown

\* Loaded, of the chat that is mounted.
LEMMA LoadedNow ==
  ASSUME Full, Mounted, Page.loaded, ~ crossed
  PROVE  \A m \in Theirs(Page.room) : m \in Shown(Page) \/ Coming(m, Page)
BY DEF Full, Delivery, Loaded, Coming, Taken

\* The reads that are under way.
LEMMA ReadingKept ==
  ASSUME Full, docs' = docs, \A m \in Ids : Watched(m) => Watched(m)',
         \A j \in jobs' \cup outbox' : ToRead(j) =>
            \/ j \in jobs \cup outbox
            \/ j.upTo # 0 /\ \A m \in Theirs(j.room) :
                               m <= j.upTo => Watched(m)'
  PROVE  Reading'
<1>1. Ids' = Ids /\ \A r : Theirs(r)' = Theirs(r) /\ Theirs(r) \subseteq Ids
  BY DEF Ids, Theirs
<1>2. ASSUME NEW j \in jobs' \cup outbox', ToRead(j)
      PROVE  j.upTo # 0 /\ \A m \in Theirs(j.room) :
                               m <= j.upTo => Watched(m)'
  BY <1>1, <1>2 DEF Full, Delivery, Reading
<1>3. \A m \in Ids : Me \in docs[m].read => Watched(m)'
  BY DEF Full, Delivery, Reading
<1> QED BY <1>1, <1>2, <1>3 DEF Reading, ToRead

\* What a chat reports as read was on the screen, or is to be.
LEMMA ShowingReads ==
  ASSUME Full, NEW i \in DOMAIN chats, NEW c \in ChatsOf(Len(docs)), NEW js,
         Showing(i, c, js), NEW s \in js, s.read, Wiring', InRoom', Loaded'
  PROVE  s.upTo # 0 /\ \A m \in Theirs(s.room) : m <= s.upTo => Watched(m)'
<1>t. Typed BY DEF Full
<1>1. /\ docs' = docs /\ crossed' = crossed /\ unwatched' = Ahead(c)
      /\ s \in MarkSeen(c) /\ c.closed = chats[i].closed
      /\ Chats([chats EXCEPT ![i] = c])
  BY DEF Showing
<1>2. /\ s.upTo \in Ids /\ s.upTo \in Shown(c) /\ c.front
      /\ s.room = docs[s.upTo].room
  BY <1>t, <1>1, Reported
<1>3. s.upTo # 0 BY <1>2 DEF Ids
<1>4. ASSUME NEW m \in Theirs(s.room), m <= s.upTo PROVE Watched(m)'
  <2>1. m \in Ids /\ docs[m].room = s.room BY DEF Theirs
  <2>2. CASE c.closed \/ ~ c.loaded \/ crossed
    <3>1. m \in Ahead(c) BY <1>1, <1>4, <2>1, <2>2 DEF Ahead
    <3> QED BY <1>1, <3>1 DEF Watched, Excused
  <2>3. CASE ~ c.closed /\ c.loaded /\ ~ crossed
    <3>1. i = Len(chats)
      BY <1>t, <1>1, <2>3, Basics DEF Full, Delivery, Wiring
    <3>2. Page' = c /\ Mounted' BY <1>t, <1>1, <3>1, Swapped
    <3>3. OfRoom(c.room, c.shown)
      <4>1. OfRoom(Page.room, Page.shown)' BY <1>1, <2>3, <3>2 DEF InRoom
      <4> QED BY <1>1, <3>2, <4>1 DEF OfRoom
    <3>4. s.room = c.room BY <1>2, <3>3 DEF OfRoom, Shown
    <3>5. m \in Theirs(Page.room)'
      BY <1>1, <2>1, <3>2, <3>4 DEF Theirs, Ids
    <3>6. \/ m \in Shown(Page)' \/ Excused(m)'
          \/ Announced(m)' \/ InWire(m)' \/ Taken(m)'
      BY <1>1, <2>3, <3>2, <3>5 DEF Loaded
    <3>7. m \in Shown(Page)' => Excused(m)'
      BY <1>2, <3>2 DEF Wiring, Excused
    <3>8. Page'.wired BY <2>3, <3>2 DEF Wiring
    <3>9. docs'[m].room = Page'.room BY <1>1, <2>1, <3>2, <3>4
    <3> QED BY <1>2, <3>2, <3>6, <3>7, <3>8, <3>9 DEF Watched
  <2> QED BY <2>2, <2>3
<1> QED BY <1>3, <1>4

\* A chat shows something and reports it.
LEMMA ShowingStep ==
  ASSUME Full, NEW i \in DOMAIN chats, NEW c \in ChatsOf(Len(docs)), NEW js,
         Showing(i, c, js),
         \/ c.wired \/ i # Len(chats)
         \/ ~ c.loaded /\ c.lists = {} /\ c.fresh = {} /\ c.shown = {},
         c.lists \subseteq chats[i].lists, c.fresh \subseteq chats[i].fresh,
         Fresh(chats[i]) \cup Loading(chats[i])
            \subseteq Fresh(c) \cup Loading(c) \cup Shown(c),
         i = Len(chats) /\ ~ crossed =>
            /\ OfRoom(c.room, c.shown)
            /\ c.loaded => \A m \in Theirs(c.room) :
                             m \in Shown(c) \/ Coming(m, c),
         \/ c.front = chats[i].front
         \/ c.front /\ ~ chats[i].front
         \/ \A m \in Ids : OnItsWay(m) => m \in unwatched'
  PROVE  Delivery'
<1>t. Typed BY DEF Full
<1>c. /\ Chats([chats EXCEPT ![i] = c]) /\ Emit(js) /\ js \subseteq MarkSeen(c)
      /\ unwatched \subseteq unwatched'
      /\ c.room = chats[i].room /\ c.ready = chats[i].ready
      /\ c.wired = chats[i].wired /\ c.closed = chats[i].closed
      /\ c.active = chats[i].active /\ c.seen = chats[i].seen
      /\ docs' = docs /\ joined' = joined /\ wire' = wire /\ up' = up
      /\ crossed' = crossed /\ upset' = upset /\ missed' = missed
  BY DEF Showing, marks
<1>1. /\ Mounted /\ Mounted' /\ onScreen \subseteq onScreen'
      /\ i = Len(chats) => Page' = c /\ Page = chats[i]
      /\ i # Len(chats) => Page' = Page
  BY <1>t, <1>c, Swapped
<1>2. js \in SUBSET Seeing(Len(docs)) /\ \A s \in js : s.at = "see"
  BY <1>t, <1>c, Reports
<1>3. /\ jobs \subseteq jobs' /\ jobs' \subseteq jobs \cup js
      /\ outbox' \subseteq outbox \cup js
  BY <1>t, <1>c, <1>2, Emitting
<1>4. ~ up => joined = {} BY DEF Full, Delivery, Linked
<1>5. Inward BY <1>c, <1>1, <1>2, <1>3, <1>4 DEF Inward
<1>6. c.wired => c.ready BY <1>c DEF Full, Delivery, Wiring
<1>7. Wiring' BY <1>c, <1>6, OneChatWiring
<1>8. Onward(Page, Page')
  <2>1. CASE i = Len(chats) BY <1>1, <1>c, <2>1 DEF Onward
  <2>2. CASE i # Len(chats) BY <1>1, <2>2 DEF Onward
  <2> QED BY <2>1, <2>2
<1>9. /\ ~ crossed => OfRoom(Page'.room, Page'.shown)
      /\ Page'.loaded /\ ~ crossed => \A m \in Theirs(Page'.room) :
                                m \in Shown(Page') \/ Coming(m, Page')
  <2>1. CASE i = Len(chats) BY <1>1, <2>1
  <2>2. CASE i # Len(chats)
    <3>1. Page' = Page BY <1>1, <2>2
    <3>2. PICK p : p = Page OBVIOUS
    <3>3. /\ ~ crossed => OfRoom(p.room, p.shown)
          /\ p.loaded /\ ~ crossed => \A m \in Theirs(p.room) :
                                m \in Shown(p) \/ Coming(m, p)
      BY <1>1, <3>2, LoadedNow DEF Full, Delivery, InRoom
    <3> QED BY <3>1, <3>2, <3>3
  <2> QED BY <2>1, <2>2
<1>10. \/ Page'.front = Page.front
       \/ Page'.front /\ ~ Page.front
       \/ \A m \in Ids : OnItsWay(m) => m \in unwatched'
  BY <1>1
<1>11. /\ Linked' /\ Erased' /\ InRoom' /\ Once' /\ Complete' /\ Loaded'
       /\ \A m \in Ids : Watched(m) => Watched(m)'
  BY <1>1, <1>5, <1>7, <1>8, <1>9, <1>10, Onwards
<1>12. ASSUME NEW j \in jobs' \cup outbox', ToRead(j),
              j \notin jobs \cup outbox
       PROVE  j.upTo # 0 /\ \A m \in Theirs(j.room) :
                               m <= j.upTo => Watched(m)'
  <2>1. j \in js /\ j.read BY <1>3, <1>12 DEF ToRead
  <2> QED BY <1>7, <1>11, <2>1, ShowingReads
<1>13. Reading' BY <1>c, <1>11, <1>12, ReadingKept
<1> QED BY <1>7, <1>11, <1>13 DEF Delivery

\* A chat listens and joins: nothing is read by that.
LEMMA KeyReadyStep ==
  ASSUME Full, NEW i \in DOMAIN chats, KeyReady(i)
  PROVE  Delivery'
<1>t. Typed BY DEF Full
<1>c. PICK c \in ChatsOf(Len(docs)) :
        /\ Chats([chats EXCEPT ![i] = c])
        /\ c = [chats[i] EXCEPT !.ready = TRUE, !.wired = TRUE,
                                !.rejoins = ~ up]
  BY <1>t, KeyReadyTyped
<1>d. chats[i] \in ChatsOf(Len(docs)) BY <1>t, Basics
<1>f. /\ c.room = chats[i].room /\ c.active = chats[i].active
      /\ c.seen = chats[i].seen /\ c.shown = chats[i].shown
      /\ c.lists = chats[i].lists /\ c.fresh = chats[i].fresh
      /\ c.loaded = chats[i].loaded /\ c.front = chats[i].front
      /\ c.closed = chats[i].closed /\ c.wired /\ c.ready
  BY <1>c, <1>d DEF ChatsOf
<1>u. /\ docs' = docs /\ wire' = wire /\ up' = up /\ crossed' = crossed
      /\ upset' = upset /\ missed' = missed /\ unwatched' = unwatched
      /\ outbox' = outbox
  BY DEF KeyReady, link, marks
<1>1. /\ Mounted /\ Mounted' /\ onScreen \subseteq onScreen'
      /\ i = Len(chats) => Page' = c /\ Page = chats[i]
      /\ i # Len(chats) => Page' = Page
  BY <1>t, <1>c, Swapped
<1>2. /\ joined \subseteq joined' /\ (~ up => joined' = {})
      /\ jobs \subseteq jobs'
      /\ \A j \in jobs' \ jobs : j.at = "find" /\ j.room \in joined'
  BY DEF KeyReady, Join, Full, Delivery, Linked
<1>5. Inward BY <1>u, <1>1, <1>2 DEF Inward
<1>7. Wiring' BY <1>c, <1>f, OneChatWiring
<1>8. PICK p, q : p = Page /\ q = Page' OBVIOUS
<1>9. /\ q.room = p.room /\ q.active = p.active /\ q.seen = p.seen
      /\ q.shown = p.shown /\ q.lists = p.lists /\ q.fresh = p.fresh
      /\ q.loaded = p.loaded /\ q.front = p.front /\ (p.wired => q.wired)
  BY <1>1, <1>8, <1>f
<1>10. Onward(p, q) BY <1>9 DEF Onward, Fresh, Loading
<1>11. /\ ~ crossed => OfRoom(p.room, p.shown)
       /\ p.loaded /\ ~ crossed => \A m \in Theirs(p.room) :
                                m \in Shown(p) \/ Coming(m, p)
  BY <1>1, <1>8, LoadedNow DEF Full, Delivery, InRoom
<1>12. /\ ~ crossed => OfRoom(q.room, q.shown)
       /\ q.loaded /\ ~ crossed => \A m \in Theirs(q.room) :
                                m \in Shown(q) \/ Coming(m, q)
  BY <1>9, <1>11 DEF Shown, Coming, Fresh, Loading
<1>13. /\ Linked' /\ Erased' /\ InRoom' /\ Once' /\ Complete' /\ Loaded'
       /\ \A m \in Ids : Watched(m) => Watched(m)'
  BY <1>1, <1>5, <1>7, <1>8, <1>9, <1>10, <1>12, Onwards
<1>14. \A j \in jobs' \cup outbox' : ToRead(j) => j \in jobs \cup outbox
  BY <1>u, <1>2 DEF ToRead
<1>15. Reading' BY <1>u, <1>13, <1>14, ReadingKept
<1> QED BY <1>7, <1>13, <1>15 DEF Delivery

\* A history is shown: it has all that is of its room.
LEMMA ShowHistoryStep ==
  ASSUME Full, NEW i \in DOMAIN chats, NEW h \in chats[i].lists,
         ShowHistory(i, h)
  PROVE  Delivery'
<1>t. Typed BY DEF Full
<1>1. PICK c \in ChatsOf(Len(docs)) : \E js :
        /\ Showing(i, c, js)
        /\ c.front = chats[i].front /\ c.fresh = chats[i].fresh
        /\ c.lists = chats[i].lists \ {h} /\ c.shown = h.list /\ c.loaded
  BY <1>t, ShowHistoryParts
<1>2. PICK js : Showing(i, c, js) BY <1>1
<1>3. c.room = chats[i].room /\ c.wired = chats[i].wired
  BY <1>2 DEF Showing
<1>4. Mounted /\ (i = Len(chats) => Page = chats[i])
  BY <1>t, <1>2, Swapped DEF Showing
<1>5. c.wired \/ i # Len(chats)
  BY <1>3, <1>4 DEF Full, Delivery, Wiring
<1>6. Shown(c) = ListOf(h) BY <1>1 DEF Shown, ListOf
<1>7. Loading(chats[i]) \subseteq Loading(c) \cup ListOf(h)
  BY <1>1 DEF Loading
<1>8. Fresh(c) = Fresh(chats[i]) BY <1>1 DEF Fresh
<1>9. ASSUME i = Len(chats), ~ crossed
      PROVE  /\ OfRoom(c.room, c.shown)
             /\ \A m \in Theirs(c.room) : m \in Shown(c) \/ Coming(m, c)
  <2>1. Page = chats[i] BY <1>4, <1>9
  <2>2. h.room = c.room /\ OfRoom(h.room, h.list)
    BY <1>3, <1>4, <1>9, <2>1 DEF Full, Delivery, InRoom
  <2>3. \A m \in Theirs(h.room) :
          \/ m \in ListOf(h) \cup upset \cup missed
          \/ Announced(m) \/ InWire(m)
    BY <1>4, <2>1 DEF Full, Delivery, Complete
  <2> QED BY <1>1, <1>6, <2>2, <2>3 DEF Coming, Excused
<1> QED BY <1>1, <1>2, <1>5, <1>6, <1>7, <1>8, <1>9, ShowingStep

\* A new message is shown.
LEMMA ShowNewStep ==
  ASSUME Full, NEW i \in DOMAIN chats, NEW x \in chats[i].fresh, ShowNew(i, x)
  PROVE  Delivery'
<1>t. Typed BY DEF Full
<1>1. PICK c \in ChatsOf(Len(docs)) : \E js :
        /\ Showing(i, c, js) /\ x.m \in Ids
        /\ c.front = chats[i].front /\ c.fresh = chats[i].fresh \ {x}
        /\ c.lists = chats[i].lists /\ c.loaded = chats[i].loaded
        /\ Shown(c) = Shown(chats[i]) \cup {x.m}
  BY <1>t, ShowNewParts
<1>2. PICK js : Showing(i, c, js) BY <1>1
<1>3. c.room = chats[i].room /\ c.wired = chats[i].wired
  BY <1>2 DEF Showing
<1>4. Mounted /\ (i = Len(chats) => Page = chats[i])
  BY <1>t, <1>2, Swapped DEF Showing
<1>5. c.wired \/ i # Len(chats)
  BY <1>3, <1>4 DEF Full, Delivery, Wiring
<1>6. Loading(c) = Loading(chats[i]) BY <1>1 DEF Loading
<1>7. Fresh(chats[i]) \subseteq Fresh(c) \cup {x.m}
  BY <1>1 DEF Fresh
<1>9. ASSUME i = Len(chats), ~ crossed
      PROVE  /\ OfRoom(c.room, c.shown)
             /\ c.loaded => \A m \in Theirs(c.room) :
                              m \in Shown(c) \/ Coming(m, c)
  <2>1. Page = chats[i] BY <1>4, <1>9
  <2>2. \A m \in Shown(chats[i]) \cup {x.m} : docs[m].room = c.room
    BY <1>3, <1>4, <1>9, <2>1 DEF Full, Delivery, InRoom, OfRoom, Shown
  <2>3. OfRoom(c.room, c.shown)
    <3>1. \A y \in c.shown : y.m \in Shown(c) BY DEF Shown
    <3> QED BY <1>1, <2>2, <3>1 DEF OfRoom
  <2>4. ASSUME c.loaded, NEW m \in Theirs(c.room)
        PROVE  m \in Shown(c) \/ Coming(m, c)
    <3>1. m \in Shown(Page) \/ Coming(m, Page)
      BY <1>1, <1>3, <1>4, <1>9, <2>1, <2>4, LoadedNow
    <3> QED BY <1>1, <1>6, <1>7, <2>1, <3>1 DEF Coming
  <2> QED BY <2>3, <2>4
<1> QED BY <1>1, <1>2, <1>5, <1>6, <1>7, <1>9, ShowingStep

\* The page is hidden, when what is on its way is noted, or seen again.
LEMMA SetForegroundStep == ASSUME Full, SetForeground PROVE Delivery'
<1>t. Typed BY DEF Full
<1>1. PICK c \in ChatsOf(Len(docs)) : \E js :
        /\ Showing(Len(chats), c, js) /\ Mounted
        /\ c.front = ~ Page.front /\ c.fresh = Page.fresh
        /\ c.lists = Page.lists /\ c.loaded = Page.loaded
        /\ c.shown = Page.shown
        /\ ~ c.front => \A m \in Ids : OnItsWay(m) => m \in unwatched'
  BY <1>t, SetForegroundParts
<1>2. PICK js : Showing(Len(chats), c, js) BY <1>1
<1>i. PICK i \in DOMAIN chats : i = Len(chats) BY <1>t, <1>1, Basics
<1>3. Showing(i, c, js) BY <1>2, <1>i
<1>4. c.room = chats[i].room /\ c.wired = chats[i].wired
  BY <1>3 DEF Showing
<1>5. PICK p \in ChatsOf(Len(docs)) : p = Page /\ p = chats[i]
  BY <1>t, <1>1, <1>i, Basics DEF Page, Last
<1>6. \/ c.wired
      \/ ~ c.loaded /\ c.lists = {} /\ c.fresh = {} /\ c.shown = {}
  BY <1>1, <1>4, <1>5 DEF Full, Delivery, Wiring
<1>7. /\ Shown(c) = Shown(p) /\ Fresh(c) = Fresh(p)
      /\ Loading(c) = Loading(p)
  BY <1>1, <1>5 DEF Shown, Fresh, Loading
<1>8. ~ crossed =>
        /\ OfRoom(c.room, c.shown)
        /\ c.loaded => \A m \in Theirs(c.room) :
                         m \in Shown(c) \/ Coming(m, c)
  <2> SUFFICES ASSUME ~ crossed
               PROVE  /\ OfRoom(c.room, c.shown)
                      /\ c.loaded => \A m \in Theirs(c.room) :
                                       m \in Shown(c) \/ Coming(m, c)
    OBVIOUS
  <2>1. OfRoom(p.room, p.shown)
    BY <1>1, <1>5 DEF Full, Delivery, InRoom
  <2>2. p.loaded => \A m \in Theirs(p.room) : m \in Shown(p) \/ Coming(m, p)
    BY <1>1, <1>5, LoadedNow
  <2> QED BY <1>1, <1>4, <1>5, <1>7, <2>1, <2>2 DEF Coming
<1>9. p.front \in BOOLEAN /\ c.front = ~ p.front BY <1>1, <1>5 DEF ChatsOf
<1> QED BY <1>1, <1>3, <1>5, <1>6, <1>7, <1>8, <1>9, ShowingStep

\* The socket takes an event: what it is, and what stays.
Arrival(e) ==
  /\ e = Head(wire) /\ 1 \in DOMAIN wire /\ e = wire[1]
  /\ \A i \in DOMAIN wire' : /\ i + 1 \in DOMAIN wire /\ i \in Nat /\ i >= 1
                             /\ wire'[i] = wire[i + 1]
  /\ \A i \in DOMAIN wire \ {1} : /\ i \in Nat /\ i - 1 \in DOMAIN wire'
                                  /\ wire'[i - 1] = wire[i]
  /\ jobs' = jobs /\ joined' = joined /\ up' = up /\ outbox' = outbox
  /\ unwatched' = unwatched /\ onScreen \subseteq onScreen'
  /\ upset \subseteq upset' /\ Ids' = Ids
  /\ \A m \in Ids : /\ docs'[m].room = docs[m].room
                    /\ docs'[m].from = docs[m].from
                    /\ docs'[m].hidden = docs[m].hidden
                    /\ docs'[m].read = docs[m].read
  /\ \A r : Theirs(r)' = Theirs(r) /\ Theirs(r) \subseteq Ids
  /\ \A m : Announced(m)' <=> Announced(m)
  /\ \A m : InWire(m)' => InWire(m)
  /\ \A m : InWire(m) => InWire(m)' \/ New(1, m)
  /\ Mounted' = Mounted

\* Such an event is there when Receive is possible.
LEMMA Arriving ==
  ASSUME Typed, Receive
  PROVE  \E e \in EventsOf(Len(docs)) : Arrival(e)
<1>1. PICK e \in EventsOf(Len(docs)) :
           /\ e = Head(wire) /\ 1 \in DOMAIN wire /\ e = wire[1]
           /\ \A i \in DOMAIN wire' : /\ i + 1 \in DOMAIN wire
                                      /\ wire'[i] = wire[i + 1]
           /\ \A i \in DOMAIN wire \ {1} : /\ i - 1 \in DOMAIN wire'
                                           /\ wire'[i - 1] = wire[i]
           /\ DOMAIN wire' \subseteq Nat /\ DOMAIN wire \subseteq Nat
           /\ wire' \in Seq(EventsOf(Len(docs)))
  BY ReceiveParts
<1>2. /\ jobs' = jobs /\ joined' = joined /\ up' = up /\ outbox' = outbox
      /\ unwatched' = unwatched /\ upset \subseteq upset'
  BY DEF Receive
<1>3. /\ Ids' = Ids
      /\ \A m \in Ids : /\ docs'[m].room = docs[m].room
                        /\ docs'[m].from = docs[m].from
                        /\ docs'[m].hidden = docs[m].hidden
                        /\ docs'[m].read = docs[m].read
  BY ReceiveDocs DEF Grown
<1>4. onScreen \subseteq onScreen' /\ Mounted' = Mounted BY ReceiveChats
<1>5. \A r : Theirs(r)' = Theirs(r) /\ Theirs(r) \subseteq Ids
  BY <1>3 DEF Theirs
<1>6. \A m : Announced(m)' <=> Announced(m) BY <1>2 DEF Announced
<1>7. \A i \in DOMAIN wire' : i >= 1 BY <1>1
<1>8. ASSUME NEW m, InWire(m)' PROVE InWire(m)
  <2>1. PICK i \in DOMAIN wire' : New(i, m)' BY <1>8 DEF InWire
  <2>2. i + 1 \in DOMAIN wire /\ New(i + 1, m) BY <1>1, <2>1 DEF New
  <2> QED BY <2>2 DEF InWire
<1>9. ASSUME NEW m, InWire(m), ~ New(1, m) PROVE InWire(m)'
  <2>1. PICK i \in DOMAIN wire : New(i, m) BY <1>9 DEF InWire
  <2>2. i - 1 \in DOMAIN wire' /\ wire'[i - 1] = wire[i] BY <1>1, <1>9, <2>1
  <2>3. New(i - 1, m)' BY <2>1, <2>2 DEF New
  <2> QED BY <2>2, <2>3 DEF InWire
<1>10. Arrival(e)
  BY <1>1, <1>2, <1>3, <1>4, <1>5, <1>6, <1>7, <1>8, <1>9 DEF Arrival
<1> QED BY <1>10

\* ... and the mounted chat goes from p to q.
Arrived(e, p, q) ==
  /\ Mounted /\ p = Page /\ q = Page'
  /\ q = Take(p, e) /\ q.room = p.room /\ q.front = p.front
  /\ q.wired = p.wired /\ (~ p.wired => q = p)
  /\ q.front => Shown(q) \subseteq onScreen'
  /\ upset' = upset \cup Meets(p, e)
  /\ missed' = IF ~ p.wired THEN missed
               ELSE IF e.k = "joined" /\ p.front THEN missed \ ListOf(e)
               ELSE IF e.k = "new" /\ Foreign(p, e.room) /\ e.room = p.room
               THEN missed \cup {e.item.m} ELSE missed
  /\ crossed => crossed'
  /\ ~ crossed' /\ p.wired /\ e.k \in {"joined", "new"} /\ e.room # p.room
       => e.k = "new" /\ p.active = p.room
  /\ p.lists \subseteq q.lists /\ p.fresh \subseteq q.fresh
  /\ e.k # "joined" \/ ~ p.wired => q.lists = p.lists /\ q.active = p.active
                                    /\ q.loaded = p.loaded
  /\ e.k # "new" \/ ~ p.wired => q.fresh = p.fresh /\ q.seen = p.seen
  /\ e.k \notin {"joined", "deleted"} \/ ~ p.wired => Shown(q) = Shown(p)
  /\ p.wired /\ e.k = "joined" =>
              /\ q.active = e.room
              /\ e.list = {} => q.loaded /\ Shown(q) = {} /\ q.lists = p.lists
              /\ e.list # {} => /\ q.loaded = p.loaded /\ Shown(q) = Shown(p)
                                /\ q.lists = p.lists \cup {e}
  /\ p.wired /\ e.k = "deleted" => Shown(q) = Shown(p) \ {e.m}
  /\ p.wired /\ e.k = "new" =>
              \/ q = p /\ Foreign(p, e.room)
              \/ q = p /\ e.item.m \in p.seen \cup Shown(p)
              \/ /\ ~ Foreign(p, e.room) /\ e.item.m \notin p.seen
                 /\ q.seen = p.seen \cup {e.item.m}
                 /\ q.fresh = p.fresh \cup {e.item}

\* Such a chat too.
LEMMA Arrivals ==
  ASSUME Typed, Receive, Mounted, NEW e \in EventsOf(Len(docs)), Arrival(e)
  PROVE  \E p, q \in ChatsOf(Len(docs)) : Arrived(e, p, q)
<1>e. e = Head(wire) BY DEF Arrival
<1>n. Len(docs) \in Nat BY Basics
<1>p. PICK p \in ChatsOf(Len(docs)) : p = Page BY Basics
<1>q. PICK q \in ChatsOf(Len(docs)) :
        /\ q = Page' /\ q = Take(p, e)
        /\ q.front => Shown(q) \subseteq onScreen'
  <2>1. PICK q \in ChatsOf(Len(docs)) : q = Page' /\ q = Take(p, e)
    BY <1>e, <1>p, ReceiveChats
  <2>2. Page'.front => Shown(Page') \subseteq onScreen' BY ReceiveChats
  <2> QED BY <2>1, <2>2
<1>1. /\ q.room = p.room /\ q.front = p.front
      /\ q.wired = p.wired /\ (~ p.wired => q = p)
  BY <1>n, <1>q, Taking
<1>2. upset' = upset \cup Meets(p, e)
  BY <1>e, <1>p DEF Receive, Mounted, Page
<1>3. missed' = IF ~ p.wired THEN missed
               ELSE IF e.k = "joined" /\ p.front THEN missed \ ListOf(e)
               ELSE IF e.k = "new" /\ Foreign(p, e.room) /\ e.room = p.room
               THEN missed \cup {e.item.m} ELSE missed
  BY <1>e, <1>p DEF Receive, Mounted, Page
<1>4. /\ crossed => crossed'
      /\ ~ crossed' /\ p.wired /\ e.k \in {"joined", "new"}
         /\ e.room # p.room => e.k = "new" /\ p.active = p.room
  <2>1. PICK b \in BOOLEAN :
          b = (/\ p.wired /\ e.k \in {"joined", "new"}
               /\ e.room # p.room
               /\ e.k = "new" => p.active # p.room)
    OBVIOUS
  <2>2. crossed' = (crossed \/ b)
    BY <1>e, <1>p, <2>1 DEF Receive, Mounted, Page
  <2> QED BY <2>1, <2>2
<1>5. p.wired =>
         /\ e.k # "joined" => /\ q.lists = p.lists /\ q.active = p.active
                              /\ q.loaded = p.loaded
         /\ e.k # "new" => q.fresh = p.fresh /\ q.seen = p.seen
         /\ e.k \notin {"joined", "deleted"} => Shown(q) = Shown(p)
         /\ e.k = "joined" =>
              /\ q.active = e.room
              /\ e.list = {} => /\ q.loaded /\ Shown(q) = {}
                                /\ q.lists = p.lists
              /\ e.list # {} => /\ q.loaded = p.loaded
                                /\ q.shown = p.shown
                                /\ q.lists = p.lists \cup {e}
         /\ e.k = "deleted" => Shown(q) = Shown(p) \ {e.m}
         /\ e.k = "new" =>
              \/ q = p /\ Foreign(p, e.room)
              \/ q = p /\ e.item.m \in p.seen \cup Shown(p)
              \/ /\ ~ Foreign(p, e.room) /\ e.item.m \notin p.seen
                 /\ q.seen = p.seen \cup {e.item.m}
                 /\ q.fresh = p.fresh \cup {e.item}
  <2>1. PICK n \in Nat : n = Len(docs) BY <1>n
  <2> QED BY <1>q, <2>1, TakingLists
<1>6. p.lists \subseteq q.lists /\ p.fresh \subseteq q.fresh
  <2>1. CASE ~ p.wired BY <1>1, <2>1
  <2>2. CASE p.wired
    <3>1. p.lists \subseteq q.lists BY <1>5, <2>2
    <3>2. p.fresh \subseteq q.fresh BY <1>5, <2>2
    <3> QED BY <3>1, <3>2
  <2> QED BY <2>1, <2>2
<1>7. p.wired /\ e.k = "joined" =>
        /\ q.active = e.room
        /\ e.list = {} => q.loaded /\ Shown(q) = {} /\ q.lists = p.lists
        /\ e.list # {} => /\ q.loaded = p.loaded /\ Shown(q) = Shown(p)
                          /\ q.lists = p.lists \cup {e}
  BY <1>5 DEF Shown
<1>8. Arrived(e, p, q)
  <2>1. CASE ~ p.wired
    BY <1>p, <1>q, <1>1, <1>2, <1>3, <1>4, <2>1 DEF Arrived
  <2>2. CASE p.wired
    BY <1>p, <1>q, <1>1, <1>2, <1>3, <1>4, <1>5, <1>6, <1>7, <2>2
       DEF Arrived
  <2> QED BY <2>1, <2>2
<1> QED BY <1>8

\* A message of the mounted chat's room that arrives is taken, was already
\* on the list, or is lost to a chat that took another's room.
LEMMA NewTaken ==
  ASSUME Full, NEW e, NEW p, NEW q, Arrival(e), Arrived(e, p, q),
         NEW m \in Ids, New(1, m), p.wired, p.room = docs[m].room
  PROVE  m \in missed' \cup Shown(q) \cup Fresh(q)
<1>1. e.k = "new" /\ e.item.m = m BY DEF Arrival, New
<1>2. m \notin p.seen
  <2>1. InWire(m) BY DEF Arrival, InWire
  <2> QED BY <2>1 DEF Full, Delivery, Once, Arrived
<1>3. e.room = p.room
  BY <1>1 DEF Full, Delivery, InRoom, Arrival
<1>4. CASE Foreign(p, e.room) BY <1>1, <1>3, <1>4 DEF Arrived
<1>5. CASE q = p /\ m \in Shown(p) BY <1>5
<1>6. CASE q.fresh = p.fresh \cup {e.item}
  BY <1>1, <1>6 DEF Fresh
<1> QED BY <1>1, <1>2, <1>4, <1>5, <1>6 DEF Arrived

\* Every message of a history's room comes after the history or is in it.
LEMMA HistoryFull ==
  ASSUME Full, NEW e, Arrival(e), e.k = "joined", NEW m \in Theirs(e.room)
  PROVE  m \in ListOf(e) \cup upset' \/ Announced(m)' \/ InWire(m)'
<1>1. \/ m \in ListOf(e) \cup upset \/ Announced(m)
      \/ \E k \in DOMAIN wire : k > 1 /\ New(k, m)
  BY DEF Full, Delivery, Complete, Arrival
<1>2. ASSUME NEW k \in DOMAIN wire, k > 1, New(k, m) PROVE InWire(m)'
  <2>1. k - 1 \in DOMAIN wire' /\ wire'[k - 1] = wire[k]
    BY <1>2 DEF Arrival
  <2>2. New(k - 1, m)' BY <1>2, <2>1 DEF New
  <2> QED BY <2>1, <2>2 DEF InWire
<1> QED BY <1>1, <1>2 DEF Arrival

\* A message missed is missed until a history has it.
LEMMA StillMissed ==
  ASSUME NEW e, NEW p, NEW q, Arrived(e, p, q), NEW m \in missed
  PROVE  \/ m \in missed'
         \/ /\ p.wired /\ e.k = "joined" /\ m \in ListOf(e) /\ m \in Loading(q)
            /\ p.lists # {} => m \in upset'
<1> SUFFICES ASSUME m \notin missed'
             PROVE  /\ p.wired /\ e.k = "joined" /\ m \in ListOf(e)
                    /\ m \in Loading(q) /\ (p.lists # {} => m \in upset')
  OBVIOUS
<1>1. p.wired /\ e.k = "joined" /\ m \in ListOf(e) BY DEF Arrived
<1>2. e.list # {} BY <1>1 DEF ListOf
<1>3. e \in q.lists BY <1>1, <1>2 DEF Arrived
<1>4. m \in Loading(q) BY <1>1, <1>3 DEF Loading
<1>5. p.lists # {} => m \in Meets(p, e) BY <1>1 DEF Meets
<1> QED BY <1>1, <1>4, <1>5 DEF Arrived

\* An event taken: the link and the deletes,
LEMMA ReceiveLinked ==
  ASSUME Full, NEW e, Arrival(e)
  PROVE  Linked' /\ Erased'
<1>1. up BY DEF Full, Delivery, Linked, Arrival
<1>2. \A i \in DOMAIN wire' : wire'[i].k = "joined"
                                => wire'[i].room \in joined'
  BY DEF Full, Delivery, Linked, Arrival
<1>3. \A j \in jobs' : j.at \in {"find", "reply"} => j.room \in joined'
  BY DEF Full, Delivery, Linked, Arrival
<1>t. Typed BY DEF Full
<1>4. \A j \in jobs' : j.at = "erased" => docs'[j.m].hidden # {}
  BY <1>t, Named DEF Full, Delivery, Erased, Arrival
<1>5. ASSUME NEW i \in DOMAIN wire', wire'[i].k = "deleted"
      PROVE  docs'[wire'[i].m].hidden # {}
  <2>1. PICK k \in DOMAIN wire : wire'[i] = wire[k] BY DEF Arrival
  <2>2. wire[k].m \in Ids /\ docs[wire[k].m].hidden # {}
    BY <1>t, <1>5, <2>1, Named DEF Full, Delivery, Erased
  <2> QED BY <2>1, <2>2 DEF Arrival
<1> QED BY <1>1, <1>2, <1>3, <1>4, <1>5 DEF Linked, Erased, Arrival

\* the chats,
LEMMA ReceiveWiring ==
  ASSUME Full, Receive, NEW e, Arrival(e),
         Mounted => \E p, q \in ChatsOf(Len(docs)) : Arrived(e, p, q)
  PROVE  Wiring'
<1>t. Typed BY DEF Full
<1>1. /\ Len(chats') = Len(chats) /\ DOMAIN chats' = DOMAIN chats
      /\ Mounted' = Mounted
      /\ \A i \in DOMAIN chats : chats'[i] = Take(chats[i], Head(wire))
  BY <1>t, ReceiveChats
<1>2. ASSUME NEW i \in DOMAIN chats
      PROVE  /\ chats'[i].closed <=> i < Len(chats)
             /\ chats'[i].wired => chats'[i].ready
  <2>n. PICK n \in Nat : n = Len(docs) BY <1>t, Basics
  <2>h. PICK c \in ChatsOf(n), h \in EventsOf(n) :
          c = chats[i] /\ h = Head(wire)
    BY <1>t, <2>n, Basics, ReceiveParts
  <2>d. PICK d : d = Take(c, h) OBVIOUS
  <2>1. c = chats[i] /\ h = Head(wire) /\ d = Take(c, h) BY <2>h, <2>d
  <2>2. /\ d.ready = c.ready /\ d.wired = c.wired /\ d.closed = c.closed
    BY <2>1, Taking
  <2>3. /\ c.closed <=> i < Len(chats)
        /\ c.wired => c.ready
    BY <2>1 DEF Full, Delivery, Wiring
  <2> QED BY <1>1, <2>1, <2>2, <2>3
<1>3. ASSUME Mounted
      PROVE  /\ \/ Page'.wired
                \/ /\ ~ Page'.loaded
                   /\ Page'.lists = {} /\ Page'.fresh = {} /\ Page'.shown = {}
             /\ Page'.front => Shown(Page)' \subseteq onScreen'
  <2>1. PICK p, q \in ChatsOf(Len(docs)) : Arrived(e, p, q) BY <1>3
  <2>2. /\ p = Page /\ q = Page' /\ q.wired = p.wired /\ (~ p.wired => q = p)
        /\ q.front => Shown(q) \subseteq onScreen'
    BY <2>1 DEF Arrived
  <2>3. \/ p.wired
        \/ ~ p.loaded /\ p.lists = {} /\ p.fresh = {} /\ p.shown = {}
    BY <1>3, <2>2 DEF Full, Delivery, Wiring
  <2>4. \/ q.wired
        \/ ~ q.loaded /\ q.lists = {} /\ q.fresh = {} /\ q.shown = {}
    <3>1. CASE p.wired BY <2>2, <3>1
    <3>2. CASE ~ p.wired BY <2>2, <2>3, <3>2
    <3> QED BY <3>1, <3>2
  <2> QED BY <2>2, <2>4 DEF Shown
<1> QED BY <1>1, <1>2, <1>3 DEF Wiring

\* A list is of a room when its messages are.
LEMMA OfRoomShown ==
  /\ \A r, c : OfRoom(r, c.shown) <=> \A m \in Shown(c) : docs[m].room = r
  /\ \A r, c : OfRoom(r, c.fresh) <=> \A m \in Fresh(c) : docs[m].room = r
BY DEF OfRoom, Shown, Fresh

\* the rooms of what is listed, unless the chat is crossed,
LEMMA ReceiveInRoom ==
  ASSUME Full, NEW e \in EventsOf(Len(docs)), Arrival(e),
         Mounted => \E p, q \in ChatsOf(Len(docs)) : Arrived(e, p, q)
  PROVE  InRoom'
<1>t. Typed BY DEF Full
<1>i. InRoom BY DEF Full, Delivery
<1>k. \A r, l : l \subseteq Items(Len(docs)) /\ OfRoom(r, l) => OfRoom(r, l)'
  <2> SUFFICES ASSUME NEW r, NEW l, l \subseteq Items(Len(docs)), OfRoom(r, l)
               PROVE  OfRoom(r, l)'
    OBVIOUS
  <2>1. \A x \in l : x.m \in Ids BY DEF Items, Ids
  <2> QED BY <2>1 DEF OfRoom, Arrival
<1>1. ASSUME NEW j \in jobs', j.at = "reply" PROVE OfRoom(j.room, j.list)'
  <2>1. PICK r, l : r = j.room /\ l = j.list OBVIOUS
  <2>2. j \in jobs BY DEF Arrival
  <2>3. l \subseteq Items(Len(docs)) /\ OfRoom(r, l)
    BY <1>i, <1>t, <1>1, <2>1, <2>2, Named DEF InRoom
  <2>4. OfRoom(r, l)' BY <1>k, <2>3
  <2> QED BY <2>1, <2>4
<1>2. ASSUME NEW i \in DOMAIN wire'
      PROVE  /\ wire'[i].k = "joined" =>
                  OfRoom(wire[i].room, wire[i].list)'
             /\ wire'[i].k = "new" =>
                  docs'[wire'[i].item.m].room = wire'[i].room
  <2>1. PICK k \in DOMAIN wire : wire'[i] = wire[k] BY DEF Arrival
  <2>2. PICK d : d = wire[k] OBVIOUS
  <2>3. ASSUME d.k = "joined" PROVE OfRoom(d.room, d.list)'
    <3>1. PICK r, l : r = d.room /\ l = d.list OBVIOUS
    <3>2. l \subseteq Items(Len(docs)) /\ OfRoom(r, l)
      BY <1>i, <1>t, <2>2, <2>3, <3>1, Named DEF InRoom
    <3>3. OfRoom(r, l)' BY <1>k, <3>2
    <3> QED BY <3>1, <3>3
  <2>4. ASSUME d.k = "new" PROVE docs'[d.item.m].room = d.room
    BY <1>i, <1>t, <2>2, <2>4, Named DEF InRoom, Arrival
  <2> QED BY <2>1, <2>2, <2>3, <2>4 DEF OfRoom
<1>3. ASSUME Mounted
      PROVE  /\ \A h \in Page'.lists : OfRoom(h.room, h.list)'
             /\ ~ crossed' =>
                  /\ Page'.active \in {NoRoom, Page'.room}
                  /\ \A h \in Page'.lists : h.room = Page'.room
                  /\ OfRoom(Page.room, Page.shown)'
                  /\ OfRoom(Page.room, Page.fresh)'
  <2>p. PICK p, q \in ChatsOf(Len(docs)) : Arrived(e, p, q) BY <1>3
  <2>q. p = Page /\ q = Page' /\ q.room = p.room BY <2>p DEF Arrived
  <2>l. q.lists \subseteq p.lists
          \cup (IF p.wired /\ e.k = "joined" THEN {e} ELSE {})
    BY <2>p DEF Arrived
  <2>1. ASSUME NEW h \in q.lists PROVE OfRoom(h.room, h.list)'
    <3>1. PICK r, l : r = h.room /\ l = h.list OBVIOUS
    <3>2. l \subseteq Items(Len(docs)) BY <3>1 DEF ChatsOf, Joineds
    <3>3. CASE h \in p.lists
      <4>1. OfRoom(r, l) BY <1>3, <1>i, <2>q, <3>1, <3>3 DEF InRoom
      <4> QED BY <1>k, <3>1, <3>2, <4>1
    <3>4. CASE h \notin p.lists
      <4>1. h = e /\ e.k = "joined" BY <2>l, <3>4
      <4>2. OfRoom(r, l) BY <1>i, <3>1, <4>1 DEF InRoom, Arrival
      <4> QED BY <1>k, <3>1, <3>2, <4>2
    <3> QED BY <3>3, <3>4
  <2>2. ASSUME ~ crossed'
        PROVE  /\ q.active \in {NoRoom, q.room}
               /\ \A h \in q.lists : h.room = q.room
               /\ OfRoom(q.room, q.shown)'
               /\ OfRoom(q.room, q.fresh)'
    <3>c. ~ crossed BY <2>2, <2>p DEF Arrived
    <3>p. /\ p.active \in {NoRoom, p.room}
          /\ \A h \in p.lists : h.room = p.room
          /\ \A m \in Shown(p) : docs[m].room = p.room
          /\ \A m \in Fresh(p) : docs[m].room = p.room
      BY <1>3, <1>i, <2>q, <3>c, OfRoomShown DEF InRoom
    <3>j. p.wired /\ e.k = "joined" => e.room = p.room
      BY <2>p, <2>2 DEF Arrived
    <3>1. q.active \in {NoRoom, q.room}
      <4>1. CASE p.wired /\ e.k = "joined"
        BY <2>p, <2>q, <3>j, <4>1 DEF Arrived
      <4>2. CASE e.k # "joined" \/ ~ p.wired
        BY <2>p, <2>q, <3>p, <4>2 DEF Arrived
      <4> QED BY <4>1, <4>2
    <3>2. \A h \in q.lists : h.room = q.room
      BY <2>l, <2>q, <3>j, <3>p
    <3>3. Shown(q) \subseteq Shown(p)
      <4>1. CASE p.wired /\ e.k = "joined"
        BY <2>p, <4>1 DEF Arrived
      <4>2. CASE p.wired /\ e.k = "deleted"
        BY <2>p, <4>2 DEF Arrived
      <4>3. CASE e.k \notin {"joined", "deleted"} \/ ~ p.wired
        BY <2>p, <4>3 DEF Arrived
      <4> QED BY <4>1, <4>2, <4>3
    <3>4. ASSUME NEW x \in q.fresh, x \notin p.fresh
          PROVE  docs[x.m].room = p.room
      <4>1. p.wired /\ e.k = "new" /\ x = e.item /\ ~ Foreign(p, e.room)
        BY <2>p, <3>4 DEF Arrived
      <4>2. docs[x.m].room = e.room
        BY <1>i, <4>1 DEF InRoom, Arrival
      <4>3. p.room # NoRoom BY ChatAssumption DEF ChatsOf
      <4>4. CASE e.room # p.room
        <5>1. p.active = p.room BY <2>p, <2>2, <4>1, <4>4 DEF Arrived
        <5> QED BY <4>1, <4>3, <4>4, <5>1 DEF Foreign
      <4> QED BY <4>2, <4>4
    <3>5. \A m \in Fresh(q) : docs[m].room = p.room
      BY <3>4, <3>p DEF Fresh
    <3>6. Shown(q) \subseteq Ids /\ Fresh(q) \subseteq Ids
      BY DEF ChatsOf, Shown, Fresh, Items, Ids
    <3>7. /\ \A m \in Shown(q) : docs'[m].room = q.room
          /\ \A m \in Fresh(q) : docs'[m].room = q.room
      BY <2>q, <3>3, <3>5, <3>6, <3>p DEF Arrival
    <3>8. OfRoom(q.room, q.shown)' /\ OfRoom(q.room, q.fresh)'
      BY <2>q, <3>7 DEF OfRoom, Shown, Fresh
    <3> QED BY <3>1, <3>2, <3>8
  <2> QED BY <2>q, <2>1, <2>2 DEF OfRoom
<1>4. Mounted' = Mounted BY DEF Arrival
<1> QED BY <1>1, <1>2, <1>3, <1>4 DEF InRoom, OfRoom

\* that a message comes once,
LEMMA ReceiveOnce ==
  ASSUME Full, NEW e \in EventsOf(Len(docs)), Arrival(e),
         Mounted => \E p, q \in ChatsOf(Len(docs)) : Arrived(e, p, q)
  PROVE  Once'
<1>o. Once BY DEF Full, Delivery
<1>1. ASSUME NEW m \in Ids, NEW i \in DOMAIN wire', NEW k \in DOMAIN wire',
             New(i, m)', New(k, m)'
      PROVE  i = k
  <2>1. i + 1 \in DOMAIN wire /\ k + 1 \in DOMAIN wire
        /\ New(i + 1, m) /\ New(k + 1, m)
    BY <1>1 DEF New, Arrival
  <2>2. i + 1 = k + 1 BY <1>o, <2>1 DEF Once
  <2>3. i \in Nat /\ k \in Nat BY DEF Arrival
  <2> QED BY <2>2, <2>3
<1>2. ASSUME NEW m \in Ids, Announced(m)' PROVE ~ InWire(m)'
  BY <1>2, <1>o DEF Arrival, Once
<1>3. ASSUME Mounted, NEW m \in Ids, Announced(m)' \/ InWire(m)'
      PROVE  m \notin Page'.seen
  <2>p. PICK p, q \in ChatsOf(Len(docs)) : Arrived(e, p, q) BY <1>3
  <2>1. m \notin p.seen BY <1>3, <1>o, <2>p DEF Arrived, Arrival, Once
  <2>2. e.k = "new" => m # e.item.m
    <3> SUFFICES ASSUME e.k = "new", m = e.item.m PROVE FALSE
      OBVIOUS
    <3>1. New(1, m) /\ InWire(m) BY DEF Arrival, New, InWire
    <3>2. ~ Announced(m) BY <1>o, <3>1 DEF Once
    <3>3. PICK i \in DOMAIN wire' : New(i, m)'
      BY <1>3, <3>2 DEF Arrival, InWire
    <3>4. i + 1 \in DOMAIN wire /\ New(i + 1, m) /\ i \in Nat /\ i >= 1
      BY <3>3 DEF New, Arrival
    <3>5. i + 1 = 1 BY <1>o, <3>1, <3>4 DEF Once, Arrival
    <3> QED BY <3>4, <3>5
  <2>3. CASE e.k # "new" \/ ~ p.wired
    BY <2>p, <2>1, <2>3 DEF Arrived
  <2>4. CASE e.k = "new" /\ p.wired
    BY <2>p, <2>1, <2>2, <2>4 DEF Arrived
  <2> QED BY <2>3, <2>4
<1>4. Ids' = Ids /\ Mounted' = Mounted BY DEF Arrival
<1> QED BY <1>1, <1>2, <1>3, <1>4 DEF Once

\* that a history is followed by all it lacks,
LEMMA ReceiveComplete ==
  ASSUME Full, NEW e \in EventsOf(Len(docs)), Arrival(e),
         Mounted => \E p, q \in ChatsOf(Len(docs)) : Arrived(e, p, q)
  PROVE  Complete'
<1>c. Complete BY DEF Full, Delivery
<1>1. ASSUME NEW j \in jobs', j.at = "reply", NEW m \in Theirs(j.room)
      PROVE  m \in ListOf(j) \cup upset' \/ Announced(m)'
  BY <1>c, <1>1 DEF Complete, Arrival
<1>2. ASSUME NEW i \in DOMAIN wire', wire'[i].k = "joined",
             NEW m \in Theirs(wire'[i].room)
      PROVE  \/ m \in ListOf(wire'[i]) \cup upset' \/ Announced(m)'
             \/ \E k \in DOMAIN wire' : k > i /\ New(k, m)'
  <2>1. i + 1 \in DOMAIN wire /\ wire'[i] = wire[i + 1] /\ i \in Nat
    BY DEF Arrival
  <2>2. \/ m \in ListOf(wire[i + 1]) \cup upset \/ Announced(m)
        \/ \E k \in DOMAIN wire : k > i + 1 /\ New(k, m)
    BY <1>2, <1>c, <2>1 DEF Complete
  <2>3. ASSUME NEW k \in DOMAIN wire, k > i + 1, New(k, m)
        PROVE  \E n \in DOMAIN wire' : n > i /\ New(n, m)'
    <3>0. k # 1 BY <2>1, <2>3
    <3>1. /\ k \in Nat /\ k - 1 \in DOMAIN wire'
          /\ wire'[k - 1] = wire[k]
      BY <3>0 DEF Arrival
    <3>2. k - 1 > i /\ New(k - 1, m)' BY <2>1, <2>3, <3>1 DEF New
    <3> QED BY <3>1, <3>2
  <2> QED BY <2>1, <2>2, <2>3 DEF Arrival
<1>3. ASSUME Mounted, NEW h \in Page'.lists, NEW m \in Theirs(h.room)
      PROVE  \/ m \in ListOf(h) \cup upset' \cup missed'
             \/ Announced(m)' \/ InWire(m)'
  <2>p. PICK p, q \in ChatsOf(Len(docs)) : Arrived(e, p, q) BY <1>3
  <2>1. CASE h \in p.lists
    <3>1. \/ m \in ListOf(h) \cup upset \cup missed
          \/ Announced(m) \/ InWire(m)
      BY <1>3, <1>c, <2>1, <2>p DEF Complete, Arrived
    <3>2. m \in missed => m \in missed' \cup upset'
      BY <2>1, <2>p, StillMissed
    <3>3. ASSUME New(1, m) PROVE m \in upset'
      <4>1. e.k = "new" /\ e.item.m = m BY <3>3 DEF New, Arrival
      <4>2. m \in Meets(p, e) BY <2>1, <4>1 DEF Meets
      <4> QED BY <2>p, <4>2 DEF Arrived
    <3> QED BY <3>1, <3>2, <3>3 DEF Arrival
  <2>2. CASE h \notin p.lists
    <3>1. h = e /\ e.k = "joined" BY <1>3, <2>2, <2>p DEF Arrived
    <3>2. m \in ListOf(e) \cup upset' \/ Announced(m)' \/ InWire(m)'
      BY <1>3, <3>1, HistoryFull
    <3> QED BY <3>1, <3>2
  <2> QED BY <2>1, <2>2
<1>4. Mounted' = Mounted /\ \A r : Theirs(r)' = Theirs(r) BY DEF Arrival
<1>5. \A j \in jobs' : j.at = "reply" =>
        \A m \in Theirs(j.room)' : m \in ListOf(j) \cup upset' \/ Announced(m)'
  BY <1>1, <1>4
<1>6. \A i \in DOMAIN wire' : wire'[i].k = "joined" =>
        \A m \in Theirs(wire[i].room)' :
          \/ m \in ListOf(wire'[i]) \cup upset' \/ Announced(m)'
          \/ \E k \in DOMAIN wire' : k > i /\ New(k, m)'
  <2> SUFFICES ASSUME NEW i \in DOMAIN wire', wire'[i].k = "joined",
                      NEW m \in Theirs(wire[i].room)'
               PROVE  \/ m \in ListOf(wire'[i]) \cup upset' \/ Announced(m)'
                      \/ \E k \in DOMAIN wire' : k > i /\ New(k, m)'
    OBVIOUS
  <2>1. m \in Theirs(wire'[i].room) BY <1>4 DEF Theirs
  <2> QED BY <1>2, <2>1
<1>7. Mounted' => \A h \in Page'.lists : \A m \in Theirs(h.room)' :
             \/ m \in ListOf(h) \cup upset' \cup missed'
             \/ Announced(m)' \/ InWire(m)'
  BY <1>3, <1>4
<1> QED BY <1>5, <1>6, <1>7 DEF Complete, ListOf

\* that a loaded chat shows all or is to show it,
LEMMA ReceiveLoaded ==
  ASSUME Full, NEW e \in EventsOf(Len(docs)), Arrival(e), InRoom',
         Mounted => \E p, q \in ChatsOf(Len(docs)) : Arrived(e, p, q)
  PROVE  Loaded'
<1>t. Typed BY DEF Full
<1> SUFFICES ASSUME Mounted, Page'.loaded, ~ crossed',
                    NEW m \in Theirs(Page'.room)
             PROVE  \/ m \in Shown(Page)' \/ Excused(m)'
                    \/ Announced(m)' \/ InWire(m)' \/ Taken(m)'
  BY DEF Loaded, Arrival, Theirs
<1>p. PICK p, q \in ChatsOf(Len(docs)) : Arrived(e, p, q) OBVIOUS
<1>q. p = Page /\ q = Page' /\ q.room = p.room BY <1>p DEF Arrived
<1>m. m \in Ids /\ docs[m].room = p.room /\ m \in Theirs(p.room)
  BY <1>q DEF Theirs
<1>c. ~ crossed BY <1>p DEF Arrived
<1>k. /\ m \in Shown(q) => m \in Shown(Page)'
      /\ m \in Fresh(q) \cup Loading(q) => Taken(m)'
  BY <1>q DEF Shown, Taken, Fresh, Loading, ListOf
<1>x. m \in onScreen' \cup upset' \cup missed' \cup unwatched' => Excused(m)'
  BY DEF Excused
<1>h. p.wired /\ e.k = "joined" => e.room = p.room
  BY <1>p DEF Arrived
<1>j. p.wired /\ e.k = "joined" =>
        m \in ListOf(e) \cup upset' \/ Announced(m)' \/ InWire(m)'
  BY <1>h, <1>m, HistoryFull
<1>1. CASE ~ p.loaded
  <2>1. p.wired /\ e.k = "joined" /\ e.list = {}
    BY <1>1, <1>p, <1>q DEF Arrived
  <2>2. ListOf(e) = {} BY <2>1 DEF ListOf
  <2> QED BY <1>j, <1>x, <2>1, <2>2
<1>2. CASE p.loaded
  <2>w. p.wired BY <1>2, <1>q DEF Full, Delivery, Wiring
  <2>0. \/ m \in Shown(p) \/ Excused(m)
        \/ Announced(m) \/ InWire(m) \/ Taken(m)
    BY <1>2, <1>c, <1>m, <1>q DEF Full, Delivery, Loaded
  <2>1. CASE m \in missed
    <3>1. m \in missed' \/ m \in Loading(q) BY <1>p, <2>1, StillMissed
    <3> QED BY <1>k, <1>x, <3>1
  <2>2. CASE Excused(m) /\ m \notin missed
    BY <1>m, <2>2 DEF Excused, Arrival
  <2>3. CASE Announced(m) BY <2>3 DEF Arrival
  <2>4. CASE Taken(m)
    <3>1. m \in Fresh(q) \cup Loading(q)
      BY <1>p, <1>q, <2>4 DEF Taken, Fresh, Loading, Arrived
    <3> QED BY <1>k, <3>1
  <2>5. CASE InWire(m)
    <3>1. CASE InWire(m)' BY <3>1
    <3>2. CASE New(1, m)
      <4>1. m \in missed' \cup Shown(q) \cup Fresh(q)
        BY <1>m, <1>p, <2>w, <3>2, NewTaken
      <4> QED BY <1>k, <1>x, <4>1
    <3> QED BY <2>5, <3>1, <3>2 DEF Arrival
  <2>6. CASE m \in Shown(p)
    <3>1. CASE m \in Shown(q) BY <1>k, <3>1
    <3>2. CASE m \notin Shown(q)
      <4>1. \/ e.k = "deleted" /\ m = e.m
            \/ e.k = "joined" /\ e.list = {}
        BY <1>p, <2>6, <2>w, <3>2 DEF Arrived
      <4>2. CASE e.k = "deleted" /\ m = e.m
        <5>1. docs[m].hidden # {}
          BY <4>2 DEF Full, Delivery, Erased, Arrival
        <5> QED BY <1>m, <5>1 DEF Excused, Arrival
      <4>3. CASE e.k = "joined" /\ e.list = {}
        <5>1. ListOf(e) = {} BY <4>3 DEF ListOf
        <5> QED BY <1>j, <1>x, <2>w, <4>3, <5>1
      <4> QED BY <4>1, <4>2, <4>3
    <3> QED BY <3>1, <3>2
  <2> QED BY <2>0, <2>1, <2>2, <2>3, <2>4, <2>5, <2>6
<1>3. p.loaded \in BOOLEAN BY DEF ChatsOf
<1> QED BY <1>1, <1>2

\* and that what is watched for stays watched for.
LEMMA ReceiveWatched ==
  ASSUME Full, NEW e \in EventsOf(Len(docs)), Arrival(e),
         Mounted => \E p, q \in ChatsOf(Len(docs)) : Arrived(e, p, q),
         missed # missed' => Mounted,
         NEW m \in Ids, Watched(m)
  PROVE  Watched(m)'
<1>x. m \in onScreen' \cup upset' \cup missed' \cup unwatched' => Watched(m)'
  BY DEF Excused, Watched
<1>1. CASE Excused(m) /\ m \notin missed
  BY <1>1 DEF Excused, Watched, Arrival
<1>2. CASE ~ Mounted
  <2>1. missed' = missed BY <1>2
  <2> QED BY <1>1, <1>2, <1>x, <2>1 DEF Watched, Excused
<1>3. CASE Mounted
  <2>p. PICK p, q \in ChatsOf(Len(docs)) : Arrived(e, p, q) BY <1>3
  <2>q. /\ p = Page /\ q = Page' /\ q.room = p.room /\ q.front = p.front
        /\ q.wired = p.wired
    BY <2>p DEF Arrived
  <2>k. q.front /\ m \in Fresh(q) \cup Loading(q) => Watched(m)'
    <3>1. m \in Fresh(q) \cup Loading(q) => Taken(m)'
      BY <2>q DEF Taken, Fresh, Loading, ListOf
    <3>2. Mounted' BY <1>3 DEF Arrival
    <3> QED BY <2>q, <3>1, <3>2 DEF Watched
  <2>1. CASE m \in missed
    <3>1. \/ m \in missed'
          \/ p.wired /\ e.k = "joined" /\ m \in Loading(q)
      BY <2>1, <2>p, StillMissed
    <3>2. m \in missed' \/ p.front
      BY <2>1, <2>p DEF Arrived
    <3> QED BY <1>x, <2>k, <2>q, <3>1, <3>2
  <2>2. CASE m \notin missed /\ ~ Excused(m)
    <3>1. /\ p.front
          /\ \/ Taken(m)
             \/ /\ p.wired /\ p.room = docs[m].room
                /\ Announced(m) \/ InWire(m)
      BY <2>2, <2>q DEF Watched
    <3>2. CASE Taken(m)
      <4>1. m \in Fresh(q) \cup Loading(q)
        BY <2>p, <2>q, <3>2 DEF Taken, Fresh, Loading, Arrived
      <4> QED BY <2>k, <2>q, <3>1, <4>1
    <3>3. CASE /\ p.wired /\ p.room = docs[m].room
               /\ Announced(m)' \/ InWire(m)'
      <4>1. Mounted' /\ docs'[m].room = docs[m].room
        BY <1>3 DEF Arrival
      <4> QED BY <2>q, <3>1, <3>3, <4>1 DEF Watched
    <3>4. CASE p.wired /\ p.room = docs[m].room /\ New(1, m)
      <4>1. m \in missed' \cup Shown(q) \cup Fresh(q)
        BY <2>p, <3>4, NewTaken
      <4>2. m \in Shown(q) => m \in onScreen'
        BY <2>p, <2>q, <3>1 DEF Arrived
      <4> QED BY <1>x, <2>k, <2>q, <3>1, <4>1, <4>2
    <3> QED BY <3>1, <3>2, <3>3, <3>4 DEF Arrival
  <2> QED BY <1>1, <2>1, <2>2
<1> QED BY <1>2, <1>3

\* All of them together.
LEMMA ReceiveStep == ASSUME Full, Receive PROVE Delivery'
<1>t. Typed BY DEF Full
<1>e. PICK e \in EventsOf(Len(docs)) : Arrival(e) BY <1>t, Arriving
<1>p. Mounted => \E p, q \in ChatsOf(Len(docs)) : Arrived(e, p, q)
  BY <1>t, <1>e, Arrivals
<1>1. Linked' /\ Erased' BY <1>e, ReceiveLinked
<1>2. Wiring' BY <1>e, <1>p, ReceiveWiring
<1>3. InRoom' BY <1>e, <1>p, ReceiveInRoom
<1>4. Once' BY <1>e, <1>p, ReceiveOnce
<1>5. Complete' BY <1>e, <1>p, ReceiveComplete
<1>6. Loaded' BY <1>e, <1>p, <1>3, ReceiveLoaded
<1>7. missed # missed' => Mounted BY DEF Receive, Mounted
<1>8. \A m \in Ids : Watched(m) => Watched(m)'
  BY <1>e, <1>p, <1>7, ReceiveWatched
<1>9. Reading'
  <2>1. ASSUME NEW j \in jobs' \cup outbox', ToRead(j)
        PROVE  j.upTo # 0 /\ \A m \in Theirs(j.room) :
                               m <= j.upTo => Watched(m)'
    BY <1>e, <1>8, <2>1 DEF Full, Delivery, Reading, Arrival
  <2>2. \A m \in Ids : Me \in docs'[m].read => Watched(m)'
    BY <1>e, <1>8 DEF Full, Delivery, Reading, Arrival
  <2>3. Ids' = Ids /\ \A r : Theirs(r)' = Theirs(r) BY <1>e DEF Arrival
  <2> QED BY <2>1, <2>2, <2>3 DEF Reading, ToRead
<1> QED BY <1>1, <1>2, <1>3, <1>4, <1>5, <1>6, <1>9 DEF Delivery

\* The connection is lost: what was on its way is missed.
LEMMA LoseStep == ASSUME Full, Lose PROVE Delivery'
<1>t. Typed BY DEF Full
<1>u. /\ docs' = docs /\ wire' = <<>> /\ joined' = {} /\ outbox' = outbox
      /\ chats' = chats /\ onScreen' = onScreen /\ unwatched' = unwatched
      /\ crossed' = crossed /\ upset' = upset /\ missed \subseteq missed'
      /\ jobs' \subseteq jobs
      /\ \A j \in jobs' : j.at \notin {"find", "reply"}
      /\ \A j \in jobs : j.at = "announce" => j \in jobs'
  BY DEF Lose, client
<1>g. Ids' = Ids /\ \A r : Theirs(r)' = Theirs(r) /\ Theirs(r) \subseteq Ids
  BY <1>u DEF Ids, Theirs
<1>a. \A m : Announced(m)' <=> Announced(m)
  <2> SUFFICES ASSUME NEW m PROVE Announced(m)' <=> Announced(m)
    OBVIOUS
  <2>1. PICK j : j = [at |-> "announce", m |-> m] OBVIOUS
  <2>2. j.at = "announce" BY <2>1
  <2>3. j \in jobs' <=> j \in jobs BY <1>u, <2>2
  <2> QED BY <2>1, <2>3 DEF Announced
<1>w. \A m : InWire(m) => m \in missed'
  <2> SUFFICES ASSUME NEW m, InWire(m) PROVE m \in missed'
    OBVIOUS
  <2>1. m \in Ids BY <1>t, Named
  <2>2. \E i \in DOMAIN wire : wire[i].k = "new" /\ wire[i].item.m = m
    BY DEF InWire, New
  <2> QED BY <2>1, <2>2 DEF Lose
<1>p. Mounted' = Mounted /\ Page' = Page BY <1>u DEF Mounted, Page
<1>e. \A m \in Ids : Excused(m) => Excused(m)' BY <1>u DEF Excused
<1>k. \A m : Taken(m)' <=> Taken(m)
  BY <1>p DEF Taken, Fresh, Loading, ListOf
<1>1. Linked' BY <1>u DEF Linked
<1>2. Wiring' BY <1>p, <1>u DEF Full, Delivery, Wiring, Shown
<1>3. Erased' BY <1>u DEF Full, Delivery, Erased
<1>4. InRoom' BY <1>p, <1>u DEF Full, Delivery, InRoom, OfRoom
<1>5. Once' BY <1>a, <1>g, <1>p, <1>u DEF Full, Delivery, Once, New, InWire
<1>6. Complete'
  <2>1. ASSUME Mounted, NEW h \in Page.lists, NEW m \in Theirs(h.room)
        PROVE  m \in ListOf(h) \cup upset \cup missed' \/ Announced(m)
    BY <1>u, <1>w, <2>1 DEF Full, Delivery, Complete
  <2> QED BY <1>a, <1>g, <1>p, <1>u, <2>1 DEF Complete, ListOf
<1>7. Loaded'
  <2>1. ASSUME Mounted, Page.loaded, ~ crossed, NEW m \in Theirs(Page.room)
        PROVE  m \in Shown(Page) \/ Excused(m)' \/ Announced(m) \/ Taken(m)
    <3>1. \/ m \in Shown(Page) \/ Excused(m)
          \/ Announced(m) \/ InWire(m) \/ Taken(m)
      BY <2>1 DEF Full, Delivery, Loaded
    <3>2. m \in missed' => Excused(m)' BY DEF Excused
    <3> QED BY <1>e, <1>g, <1>w, <3>1, <3>2
  <2> QED BY <1>a, <1>g, <1>k, <1>p, <1>u, <2>1 DEF Loaded, Shown
<1>8. ASSUME NEW m \in Ids, Watched(m) PROVE Watched(m)'
  <2>1. m \in missed' => Excused(m)' BY DEF Excused
  <2> QED BY <1>a, <1>e, <1>k, <1>p, <1>u, <1>w, <1>8, <2>1 DEF Watched
<1>9. Reading' BY <1>u, <1>8, ReadingKept
<1> QED BY <1>1, <1>2, <1>3, <1>4, <1>5, <1>6, <1>7, <1>9 DEF Delivery

\* Connected again: chats join and what was kept is sent.
LEMMA ReconnectStep == ASSUME Full, Reconnect PROVE Delivery'
<1>t. Typed BY DEF Full
<1>u. /\ docs' = docs /\ wire' = wire /\ outbox' = {} /\ up'
      /\ chats' = chats /\ onScreen' = onScreen /\ unwatched' = unwatched
      /\ crossed' = crossed /\ upset' = upset /\ missed' = missed
      /\ jobs \subseteq jobs'
      /\ \A j \in jobs' : \/ j \in jobs \/ j \in outbox
                          \/ j.at = "find" /\ j.room \in joined'
  BY DEF Reconnect, client, marks
<1>v. \A j \in outbox : j.at = "see" BY DEF Full, Typed
<1>j. \A j \in jobs' : j.at \in {"announce", "erased", "reply"} => j \in jobs
  BY <1>u, <1>v
<1>g. Ids' = Ids /\ \A r : Theirs(r)' = Theirs(r) /\ Theirs(r) \subseteq Ids
  BY <1>u DEF Ids, Theirs
<1>a. \A m : Announced(m)' <=> Announced(m)
  <2> SUFFICES ASSUME NEW m PROVE Announced(m)' <=> Announced(m)
    OBVIOUS
  <2>1. PICK j : j = [at |-> "announce", m |-> m] OBVIOUS
  <2>2. j.at = "announce" BY <2>1
  <2>3. j \in jobs' <=> j \in jobs BY <1>j, <1>u, <2>2
  <2> QED BY <2>1, <2>3 DEF Announced
<1>w. \A m : InWire(m)' <=> InWire(m) BY <1>u DEF InWire, New
<1>p. Mounted' = Mounted /\ Page' = Page BY <1>u DEF Mounted, Page
<1>e. \A m : Excused(m)' <=> Excused(m) BY <1>u DEF Excused
<1>k. \A m : Taken(m)' <=> Taken(m)
  BY <1>p DEF Taken, Fresh, Loading, ListOf
<1>1. Linked'
  <2>1. wire = <<>> /\ joined = {} BY DEF Reconnect, Full, Delivery, Linked
  <2>2. \A j \in jobs : j.at \notin {"find", "reply"}
    BY <2>1 DEF Full, Delivery, Linked
  <2>3. \A j \in jobs' : j.at \in {"find", "reply"} => j.room \in joined'
    BY <1>u, <1>v, <2>2
  <2> QED BY <1>u, <2>1, <2>3 DEF Linked
<1>2. Wiring' BY <1>p, <1>u DEF Full, Delivery, Wiring, Shown
<1>3. Erased' BY <1>j, <1>u DEF Full, Delivery, Erased
<1>4. InRoom' BY <1>j, <1>p, <1>u DEF Full, Delivery, InRoom, OfRoom
<1>5. Once' BY <1>a, <1>g, <1>p, <1>u, <1>w DEF Full, Delivery, Once, New
<1>6. Complete'
  <2>1. \A j \in jobs' : j.at = "reply" =>
          \A m \in Theirs(j.room) : m \in ListOf(j) \cup upset \/ Announced(m)
    BY <1>j DEF Full, Delivery, Complete
  <2> QED BY <1>a, <1>g, <1>p, <1>u, <1>w, <2>1
          DEF Full, Delivery, Complete, ListOf, New
<1>7. Loaded'
  BY <1>a, <1>e, <1>g, <1>k, <1>p, <1>u, <1>w
     DEF Full, Delivery, Loaded, Shown
<1>8. ASSUME NEW m \in Ids, Watched(m) PROVE Watched(m)'
  BY <1>a, <1>e, <1>k, <1>p, <1>u, <1>w, <1>8 DEF Watched
<1>9. \A j \in jobs' \cup outbox' : ToRead(j) => j \in jobs \cup outbox
  BY <1>u DEF ToRead
<1>10. Reading' BY <1>u, <1>8, <1>9, ReadingKept
<1> QED BY <1>1, <1>2, <1>3, <1>4, <1>5, <1>6, <1>7, <1>10 DEF Delivery

\* The initial state satisfies the invariant,
LEMMA FullStart == Init => Full
<1> SUFFICES ASSUME Init PROVE Full
  OBVIOUS
<1>1. Typed /\ Conventions /\ Reactions BY TypedStart, CountedStart
<1>2. /\ docs = <<>> /\ jobs = {} /\ wire = <<>> /\ outbox = {} /\ up = TRUE
      /\ chats = <<>> /\ Ids = {} /\ ~ Mounted /\ DOMAIN wire = {}
      /\ DOMAIN chats = {}
  BY DEF Init, Ids, Mounted
<1>3. Linked /\ Wiring /\ Erased /\ InRoom /\ Once /\ Complete /\ Loaded
  BY <1>2 DEF Linked, Wiring, Erased, InRoom, Once, Complete, Loaded
<1>4. Reading BY <1>2 DEF Reading
<1> QED BY <1>1, <1>3, <1>4 DEF Full, Delivery

\* and every step keeps it.
LEMMA FullStep == Full /\ [Next]_vars => Full'
<1> SUFFICES ASSUME Full, [Next]_vars PROVE Full'
  OBVIOUS
<1>1. Typed' BY TypedStep DEF Full
<1>2. Conventions' /\ Reactions' BY CountedStep DEF Full, Counted
<1>3. Delivery'
  <2>1. CASE \/ \E u \in Users, r \in Rooms : Post(u, r)
             \/ \E u \in Users, m \in Ids : React(u, m) \/ Delete(u, m)
             \/ \E r \in Rooms, m \in 0..Len(docs), read \in BOOLEAN :
                   PeerSees(r, m, read)
             \/ \E j \in jobs : SaveReaction(j) \/ Mark(j) \/ Find(j)
    BY <1>1, <2>1, QuietSteps
  <2>2. ASSUME NEW j \in jobs, \/ Announce(j) \/ TellReaction(j)
                               \/ TellDeleted(j) \/ TellReceipt(j)
                               \/ Reply(j)
        PROVE  Delivery'
    BY <1>1, <2>2, EmissionSteps
  <2>3. ASSUME NEW r \in Rooms, Open(r) PROVE Delivery'
    BY <2>3, OpenStep
  <2>4. ASSUME NEW i \in DOMAIN chats, KeyReady(i) PROVE Delivery'
    BY <2>4, KeyReadyStep
  <2>5. ASSUME NEW i \in DOMAIN chats, NEW h \in chats[i].lists,
               ShowHistory(i, h)
        PROVE  Delivery'
    BY <2>5, ShowHistoryStep
  <2>6. ASSUME NEW i \in DOMAIN chats, NEW x \in chats[i].fresh, ShowNew(i, x)
        PROVE  Delivery'
    BY <2>6, ShowNewStep
  <2>7. CASE Receive BY <2>7, ReceiveStep
  <2>8. CASE SetForeground BY <2>8, SetForegroundStep
  <2>9. CASE Lose BY <2>9, LoseStep
  <2>10. CASE Reconnect BY <2>10, ReconnectStep
  <2>11. CASE UNCHANGED vars
    <3>t. Typed BY DEF Full
    <3>1. /\ docs' = docs /\ jobs' = jobs /\ wire' = wire /\ Still
      BY <2>11 DEF vars, server, link, client, marks, Still
    <3>2. Grown /\ Ids' = Ids BY <3>t, <3>1, SameGrown
    <3> QED BY <1>1, <3>1, <3>2, Quiet
  <2> QED BY <2>1, <2>2, <2>3, <2>4, <2>5, <2>6, <2>7, <2>8, <2>9, <2>10,
             <2>11 DEF Next
<1> QED BY <1>1, <1>2, <1>3 DEF Full

\* The inductive invariant of the conversations holds.
THEOREM ChatInvariance == Spec => []Full
<1> QED BY FullStart, FullStep, PTL DEF Spec

\* The state of the conversations has its types, and the conventions of
\* message.model.js hold.
THEOREM ChatTypeCorrect == Spec => []TypeOK
<1>1. Full => TypeOK
  <2> SUFFICES ASSUME Full PROVE TypeOK
    OBVIOUS
  <2>t. Typed BY DEF Full
  <2>1. ASSUME NEW m \in Ids
        PROVE  /\ docs[m].room \in Rooms /\ docs[m].from \in Users
               /\ docs[m].hidden \subseteq {docs[m].from}
               /\ docs[m].delivered \subseteq Users \ {docs[m].from}
               /\ docs[m].read \subseteq docs[m].delivered
               /\ docs[m].count <= docs[m].reacted
    BY <2>t, Basics DEF Full, Conventions, Doc
  <2>2. ASSUME NEW j \in jobs
        PROVE  j.at \in {"announce", "count", "tell", "erased", "see",
                         "receipt", "find", "reply"}
    BY <2>t, Basics, JobKinds DEF Typed
  <2>3. ASSUME NEW i \in DOMAIN chats
        PROVE  /\ chats[i].room \in Rooms
               /\ chats[i].active \in Rooms \cup {NoRoom}
               /\ Shown(chats[i]) \cup Fresh(chats[i]) \cup chats[i].seen
                    \subseteq Ids
               /\ chats[i].wired => chats[i].ready
    <3>1. PICK c \in ChatsOf(Len(docs)) : c = chats[i] BY <2>t, Basics
    <3>2. /\ c.shown \subseteq Items(Len(docs))
          /\ c.fresh \subseteq Items(Len(docs)) /\ c.seen \subseteq Ids
          /\ c.room \in Rooms /\ c.active \in Rooms \cup {NoRoom}
      BY DEF ChatsOf, Ids
    <3>3. Shown(c) \subseteq Ids /\ Fresh(c) \subseteq Ids
      BY <3>2 DEF Shown, Fresh, Items, Ids
    <3>4. c.wired => c.ready BY <3>1 DEF Full, Delivery, Wiring
    <3> QED BY <3>1, <3>2, <3>3, <3>4
  <2> QED BY <2>t, <2>1, <2>2, <2>3 DEF Typed, TypeOK
<1> QED BY <1>1, ChatInvariance, PTL

\* Every reaction saved is counted, unless two were in flight at once
\* (message.handler.js reads the count in one call and saves it in another).
THEOREM CountsAreRight == Spec => []ReactionsCounted
<1>1. Full => ReactionsCounted BY DEF Full, Reactions, ReactionsCounted
<1> QED BY <1>1, ChatInvariance, PTL

\* What the server holds as read by the user was on the screen in the
\* foreground, or is about to be, with the exceptions ReadWasOnScreen lists
\* (_markSeen of ChatController.js).
THEOREM ReadIsTrue == Spec => []ReadWasOnScreen
<1>1. Full => ReadWasOnScreen
  <2> SUFFICES ASSUME Full, NEW m \in Ids, Me \in docs[m].read,
                      docs[m].hidden = {}
               PROVE  m \in onScreen \cup upset \cup missed \cup unwatched
                        \/ OnItsWay(m)
    BY DEF ReadWasOnScreen
  <2>t. Typed BY DEF Full
  <2>1. Watched(m) BY DEF Full, Delivery, Reading
  <2>2. Mounted /\ Taken(m) => OnItsWay(m)
    <3> SUFFICES ASSUME Mounted, Taken(m) PROVE OnItsWay(m)
      OBVIOUS
    <3>1. Len(chats) \in DOMAIN chats /\ Page = chats[Len(chats)]
      BY <2>t, Basics DEF Page, Last
    <3> QED BY <3>1 DEF Taken, Loading, OnItsWay
  <2>3. Announced(m) \/ InWire(m) => OnItsWay(m)
    BY DEF Announced, InWire, New, OnItsWay
  <2> QED BY <2>1, <2>2, <2>3 DEF Watched, Excused
<1> QED BY <1>1, ChatInvariance, PTL

(***************************************************************************)
(* The list on the screen.                                                 *)
(***************************************************************************)
\* What is still to tell of a message after place i of the wire: its count,
Telling(m) == \E j \in jobs : j.at = "tell" /\ j.m = m
CountNews(m, i) ==
  \/ m \in overlap \/ Telling(m)
  \/ \E k \in DOMAIN wire : k > i /\ wire[k].k = "reaction" /\ wire[k].m = m

\* its tick,
About(e, m) == e.room = docs[m].room /\ m <= e.upTo
Level(read) == IF read THEN 2 ELSE 1
TickNews(m, i) ==
  \/ \E j \in jobs : /\ j.at = "receipt" /\ About(j, m)
                     /\ Tick(docs[m]) <= Level(j.read)
  \/ \E k \in DOMAIN wire : /\ k > i /\ wire[k].k = "receipt"
                            /\ About(wire[k], m)
                            /\ Tick(docs[m]) <= wire[k].tick

\* and that it is gone.
Erasing(m) == [at |-> "erased", m |-> m] \in jobs
GoneNews(m, i) ==
  \/ Erasing(m)
  \/ \E k \in DOMAIN wire : k > i /\ wire[k].k = "deleted" /\ wire[k].m = m

\* A message as a client has it at place i is as stored, or will be.
CountRight(m, n, i) == n = docs[m].count \/ CountNews(m, i)
TickRight(m, t, i) ==
  docs[m].from = Me => /\ t <= Tick(docs[m])
                       /\ t = Tick(docs[m]) \/ TickNews(m, i)
GoneRight(m, i) == Me \in docs[m].hidden => GoneNews(m, i)
Good(x, i) ==
  \/ x.m \in upset
  \/ /\ CountRight(x.m, x.count, i) /\ TickRight(x.m, x.tick, i)
     /\ GoneRight(x.m, i)

\* The news is right, and goes to channels the socket is in.
TellsRight == \A j \in jobs : j.at = "tell" =>
                j.m \in overlap \/ j.n = docs[j.m].count
ReactionsRight == \A i \in DOMAIN wire : wire[i].k = "reaction" =>
                    CountRight(wire[i].m, wire[i].n, i)
ReceiptsRight ==
  /\ \A j \in jobs : j.at = "receipt" =>
       /\ j.by = Peer
       /\ \A m \in Ids : docs[m].from = Me /\ About(j, m)
                           => Level(j.read) <= Tick(docs[m])
  /\ \A i \in DOMAIN wire : wire[i].k = "receipt" =>
       \A m \in Ids : docs[m].from = Me /\ About(wire[i], m)
                        => wire[i].tick <= Tick(docs[m])
Channels ==
  \A i \in DOMAIN wire :
    /\ wire[i].k \in {"reaction", "deleted"} => docs[wire[i].m].room \in joined
    /\ wire[i].k \in {"receipt", "new"} => wire[i].room \in joined
News == TellsRight /\ ReactionsRight /\ ReceiptsRight /\ Channels

\* A message is in a history once, and as stored or with news to come.
Single(l) == \A x, y \in l : x.m = y.m => x = y
Blank(m) == [m |-> m, count |-> 0, tick |-> 0, place |-> m]
GoodServer ==
  /\ \A j \in jobs : j.at = "reply" =>
       Single(j.list) /\ \A x \in j.list : Good(x, Len(wire))
  /\ \A m \in Ids : Announced(m) => Good(Blank(m), Len(wire))
GoodWire ==
  \A i \in DOMAIN wire :
    /\ wire[i].k = "joined" =>
         Single(wire[i].list) /\ \A x \in wire[i].list : Good(x, i)
    /\ wire[i].k = "new" => Good(wire[i].item, i)

\* What a history lacks of what is to be shown comes after it.
Lasting(r) ==
  {m \in Ids : docs[m].room = r /\ docs[m].hidden = {} /\ m \notin upset}
Whole ==
  /\ \A j \in jobs : j.at = "reply" =>
       \A m \in Lasting(j.room) : m \in ListOf(j) \/ Announced(m)
  /\ \A i \in DOMAIN wire : wire[i].k = "joined" =>
       \A m \in Lasting(wire[i].room) :
         \/ m \in ListOf(wire[i]) \/ Announced(m)
         \/ \E k \in DOMAIN wire : k > i /\ New(k, m)

\* The mounted chat has each message once.
OnceChat(c) ==
  /\ \A h \in c.lists : Single(h.list)
  /\ Single(c.fresh) /\ Fresh(c) \subseteq c.seen
  /\ Fresh(c) \cap Shown(c) \subseteq upset
  /\ c.lists # {} => Fresh(c) \subseteq upset
  /\ \A x, y \in c.shown : x.m = y.m => x = y \/ x.m \in upset
OncePage == Mounted => OnceChat(Page)

\* It is current when it has the last history it asked for: what it has is
\* as stored or with news to come, and all there is.
Asked(r) == \E j \in jobs : j.at \in {"find", "reply"} /\ j.room = r
Again(r) ==
  Asked(r) \/ \E i \in DOMAIN wire : wire[i].k = "joined" /\ wire[i].room = r
Current == /\ Mounted /\ ~ crossed /\ Page.wired
           /\ Page.room \in joined /\ ~ Again(Page.room)
Has(c, m) == IF c.lists = {} THEN m \in Shown(c) \cup Fresh(c)
             ELSE \A h \in c.lists : m \in ListOf(h)
GoodChat(c) ==
  /\ c.active = c.room
  /\ \A h \in c.lists : \A x \in h.list : Good(x, 0)
  /\ \A x \in c.fresh : Good(x, 0)
  /\ c.lists = {} => \A x \in c.shown : Good(x, 0)
  /\ \A m \in Lasting(c.room) : Announced(m) \/ InWire(m) \/ Has(c, m)
GoodPage == Current => GoodChat(Page)

\* The inductive invariant.
OnTheWay == News /\ GoodServer /\ GoodWire /\ Whole
View == Full /\ OnTheWay /\ OncePage /\ GoodPage

(***************************************************************************)
(* What keeps the messages as stored or with news to come.                 *)
(***************************************************************************)
\* A message as a client has it at place i can be had at place k after a
\* step.
Keeps(m, i, k) ==
  /\ \A n : CountRight(m, n, i) => CountRight(m, n, k)'
  /\ \A t \in Nat : TickRight(m, t, i) => TickRight(m, t, k)'
  /\ GoneRight(m, i) => GoneRight(m, k)'

\* So it can when the count changes with news of it, and so for the others.
LEMMA CountKept ==
  ASSUME NEW m, NEW i, NEW k, m \in overlap => m \in overlap',
         docs'[m].count = docs[m].count \/ CountNews(m, k)',
         Telling(m) => CountNews(m, k)',
         \A a \in DOMAIN wire :
            a > i /\ wire[a].k = "reaction" /\ wire[a].m = m
              => \E b \in DOMAIN wire' : b > k /\ wire'[b] = wire[a]
  PROVE  \A n : CountRight(m, n, i) => CountRight(m, n, k)'
<1>1. ASSUME NEW a \in DOMAIN wire, a > i, wire[a].k = "reaction",
             wire[a].m = m
      PROVE  CountNews(m, k)'
  <2>1. PICK b \in DOMAIN wire' : b > k /\ wire'[b] = wire[a] BY <1>1
  <2> QED BY <1>1, <2>1 DEF CountNews
<1>2. m \in overlap => CountNews(m, k)' BY DEF CountNews
<1>3. CountNews(m, i) => CountNews(m, k)' BY <1>1, <1>2 DEF CountNews
<1> QED BY <1>3 DEF CountRight

\* Its tick does when it changes with news of it,
LEMMA TickKept ==
  ASSUME NEW m, NEW i, NEW k, docs'[m].from = docs[m].from,
         docs'[m].room = docs[m].room,
         docs[m].from = Me =>
           \/ Tick(docs'[m]) = Tick(docs[m])
           \/ Tick(docs[m]) <= Tick(docs'[m]) /\ TickNews(m, k)',
         \A j \in jobs : j.at = "receipt" /\ About(j, m) =>
           \/ j \in jobs'
           \/ \E b \in DOMAIN wire' : /\ b > k /\ wire'[b].k = "receipt"
                                      /\ About(wire'[b], m)
                                      /\ wire'[b].tick = Level(j.read),
         \A a \in DOMAIN wire :
            a > i /\ wire[a].k = "receipt" /\ About(wire[a], m)
              => \E b \in DOMAIN wire' : b > k /\ wire'[b] = wire[a]
  PROVE  \A t \in Nat : TickRight(m, t, i) => TickRight(m, t, k)'
<1>2. \A d : Tick(d) \in Nat BY DEF Tick
<1>3. CASE docs[m].from # Me BY <1>3 DEF TickRight
<1>4. CASE docs[m].from = Me /\ TickNews(m, k)'
  <2>1. PICK t, u \in Nat : t = Tick(docs[m]) /\ u = Tick(docs'[m])
    BY <1>2
  <2>2. t <= u BY <1>4, <2>1
  <2>3. ASSUME NEW n \in Nat, n <= t PROVE n <= u BY <2>2, <2>3
  <2>4. Tick(docs[m])' = u BY <2>1 DEF Tick
  <2> QED BY <1>4, <2>1, <2>3, <2>4 DEF TickRight
<1>5. CASE docs[m].from = Me /\ Tick(docs'[m]) = Tick(docs[m])
  <2>1. Tick(docs[m])' = Tick(docs[m]) BY <1>5 DEF Tick
  <2>2. ASSUME NEW j \in jobs, j.at = "receipt", About(j, m),
               Tick(docs[m]) <= Level(j.read)
        PROVE  TickNews(m, k)'
    <3>1. CASE j \in jobs' BY <2>1, <2>2, <3>1 DEF TickNews, About, Level
    <3>2. CASE j \notin jobs'
      <4>1. PICK b \in DOMAIN wire' : /\ b > k /\ wire'[b].k = "receipt"
                                      /\ About(wire'[b], m)
                                      /\ wire'[b].tick = Level(j.read)
        BY <2>2, <3>2
      <4> QED BY <2>1, <2>2, <4>1 DEF TickNews, About
    <3> QED BY <3>1, <3>2
  <2>3. ASSUME NEW a \in DOMAIN wire, a > i, wire[a].k = "receipt",
               About(wire[a], m), Tick(docs[m]) <= wire[a].tick
        PROVE  TickNews(m, k)'
    <3>1. PICK b \in DOMAIN wire' : b > k /\ wire'[b] = wire[a] BY <2>3
    <3> QED BY <2>1, <2>3, <3>1 DEF TickNews, About
  <2>4. TickNews(m, i) => TickNews(m, k)' BY <2>2, <2>3 DEF TickNews
  <2> QED BY <1>5, <2>1, <2>4 DEF TickRight
<1> QED BY <1>3, <1>4, <1>5

\* and that it is gone.
LEMMA GoneKept ==
  ASSUME NEW m, NEW i, NEW k,
         Me \in docs'[m].hidden => Me \in docs[m].hidden \/ GoneNews(m, k)',
         Erasing(m) => GoneNews(m, k)',
         \A a \in DOMAIN wire :
            a > i /\ wire[a].k = "deleted" /\ wire[a].m = m
              => \E b \in DOMAIN wire' : b > k /\ wire'[b] = wire[a]
  PROVE  GoneRight(m, i) => GoneRight(m, k)'
<1>1. ASSUME NEW a \in DOMAIN wire, a > i, wire[a].k = "deleted",
             wire[a].m = m
      PROVE  GoneNews(m, k)'
  <2>1. PICK b \in DOMAIN wire' : b > k /\ wire'[b] = wire[a] BY <1>1
  <2> QED BY <1>1, <2>1 DEF GoneNews
<1>3. GoneNews(m, i) => GoneNews(m, k)' BY <1>1 DEF GoneNews
<1> QED BY <1>3 DEF GoneRight

\* A good message stays good when it keeps, or has been upset.
LEMMA GoodKept ==
  ASSUME NEW m, NEW i, NEW k, m \in upset => m \in upset',
         m \in upset' \/ Keeps(m, i, k)
  PROVE  \A x : x.m = m /\ x.tick \in Nat /\ Good(x, i) => Good(x, k)'
BY DEF Good, Keeps

\* What is after place i of the wire is then after place k.
After(i, k) == \A a \in DOMAIN wire :
                 a > i => \E b \in DOMAIN wire' : b > k /\ wire'[b] = wire[a]

\* A step at which the handlers that have news of a message keep it.
LEMMA NewsKept ==
  ASSUME NEW m, NEW i, NEW k, After(i, k),
         docs'[m].from = docs[m].from, docs'[m].room = docs[m].room,
         m \in overlap => m \in overlap',
         \A j \in jobs : j.at \in {"tell", "receipt", "erased"} => j \in jobs',
         docs'[m].count = docs[m].count \/ Telling(m)',
         docs[m].from = Me =>
           \/ Tick(docs'[m]) = Tick(docs[m])
           \/ /\ Tick(docs[m]) <= Tick(docs'[m])
              /\ \E j \in jobs' : /\ j.at = "receipt" /\ About(j, m)
                                  /\ Tick(docs'[m]) <= Level(j.read),
         Me \in docs'[m].hidden => Me \in docs[m].hidden \/ Erasing(m)'
  PROVE  Keeps(m, i, k)
<1>1. Telling(m) => Telling(m)' BY DEF Telling
<1>2. Telling(m)' => CountNews(m, k)' BY DEF CountNews
<1>3. Erasing(m) => Erasing(m)'
  <2>1. PICK j : j = [at |-> "erased", m |-> m] OBVIOUS
  <2>2. j.at = "erased" BY <2>1
  <2> QED BY <2>1, <2>2 DEF Erasing
<1>4. Erasing(m)' => GoneNews(m, k)' BY DEF GoneNews
<1>5. \A n : CountRight(m, n, i) => CountRight(m, n, k)'
  BY <1>1, <1>2, CountKept DEF After
<1>6. ASSUME NEW j \in jobs', j.at = "receipt", About(j, m),
             Tick(docs'[m]) <= Level(j.read)
      PROVE  TickNews(m, k)'
  <2>1. Tick(docs[m])' = Tick(docs'[m]) BY DEF Tick
  <2> QED BY <1>6, <2>1 DEF TickNews, About
<1>7. \A t \in Nat : TickRight(m, t, i) => TickRight(m, t, k)'
  <2>1. docs[m].from = Me =>
           \/ Tick(docs'[m]) = Tick(docs[m])
           \/ Tick(docs[m]) <= Tick(docs'[m]) /\ TickNews(m, k)'
    BY <1>6
  <2> QED BY <2>1, TickKept DEF After
<1>8. GoneRight(m, i) => GoneRight(m, k)'
  BY <1>3, <1>4, GoneKept DEF After
<1> QED BY <1>5, <1>7, <1>8 DEF Keeps

\* Nothing is lost from the wire when nothing is taken from it.
LEMMA Afters ==
  ASSUME Typed, NEW e \in EventsOf(Len(docs)),
         wire' = wire \/ wire' = Append(wire, e)
  PROVE  /\ \A i : After(i, i)
         /\ After(Len(wire), Len(wire'))
         /\ Len(wire) \in Nat /\ Len(wire') \in Nat
         /\ Len(wire) <= Len(wire')
         /\ \A i \in DOMAIN wire : i \in DOMAIN wire' /\ wire'[i] = wire[i]
         /\ \A i \in DOMAIN wire' \ DOMAIN wire :
              i = Len(wire') /\ wire'[i] = e /\ wire' # wire
         /\ DOMAIN wire = 1 .. Len(wire)
         /\ wire' = Append(wire, e) =>
              /\ Len(wire') = Len(wire) + 1 /\ Len(wire') \in DOMAIN wire'
              /\ wire'[Len(wire')] = e
<1>1. wire \in Seq(EventsOf(Len(docs))) BY DEF Typed
<1>2. DOMAIN wire = 1 .. Len(wire) /\ Len(wire) \in Nat BY <1>1
<1>3. CASE wire' = wire
  <2>1. Append(wire, e) # wire
    <3>1. Len(Append(wire, e)) = Len(wire) + 1 /\ Len(wire) \in Nat
      BY <1>1, Appended
    <3> QED BY <3>1
  <2>2. Len(wire') = Len(wire) /\ DOMAIN wire' = DOMAIN wire BY <1>3
  <2>3. wire' # Append(wire, e) BY <1>3, <2>1
  <2>4. \A i : After(i, i) BY <1>3 DEF After
  <2>5. After(Len(wire), Len(wire')) BY <2>2, <2>4
  <2>6. \A i \in DOMAIN wire : i \in DOMAIN wire' /\ wire'[i] = wire[i]
    BY <1>3
  <2>7. DOMAIN wire' \ DOMAIN wire = {} BY <2>2
  <2>8. Len(wire) <= Len(wire')
    <3>1. Len(wire) \in Nat BY <1>1
    <3> QED BY <1>3, <3>1
  <2> QED BY <1>2, <2>2, <2>3, <2>4, <2>5, <2>6, <2>7, <2>8
<1>4. CASE wire' = Append(wire, e)
  <2>1. /\ Len(wire') = Len(wire) + 1 /\ DOMAIN wire' = 1 .. Len(wire) + 1
        /\ \A i \in 1 .. Len(wire) : wire'[i] = wire[i]
        /\ wire'[Len(wire) + 1] = e
    BY <1>1, <1>4, Appended
  <2> QED BY <1>2, <2>1 DEF After
<1> QED BY <1>3, <1>4

\* The messages a handler has news of.
Concerns(j, m) ==
  \/ j.at \in {"tell", "erased"} /\ j.m = m
  \/ j.at = "receipt" /\ About(j, m) /\ docs[m].from = Me

\* A handler that tells its news: the message is upset or its news is sent.
LEMMA NewsSent ==
  ASSUME Typed, NEW j \in jobs, NEW e \in EventsOf(Len(docs)),
         docs' = docs, overlap' = overlap, jobs' = jobs \ {j},
         wire' = wire \/ wire' = Append(wire, e), NEW m, NEW n, n = Len(wire'),
         /\ j.at = "tell" => e.k = "reaction" /\ e.m = j.m
         /\ j.at = "erased" => e.k = "deleted" /\ e.m = j.m
         /\ j.at = "receipt" => /\ e.k = "receipt" /\ e.room = j.room
                                /\ e.upTo = j.upTo /\ e.tick = Level(j.read)
  PROVE  /\ wire' = Append(wire, e) =>
              \A i \in Nat : i <= Len(wire) => Keeps(m, i, i)
         /\ ~ Concerns(j, m) => /\ \A i : Keeps(m, i, i)
                               /\ Keeps(m, Len(wire), n)
<1>a. /\ \A i : After(i, i)
      /\ After(Len(wire), n)
  BY Afters
<1>1. ASSUME NEW i, NEW k, After(i, k),
             \/ ~ Concerns(j, m)
             \/ Len(wire') > k /\ Len(wire') \in DOMAIN wire'
                /\ wire'[Len(wire')] = e
      PROVE  Keeps(m, i, k)
  <2>1. Telling(m) => CountNews(m, k)'
    BY <1>1 DEF Telling, CountNews, Concerns
  <2>2. \A c : CountRight(m, c, i) => CountRight(m, c, k)'
    BY <1>1, <2>1, CountKept DEF After
  <2>3. ASSUME docs[m].from = Me
        PROVE  \A h \in jobs : h.at = "receipt" /\ About(h, m) =>
                 \/ h \in jobs'
                 \/ \E b \in DOMAIN wire' :
                      /\ b > k /\ wire'[b].k = "receipt"
                      /\ About(wire'[b], m)
                      /\ wire'[b].tick = Level(h.read)
    BY <1>1, <2>3 DEF About, Concerns
  <2>4. \A t \in Nat : TickRight(m, t, i) => TickRight(m, t, k)'
    <3>1. docs[m].from = Me =>
            \A t \in Nat : TickRight(m, t, i) => TickRight(m, t, k)'
      BY <1>1, <2>3, TickKept DEF After
    <3> QED BY <3>1 DEF TickRight
  <2>5. Erasing(m) => GoneNews(m, k)'
    <3>1. PICK h : h = [at |-> "erased", m |-> m] OBVIOUS
    <3>2. h.at = "erased" /\ h.m = m BY <3>1
    <3>3. h # j => (Erasing(m) => Erasing(m)') BY <3>1 DEF Erasing
    <3>4. h = j => GoneNews(m, k)' BY <1>1, <3>2 DEF GoneNews, Concerns
    <3> QED BY <3>3, <3>4 DEF GoneNews
  <2>6. GoneRight(m, i) => GoneRight(m, k)'
    BY <1>1, <2>5, GoneKept DEF After
  <2> QED BY <2>2, <2>4, <2>6 DEF Keeps
<1>2. ASSUME wire' = Append(wire, e), NEW i \in Nat, i <= Len(wire)
      PROVE  Keeps(m, i, i)
  <2>1. Len(wire') > i /\ Len(wire') \in DOMAIN wire' /\ wire'[Len(wire')] = e
    BY <1>2, Afters
  <2> QED BY <1>1, <1>a, <2>1
<1> QED BY <1>1, <1>2, <1>a

\* A tick is a number; an event is about messages there are.
LEMMA Ticks == \A d : Tick(d) \in Nat
BY DEF Tick

\* The news is about messages there are.
LEMMA Abouts ==
  ASSUME Typed
  PROVE  /\ \A i \in DOMAIN wire :
              /\ wire[i] \in EventsOf(Len(docs))
              /\ wire[i].k \in {"reaction", "deleted"} => wire[i].m \in Ids
              /\ wire[i].k = "receipt" =>
                   /\ wire[i].tick \in Nat
                   /\ \A m : About(wire[i], m) /\ m \in Nat => m <= Len(docs)
         /\ \A j \in jobs : j.at = "receipt" =>
              \A m : About(j, m) /\ m \in Nat => m <= Len(docs)
         /\ \A j \in jobs : j.at \in {"tell", "erased"} => j.m \in Ids
<1>1. PICK n \in Nat : n = Len(docs) /\ Ids = 1 .. n BY Basics
<1>2. ASSUME NEW i \in DOMAIN wire
      PROVE  /\ wire[i] \in EventsOf(n)
             /\ wire[i].k \in {"reaction", "deleted"} => wire[i].m \in Ids
             /\ wire[i].k = "receipt" =>
                  /\ wire[i].tick \in Nat
                  /\ \A m : About(wire[i], m) /\ m \in Nat => m <= n
  <2>1. PICK e \in EventsOf(n) : e = wire[i] BY <1>1, Basics
  <2>2. e.k = "receipt" => e.upTo \in 0 .. n /\ e.tick \in Nat
    BY EventKinds
  <2>3. e.k = "receipt" => \A m : About(e, m) /\ m \in Nat => m <= n
    BY <2>2 DEF About
  <2> QED BY <1>1, <2>1, <2>2, <2>3, EventKinds
<1>3. ASSUME NEW j \in jobs, j.at = "receipt", NEW m \in Nat, About(j, m)
      PROVE  m <= n
  <2>1. j \in Seeing(n) BY <1>1, <1>3, JobKinds DEF Typed
  <2> QED BY <1>3, <2>1 DEF About, Seeing
<1>4. ASSUME NEW j \in jobs, j.at \in {"tell", "erased"} PROVE j.m \in Ids
  <2>1. j \in JobsOf(n) BY <1>1 DEF Typed
  <2> QED BY <1>1, <1>4, <2>1, JobKinds
<1> QED BY <1>1, <1>2, <1>3, <1>4

\* The server goes on and may send an event: the news stays right,
LEMMA ServingNews ==
  ASSUME Full, News, Grown, Typed', NEW e \in EventsOf(Len(docs)),
         wire' = wire \/ wire' = Append(wire, e), joined \subseteq joined',
         \A m \in Ids : docs[m].from = Me => Tick(docs[m]) <= Tick(docs'[m]),
         \A m \in Ids : docs[m].room \in joined =>
            \A i \in Nat : i <= Len(wire) => Keeps(m, i, i),
         TellsRight',
         \A j \in jobs' \ jobs : j.at = "receipt" =>
            /\ j.by = Peer
            /\ \A m \in Ids' : docs'[m].from = Me /\ About(j, m)'
                                 => Level(j.read) <= Tick(docs'[m]),
         wire' # wire =>
           /\ e.k = "reaction" => CountRight(e.m, e.n, Len(wire))'
           /\ e.k = "receipt" => \A m \in Ids :
                docs[m].from = Me /\ About(e, m) => e.tick <= Tick(docs[m])
           /\ e.k \in {"reaction", "deleted"} => docs[e.m].room \in joined
           /\ e.k \in {"receipt", "new"} => e.room \in joined
  PROVE  News'
<1>t. Typed BY DEF Full
<1>w. /\ \A i \in DOMAIN wire : i \in DOMAIN wire' /\ wire'[i] = wire[i]
      /\ \A i \in DOMAIN wire' \ DOMAIN wire :
           i = Len(wire') /\ wire'[i] = e /\ wire' # wire
      /\ DOMAIN wire = 1 .. Len(wire) /\ Len(wire) \in Nat
  BY <1>t, Afters
<1>g. \A m \in Ids : /\ m \in Ids' /\ docs'[m].room = docs[m].room
                     /\ docs'[m].from = docs[m].from
  BY DEF Grown
<1>n. ASSUME NEW m \in Ids' \ Ids PROVE m \in Nat /\ ~ (m <= Len(docs))
  <2>1. m \in 1 .. Len(docs') /\ Len(docs) \in Nat /\ Len(docs') \in Nat
    BY <1>t, Basics DEF Ids, Typed
  <2> QED BY <2>1 DEF Ids
<1>e. /\ e.k \in {"reaction", "deleted"} => e.m \in Ids
      /\ e.k = "receipt" =>
           /\ e.tick \in Nat
           /\ \A m : About(e, m) /\ m \in Nat => m <= Len(docs)
  <2>1. PICK n \in Nat : n = Len(docs) /\ Ids = 1 .. n BY <1>t, Basics
  <2>2. e \in EventsOf(n) BY <2>1
  <2>3. e.k = "receipt" => e.upTo \in 0 .. n /\ e.tick \in Nat
    BY <2>2, EventKinds
  <2>4. e.k = "receipt" => \A m : About(e, m) /\ m \in Nat => m <= n
    BY <2>3 DEF About
  <2> QED BY <2>1, <2>2, <2>3, <2>4, EventKinds
<1>1. ReactionsRight'
  <2> SUFFICES ASSUME NEW i \in DOMAIN wire', wire'[i].k = "reaction"
               PROVE  CountRight(wire[i].m, wire[i].n, i)'
    BY DEF ReactionsRight
  <2>1. PICK d : d = wire'[i] OBVIOUS
  <2>2. CASE i \in DOMAIN wire
    <3>1. d = wire[i] /\ d.k = "reaction" BY <1>w, <2>1, <2>2
    <3>2. CountRight(d.m, d.n, i) /\ docs[d.m].room \in joined
      BY <2>2, <3>1 DEF News, ReactionsRight, Channels
    <3>3. d.m \in Ids BY <1>t, <2>2, <3>1, Abouts
    <3>4. i \in Nat /\ i <= Len(wire) BY <1>w, <2>2
    <3>5. CountRight(d.m, d.n, i)' BY <3>2, <3>3, <3>4 DEF Keeps
    <3> QED BY <2>1, <3>5
  <2>3. CASE i \notin DOMAIN wire
    <3>1. d = e /\ i = Len(wire') /\ e.k = "reaction" /\ wire' # wire
      BY <1>w, <2>1, <2>3
    <3>2. PICK k : k = Len(wire') OBVIOUS
    <3>3. CountRight(e.m, e.n, k)' BY <3>1, <3>2 DEF CountRight, CountNews
    <3> QED BY <2>1, <3>1, <3>2, <3>3
  <2> QED BY <2>2, <2>3
<1>2. ASSUME NEW j \in jobs', j.at = "receipt"
      PROVE  /\ j.by = Peer
             /\ \A m \in Ids' : docs'[m].from = Me /\ About(j, m)'
                                  => Level(j.read) <= Tick(docs'[m])
  <2>1. CASE j \notin jobs BY <1>2, <2>1
  <2>2. CASE j \in jobs
    <3>1. j.by = Peer BY <1>2, <2>2 DEF News, ReceiptsRight
    <3>2. ASSUME NEW m \in Ids', docs'[m].from = Me, About(j, m)'
          PROVE  Level(j.read) <= Tick(docs'[m])
      <4>1. CASE m \in Ids
        <5>1. docs[m].from = Me /\ About(j, m)
          BY <1>g, <3>2, <4>1 DEF About
        <5>2. Level(j.read) <= Tick(docs[m])
          BY <1>2, <2>2, <4>1, <5>1 DEF News, ReceiptsRight
        <5>3. Level(j.read) \in Nat BY DEF Level
        <5> QED BY <4>1, <5>1, <5>2, <5>3, Ticks
      <4>2. CASE m \notin Ids
        <5>1. m \in Nat /\ ~ (m <= Len(docs)) BY <1>n, <4>2
        <5>2. m <= j.upTo BY <3>2 DEF About
        <5>3. j \in Seeing(Len(docs)) BY <1>2, <1>t, <2>2, Basics, JobKinds
                                         DEF Typed
        <5> QED BY <1>t, <5>1, <5>2, <5>3, Basics DEF Seeing
      <4> QED BY <4>1, <4>2
    <3> QED BY <3>1, <3>2
  <2> QED BY <2>1, <2>2
<1>3. ASSUME NEW i \in DOMAIN wire', wire'[i].k = "receipt",
             NEW m \in Ids', docs'[m].from = Me, About(wire[i], m)'
      PROVE  wire'[i].tick <= Tick(docs'[m])
  <2>1. PICK d : d = wire'[i] OBVIOUS
  <2>2. d.k = "receipt" /\ About(d, m)' BY <1>3, <2>1
  <2>3. i \in DOMAIN wire => d = wire[i] BY <1>w, <2>1
  <2>4. i \notin DOMAIN wire => d = e /\ wire' # wire BY <1>w, <2>1
  <2>5. d.tick \in Nat /\ d.upTo \in 0 .. Len(docs) /\ Len(docs) \in Nat
    <3>1. d \in EventsOf(Len(docs)) BY <1>t, <2>3, <2>4, Basics
    <3> QED BY <1>t, <2>2, <3>1, Basics, EventKinds
  <2>6. m \in Ids BY <1>n, <2>2, <2>5 DEF About
  <2>7. docs[m].from = Me /\ About(d, m)
    BY <1>3, <1>g, <2>2, <2>6 DEF About
  <2>8. d.tick <= Tick(docs[m])
    BY <2>2, <2>3, <2>4, <2>6, <2>7 DEF News, ReceiptsRight
  <2> QED BY <2>1, <2>5, <2>6, <2>7, <2>8, Ticks
<1>4. ASSUME NEW i \in DOMAIN wire'
      PROVE  /\ wire'[i].k \in {"reaction", "deleted"}
                  => docs'[wire'[i].m].room \in joined'
             /\ wire'[i].k \in {"receipt", "new"}
                  => wire'[i].room \in joined'
  <2>1. PICK d : d = wire'[i] OBVIOUS
  <2>2. CASE i \in DOMAIN wire
    <3>1. d = wire[i] BY <1>w, <2>1, <2>2
    <3>2. d.k \in {"reaction", "deleted"} => d.m \in Ids
      BY <1>t, <2>2, <3>1, Abouts
    <3> QED BY <1>g, <2>1, <2>2, <3>1, <3>2 DEF News, Channels
  <2>3. CASE i \notin DOMAIN wire
    BY <1>e, <1>g, <1>w, <2>1, <2>3
  <2> QED BY <2>2, <2>3
<1>5. ReceiptsRight'
  <2>1. \A i \in DOMAIN wire' : wire'[i].k = "receipt" =>
          \A m \in Ids' : docs'[m].from = Me /\ About(wire[i], m)'
                        => wire'[i].tick <= Tick(docs'[m])
    BY <1>3
  <2> QED BY <1>2, <2>1 DEF ReceiptsRight, Tick
<1>6. Channels' BY <1>4 DEF Channels
<1> QED BY <1>1, <1>5, <1>6 DEF News

\* A place can be named.
LEMMA GoodAt ==
  ASSUME NEW n, n = Len(wire') PROVE \A x : Good(x, Len(wire))' <=> Good(x, n)'
BY DEF Good, CountRight, TickRight, GoneRight, CountNews, TickNews, GoneNews

\* What is sent to the socket is of rooms whose channel it is in.
LEMMA InChannel ==
  ASSUME Full, News
  PROVE  /\ \A j \in jobs : j.at = "reply" => \A x \in j.list :
              x.m \in Ids /\ x.tick \in Nat /\ docs[x.m].room = j.room
              /\ j.room \in joined
         /\ \A i \in DOMAIN wire : wire[i].k = "joined" =>
              \A x \in wire[i].list :
                 x.m \in Ids /\ x.tick \in Nat
                 /\ docs[x.m].room = wire[i].room /\ wire[i].room \in joined
         /\ \A i \in DOMAIN wire : wire[i].k = "new" =>
              /\ wire[i].item.m \in Ids /\ wire[i].item.tick \in Nat
              /\ docs[wire[i].item.m].room = wire[i].room
              /\ wire[i].room \in joined
<1>t. Typed BY DEF Full
<1>i. \A x \in Items(Len(docs)) : x.m \in Ids /\ x.tick \in Nat
  BY DEF Items, Ids
<1>1. ASSUME NEW j \in jobs, j.at = "reply", NEW x \in j.list
      PROVE  /\ x.m \in Ids /\ x.tick \in Nat /\ docs[x.m].room = j.room
             /\ j.room \in joined
  <2>1. j.list \subseteq Items(Len(docs)) BY <1>t, <1>1, Named
  <2>2. OfRoom(j.room, j.list) /\ j.room \in joined
    BY <1>1 DEF Full, Delivery, InRoom, Linked
  <2> QED BY <1>1, <1>i, <2>1, <2>2 DEF OfRoom
<1>2. ASSUME NEW i \in DOMAIN wire, wire[i].k = "joined",
             NEW x \in wire[i].list
      PROVE  /\ x.m \in Ids /\ x.tick \in Nat
             /\ docs[x.m].room = wire[i].room /\ wire[i].room \in joined
  <2>1. wire[i].list \subseteq Items(Len(docs)) BY <1>t, <1>2, Named
  <2>2. OfRoom(wire[i].room, wire[i].list) /\ wire[i].room \in joined
    BY <1>2 DEF Full, Delivery, InRoom, Linked
  <2> QED BY <1>2, <1>i, <2>1, <2>2 DEF OfRoom
<1>3. ASSUME NEW i \in DOMAIN wire, wire[i].k = "new"
      PROVE  /\ wire[i].item.m \in Ids /\ wire[i].item.tick \in Nat
             /\ docs[wire[i].item.m].room = wire[i].room
             /\ wire[i].room \in joined
  <2>1. PICK d \in EventsOf(Len(docs)) : d = wire[i] BY <1>t, Basics
  <2>2. d.item \in Items(Len(docs)) BY <1>t, <1>3, <2>1, Basics, EventKinds
  <2>3. docs[wire[i].item.m].room = wire[i].room
    BY <1>3 DEF Full, Delivery, InRoom
  <2> QED BY <1>3, <1>i, <2>1, <2>2, <2>3 DEF News, Channels
<1> QED BY <1>1, <1>2, <1>3

\* the histories and the new messages stay good,
LEMMA ServingLists ==
  ASSUME Full, OnTheWay, Grown, NEW e \in EventsOf(Len(docs)),
         wire' = wire \/ wire' = Append(wire, e), NEW n, n = Len(wire'),
         upset \subseteq upset',
         \A m \in Ids : docs[m].room \in joined =>
            \A i \in Nat : i <= Len(wire) => Keeps(m, i, i),
         \A j \in jobs \cap jobs' : j.at = "reply" => \A m \in ListOf(j) :
            m \in upset' \/ Keeps(m, Len(wire), n),
         \A m \in Ids : Announced(m)' =>
            Announced(m) /\ (m \in upset' \/ Keeps(m, Len(wire), n)),
         \A m \in Ids' \ Ids : Announced(m)' => Good(Blank(m), n)',
         \A j \in jobs' \ jobs : j.at = "reply" =>
            Single(j.list) /\ \A x \in j.list : Good(x, n)',
         wire' # wire =>
           /\ e.k = "joined" =>
                Single(e.list) /\ \A x \in e.list : Good(x, n)'
           /\ e.k = "new" => Good(e.item, n)'
  PROVE  GoodServer' /\ GoodWire'
<1>t. Typed BY DEF Full
<1>w. /\ \A i \in DOMAIN wire : i \in DOMAIN wire' /\ wire'[i] = wire[i]
      /\ \A i \in DOMAIN wire' \ DOMAIN wire :
           i = Len(wire') /\ wire'[i] = e /\ wire' # wire
      /\ DOMAIN wire = 1 .. Len(wire) /\ Len(wire) \in Nat
  BY <1>t, Afters
<1>n. News BY DEF OnTheWay
<1>1. ASSUME NEW j \in jobs', j.at = "reply"
      PROVE  Single(j.list) /\ \A x \in j.list : Good(x, n)'
  <2>1. CASE j \notin jobs BY <1>1, <2>1
  <2>2. CASE j \in jobs
    <3>1. Single(j.list) /\ \A x \in j.list : Good(x, Len(wire))
      BY <1>1, <2>2 DEF OnTheWay, GoodServer
    <3>2. ASSUME NEW x \in j.list PROVE Good(x, n)'
      <4>1. x.m \in ListOf(j) /\ x.tick \in Nat
        BY <1>1, <1>n, <2>2, InChannel DEF ListOf
      <4>2. x.m \in upset' \/ Keeps(x.m, Len(wire), n)
        BY <1>1, <2>2, <4>1
      <4> QED BY <3>1, <4>1, <4>2, GoodKept
    <3> QED BY <3>1, <3>2
  <2> QED BY <2>1, <2>2
<1>2. ASSUME NEW m \in Ids', Announced(m)' PROVE Good(Blank(m), n)'
  <2>1. CASE m \notin Ids BY <1>2, <2>1
  <2>2. CASE m \in Ids
    <3>1. Good(Blank(m), Len(wire)) BY <1>2, <2>2 DEF OnTheWay, GoodServer
    <3>2. Blank(m).m = m /\ Blank(m).tick \in Nat BY DEF Blank
    <3>3. m \in upset' \/ Keeps(m, Len(wire), n) BY <1>2, <2>2
    <3> QED BY <3>1, <3>2, <3>3, GoodKept
  <2> QED BY <2>1, <2>2
<1>3. GoodServer'
  <2>1. \A x : Good(x, Len(wire))' <=> Good(x, n)' BY GoodAt
  <2> QED BY <1>1, <1>2, <2>1 DEF GoodServer, Blank
<1>4. ASSUME NEW i \in DOMAIN wire'
      PROVE  /\ wire'[i].k = "joined" =>
                  /\ Single(wire'[i].list)
                  /\ \A x \in wire'[i].list : Good(x, i)'
             /\ wire'[i].k = "new" => Good(wire[i].item, i)'
  <2>1. PICK d : d = wire'[i] OBVIOUS
  <2>2. CASE i \notin DOMAIN wire
    <3>1. d = e /\ wire' # wire /\ i = n BY <1>w, <2>1, <2>2
    <3>2. d.k = "joined" => Single(d.list) /\ \A x \in d.list : Good(x, i)'
      BY <3>1
    <3>3. d.k = "new" => Good(d.item, i)' BY <3>1
    <3> QED BY <2>1, <3>2, <3>3
  <2>3. CASE i \in DOMAIN wire
    <3>1. d = wire[i] /\ i \in Nat /\ i <= Len(wire) BY <1>w, <2>1, <2>3
    <3>2. ASSUME NEW x, x.m \in Ids, docs[x.m].room \in joined,
                 x.tick \in Nat, Good(x, i)
          PROVE  Good(x, i)'
      <4>1. Keeps(x.m, i, i) BY <3>1, <3>2
      <4> QED BY <3>2, <4>1, GoodKept
    <3>3. d.k = "joined" => Single(d.list) /\ \A x \in d.list : Good(x, i)'
      <4>1. ASSUME d.k = "joined", NEW x \in d.list PROVE Good(x, i)'
        <5>1. x.m \in Ids /\ docs[x.m].room \in joined /\ x.tick \in Nat
          BY <1>n, <2>3, <3>1, <4>1, InChannel
        <5>2. Good(x, i) BY <2>3, <3>1, <4>1 DEF OnTheWay, GoodWire
        <5> QED BY <3>2, <5>1, <5>2
      <4> QED BY <2>3, <3>1, <4>1 DEF OnTheWay, GoodWire
    <3>4. d.k = "new" => Good(d.item, i)'
      <4> SUFFICES ASSUME d.k = "new" PROVE Good(d.item, i)'
        OBVIOUS
      <4>1. PICK x : x = d.item OBVIOUS
      <4>2. x.m \in Ids /\ docs[x.m].room \in joined /\ x.tick \in Nat
        BY <1>n, <2>3, <3>1, <4>1, InChannel
      <4>3. Good(x, i) BY <2>3, <3>1, <4>1 DEF OnTheWay, GoodWire
      <4>4. Good(x, i)' BY <3>2, <4>2, <4>3
      <4> QED BY <4>1, <4>4
    <3> QED BY <2>1, <3>3, <3>4
  <2> QED BY <2>2, <2>3
<1>5. GoodWire' BY <1>4 DEF GoodWire
<1> QED BY <1>3, <1>5

\* and what histories lack still comes after them.
LEMMA ServingWhole ==
  ASSUME Full, OnTheWay, Grown, NEW e \in EventsOf(Len(docs)),
         wire' = wire \/ wire' = Append(wire, e), upset \subseteq upset',
         \A m \in Ids' \ Ids : Announced(m)',
         \A j \in jobs' \ jobs : j.at = "reply" =>
            \A m \in Lasting(j.room)' : m \in ListOf(j),
         wire' # wire /\ e.k = "joined" => \A m \in Lasting(e.room)' :
            m \in ListOf(e) \/ Announced(m)',
         \A m \in Ids : Announced(m) /\ ~ Announced(m)' =>
            /\ docs[m].room \in joined =>
                 wire' = Append(wire, e) /\ e.k = "new" /\ e.item.m = m
            /\ m \in upset' \/ \A h \in jobs : h.at = "reply"
                                                 => h.room # docs[m].room
  PROVE  /\ Whole'
         /\ \A m \in Ids :
              docs[m].room \in joined /\ (Announced(m) \/ InWire(m))
                => Announced(m)' \/ InWire(m)'
<1>t. Typed BY DEF Full
<1>w. /\ \A i \in DOMAIN wire : i \in DOMAIN wire' /\ wire'[i] = wire[i]
      /\ \A i \in DOMAIN wire' \ DOMAIN wire :
           i = Len(wire') /\ wire'[i] = e /\ wire' # wire
      /\ DOMAIN wire = 1 .. Len(wire) /\ Len(wire) \in Nat
      /\ wire' = Append(wire, e) =>
              /\ Len(wire') = Len(wire) + 1 /\ Len(wire') \in DOMAIN wire'
              /\ wire'[Len(wire')] = e
  BY <1>t, Afters
<1>l. ASSUME NEW r, NEW m \in Lasting(r)', m \in Ids
      PROVE  m \in Lasting(r) /\ docs[m].room = r /\ m \notin upset'
  BY <1>l DEF Lasting, Grown
<1>1. ASSUME NEW j \in jobs', j.at = "reply", NEW m \in Lasting(j.room)'
      PROVE  m \in ListOf(j) \/ Announced(m)'
  <2>0. m \in Ids' BY DEF Lasting
  <2>1. CASE m \notin Ids BY <2>0, <2>1
  <2>2. CASE j \notin jobs BY <1>1, <2>2
  <2>3. CASE m \in Ids /\ j \in jobs
    <3>0. PICK r : r = j.room OBVIOUS
    <3>1. m \in Lasting(r)' BY <1>1, <3>0 DEF Lasting
    <3>2. m \in Lasting(r) /\ docs[m].room = r /\ m \notin upset'
      BY <1>l, <2>3, <3>1
    <3>3. m \in ListOf(j) \/ Announced(m)
      BY <1>1, <2>3, <3>0, <3>2 DEF OnTheWay, Whole
    <3> QED BY <1>1, <2>3, <3>0, <3>2, <3>3
  <2> QED BY <2>1, <2>2, <2>3
<1>2. ASSUME NEW i \in DOMAIN wire', wire'[i].k = "joined",
             NEW m \in Lasting(wire[i].room)'
      PROVE  \/ m \in ListOf(wire'[i]) \/ Announced(m)'
             \/ \E k \in DOMAIN wire' : k > i /\ New(k, m)'
  <2>0. m \in Ids' BY DEF Lasting
  <2>1. CASE m \notin Ids BY <2>0, <2>1
  <2>2. CASE i \notin DOMAIN wire
    <3>1. wire'[i] = e /\ wire' # wire BY <1>w, <2>2
    <3>2. m \in Lasting(e.room)' BY <1>2, <3>1 DEF Lasting
    <3> QED BY <1>2, <3>1, <3>2
  <2>3. CASE m \in Ids /\ i \in DOMAIN wire
    <3>0. PICK r : r = wire[i].room OBVIOUS
    <3>1. wire'[i] = wire[i] BY <1>w, <2>3
    <3>2. m \in Lasting(r)' BY <1>2, <3>0, <3>1 DEF Lasting
    <3>3. m \in Lasting(r) /\ docs[m].room = r /\ m \notin upset'
      BY <1>l, <2>3, <3>2
    <3>4. r \in joined
      BY <1>2, <2>3, <3>0, <3>1 DEF Full, Delivery, Linked
    <3>5. \/ m \in ListOf(wire[i]) \/ Announced(m)
          \/ \E k \in DOMAIN wire : k > i /\ New(k, m)
      BY <1>2, <2>3, <3>0, <3>1, <3>3 DEF OnTheWay, Whole
    <3>6. CASE \E k \in DOMAIN wire : k > i /\ New(k, m)
      BY <1>w, <3>6 DEF New
    <3>7. CASE Announced(m) /\ ~ Announced(m)'
      <4>1. wire' = Append(wire, e) /\ e.k = "new" /\ e.item.m = m
        BY <2>3, <3>3, <3>4, <3>7
      <4>2. PICK k : k = Len(wire') OBVIOUS
      <4>3. k \in DOMAIN wire' /\ wire'[k] = e BY <1>w, <4>1, <4>2
      <4>5. k = Len(wire) + 1 BY <1>w, <4>1, <4>2
      <4>6. i \in Nat /\ i <= Len(wire) BY <1>w, <2>3
      <4>7. k > i BY <1>w, <4>5, <4>6
      <4>4. New(k, m)' BY <4>1, <4>3 DEF New
      <4> QED BY <4>3, <4>4, <4>7
    <3> QED BY <3>1, <3>5, <3>6, <3>7
  <2> QED BY <2>1, <2>2, <2>3
<1>3. Whole'
  <2>1. \A i \in DOMAIN wire' : wire'[i].k = "joined" =>
          \A m \in Lasting(wire[i].room)' :
            \/ m \in ListOf(wire'[i]) \/ Announced(m)'
            \/ \E k \in DOMAIN wire' : k > i /\ New(k, m)'
    BY <1>2
  <2>2. \A j \in jobs' : j.at = "reply" =>
          \A m \in Lasting(j.room)' : m \in ListOf(j) \/ Announced(m)'
    BY <1>1
  <2> QED BY <2>1, <2>2 DEF Whole, ListOf
<1>4. ASSUME NEW m \in Ids, docs[m].room \in joined,
             Announced(m) \/ InWire(m)
      PROVE  Announced(m)' \/ InWire(m)'
  <2>1. CASE InWire(m) BY <1>w, <2>1 DEF InWire, New
  <2>2. CASE Announced(m) /\ ~ Announced(m)'
    <3>1. wire' = Append(wire, e) /\ e.k = "new" /\ e.item.m = m
      BY <1>4, <2>2
    <3>2. PICK k : k = Len(wire') OBVIOUS
    <3>3. k \in DOMAIN wire' /\ wire'[k] = e BY <1>w, <3>1, <3>2
    <3> QED BY <3>1, <3>3 DEF InWire, New
  <2> QED BY <1>4, <2>1, <2>2
<1> QED BY <1>3, <1>4

(***************************************************************************)
(* The mounted chat, while it is not touched.                              *)
(***************************************************************************)
LEMMA PageKept ==
  ASSUME Full, OncePage, GoodPage, Grown, Mounted' = Mounted, Page' = Page,
         Current' => Current, upset \subseteq upset',
         \A m \in Ids : docs[m].room \in joined => Keeps(m, 0, 0),
         \A m \in Ids :
            docs[m].room \in joined /\ (Announced(m) \/ InWire(m))
              => Announced(m)' \/ InWire(m)',
         \A m \in Ids' \ Ids : Announced(m)'
  PROVE  OncePage' /\ GoodPage'
<1>t. Typed BY DEF Full
<1>1. OncePage' BY DEF OncePage, OnceChat, Fresh, Shown, Single
<1>2. ASSUME Current' PROVE GoodChat(Page)'
  <2> DEFINE c == Page
  <2>1. Mounted /\ ~ crossed /\ GoodChat(c) /\ c.room \in joined
    BY <1>2 DEF GoodPage, Current
  <2>2. c \in ChatsOf(Len(docs)) BY <1>t, <2>1, Basics
  <2>i. /\ c.shown \subseteq Items(Len(docs))
        /\ c.fresh \subseteq Items(Len(docs))
        /\ \A h \in c.lists : h.list \subseteq Items(Len(docs))
    BY <1>t, <2>1, Named
  <2>r. /\ \A h \in c.lists : h.room = c.room /\ OfRoom(h.room, h.list)
        /\ OfRoom(c.room, c.shown) /\ OfRoom(c.room, c.fresh)
    BY <2>1 DEF Full, Delivery, InRoom
  <2>c. PICK d : d = c OBVIOUS
  <2>d. Page' = d BY <2>c
  <2> HIDE DEF c
  <2>3. ASSUME NEW x \in Items(Len(docs)), docs[x.m].room = d.room, Good(x, 0)
        PROVE  Good(x, 0)'
    <3>1. x.m \in Ids /\ x.tick \in Nat BY DEF Items, Ids
    <3>2. Keeps(x.m, 0, 0) BY <2>1, <2>3, <2>c, <3>1
    <3> QED BY <2>3, <3>1, <3>2, GoodKept
  <2>4. \A h \in d.lists : \A x \in h.list : Good(x, 0)'
    <3> SUFFICES ASSUME NEW h \in d.lists, NEW x \in h.list
                 PROVE  Good(x, 0)'
      OBVIOUS
    <3>1. x \in Items(Len(docs)) /\ docs[x.m].room = d.room
      BY <2>c, <2>i, <2>r DEF OfRoom
    <3>2. Good(x, 0) BY <2>1, <2>c DEF GoodChat
    <3> QED BY <2>3, <3>1, <3>2
  <2>5. \A x \in d.fresh : Good(x, 0)'
    <3> SUFFICES ASSUME NEW x \in d.fresh PROVE Good(x, 0)'
      OBVIOUS
    <3>1. x \in Items(Len(docs)) /\ docs[x.m].room = d.room
      BY <2>c, <2>i, <2>r DEF OfRoom
    <3>2. Good(x, 0) BY <2>1, <2>c DEF GoodChat
    <3> QED BY <2>3, <3>1, <3>2
  <2>6. d.lists = {} => \A x \in d.shown : Good(x, 0)'
    <3> SUFFICES ASSUME d.lists = {}, NEW x \in d.shown PROVE Good(x, 0)'
      OBVIOUS
    <3>1. x \in Items(Len(docs)) /\ docs[x.m].room = d.room
      BY <2>c, <2>i, <2>r DEF OfRoom
    <3>2. Good(x, 0) BY <2>1, <2>c DEF GoodChat
    <3> QED BY <2>3, <3>1, <3>2
  <2>7. ASSUME NEW m \in Lasting(d.room)'
        PROVE  Announced(m)' \/ InWire(m)' \/ Has(d, m)
    <3>1. CASE m \notin Ids
      <4>1. m \in Ids' BY DEF Lasting
      <4> QED BY <3>1, <4>1
    <3>2. CASE m \in Ids
      <4>1. m \in Lasting(d.room) /\ docs[m].room \in joined
        BY <2>1, <2>7, <2>c, <3>2 DEF Lasting, Grown
      <4>2. Announced(m) \/ InWire(m) \/ Has(d, m)
        BY <2>1, <2>c, <4>1 DEF GoodChat
      <4> QED BY <3>2, <4>1, <4>2
    <3> QED BY <3>1, <3>2
  <2>8. d.active = d.room BY <2>1, <2>c DEF GoodChat
  <2>9. GoodChat(d)'
    BY <2>4, <2>5, <2>6, <2>7, <2>8 DEF GoodChat, Has, Shown, Fresh, ListOf
  <2> QED BY <2>9, <2>d DEF GoodChat, Has, Shown, Fresh, ListOf
<1> QED BY <1>1, <1>2 DEF GoodPage

(***************************************************************************)
(* The steps at which nothing is sent to the socket.                       *)
(***************************************************************************)
\* A message as it is stored is good anywhere.
AsStored(x) == /\ x.count = docs[x.m].count /\ x.tick = Tick(docs[x.m])
               /\ Me \notin docs[x.m].hidden

LEMMA StoredGood == ASSUME NEW x, NEW n, AsStored(x)' PROVE Good(x, n)'
<1>1. Tick(docs[x.m])' \in Nat BY Ticks DEF Tick
<1>2. Tick(docs[x.m])' <= Tick(docs[x.m])' BY <1>1
<1> QED BY <1>2 DEF Good, AsStored, CountRight, TickRight, GoneRight

\* Handlers go on and messages change, with news to be told.
LEMMA QuietView ==
  ASSUME View, Typed', Grown, Still, wire' = wire, NEW r0 \in Rooms,
         overlap \subseteq overlap',
         \A j \in jobs : j.at \in {"announce", "tell", "receipt", "erased"}
                           => j \in jobs',
         \A j \in jobs : j.at \in {"find", "reply"} =>
            \E k \in jobs' : k.at \in {"find", "reply"} /\ k.room = j.room,
         \A m \in Ids : docs'[m].count = docs[m].count \/ Telling(m)',
         \A m \in Ids : docs[m].from = Me =>
           \/ Tick(docs'[m]) = Tick(docs[m])
           \/ /\ Tick(docs[m]) <= Tick(docs'[m])
              /\ \E j \in jobs' : /\ j.at = "receipt" /\ About(j, m)
                                  /\ Tick(docs'[m]) <= Level(j.read),
         \A m \in Ids :
            Me \in docs'[m].hidden => Me \in docs[m].hidden \/ Erasing(m)',
         \A m \in Ids' \ Ids : Announced(m)' /\ AsStored(Blank(m))',
         \A m \in Ids : Announced(m)' => Announced(m),
         TellsRight',
         \A j \in jobs' \ jobs : j.at = "receipt" =>
            /\ j.by = Peer
            /\ \A m \in Ids' : docs'[m].from = Me /\ About(j, m)'
                                 => Level(j.read) <= Tick(docs'[m]),
         \A j \in jobs' \ jobs : j.at = "reply" =>
            /\ Single(j.list) /\ \A x \in j.list : AsStored(x)'
            /\ \A m \in Lasting(j.room)' : m \in ListOf(j)
  PROVE  OnTheWay' /\ OncePage' /\ GoodPage'
<1> USE DEF Still
<1>f. Full /\ OnTheWay /\ OncePage /\ GoodPage /\ Typed /\ News
  BY DEF View, Full, OnTheWay
<1>1. PICK e \in EventsOf(Len(docs)) : TRUE
  <2>1. [k |-> "ping", room |-> r0] \in EventsOf(Len(docs)) BY DEF EventsOf
  <2> QED BY <2>1
<1>2. ASSUME NEW m \in Ids, NEW i PROVE Keeps(m, i, i)
  <2>1. After(i, i) BY DEF After
  <2>2. docs'[m].from = docs[m].from /\ docs'[m].room = docs[m].room
    BY DEF Grown
  <2> QED BY <2>1, <2>2, NewsKept
<1>3. \A m \in Ids : docs[m].from = Me => Tick(docs[m]) <= Tick(docs'[m])
  <2>1. \A d : Tick(d) <= Tick(d) BY Ticks
  <2> QED BY <2>1
<1>4. News'
  <2>1. joined \subseteq joined' /\ ~ (wire' # wire) OBVIOUS
  <2> QED BY <1>1, <1>2, <1>3, <1>f, <2>1, ServingNews
<1>5. PICK n : n = Len(wire') OBVIOUS
<1>6. GoodServer' /\ GoodWire'
  <2>1. \A j \in jobs \cap jobs' : j.at = "reply" => \A m \in ListOf(j) :
            m \in upset' \/ Keeps(m, Len(wire), n)
    <3>1. ASSUME NEW j \in jobs, j.at = "reply", NEW m \in ListOf(j)
          PROVE  m \in Ids
      BY <1>f, <3>1, InChannel DEF ListOf
    <3> QED BY <1>2, <1>5, <3>1
  <2>2. \A m \in Ids : Announced(m)' =>
          Announced(m) /\ (m \in upset' \/ Keeps(m, Len(wire), n))
    BY <1>2, <1>5
  <2>3. \A m \in Ids' \ Ids : Announced(m)' => Good(Blank(m), n)'
    <3> SUFFICES ASSUME NEW m \in Ids' \ Ids PROVE Good(Blank(m), n)'
      OBVIOUS
    <3>1. PICK x : x = Blank(m) OBVIOUS
    <3>2. AsStored(x)' BY <3>1 DEF Blank
    <3>3. Good(x, n)' BY <3>2, StoredGood
    <3> QED BY <3>1, <3>3 DEF Blank
  <2>4. \A j \in jobs' \ jobs : j.at = "reply" =>
          Single(j.list) /\ \A x \in j.list : Good(x, n)'
    BY StoredGood
  <2>5. upset \subseteq upset' /\ ~ (wire' # wire) OBVIOUS
  <2> QED BY <1>1, <1>2, <1>5, <1>f, <2>1, <2>2, <2>3, <2>4, <2>5,
             ServingLists
<1>7. \A m \in Ids : Announced(m) => Announced(m)'
  <2> SUFFICES ASSUME NEW m \in Ids, Announced(m) PROVE Announced(m)'
    OBVIOUS
  <2>1. PICK j : j = [at |-> "announce", m |-> m] OBVIOUS
  <2>2. j.at = "announce" /\ j \in jobs BY <2>1 DEF Announced
  <2> QED BY <2>1, <2>2 DEF Announced
<1>8. /\ Whole'
      /\ \A m \in Ids :
           docs[m].room \in joined /\ (Announced(m) \/ InWire(m))
             => Announced(m)' \/ InWire(m)'
  <2>1. upset \subseteq upset' /\ ~ (wire' # wire) OBVIOUS
  <2>2. \A m \in Ids' \ Ids : Announced(m)' OBVIOUS
  <2>3. \A j \in jobs' \ jobs : j.at = "reply" =>
            \A m \in Lasting(j.room)' : m \in ListOf(j)
    OBVIOUS
  <2> QED BY <1>1, <1>7, <1>f, <2>1, <2>2, <2>3, ServingWhole
<1>9. OncePage' /\ GoodPage'
  <2>1. Mounted' = Mounted /\ Page' = Page BY DEF Mounted, Page
  <2>2. \A r : Again(r) => Again(r)' BY DEF Again, Asked
  <2>3. Current' => Current BY <2>1, <2>2 DEF Current
  <2> QED BY <1>2, <1>8, <1>f, <2>1, <2>3, PageKept
<1> QED BY <1>4, <1>6, <1>8, <1>9 DEF OnTheWay

\* Counts that are to be told stay right when no count changes.
LEMMA TellsKept ==
  ASSUME Typed, TellsRight, overlap \subseteq overlap',
         \A j \in jobs' : j.at = "tell" => j \in jobs,
         \A m \in Ids : docs'[m].count = docs[m].count
  PROVE  TellsRight'
BY Abouts DEF TellsRight

\* A tick is what it is by the receipts of the other user.
LEMMA SameTick ==
  ASSUME NEW c, NEW d, Peer \in c.read <=> Peer \in d.read,
         Peer \in c.delivered <=> Peer \in d.delivered
  PROVE  Tick(c) = Tick(d)
BY DEF Tick

\* A message is stored: it is as new until it is announced.
LEMMA PostView ==
  ASSUME View, Typed', NEW u \in Users, NEW r \in Rooms, Post(u, r)
  PROVE  OnTheWay' /\ OncePage' /\ GoodPage'
<1>t. Typed /\ TellsRight BY DEF View, Full, OnTheWay, News
<1>1. Grown BY <1>t, PostTyped
<1> DEFINE d == [room |-> r, from |-> u, hidden |-> {}, delivered |-> {},
                 read |-> {}, count |-> 0, reacted |-> 0]
<1>2. d \in Doc /\ d.hidden = {} /\ d.count = 0 /\ Tick(d) = 0
  BY DEF Doc, Tick
<1>3. docs' = Append(docs, d) BY DEF Post
<1> HIDE DEF d
<1>4. /\ Len(docs') = Len(docs) + 1 /\ docs'[Len(docs) + 1] = d
      /\ \A m \in Ids : docs'[m] = docs[m]
  BY <1>2, <1>3, Appended, <1>t DEF Typed, Ids
<1>5. /\ Len(docs) \in Nat /\ Ids' = Ids \cup {Len(docs) + 1}
      /\ Len(docs) + 1 \notin Ids
  BY <1>t, <1>4, Basics DEF Ids
<1>6. PICK k : k = [at |-> "announce", m |-> Len(docs) + 1] OBVIOUS
<1>7. k.at = "announce" /\ k.m = Len(docs) + 1 /\ jobs' = jobs \cup {k}
  BY <1>6 DEF Post
<1>8. ASSUME NEW m \in Ids' \ Ids PROVE Announced(m)' /\ AsStored(Blank(m))'
  <2>1. Announced(m)' BY <1>4, <1>5, <1>6, <1>7, <1>8 DEF Announced
  <2>2. docs'[m] = d BY <1>4, <1>5, <1>8
  <2>3. Tick(docs[m])' = 0 BY <1>2, <2>2 DEF Tick
  <2>4. AsStored(Blank(m))' BY <1>2, <2>2, <2>3 DEF AsStored, Blank
  <2> QED BY <2>1, <2>4
<1>9. \A m \in Ids : Announced(m)' => Announced(m)
  <2> SUFFICES ASSUME NEW m \in Ids, Announced(m)' PROVE Announced(m)
    OBVIOUS
  <2>1. PICK j : j = [at |-> "announce", m |-> m] OBVIOUS
  <2>2. j.m = m /\ j \in jobs' BY <2>1 DEF Announced
  <2> QED BY <1>5, <1>7, <2>1, <2>2 DEF Announced
<1>10. Still /\ wire' = wire /\ overlap' = overlap
  BY DEF Post, Still, link, client, marks
<1>11. \A j \in jobs' \ jobs : j.at = "announce" BY <1>7
<1>12. \A j \in jobs' : j.at = "tell" => j \in jobs BY <1>7
<1>13. TellsRight' BY <1>t, <1>4, <1>10, <1>12, TellsKept
<1> QED BY <1>1, <1>4, <1>7, <1>8, <1>9, <1>10, <1>11, <1>13, QuietView

\* A count is read.
LEMMA ReactView ==
  ASSUME View, Typed', NEW u \in Users, NEW m \in Ids, React(u, m)
  PROVE  OnTheWay' /\ OncePage' /\ GoodPage'
<1>t. Typed /\ TellsRight BY DEF View, Full, OnTheWay, News
<1>1. Grown /\ Ids' = Ids /\ docs' = docs BY <1>t, SameGrown DEF React
<1>2. Still /\ wire' = wire /\ overlap \subseteq overlap'
  BY DEF React, Still, link, client
<1>3. jobs \subseteq jobs' /\ \A j \in jobs' \ jobs : j.at = "count"
  BY DEF React
<1>4. ASSUME NEW k \in Ids, Announced(k)' PROVE Announced(k)
  <2>1. PICK j : j = [at |-> "announce", m |-> k] OBVIOUS
  <2>2. j.at = "announce" /\ j \in jobs' BY <1>4, <2>1 DEF Announced
  <2> QED BY <1>3, <2>1, <2>2 DEF Announced
<1>5. docs[m].room \in Rooms BY <1>t, Basics DEF Doc
<1>6. TellsRight' BY <1>t, <1>1, <1>2, <1>3, TellsKept
<1> QED BY <1>1, <1>2, <1>3, <1>4, <1>5, <1>6, QuietView

\* The other user has seen messages,
LEMMA PeerSeesView ==
  ASSUME View, Typed', NEW r \in Rooms, NEW m \in 0 .. Len(docs),
         NEW read \in BOOLEAN, PeerSees(r, m, read)
  PROVE  OnTheWay' /\ OncePage' /\ GoodPage'
<1>t. Typed /\ TellsRight BY DEF View, Full, OnTheWay, News
<1>1. Grown /\ Ids' = Ids /\ docs' = docs BY <1>t, SameGrown DEF PeerSees
<1>2. Still /\ wire' = wire /\ overlap' = overlap
  BY DEF PeerSees, Still, link, client, marks
<1>3. jobs \subseteq jobs' /\ \A j \in jobs' \ jobs : j.at = "see"
  BY DEF PeerSees, See
<1>4. ASSUME NEW k \in Ids, Announced(k)' PROVE Announced(k)
  <2>1. PICK j : j = [at |-> "announce", m |-> k] OBVIOUS
  <2>2. j.at = "announce" /\ j \in jobs' BY <1>4, <2>1 DEF Announced
  <2> QED BY <1>3, <2>1, <2>2 DEF Announced
<1>5. TellsRight' BY <1>t, <1>1, <1>2, <1>3, TellsKept
<1> QED BY <1>1, <1>2, <1>3, <1>4, <1>5, QuietView

\* A message is hidden, and that is to be told.
LEMMA DeleteView ==
  ASSUME View, Typed', NEW u \in Users, NEW m \in Ids, Delete(u, m)
  PROVE  OnTheWay' /\ OncePage' /\ GoodPage'
<1>t. Typed /\ TellsRight BY DEF View, Full, OnTheWay, News
<1>1. /\ Grown /\ Ids' = Ids
      /\ docs'[m].hidden = docs[m].hidden \cup {docs[m].from}
      /\ \A k \in Ids : /\ docs'[k].count = docs[k].count
                        /\ docs'[k].delivered = docs[k].delivered
                        /\ docs'[k].read = docs[k].read
      /\ \A k \in Ids \ {m} : docs'[k] = docs[k]
  BY <1>t, DeleteTyped
<1>2. Still /\ wire' = wire /\ overlap' = overlap
  BY DEF Delete, Still, link, client, marks
<1>3. PICK e : e = [at |-> "erased", m |-> m] OBVIOUS
<1>4. e.at = "erased" /\ e.m = m /\ jobs' = jobs \cup {e}
  BY <1>3 DEF Delete
<1>5. ASSUME NEW k \in Ids, Announced(k)' PROVE Announced(k)
  <2>1. PICK j : j = [at |-> "announce", m |-> k] OBVIOUS
  <2>2. j.at = "announce" /\ j \in jobs' BY <1>5, <2>1 DEF Announced
  <2> QED BY <1>4, <2>1, <2>2 DEF Announced
<1>6. ASSUME NEW k \in Ids, Me \in docs'[k].hidden, Me \notin docs[k].hidden
      PROVE  Erasing(k)'
  <2>1. k = m BY <1>1, <1>6
  <2> QED BY <1>3, <1>4, <2>1 DEF Erasing
<1>7. \A k \in Ids : Tick(docs'[k]) = Tick(docs[k]) BY <1>1, SameTick
<1>8. docs[m].room \in Rooms BY <1>t, Basics DEF Doc
<1>9. TellsRight' BY <1>t, <1>1, <1>2, <1>4, TellsKept
<1> QED BY <1>1, <1>2, <1>4, <1>5, <1>6, <1>7, <1>8, <1>9, QuietView

\* A count is saved, and is to be told.
LEMMA SaveReactionView ==
  ASSUME View, Typed', NEW j \in jobs, SaveReaction(j)
  PROVE  OnTheWay' /\ OncePage' /\ GoodPage'
<1>t. Typed /\ TellsRight /\ Reactions
  BY DEF View, Full, OnTheWay, News
<1>1. /\ Grown /\ Ids' = Ids /\ j.m \in Ids
      /\ \A m \in Ids : /\ docs'[m].hidden = docs[m].hidden
                        /\ docs'[m].delivered = docs[m].delivered
                        /\ docs'[m].read = docs[m].read
      /\ docs'[j.m].count = j.n + 1
      /\ \A m \in Ids \ {j.m} : docs'[m] = docs[m]
  BY <1>t, SaveReactionTyped
<1>2. Still /\ wire' = wire /\ overlap' = overlap
  BY DEF SaveReaction, Still, link, client, marks
<1>3. j \in JobsOf(Len(docs)) /\ j.at = "count"
  BY <1>t DEF SaveReaction, Typed
<1>4. j \in [at : {"count", "tell"}, m : 1 .. Len(docs), n : Nat, id : Nat]
  BY <1>3 DEF JobsOf, Seeing
<1>5. PICK k : k = [j EXCEPT !.at = "tell", !.n = @ + 1] OBVIOUS
<1>6. k.at = "tell" /\ k.m = j.m /\ k.n = j.n + 1 BY <1>4, <1>5
<1>7. jobs' = (jobs \ {j}) \cup {k} BY <1>5 DEF SaveReaction
<1>8. ASSUME NEW m \in Ids, Announced(m)' PROVE Announced(m)
  <2>1. PICK h : h = [at |-> "announce", m |-> m] OBVIOUS
  <2>2. h.at = "announce" /\ h \in jobs' BY <1>8, <2>1 DEF Announced
  <2> QED BY <1>6, <1>7, <2>1, <2>2 DEF Announced
<1>9. \A m \in Ids : Tick(docs'[m]) = Tick(docs[m]) BY <1>1, SameTick
<1>10. docs[j.m].room \in Rooms BY <1>t, <1>1, Basics DEF Doc
<1>11. \A m \in Ids : docs'[m].count = docs[m].count \/ Telling(m)'
  BY <1>1, <1>6, <1>7 DEF Telling
<1>12. TellsRight'
  <2> SUFFICES ASSUME NEW h \in jobs', h.at = "tell", h.m \notin overlap'
               PROVE  h.n = docs'[h.m].count
    BY DEF TellsRight
  <2>1. CASE h = k BY <1>1, <1>6, <2>1
  <2>2. CASE h # k
    <3>1. h \in jobs /\ h \in InFlight(h.m) /\ h.m \in Ids
      BY <1>t, <1>7, <2>2, Abouts DEF InFlight
    <3>2. h.m # j.m
      <4>1. h.m = j.m => j \in InFlight(h.m) BY <1>3 DEF InFlight
      <4>2. h.m = j.m => h = j BY <1>t, <1>2, <3>1, <4>1 DEF Reactions
      <4> QED BY <1>3, <4>2
    <3>3. docs'[h.m] = docs[h.m] BY <1>1, <3>1, <3>2
    <3>4. h.n = docs[h.m].count BY <1>t, <1>2, <3>1 DEF TellsRight
    <3> QED BY <3>3, <3>4
  <2> QED BY <2>1, <2>2
<1> QED BY <1>1, <1>2, <1>3, <1>6, <1>7, <1>8, <1>9, <1>10, <1>11, <1>12,
           QuietView

\* Messages are marked; of what the other user has seen a receipt is due.
LEMMA MarkView ==
  ASSUME View, Typed', NEW j \in jobs, Mark(j)
  PROVE  OnTheWay' /\ OncePage' /\ GoodPage'
<1>t. Typed /\ TellsRight BY DEF View, Full, OnTheWay, News
<1>1. /\ Grown /\ Ids' = Ids /\ docs' = Marked(j)
      /\ j \in Seeing(Len(docs))
  BY <1>t, MarkTyped
<1>2. Still /\ wire' = wire /\ overlap' = overlap
  BY DEF Mark, Still, link, client, marks
<1>3. j.at = "see" /\ j.by \in {Me, Peer} /\ j.read \in BOOLEAN
      /\ j.room \in Rooms /\ Me # Peer
  BY <1>1, ChatAssumption DEF Mark, Seeing, Users
<1>4. PICK k : k = [j EXCEPT !.at = "receipt", !.upTo = UpTo(j)] OBVIOUS
<1>5. k.at = "receipt" /\ k.by = j.by /\ k.room = j.room
      /\ k.upTo = UpTo(j) /\ k.read = j.read
  BY <1>1, <1>4 DEF Seeing
<1>6. jobs' = (jobs \ {j}) \cup (IF j.by = Me THEN {} ELSE {k})
  BY <1>4 DEF Mark
<1>7. \A m \in Ids :
        /\ docs'[m].room = docs[m].room /\ docs'[m].from = docs[m].from
        /\ docs'[m].hidden = docs[m].hidden
        /\ docs'[m].count = docs[m].count
        /\ docs'[m].delivered = docs[m].delivered \cup
             (IF m \in Covered(j) THEN {j.by} ELSE {})
        /\ docs'[m].read = docs[m].read \cup
             (IF m \in Covered(j) /\ j.read THEN {j.by} ELSE {})
  BY <1>t, <1>1, AllMarked
<1>8. ASSUME NEW m \in Ids, Announced(m)' PROVE Announced(m)
  <2>1. PICK h : h = [at |-> "announce", m |-> m] OBVIOUS
  <2>2. h.at = "announce" /\ h \in jobs' BY <1>8, <2>1 DEF Announced
  <2> QED BY <1>5, <1>6, <2>1, <2>2 DEF Announced
<1>9. ASSUME NEW m \in Ids, docs[m].from = Me,
             m \notin Covered(j) \/ j.by = Me
      PROVE  Tick(docs'[m]) = Tick(docs[m])
  <2>1. m \notin Covered(j) BY <1>9 DEF Covered
  <2> QED BY <1>7, <2>1, SameTick
<1>10. ASSUME NEW m \in Ids, docs[m].from = Me, m \in Covered(j), j.by = Peer
       PROVE  /\ Level(j.read) <= Tick(docs'[m])
              /\ \/ Tick(docs'[m]) = Tick(docs[m])
                 \/ /\ Tick(docs[m]) <= Tick(docs'[m])
                    /\ Tick(docs'[m]) <= Level(j.read)
  <2>1. /\ Peer \in docs'[m].delivered
        /\ Peer \in docs'[m].read <=> Peer \in docs[m].read \/ j.read
    BY <1>7, <1>10
  <2>2. CASE j.read
    <3>1. Tick(docs'[m]) = 2 /\ Level(j.read) = 2
      BY <2>1, <2>2 DEF Tick, Level
    <3>2. Tick(docs[m]) \in {0, 1, 2} BY DEF Tick
    <3> QED BY <3>1, <3>2
  <2>3. CASE ~ j.read /\ Peer \in docs[m].read
    <3>1. Tick(docs'[m]) = 2 /\ Tick(docs[m]) = 2 /\ Level(j.read) = 1
      BY <2>1, <2>3 DEF Tick, Level
    <3> QED BY <3>1
  <2>4. CASE ~ j.read /\ Peer \notin docs[m].read
    <3>1. Tick(docs'[m]) = 1 /\ Tick(docs[m]) \in {0, 1}
          /\ Level(j.read) = 1
      BY <2>1, <2>4 DEF Tick, Level
    <3> QED BY <3>1
  <2> QED BY <2>2, <2>3, <2>4
<1>11. ASSUME NEW m \in Ids, docs[m].from = Me
       PROVE  \/ Tick(docs'[m]) = Tick(docs[m])
              \/ /\ Tick(docs[m]) <= Tick(docs'[m])
                 /\ \E h \in jobs' : /\ h.at = "receipt" /\ About(h, m)
                                     /\ Tick(docs'[m]) <= Level(h.read)
  <2>1. CASE m \notin Covered(j) \/ j.by = Me BY <1>9, <1>11, <2>1
  <2>2. CASE m \in Covered(j) /\ j.by = Peer
    <3>1. k \in jobs' BY <1>3, <1>6, <2>2
    <3>2. About(k, m) BY <1>5, <2>2 DEF About, Covered
    <3> QED BY <1>5, <1>10, <1>11, <2>2, <3>1, <3>2
  <2> QED BY <1>3, <2>1, <2>2
<1>12. ASSUME NEW h \in jobs' \ jobs
       PROVE  /\ h.at = "receipt" /\ h.by = Peer
              /\ \A m \in Ids' : docs'[m].from = Me /\ About(h, m)'
                                   => Level(h.read) <= Tick(docs'[m])
  <2>1. h = k /\ j.by = Peer BY <1>3, <1>6
  <2>2. ASSUME NEW m \in Ids, docs'[m].from = Me, About(k, m)'
        PROVE  Level(k.read) <= Tick(docs'[m])
    <3>1. m \in Covered(j)
      BY <1>3, <1>5, <1>7, <2>1, <2>2 DEF About, Covered
    <3> QED BY <1>5, <1>7, <1>10, <2>1, <2>2, <3>1
  <2> QED BY <1>1, <1>5, <2>1, <2>2
<1>13. \A h \in jobs' : h.at = "tell" => h \in jobs BY <1>5, <1>6
<1>14. TellsRight' BY <1>t, <1>2, <1>7, <1>13, TellsKept
<1>15. \A h \in jobs : h.at # "see" => h \in jobs' BY <1>3, <1>6
<1> QED BY <1>1, <1>2, <1>3, <1>7, <1>8, <1>11, <1>12, <1>14, <1>15,
           QuietView

\* A history is read as it is stored.
LEMMA FindView ==
  ASSUME View, Typed', NEW j \in jobs, Find(j)
  PROVE  OnTheWay' /\ OncePage' /\ GoodPage'
<1>t. Typed /\ TellsRight BY DEF View, Full, OnTheWay, News
<1>1. Grown /\ Ids' = Ids /\ docs' = docs BY <1>t, SameGrown DEF Find
<1>2. Still /\ wire' = wire /\ overlap' = overlap /\ upset' = upset
  BY DEF Find, Still, link, client, marks
<1>3. PICK k : k = [at |-> "reply", room |-> j.room,
                    list |-> History(j.room)]
  OBVIOUS
<1>4. k.at = "reply" /\ k.room = j.room /\ k.list = History(j.room)
      /\ j.at = "find" /\ jobs' = (jobs \ {j}) \cup {k}
  BY <1>3 DEF Find
<1>5. j.room \in Rooms
  <2>1. j \in JobsOf(Len(docs)) BY <1>t DEF Typed
  <2> QED BY <1>t, <1>4, <2>1, Basics, JobKinds
<1>6. ASSUME NEW x \in k.list
      PROVE  \E m \in Ids : /\ x = Item(m, m) /\ x.m = m
                            /\ docs[m].room = j.room
                            /\ Me \notin docs[m].hidden
  BY <1>4 DEF History, Item
<1>7. Single(k.list) BY <1>6 DEF Single
<1>8. ASSUME NEW x \in k.list PROVE AsStored(x)'
  <2>1. PICK m \in Ids : /\ x = Item(m, m) /\ x.m = m
                         /\ Me \notin docs[m].hidden
    BY <1>6
  <2>2. x.count = docs[m].count /\ x.tick = Tick(docs[m]) BY <2>1 DEF Item
  <2> QED BY <1>1, <2>1, <2>2 DEF AsStored, Tick
<1>9. ASSUME NEW m \in Lasting(k.room)' PROVE m \in ListOf(k)
  <2>1. m \in Ids /\ docs[m].room = j.room /\ docs[m].hidden = {}
    BY <1>1, <1>4 DEF Lasting
  <2>2. {x.m : x \in History(j.room)} =
          {n \in Ids : docs[n].room = j.room /\ Me \notin docs[n].hidden}
    BY <1>t, Histories
  <2> QED BY <1>4, <2>1, <2>2 DEF ListOf
<1>10. ASSUME NEW m \in Ids, Announced(m)' PROVE Announced(m)
  <2>1. PICK h : h = [at |-> "announce", m |-> m] OBVIOUS
  <2>2. h.at = "announce" /\ h \in jobs' BY <1>10, <2>1 DEF Announced
  <2> QED BY <1>4, <2>1, <2>2 DEF Announced
<1>11. \A h \in jobs : h.at # "find" => h \in jobs' BY <1>4
<1>12. \A h \in jobs : h.at \in {"find", "reply"} =>
         \E l \in jobs' : l.at \in {"find", "reply"} /\ l.room = h.room
  BY <1>4
<1>13. \A h \in jobs' \ jobs : h = k BY <1>4
<1>14. TellsRight'
  <2>1. \A h \in jobs' : h.at = "tell" => h \in jobs BY <1>4
  <2> QED BY <1>t, <1>1, <1>2, <2>1, TellsKept
<1> QED BY <1>1, <1>2, <1>4, <1>5, <1>7, <1>8, <1>9, <1>10, <1>11, <1>12,
           <1>13, <1>14, QuietView

(***************************************************************************)
(* The steps at which something is sent to the socket.                     *)
(***************************************************************************)
\* A handler of the room r ends with an event, which goes to its channel.
Sends(j, r, e) ==
  /\ jobs' = jobs \ {j} /\ docs' = docs /\ overlap' = overlap
  /\ wire' = wire \/ wire' = Append(wire, e)
  /\ r \in joined => wire' = Append(wire, e)
  /\ wire' # wire /\ e.k # "ping" => r \in joined
  /\ j.at \in {"tell", "erased", "receipt", "announce", "reply"}
  /\ j.at = "tell" => e.k = "reaction" /\ e.m = j.m /\ e.n = j.n
  /\ j.at = "erased" => e.k = "deleted" /\ e.m = j.m
  /\ j.at \in {"tell", "erased"} => r = docs[j.m].room
  /\ j.at = "receipt" =>
       /\ e.k = "receipt" /\ e.room = j.room /\ r = j.room
       /\ e.upTo = j.upTo /\ e.tick = Level(j.read)
  /\ j.at = "reply" =>
       e.k = "joined" /\ e.room = j.room /\ e.list = j.list /\ r = j.room
  /\ j.at = "announce" =>
       /\ j = [at |-> "announce", m |-> j.m] /\ r = docs[j.m].room
       /\ e.k \in {"new", "ping"} /\ (r \in joined => e.k = "new")
       /\ e.k = "new" => e.room = r /\ e.item = Blank(j.m)

\* What it concerns is upset when it meets its own loading.
Upsets(j, r) ==
  \A m \in Ids : Concerns(j, m) \/ j = [at |-> "announce", m |-> m] =>
    /\ (\E h \in jobs : h.at = "reply" /\ h.room = r) => m \in upset'
    /\ Announced(m) => m \in upset' \/ j = [at |-> "announce", m |-> m]

\* Such a step keeps the list on the screen.
LEMMA SendsView ==
  ASSUME View, Typed', Still, NEW j \in jobs, NEW r \in Rooms,
         NEW e \in EventsOf(Len(docs)), Sends(j, r, e), Upsets(j, r)
  PROVE  OnTheWay' /\ OncePage' /\ GoodPage'
<1> USE DEF Still
<1>f. Full /\ OnTheWay /\ OncePage /\ GoodPage /\ Typed /\ News
  BY DEF View, Full, OnTheWay
<1>g. Grown /\ Ids' = Ids /\ docs' = docs BY <1>f, SameGrown DEF Sends
<1>0. PICK n : n = Len(wire') OBVIOUS
<1>j. jobs' = jobs \ {j} /\ (wire' = wire \/ wire' = Append(wire, e))
      /\ upset \subseteq upset' /\ overlap' = overlap
  BY DEF Sends
<1>k. /\ j.at = "tell" => e.k = "reaction" /\ e.m = j.m
      /\ j.at = "erased" => e.k = "deleted" /\ e.m = j.m
      /\ j.at = "receipt" => /\ e.k = "receipt" /\ e.room = j.room
                             /\ e.upTo = j.upTo /\ e.tick = Level(j.read)
  BY DEF Sends
<1>s. ASSUME NEW m
      PROVE  /\ wire' = Append(wire, e) =>
                   \A i \in Nat : i <= Len(wire) => Keeps(m, i, i)
             /\ ~ Concerns(j, m) => /\ \A i : Keeps(m, i, i)
                                    /\ Keeps(m, Len(wire), n)
  BY <1>0, <1>f, <1>g, <1>j, <1>k, NewsSent
<1>1. ASSUME NEW m, Concerns(j, m) PROVE docs[m].room = r
  BY <1>1 DEF Concerns, Sends, About
<1>2. ASSUME NEW m \in Ids, docs[m].room \in joined, NEW i \in Nat,
             i <= Len(wire)
      PROVE  Keeps(m, i, i)
  <2>1. CASE Concerns(j, m)
    <3>1. wire' = Append(wire, e) BY <1>1, <1>2, <2>1 DEF Sends
    <3> QED BY <1>2, <1>s, <3>1
  <2> QED BY <1>s, <2>1
<1>3. \A m \in Ids : docs[m].from = Me => Tick(docs[m]) <= Tick(docs'[m])
  <2>1. \A d : Tick(d) <= Tick(d) BY Ticks
  <2> QED BY <1>g, <2>1
<1>4. News'
  <2>1. TellsRight'
    <3>1. \A h \in jobs' : h.at = "tell" => h \in jobs BY <1>j
    <3> QED BY <1>f, <1>g, <1>j, <3>1, TellsKept DEF News
  <2>2. wire' # wire /\ e.k = "reaction" => CountRight(e.m, e.n, Len(wire))'
    <3> SUFFICES ASSUME e.k = "reaction"
                 PROVE  CountRight(e.m, e.n, Len(wire))'
      OBVIOUS
    <3>1. j.at = "tell" /\ e.m = j.m /\ e.n = j.n BY DEF Sends
    <3>2. e.m \in overlap' \/ e.n = docs'[e.m].count
      BY <1>f, <1>g, <1>j, <3>1 DEF News, TellsRight
    <3> QED BY <3>2 DEF CountRight, CountNews
  <2>3. e.k = "receipt" => \A m \in Ids :
          docs[m].from = Me /\ About(e, m) => e.tick <= Tick(docs[m])
    <3> SUFFICES ASSUME e.k = "receipt", NEW m \in Ids, docs[m].from = Me,
                        About(e, m)
                 PROVE  e.tick <= Tick(docs[m])
      OBVIOUS
    <3>1. j.at = "receipt" /\ e.room = j.room /\ e.upTo = j.upTo
          /\ e.tick = Level(j.read)
      BY DEF Sends
    <3>2. About(j, m) BY <3>1 DEF About
    <3> QED BY <1>f, <3>1, <3>2 DEF News, ReceiptsRight
  <2>4. /\ e.k \in {"reaction", "deleted"} => docs[e.m].room = r
        /\ e.k \in {"receipt", "new"} => e.room = r
        /\ wire' # wire /\ e.k # "ping" => r \in joined
    BY DEF Sends
  <2>5. jobs' \ jobs = {} /\ joined \subseteq joined' BY <1>j
  <2> QED BY <1>2, <1>3, <1>f, <1>g, <1>j, <2>1, <2>2, <2>3, <2>4, <2>5,
             ServingNews
<1>5. ASSUME NEW h \in jobs', h.at = "reply", NEW m \in ListOf(h)
      PROVE  m \in upset' \/ Keeps(m, Len(wire), n)
  <2>1. h \in jobs /\ m \in Ids /\ docs[m].room = h.room
    BY <1>5, <1>f, <1>j, InChannel DEF ListOf
  <2>2. CASE Concerns(j, m)
    <3>1. h.room = r BY <1>1, <2>1, <2>2
    <3> QED BY <1>5, <2>1, <2>2, <3>1 DEF Upsets
  <2> QED BY <1>s, <2>2
<1>6. \A m \in Ids : Announced(m)' =>
        Announced(m) /\ j # [at |-> "announce", m |-> m]
  BY <1>j DEF Announced
<1>7. ASSUME NEW m \in Ids, Announced(m)'
      PROVE  Announced(m) /\ (m \in upset' \/ Keeps(m, Len(wire), n))
  <2>1. Announced(m) /\ j # [at |-> "announce", m |-> m] BY <1>6, <1>7
  <2>2. Concerns(j, m) => m \in upset' BY <2>1 DEF Upsets
  <2> QED BY <1>s, <2>1, <2>2
<1>8. j.at \in {"announce", "reply"} => \A m : Keeps(m, Len(wire), n)
  BY <1>s DEF Concerns
<1>9. e.k = "joined" => Single(e.list) /\ \A x \in e.list : Good(x, n)'
  <2> SUFFICES ASSUME e.k = "joined"
               PROVE  Single(e.list) /\ \A x \in e.list : Good(x, n)'
    OBVIOUS
  <2>1. j.at = "reply" /\ e.list = j.list BY DEF Sends
  <2>2. Single(e.list) /\ \A x \in e.list : Good(x, Len(wire))
    BY <1>f, <2>1 DEF OnTheWay, GoodServer
  <2>3. ASSUME NEW x \in e.list PROVE Good(x, n)'
    <3>1. x.tick \in Nat BY <1>f, <2>1, InChannel
    <3>2. Keeps(x.m, Len(wire), n) BY <1>8, <2>1
    <3> QED BY <1>j, <2>2, <3>1, <3>2, GoodKept
  <2> QED BY <2>2, <2>3
<1>10. e.k = "new" => Good(e.item, n)'
  <2> SUFFICES ASSUME e.k = "new" PROVE Good(e.item, n)'
    OBVIOUS
  <2>1. PICK m : m = j.m OBVIOUS
  <2>2. j.at = "announce" /\ j = [at |-> "announce", m |-> m]
        /\ e.item = Blank(m)
    BY <2>1 DEF Sends
  <2>3. Announced(m) BY <2>2 DEF Announced
  <2>4. m \in Ids BY <1>f, <2>3, Named
  <2>5. Good(Blank(m), Len(wire))
    BY <1>f, <2>3, <2>4 DEF OnTheWay, GoodServer
  <2>6. PICK x : x = Blank(m) OBVIOUS
  <2>7. x.m = m /\ x.tick \in Nat BY <2>6 DEF Blank
  <2>8. Keeps(m, Len(wire), n) BY <1>8, <2>2
  <2>9. Good(x, n)' BY <1>j, <2>5, <2>6, <2>7, <2>8, GoodKept
  <2> QED BY <2>2, <2>6, <2>9
<1>11. GoodServer' /\ GoodWire'
  <2>1. \A h \in jobs \cap jobs' : h.at = "reply" => \A m \in ListOf(h) :
          m \in upset' \/ Keeps(m, Len(wire), n)
    BY <1>5
  <2>2. Ids' \ Ids = {} /\ jobs' \ jobs = {} BY <1>g, <1>j
  <2> QED BY <1>0, <1>2, <1>7, <1>9, <1>10, <1>f, <1>g, <1>j, <2>1, <2>2,
             ServingLists
<1>12. ASSUME NEW m \in Ids, Announced(m), ~ Announced(m)'
       PROVE  /\ docs[m].room \in joined =>
                   wire' = Append(wire, e) /\ e.k = "new" /\ e.item.m = m
              /\ m \in upset' \/ \A h \in jobs : h.at = "reply"
                                                   => h.room # docs[m].room
  <2>1. j = [at |-> "announce", m |-> m] BY <1>12, <1>j DEF Announced
  <2>2. j.at = "announce" /\ j.m = m BY <2>1
  <2>3. r = docs[m].room BY <2>2 DEF Sends
  <2>4. r \in joined => wire' = Append(wire, e) /\ e.k = "new"
                        /\ e.item = Blank(m)
    BY <2>2 DEF Sends
  <2>5. Blank(m).m = m BY DEF Blank
  <2>6. m \in upset' \/ \A h \in jobs : h.at = "reply" => h.room # r
    BY <2>1 DEF Upsets
  <2> QED BY <2>3, <2>4, <2>5, <2>6
<1>13. /\ Whole'
       /\ \A m \in Ids :
            docs[m].room \in joined /\ (Announced(m) \/ InWire(m))
              => Announced(m)' \/ InWire(m)'
  <2>1. Ids' \ Ids = {} /\ jobs' \ jobs = {} BY <1>g, <1>j
  <2>2. e.k = "joined" => \A m \in Lasting(e.room)' :
          m \in ListOf(e) \/ Announced(m)'
    <3> SUFFICES ASSUME e.k = "joined", NEW m \in Lasting(e.room)'
                 PROVE  m \in ListOf(e) \/ Announced(m)'
      OBVIOUS
    <3>1. j.at = "reply" /\ e.list = j.list /\ e.room = j.room BY DEF Sends
    <3>2. m \in Lasting(j.room) BY <1>g, <1>j, <3>1 DEF Lasting
    <3>3. m \in ListOf(j) \/ Announced(m)
      BY <1>f, <3>1, <3>2 DEF OnTheWay, Whole
    <3>4. m \in ListOf(j) => m \in ListOf(e) BY <3>1 DEF ListOf
    <3>5. Announced(m) => Announced(m)'
      <4>1. PICK h : h = [at |-> "announce", m |-> m] OBVIOUS
      <4>2. h.at = "announce" BY <4>1
      <4>3. h # j BY <3>1, <4>2
      <4> QED BY <1>j, <4>1, <4>3 DEF Announced
    <3> QED BY <3>3, <3>4, <3>5
  <2> QED BY <1>12, <1>f, <1>g, <1>j, <2>1, <2>2, ServingWhole
<1>14. OncePage' /\ GoodPage'
  <2>1. Mounted' = Mounted /\ Page' = Page BY DEF Mounted, Page
  <2>2. ASSUME NEW s, Again(s) PROVE Again(s)'
    <3>1. CASE \E i \in DOMAIN wire : wire[i].k = "joined" /\ wire[i].room = s
      <4>1. \A i \in DOMAIN wire : i \in DOMAIN wire' /\ wire'[i] = wire[i]
        BY <1>f, <1>j, Afters
      <4> QED BY <3>1, <4>1 DEF Again
    <3>2. CASE \E h \in jobs : h.at \in {"find", "reply"} /\ h.room = s
      <4>1. PICK h \in jobs : h.at \in {"find", "reply"} /\ h.room = s
        BY <3>2
      <4>2. CASE h # j BY <1>j, <4>1, <4>2 DEF Again, Asked
      <4>3. CASE h = j
        <5>1. e.k = "joined" /\ e.room = s /\ r = s BY <4>1, <4>3 DEF Sends
        <5>2. s \in joined BY <1>f, <4>1 DEF Full, Delivery, Linked
        <5>3. wire' = Append(wire, e) BY <5>1, <5>2 DEF Sends
        <5>4. PICK k : k = Len(wire') OBVIOUS
        <5>5. k \in DOMAIN wire' /\ wire'[k] = e BY <1>f, <5>3, <5>4, Afters
        <5> QED BY <5>1, <5>5 DEF Again
      <4> QED BY <4>2, <4>3
    <3> QED BY <2>2, <3>1, <3>2 DEF Again, Asked
  <2>3. Current' => Current BY <2>1, <2>2 DEF Current
  <2>4. \A m \in Ids : docs[m].room \in joined => Keeps(m, 0, 0)
    <3>1. 0 \in Nat /\ 0 <= Len(wire) BY <1>f, Basics
    <3> QED BY <1>2, <3>1
  <2>5. Ids' \ Ids = {} BY <1>g
  <2> QED BY <1>13, <1>f, <1>g, <1>j, <2>1, <2>3, <2>4, <2>5, PageKept
<1> QED BY <1>4, <1>11, <1>13, <1>14 DEF OnTheWay

\* A message is announced,
LEMMA AnnounceView ==
  ASSUME View, Typed', NEW j \in jobs, Announce(j)
  PROVE  OnTheWay' /\ OncePage' /\ GoodPage'
<1> USE DEF Announce
<1>t. Full /\ Typed BY DEF View, Full
<1>1. j.m \in Ids /\ j = [at |-> "announce", m |-> j.m]
  BY <1>t, AnnounceTyped
<1>2. docs[j.m].room \in Rooms BY <1>t, <1>1, Basics DEF Doc
<1> DEFINE r == docs[j.m].room
           new == [k |-> "new", room |-> r, item |-> Blank(j.m)]
<1>3. Blank(j.m) \in Items(Len(docs)) BY <1>1 DEF Items, Ids, Blank
<1>4. new \in EventsOf(Len(docs)) /\ Ping(r) \in EventsOf(Len(docs))
  BY <1>2, <1>3 DEF EventsOf, Ping
<1>5. new.k = "new" /\ new.item = Blank(j.m) /\ new.room = r
      /\ Ping(r).k = "ping"
  BY DEF Ping
<1>6. PICK e \in EventsOf(Len(docs)) :
        e = IF r \in joined THEN new ELSE Ping(r)
  BY <1>4
<1>7. /\ wire' = IF up THEN Append(wire, e) ELSE wire
      /\ upset' = IF \E h \in jobs : h.at = "reply" /\ h.room = r
                  THEN upset \cup {j.m} ELSE upset
      /\ missed' = IF up /\ r \in joined THEN missed
                   ELSE missed \cup {j.m}
      /\ jobs' = jobs \ {j}
      /\ UNCHANGED <<docs, joined, up, outbox, client, overlap, events>>
  BY <1>6 DEF Blank
<1>8. Still BY <1>7 DEF Still, client
<1>9. /\ e.k \in {"new", "ping"} /\ (r \in joined => e.k = "new")
      /\ e.k = "new" => e.room = r /\ e.item = Blank(j.m) /\ r \in joined
  BY <1>5, <1>6
<1>10. ~ up => joined = {} BY <1>t DEF Full, Delivery, Linked
<1> HIDE DEF new
<1>11. r \in joined => wire' = Append(wire, e) BY <1>7, <1>10
<1>12. wire' # wire /\ e.k # "ping" => r \in joined BY <1>9
<1>13. Sends(j, r, e)
  <2>1. docs' = docs /\ overlap' = overlap /\ jobs' = jobs \ {j}
        /\ (wire' = wire \/ wire' = Append(wire, e))
    BY <1>7
  <2>2. j.at = "announce" OBVIOUS
  <2> QED BY <1>1, <1>9, <1>11, <1>12, <2>1, <2>2 DEF Sends
<1>14. Upsets(j, r)
  <2> SUFFICES ASSUME NEW m \in Ids,
                      Concerns(j, m) \/ j = [at |-> "announce", m |-> m]
               PROVE  /\ (\E h \in jobs : h.at = "reply" /\ h.room = r)
                            => m \in upset'
                      /\ j = [at |-> "announce", m |-> m]
    BY DEF Upsets
  <2>1. j = [at |-> "announce", m |-> m] BY DEF Concerns
  <2>2. j.m = m BY <2>1
  <2> QED BY <1>7, <2>1, <2>2
<1> QED BY <1>2, <1>8, <1>13, <1>14, SendsView

\* a history is sent,
LEMMA ReplyView ==
  ASSUME View, Typed', NEW j \in jobs, Reply(j)
  PROVE  OnTheWay' /\ OncePage' /\ GoodPage'
<1>t. Full /\ Typed BY DEF View, Full
<1>1. PICK e \in EventsOf(Len(docs)) :
        e = [k |-> "joined", room |-> j.room, list |-> j.list]
  BY <1>t, ReplyTyped
<1>2. e.k = "joined" /\ e.room = j.room /\ e.list = j.list BY <1>1
<1>3. j.at = "reply" /\ j.room \in joined /\ j.room \in Rooms
  BY <1>t, ReplyTyped DEF Reply, Full, Delivery, Linked
<1>4. Still BY DEF Reply, Still, client, marks
<1>5. /\ jobs' = jobs \ {j} /\ docs' = docs /\ overlap' = overlap
      /\ wire' = Append(wire, e)
  BY <1>1 DEF Reply, marks
<1>6. Sends(j, j.room, e) BY <1>2, <1>3, <1>5 DEF Sends
<1>7. Upsets(j, j.room) BY <1>3 DEF Upsets, Concerns
<1> QED BY <1>3, <1>4, <1>6, <1>7, SendsView

\* a reaction, a delete or a receipt is told.
LEMMA TellView ==
  ASSUME View, Typed', NEW j \in jobs,
         TellReaction(j) \/ TellDeleted(j) \/ TellReceipt(j)
  PROVE  OnTheWay' /\ OncePage' /\ GoodPage'
<1>t. Full /\ Typed BY DEF View, Full
<1>1. PICK r \in Rooms, ms \in SUBSET Ids, e \in EventsOf(Len(docs)) :
        /\ Cast(r, ms, e) /\ jobs' = jobs \ {j}
        /\ UNCHANGED <<docs, joined, up, outbox, client, missed, overlap,
                       events>>
        /\ Says(j, r, ms, e)
  BY <1>t, Cases
<1>2. Still BY <1>1 DEF Still, client, Cast
<1>3. ~ up => joined = {} BY <1>t DEF Full, Delivery, Linked
<1>4. /\ wire' = IF up /\ r \in joined THEN Append(wire, e) ELSE wire
      /\ upset' = upset \cup
           (ms \cap {m \in Ids : [at |-> "announce", m |-> m] \in jobs})
           \cup (IF \E h \in jobs : h.at = "reply" /\ h.room = r
                 THEN ms ELSE {})
  BY <1>1 DEF Cast
<1>5. Sends(j, r, e) BY <1>1, <1>3, <1>4 DEF Sends, Says, Level
<1>6. ASSUME NEW m \in Ids, Concerns(j, m) PROVE m \in ms
  <2>1. CASE j.at # "receipt" BY <1>1, <1>6, <2>1 DEF Says, Concerns
  <2>2. CASE j.at = "receipt"
    <3>1. ms = Covered(j) /\ About(j, m) /\ docs[m].from = Me
      BY <1>1, <1>6, <2>2 DEF Says, Concerns
    <3>2. j.by = Peer
      BY <2>2 DEF View, OnTheWay, News, ReceiptsRight
    <3>3. j \in Seeing(Len(docs)) BY <1>t, <2>2, Basics, JobKinds DEF Typed
    <3>4. j.upTo # 0 BY <3>1, <3>3 DEF About, Seeing, Ids
    <3> QED BY <3>1, <3>2, <3>4, ChatAssumption DEF Covered, UpTo, About
  <2> QED BY <2>1, <2>2
<1>7. Upsets(j, r)
  <2> SUFFICES ASSUME NEW m \in Ids,
                      Concerns(j, m) \/ j = [at |-> "announce", m |-> m]
               PROVE  /\ (\E h \in jobs : h.at = "reply" /\ h.room = r)
                            => m \in upset'
                      /\ Announced(m) => m \in upset'
    BY DEF Upsets
  <2>1. j.at # "announce" BY <1>1 DEF Says
  <2>2. j # [at |-> "announce", m |-> m] BY <2>1
  <2>3. m \in ms BY <1>6, <2>2
  <2> QED BY <1>4, <2>3 DEF Announced
<1> QED BY <1>2, <1>5, <1>7, SendsView

(***************************************************************************)
(* The steps of the client at which nothing arrives.                       *)
(***************************************************************************)
\* The messages and the news are as before, or joins are added.
Beside ==
  /\ docs' = docs /\ wire' = wire /\ upset' = upset /\ overlap' = overlap
  /\ joined \subseteq joined' /\ jobs \subseteq jobs'
  /\ \A j \in jobs' \ jobs : j.at \in {"find", "see"}

\* Then what is good stays good,
LEMMA BesideNews ==
  ASSUME Beside
  PROVE  /\ \A m : Announced(m)' <=> Announced(m)
         /\ \A m : InWire(m)' <=> InWire(m)
         /\ \A m, i : Keeps(m, i, i)
         /\ \A x, i : Good(x, i) => Good(x, i)'
         /\ \A r : Again(r) => Again(r)'
         /\ \A r : Lasting(r)' = Lasting(r)
<1> USE DEF Beside
<1>1. ASSUME NEW m PROVE Announced(m)' <=> Announced(m)
  <2>1. PICK j : j = [at |-> "announce", m |-> m] OBVIOUS
  <2>2. j.at = "announce" BY <2>1
  <2>3. j \in jobs' <=> j \in jobs BY <2>2
  <2> QED BY <2>1, <2>3 DEF Announced
<1>2. \A m : InWire(m)' <=> InWire(m) BY DEF InWire, New
<1>3. ASSUME NEW m, NEW i PROVE Keeps(m, i, i)
  <2>1. \A n : CountRight(m, n, i) => CountRight(m, n, i)'
    BY DEF CountRight, CountNews, Telling
  <2>2. \A t \in Nat : TickRight(m, t, i) => TickRight(m, t, i)'
    BY DEF TickRight, TickNews, About, Tick, Level
  <2>3. GoneRight(m, i) => GoneRight(m, i)'
    BY DEF GoneRight, GoneNews, Erasing
  <2> QED BY <2>1, <2>2, <2>3 DEF Keeps
<1>4. ASSUME NEW x, NEW i PROVE Good(x, i) => Good(x, i)'
  <2>1. CountRight(x.m, x.count, i) => CountRight(x.m, x.count, i)'
    BY DEF CountRight, CountNews, Telling
  <2>2. TickRight(x.m, x.tick, i) => TickRight(x.m, x.tick, i)'
    BY DEF TickRight, TickNews, About, Tick, Level
  <2>3. GoneRight(x.m, i) => GoneRight(x.m, i)'
    BY DEF GoneRight, GoneNews, Erasing
  <2> QED BY <2>1, <2>2, <2>3 DEF Good
<1>5. \A r : Again(r) => Again(r)' BY DEF Again, Asked
<1>6. \A r : Lasting(r)' = Lasting(r) BY DEF Lasting, Ids
<1> QED BY <1>1, <1>2, <1>3, <1>4, <1>5, <1>6

\* and what is on its way,
LEMMA BesideServer == ASSUME View, Beside PROVE OnTheWay'
<1> USE DEF Beside
<1>1. Typed /\ News /\ GoodServer /\ GoodWire /\ Whole
  BY DEF View, Full, OnTheWay
<1>2. /\ \A m : Announced(m)' <=> Announced(m)
      /\ \A m, i : Keeps(m, i, i)
      /\ \A x, i : Good(x, i) => Good(x, i)'
      /\ \A r : Lasting(r)' = Lasting(r)
  BY BesideNews
<1>3. TellsRight' BY <1>1 DEF News, TellsRight
<1>4. ReactionsRight'
  BY <1>1 DEF News, ReactionsRight, CountRight, CountNews, Telling
<1>5. ReceiptsRight'
  BY <1>1 DEF News, ReceiptsRight, About, Level, Tick, Ids
<1>6. Channels' BY <1>1 DEF News, Channels
<1>7. GoodServer'
  <2>1. PICK n : n = Len(wire) OBVIOUS
  <2>2. \A j \in jobs : j.at = "reply" =>
          Single(j.list) /\ \A x \in j.list : Good(x, n)'
    BY <1>1, <1>2, <2>1 DEF GoodServer
  <2>3. \A m \in Ids : Announced(m) => Good(Blank(m), n)'
    <3> SUFFICES ASSUME NEW m \in Ids, Announced(m)
                 PROVE  Good(Blank(m), n)'
      OBVIOUS
    <3>1. PICK x : x = Blank(m) OBVIOUS
    <3>2. Good(x, n) BY <1>1, <2>1, <3>1 DEF GoodServer
    <3>3. Good(x, n)' BY <1>2, <3>2
    <3> QED BY <3>1, <3>3 DEF Blank
  <2>4. \A x : Good(x, Len(wire))' <=> Good(x, n)' BY <2>1, GoodAt
  <2>5. \A j \in jobs' : j.at = "reply" => j \in jobs OBVIOUS
  <2> QED BY <1>2, <2>2, <2>3, <2>4, <2>5 DEF GoodServer, Blank, Ids
<1>8. GoodWire'
  <2>1. ASSUME NEW i \in DOMAIN wire'
        PROVE  /\ wire'[i].k = "joined" =>
                    /\ Single(wire'[i].list)
                    /\ \A x \in wire'[i].list : Good(x, i)'
               /\ wire'[i].k = "new" => Good(wire[i].item, i)'
    <3>1. PICK d : d = wire[i] OBVIOUS
    <3>2. d.k = "joined" => Single(d.list) /\ \A x \in d.list : Good(x, i)
      BY <1>1, <3>1 DEF GoodWire
    <3>3. d.k = "new" => Good(d.item, i) BY <1>1, <3>1 DEF GoodWire
    <3>4. d.k = "new" => Good(d.item, i)' BY <1>2, <3>3
    <3> QED BY <1>2, <3>1, <3>2, <3>4
  <2> QED BY <2>1 DEF GoodWire
<1>9. Whole'
  <2>1. ASSUME NEW j \in jobs', j.at = "reply", NEW m \in Lasting(j.room)'
        PROVE  m \in ListOf(j) \/ Announced(m)'
    <3>1. PICK r : r = j.room OBVIOUS
    <3>2. m \in Lasting(r)' BY <2>1, <3>1 DEF Lasting
    <3>3. m \in Lasting(r) /\ j \in jobs BY <1>2, <2>1, <3>2
    <3> QED BY <1>1, <1>2, <2>1, <3>1, <3>3 DEF Whole
  <2>2. ASSUME NEW i \in DOMAIN wire', wire'[i].k = "joined",
               NEW m \in Lasting(wire[i].room)'
        PROVE  \/ m \in ListOf(wire'[i]) \/ Announced(m)'
               \/ \E k \in DOMAIN wire' : k > i /\ New(k, m)'
    <3>1. PICK r : r = wire[i].room OBVIOUS
    <3>2. m \in Lasting(r)' BY <2>2, <3>1 DEF Lasting
    <3>3. m \in Lasting(r) BY <1>2, <3>2
    <3>4. \/ m \in ListOf(wire[i]) \/ Announced(m)
          \/ \E k \in DOMAIN wire : k > i /\ New(k, m)
      BY <1>1, <2>2, <3>1, <3>3 DEF Whole
    <3> QED BY <1>2, <3>4 DEF New
  <2>3. \A i \in DOMAIN wire' : wire'[i].k = "joined" =>
          \A m \in Lasting(wire[i].room)' :
            \/ m \in ListOf(wire'[i]) \/ Announced(m)'
            \/ \E k \in DOMAIN wire' : k > i /\ New(k, m)'
    BY <2>2
  <2> QED BY <2>1, <2>3 DEF Whole, ListOf
<1> QED BY <1>3, <1>4, <1>5, <1>6, <1>7, <1>8, <1>9 DEF OnTheWay, News

\* The mounted chat stays good when its contents do.
LEMMA BesidePage ==
  ASSUME Beside, NEW c
  PROVE  /\ GoodChat(c) => GoodChat(c)'
         /\ OnceChat(c) => OnceChat(c)'
<1>1. /\ \A m : Announced(m)' <=> Announced(m)
      /\ \A m : InWire(m)' <=> InWire(m)
      /\ \A x, i : Good(x, i) => Good(x, i)'
      /\ Lasting(c.room)' = Lasting(c.room)
  BY BesideNews
<1>2. GoodChat(c) => GoodChat(c)'
  <2> SUFFICES ASSUME GoodChat(c) PROVE GoodChat(c)'
    OBVIOUS
  <2>1. \A m \in Lasting(c.room)' : Announced(m)' \/ InWire(m)' \/ Has(c, m)
    BY <1>1 DEF GoodChat
  <2>2. /\ c.active = c.room
        /\ \A h \in c.lists : \A x \in h.list : Good(x, 0)'
        /\ \A x \in c.fresh : Good(x, 0)'
        /\ c.lists = {} => \A x \in c.shown : Good(x, 0)'
    BY <1>1 DEF GoodChat
  <2> QED BY <2>1, <2>2 DEF GoodChat, Has, Shown, Fresh, ListOf
<1>3. OnceChat(c) => OnceChat(c)'
  BY DEF OnceChat, Beside, Fresh, Shown, Single
<1> QED BY <1>2, <1>3

\* One chat shows something and reports what it saw.
LEMMA ShowingView ==
  ASSUME View, NEW i \in DOMAIN chats, NEW c \in ChatsOf(Len(docs)), NEW js,
         Showing(i, c, js),
         i = Len(chats) /\ Page = chats[i] =>
           OnceChat(c) /\ (Current => GoodChat(c))
  PROVE  OnTheWay' /\ OncePage' /\ GoodPage'
<1>t. Typed BY DEF View, Full
<1>1. Beside
  <2>1. js \in SUBSET Seeing(Len(docs)) /\ \A s \in js : s.at = "see"
    BY <1>t, Reports DEF Showing
  <2>2. jobs \subseteq jobs' /\ jobs' \subseteq jobs \cup js
    BY <1>t, <2>1, Emitting DEF Showing
  <2> QED BY <2>1, <2>2 DEF Showing, Beside, marks
<1>2. OnTheWay' BY <1>1, BesideServer
<1>3. /\ Mounted /\ Mounted' /\ crossed' = crossed /\ joined' = joined
      /\ i = Len(chats) => Page' = c /\ Page = chats[i]
      /\ i # Len(chats) => Page' = Page
  BY <1>t, Swapped DEF Showing
<1>4. PICK p, q : p = Page /\ q = Page' OBVIOUS
<1>5. q.room = p.room /\ q.wired = p.wired BY <1>3, <1>4 DEF Showing
<1>6. Current' => Current
  <2>1. \A r : Again(r) => Again(r)' BY <1>1, BesideNews
  <2> QED BY <1>3, <1>4, <1>5, <2>1 DEF Current
<1>7. OnceChat(q) /\ (Current => GoodChat(q))
  BY <1>3, <1>4 DEF View, OncePage, GoodPage
<1>8. OnceChat(q)' /\ (Current => GoodChat(q)') BY <1>1, <1>7, BesidePage
<1>9. OncePage' BY <1>4, <1>8 DEF OncePage, OnceChat, Fresh, Shown, Single
<1>10. GoodPage'
  BY <1>4, <1>6, <1>8 DEF GoodPage, GoodChat, Has, Shown, Fresh, ListOf
<1> QED BY <1>2, <1>9, <1>10

\* It shows a history: that is all there is,
LEMMA ShowHistoryView ==
  ASSUME View, NEW i \in DOMAIN chats, NEW h \in chats[i].lists,
         ShowHistory(i, h)
  PROVE  OnTheWay' /\ OncePage' /\ GoodPage'
<1>t. Typed BY DEF View, Full
<1>1. PICK c \in ChatsOf(Len(docs)) : \E js :
        /\ Showing(i, c, js)
        /\ c.front = chats[i].front /\ c.fresh = chats[i].fresh
        /\ c.lists = chats[i].lists \ {h} /\ c.shown = h.list /\ c.loaded
  BY <1>t, ShowHistoryParts
<1>2. PICK js : Showing(i, c, js) BY <1>1
<1>3. ASSUME i = Len(chats), Page = chats[i]
      PROVE  OnceChat(c) /\ (Current => GoodChat(c))
  <2>0. PICK p : p = Page OBVIOUS
  <2>1. /\ Mounted /\ h \in p.lists
        /\ c.room = p.room /\ c.active = p.active /\ c.seen = p.seen
        /\ c.fresh = p.fresh /\ c.lists = p.lists \ {h}
        /\ c.shown = h.list
    BY <1>1, <1>2, <1>3, <1>t, <2>0, Swapped DEF Showing
  <2>2. OnceChat(p) BY <2>0, <2>1 DEF View, OncePage
  <2>3. Fresh(c) = Fresh(p) BY <2>1 DEF Fresh
  <2>4. OnceChat(c) BY <2>1, <2>2, <2>3 DEF OnceChat, Single
  <2>5. ASSUME Current PROVE GoodChat(c)
    <3>1. GoodChat(p) BY <2>0, <2>5 DEF View, GoodPage
    <3>2. ASSUME NEW m, Has(p, m) PROVE Has(c, m)
      <4>1. \A l \in p.lists : m \in ListOf(l) BY <2>1, <3>2 DEF Has
      <4>2. m \in ListOf(h) BY <2>1, <4>1
      <4>3. m \in Shown(c) BY <2>1, <4>2 DEF Shown, ListOf
      <4> QED BY <2>1, <4>1, <4>3 DEF Has
    <3>3. /\ \A l \in c.lists : \A x \in l.list : Good(x, 0)
          /\ \A x \in c.fresh : Good(x, 0)
          /\ \A x \in c.shown : Good(x, 0)
      BY <2>1, <3>1 DEF GoodChat
    <3> QED BY <2>1, <3>1, <3>2, <3>3 DEF GoodChat
  <2> QED BY <2>4, <2>5
<1> QED BY <1>2, <1>3, ShowingView

\* or a new message, as it came,
LEMMA ShowNewView ==
  ASSUME View, NEW i \in DOMAIN chats, NEW x \in chats[i].fresh,
         ShowNew(i, x)
  PROVE  OnTheWay' /\ OncePage' /\ GoodPage'
<1>t. Typed BY DEF View, Full
<1>1. PICK c \in ChatsOf(Len(docs)) : \E js :
        /\ Showing(i, c, js) /\ x.m \in Ids
        /\ c.fresh = chats[i].fresh \ {x} /\ c.lists = chats[i].lists
        /\ \E y : /\ c.shown = chats[i].shown \cup {y}
                  /\ y.m = x.m /\ y.count = x.count /\ y.tick = x.tick
  BY <1>t, ShowNewParts
<1>2. PICK js : Showing(i, c, js) BY <1>1
<1>y. PICK y : /\ c.shown = chats[i].shown \cup {y}
               /\ y.m = x.m /\ y.count = x.count /\ y.tick = x.tick
  BY <1>1
<1>3. ASSUME i = Len(chats), Page = chats[i]
      PROVE  OnceChat(c) /\ (Current => GoodChat(c))
  <2>0. PICK p : p = Page OBVIOUS
  <2>1. /\ Mounted /\ x \in p.fresh
        /\ c.room = p.room /\ c.active = p.active /\ c.seen = p.seen
        /\ c.fresh = p.fresh \ {x} /\ c.lists = p.lists
        /\ c.shown = p.shown \cup {y}
    BY <1>1, <1>2, <1>3, <1>t, <1>y, <2>0, Swapped DEF Showing
  <2>2. OnceChat(p) BY <2>0, <2>1 DEF View, OncePage
  <2>3. /\ Fresh(c) \subseteq Fresh(p) /\ x.m \in Fresh(p)
        /\ Fresh(p) \subseteq Fresh(c) \cup {x.m}
    BY <2>1 DEF Fresh
  <2>4. Shown(c) = Shown(p) \cup {x.m} BY <1>y, <2>1 DEF Shown
  <2>5. x.m \notin Fresh(c) BY <2>1, <2>2 DEF OnceChat, Single, Fresh
  <2>6. ASSUME NEW a \in c.shown, NEW b \in c.shown, a.m = b.m
        PROVE  a = b \/ a.m \in upset
    <3>1. CASE a \in p.shown /\ b \in p.shown BY <2>2, <2>6, <3>1 DEF OnceChat
    <3>2. CASE a = y /\ b = y BY <3>2
    <3>3. CASE (a = y /\ b \in p.shown) \/ (b = y /\ a \in p.shown)
      <4>1. a.m = x.m /\ x.m \in Shown(p) BY <1>y, <2>6, <3>3 DEF Shown
      <4> QED BY <2>2, <2>3, <4>1 DEF OnceChat
    <3> QED BY <2>1, <3>1, <3>2, <3>3
  <2>7. Fresh(c) \cap Shown(c) \subseteq upset
    BY <2>2, <2>3, <2>4, <2>5 DEF OnceChat
  <2>8. OnceChat(c)
    BY <2>1, <2>2, <2>3, <2>6, <2>7 DEF OnceChat, Single
  <2>9. ASSUME Current PROVE GoodChat(c)
    <3>1. GoodChat(p) BY <2>0, <2>9 DEF View, GoodPage
    <3>2. \A m : Has(p, m) => Has(c, m) BY <2>1, <2>3, <2>4 DEF Has
    <3>3. Good(y, 0) BY <1>y, <2>1, <3>1 DEF GoodChat, Good
    <3>4. /\ \A l \in c.lists : \A z \in l.list : Good(z, 0)
          /\ \A z \in c.fresh : Good(z, 0)
          /\ c.lists = {} => \A z \in c.shown : Good(z, 0)
      BY <2>1, <3>1, <3>3 DEF GoodChat
    <3> QED BY <2>1, <3>1, <3>2, <3>4 DEF GoodChat
  <2> QED BY <2>8, <2>9
<1> QED BY <1>2, <1>3, ShowingView

\* or what it showed.
LEMMA SetForegroundView ==
  ASSUME View, SetForeground PROVE OnTheWay' /\ OncePage' /\ GoodPage'
<1>t. Typed BY DEF View, Full
<1>1. PICK c \in ChatsOf(Len(docs)) : \E js :
        /\ Showing(Len(chats), c, js) /\ Mounted
        /\ c.fresh = Page.fresh /\ c.lists = Page.lists
        /\ c.shown = Page.shown
  BY <1>t, SetForegroundParts
<1>2. PICK js : Showing(Len(chats), c, js) BY <1>1
<1>3. Len(chats) \in DOMAIN chats BY <1>1, <1>t, Basics
<1>4. ASSUME Page = chats[Len(chats)]
      PROVE  OnceChat(c) /\ (Current => GoodChat(c))
  <2>1. PICK p : p = Page OBVIOUS
  <2>2. /\ c.room = p.room /\ c.active = p.active /\ c.seen = p.seen
        /\ c.fresh = p.fresh /\ c.lists = p.lists /\ c.shown = p.shown
    BY <1>1, <1>2, <1>4, <2>1 DEF Showing
  <2>3. OnceChat(p) /\ (Current => GoodChat(p))
    BY <1>1, <2>1 DEF View, OncePage, GoodPage
  <2> QED BY <2>2, <2>3
          DEF OnceChat, GoodChat, Has, Fresh, Shown, Single
<1> QED BY <1>2, <1>3, <1>4, ShowingView

\* A chat that has just asked for its history is not current,
LEMMA KeyReadyView ==
  ASSUME View, NEW i \in DOMAIN chats, KeyReady(i)
  PROVE  OnTheWay' /\ OncePage' /\ GoodPage'
<1>t. Full /\ Typed BY DEF View, Full
<1>c. PICK c \in ChatsOf(Len(docs)) :
        /\ Chats([chats EXCEPT ![i] = c])
        /\ c = [chats[i] EXCEPT !.ready = TRUE, !.wired = TRUE,
                                !.rejoins = ~ up]
  BY <1>t, KeyReadyTyped
<1>d. chats[i] \in ChatsOf(Len(docs)) BY <1>t, Basics
<1>f. /\ c.room = chats[i].room /\ c.active = chats[i].active
      /\ c.seen = chats[i].seen /\ c.shown = chats[i].shown
      /\ c.lists = chats[i].lists /\ c.fresh = chats[i].fresh
  BY <1>c, <1>d DEF ChatsOf
<1>1. Beside BY DEF KeyReady, Join, Beside, link, marks
<1>2. OnTheWay' BY <1>1, BesideServer
<1>3. /\ Mounted /\ Mounted' /\ crossed' = crossed
      /\ i = Len(chats) => Page' = c /\ Page = chats[i]
      /\ i # Len(chats) => Page' = Page
  BY <1>t, <1>c, Swapped DEF KeyReady
<1>4. PICK p, q : p = Page /\ q = Page' OBVIOUS
<1>5. OnceChat(p) BY <1>3, <1>4 DEF View, OncePage
<1>6. OnceChat(q)
  BY <1>3, <1>4, <1>5, <1>f DEF OnceChat, Fresh, Shown, Single
<1>7. OncePage'
  <2>1. OnceChat(q)' BY <1>1, <1>6, BesidePage
  <2> QED BY <1>4, <2>1 DEF OncePage, OnceChat, Fresh, Shown, Single
<1>r. PICK r : r = chats[i].room OBVIOUS
<1>8. /\ up => Again(r)' /\ joined' = joined \cup {r}
      /\ ~ up => joined' = joined /\ joined = {}
  <2>1. up => [at |-> "find", room |-> r] \in jobs'
              /\ joined' = joined \cup {r}
    BY <1>r DEF KeyReady, Join
  <2>2. PICK j : j = [at |-> "find", room |-> r] OBVIOUS
  <2>3. j.at = "find" /\ j.room = r BY <2>2
  <2>4. up => Again(r)' BY <2>1, <2>2, <2>3 DEF Again, Asked
  <2>5. ~ up => joined' = joined /\ joined = {}
    BY <1>t DEF KeyReady, Join, Full, Delivery, Linked
  <2> QED BY <2>1, <2>4, <2>5
<1>9. Current' => i # Len(chats) /\ Current
  <2> SUFFICES ASSUME Current' PROVE i # Len(chats) /\ Current
    OBVIOUS
  <2>1. /\ q.room \in joined' /\ ~ Again(q.room)' /\ ~ crossed /\ q.wired
    BY <1>3, <1>4 DEF Current, Again, Asked
  <2>2. up /\ q.room # r /\ q.room \in joined BY <1>8, <2>1
  <2>3. i # Len(chats) BY <1>3, <1>4, <1>f, <1>r, <2>2
  <2>4. p = q BY <1>3, <1>4, <2>3
  <2>5. ~ Again(p.room) BY <1>1, <2>1, <2>4, BesideNews
  <2> QED BY <1>3, <1>4, <2>1, <2>2, <2>3, <2>4, <2>5 DEF Current
<1>10. GoodPage'
  <2>1. Current' => q = p /\ GoodChat(q)
    BY <1>3, <1>4, <1>9 DEF View, GoodPage
  <2>2. Current' => GoodChat(q)' BY <1>1, <2>1, BesidePage
  <2> QED BY <1>4, <2>2 DEF GoodPage, GoodChat, Has, Shown, Fresh, ListOf
<1> QED BY <1>2, <1>7, <1>10

\* and one that was just mounted has nothing.
LEMMA OpenView ==
  ASSUME View, NEW r \in Rooms, Open(r)
  PROVE  OnTheWay' /\ OncePage' /\ GoodPage'
<1>t. Typed BY DEF View, Full
<1>1. /\ Mounted' /\ ~ Page'.wired /\ Page'.seen = {} /\ Page'.shown = {}
      /\ Page'.lists = {} /\ Page'.fresh = {}
  BY <1>t, OpenTyped
<1>2. Beside BY DEF Open, Beside, server, link, marks
<1>3. OnTheWay' BY <1>2, BesideServer
<1>4. OncePage' BY <1>1 DEF OncePage, OnceChat, Fresh, Shown, Single
<1>5. GoodPage' BY <1>1 DEF GoodPage, Current
<1> QED BY <1>3, <1>4, <1>5

(***************************************************************************)
(* The network.                                                            *)
(***************************************************************************)
\* The socket is gone: there is no channel, and no history on its way.
LEMMA LoseView ==
  ASSUME View, Lose PROVE OnTheWay' /\ OncePage' /\ GoodPage'
<1>t. Full /\ Typed BY DEF View, Full
<1>1. /\ wire' = <<>> /\ joined' = {} /\ docs' = docs /\ upset' = upset
      /\ overlap' = overlap /\ chats' = chats
  BY DEF Lose, client
<1>2. PICK joins, lost :
        /\ joins = {j \in jobs : j.at \in {"find", "reply"}}
        /\ lost \subseteq {j \in jobs : j.at = "see" /\ j.by = Me}
        /\ jobs' = jobs \ (joins \cup lost)
  BY DEF Lose
<1>3. /\ \A j \in jobs' : j \in jobs /\ j.at # "reply"
      /\ \A j \in jobs : j.at \in {"tell", "receipt", "erased"} => j \in jobs'
  BY <1>2
<1>4. DOMAIN wire' = {} /\ Len(wire') = 0 BY <1>1
<1>5. PICK n : n = Len(wire) OBVIOUS
<1>6. After(n, 0)
  <2>1. DOMAIN wire = 1 .. n /\ n \in Nat BY <1>5, <1>t, Basics
  <2>2. \A a \in DOMAIN wire : ~ (a > n) BY <2>1
  <2> QED BY <2>2 DEF After
<1>7. \A m : Keeps(m, n, 0)
  <2>1. \A m : Me \in docs'[m].hidden => Me \in docs[m].hidden BY <1>1
  <2> QED BY <1>1, <1>3, <1>6, <2>1, NewsKept
<1>8. News'
  <2>1. TellsRight' BY <1>1, <1>3 DEF View, OnTheWay, News, TellsRight
  <2>2. ReceiptsRight'
    BY <1>1, <1>3, <1>4
       DEF View, OnTheWay, News, ReceiptsRight, About, Level, Tick, Ids
  <2> QED BY <1>4, <2>1, <2>2 DEF News, ReactionsRight, Channels
<1>9. GoodServer'
  <2>1. ASSUME NEW m \in Ids, Announced(m)' PROVE Good(Blank(m), 0)'
    <3>1. PICK x : x = Blank(m) OBVIOUS
    <3>2. Announced(m) BY <1>3, <2>1 DEF Announced
    <3>3. Good(x, n)
      BY <1>5, <3>1, <3>2 DEF View, OnTheWay, GoodServer
    <3>4. x.m = m /\ x.tick \in Nat BY <3>1 DEF Blank
    <3>5. Good(x, 0)' BY <1>1, <1>7, <3>3, <3>4, GoodKept
    <3> QED BY <3>1, <3>5 DEF Blank
  <2>2. \A x : Good(x, Len(wire))' <=> Good(x, 0)' BY <1>4, GoodAt
  <2>3. Ids' = Ids BY <1>1 DEF Ids
  <2> QED BY <1>3, <2>1, <2>2, <2>3 DEF GoodServer, Blank
<1>10. GoodWire' /\ Whole' BY <1>3, <1>4 DEF GoodWire, Whole
<1>11. OncePage'
  BY <1>1 DEF View, OncePage, OnceChat, Mounted, Page, Fresh, Shown, Single
<1>12. GoodPage' BY <1>1 DEF GoodPage, Current
<1> QED BY <1>8, <1>9, <1>10, <1>11, <1>12 DEF OnTheWay

\* It is back: every channel it is in is one whose history it asks for.
LEMMA ReconnectView ==
  ASSUME View, Reconnect PROVE OnTheWay' /\ OncePage' /\ GoodPage'
<1>t. Full /\ Typed BY DEF View, Full
<1>1. /\ wire' = wire /\ docs' = docs /\ upset' = upset
      /\ overlap' = overlap /\ chats' = chats /\ joined = {}
  BY <1>t DEF Reconnect, client, marks, Full, Delivery, Linked
<1>2. jobs' = jobs \cup outbox \cup {[at |-> "find", room |-> r] :
                                       r \in joined'}
  BY DEF Reconnect
<1>3. \A j \in outbox : j.at = "see" BY <1>t DEF Typed
<1>4. \A r : [at |-> "find", room |-> r].at = "find"
             /\ [at |-> "find", room |-> r].room = r
  OBVIOUS
<1>5. Beside BY <1>1, <1>2, <1>3, <1>4 DEF Beside
<1>6. OnTheWay' BY <1>5, BesideServer
<1>7. PICK p : p = Page OBVIOUS
<1>8. Page' = p /\ Mounted' = Mounted BY <1>1, <1>7 DEF Page, Mounted
<1>9. OncePage'
  <2>1. Mounted => OnceChat(p)'
    BY <1>5, <1>7, BesidePage DEF View, OncePage
  <2> QED BY <1>8, <2>1 DEF OncePage, OnceChat, Fresh, Shown, Single
<1>10. ~ Current'
  <2>1. \A r \in joined' : Again(r)' BY <1>2, <1>4 DEF Again, Asked
  <2> QED BY <1>8, <2>1 DEF Current, Again, Asked
<1> QED BY <1>6, <1>9, <1>10 DEF GoodPage

(***************************************************************************)
(* The socket takes an event.                                              *)
(***************************************************************************)
\* What is stored of the user's messages stays, and so does the news.
Unmoved ==
  /\ overlap' = overlap /\ Ids' = Ids
  /\ \A m \in Ids : /\ docs'[m].count = docs[m].count
                    /\ docs'[m].hidden = docs[m].hidden
                    /\ docs[m].from = Me => Tick(docs'[m]) = Tick(docs[m])
                    /\ \A i \in Nat : Keeps(m, i + 1, i)
                    /\ \A n : n = Len(wire') => Keeps(m, Len(wire), n)
  /\ \A r : Lasting(r)' \subseteq Lasting(r)
  /\ \A x : \A i \in Nat : x.m \in Ids /\ x.tick \in Nat /\ Good(x, i + 1)
              => Good(x, i)'

LEMMA ReceiveUnmoved ==
  ASSUME Typed, Receive, NEW e, Arrival(e) PROVE Unmoved
<1>1. overlap' = overlap BY DEF Receive
<1>2. \A m \in Ids :
        /\ docs'[m].count = docs[m].count
        /\ docs'[m].delivered = docs[m].delivered
             \cup (IF docs[m].from # Me THEN {Me} ELSE {})
           \/ docs'[m].delivered = docs[m].delivered
  BY ReceiveDocs
<1>3. ASSUME NEW m \in Ids, docs[m].from = Me
      PROVE  Tick(docs'[m]) = Tick(docs[m])
  <2>1. docs'[m].delivered = docs[m].delivered BY <1>2, <1>3
  <2>2. docs'[m].read = docs[m].read BY DEF Arrival
  <2> QED BY <2>1, <2>2 DEF Tick
<1>4. ASSUME NEW i \in Nat PROVE After(i + 1, i)
  <2> SUFFICES ASSUME NEW a \in DOMAIN wire, a > i + 1
               PROVE  \E b \in DOMAIN wire' : b > i /\ wire'[b] = wire[a]
    BY DEF After
  <2>0. a \in Nat BY Basics
  <2>1. a # 1 BY <2>0
  <2>2. a - 1 \in DOMAIN wire' /\ wire'[a - 1] = wire[a]
    BY <2>1 DEF Arrival
  <2>3. a - 1 > i BY <2>0
  <2> QED BY <2>2, <2>3
<1>5. ASSUME NEW n PROVE After(Len(wire), n)
  <2>1. \A a \in DOMAIN wire : ~ (a > Len(wire)) BY Basics
  <2> QED BY <2>1 DEF After
<1>6. ASSUME NEW m \in Ids, NEW i, NEW k, After(i, k) PROVE Keeps(m, i, k)
  <2>1. docs'[m].from = docs[m].from /\ docs'[m].room = docs[m].room
        /\ docs'[m].hidden = docs[m].hidden /\ jobs' = jobs
    BY DEF Arrival
  <2> QED BY <1>1, <1>2, <1>3, <1>6, <2>1, NewsKept
<1>7. \A m \in Ids : \A i \in Nat : Keeps(m, i + 1, i) BY <1>4, <1>6
<1>8. \A m \in Ids : \A n : n = Len(wire') => Keeps(m, Len(wire), n)
  BY <1>5, <1>6
<1>9. \A r : Lasting(r)' \subseteq Lasting(r)
  <2>1. /\ Ids' = Ids /\ upset \subseteq upset'
        /\ \A m \in Ids : /\ docs'[m].room = docs[m].room
                          /\ docs'[m].hidden = docs[m].hidden
    BY DEF Arrival
  <2> QED BY <2>1 DEF Lasting
<1>10. ASSUME NEW x, NEW i \in Nat, x.m \in Ids, x.tick \in Nat,
              Good(x, i + 1)
       PROVE  Good(x, i)'
  <2>1. PICK m, k : m = x.m /\ k = i + 1 OBVIOUS
  <2>2. Keeps(m, k, i) BY <1>7, <1>10, <2>1
  <2>3. m \in upset => m \in upset' BY DEF Arrival
  <2> QED BY <1>10, <2>1, <2>2, <2>3, GoodKept
<1>11. /\ Ids' = Ids
       /\ \A m \in Ids : docs'[m].hidden = docs[m].hidden
  BY DEF Arrival
<1> QED BY <1>1, <1>2, <1>3, <1>7, <1>8, <1>9, <1>10, <1>11 DEF Unmoved

\* The news is one place nearer.
LEMMA ReceiveNews ==
  ASSUME Full, News, NEW e, Arrival(e), Unmoved PROVE News'
<1>t. Typed BY DEF Full
<1>1. ASSUME NEW i \in DOMAIN wire'
      PROVE  /\ i \in Nat /\ i + 1 \in DOMAIN wire
             /\ wire'[i] = wire[i + 1]
             /\ wire[i + 1] \in EventsOf(Len(docs))
  BY <1>t, Basics DEF Arrival
<1>i. Len(docs) \in Nat /\ Ids = 1 .. Len(docs) BY <1>t, Basics
<1>2. TellsRight'
  <2> SUFFICES ASSUME NEW j \in jobs', j.at = "tell"
               PROVE  j.m \in overlap' \/ j.n = docs'[j.m].count
    BY DEF TellsRight
  <2>1. j \in jobs BY DEF Arrival
  <2>2. j.m \in Ids BY <1>t, <1>i, <2>1, JobKinds DEF Typed
  <2> QED BY <2>1, <2>2 DEF News, TellsRight, Unmoved
<1>3. ReactionsRight'
  <2>1. ASSUME NEW i \in DOMAIN wire', wire'[i].k = "reaction"
        PROVE  CountRight(wire[i].m, wire[i].n, i)'
    <3>1. PICK d \in EventsOf(Len(docs)), k \in DOMAIN wire :
            d = wire[k] /\ d = wire'[i] /\ k = i + 1 /\ i \in Nat
      BY <1>1
    <3>2. PICK m, c : m = d.m /\ c = d.n OBVIOUS
    <3>3. m \in Ids BY <1>i, <2>1, <3>1, <3>2, EventKinds
    <3>4. CountRight(m, c, k)
      BY <2>1, <3>1, <3>2 DEF News, ReactionsRight
    <3>5. Keeps(m, k, i) BY <3>1, <3>3 DEF Unmoved
    <3>6. CountRight(m, c, i)' BY <3>4, <3>5 DEF Keeps
    <3> QED BY <3>1, <3>2, <3>6 DEF CountRight, CountNews, Telling
  <2> QED BY <2>1 DEF ReactionsRight
<1>4. ReceiptsRight'
  <2>0. ASSUME NEW m \in Ids, docs'[m].from = Me
        PROVE  /\ docs[m].from = Me /\ Tick(docs'[m]) = Tick(docs[m])
               /\ docs'[m].room = docs[m].room
    BY <2>0 DEF Arrival, Unmoved
  <2>1. ASSUME NEW j \in jobs', j.at = "receipt"
        PROVE  /\ j.by = Peer
               /\ \A m \in Ids : docs'[m].from = Me
                                 /\ j.room = docs'[m].room /\ m <= j.upTo
                                   => Level(j.read) <= Tick(docs'[m])
    <3>1. j \in jobs BY DEF Arrival
    <3> QED BY <2>0, <2>1, <3>1 DEF News, ReceiptsRight, About
  <2>2. ASSUME NEW i \in DOMAIN wire', wire'[i].k = "receipt",
               NEW m \in Ids, docs'[m].from = Me,
               wire'[i].room = docs'[m].room, m <= wire'[i].upTo
        PROVE  wire'[i].tick <= Tick(docs'[m])
    BY <1>1, <2>0, <2>2 DEF News, ReceiptsRight, About
  <2>3. Ids' = Ids BY DEF Unmoved
  <2> QED BY <2>1, <2>2, <2>3 DEF ReceiptsRight, About, Level, Tick
<1>5. Channels'
  <2> SUFFICES ASSUME NEW i \in DOMAIN wire'
               PROVE  /\ wire'[i].k \in {"reaction", "deleted"}
                           => docs'[wire'[i].m].room \in joined'
                      /\ wire'[i].k \in {"receipt", "new"}
                           => wire'[i].room \in joined'
    BY DEF Channels
  <2>1. PICK d \in EventsOf(Len(docs)), k \in DOMAIN wire :
          d = wire[k] /\ d = wire'[i]
    BY <1>1
  <2>2. d.k \in {"reaction", "deleted"} => d.m \in Ids
    BY <1>i, EventKinds
  <2>3. /\ d.k \in {"reaction", "deleted"} => docs[d.m].room \in joined
        /\ d.k \in {"receipt", "new"} => d.room \in joined
    BY <2>1 DEF News, Channels
  <2> QED BY <2>1, <2>2, <2>3 DEF Arrival
<1> QED BY <1>2, <1>3, <1>4, <1>5 DEF News

\* So are the histories and new messages.
LEMMA ReceiveLists ==
  ASSUME Full, OnTheWay, NEW e, Arrival(e), Unmoved
  PROVE  GoodServer' /\ GoodWire'
<1>t. Typed /\ News BY DEF Full, OnTheWay
<1>1. ASSUME NEW i \in DOMAIN wire'
      PROVE  i \in Nat /\ i + 1 \in DOMAIN wire /\ wire'[i] = wire[i + 1]
  BY DEF Arrival
<1>2. GoodServer'
  <2>1. PICK n, k : n = Len(wire) /\ k = Len(wire') OBVIOUS
  <2>2. ASSUME NEW x, x.m \in Ids, x.tick \in Nat, Good(x, n)
        PROVE  Good(x, k)'
    <3>1. PICK m : m = x.m OBVIOUS
    <3>2. Keeps(m, n, k) BY <2>1, <2>2, <3>1 DEF Unmoved
    <3>3. m \in upset => m \in upset' BY DEF Arrival
    <3> QED BY <2>2, <3>1, <3>2, <3>3, GoodKept
  <2>3. ASSUME NEW j \in jobs', j.at = "reply"
        PROVE  Single(j.list) /\ \A x \in j.list : Good(x, k)'
    <3>1. j \in jobs BY DEF Arrival
    <3>2. Single(j.list) /\ \A x \in j.list : Good(x, n)
      BY <2>1, <2>3, <3>1 DEF OnTheWay, GoodServer
    <3>3. \A x \in j.list : x.m \in Ids /\ x.tick \in Nat
      BY <1>t, <2>3, <3>1, InChannel
    <3> QED BY <2>2, <3>2, <3>3
  <2>4. ASSUME NEW m \in Ids, Announced(m)' PROVE Good(Blank(m), k)'
    <3>1. PICK x : x = Blank(m) OBVIOUS
    <3>2. Announced(m) BY <2>4 DEF Arrival
    <3>3. Good(x, n) BY <2>1, <3>1, <3>2 DEF OnTheWay, GoodServer
    <3>4. x.m = m /\ x.tick \in Nat BY <3>1 DEF Blank
    <3>5. Good(x, k)' BY <2>2, <3>3, <3>4
    <3> QED BY <3>1, <3>5 DEF Blank
  <2>5. \A x : Good(x, Len(wire))' <=> Good(x, k)' BY <2>1, GoodAt
  <2>6. Ids' = Ids BY DEF Arrival
  <2> QED BY <2>3, <2>4, <2>5, <2>6 DEF GoodServer, Blank
<1>3. GoodWire'
  <2>1. ASSUME NEW i \in DOMAIN wire'
        PROVE  /\ wire'[i].k = "joined" =>
                    /\ Single(wire'[i].list)
                    /\ \A x \in wire'[i].list : Good(x, i)'
               /\ wire'[i].k = "new" => Good(wire[i].item, i)'
    <3>1. PICK d, k : d = wire'[i] /\ k = i + 1 /\ i \in Nat BY <1>1
    <3>2. k \in DOMAIN wire /\ d = wire[k] BY <1>1, <3>1
    <3>3. ASSUME NEW x, x.m \in Ids, x.tick \in Nat, Good(x, k)
          PROVE  Good(x, i)'
      BY <3>1, <3>3 DEF Unmoved
    <3>4. d.k = "joined" =>
            /\ Single(d.list)
            /\ \A x \in d.list : Good(x, k) /\ x.m \in Ids /\ x.tick \in Nat
      BY <1>t, <3>2, InChannel DEF OnTheWay, GoodWire
    <3>5. d.k = "new" =>
            Good(d.item, k) /\ d.item.m \in Ids /\ d.item.tick \in Nat
      BY <1>t, <3>2, InChannel DEF OnTheWay, GoodWire
    <3>6. d.k = "new" => Good(d.item, i)'
      <4>1. PICK x : x = d.item OBVIOUS
      <4> QED BY <3>3, <3>5, <4>1
    <3>7. d.k = "joined" =>
            Single(d.list) /\ \A x \in d.list : Good(x, i)'
      BY <3>3, <3>4
    <3> QED BY <3>1, <3>6, <3>7
  <2> QED BY <2>1 DEF GoodWire
<1> QED BY <1>2, <1>3

\* What they lack comes after them.
LEMMA ReceiveWhole ==
  ASSUME Full, OnTheWay, NEW e, Arrival(e), Unmoved PROVE Whole'
<1>w. Whole BY DEF OnTheWay
<1>l. \A r : Lasting(r)' \subseteq Lasting(r) BY DEF Unmoved
<1>a. \A m : Announced(m)' <=> Announced(m) BY DEF Arrival
<1>1. ASSUME NEW j \in jobs', j.at = "reply", NEW m \in Lasting(j.room)'
      PROVE  m \in ListOf(j) \/ Announced(m)'
  <2>1. PICK r : r = j.room OBVIOUS
  <2>2. m \in Lasting(r)' BY <1>1, <2>1 DEF Lasting
  <2>3. m \in Lasting(r) /\ j \in jobs BY <1>l, <2>2 DEF Arrival
  <2> QED BY <1>w, <1>1, <1>a, <2>1, <2>3 DEF Whole
<1>2. ASSUME NEW i \in DOMAIN wire', wire'[i].k = "joined",
             NEW m \in Lasting(wire[i].room)'
      PROVE  \/ m \in ListOf(wire'[i]) \/ Announced(m)'
             \/ \E k \in DOMAIN wire' : k > i /\ New(k, m)'
  <2>1. i + 1 \in DOMAIN wire /\ wire'[i] = wire[i + 1] /\ i \in Nat
    BY DEF Arrival
  <2>r. PICK r : r = wire'[i].room OBVIOUS
  <2>m. m \in Lasting(r)' BY <1>2, <2>r DEF Lasting
  <2>n. m \in Lasting(r) BY <1>l, <2>m
  <2>2. \/ m \in ListOf(wire[i + 1]) \/ Announced(m)
        \/ \E k \in DOMAIN wire : k > i + 1 /\ New(k, m)
    BY <1>2, <1>w, <2>1, <2>r, <2>n DEF Whole
  <2>3. ASSUME NEW k \in DOMAIN wire, k > i + 1, New(k, m)
        PROVE  \E n \in DOMAIN wire' : n > i /\ New(n, m)'
    <3>0. k # 1 BY <2>1, <2>3
    <3>1. /\ k \in Nat /\ k - 1 \in DOMAIN wire'
          /\ wire'[k - 1] = wire[k]
      BY <3>0 DEF Arrival
    <3>2. k - 1 > i /\ New(k - 1, m)' BY <2>1, <2>3, <3>1 DEF New
    <3> QED BY <3>1, <3>2
  <2> QED BY <1>a, <2>1, <2>2, <2>3
<1>3. \A i \in DOMAIN wire' : wire'[i].k = "joined" =>
        \A m \in Lasting(wire[i].room)' :
          \/ m \in ListOf(wire'[i]) \/ Announced(m)'
          \/ \E k \in DOMAIN wire' : k > i /\ New(k, m)'
  BY <1>2
<1> QED BY <1>1, <1>3 DEF Whole, ListOf

\* A message on the screen after an event that tells of it.
Updated(e, x) ==
  CASE e.k = "reaction" /\ x.m = e.m -> [x EXCEPT !.count = e.n]
    [] e.k = "receipt" /\ x.m <= e.upTo
         -> [x EXCEPT !.tick = Larger(@, e.tick)]
    [] OTHER -> x

\* It differs in what the event tells.
LEMMA Updating ==
  ASSUME NEW n \in Nat, NEW e \in EventsOf(n), NEW y \in Items(n),
         NEW x, x = Updated(e, y)
  PROVE  /\ x.m = y.m
         /\ x.count = IF e.k = "reaction" /\ y.m = e.m THEN e.n ELSE y.count
         /\ x.tick = IF e.k = "receipt" /\ y.m <= e.upTo
                     THEN Larger(y.tick, e.tick) ELSE y.tick
         /\ ~ (e.k = "reaction" /\ y.m = e.m)
              /\ ~ (e.k = "receipt" /\ y.m <= e.upTo) => x = y
<1>1. CASE e.k = "reaction" /\ y.m = e.m
  <2>1. x = [y EXCEPT !.count = e.n] BY <1>1 DEF Updated
  <2> QED BY <1>1, <2>1 DEF Items
<1>2. CASE e.k = "receipt" /\ y.m <= e.upTo
  <2>1. PICK t : t = Larger(y.tick, e.tick) OBVIOUS
  <2>2. x = [y EXCEPT !.tick = t] BY <1>2, <2>1 DEF Updated
  <2> QED BY <1>2, <2>1, <2>2 DEF Items
<1>3. CASE ~ (e.k = "reaction" /\ y.m = e.m)
           /\ ~ (e.k = "receipt" /\ y.m <= e.upTo)
  <2>1. x = y BY <1>3 DEF Updated
  <2> QED BY <1>3, <2>1
<1> QED BY <1>1, <1>2, <1>3

\* What a chat shows after an event it showed before.
LEMMA TakingShown ==
  ASSUME NEW n \in Nat, NEW c \in ChatsOf(n), NEW e \in EventsOf(n),
         NEW d, d = Take(c, e)
  PROVE  /\ \/ d.shown = c.shown
               /\ \/ ~ c.wired
                  \/ e.k = "receipt" /\ Foreign(c, e.room)
            \/ \A x \in d.shown : \E y \in c.shown : x = Updated(e, y)
         /\ e.k = "deleted" /\ c.wired => e.m \notin Shown(d)
         /\ e.k = "joined" /\ e.list = {} /\ c.wired => d.shown = {}
         /\ e.k = "new" /\ d.fresh # c.fresh => e.item.m \notin Shown(c)
<1> USE DEF Take
<1>1. CASE ~ c.wired BY <1>1
<1>2. CASE c.wired /\ e.k = "joined"
  <2>1. d = TakeHistory(c, e) BY <1>2
  <2>2. \A x : Updated(e, x) = x BY <1>2 DEF Updated
  <2>3. d.shown \subseteq c.shown /\ (e.list = {} => d.shown = {})
    BY <2>1 DEF TakeHistory, ChatsOf
  <2> QED BY <1>2, <2>2, <2>3
<1>3. CASE c.wired /\ e.k = "new"
  <2>1. d = TakeNew(c, e) BY <1>3
  <2>2. \A x : Updated(e, x) = x BY <1>3 DEF Updated
  <2>3. d.shown = c.shown
        /\ (d.fresh # c.fresh => e.item.m \notin Shown(c))
    BY <2>1 DEF TakeNew, ChatsOf
  <2> QED BY <1>3, <2>2, <2>3
<1>4. CASE c.wired /\ e.k = "deleted"
  <2>1. d = [c EXCEPT !.shown = {x \in @ : x.m # e.m}]
    BY <1>4 DEF TakeDeleted
  <2>2. \A x : Updated(e, x) = x BY <1>4 DEF Updated
  <2>3. d.shown = {x \in c.shown : x.m # e.m} BY <2>1 DEF ChatsOf
  <2> QED BY <1>4, <2>2, <2>3 DEF Shown
<1>5. CASE c.wired /\ e.k = "reaction"
  <2> DEFINE S == {IF x.m = e.m THEN [x EXCEPT !.count = e.n] ELSE x :
                     x \in c.shown}
  <2>1. d = [c EXCEPT !.shown = S] BY <1>5 DEF TakeReaction
  <2>2. \A x \in S : \E y \in c.shown : x = Updated(e, y)
    BY <1>5 DEF Updated
  <2> HIDE DEF S
  <2>3. d.shown = S BY <2>1 DEF ChatsOf
  <2> QED BY <1>5, <2>2, <2>3
<1>6. CASE c.wired /\ e.k = "receipt"
  <2> DEFINE S == {IF x.m <= e.upTo
                     THEN [x EXCEPT !.tick = Larger(@, e.tick)]
                     ELSE x : x \in c.shown}
  <2>1. \/ d = c /\ Foreign(c, e.room)
        \/ d = [c EXCEPT !.shown = S]
    BY <1>6 DEF TakeReceipt
  <2>2. \A x \in S : \E y \in c.shown : x = Updated(e, y)
    BY <1>6 DEF Updated
  <2> HIDE DEF S
  <2>3. d.shown = S \/ (d = c /\ Foreign(c, e.room)) BY <2>1 DEF ChatsOf
  <2> QED BY <1>6, <2>2, <2>3
<1>7. CASE c.wired /\ e.k = "ping"
  <2>1. \A x : Updated(e, x) = x BY <1>7 DEF Updated
  <2> QED BY <1>7, <2>1
<1> QED BY <1>1, <1>2, <1>3, <1>4, <1>5, <1>6, <1>7, EventKinds
        DEF ChatsOf

\* A message the event tells of.
NewsOf(e, m) ==
  \/ e.k \in {"deleted", "reaction"} /\ e.m = m
  \/ e.k = "receipt" /\ About(e, m)

\* A message is no less good without news of others,
LEMMA Passing ==
  ASSUME NEW e, Arrival(e), NEW m
  PROVE  /\ ~ (e.k = "reaction" /\ e.m = m) =>
              \A n : CountRight(m, n, 0) => CountRight(m, n, 1)
         /\ ~ (e.k = "receipt" /\ About(e, m)) =>
              \A t : TickRight(m, t, 0) => TickRight(m, t, 1)
         /\ ~ (e.k = "deleted" /\ e.m = m) =>
              (GoneRight(m, 0) => GoneRight(m, 1))
<1>1. e = wire[1] BY DEF Arrival
<1>2. \A k \in DOMAIN wire : k = 1 \/ k > 1
  <2>1. \A k \in DOMAIN wire \ {1} : k \in Nat /\ k - 1 \in DOMAIN wire'
    BY DEF Arrival
  <2>2. \A k \in DOMAIN wire' : k \in Nat /\ k >= 1 BY DEF Arrival
  <2>3. ASSUME NEW k \in DOMAIN wire, k # 1 PROVE k > 1
    <3>1. k \in Nat /\ k - 1 \in DOMAIN wire' BY <2>1, <2>3
    <3>2. k - 1 >= 1 BY <2>2, <3>1
    <3> QED BY <3>1, <3>2
  <2> QED BY <2>3
<1>3. ~ (e.k = "reaction" /\ e.m = m) => (CountNews(m, 0) => CountNews(m, 1))
  BY <1>1, <1>2 DEF CountNews
<1>4. ~ (e.k = "receipt" /\ About(e, m)) => (TickNews(m, 0) => TickNews(m, 1))
  BY <1>1, <1>2 DEF TickNews
<1>5. ~ (e.k = "deleted" /\ e.m = m) => (GoneNews(m, 0) => GoneNews(m, 1))
  BY <1>1, <1>2 DEF GoneNews
<1> QED BY <1>3, <1>4, <1>5 DEF CountRight, TickRight, GoneRight

LEMMA PassingGood ==
  ASSUME NEW e, Arrival(e), NEW x, ~ NewsOf(e, x.m), Good(x, 0)
  PROVE  Good(x, 1)
<1>1. PICK m : m = x.m OBVIOUS
<1> QED BY <1>1, Passing DEF Good, NewsOf

\* and what is updated as the event says is as good.
LEMMA UpdatedGood ==
  ASSUME Typed, News, NEW e \in EventsOf(Len(docs)), Arrival(e),
         NEW y \in Items(Len(docs)), Good(y, 0), NEW x, x = Updated(e, y),
         ~ (e.k = "deleted" /\ e.m = y.m),
         e.k = "receipt" => e.room = docs[y.m].room
  PROVE  Good(x, 1)
<1>1. PICK n \in Nat : n = Len(docs) BY Basics
<1>2. /\ x.m = y.m
      /\ x.count = IF e.k = "reaction" /\ y.m = e.m THEN e.n ELSE y.count
      /\ x.tick = IF e.k = "receipt" /\ y.m <= e.upTo
                  THEN Larger(y.tick, e.tick) ELSE y.tick
  BY <1>1, Updating
<1>3. PICK m : m = y.m OBVIOUS
<1>4. CASE m \in upset BY <1>2, <1>3, <1>4 DEF Good
<1>5. CASE m \notin upset
  <2>1. /\ CountRight(m, y.count, 0) /\ TickRight(m, y.tick, 0)
        /\ GoneRight(m, 0)
    BY <1>3, <1>5 DEF Good
  <2>2. e = wire[1] /\ 1 \in DOMAIN wire BY DEF Arrival
  <2>3. CountRight(m, x.count, 1)
    <3>1. CASE e.k = "reaction" /\ m = e.m
      <4>1. x.count = e.n BY <1>2, <1>3, <3>1
      <4> QED BY <2>2, <3>1, <4>1 DEF News, ReactionsRight
    <3>2. CASE ~ (e.k = "reaction" /\ m = e.m)
      <4>1. x.count = y.count BY <1>2, <1>3, <3>2
      <4> QED BY <2>1, <3>2, <4>1, Passing
    <3> QED BY <3>1, <3>2
  <2>4. TickRight(m, x.tick, 1)
    <3>1. CASE e.k = "receipt" /\ m <= e.upTo
      <4> SUFFICES ASSUME docs[m].from = Me
                   PROVE  /\ x.tick <= Tick(docs[m])
                          /\ x.tick = Tick(docs[m]) \/ TickNews(m, 1)
        BY DEF TickRight
      <4>1. PICK t, a, b \in Nat :
              t = Tick(docs[m]) /\ a = y.tick /\ b = e.tick
        <5>1. Tick(docs[m]) \in Nat BY DEF Tick
        <5>2. y.tick \in Nat /\ e.tick \in Nat
          BY <1>1, <3>1, EventKinds DEF Items
        <5> QED BY <5>1, <5>2
      <4>2. x.tick = Larger(a, b) BY <1>2, <1>3, <3>1, <4>1
      <4>3. m \in Ids /\ About(e, m)
        BY <1>3, <3>1 DEF Items, Ids, About
      <4>4. b <= t BY <2>2, <3>1, <4>1, <4>3 DEF News, ReceiptsRight
      <4>5. a <= t /\ (a = t \/ TickNews(m, 0))
        BY <2>1, <4>1 DEF TickRight
      <4>6. TickNews(m, 0) => t <= b \/ TickNews(m, 1)
        <5>1. \A k \in DOMAIN wire : k = 1 \/ k > 1
          <6>1. \A k \in DOMAIN wire : k \in Nat /\ k >= 1 BY Basics
          <6> QED BY <6>1
        <5> QED BY <2>2, <4>1, <5>1 DEF TickNews
      <4>7. Larger(a, b) <= t /\ (a = t \/ t <= b => Larger(a, b) = t)
        BY <4>4, <4>5 DEF Larger
      <4> QED BY <4>1, <4>2, <4>5, <4>6, <4>7
    <3>2. CASE ~ (e.k = "receipt" /\ m <= e.upTo)
      <4>1. x.tick = y.tick BY <1>2, <1>3, <3>2
      <4>2. ~ (e.k = "receipt" /\ About(e, m)) BY <3>2 DEF About
      <4> QED BY <2>1, <4>1, <4>2, Passing
    <3> QED BY <3>1, <3>2
  <2>5. GoneRight(m, 1) BY <1>3, <2>1, Passing
  <2> QED BY <1>2, <1>3, <2>3, <2>4, <2>5 DEF Good
<1> QED BY <1>4, <1>5

\* The mounted chat takes an event: it has each message once,
LEMMA ReceiveOncePage ==
  ASSUME View, NEW e \in EventsOf(Len(docs)), Arrival(e),
         NEW p \in ChatsOf(Len(docs)), NEW q \in ChatsOf(Len(docs)),
         Arrived(e, p, q)
  PROVE  OnceChat(q)'
<1>t. Typed BY DEF View, Full
<1>n. PICK n \in Nat : n = Len(docs) BY <1>t, Basics
<1>e. 1 \in DOMAIN wire /\ e = wire[1] /\ upset \subseteq upset'
  BY DEF Arrival
<1>p. OnceChat(p) BY DEF View, OncePage, Arrived
<1>q. q = Take(p, e) /\ upset' = upset \cup Meets(p, e) BY DEF Arrived
<1>1. CASE ~ p.wired
  <2>1. q = p BY <1>1 DEF Arrived
  <2> QED BY <1>e, <1>p, <2>1 DEF OnceChat, Fresh, Shown, Single
<1>2. CASE p.wired
  <2>l. \A h \in q.lists : h \in p.lists \/ (e.k = "joined" /\ h = e)
    BY <1>2 DEF Arrived
  <2>f. \/ q.fresh = p.fresh /\ q.seen = p.seen
        \/ /\ e.k = "new" /\ e.item.m \notin p.seen
           /\ q.seen = p.seen \cup {e.item.m}
           /\ q.fresh = p.fresh \cup {e.item}
    BY <1>2 DEF Arrived
  <2>1. \A h \in q.lists : Single(h.list)
    <3>1. e.k = "joined" => Single(e.list)
      BY <1>e DEF View, OnTheWay, GoodWire
    <3> QED BY <1>p, <2>l, <3>1 DEF OnceChat
  <2>2. Single(q.fresh) /\ Fresh(q) \subseteq q.seen
    BY <1>p, <2>f DEF OnceChat, Single, Fresh
  <2>3. Shown(q) \subseteq Shown(p)
    <3>1. CASE e.k = "joined" BY <1>2, <3>1 DEF Arrived
    <3>2. CASE e.k = "deleted" BY <1>2, <3>2 DEF Arrived
    <3>3. CASE e.k \notin {"joined", "deleted"} BY <3>3 DEF Arrived
    <3> QED BY <3>1, <3>2, <3>3
  <2>4. Fresh(q) \cap Shown(q) \subseteq upset'
    <3>1. Fresh(p) \cap Shown(p) \subseteq upset BY <1>p DEF OnceChat
    <3>2. CASE q.fresh = p.fresh
      <4>1. Fresh(q) = Fresh(p) BY <3>2 DEF Fresh
      <4> QED BY <1>e, <2>3, <3>1, <4>1
    <3>3. CASE q.fresh # p.fresh
      <4>1. e.k = "new" /\ Fresh(q) = Fresh(p) \cup {e.item.m}
        BY <2>f, <3>3 DEF Fresh
      <4>2. e.item.m \notin Shown(p)
        BY <1>n, <1>q, <3>3, <4>1, TakingShown
      <4> QED BY <1>e, <2>3, <3>1, <4>1, <4>2
    <3> QED BY <3>2, <3>3
  <2>5. ASSUME q.lists # {} PROVE Fresh(q) \subseteq upset'
    <3>1. CASE p.lists = {}
      <4>1. e.k = "joined" BY <2>5, <2>l, <3>1
      <4>2. Fresh(q) = Fresh(p) BY <2>f, <4>1 DEF Fresh
      <4>3. Fresh(p) \subseteq Meets(p, e) BY <4>1 DEF Meets
      <4> QED BY <1>q, <4>2, <4>3
    <3>2. CASE p.lists # {}
      <4>1. Fresh(p) \subseteq upset BY <1>p, <3>2 DEF OnceChat
      <4>2. \A x \in q.fresh : x \in p.fresh \/ (e.k = "new" /\ x = e.item)
        BY <2>f
      <4>3. e.k = "new" => e.item.m \in Meets(p, e) BY <3>2 DEF Meets
      <4>4. \A x \in q.fresh : x.m \in upset'
        BY <1>q, <4>1, <4>2, <4>3 DEF Fresh
      <4> QED BY <4>4 DEF Fresh
    <3> QED BY <3>1, <3>2
  <2>6. ASSUME NEW x \in q.shown, NEW z \in q.shown, x.m = z.m
        PROVE  x = z \/ x.m \in upset'
    <3>0. \A a, b \in p.shown : a.m = b.m => a = b \/ a.m \in upset
      BY <1>p DEF OnceChat
    <3>1. CASE q.shown = p.shown BY <1>e, <2>6, <3>0, <3>1
    <3>2. CASE \A v \in q.shown : \E y \in p.shown : v = Updated(e, y)
      <4>1. PICK a \in p.shown, b \in p.shown :
              x = Updated(e, a) /\ z = Updated(e, b)
        BY <2>6, <3>2
      <4>2. a \in Items(n) /\ b \in Items(n) /\ e \in EventsOf(n)
        BY <1>n DEF ChatsOf
      <4>3. x.m = a.m /\ z.m = b.m BY <4>1, <4>2, Updating
      <4>4. a = b => x = z BY <4>1
      <4>5. a.m = b.m BY <2>6, <4>3
      <4>6. a = b \/ a.m \in upset BY <3>0, <4>5
      <4> QED BY <1>e, <4>3, <4>4, <4>6
    <3>3. (\A v \in q.shown : \E y \in p.shown : v = Updated(e, y))
             \/ q.shown = p.shown
      BY <1>n, <1>q, TakingShown
    <3> QED BY <3>1, <3>2, <3>3
  <2> QED BY <2>1, <2>2, <2>4, <2>5, <2>6
          DEF OnceChat, Fresh, Shown, Single
<1> QED BY <1>1, <1>2 DEF ChatsOf

\* and is current as it was or because of the history that it takes,
LEMMA ReceiveCurrent ==
  ASSUME View, NEW e \in EventsOf(Len(docs)), Arrival(e),
         NEW p \in ChatsOf(Len(docs)), NEW q \in ChatsOf(Len(docs)),
         Arrived(e, p, q), Current'
  PROVE  /\ p.wired /\ p.room \in joined /\ ~ crossed /\ ~ crossed'
         /\ e.k = "joined" => e.room = p.room
         /\ e.k # "joined" => Current
<1>1. /\ Mounted /\ p = Page /\ q = Page' /\ q.room = p.room
      /\ q.wired = p.wired
  BY DEF Arrived
<1>2. PICK r : r = p.room OBVIOUS
<1>3. /\ ~ crossed' /\ q.wired /\ r \in joined /\ ~ Again(r)'
  BY <1>1, <1>2 DEF Current, Again, Asked, Arrival
<1>4. ~ crossed BY <1>3 DEF Arrived
<1>5. e.k = "joined" => e.room = p.room BY <1>1, <1>3 DEF Arrived
<1>6. ASSUME e.k # "joined" PROVE ~ Again(r)
  <2>1. ~ Asked(r) BY <1>3 DEF Again, Asked, Arrival
  <2>2. ASSUME NEW i \in DOMAIN wire, wire[i].k = "joined"
        PROVE  wire[i].room # r
    <3>1. i # 1 BY <1>6, <2>2 DEF Arrival
    <3>2. i - 1 \in DOMAIN wire' /\ wire'[i - 1] = wire[i]
      BY <3>1 DEF Arrival
    <3> QED BY <1>3, <2>2, <3>2 DEF Again
  <2> QED BY <2>1, <2>2 DEF Again
<1>7. e.k # "joined" => Current
  BY <1>1, <1>2, <1>3, <1>4, <1>6 DEF Current
<1> QED BY <1>1, <1>2, <1>3, <1>4, <1>5, <1>7

\* of which all is good, since what it had was upset,
LEMMA ReceiveHistory ==
  ASSUME View, NEW e \in EventsOf(Len(docs)), Arrival(e), Unmoved,
         NEW p \in ChatsOf(Len(docs)), NEW q \in ChatsOf(Len(docs)),
         Arrived(e, p, q), Current', e.k = "joined"
  PROVE  GoodChat(q)'
<1>t. Typed /\ Full /\ News BY DEF View, Full, OnTheWay
<1>n. PICK n \in Nat : n = Len(docs) BY <1>t, Basics
<1>c. p.wired /\ e.room = p.room BY ReceiveCurrent
<1>e. 1 \in DOMAIN wire /\ e = wire[1] BY DEF Arrival
<1>q. /\ q = Take(p, e) /\ upset' = upset \cup Meets(p, e)
      /\ q.room = p.room /\ q.active = e.room /\ q.fresh = p.fresh
      /\ \/ e.list = {} /\ q.lists = p.lists
         \/ e.list # {} /\ q.lists = p.lists \cup {e}
  BY <1>c DEF Arrived
<1>m. /\ Fresh(p) \cup Loading(p) \subseteq upset'
      /\ p.lists # {} => ListOf(e) \subseteq upset'
  BY <1>q DEF Meets
<1>1. \A x : x.m \in upset' => Good(x, 0)' BY DEF Good
<1>2. \A h \in p.lists : \A x \in h.list : Good(x, 0)'
  <2>1. \A h \in p.lists : \A x \in h.list : x.m \in Loading(p)
    BY DEF Loading, ListOf
  <2> QED BY <1>1, <1>m, <2>1
<1>3. \A x \in q.fresh : Good(x, 0)'
  <2>1. \A x \in q.fresh : x.m \in Fresh(p) BY <1>q DEF Fresh
  <2> QED BY <1>1, <1>m, <2>1
<1>4. \A x \in e.list : Good(x, 0)'
  <2> SUFFICES ASSUME NEW x \in e.list PROVE Good(x, 0)'
    OBVIOUS
  <2>1. Good(x, 1) BY <1>e DEF View, OnTheWay, GoodWire
  <2>2. x.m \in Ids /\ x.tick \in Nat BY <1>e, <1>t, InChannel
  <2>3. 0 \in Nat /\ 0 + 1 = 1 OBVIOUS
  <2> QED BY <2>1, <2>2, <2>3 DEF Unmoved
<1>5. \A h \in q.lists : \A x \in h.list : Good(x, 0)'
  BY <1>2, <1>4, <1>q
<1>6. q.lists = {} => q.shown = {}
  <2>1. q.lists = {} => e.list = {} BY <1>q
  <2> QED BY <1>c, <1>n, <1>q, <2>1, TakingShown
<1>r. PICK r : r = q.room OBVIOUS
<1>7. ASSUME NEW m \in Lasting(r)'
      PROVE  Announced(m)' \/ InWire(m)' \/ Has(q, m)
  <2>1. m \in Lasting(e.room)
    BY <1>7, <1>c, <1>q, <1>r DEF Unmoved
  <2>2. m \notin upset' BY <1>7 DEF Lasting
  <2>3. \/ m \in ListOf(e) \/ Announced(m)
        \/ \E k \in DOMAIN wire : k > 1 /\ New(k, m)
    BY <1>e, <2>1 DEF View, OnTheWay, Whole
  <2>4. ASSUME NEW k \in DOMAIN wire, k > 1, New(k, m) PROVE InWire(m)'
    <3>0. k # 1 BY <2>4
    <3>1. k - 1 \in DOMAIN wire' /\ wire'[k - 1] = wire[k]
      BY <3>0 DEF Arrival
    <3>2. New(k - 1, m)' BY <2>4, <3>1 DEF New
    <3> QED BY <3>1, <3>2 DEF InWire
  <2>5. ASSUME m \in ListOf(e) PROVE Has(q, m)
    <3>1. p.lists = {} BY <1>m, <2>2, <2>5
    <3>2. e.list # {} BY <2>5 DEF ListOf
    <3>3. q.lists = {e} BY <1>q, <3>1, <3>2
    <3> QED BY <2>5, <3>3 DEF Has
  <2> QED BY <2>3, <2>4, <2>5 DEF Arrival
<1>8. \A m \in Lasting(q.room)' : Announced(m)' \/ InWire(m)' \/ Has(q, m)
  BY <1>7, <1>r DEF Lasting
<1> QED BY <1>3, <1>5, <1>6, <1>8, <1>c, <1>q
        DEF GoodChat, Has, Shown, Fresh, ListOf

\* or keeps what it has, updated as the event says.
LEMMA ReceiveShown ==
  ASSUME View, Current, NEW e \in EventsOf(Len(docs)), Arrival(e), Unmoved,
         NEW p \in ChatsOf(Len(docs)), NEW q \in ChatsOf(Len(docs)),
         Arrived(e, p, q), p.wired, e.k # "joined"
  PROVE  /\ \A h \in q.lists : \A x \in h.list : Good(x, 0)'
         /\ \A x \in q.fresh : Good(x, 0)'
         /\ q.lists = {} => \A x \in q.shown : Good(x, 0)'
<1>t. Typed /\ Full /\ News BY DEF View, Full, OnTheWay
<1>n. PICK n \in Nat : n = Len(docs) /\ Ids = 1 .. n BY <1>t, Basics
<1>e. 1 \in DOMAIN wire /\ e = wire[1] /\ upset \subseteq upset'
  BY DEF Arrival
<1>p. p = Page /\ Mounted /\ ~ crossed BY DEF Arrived, Current
<1>q. /\ q = Take(p, e) /\ upset' = upset \cup Meets(p, e)
      /\ q.lists = p.lists
  BY DEF Arrived
<1>g. GoodChat(p) BY <1>p DEF View, GoodPage
<1>i. \A x \in Items(n) : x.m \in Ids /\ x.tick \in Nat BY <1>n DEF Items
<1>1. ASSUME NEW x \in Items(n), Good(x, 1) PROVE Good(x, 0)'
  <2>1. 0 \in Nat /\ 0 + 1 = 1 /\ x.m \in Ids /\ x.tick \in Nat BY <1>i
  <2> QED BY <1>1, <2>1 DEF Unmoved
<1>2. ASSUME NEW x \in Items(n), NewsOf(e, x.m),
             p.lists # {} \/ x.m \in Fresh(p)
      PROVE  Good(x, 0)'
  <2>1. x.m \in Ids /\ Ids = 1 .. n BY <1>i, <1>n
  <2>2. CASE e.k \in {"deleted", "reaction"}
    <3>1. e.m = x.m BY <1>2, <2>2 DEF NewsOf
    <3>2. x.m \in Meets(p, e) BY <1>2, <2>2, <3>1 DEF Meets
    <3> QED BY <1>q, <3>2 DEF Good
  <2>3. CASE e.k = "receipt"
    <3>1. x.m <= e.upTo BY <1>2, <2>3 DEF NewsOf, About
    <3>2. e.upTo \in 0 .. n BY <1>n, <2>3, EventKinds
    <3>3. x.m \in 1 .. e.upTo BY <2>1, <3>1, <3>2
    <3>4. x.m \in Meets(p, e) BY <1>2, <2>3, <3>3 DEF Meets
    <3> QED BY <1>q, <3>4 DEF Good
  <2> QED BY <1>2, <2>2, <2>3 DEF NewsOf
<1>3. ASSUME NEW x \in Items(n), Good(x, 0),
             p.lists # {} \/ x.m \in Fresh(p)
      PROVE  Good(x, 0)'
  <2>1. CASE NewsOf(e, x.m) BY <1>2, <1>3, <2>1
  <2>2. CASE ~ NewsOf(e, x.m) BY <1>1, <1>3, <2>2, PassingGood
  <2> QED BY <2>1, <2>2
<1>4. \A h \in q.lists : \A x \in h.list : Good(x, 0)'
  <2> SUFFICES ASSUME NEW h \in p.lists, NEW x \in h.list
               PROVE  Good(x, 0)'
    BY <1>q
  <2>1. x \in Items(n) BY <1>n DEF ChatsOf, Joineds
  <2>2. Good(x, 0) /\ p.lists # {} BY <1>g DEF GoodChat
  <2> QED BY <1>3, <2>1, <2>2
<1>5. ASSUME NEW x \in q.fresh PROVE Good(x, 0)'
  <2>1. x \in Items(n) BY <1>n DEF ChatsOf
  <2>2. CASE x \in p.fresh
    <3>1. Good(x, 0) /\ x.m \in Fresh(p) BY <1>g, <2>2 DEF GoodChat, Fresh
    <3> QED BY <1>3, <2>1, <3>1
  <2>3. CASE x \notin p.fresh
    <3>1. e.k = "new" /\ x = e.item BY <1>5, <2>3 DEF Arrived
    <3>2. Good(x, 1) BY <1>e, <3>1 DEF View, OnTheWay, GoodWire
    <3> QED BY <1>1, <2>1, <3>2
  <2> QED BY <2>2, <2>3
<1>6. ASSUME q.lists = {}, NEW x \in q.shown PROVE Good(x, 0)'
  <2>0. x \in Items(n) BY <1>6, <1>n DEF ChatsOf
  <2>1. \A y \in p.shown :
          Good(y, 0) /\ y \in Items(n) /\ docs[y.m].room = p.room
    BY <1>g, <1>n, <1>p, <1>q, <1>6, <1>t
       DEF GoodChat, ChatsOf, Full, Delivery, InRoom, OfRoom
  <2>2. p.active = p.room /\ p.active # NoRoom
    BY <1>g, ChatAssumption DEF GoodChat, ChatsOf
  <2>3. CASE q.shown = p.shown /\ e.k = "receipt" /\ Foreign(p, e.room)
    <3>1. Good(x, 0) /\ docs[x.m].room = p.room BY <1>6, <2>1, <2>3
    <3>2. e.room # p.room BY <2>2, <2>3 DEF Foreign
    <3>3. ~ NewsOf(e, x.m) BY <2>3, <3>1, <3>2 DEF NewsOf, About
    <3>4. Good(x, 1) BY <3>1, <3>3, PassingGood
    <3> QED BY <1>1, <2>0, <3>4
  <2>4. CASE /\ \A v \in q.shown : \E y \in p.shown : v = Updated(e, y)
             /\ ~ (e.k = "receipt" /\ Foreign(p, e.room))
    <3>1. PICK y \in p.shown : x = Updated(e, y) BY <1>6, <2>4
    <3>2. Good(y, 0) /\ y \in Items(n) /\ docs[y.m].room = p.room BY <2>1
    <3>3. x.m = y.m BY <1>n, <3>1, <3>2, Updating
    <3>4. e.k = "receipt" => e.room = docs[y.m].room
      BY <2>2, <2>4, <3>2 DEF Foreign
    <3>5. ~ (e.k = "deleted" /\ e.m = y.m)
      <4>1. e.k = "deleted" => e.m \notin Shown(q)
        BY <1>n, <1>q, TakingShown
      <4>2. x.m \in Shown(q) BY <1>6 DEF Shown
      <4> QED BY <3>3, <4>1, <4>2
    <3>6. Good(x, 1)
      BY <1>n, <1>t, <3>1, <3>2, <3>4, <3>5, UpdatedGood
    <3> QED BY <1>1, <2>0, <3>6
  <2>5. CASE /\ \A v \in q.shown : \E y \in p.shown : v = Updated(e, y)
             /\ e.k = "receipt" /\ Foreign(p, e.room)
    <3>1. q = p BY <1>q, <2>5 DEF Take, TakeReceipt
    <3> QED BY <2>3, <2>5, <3>1
  <2>6. \/ q.shown = p.shown /\ e.k = "receipt" /\ Foreign(p, e.room)
        \/ \A v \in q.shown : \E y \in p.shown : v = Updated(e, y)
    <3>1. \/ q.shown = p.shown
               /\ \/ ~ p.wired
                  \/ e.k = "receipt" /\ Foreign(p, e.room)
          \/ \A v \in q.shown : \E y \in p.shown : v = Updated(e, y)
      BY <1>n, <1>q, TakingShown
    <3> QED BY <3>1
  <2> QED BY <2>3, <2>4, <2>5, <2>6
<1> QED BY <1>4, <1>5, <1>6

\* It lacks nothing that is to be shown,
LEMMA ReceiveHas ==
  ASSUME View, Current, NEW e \in EventsOf(Len(docs)), Arrival(e), Unmoved,
         NEW p \in ChatsOf(Len(docs)), NEW q \in ChatsOf(Len(docs)),
         Arrived(e, p, q), p.wired, e.k # "joined",
         NEW m \in Lasting(p.room), m \notin upset'
  PROVE  Announced(m)' \/ InWire(m)' \/ Has(q, m)
<1>t. Typed /\ Full BY DEF View, Full
<1>n. PICK n \in Nat : n = Len(docs) BY <1>t, Basics
<1>e. 1 \in DOMAIN wire /\ e = wire[1] BY DEF Arrival
<1>p. p = Page /\ Mounted /\ ~ crossed BY DEF Arrived, Current
<1>q. /\ q = Take(p, e) /\ upset' = upset \cup Meets(p, e)
      /\ q.lists = p.lists /\ p.fresh \subseteq q.fresh
  BY DEF Arrived
<1>g. GoodChat(p) BY <1>p DEF View, GoodPage
<1>m. m \in Ids /\ docs[m].room = p.room /\ docs[m].hidden = {}
  BY DEF Lasting
<1>s. Shown(p) \ (IF e.k = "deleted" THEN {e.m} ELSE {}) \subseteq Shown(q)
  BY DEF Arrived
<1>1. ASSUME Has(p, m) PROVE Has(q, m)
  <2>1. CASE p.lists = {}
    <3>1. m \in Shown(p) \cup Fresh(p) BY <1>1, <2>1 DEF Has
    <3>2. e.k = "deleted" => m # e.m
      BY <1>e, <1>m, <1>t DEF Full, Delivery, Erased
    <3>3. m \in Shown(q) \cup Fresh(q) BY <1>q, <1>s, <3>1, <3>2 DEF Fresh
    <3> QED BY <1>q, <2>1, <3>3 DEF Has
  <2>2. CASE p.lists # {} BY <1>1, <1>q, <2>2 DEF Has
  <2> QED BY <2>1, <2>2
<1>2. ASSUME New(1, m) PROVE Has(q, m)
  <2>1. e.k = "new" /\ e.item.m = m BY <1>2, <1>e DEF New
  <2>2. e.room = p.room
    BY <1>e, <1>m, <1>t, <2>1 DEF Full, Delivery, InRoom
  <2>3. ~ Foreign(p, e.room) BY <1>g, <2>2 DEF GoodChat, Foreign
  <2>4. p.lists = {}
    <3>1. p.lists # {} => m \in Meets(p, e) BY <2>1 DEF Meets
    <3> QED BY <1>q, <3>1
  <2>5. m \notin p.seen
    <3>1. InWire(m) BY <1>2, <1>e DEF InWire
    <3> QED BY <1>m, <1>p, <1>t, <3>1 DEF Full, Delivery, Once
  <2>6. \/ q = p /\ m \in Shown(p)
        \/ q.fresh = p.fresh \cup {e.item}
    BY <2>1, <2>3, <2>5 DEF Arrived
  <2>7. m \in Shown(q) \cup Fresh(q) BY <2>1, <2>6 DEF Fresh
  <2> QED BY <1>q, <2>4, <2>7 DEF Has
<1>3. Announced(m) \/ InWire(m) \/ Has(p, m) BY <1>g DEF GoodChat
<1> QED BY <1>1, <1>2, <1>3 DEF Arrival

\* and so is good.
LEMMA ReceiveGood ==
  ASSUME View, Current, NEW e \in EventsOf(Len(docs)), Arrival(e), Unmoved,
         NEW p \in ChatsOf(Len(docs)), NEW q \in ChatsOf(Len(docs)),
         Arrived(e, p, q), p.wired, e.k # "joined"
  PROVE  GoodChat(q)'
<1>1. q.room = p.room /\ q.active = p.active /\ p = Page BY DEF Arrived
<1>2. q.active = q.room BY <1>1 DEF View, GoodPage, GoodChat
<1>3. /\ \A h \in q.lists : \A x \in h.list : Good(x, 0)'
      /\ \A x \in q.fresh : Good(x, 0)'
      /\ q.lists = {} => \A x \in q.shown : Good(x, 0)'
  BY ReceiveShown
<1>r. PICK r : r = p.room OBVIOUS
<1>4. ASSUME NEW m \in Lasting(r)'
      PROVE  Announced(m)' \/ InWire(m)' \/ Has(q, m)
  <2>1. m \in Lasting(p.room) /\ m \notin upset'
    BY <1>4, <1>r DEF Unmoved, Lasting
  <2> QED BY <2>1, ReceiveHas
<1>5. \A m \in Lasting(q.room)' : Announced(m)' \/ InWire(m)' \/ Has(q, m)
  BY <1>1, <1>4, <1>r DEF Lasting
<1> QED BY <1>2, <1>3, <1>5 DEF GoodChat, Has, Shown, Fresh, ListOf

\* An event taken keeps the list on the screen.
LEMMA ReceiveView ==
  ASSUME View, Receive PROVE OnTheWay' /\ OncePage' /\ GoodPage'
<1>t. Typed /\ Full /\ OnTheWay /\ News BY DEF View, Full, OnTheWay
<1>e. PICK e \in EventsOf(Len(docs)) : Arrival(e) BY <1>t, Arriving
<1>u. Unmoved BY <1>e, <1>t, ReceiveUnmoved
<1>1. News' BY <1>e, <1>t, <1>u, ReceiveNews
<1>2. GoodServer' /\ GoodWire' BY <1>e, <1>t, <1>u, ReceiveLists
<1>3. Whole' BY <1>e, <1>t, <1>u, ReceiveWhole
<1>m. Mounted' = Mounted BY <1>e DEF Arrival
<1>4. ASSUME Mounted
      PROVE  OnceChat(Page)' /\ (Current' => GoodChat(Page)')
  <2>1. PICK p \in ChatsOf(Len(docs)), q \in ChatsOf(Len(docs)) :
          Arrived(e, p, q)
    BY <1>4, <1>e, <1>t, Arrivals
  <2>2. q = Page' BY <2>1 DEF Arrived
  <2>3. OnceChat(q)' BY <1>e, <2>1, ReceiveOncePage
  <2>4. ASSUME Current' PROVE GoodChat(q)'
    <3>1. p.wired /\ (e.k # "joined" => Current)
      BY <1>e, <2>1, <2>4, ReceiveCurrent
    <3>2. CASE e.k = "joined"
      BY <1>e, <1>u, <2>1, <2>4, <3>2, ReceiveHistory
    <3>3. CASE e.k # "joined"
      BY <1>e, <1>u, <2>1, <3>1, <3>3, ReceiveGood
    <3> QED BY <3>2, <3>3
  <2>5. OnceChat(Page)'
    BY <2>2, <2>3 DEF OnceChat, Fresh, Shown, Single
  <2>6. Current' => GoodChat(Page)'
    BY <2>2, <2>4 DEF GoodChat, Has, Shown, Fresh, ListOf
  <2> QED BY <2>5, <2>6
<1>5. OncePage' BY <1>4, <1>m DEF OncePage
<1>6. GoodPage' BY <1>4, <1>m DEF GoodPage, Current
<1> QED BY <1>1, <1>2, <1>3, <1>5, <1>6 DEF OnTheWay

\* The initial state satisfies the invariant,
LEMMA ViewStart == Init => View
<1> SUFFICES ASSUME Init PROVE View
  OBVIOUS
<1>1. Full BY FullStart
<1>2. /\ jobs = {} /\ DOMAIN wire = {} /\ DOMAIN docs = {} /\ Ids = {}
      /\ ~ Mounted
  BY DEF Init, Ids, Mounted
<1>3. News
  BY <1>2 DEF News, TellsRight, ReactionsRight, ReceiptsRight, Channels
<1>4. GoodServer /\ GoodWire /\ Whole BY <1>2 DEF GoodServer, GoodWire, Whole
<1>5. OncePage /\ GoodPage BY <1>2 DEF OncePage, GoodPage, Current
<1> QED BY <1>1, <1>3, <1>4, <1>5 DEF View, OnTheWay

\* and every step keeps it.
LEMMA ViewStep == View /\ [Next]_vars => View'
<1> SUFFICES ASSUME View, [Next]_vars PROVE View'
  OBVIOUS
<1>1. Full' BY FullStep DEF View
<1>t. Typed' BY <1>1 DEF Full
<1>2. OnTheWay' /\ OncePage' /\ GoodPage'
  <2>1. CASE \/ \E u \in Users, r \in Rooms : Post(u, r)
             \/ \E u \in Users, m \in Ids : React(u, m) \/ Delete(u, m)
             \/ \E r \in Rooms, m \in 0..Len(docs), read \in BOOLEAN :
                   PeerSees(r, m, read)
    BY <1>t, <2>1, PostView, ReactView, DeleteView, PeerSeesView
  <2>2. CASE \E j \in jobs : SaveReaction(j) \/ Mark(j) \/ Find(j)
    BY <1>t, <2>2, SaveReactionView, MarkView, FindView
  <2>3. CASE \E j \in jobs : \/ Announce(j) \/ TellReaction(j)
                             \/ TellDeleted(j) \/ TellReceipt(j)
                             \/ Reply(j)
    BY <1>t, <2>3, AnnounceView, TellView, ReplyView
  <2>4. CASE \E r \in Rooms : Open(r) BY <2>4, OpenView
  <2>5. CASE \E i \in DOMAIN chats : KeyReady(i) BY <2>5, KeyReadyView
  <2>6. ASSUME NEW i \in DOMAIN chats, NEW h \in chats[i].lists,
               ShowHistory(i, h)
        PROVE  OnTheWay' /\ OncePage' /\ GoodPage'
    BY <2>6, ShowHistoryView
  <2>7. ASSUME NEW i \in DOMAIN chats, NEW x \in chats[i].fresh, ShowNew(i, x)
        PROVE  OnTheWay' /\ OncePage' /\ GoodPage'
    BY <2>7, ShowNewView
  <2>8. CASE Receive BY <2>8, ReceiveView
  <2>9. CASE SetForeground BY <2>9, SetForegroundView
  <2>10. CASE Lose BY <2>10, LoseView
  <2>11. CASE Reconnect BY <2>11, ReconnectView
  <2>12. CASE UNCHANGED vars
    <3>1. /\ docs' = docs /\ jobs' = jobs /\ wire' = wire /\ joined' = joined
          /\ upset' = upset /\ overlap' = overlap /\ chats' = chats
          /\ crossed' = crossed
      BY <2>12 DEF vars, server, link, client, marks
    <3>2. Beside BY <3>1 DEF Beside
    <3>3. OnTheWay' BY <3>2, BesideServer
    <3>4. PICK p : p = Page OBVIOUS
    <3>5. Page' = p /\ Mounted' = Mounted BY <3>1, <3>4 DEF Page, Mounted
    <3>6. Current' => Current
      BY <3>1, <3>4, <3>5 DEF Current, Again, Asked
    <3>7. Mounted => OnceChat(p)'
      BY <3>2, <3>4, BesidePage DEF View, OncePage
    <3>8. Current => GoodChat(p)'
      BY <3>2, <3>4, BesidePage DEF View, GoodPage
    <3>9. OncePage' BY <3>5, <3>7 DEF OncePage, OnceChat, Fresh, Shown, Single
    <3>10. GoodPage'
      BY <3>5, <3>6, <3>8 DEF GoodPage, GoodChat, Has, Shown, Fresh, ListOf
    <3> QED BY <3>3, <3>9, <3>10
  <2> QED BY <2>1, <2>2, <2>3, <2>4, <2>5, <2>6, <2>7, <2>8, <2>9, <2>10,
             <2>11, <2>12 DEF Next
<1> QED BY <1>1, <1>2 DEF View

\* The inductive invariant of the list on the screen holds.
THEOREM ViewInvariance == Spec => []View
<1> QED BY ViewStart, ViewStep, PTL DEF Spec

\* When all is delivered the list on the screen is the server's, with the
\* exceptions ViewMatches lists (the listeners of ChatController.js and the
\* history join_permanent answers with).
THEOREM ScreenIsRight == Spec => []ViewMatches
<1>1. View => ViewMatches
  <2> SUFFICES ASSUME View, Settled, ~ crossed, NEW m \in Ids \ upset
               PROVE  LET c == Last(chats)
                          as(k) == {x \in c.shown : x.m = k}
                      IN /\ \A x, y \in as(m) : x = y
                         /\ as(m) # {} => /\ docs[m].room = c.room
                                          /\ Me \notin docs[m].hidden
                         /\ (docs[m].room = c.room /\ docs[m].hidden = {})
                              => as(m) # {}
                         /\ \A x \in as(m) :
                              /\ m \in overlap \/ x.count = docs[m].count
                              /\ docs[m].from = Me
                                   => x.tick = Tick(docs[m])
    BY DEF ViewMatches
  <2>t. Full BY DEF View
  <2>p. PICK p : p = Page /\ p = Last(chats) BY DEF Page
  <2>1. /\ Mounted /\ jobs = {} /\ DOMAIN wire = {}
        /\ p.loaded /\ p.lists = {} /\ p.fresh = {} /\ p.room \in joined
    BY <2>p DEF Settled, Mounted
  <2>2. p.wired BY <2>1, <2>p, <2>t DEF Full, Delivery, Wiring
  <2>3. Current BY <2>1, <2>2, <2>p DEF Current, Again, Asked
  <2>4. GoodChat(p) /\ OnceChat(p)
    BY <2>1, <2>3, <2>p DEF View, GoodPage, OncePage
  <2>5. \A x \in p.shown : docs[x.m].room = p.room
    BY <2>1, <2>p, <2>t DEF Full, Delivery, InRoom, OfRoom
  <2>6. \A x, y \in p.shown : x.m = m /\ y.m = m => x = y
    BY <2>4 DEF OnceChat
  <2>7. ASSUME NEW x \in p.shown, x.m = m
        PROVE  /\ docs[m].room = p.room /\ Me \notin docs[m].hidden
               /\ m \in overlap \/ x.count = docs[m].count
               /\ docs[m].from = Me => x.tick = Tick(docs[m])
    <3>1. /\ CountRight(m, x.count, 0) /\ TickRight(m, x.tick, 0)
          /\ GoneRight(m, 0)
      BY <2>1, <2>4, <2>7 DEF GoodChat, Good
    <3>2. Me \notin docs[m].hidden
      BY <2>1, <3>1 DEF GoneRight, GoneNews, Erasing
    <3>3. m \in overlap \/ x.count = docs[m].count
      BY <2>1, <3>1 DEF CountRight, CountNews, Telling
    <3>4. docs[m].from = Me => x.tick = Tick(docs[m])
      BY <2>1, <3>1 DEF TickRight, TickNews
    <3> QED BY <2>5, <2>7, <3>2, <3>3, <3>4
  <2>8. ASSUME docs[m].room = p.room, docs[m].hidden = {}
        PROVE  \E x \in p.shown : x.m = m
    <3>1. m \in Lasting(p.room) BY <2>8 DEF Lasting
    <3>2. ~ Announced(m) /\ ~ InWire(m) BY <2>1 DEF Announced, InWire
    <3>3. Has(p, m) BY <2>4, <3>1, <3>2 DEF GoodChat
    <3> QED BY <2>1, <3>3 DEF Has, Shown, Fresh
  <2> QED BY <2>p, <2>6, <2>7, <2>8
<1> QED BY <1>1, ViewInvariance, PTL

(***************************************************************************)
(* Presence.                                                               *)
(***************************************************************************)
Snap == [show : BOOLEAN, contact : BOOLEAN]

\* A status is first issued when its connection is registered, and the last
\* when it is gone: none is issued again before it is told.
IssuedOnce ==
  \A c \in Conns :
    /\ at[c] \in {"unused", "setup", "lost"} => job[<<c, "online">>] = "none"
    /\ at[c] \in {"unused", "setup", "lost", "up"}
         => job[<<c, "offline">>] = "none"

\* What an update returned is there until it is told.
SnapsKept == \A j \in Jobs : job[j] = "tell" => snap[j] \in Snap

\* The update stored last is what is stored.
LatestStands ==
  latest # None => job[latest] = "tell" /\ doc.online = (latest[2] = "online")

\* A change of the connections is on its way to the document, or in it.
Stored ==
  \/ \E j \in Jobs : job[j] = "update"
  \/ ~ clean
  \/ doc.online = (Present # {})

\* A list that is right says what is stored, and so does the sidebar when the
\* last update has been told and the contact heard of it.
Heard ==
  /\ answer # None /\ answer.right => answer.on = Masked(doc)
  /\ latest = None /\ ~ unaware => shown.on = Masked(doc)

PresenceInv ==
  PresenceTypeOK /\ IssuedOnce /\ SnapsKept /\ LatestStands /\ Stored /\ Heard

\* A status update is one of a connection.
LEMMA JobParts ==
  /\ None \notin Jobs
  /\ \A c \in Conns : <<c, "online">> \in Jobs /\ <<c, "offline">> \in Jobs
BY PresenceAssumption DEF Jobs

\* The initial state satisfies the invariant.
LEMMA PresenceStart == PresenceInit => PresenceInv
<1> SUFFICES ASSUME PresenceInit PROVE PresenceInv
  OBVIOUS
<1> USE DEF PresenceInit
<1>1. PresenceTypeOK
  <2>1. mishaps \in 0 .. MaxMishaps BY PresenceAssumption
  <2>2. doc \in [online : BOOLEAN, show : BOOLEAN, contact : BOOLEAN]
    OBVIOUS
  <2>3. shown \in [by : {"none", "list", "event"}, on : BOOLEAN]
    BY DEF Nothing
  <2>4. /\ watching \in BOOLEAN /\ clean \in BOOLEAN /\ unaware \in BOOLEAN
        /\ answer = None /\ latest = None /\ hello \subseteq Conns
    OBVIOUS
  <2>5. /\ job \in [Jobs -> {"none", "update", "tell"}]
        /\ snap \in [Jobs -> [show : BOOLEAN, contact : BOOLEAN] \cup {None}]
        /\ at \in [Conns -> {"unused", "setup", "lost", "up", "guest",
                             "gone"}]
        /\ token \in [Pages -> {"live", "old"}]
        /\ conn \in [Pages -> Conns \cup {None}]
    OBVIOUS
  <2> QED BY <2>1, <2>2, <2>3, <2>4, <2>5 DEF PresenceTypeOK
<1>2. IssuedOnce /\ SnapsKept /\ LatestStands
  BY JobParts DEF IssuedOnce, SnapsKept, LatestStands
<1>3. Stored BY DEF Stored, Present
<1>4. Heard BY DEF Heard, Masked, Nothing
<1> QED BY <1>1, <1>2, <1>3, <1>4 DEF PresenceInv

\* Every step keeps the types.
LEMMA PresenceTypeStep ==
  PresenceTypeOK /\ SnapsKept /\ [PresenceNext]_presence => PresenceTypeOK'
<1> SUFFICES ASSUME PresenceTypeOK, SnapsKept, [PresenceNext]_presence
             PROVE  PresenceTypeOK'
  OBVIOUS
<1> USE PresenceAssumption, JobParts DEF PresenceTypeOK, handlers, viewer
<1>1. ASSUME NEW p \in Pages, Leave(p) \/ Expire(p) \/ Reload(p)
      PROVE  PresenceTypeOK'
  BY <1>1 DEF Leave, Expire, Reload
<1>2. ASSUME NEW p \in Pages, NEW c \in Conns, Connect(p, c)
      PROVE  PresenceTypeOK'
  BY <1>2 DEF Connect
<1>3. ASSUME NEW c \in Conns, Register(c) \/ UpdateOnline(c) \/ Disconnect(c)
      PROVE  PresenceTypeOK'
  BY <1>3 DEF Register, UpdateOnline, Disconnect, Issue
<1>4. ASSUME NEW j \in Jobs, Update(j) PROVE PresenceTypeOK'
  <2> USE <1>4 DEF Update
  <2>1. doc' \in [online : BOOLEAN, show : BOOLEAN, contact : BOOLEAN]
    OBVIOUS
  <2>2. answer' \in [on : BOOLEAN, right : BOOLEAN] \cup {None}
    BY DEF Outdated
  <2>3. [show |-> doc.show, contact |-> doc.contact]
          \in [show : BOOLEAN, contact : BOOLEAN]
    OBVIOUS
  <2>4. snap' \in [Jobs -> [show : BOOLEAN, contact : BOOLEAN] \cup {None}]
    BY <2>3
  <2>5. job' \in [Jobs -> {"none", "update", "tell"}] OBVIOUS
  <2>6. clean' \in BOOLEAN
    <3>1. (Present = {}) \in BOOLEAN /\ (j[1] \in Present) \in BOOLEAN OBVIOUS
    <3>2. CASE j[2] = "offline" BY <3>1, <3>2
    <3>3. CASE j[2] # "offline" BY <3>1, <3>3
    <3> QED BY <3>2, <3>3
  <2> QED BY <2>1, <2>2, <2>4, <2>5, <2>6
<1>5. ASSUME NEW j \in Jobs, UpdateFails(j) PROVE PresenceTypeOK'
  <2>1. mishaps' \in 0 .. MaxMishaps BY <1>5 DEF UpdateFails, Mishap
  <2> QED BY <1>5, <2>1 DEF UpdateFails
<1>6. ASSUME NEW j \in Jobs, Broadcast(j) PROVE PresenceTypeOK'
  <2> USE <1>6 DEF Broadcast
  <2>1. snap[j] \in [show : BOOLEAN, contact : BOOLEAN]
    BY DEF SnapsKept, Snap
  <2>2. shown' \in [by : {"none", "list", "event"}, on : BOOLEAN]
    <3>1. (j[2] = "online" /\ snap[j].show) \in BOOLEAN OBVIOUS
    <3>2. CASE snap[j].contact /\ watching
      <4>1. PICK on \in BOOLEAN : on = (j[2] = "online" /\ snap[j].show)
        BY <3>1
      <4>2. shown' = [by |-> "event", on |-> on] BY <3>2, <4>1 DEF Told
      <4> QED BY <4>2
    <3>3. CASE ~ (snap[j].contact /\ watching) BY <3>3
    <3> QED BY <3>2, <3>3
  <2>3. unaware' \in BOOLEAN OBVIOUS
  <2>4. /\ job' \in [Jobs -> {"none", "update", "tell"}]
        /\ snap' \in [Jobs -> [show : BOOLEAN, contact : BOOLEAN] \cup {None}]
    OBVIOUS
  <2> QED BY <2>2, <2>3, <2>4
<1>7. CASE UpdateMe
  <2>1. mishaps' \in 0 .. MaxMishaps BY <1>7 DEF UpdateMe, Mishap
  <2>2. doc' \in [online : BOOLEAN, show : BOOLEAN, contact : BOOLEAN]
    BY <1>7 DEF UpdateMe
  <2>3. answer' \in [on : BOOLEAN, right : BOOLEAN] \cup {None}
    BY <1>7 DEF UpdateMe, Outdated
  <2> QED BY <1>7, <2>1, <2>2, <2>3 DEF UpdateMe
<1>8. CASE RemoveContact
  <2>1. mishaps' \in 0 .. MaxMishaps BY <1>8 DEF RemoveContact, Mishap
  <2>2. doc' \in [online : BOOLEAN, show : BOOLEAN, contact : BOOLEAN]
    BY <1>8 DEF RemoveContact
  <2> QED BY <1>8, <2>1, <2>2 DEF RemoveContact
<1>9. CASE GetPermanentRooms BY <1>9 DEF GetPermanentRooms, Masked
<1>10. CASE SetDms BY <1>10 DEF SetDms, Listed
<1>11. CASE StopWatching \/ Watch
  <2>1. mishaps' \in 0 .. MaxMishaps
    BY <1>11 DEF StopWatching, Watch, Mishap
  <2> QED BY <1>11, <2>1 DEF StopWatching, Watch
<1>12. CASE Reset BY <1>12 DEF Reset, Nothing
<1>13. CASE UNCHANGED presence BY <1>13 DEF presence
<1> QED BY <1>1, <1>2, <1>3, <1>4, <1>5, <1>6, <1>7, <1>8, <1>9, <1>10,
           <1>11, <1>12, <1>13 DEF PresenceNext

\* A step that leaves the updates, the document and what is told alone.
LEMMA PresenceFrame ==
  ASSUME PresenceInv, PresenceTypeOK',
         job' = job, snap' = snap, latest' = latest, clean' = clean,
         Present' = Present, doc'.online = doc.online,
         \A c \in Conns :
           at'[c] = at[c] \/ (at[c] = "unused" /\ at'[c] \in {"setup", "guest"}),
         Heard'
  PROVE  PresenceInv'
<1> USE JobParts DEF PresenceInv
<1>1. IssuedOnce' BY DEF IssuedOnce
<1>2. SnapsKept' /\ LatestStands' BY DEF SnapsKept, LatestStands
<1>3. Stored' BY DEF Stored
<1> QED BY <1>1, <1>2, <1>3

\* Every step keeps the invariant.
LEMMA PresenceStep ==
  PresenceInv /\ [PresenceNext]_presence => PresenceInv'
<1> SUFFICES ASSUME PresenceInv, [PresenceNext]_presence PROVE PresenceInv'
  OBVIOUS
<1>t. PresenceTypeOK /\ PresenceTypeOK'
  BY PresenceTypeStep DEF PresenceInv
<1>p. PresenceTypeOK /\ IssuedOnce /\ SnapsKept /\ LatestStands /\ Stored
      /\ Heard
  BY DEF PresenceInv
<1> USE PresenceAssumption, JobParts, <1>t DEF handlers, viewer
<1>1. ASSUME NEW p \in Pages, Leave(p) \/ Expire(p) \/ Reload(p)
      PROVE  PresenceInv'
  <2>1. UNCHANGED <<job, snap, latest, clean, at, doc, answer, shown, unaware>>
    BY <1>1 DEF Leave, Expire, Reload
  <2>2. Heard' BY <1>p, <2>1 DEF Heard, Masked
  <2>3. Present' = Present BY <2>1 DEF Present
  <2> QED BY <2>1, <2>2, <2>3, PresenceFrame
<1>2. ASSUME NEW p \in Pages, NEW c \in Conns, Connect(p, c)
      PROVE  PresenceInv'
  <2>1. Heard' BY <1>p, <1>2 DEF Heard, Masked, Connect
  <2>2. Present' = Present BY <1>2 DEF Connect, Present, PresenceTypeOK
  <2> QED BY <1>2, <2>1, <2>2, PresenceFrame DEF Connect, PresenceTypeOK
<1>3. ASSUME NEW c \in Conns, Register(c) PROVE PresenceInv'
  <2> USE <1>3 DEF Register, Issue
  <2>0. <<c, "online">> \in Jobs OBVIOUS
  <2>1. ASSUME NEW d \in Conns
        PROVE  /\ at'[d] \in {"unused", "setup", "lost"}
                    => job'[<<d, "online">>] = "none"
               /\ at'[d] \in {"unused", "setup", "lost", "up"}
                    => job'[<<d, "offline">>] = "none"
    BY <1>p, <2>0 DEF IssuedOnce, PresenceTypeOK
  <2>i. IssuedOnce' BY <2>1 DEF IssuedOnce
  <2>2. job[<<c, "online">>] = "none" BY <1>p DEF IssuedOnce
  <2>3. SnapsKept' /\ LatestStands'
    BY <1>p, <2>2 DEF SnapsKept, LatestStands, PresenceTypeOK
  <2>4. job'[<<c, "online">>] = "update" BY DEF PresenceTypeOK
  <2>5. Stored' BY <2>4 DEF Stored
  <2>6. Heard' BY <1>p DEF Heard, Masked
  <2> QED BY <2>i, <2>3, <2>5, <2>6 DEF PresenceInv
<1>4. ASSUME NEW c \in Conns, UpdateOnline(c) PROVE PresenceInv'
  <2> USE <1>4 DEF UpdateOnline, Issue
  <2>0. <<c, "online">> \in Jobs OBVIOUS
  <2>1. ASSUME NEW d \in Conns
        PROVE  /\ at'[d] \in {"unused", "setup", "lost"}
                    => job'[<<d, "online">>] = "none"
               /\ at'[d] \in {"unused", "setup", "lost", "up"}
                    => job'[<<d, "offline">>] = "none"
    BY <1>p, <2>0 DEF IssuedOnce, PresenceTypeOK, Present
  <2>i. IssuedOnce' BY <2>1 DEF IssuedOnce
  <2>2. SnapsKept' /\ LatestStands'
    BY <1>p DEF SnapsKept, LatestStands, PresenceTypeOK
  <2>3. Stored' BY <1>p DEF Stored, PresenceTypeOK, Present
  <2>4. Heard' BY <1>p DEF Heard, Masked
  <2> QED BY <2>i, <2>2, <2>3, <2>4 DEF PresenceInv
<1>5. ASSUME NEW c \in Conns, Disconnect(c) PROVE PresenceInv'
  <2> USE <1>5 DEF Disconnect, Issue
  <2>0. <<c, "offline">> \in Jobs OBVIOUS
  <2>1. ASSUME NEW d \in Conns
        PROVE  /\ at'[d] \in {"unused", "setup", "lost"}
                    => job'[<<d, "online">>] = "none"
               /\ at'[d] \in {"unused", "setup", "lost", "up"}
                    => job'[<<d, "offline">>] = "none"
    BY <1>p, <2>0 DEF IssuedOnce, PresenceTypeOK, Present
  <2>i. IssuedOnce' BY <2>1 DEF IssuedOnce
  <2>2. c \in Present => job[<<c, "offline">>] = "none"
    BY <1>p DEF IssuedOnce, Present
  <2>3. SnapsKept' /\ LatestStands'
    BY <1>p, <2>2 DEF SnapsKept, LatestStands, PresenceTypeOK
  <2>4. Stored'
    <3>1. CASE c \in Present
      <4>1. job'[<<c, "offline">>] = "update"
        BY <3>1, <2>0 DEF PresenceTypeOK
      <4> QED BY <4>1 DEF Stored
    <3>2. CASE c \notin Present
      <4>1. Present' = Present BY <3>2 DEF Present, PresenceTypeOK
      <4> QED BY <1>p, <3>2, <4>1 DEF Stored
    <3> QED BY <3>1, <3>2
  <2>5. Heard' BY <1>p DEF Heard, Masked
  <2> QED BY <2>i, <2>3, <2>4, <2>5 DEF PresenceInv
<1>6. ASSUME NEW j \in Jobs, Update(j) PROVE PresenceInv'
  <2> USE <1>6 DEF Update
  <2>1. IssuedOnce' BY <1>p DEF IssuedOnce, PresenceTypeOK
  <2>2. SnapsKept' BY <1>p DEF SnapsKept, PresenceTypeOK, Snap
  <2>3. LatestStands' BY <1>p DEF LatestStands, PresenceTypeOK
  <2>4. Stored'
    <3>1. Present' = Present BY DEF Present
    <3>2. doc'.online = (j[2] = "online") BY DEF PresenceTypeOK
    <3>3. j[2] \in {"online", "offline"} BY DEF Jobs
    <3>4. CASE j[2] = "offline" BY <3>1, <3>2, <3>4 DEF Stored
    <3>5. CASE j[2] = "online" BY <3>1, <3>2, <3>5 DEF Stored
    <3> QED BY <3>3, <3>4, <3>5
  <2>5. Heard' BY DEF Heard, Outdated, PresenceTypeOK
  <2> QED BY <2>1, <2>2, <2>3, <2>4, <2>5 DEF PresenceInv
<1>7. ASSUME NEW j \in Jobs, UpdateFails(j) PROVE PresenceInv'
  <2> USE <1>7 DEF UpdateFails
  <2>1. IssuedOnce' BY <1>p DEF IssuedOnce, PresenceTypeOK
  <2>2. SnapsKept' /\ LatestStands'
    BY <1>p DEF SnapsKept, LatestStands, PresenceTypeOK
  <2>3. Stored' BY DEF Stored
  <2>4. Heard' BY <1>p DEF Heard, Masked
  <2> QED BY <2>1, <2>2, <2>3, <2>4 DEF PresenceInv
<1>8. ASSUME NEW j \in Jobs, Broadcast(j) PROVE PresenceInv'
  <2> USE <1>8 DEF Broadcast
  <2>1. IssuedOnce' BY <1>p DEF IssuedOnce, PresenceTypeOK
  <2>2. SnapsKept' BY <1>p DEF SnapsKept, PresenceTypeOK
  <2>3. LatestStands' BY <1>p DEF LatestStands, PresenceTypeOK
  <2>4. Stored' BY <1>p DEF Stored, PresenceTypeOK, Present
  <2>5. Heard'
    <3>1. ~ unaware' => shown'.on = Masked(doc)
      <4> SUFFICES ASSUME ~ unaware' PROVE shown'.on = Masked(doc)
        OBVIOUS
      <4>1. /\ snap[j].contact /\ watching /\ j = latest
            /\ snap[j].show = doc.show
        OBVIOUS
      <4>2. doc.online = (j[2] = "online") BY <1>p, <4>1 DEF LatestStands
      <4>3. shown'.on = (j[2] = "online" /\ snap[j].show)
        BY <4>1 DEF Told
      <4> QED BY <4>1, <4>2, <4>3 DEF Masked
    <3> QED BY <1>p, <3>1 DEF Heard, Masked
  <2> QED BY <2>1, <2>2, <2>3, <2>4, <2>5 DEF PresenceInv
<1>9. CASE UpdateMe
  <2>1. Heard' BY <1>9 DEF UpdateMe, Heard, Outdated, PresenceTypeOK
  <2>2. Present' = Present BY <1>9 DEF UpdateMe, Present, PresenceTypeOK
  <2> QED BY <1>9, <2>1, <2>2, PresenceFrame DEF UpdateMe, PresenceTypeOK
<1>10. CASE RemoveContact
  <2>1. Heard' BY <1>p, <1>10 DEF RemoveContact, Heard, Masked, PresenceTypeOK
  <2>2. Present' = Present BY <1>10 DEF RemoveContact, Present, PresenceTypeOK
  <2> QED BY <1>10, <2>1, <2>2, PresenceFrame DEF RemoveContact, PresenceTypeOK
<1>11. CASE GetPermanentRooms
  <2>1. Heard' BY <1>p, <1>11 DEF GetPermanentRooms, Heard, Masked
  <2>2. Present' = Present BY <1>11 DEF GetPermanentRooms, Present
  <2> QED BY <1>11, <2>1, <2>2, PresenceFrame DEF GetPermanentRooms
<1>12. CASE SetDms
  <2>1. Heard'
    BY <1>p, <1>12 DEF SetDms, Listed, Heard, Masked, PresenceTypeOK
  <2>2. Present' = Present BY <1>12 DEF SetDms, Present
  <2> QED BY <1>12, <2>1, <2>2, PresenceFrame DEF SetDms
<1>13. CASE StopWatching \/ Watch
  <2>1. Heard' BY <1>p, <1>13 DEF StopWatching, Watch, Heard, Masked
  <2>2. Present' = Present BY <1>13 DEF StopWatching, Watch, Present
  <2> QED BY <1>13, <2>1, <2>2, PresenceFrame DEF StopWatching, Watch
<1>14. CASE Reset
  <2>1. Heard' BY <1>14 DEF Reset, Heard
  <2>2. Present' = Present BY <1>14 DEF Reset, Present
  <2> QED BY <1>14, <2>1, <2>2, PresenceFrame DEF Reset
<1>15. CASE UNCHANGED presence
  <2>1. Heard' BY <1>p, <1>15 DEF presence, Heard, Masked
  <2>2. Present' = Present BY <1>15 DEF presence, Present
  <2> QED BY <1>15, <2>1, <2>2, PresenceFrame DEF presence
<1> QED BY <1>1, <1>2, <1>3, <1>4, <1>5, <1>6, <1>7, <1>8, <1>9, <1>10,
           <1>11, <1>12, <1>13, <1>14, <1>15 DEF PresenceNext

\* The invariant holds in every reachable state.
THEOREM PresenceInvariance == PresenceSpec => []PresenceInv
<1> QED BY PresenceStart, PresenceStep, PTL DEF PresenceSpec

\* Presence's state keeps its type, for any pages and connections.
THEOREM PresenceTypeCorrect == PresenceSpec => []PresenceTypeOK
<1>1. PresenceInv => PresenceTypeOK BY DEF PresenceInv
<1> QED BY <1>1, PresenceInvariance, PTL

\* For any number of pages and connections, the stored status is that of the
\* connections when every update is stored, but for overlaps (markOnline).
THEOREM StatusIsStored == PresenceSpec => []StatusUnlessOverlapped
<1>1. PresenceInv => StatusUnlessOverlapped
  BY DEF PresenceInv, Stored, StatusUnlessOverlapped
<1> QED BY <1>1, PresenceInvariance, PTL

\* For any number of them, a contact who missed nothing sees what is stored
\* and is to be seen (broadcastPresence, getPermanentRooms, Sidebar).
THEOREM SidebarIsRight == PresenceSpec => []SidebarUnlessMissed
<1>1. PresenceInv => SidebarUnlessMissed
  <2> SUFFICES ASSUME PresenceInv, \A j \in Jobs : job[j] # "tell", ~ unaware
               PROVE  shown.on = Masked(doc)
    BY DEF SidebarUnlessMissed
  <2>1. latest = None BY DEF PresenceInv, LatestStands, PresenceTypeOK
  <2> QED BY <2>1 DEF PresenceInv, Heard
<1> QED BY <1>1, PresenceInvariance, PTL
===============================================================================
