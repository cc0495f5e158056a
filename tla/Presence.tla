------------------------------ MODULE Presence ------------------------------
(***************************************************************************)
(* The online status of one account user, from its connections to what a   *)
(* contact's sidebar shows: the handshake and the connection handler       *)
(* (socket/index.js), markOnline and update_online (notif.handler.js), the *)
(* preference of updateMe (user.controller.js), the list of conversations  *)
(* (room.controller.js), and the web client's socket, shell, store and     *)
(* sidebar.                                                                *)
(*                                                                         *)
(* An update of the document and the event about it are two steps: other   *)
(* handlers' updates and events come between them, and updates of one      *)
(* connection that nobody awaits are stored in any order.                  *)
(***************************************************************************)
EXTENDS Naturals

CONSTANTS Pages,      \* the user's open pages: tabs and devices
          Conns,      \* connections; bound: each is made once
          None,
          MaxMishaps  \* bound: edits, failures and lost watchers

ASSUME PresenceAssumption ==
  MaxMishaps \in Nat /\ None \notin Conns \X {"online", "offline"}

VARIABLES
  token,     \* the access token a page's socket was made with: live or old
  conn,      \* the connection a page has
  at,        \* how far the server is with each connection: up with the
             \* user's id, or as a guest
  hello,     \* those whose update_online is on its way
  job,       \* the status updates of each connection
  snap,      \* the preference and contact each update returned
  doc,       \* the user document: isOnline, showOnlineStatus, contacts
  watching,  \* the contact's page is connected
  shown,     \* what the contact's sidebar shows, and whether an event or
             \* the list of conversations said so
  answer,    \* the list on its way, and whether it is still right
  latest,    \* the update stored last, until it is told (history)
  clean,     \* it was about the connections there are (history)
  unaware,   \* the contact does not know of the last change (history)
  mishaps

handlers == <<at, hello, job, snap>>
viewer == <<watching, shown, answer>>
presence ==
  <<token, conn, handlers, doc, viewer, latest, clean, unaware, mishaps>>

\* The updates a connection makes: markOnline(true) and update_online, and
\* markOnline(false).
Jobs == Conns \X {"online", "offline"}

\* Nothing said: nobody is shown as online.
Nothing == [by |-> "none", on |-> FALSE]

PresenceInit ==
  /\ token = [p \in Pages |-> "live"]
  /\ conn = [p \in Pages |-> None]
  /\ at = [c \in Conns |-> "unused"]
  /\ hello = {}
  /\ job = [j \in Jobs |-> "none"]
  /\ snap = [j \in Jobs |-> None]
  /\ doc = [online |-> FALSE, show |-> TRUE, contact |-> TRUE]
  /\ watching = TRUE /\ shown = Nothing /\ answer = None
  /\ latest = None /\ clean = TRUE /\ unaware = FALSE
  /\ mishaps = 0

Mishap == mishaps < MaxMishaps /\ mishaps' = mishaps + 1
Issue(j) == job' = [job EXCEPT ![j] = "update"]

\* The connections the account really has.
Present == {c \in Conns : at[c] = "up"}

\* Mutation: what is not shown is left out.
MaskedByOmission(d) == IF d.show THEN d.online ELSE None

\* What others are to see of a document: never online when the user does not
\* show it.
Masked(d) == d.online /\ d.show

\* setOnline: what an event says replaces all else.
Told(on) == shown' = [by |-> "event", on |-> on]

\* A list is shown where no event has said anything.
Listed(on) ==
  shown' = IF shown.by = "event" THEN shown ELSE [by |-> "list", on |-> on]

\* A list on its way is no longer right.
Outdated == IF answer = None THEN None ELSE [answer EXCEPT !.right = FALSE]

-----------------------------------------------------------------------------
\* A page connects or reconnects with the token its socket was made with.
\* With one that has expired it is a guest, whose handlers are registered at
\* once; an account's wait for setSocketUser.
Connect(p, c) ==
  /\ conn[p] = None /\ at[c] = "unused"
  /\ conn' = [conn EXCEPT ![p] = c]
  /\ at' = [at EXCEPT ![c] = IF token[p] = "live" THEN "setup"
                             ELSE "guest"]
  /\ hello' = hello \cup {c}
  /\ UNCHANGED <<token, job, snap, doc, viewer, latest, clean, unaware,
                 mishaps>>

\* The handlers are registered and the user is marked online, also when the
\* connection has closed meanwhile.
Register(c) ==
  /\ at[c] \in {"setup", "lost"}
  /\ at' = [at EXCEPT ![c] = IF at[c] = "setup" THEN "up" ELSE "gone"]
  /\ Issue(<<c, "online">>)
  /\ UNCHANGED <<token, conn, hello, snap, doc, viewer, latest, clean,
                 unaware, mishaps>>

\* update_online arrives.  Before the handlers are registered nobody hears
\* it, and a guest's changes nothing.  It stores and tells what the update of
\* the connection itself does, and is taken after that one.
UpdateOnline(c) ==
  /\ c \in hello /\ at[c] \in {"setup", "up", "guest"}
  /\ job[<<c, "online">>] = "none"
  /\ hello' = hello \ {c}
  /\ IF c \in Present THEN Issue(<<c, "online">>) ELSE UNCHANGED job
  /\ UNCHANGED <<token, conn, at, snap, doc, viewer, latest, clean,
                 unaware, mishaps>>

\* A page is closed or loses the network; the server does not know yet.
Leave(p) ==
  /\ conn[p] # None
  /\ conn' = [conn EXCEPT ![p] = None]
  /\ UNCHANGED <<token, handlers, doc, viewer, latest, clean, unaware,
                 mishaps>>

\* Mutation: only a page that says good-bye is marked offline.
DisconnectUnheard(c) ==
  /\ at[c] \in {"setup", "up", "guest"} /\ \A p \in Pages : conn[p] # c
  /\ at' = [at EXCEPT ![c] = IF at[c] = "setup" THEN "lost" ELSE "gone"]
  /\ hello' = hello \ {c}
  /\ UNCHANGED <<token, conn, job, snap, doc, viewer, latest, clean,
                 unaware, mishaps>>

\* The server notices.  A handler that is not registered is not called.
Disconnect(c) ==
  /\ at[c] \in {"setup", "up", "guest"} /\ \A p \in Pages : conn[p] # c
  /\ at' = [at EXCEPT ![c] = IF at[c] = "setup" THEN "lost" ELSE "gone"]
  /\ hello' = hello \ {c}
  /\ IF c \in Present THEN Issue(<<c, "offline">>) ELSE UNCHANGED job
  /\ UNCHANGED <<token, conn, snap, doc, viewer, latest, clean, unaware,
                 mishaps>>

\* Access tokens expire, and the page keeps the one its socket was made with:
\* also when a request of it has brought a new one.
Expire(p) ==
  /\ conn[p] # None
  /\ token[p] = "live" /\ token' = [token EXCEPT ![p] = "old"]
  /\ UNCHANGED <<conn, handlers, doc, viewer, latest, clean, unaware, mishaps>>

\* A page loaded anew asks who it is, refreshes its tokens for that, and makes
\* a new socket.
Reload(p) ==
  /\ conn[p] = None
  /\ token[p] = "old" /\ token' = [token EXCEPT ![p] = "live"]
  /\ UNCHANGED <<conn, handlers, doc, viewer, latest, clean, unaware, mishaps>>
-----------------------------------------------------------------------------
\* findByIdAndUpdate stores the status and returns the document.
Update(j) ==
  /\ job[j] = "update"
  /\ job' = [job EXCEPT ![j] = "tell"]
  /\ doc' = [doc EXCEPT !.online = j[2] = "online"]
  /\ snap' = [snap EXCEPT ![j] = [show |-> doc.show, contact |-> doc.contact]]
  /\ latest' = j
  /\ clean' = IF j[2] = "offline" THEN Present = {} ELSE j[1] \in Present
  /\ answer' = Outdated
  /\ UNCHANGED <<token, conn, at, hello, watching, shown, unaware, mishaps>>

\* The update fails, and nobody is told.
UpdateFails(j) ==
  /\ Mishap
  /\ job[j] = "update" /\ job' = [job EXCEPT ![j] = "none"]
  /\ clean' = FALSE
  /\ UNCHANGED <<token, conn, at, hello, snap, doc, viewer, latest, unaware>>

\* Mutation: the status is sent as it is.
BroadcastUnmasked(j) ==
  LET told == snap[j].contact /\ watching IN
  /\ job[j] = "tell" /\ job' = [job EXCEPT ![j] = "none"]
  /\ snap' = [snap EXCEPT ![j] = None]
  /\ latest' = IF j = latest THEN None ELSE latest
  /\ IF told THEN Told(j[2] = "online") ELSE UNCHANGED shown
  /\ unaware' = ~ (told /\ j = latest /\ snap[j].show = doc.show)
  /\ UNCHANGED <<token, conn, at, hello, doc, watching, answer, clean,
                 mishaps>>

\* The contacts of the document the update returned are told, as its
\* preference has it.
Broadcast(j) ==
  LET told == snap[j].contact /\ watching IN
  /\ job[j] = "tell" /\ job' = [job EXCEPT ![j] = "none"]
  /\ snap' = [snap EXCEPT ![j] = None]
  /\ latest' = IF j = latest THEN None ELSE latest
  /\ IF told THEN Told(j[2] = "online" /\ snap[j].show) ELSE UNCHANGED shown
  /\ unaware' = ~ (told /\ j = latest /\ snap[j].show = doc.show)
  /\ UNCHANGED <<token, conn, at, hello, doc, watching, answer, clean,
                 mishaps>>

\* The user shows the status or hides it: nobody is told.
UpdateMe ==
  /\ Mishap
  /\ doc' = [doc EXCEPT !.show = ~ @]
  /\ unaware' = TRUE /\ answer' = Outdated
  /\ UNCHANGED <<token, conn, handlers, watching, shown, latest, clean>>

\* The user removes the contact: the conversation stays in the list.
RemoveContact ==
  /\ Mishap
  /\ doc.contact /\ doc' = [doc EXCEPT !.contact = FALSE]
  /\ UNCHANGED <<token, conn, handlers, viewer, latest, clean, unaware>>

-----------------------------------------------------------------------------
\* The contact's page asks for the list when it goes to another path or a
\* conversation changes; the answer comes later.
GetPermanentRooms ==
  /\ answer = None
  /\ answer' = [on |-> Masked(doc), right |-> TRUE]
  /\ UNCHANGED <<token, conn, handlers, doc, watching, shown, latest, clean,
                 unaware, mishaps>>

\* The list is shown; but what an event said is shown instead if there was one.
SetDms ==
  /\ answer # None /\ answer' = None
  /\ Listed(answer.on)
  /\ unaware' = IF shown.by = "event" THEN unaware ELSE ~ answer.right
  /\ UNCHANGED <<token, conn, handlers, doc, watching, latest, clean, mishaps>>

\* The contact loses its connection, and with it events, and reconnects
\* without asking again.
StopWatching ==
  /\ Mishap
  /\ watching /\ watching' = FALSE
  /\ UNCHANGED <<token, conn, handlers, doc, shown, answer, latest, clean,
                 unaware>>
Watch ==
  /\ ~ watching /\ watching' = TRUE
  /\ UNCHANGED <<token, conn, handlers, doc, shown, answer, latest, clean,
                 unaware, mishaps>>

\* The contact's page is loaded anew: store and list are empty.
Reset ==
  /\ shown' = Nothing /\ answer' = None /\ unaware' = TRUE
  /\ watching' = TRUE
  /\ UNCHANGED <<token, conn, handlers, doc, latest, clean, mishaps>>

-----------------------------------------------------------------------------
PresenceNext ==
  \/ \E p \in Pages : Leave(p) \/ Expire(p) \/ Reload(p)
  \/ \E p \in Pages, c \in Conns : Connect(p, c)
  \/ \E c \in Conns : Register(c) \/ UpdateOnline(c) \/ Disconnect(c)
  \/ \E j \in Jobs : Update(j) \/ UpdateFails(j) \/ Broadcast(j)
  \/ UpdateMe \/ RemoveContact
  \/ GetPermanentRooms \/ SetDms \/ StopWatching \/ Watch \/ Reset

PresenceSpec == PresenceInit /\ [][PresenceNext]_presence

-----------------------------------------------------------------------------
PresenceTypeOK ==
  /\ token \in [Pages -> {"live", "old"}]
  /\ conn \in [Pages -> Conns \cup {None}]
  /\ at \in [Conns -> {"unused", "setup", "lost", "up", "guest", "gone"}]
  /\ hello \subseteq Conns
  /\ job \in [Jobs -> {"none", "update", "tell"}]
  /\ snap \in [Jobs -> [show : BOOLEAN, contact : BOOLEAN] \cup {None}]
  /\ doc \in [online : BOOLEAN, show : BOOLEAN, contact : BOOLEAN]
  /\ watching \in BOOLEAN
  /\ shown \in [by : {"none", "list", "event"}, on : BOOLEAN]
  /\ answer \in [on : BOOLEAN, right : BOOLEAN] \cup {None}
  /\ latest \in Jobs \cup {None}
  /\ clean \in BOOLEAN /\ unaware \in BOOLEAN
  /\ mishaps \in 0 .. MaxMishaps

\* When every update has been stored, the account is stored as online just
\* when a connection of it is up (notif.handler.js:71, :76), unless the update
\* stored last was the disconnect of a connection beside another one - a
\* second device, or a lost link noticed after the page was back - or the
\* arrival of one already gone, or an update failed.
StatusUnlessOverlapped ==
  (\A j \in Jobs : job[j] # "update") /\ clean
    => doc.online = (Present # {})

\* When everybody has been told, a contact sees what is stored, and of a user
\* who does not show it that it is offline, in whatever order lists and events
\* were asked for and came: unless it was not told of the last change, because
\* it was not connected, is no contact any more or the change was of the
\* preference, or events overtook each other; and then a list that is asked
\* for again does not help.
SidebarUnlessMissed ==
  (\A j \in Jobs : job[j] # "tell") /\ ~ unaware => shown.on = Masked(doc)

\* "Announce presence ... on connect and reconnect" (AppShell.jsx:33): a page
\* whose announcement has arrived is connected as the user it shows.
ReconnectIsAnnounced ==
  \A p \in Pages :
    conn[p] # None /\ conn[p] \notin hello => at[conn[p]] # "guest"
=============================================================================
