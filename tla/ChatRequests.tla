---------------------------- MODULE ChatRequests ----------------------------
(***************************************************************************)
(* Chat requests, contacts and the deletion of accounts: the handlers of   *)
(* user.controller.js over the User, ChatRequest and permanent Room        *)
(* documents in MongoDB.  Nothing here is a transaction: each handler is a *)
(* sequence of awaited calls, and any other handler may run between two.   *)
(*                                                                         *)
(* A handler h runs a request of user by[h] about user peer[h]; at[h] is   *)
(* the call it waits for.  The calls of deleteAccount that touch messages, *)
(* files and room keys are left out, and so are notifications.             *)
(***************************************************************************)
EXTENDS Naturals, FiniteSets

CONSTANTS Users,     \* the accounts
          Handlers,  \* the requests that may run at the same time
          Rooms,     \* the ids of permanent rooms
          MaxEvents  \* bound: requests, expiries and failures

ASSUME RequestsAssumption == Users # {} /\ MaxEvents \in Nat

\* A request is known by its sender and its recipient: the index on the two
\* is unique.
Pairs == {p \in Users \X Users : p[1] # p[2]}

VARIABLES
  users,     \* the User documents
  contacts,  \* user.contacts
  requests,  \* the status of the request of each pair, none without one
  rooms,     \* room.participants, empty without a document
  at,        \* the awaited call of each handler
  by,        \* req.user
  peer,      \* the other user of the request
  batch,     \* the rooms a deleteAccount has found
  lost,      \* handlers that hold a request another one has deleted
  closing,   \* users whose deletion was begun (history)
  met,       \* those it met another handler about them (history)
  raced,     \* two users with two handlers between them at once (history)
  reopened,  \* two users whose accepted request was undone (history)
  dropped,   \* contacts removed by their owner (history)
  events     \* requests, expiries and failures so far

docs == <<users, contacts, requests, rooms>>
args == <<by, peer, batch, lost>>
handlers == <<at, args>>
history == <<closing, met, raced, reopened, dropped>>
vars == <<docs, handlers, history, events>>

SendPcs == {"findExisting", "createRequest"}
AcceptPcs == {"createRoom", "addMine", "addTheirs", "saveAccepted"}
DeletePcs == {"findRooms", "deleteRooms", "pullContacts", "deleteRequests",
              "deleteUser"}
Pcs == {"idle", "addContact", "saveRejected"} \cup SendPcs \cup AcceptPcs
         \cup DeletePcs

Init ==
  /\ users = Users
  /\ contacts = [u \in Users |-> {}]
  /\ requests = [p \in Pairs |-> "none"]
  /\ rooms = [r \in Rooms |-> {}]
  /\ at = [h \in Handlers |-> "idle"]
  /\ by \in [Handlers -> {CHOOSE u \in Users : TRUE}]
  /\ peer = by
  /\ batch = [h \in Handlers |-> {}] /\ lost = {}
  /\ closing = {} /\ met = {} /\ raced = {} /\ reopened = {} /\ dropped = {}
  /\ events = 0

-----------------------------------------------------------------------------
Event == events < MaxEvents /\ events' = events + 1
Go(h, pc) == at' = [at EXCEPT ![h] = pc]

Both(h) == {by[h], peer[h]}
Busy == {h \in Handlers : at[h] # "idle"}
Deleting(u) == \E h \in Busy : at[h] \in DeletePcs /\ by[h] = u

\* A request of u about w begins: verifyJWT has found u.
Begin(h, u, w, pc) ==
  /\ Event
  /\ u \in users /\ at[h] = "idle"
  /\ Go(h, pc)
  /\ by' = [by EXCEPT ![h] = u]
  /\ peer' = [peer EXCEPT ![h] = w]
  /\ lost' = lost \ {h}
  /\ met' = met \cup {v \in {u, w} : Deleting(v)}
  /\ raced' = IF \E g \in Busy : at[g] \notin DeletePcs /\ Both(g) = {u, w}
              THEN raced \cup {{u, w}} ELSE raced

Active(p) == requests[p] \in {"pending", "accepted"}

-----------------------------------------------------------------------------
(* sendChatRequest.                                                        *)

\* findById finds the recipient; 404 otherwise.
Send(h, u, w) ==
  /\ w \in users \ {u}
  /\ Begin(h, u, w, "findExisting")
  /\ UNCHANGED <<docs, batch, closing, reopened, dropped>>

\* Mutation: only a request in the same direction is a duplicate.
FindExistingOneWay(h) ==
  /\ at[h] = "findExisting"
  /\ Go(h, IF Active(<<by[h], peer[h]>>) THEN "idle" ELSE "createRequest")
  /\ UNCHANGED <<docs, args, history, events>>

\* 409 when a request in either direction is pending or accepted.
FindExisting(h) ==
  /\ at[h] = "findExisting"
  /\ Go(h, IF \E p \in Pairs : {p[1], p[2]} = Both(h) /\ Active(p)
           THEN "idle" ELSE "createRequest")
  /\ UNCHANGED <<docs, args, history, events>>

\* A rejected request in the same direction is a duplicate key: 409.
CreateRequest(h) ==
  /\ at[h] = "createRequest"
  /\ requests' = [requests EXCEPT ![<<by[h], peer[h]>>] =
                    IF @ = "none" THEN "pending" ELSE @]
  /\ Go(h, "idle")
  /\ UNCHANGED <<users, contacts, rooms, args, history, events>>

-----------------------------------------------------------------------------
(* acceptChatRequest and rejectChatRequest, of u for a request from w.     *)

\* Mutation: a request that was answered may be accepted again.
AcceptAnytime(h, u, w) ==
  /\ u # w /\ requests[<<w, u>>] # "none"
  /\ Begin(h, u, w, "createRoom")
  /\ UNCHANGED <<docs, batch, closing, reopened, dropped>>

\* 404 without the request, 409 once it was answered.
Accept(h, u, w) ==
  /\ u # w /\ requests[<<w, u>>] = "pending"
  /\ Begin(h, u, w, "createRoom")
  /\ UNCHANGED <<docs, batch, closing, reopened, dropped>>

\* Mutation: the room has the sender for its only participant.
CreateRoomOfSender(h) ==
  /\ at[h] = "createRoom"
  /\ \E r \in Rooms : rooms[r] = {} /\ rooms' = [rooms EXCEPT ![r] = {peer[h]}]
  /\ Go(h, "addMine")
  /\ UNCHANGED <<users, contacts, requests, args, history, events>>

\* Room.create, unconditionally.
CreateRoom(h) ==
  /\ at[h] = "createRoom"
  /\ \E r \in Rooms : rooms[r] = {} /\ rooms' = [rooms EXCEPT ![r] = Both(h)]
  /\ Go(h, "addMine")
  /\ UNCHANGED <<users, contacts, requests, args, history, events>>

\* findByIdAndUpdate with $addToSet changes nothing when the user is gone.
AddTo(u, w) ==
  contacts' = IF u \in users THEN [contacts EXCEPT ![u] = @ \cup {w}]
                             ELSE contacts

\* Mutation: the request is answered before the sender has the contact.
AddMineAndSave(h) ==
  /\ at[h] = "addMine"
  /\ AddTo(by[h], peer[h])
  /\ requests' = IF h \in lost THEN requests
                 ELSE [requests EXCEPT ![<<peer[h], by[h]>>] = "accepted"]
  /\ Go(h, "addTheirs")
  /\ dropped' = dropped \ {<<by[h], peer[h]>>}
  /\ UNCHANGED <<users, rooms, by, peer, batch, lost, closing, met, raced,
                 reopened, events>>

AddMine(h) ==
  /\ at[h] = "addMine"
  /\ AddTo(by[h], peer[h])
  /\ Go(h, "addTheirs")
  /\ dropped' = dropped \ {<<by[h], peer[h]>>}
  /\ UNCHANGED <<users, requests, rooms, args, closing, met, raced,
                 reopened, events>>

AddTheirs(h) ==
  /\ at[h] = "addTheirs"
  /\ AddTo(peer[h], by[h])
  /\ Go(h, "saveAccepted")
  /\ dropped' = dropped \ {<<peer[h], by[h]>>}
  /\ UNCHANGED <<users, requests, rooms, args, closing, met, raced,
                 reopened, events>>

\* save() of a document that is gone throws, also when the two have a new one.
Save(h, status) ==
  /\ requests' = IF h \in lost THEN requests
                 ELSE [requests EXCEPT ![<<peer[h], by[h]>>] = status]
  /\ Go(h, "idle")

SaveAccepted(h) ==
  /\ at[h] = "saveAccepted"
  /\ Save(h, "accepted")
  /\ UNCHANGED <<users, contacts, rooms, args, history, events>>

\* There is no look at the status; a request that is rejected already is
\* saved without a change.
Reject(h, u, w) ==
  /\ u # w /\ Active(<<w, u>>)
  /\ Begin(h, u, w, "saveRejected")
  /\ UNCHANGED <<docs, batch, closing, reopened, dropped>>

SaveRejected(h) ==
  /\ at[h] = "saveRejected"
  /\ Save(h, "rejected")
  /\ reopened' = IF h \notin lost /\ requests[<<peer[h], by[h]>>] = "accepted"
                 THEN reopened \cup {Both(h)} ELSE reopened
  /\ UNCHANGED <<users, contacts, rooms, args, closing, met, raced,
                 dropped, events>>

-----------------------------------------------------------------------------
(* addContact and removeContact.                                           *)

StartAddContact(h, u, w) ==
  /\ w \in users \ {u}
  /\ Begin(h, u, w, "addContact")
  /\ UNCHANGED <<docs, batch, closing, reopened, dropped>>

AddContact(h) ==
  /\ at[h] = "addContact"
  /\ AddTo(by[h], peer[h])
  /\ Go(h, "idle")
  /\ UNCHANGED <<users, requests, rooms, args, history, events>>

RemoveContact(u, w) ==
  /\ Event
  /\ u \in users /\ w \in contacts[u]
  /\ contacts' = [contacts EXCEPT ![u] = @ \ {w}]
  /\ dropped' = dropped \cup {<<u, w>>}
  /\ UNCHANGED <<users, requests, rooms, handlers, closing, met, raced,
                 reopened>>

-----------------------------------------------------------------------------
(* deleteAccount.                                                          *)

About(u) == {h \in Busy : u \in Both(h) /\ at[h] \notin DeletePcs}

\* The password is right.
DeleteAccount(h, u) ==
  /\ Event
  /\ u \in users /\ at[h] = "idle"
  /\ Go(h, "findRooms")
  /\ by' = [by EXCEPT ![h] = u]
  /\ peer' = [peer EXCEPT ![h] = u]
  /\ lost' = lost \ {h}
  /\ closing' = closing \cup {u}
  /\ met' = IF About(u) # {} THEN met \cup {u} ELSE met
  /\ UNCHANGED <<docs, batch, raced, reopened, dropped>>

\* Without rooms the handler goes on with the contacts.
FindRooms(h) ==
  /\ at[h] = "findRooms"
  /\ LET found == {r \in Rooms : by[h] \in rooms[r]} IN
       /\ batch' = [batch EXCEPT ![h] = found]
       /\ Go(h, IF found = {} THEN "pullContacts" ELSE "deleteRooms")
  /\ UNCHANGED <<docs, by, peer, lost, history, events>>

\* The model gives the ids of deleted rooms to later ones, so they leave the
\* other batches too.
DeleteRooms(h) ==
  /\ at[h] = "deleteRooms"
  /\ rooms' = [r \in Rooms |-> IF r \in batch[h] THEN {} ELSE rooms[r]]
  /\ batch' = [g \in Handlers |-> batch[g] \ batch[h]]
  /\ Go(h, "pullContacts")
  /\ UNCHANGED <<users, contacts, requests, by, peer, lost, history, events>>

PullContacts(h) ==
  /\ at[h] = "pullContacts"
  /\ contacts' = [u \in Users |-> contacts[u] \ {by[h]}]
  /\ Go(h, "deleteRequests")
  /\ UNCHANGED <<users, requests, rooms, args, history, events>>

\* The handlers that have loaded one of the requests.
Answering(u) == {g \in About(u) : at[g] \in AcceptPcs \cup {"saveRejected"}}

\* Mutation: the requests the user was sent stay.
DeleteRequestsSent(h) ==
  /\ at[h] = "deleteRequests"
  /\ requests' = [p \in Pairs |-> IF p[1] = by[h] THEN "none" ELSE requests[p]]
  /\ lost' = lost \cup {g \in Answering(by[h]) : peer[g] = by[h]}
  /\ Go(h, "deleteUser")
  /\ UNCHANGED <<users, contacts, rooms, by, peer, batch, history, events>>

DeleteRequests(h) ==
  /\ at[h] = "deleteRequests"
  /\ requests' = [p \in Pairs |-> IF by[h] \in {p[1], p[2]} THEN "none"
                                                            ELSE requests[p]]
  /\ lost' = lost \cup Answering(by[h])
  /\ Go(h, "deleteUser")
  /\ UNCHANGED <<users, contacts, rooms, by, peer, batch, history, events>>

\* The account goes last: a deletion that failed half way may be repeated.
DeleteUser(h) ==
  /\ at[h] = "deleteUser"
  /\ users' = users \ {by[h]}
  /\ contacts' = [contacts EXCEPT ![by[h]] = {}]
  /\ Go(h, "idle")
  /\ UNCHANGED <<requests, rooms, args, history, events>>

-----------------------------------------------------------------------------
\* The TTL index removes a request seven days after it was sent, answered or
\* not; no handler is in flight for that long.
Expire(p) ==
  /\ Event
  /\ requests[p] # "none" /\ \A h \in Busy : Both(h) # {p[1], p[2]}
  /\ requests' = [requests EXCEPT ![p] = "none"]
  /\ reopened' = IF requests[p] = "accepted" THEN reopened \cup {{p[1], p[2]}}
                                             ELSE reopened
  /\ UNCHANGED <<users, contacts, rooms, handlers, closing, met, raced,
                 dropped>>

\* A call throws and the handler answers 500.
Abort(h) ==
  /\ Event
  /\ at[h] # "idle"
  /\ Go(h, "idle")
  /\ batch' = [batch EXCEPT ![h] = {}]
  /\ reopened' = IF at[h] \in AcceptPcs \ {"createRoom"}
                 THEN reopened \cup {Both(h)} ELSE reopened
  /\ UNCHANGED <<docs, by, peer, lost, closing, met, raced, dropped>>

Request(h, u, w) ==
  \/ Send(h, u, w) \/ Accept(h, u, w) \/ Reject(h, u, w)
  \/ StartAddContact(h, u, w)
RequestStep(h) == FindExisting(h) \/ CreateRequest(h)
AnswerStep(h) ==
  \/ CreateRoom(h) \/ AddMine(h) \/ AddTheirs(h) \/ SaveAccepted(h)
  \/ SaveRejected(h) \/ AddContact(h)
DeleteStep(h) ==
  \/ FindRooms(h) \/ DeleteRooms(h) \/ PullContacts(h) \/ DeleteRequests(h)
  \/ DeleteUser(h)

Next ==
  \/ \E h \in Handlers :
       \/ \E u, w \in Users : Request(h, u, w)
       \/ \E u \in Users : DeleteAccount(h, u)
       \/ RequestStep(h) \/ AnswerStep(h) \/ DeleteStep(h) \/ Abort(h)
  \/ \E u, w \in Users : RemoveContact(u, w)
  \/ \E p \in Pairs : Expire(p)

Spec == Init /\ [][Next]_vars

-----------------------------------------------------------------------------
(* Properties.                                                             *)

Twos == {{p[1], p[2]} : p \in Pairs}

TypeOK ==
  /\ users \subseteq Users /\ contacts \in [Users -> SUBSET Users]
  /\ requests \in [Pairs -> {"none", "pending", "accepted", "rejected"}]
  /\ rooms \in [Rooms -> Twos \cup {{}}]
  /\ at \in [Handlers -> Pcs]
  /\ by \in [Handlers -> Users] /\ peer \in [Handlers -> Users]
  /\ batch \in [Handlers -> SUBSET Rooms] /\ lost \subseteq Handlers
  /\ closing \subseteq Users /\ met \subseteq Users
  /\ raced \subseteq Twos /\ reopened \subseteq Twos /\ dropped \subseteq Pairs
  /\ events \in Nat

\* An accepted request has all that comes with it: a room, and each of the two
\* among the contacts of the other unless removed from them since.  Wherever
\* an accept fails, and whatever runs beside it, the status is the last to say
\* so; a deletion of one of the two begins to take it apart.
AcceptedIsComplete ==
  \A p \in Pairs :
    requests[p] = "accepted" /\ p[1] \notin closing /\ p[2] \notin closing =>
      /\ \E r \in Rooms : rooms[r] = {p[1], p[2]}
      /\ p[2] \in contacts[p[1]] \/ p \in dropped
      /\ p[1] \in contacts[p[2]] \/ <<p[2], p[1]>> \in dropped

\* Of two people only one has a request to the other that is pending or
\* accepted, unless two handlers between them overlapped.
OneRequestUnlessRaced ==
  \A p \in Pairs :
    {p[1], p[2]} \notin raced => ~ (Active(p) /\ Active(<<p[2], p[1]>>))

\* Two people have one conversation, the one getPublicProfile finds, unless
\* handlers between them overlapped, one of them was deleting the account
\* beside a handler about the two, an accept failed half way, or an accepted
\* request was rejected or expired.
OneRoomUnlessReopened ==
  \A r, q \in Rooms :
    rooms[r] = rooms[q] /\ rooms[r] \notin raced \cup reopened \cup {{}} =>
      r = q \/ rooms[r] \cap met # {}

\* When an account is gone nothing refers to it any more, also when deleting
\* it took several attempts, unless a handler about that user was in flight
\* beside the deletion.
DeletedLeaveNothing ==
  \A u \in Users \ (users \cup met) :
    /\ \A r \in Rooms : u \notin rooms[r]
    /\ \A p \in Pairs : u \in {p[1], p[2]} => requests[p] = "none"
    /\ \A v \in Users : u \notin contacts[v]
=============================================================================
