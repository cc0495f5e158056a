------------------------- MODULE ChatRequests_proofs -------------------------
(***************************************************************************)
(* ChatRequests for any users, any number of requests in flight, any stock *)
(* of room ids and any number of failures.                                 *)
(***************************************************************************)
EXTENDS ChatRequests, TLAPS

\* The steps of a request between two users.
TalkPcs == Pcs \ ({"idle"} \cup DeletePcs)

\* A request is between two users, a deletion about one.
Roles ==
  \A h \in Handlers : /\ at[h] \in TalkPcs => by[h] # peer[h]
                      /\ at[h] \in DeletePcs => by[h] = peer[h]

\* Nobody is a contact of their own.
NoSelf == \A u \in Users : u \notin contacts[u]

TypeInv == TypeOK /\ NoSelf /\ Roles

\* The initial state is typed.
LEMMA TypeInit == Init => TypeInv
BY RequestsAssumption DEF Init, TypeInv, NoSelf, Roles, TypeOK, Pcs, TalkPcs,
   SendPcs, AcceptPcs, DeletePcs

\* Two different users are two.
LEMMA IsTwo ==
  ASSUME NEW u \in Users, NEW w \in Users, u # w PROVE {u, w} \in Twos
<1>1. <<u, w>> \in Pairs /\ <<u, w>>[1] = u /\ <<u, w>>[2] = w BY DEF Pairs
<1> QED BY <1>1 DEF Twos

\* A request of u about w begins with the call pc.
Begun(h, u, w, pc) ==
  /\ u # w /\ at[h] = "idle" /\ u \in users
  /\ pc \in {"findExisting", "createRoom", "saveRejected", "addContact"}
  /\ at' = [at EXCEPT ![h] = pc]
  /\ pc \in {"findExisting", "addContact"} => w \in users
  /\ pc = "createRoom" => requests[<<w, u>>] = "pending"
  /\ pc = "saveRejected" => Active(<<w, u>>)
  /\ by' = [by EXCEPT ![h] = u] /\ peer' = [peer EXCEPT ![h] = w]
  /\ lost' = lost \ {h} /\ events' = events + 1
  /\ met' = met \cup {v \in {u, w} : Deleting(v)}
  /\ raced' = IF \E g \in Busy : at[g] \notin DeletePcs /\ Both(g) = {u, w}
              THEN raced \cup {{u, w}} ELSE raced
  /\ UNCHANGED <<users, contacts, requests, rooms, batch, closing, reopened,
                 dropped>>

LEMMA Begins ==
  ASSUME NEW h \in Handlers, NEW u \in Users, NEW w \in Users,
         Request(h, u, w)
  PROVE  \E pc : Begun(h, u, w, pc)
<1>1. CASE Send(h, u, w)
  <2>1. Begun(h, u, w, "findExisting")
    BY <1>1 DEF Begun, Send, Begin, Event, Go, docs
  <2> QED BY <2>1
<1>2. CASE Accept(h, u, w)
  <2>1. Begun(h, u, w, "createRoom")
    BY <1>2 DEF Begun, Accept, Begin, Event, Go, docs
  <2> QED BY <2>1
<1>3. CASE Reject(h, u, w)
  <2>1. Begun(h, u, w, "saveRejected")
    BY <1>3 DEF Begun, Reject, Begin, Event, Go, docs
  <2> QED BY <2>1
<1>4. CASE StartAddContact(h, u, w)
  <2>1. Begun(h, u, w, "addContact")
    BY <1>4 DEF Begun, StartAddContact, Begin, Event, Go, docs
  <2> QED BY <2>1
<1> QED BY <1>1, <1>2, <1>3, <1>4 DEF Request

\* The two users of a request that is being worked on.
LEMMA BothTwo ==
  ASSUME TypeInv, NEW h \in Handlers, at[h] \in TalkPcs
  PROVE  /\ by[h] \in Users /\ peer[h] \in Users /\ by[h] # peer[h]
         /\ Both(h) \in Twos
         /\ <<by[h], peer[h]>> \in Pairs /\ <<peer[h], by[h]>> \in Pairs
<1>1. by \in [Handlers -> Users] /\ peer \in [Handlers -> Users]
  BY DEF TypeInv, TypeOK
<1>2. by[h] # peer[h] BY DEF TypeInv, Roles
<1> QED BY <1>1, <1>2, IsTwo DEF Both, Pairs

\* The requests that are being worked on are in TalkPcs.
LEMMA Talking ==
  /\ SendPcs \cup AcceptPcs \cup {"addContact", "saveRejected"} = TalkPcs
  /\ TalkPcs \cup DeletePcs \cup {"idle"} = Pcs
  /\ "idle" \notin TalkPcs \cup DeletePcs /\ TalkPcs \cap DeletePcs = {}
BY DEF TalkPcs, Pcs, SendPcs, AcceptPcs, DeletePcs

\* The steps that change the rooms, the contacts and the requests.
LEMMA RoomsChange ==
  [Next]_vars => \/ UNCHANGED rooms
                 \/ \E h \in Handlers : CreateRoom(h) \/ DeleteRooms(h)
<1> SUFFICES ASSUME [Next]_vars, rooms' # rooms
             PROVE  \E h \in Handlers : CreateRoom(h) \/ DeleteRooms(h)
  OBVIOUS
<1>1. \A h \in Handlers : \A u, w \in Users : ~ Request(h, u, w)
  BY Begins DEF Begun
<1> QED BY <1>1 DEF Next, vars, DeleteAccount, RequestStep, FindExisting,
        CreateRequest, AnswerStep, AddMine, AddTheirs, SaveAccepted,
        SaveRejected, AddContact, DeleteStep, FindRooms, PullContacts,
        DeleteRequests, DeleteUser, Abort, RemoveContact, Expire, docs

LEMMA ContactsChange ==
  [Next]_vars =>
    \/ UNCHANGED <<contacts, dropped>>
    \/ \E h \in Handlers : \/ AddMine(h) \/ AddTheirs(h) \/ AddContact(h)
                           \/ PullContacts(h) \/ DeleteUser(h)
    \/ \E u, w \in Users : RemoveContact(u, w)
<1> SUFFICES ASSUME [Next]_vars,
                    \A h \in Handlers :
                      ~ (\/ AddMine(h) \/ AddTheirs(h) \/ AddContact(h)
                         \/ PullContacts(h) \/ DeleteUser(h)),
                    \A u, w \in Users : ~ RemoveContact(u, w)
             PROVE  UNCHANGED <<contacts, dropped>>
  OBVIOUS
<1>1. ASSUME NEW h \in Handlers, NEW u \in Users, NEW w \in Users,
             Request(h, u, w)
      PROVE  UNCHANGED <<contacts, dropped>>
  BY <1>1, Begins DEF Begun
<1> QED BY <1>1 DEF Next, vars, DeleteAccount, RequestStep, FindExisting,
        CreateRequest, AnswerStep, CreateRoom, SaveAccepted, SaveRejected,
        DeleteStep, FindRooms, DeleteRooms, DeleteRequests, Abort, Expire,
        docs, history

LEMMA RequestsChange ==
  [Next]_vars =>
    \/ UNCHANGED requests
    \/ \E h \in Handlers : \/ CreateRequest(h) \/ SaveAccepted(h)
                           \/ SaveRejected(h) \/ DeleteRequests(h)
    \/ \E p \in Pairs : Expire(p)
<1> SUFFICES ASSUME [Next]_vars, requests' # requests
             PROVE  \/ \E h \in Handlers :
                         \/ CreateRequest(h) \/ SaveAccepted(h)
                         \/ SaveRejected(h) \/ DeleteRequests(h)
                    \/ \E p \in Pairs : Expire(p)
  OBVIOUS
<1>1. \A h \in Handlers : \A u, w \in Users : ~ Request(h, u, w)
  BY Begins DEF Begun
<1> QED BY <1>1 DEF Next, vars, DeleteAccount, RequestStep, FindExisting,
        AnswerStep, CreateRoom, AddMine, AddTheirs, AddContact, DeleteStep,
        FindRooms, DeleteRooms, PullContacts, DeleteUser, Abort,
        RemoveContact, docs

\* A handler moves by its own steps only.
LEMMA HandlerMoves ==
  ASSUME TypeInv, [Next]_vars, NEW g \in Handlers
  PROVE  \/ at'[g] = at[g] /\ by'[g] = by[g] /\ peer'[g] = peer[g]
         \/ \E u, w \in Users : Request(g, u, w)
         \/ \E u \in Users : DeleteAccount(g, u)
         \/ RequestStep(g) \/ AnswerStep(g) \/ DeleteStep(g) \/ Abort(g)
<1> DEFINE Same == at'[g] = at[g] /\ by'[g] = by[g] /\ peer'[g] = peer[g]
<1>t. /\ at \in [Handlers -> Pcs]
      /\ by \in [Handlers -> Users] /\ peer \in [Handlers -> Users]
  BY DEF TypeInv, TypeOK
<1>1. ASSUME NEW h \in Handlers, h # g, NEW u \in Users, NEW w \in Users,
             Request(h, u, w)
      PROVE  Same
  <2>1. PICK pc : Begun(h, u, w, pc) BY <1>1, Begins
  <2> QED BY <1>t, <1>1, <2>1 DEF Begun
<1>2. ASSUME NEW h \in Handlers, h # g, NEW u \in Users, DeleteAccount(h, u)
      PROVE  Same
  BY <1>t, <1>2 DEF DeleteAccount, Go
<1>3. ASSUME NEW h \in Handlers, h # g,
             RequestStep(h) \/ AnswerStep(h) \/ DeleteStep(h) \/ Abort(h)
      PROVE  Same
  BY <1>t, <1>3 DEF RequestStep, FindExisting, CreateRequest, AnswerStep,
     CreateRoom, AddMine, AddTheirs, SaveAccepted, SaveRejected, Save,
     AddContact, DeleteStep, FindRooms, DeleteRooms, PullContacts,
     DeleteRequests, DeleteUser, Abort, Go, args
<1>4. CASE UNCHANGED handlers BY <1>4 DEF handlers, args
<1>5. ASSUME NEW u \in Users, NEW w \in Users, RemoveContact(u, w)
      PROVE  UNCHANGED handlers
  BY <1>5 DEF RemoveContact
<1>6. ASSUME NEW p \in Pairs, Expire(p) PROVE UNCHANGED handlers
  BY <1>6 DEF Expire
<1> HIDE DEF Same
<1>7. UNCHANGED vars => UNCHANGED handlers BY DEF vars
<1> QED BY <1>1, <1>2, <1>3, <1>4, <1>5, <1>6, <1>7 DEF Next, Same

\* A user is gone when a deletion has got there.
LEMMA UsersChange ==
  [Next]_vars => UNCHANGED users \/ \E h \in Handlers : DeleteUser(h)
<1>1. ASSUME NEW h \in Handlers, NEW u \in Users, NEW w \in Users,
             Request(h, u, w)
      PROVE  UNCHANGED users
  BY <1>1, Begins DEF Begun
<1> QED BY <1>1 DEF Next, vars, DeleteAccount, RequestStep, FindExisting,
        CreateRequest, AnswerStep, CreateRoom, AddMine, AddTheirs,
        SaveAccepted, SaveRejected, AddContact, DeleteStep, FindRooms,
        DeleteRooms, PullContacts, DeleteRequests, Abort, RemoveContact,
        Expire, docs

\* What the histories of deletions, overlaps and undone requests say stays.
LEMMA HistoryGrows ==
  [Next]_vars => /\ closing \subseteq closing' /\ met \subseteq met'
                 /\ raced \subseteq raced' /\ reopened \subseteq reopened'
<1> SUFFICES ASSUME [Next]_vars
             PROVE  /\ closing \subseteq closing' /\ met \subseteq met'
                    /\ raced \subseteq raced' /\ reopened \subseteq reopened'
  OBVIOUS
<1>1. ASSUME NEW h \in Handlers, NEW u \in Users, NEW w \in Users,
             Request(h, u, w)
      PROVE  /\ closing \subseteq closing' /\ met \subseteq met'
             /\ raced \subseteq raced' /\ reopened \subseteq reopened'
  BY <1>1, Begins DEF Begun
<1> QED BY <1>1 DEF Next, vars, DeleteAccount, RequestStep, FindExisting,
        CreateRequest, AnswerStep, CreateRoom, AddMine, AddTheirs,
        SaveAccepted, SaveRejected, AddContact, DeleteStep, FindRooms,
        DeleteRooms, PullContacts, DeleteRequests, DeleteUser, Abort,
        RemoveContact, Expire, history

\* Every step keeps the variables in their sets.
LEMMA TypeOKStep == TypeInv /\ [Next]_vars => TypeOK'
<1> SUFFICES ASSUME TypeInv, [Next]_vars PROVE TypeOK'
  OBVIOUS
<1>p. /\ SendPcs \cup AcceptPcs \cup DeletePcs \subseteq Pcs
      /\ {"idle", "addContact", "saveRejected", "findExisting", "createRoom",
          "createRequest", "addMine", "addTheirs", "saveAccepted",
          "findRooms", "deleteRooms", "pullContacts", "deleteRequests",
          "deleteUser"} \subseteq Pcs
  BY DEF Pcs, SendPcs, AcceptPcs, DeletePcs
<1>t. TypeOK BY DEF TypeInv
<1> USE <1>p DEF TypeOK, Go
<1>1. ASSUME NEW h \in Handlers, NEW u \in Users, NEW w \in Users,
             Request(h, u, w)
      PROVE  TypeOK'
  <2>1. PICK pc : Begun(h, u, w, pc) BY <1>1, Begins
  <2>2. {u, w} \in Twos BY <2>1, IsTwo DEF Begun
  <2>3. at' \in [Handlers -> Pcs] BY <1>t, <2>1 DEF Begun
  <2>4. raced' \subseteq Twos BY <1>t, <2>1, <2>2 DEF Begun
  <2> QED BY <1>t, <2>1, <2>3, <2>4 DEF Begun
<1>2. ASSUME NEW h \in Handlers, NEW u \in Users, DeleteAccount(h, u)
      PROVE  TypeOK'
  BY <1>t, <1>2 DEF DeleteAccount, Event, docs
<1>3. ASSUME NEW h \in Handlers, RequestStep(h) PROVE TypeOK'
  <2>1. CASE FindExisting(h)
    BY <1>t, <2>1 DEF FindExisting, docs, args, history
  <2>2. CASE CreateRequest(h)
    BY <1>t, <2>2 DEF CreateRequest, args, history
  <2> QED BY <1>3, <2>1, <2>2 DEF RequestStep
<1>4. ASSUME NEW h \in Handlers, AnswerStep(h) PROVE TypeOK'
  <2>1. at[h] \in TalkPcs
    BY <1>4, Talking DEF AnswerStep, CreateRoom, AddMine, AddTheirs,
       SaveAccepted, SaveRejected, AddContact, AcceptPcs
  <2>2. Both(h) \in Twos BY <2>1, BothTwo
  <2>3. CASE CreateRoom(h)
    BY <1>t, <2>2, <2>3 DEF CreateRoom, args, history
  <2>4. CASE AddMine(h) BY <1>t, <2>4 DEF AddMine, AddTo, args
  <2>5. CASE AddTheirs(h) BY <1>t, <2>5 DEF AddTheirs, AddTo, args
  <2>6. CASE SaveAccepted(h)
    BY <1>t, <2>6 DEF SaveAccepted, Save, args, history
  <2>7. CASE SaveRejected(h)
    BY <1>t, <2>2, <2>7 DEF SaveRejected, Save, args
  <2>8. CASE AddContact(h) BY <1>t, <2>8 DEF AddContact, AddTo, args, history
  <2> QED BY <1>4, <2>3, <2>4, <2>5, <2>6, <2>7, <2>8 DEF AnswerStep
<1>5. ASSUME NEW h \in Handlers, DeleteStep(h) PROVE TypeOK'
  <2>1. CASE FindRooms(h) BY <1>t, <2>1 DEF FindRooms, docs, history
  <2>2. CASE DeleteRooms(h) BY <1>t, <2>2 DEF DeleteRooms, history
  <2>3. CASE PullContacts(h) BY <1>t, <2>3 DEF PullContacts, args, history
  <2>4. CASE DeleteRequests(h)
    BY <1>t, <2>4 DEF DeleteRequests, history, Answering, About, Busy
  <2>5. CASE DeleteUser(h) BY <1>t, <2>5 DEF DeleteUser, args, history
  <2> QED BY <1>5, <2>1, <2>2, <2>3, <2>4, <2>5 DEF DeleteStep
<1>6. ASSUME NEW h \in Handlers, Abort(h) PROVE TypeOK'
  <2>1. at[h] \in AcceptPcs => Both(h) \in Twos BY BothTwo, Talking
  <2>2. reopened' \subseteq Twos BY <1>t, <1>6, <2>1 DEF Abort
  <2> QED BY <1>t, <1>6, <2>2 DEF Abort, Event, docs
<1>7. ASSUME NEW u \in Users, NEW w \in Users, RemoveContact(u, w)
      PROVE  TypeOK'
  <2>1. <<u, w>> \in Pairs BY <1>7 DEF RemoveContact, Pairs, TypeInv, NoSelf
  <2> QED BY <1>t, <1>7, <2>1 DEF RemoveContact, Event, handlers, args
<1>8. ASSUME NEW p \in Pairs, Expire(p) PROVE TypeOK'
  BY <1>t, <1>8 DEF Expire, Event, handlers, args, Twos
<1>9. CASE UNCHANGED vars
  BY <1>t, <1>9 DEF vars, docs, handlers, args, history
<1> QED BY <1>1, <1>2, <1>3, <1>4, <1>5, <1>6, <1>7, <1>8, <1>9 DEF Next

\* The contacts change for a request between two, or shrink.
LEMMA NoSelfStep == TypeInv /\ [Next]_vars => NoSelf'
<1> SUFFICES ASSUME TypeInv, [Next]_vars PROVE NoSelf'
  OBVIOUS
<1>t. NoSelf /\ contacts \in [Users -> SUBSET Users]
  BY DEF TypeInv, TypeOK
<1>1. CASE UNCHANGED contacts BY <1>t, <1>1 DEF NoSelf
<1>2. ASSUME NEW h \in Handlers, AddMine(h) \/ AddTheirs(h) \/ AddContact(h)
      PROVE  NoSelf'
  <2>1. at[h] \in TalkPcs
    BY <1>2, Talking DEF AddMine, AddTheirs, AddContact, AcceptPcs
  <2>2. by[h] # peer[h] BY <2>1, BothTwo
  <2>3. \/ AddTo(by[h], peer[h]) \/ AddTo(peer[h], by[h])
    BY <1>2 DEF AddMine, AddTheirs, AddContact
  <2> QED BY <1>t, <2>2, <2>3 DEF AddTo, NoSelf
<1>3. ASSUME NEW h \in Handlers, PullContacts(h) \/ DeleteUser(h)
      PROVE  NoSelf'
  BY <1>t, <1>3 DEF NoSelf, PullContacts, DeleteUser
<1>4. ASSUME NEW u \in Users, NEW w \in Users, RemoveContact(u, w)
      PROVE  NoSelf'
  BY <1>t, <1>4 DEF NoSelf, RemoveContact
<1> QED BY <1>1, <1>2, <1>3, <1>4, ContactsChange

\* A handler keeps its two users until it is idle again.
LEMMA RolesStep == TypeInv /\ [Next]_vars => Roles'
<1> SUFFICES ASSUME TypeInv, [Next]_vars PROVE Roles'
  OBVIOUS
<1>t. /\ Roles /\ at \in [Handlers -> Pcs]
      /\ by \in [Handlers -> Users] /\ peer \in [Handlers -> Users]
  BY DEF TypeInv, TypeOK
<1> USE <1>t DEF Roles, TalkPcs, Pcs, SendPcs, AcceptPcs, DeletePcs, Go
<1>1. ASSUME NEW h \in Handlers, NEW u \in Users, NEW w \in Users,
             Request(h, u, w)
      PROVE  Roles'
  <2>1. PICK pc : Begun(h, u, w, pc) BY <1>1, Begins
  <2> QED BY <2>1 DEF Begun
<1>2. ASSUME NEW h \in Handlers, NEW u \in Users, DeleteAccount(h, u)
      PROVE  Roles'
  BY <1>2 DEF DeleteAccount
<1>3. ASSUME NEW h \in Handlers, RequestStep(h) \/ AnswerStep(h)
      PROVE  Roles'
  BY <1>3 DEF RequestStep, FindExisting, CreateRequest, AnswerStep,
     CreateRoom, AddMine, AddTheirs, SaveAccepted, Save, SaveRejected,
     AddContact, args
<1>4. ASSUME NEW h \in Handlers, DeleteStep(h) PROVE Roles'
  BY <1>4 DEF DeleteStep, FindRooms, DeleteRooms, PullContacts,
     DeleteRequests, DeleteUser, args
<1>5. ASSUME NEW h \in Handlers, Abort(h) PROVE Roles'
  BY <1>5 DEF Abort
<1>6. CASE UNCHANGED handlers BY <1>6 DEF handlers, args
<1>7. ASSUME NEW u \in Users, NEW w \in Users, RemoveContact(u, w)
      PROVE  UNCHANGED handlers
  BY <1>7 DEF RemoveContact
<1>8. ASSUME NEW p \in Pairs, Expire(p) PROVE UNCHANGED handlers
  BY <1>8 DEF Expire
<1> QED BY <1>1, <1>2, <1>3, <1>4, <1>5, <1>6, <1>7, <1>8 DEF Next, vars

LEMMA TypeStep == TypeInv /\ [Next]_vars => TypeInv'
BY TypeOKStep, NoSelfStep, RolesStep DEF TypeInv

-----------------------------------------------------------------------------
(* An accepted request is complete.                                        *)

HasRoom(a, b) == \E r \in Rooms : rooms[r] = {a, b}
Knows(a, b) == b \in contacts[a] \/ <<a, b>> \in dropped

\* Who is being deleted was there, and a deletion removes rooms of the user's.
ClosingInv ==
  /\ Users \ closing \subseteq users
  /\ \A h \in Handlers :
       /\ at[h] \in DeletePcs => by[h] \in closing
       /\ \A r \in batch[h] : rooms[r] \cap closing # {}

\* How far an accept has come.
AcceptInv ==
  \A h \in Handlers : by[h] \notin closing /\ peer[h] \notin closing =>
    /\ at[h] \in {"addMine", "addTheirs", "saveAccepted"} =>
         HasRoom(by[h], peer[h])
    /\ at[h] \in {"addTheirs", "saveAccepted"} => Knows(by[h], peer[h])
    /\ at[h] = "saveAccepted" => Knows(peer[h], by[h])

CompleteInv == ClosingInv /\ AcceptInv /\ AcceptedIsComplete

\* No step takes a room or a contact from two whose deletion is not begun.
LEMMA Lasting ==
  ASSUME TypeInv, ClosingInv, [Next]_vars, NEW a \in Users, NEW b \in Users,
         a # b, a \notin closing', b \notin closing'
  PROVE  /\ a \notin closing /\ b \notin closing
         /\ HasRoom(a, b) => HasRoom(a, b)'
         /\ Knows(a, b) => Knows(a, b)'
<1>t. /\ contacts \in [Users -> SUBSET Users] /\ dropped \subseteq Pairs
      /\ rooms \in [Rooms -> Twos \cup {{}}]
      /\ by \in [Handlers -> Users] /\ peer \in [Handlers -> Users]
  BY DEF TypeInv, TypeOK
<1>c. a \notin closing /\ b \notin closing BY HistoryGrows
<1>u. a \in users /\ b \in users BY <1>c DEF ClosingInv
<1>1. HasRoom(a, b) => HasRoom(a, b)'
  <2> SUFFICES ASSUME NEW r \in Rooms, rooms[r] = {a, b}
               PROVE  rooms'[r] = {a, b}
    BY DEF HasRoom
  <2>1. \A h \in Handlers : r \notin batch[h] BY <1>c DEF ClosingInv
  <2>2. ASSUME NEW h \in Handlers, CreateRoom(h) PROVE rooms'[r] = {a, b}
    BY <1>t, <2>2 DEF CreateRoom
  <2>3. ASSUME NEW h \in Handlers, DeleteRooms(h) PROVE rooms'[r] = {a, b}
    BY <1>t, <2>1, <2>3 DEF DeleteRooms
  <2> QED BY <2>2, <2>3, RoomsChange
<1>2. Knows(a, b) => Knows(a, b)'
  <2> SUFFICES ASSUME Knows(a, b) PROVE Knows(a, b)'
    OBVIOUS
  <2>1. ASSUME NEW h \in Handlers, AddMine(h) PROVE Knows(a, b)'
    BY <1>t, <1>u, <2>1 DEF AddMine, AddTo, Knows
  <2>2. ASSUME NEW h \in Handlers, AddTheirs(h) PROVE Knows(a, b)'
    BY <1>t, <1>u, <2>2 DEF AddTheirs, AddTo, Knows
  <2>3. ASSUME NEW h \in Handlers, AddContact(h) PROVE Knows(a, b)'
    BY <1>t, <1>u, <2>3 DEF AddContact, AddTo, Knows, history
  <2>4. ASSUME NEW h \in Handlers, PullContacts(h) \/ DeleteUser(h)
        PROVE  Knows(a, b)'
    <3>1. by[h] \in closing
      BY <2>4 DEF ClosingInv, PullContacts, DeleteUser, DeletePcs
    <3> QED BY <1>t, <1>c, <2>4, <3>1
            DEF PullContacts, DeleteUser, Knows, history
  <2>5. ASSUME NEW u \in Users, NEW w \in Users, RemoveContact(u, w)
        PROVE  Knows(a, b)'
    BY <1>t, <2>5 DEF RemoveContact, Knows
  <2>6. CASE UNCHANGED <<contacts, dropped>> BY <2>6 DEF Knows
  <2> QED BY <2>1, <2>2, <2>3, <2>4, <2>5, <2>6, ContactsChange
<1> QED BY <1>c, <1>1, <1>2

LEMMA ClosingStep == TypeInv /\ ClosingInv /\ [Next]_vars => ClosingInv'
<1> SUFFICES ASSUME TypeInv, ClosingInv, [Next]_vars PROVE ClosingInv'
  OBVIOUS
<1>t. /\ at \in [Handlers -> Pcs] /\ by \in [Handlers -> Users]
      /\ rooms \in [Rooms -> Twos \cup {{}}]
      /\ batch \in [Handlers -> SUBSET Rooms]
      /\ at' \in [Handlers -> Pcs] /\ batch' \in [Handlers -> SUBSET Rooms]
  BY TypeStep DEF TypeInv, TypeOK
<1>g. closing \subseteq closing' BY HistoryGrows
<1>1. Users \ closing' \subseteq users'
  <2>1. ASSUME NEW h \in Handlers, DeleteUser(h)
        PROVE  Users \ closing' \subseteq users'
    BY <2>1, <1>g DEF DeleteUser, ClosingInv, DeletePcs
  <2> QED BY <1>g, <2>1, UsersChange DEF ClosingInv
<1>2. ASSUME NEW g \in Handlers, at'[g] \in DeletePcs
      PROVE  by'[g] \in closing'
  <2>1. ASSUME NEW u \in Users, NEW w \in Users, Request(g, u, w)
        PROVE  FALSE
    <3>1. PICK pc : Begun(g, u, w, pc) BY <2>1, Begins
    <3> QED BY <1>t, <1>2, <3>1 DEF Begun, DeletePcs
  <2>2. ASSUME NEW u \in Users, DeleteAccount(g, u)
        PROVE  by'[g] \in closing'
    BY <1>t, <2>2 DEF DeleteAccount
  <2>3. ~ (RequestStep(g) \/ AnswerStep(g) \/ Abort(g))
    BY <1>t, <1>2 DEF RequestStep, FindExisting, CreateRequest, AnswerStep,
       CreateRoom, AddMine, AddTheirs, SaveAccepted, SaveRejected, Save,
       AddContact, Abort, Go, DeletePcs
  <2>4. DeleteStep(g) => at[g] \in DeletePcs /\ by' = by
    BY DEF DeleteStep, FindRooms, DeleteRooms, PullContacts, DeleteRequests,
       DeleteUser, DeletePcs, args
  <2> QED BY <1>2, <1>g, <2>1, <2>2, <2>3, <2>4, HandlerMoves DEF ClosingInv
<1>3. ASSUME NEW g \in Handlers, NEW r \in batch'[g]
      PROVE  rooms'[r] \cap closing' # {}
  <2>1. ASSUME NEW h \in Handlers, FindRooms(h)
        PROVE  rooms'[r] \cap closing' # {}
    BY <1>t, <1>3, <1>g, <2>1
       DEF FindRooms, ClosingInv, docs, DeletePcs
  <2>2. ASSUME NEW h \in Handlers, DeleteRooms(h)
        PROVE  rooms'[r] \cap closing' # {}
    BY <1>t, <1>3, <1>g, <2>2 DEF DeleteRooms, ClosingInv
  <2>3. ASSUME NEW h \in Handlers, CreateRoom(h)
        PROVE  rooms'[r] \cap closing' # {}
    BY <1>t, <1>3, <1>g, <2>3 DEF CreateRoom, ClosingInv, args
  <2>4. ASSUME NEW h \in Handlers, Abort(h)
        PROVE  rooms'[r] \cap closing' # {}
    BY <1>t, <1>3, <1>g, <2>4 DEF Abort, ClosingInv, docs
  <2>5. ASSUME NEW h \in Handlers, NEW u \in Users, NEW w \in Users,
               Request(h, u, w)
        PROVE  UNCHANGED <<rooms, batch>>
    BY <2>5, Begins DEF Begun
  <2>6. \/ UNCHANGED <<rooms, batch>>
        \/ \E h \in Handlers : \/ FindRooms(h) \/ DeleteRooms(h)
                               \/ CreateRoom(h) \/ Abort(h)
    BY <2>5 DEF Next, vars, DeleteAccount, RequestStep, FindExisting,
       CreateRequest, AnswerStep, AddMine, AddTheirs, SaveAccepted,
       SaveRejected, AddContact, DeleteStep, PullContacts, DeleteRequests,
       DeleteUser, RemoveContact, Expire, docs, args, handlers
  <2> QED BY <1>3, <1>g, <2>1, <2>2, <2>3, <2>4, <2>6 DEF ClosingInv
<1> QED BY <1>1, <1>2, <1>3 DEF ClosingInv

LEMMA AcceptStep ==
  TypeInv /\ ClosingInv /\ AcceptInv /\ [Next]_vars => AcceptInv'
<1> SUFFICES ASSUME TypeInv, ClosingInv, AcceptInv, [Next]_vars,
                    NEW g \in Handlers,
                    by'[g] \notin closing', peer'[g] \notin closing',
                    at'[g] \in {"addMine", "addTheirs", "saveAccepted"}
             PROVE  /\ HasRoom(by[g], peer[g])'
                    /\ at'[g] \in {"addTheirs", "saveAccepted"} =>
                         Knows(by[g], peer[g])'
                    /\ at'[g] = "saveAccepted" => Knows(peer[g], by[g])'
  BY DEF AcceptInv
<1>t. /\ at \in [Handlers -> Pcs] /\ contacts \in [Users -> SUBSET Users]
      /\ by \in [Handlers -> Users] /\ peer \in [Handlers -> Users]
      /\ rooms \in [Rooms -> Twos \cup {{}}]
  BY DEF TypeInv, TypeOK
<1>1. /\ by'[g] = by[g] /\ peer'[g] = peer[g] /\ at[g] \in TalkPcs
      /\ \/ at'[g] = at[g] \/ CreateRoom(g) \/ AddMine(g) \/ AddTheirs(g)
  <2>1. ASSUME NEW u \in Users, NEW w \in Users, Request(g, u, w)
        PROVE  FALSE
    <3>1. PICK pc : Begun(g, u, w, pc) BY <2>1, Begins
    <3> QED BY <1>t, <3>1 DEF Begun
  <2>2. \A u \in Users : ~ DeleteAccount(g, u)
    BY <1>t DEF DeleteAccount, Go
  <2>3. ~ (RequestStep(g) \/ DeleteStep(g) \/ Abort(g))
    BY <1>t DEF RequestStep, FindExisting, CreateRequest, DeleteStep,
       FindRooms, DeleteRooms, PullContacts, DeleteRequests, DeleteUser,
       Abort, Go
  <2>4. AnswerStep(g) =>
          /\ at[g] \in TalkPcs /\ by' = by /\ peer' = peer
          /\ CreateRoom(g) \/ AddMine(g) \/ AddTheirs(g)
    BY <1>t, Talking DEF AnswerStep, CreateRoom, AddMine, AddTheirs,
       SaveAccepted, SaveRejected, Save, AddContact, Go, AcceptPcs, args
  <2>5. at[g] = at'[g] => at[g] \in TalkPcs BY Talking DEF AcceptPcs
  <2> QED BY <2>1, <2>2, <2>3, <2>4, <2>5, HandlerMoves
<1>2. PICK a \in Users, b \in Users : a = by[g] /\ b = peer[g] /\ a # b
  BY <1>1, BothTwo
<1>3. /\ a \notin closing' /\ b \notin closing'
      /\ a \notin closing /\ b \notin closing /\ a \in users /\ b \in users
  BY <1>1, <1>2, HistoryGrows DEF ClosingInv
<1>4. /\ HasRoom(a, b) => HasRoom(a, b)'
      /\ Knows(a, b) => Knows(a, b)'
      /\ Knows(b, a) => Knows(b, a)'
  BY <1>2, <1>3, Lasting
<1>5. SUFFICES /\ HasRoom(a, b)'
               /\ at'[g] \in {"addTheirs", "saveAccepted"} => Knows(a, b)'
               /\ at'[g] = "saveAccepted" => Knows(b, a)'
  BY <1>1, <1>2 DEF HasRoom, Knows
<1>6. /\ at[g] \in {"addMine", "addTheirs", "saveAccepted"} => HasRoom(a, b)
      /\ at[g] \in {"addTheirs", "saveAccepted"} => Knows(a, b)
      /\ at[g] = "saveAccepted" => Knows(b, a)
  BY <1>2, <1>3 DEF AcceptInv
<1>7. CASE at'[g] = at[g] BY <1>4, <1>6, <1>7
<1>8. CASE CreateRoom(g)
  <2>1. at'[g] = "addMine" BY <1>t, <1>8 DEF CreateRoom, Go
  <2>2. HasRoom(a, b)'
    BY <1>t, <1>2, <1>8 DEF CreateRoom, HasRoom, Both
  <2> QED BY <2>1, <2>2
<1>9. CASE AddMine(g)
  <2>1. at[g] = "addMine" /\ at'[g] = "addTheirs"
    BY <1>t, <1>9 DEF AddMine, Go
  <2>2. Knows(a, b)' BY <1>t, <1>2, <1>3, <1>9 DEF AddMine, AddTo, Knows
  <2> QED BY <1>4, <1>6, <2>1, <2>2
<1>10. CASE AddTheirs(g)
  <2>1. at[g] = "addTheirs" /\ at'[g] = "saveAccepted"
    BY <1>t, <1>10 DEF AddTheirs, Go
  <2>2. Knows(b, a)' BY <1>t, <1>2, <1>3, <1>10 DEF AddTheirs, AddTo, Knows
  <2> QED BY <1>4, <1>6, <2>1, <2>2
<1> QED BY <1>1, <1>7, <1>8, <1>9, <1>10

LEMMA AcceptedStep ==
  ASSUME TypeInv, CompleteInv, [Next]_vars PROVE AcceptedIsComplete'
<1> SUFFICES ASSUME NEW p \in Pairs, requests'[p] = "accepted",
                    p[1] \notin closing', p[2] \notin closing'
             PROVE  /\ \E r \in Rooms : rooms'[r] = {p[1], p[2]}
                    /\ p[2] \in contacts'[p[1]] \/ p \in dropped'
                    /\ p[1] \in contacts'[p[2]] \/ <<p[2], p[1]>> \in dropped'
  BY DEF AcceptedIsComplete
<1> DEFINE a == p[1]
           b == p[2]
<1>p. a \in Users /\ b \in Users /\ a # b /\ p = <<a, b>> BY DEF Pairs
<1>c. a \notin closing /\ b \notin closing BY HistoryGrows
<1>l. /\ HasRoom(a, b) => HasRoom(a, b)'
      /\ Knows(a, b) => Knows(a, b)'
      /\ Knows(b, a) => Knows(b, a)'
  BY <1>p, Lasting DEF CompleteInv
<1>s. SUFFICES HasRoom(a, b) /\ Knows(a, b) /\ Knows(b, a)
  BY <1>l, <1>p DEF HasRoom, Knows
<1>t. requests \in [Pairs -> {"none", "pending", "accepted", "rejected"}]
  BY DEF TypeInv, TypeOK
<1>1. CASE requests[p] = "accepted"
  BY <1>1, <1>c, <1>p DEF CompleteInv, AcceptedIsComplete, HasRoom, Knows
<1>2. CASE requests[p] # "accepted"
  <2>1. PICK h \in Handlers : SaveAccepted(h)
    BY <1>t, <1>2, RequestsChange
       DEF CreateRequest, SaveRejected, Save, DeleteRequests, Expire
  <2>2. at[h] = "saveAccepted" /\ <<peer[h], by[h]>> = p
    <3>1. at[h] = "saveAccepted" BY <2>1 DEF SaveAccepted
    <3>2. <<peer[h], by[h]>> \in Pairs
      BY <3>1, BothTwo, Talking DEF AcceptPcs
    <3> QED BY <1>t, <1>2, <2>1, <3>1, <3>2 DEF SaveAccepted, Save
  <2>3. peer[h] = a /\ by[h] = b BY <2>2
  <2>4. /\ HasRoom(by[h], peer[h]) /\ Knows(by[h], peer[h])
        /\ Knows(peer[h], by[h])
    BY <1>c, <2>2, <2>3 DEF CompleteInv, AcceptInv
  <2> QED BY <2>3, <2>4 DEF HasRoom, Knows
<1> QED BY <1>1, <1>2

LEMMA CompleteInit == Init => CompleteInv
BY DEF Init, CompleteInv, ClosingInv, AcceptInv, AcceptedIsComplete, DeletePcs

LEMMA CompleteStep == TypeInv /\ CompleteInv /\ [Next]_vars => CompleteInv'
BY ClosingStep, AcceptStep, AcceptedStep DEF CompleteInv

-----------------------------------------------------------------------------
(* A deleted account leaves nothing.                                       *)

NoRooms(u) == \A r \in Rooms : u \notin rooms[r]
NoContacts(u) == \A v \in Users : u \notin contacts[v]
NoRequests(u) == \A p \in Pairs : u \in {p[1], p[2]} => requests[p] = "none"

\* Nobody deals with a user who is being deleted, or gone.
AloneInv ==
  \A u \in Users \ met : Deleting(u) \/ u \notin users => About(u) = {}

\* How far a deletion has come.
ProgressInv ==
  \A h \in Handlers : by[h] \notin met =>
    /\ at[h] = "deleteRooms" =>
         \A r \in Rooms : by[h] \in rooms[r] => r \in batch[h]
    /\ at[h] \in {"pullContacts", "deleteRequests", "deleteUser"} =>
         NoRooms(by[h])
    /\ at[h] \in {"deleteRequests", "deleteUser"} => NoContacts(by[h])
    /\ at[h] = "deleteUser" => NoRequests(by[h])

DeletionInv == AloneInv /\ ProgressInv /\ DeletedLeaveNothing

\* No step refers anew to a user nobody deals with.
LEMMA Untouched ==
  ASSUME TypeInv, [Next]_vars, NEW u \in Users, About(u) = {}
  PROVE  /\ \A r \in Rooms : u \in rooms'[r] => u \in rooms[r]
         /\ NoContacts(u) => NoContacts(u)'
         /\ NoRequests(u) => NoRequests(u)'
<1>t. /\ contacts \in [Users -> SUBSET Users]
      /\ requests \in [Pairs -> {"none", "pending", "accepted", "rejected"}]
      /\ rooms \in [Rooms -> Twos \cup {{}}] /\ at \in [Handlers -> Pcs]
  BY DEF TypeInv, TypeOK
<1>a. \A h \in Handlers : at[h] \in TalkPcs => u # by[h] /\ u # peer[h]
  BY Talking DEF About, Busy, Both
<1>1. \A r \in Rooms : u \in rooms'[r] => u \in rooms[r]
  <2>1. ASSUME NEW h \in Handlers, CreateRoom(h)
        PROVE  \A r \in Rooms : u \in rooms'[r] => u \in rooms[r]
    <3>1. u \notin Both(h)
      BY <1>a, <2>1, Talking DEF CreateRoom, AcceptPcs, Both
    <3> QED BY <1>t, <2>1, <3>1 DEF CreateRoom
  <2>2. ASSUME NEW h \in Handlers, DeleteRooms(h)
        PROVE  \A r \in Rooms : u \in rooms'[r] => u \in rooms[r]
    BY <2>2 DEF DeleteRooms
  <2> QED BY <2>1, <2>2, RoomsChange
<1>2. NoContacts(u) => NoContacts(u)'
  <2> SUFFICES ASSUME NoContacts(u) PROVE NoContacts(u)'
    OBVIOUS
  <2>1. ASSUME NEW h \in Handlers, AddMine(h) \/ AddTheirs(h) \/ AddContact(h)
        PROVE  NoContacts(u)'
    <3>1. u # by[h] /\ u # peer[h]
      BY <1>a, <2>1, Talking DEF AddMine, AddTheirs, AddContact, AcceptPcs
    <3>2. AddTo(by[h], peer[h]) \/ AddTo(peer[h], by[h])
      BY <2>1 DEF AddMine, AddTheirs, AddContact
    <3> QED BY <1>t, <3>1, <3>2 DEF AddTo, NoContacts
  <2>2. ASSUME NEW h \in Handlers, PullContacts(h) \/ DeleteUser(h)
        PROVE  NoContacts(u)'
    BY <1>t, <2>2 DEF PullContacts, DeleteUser, NoContacts
  <2>3. ASSUME NEW v \in Users, NEW w \in Users, RemoveContact(v, w)
        PROVE  NoContacts(u)'
    BY <1>t, <2>3 DEF RemoveContact, NoContacts
  <2>4. CASE UNCHANGED contacts BY <2>4 DEF NoContacts
  <2> QED BY <2>1, <2>2, <2>3, <2>4, ContactsChange
<1>3. NoRequests(u) => NoRequests(u)'
  <2> SUFFICES ASSUME NoRequests(u) PROVE NoRequests(u)'
    OBVIOUS
  <2>1. ASSUME NEW h \in Handlers,
               CreateRequest(h) \/ SaveAccepted(h) \/ SaveRejected(h)
        PROVE  NoRequests(u)'
    <3>1. u # by[h] /\ u # peer[h]
      BY <1>a, <2>1, Talking
         DEF CreateRequest, SaveAccepted, SaveRejected, AcceptPcs, SendPcs
    <3>2. ASSUME NEW p \in Pairs, u \in {p[1], p[2]}
          PROVE  requests'[p] = requests[p]
      <4>1. p # <<by[h], peer[h]>> /\ p # <<peer[h], by[h]>>
        BY <3>1, <3>2
      <4> QED BY <1>t, <2>1, <4>1
              DEF CreateRequest, SaveAccepted, SaveRejected, Save
    <3> QED BY <3>2 DEF NoRequests
  <2>2. ASSUME NEW h \in Handlers, DeleteRequests(h) PROVE NoRequests(u)'
    BY <2>2 DEF DeleteRequests, NoRequests
  <2>3. ASSUME NEW p \in Pairs, Expire(p) PROVE NoRequests(u)'
    BY <1>t, <2>3 DEF Expire, NoRequests
  <2>4. CASE UNCHANGED requests BY <2>4 DEF NoRequests
  <2> QED BY <2>1, <2>2, <2>3, <2>4, RequestsChange
<1> QED BY <1>1, <1>2, <1>3

LEMMA AloneStep == TypeInv /\ DeletionInv /\ [Next]_vars => AloneInv'
<1> SUFFICES ASSUME TypeInv, DeletionInv, [Next]_vars,
                    NEW u \in Users, u \notin met',
                    Deleting(u)' \/ u \notin users',
                    NEW g \in Handlers, g \in About(u)'
             PROVE  FALSE
  BY DEF AloneInv, About, Busy
<1>t. /\ at \in [Handlers -> Pcs] /\ at' \in [Handlers -> Pcs]
      /\ by \in [Handlers -> Users] /\ peer \in [Handlers -> Users]
      /\ requests \in [Pairs -> {"none", "pending", "accepted", "rejected"}]
  BY TypeStep DEF TypeInv, TypeOK
<1>m. u \notin met BY HistoryGrows
<1>g. at'[g] \in TalkPcs /\ u \in {by'[g], peer'[g]}
  BY <1>t, Talking DEF About, Busy, Both
<1>1. CASE g \in About(u)
  <2>1. ~ Deleting(u) /\ u \in users
    BY <1>1, <1>m DEF DeletionInv, AloneInv
  <2>2. \A h \in Handlers : at[h] \in DeletePcs => by[h] # u
    BY <2>1, Talking DEF Deleting, Busy
  <2>3. u \in users'
    BY <2>1, <2>2, UsersChange DEF DeleteUser, DeletePcs
  <2>4. PICK h \in Handlers : at'[h] \in DeletePcs /\ by'[h] = u
    BY <2>3 DEF Deleting, Busy
  <2>5. ~ \E v, w \in Users : Request(h, v, w)
    <3> SUFFICES ASSUME NEW v \in Users, NEW w \in Users, Request(h, v, w)
                 PROVE  FALSE
      OBVIOUS
    <3>1. PICK pc : Begun(h, v, w, pc) BY Begins
    <3> QED BY <1>t, <2>4, <3>1 DEF Begun, DeletePcs
  <2>6. ~ (RequestStep(h) \/ AnswerStep(h) \/ Abort(h))
    BY <1>t, <2>4 DEF RequestStep, FindExisting, CreateRequest, AnswerStep,
       CreateRoom, AddMine, AddTheirs, SaveAccepted, SaveRejected, Save,
       AddContact, Abort, Go, DeletePcs
  <2>7. DeleteStep(h) => at[h] \in DeletePcs /\ by' = by
    BY DEF DeleteStep, FindRooms, DeleteRooms, PullContacts, DeleteRequests,
       DeleteUser, DeletePcs, args
  <2>8. PICK v \in Users : DeleteAccount(h, v)
    BY <2>2, <2>4, <2>5, <2>6, <2>7, HandlerMoves
  <2>9. v = u BY <1>t, <2>4, <2>8 DEF DeleteAccount
  <2> QED BY <1>1, <1>m, <2>8, <2>9 DEF DeleteAccount
<1>2. CASE g \notin About(u)
  <2>1. ~ (at[g] \in TalkPcs /\ u \in {by[g], peer[g]})
    BY <1>2, Talking DEF About, Busy, Both
  <2>2. ~ \E v \in Users : DeleteAccount(g, v)
    BY <1>t, <1>g DEF DeleteAccount, Go, TalkPcs, DeletePcs
  <2>3. RequestStep(g) \/ AnswerStep(g) =>
          at[g] \in TalkPcs /\ by' = by /\ peer' = peer
    BY Talking DEF RequestStep, FindExisting, CreateRequest, AnswerStep,
       CreateRoom, AddMine, AddTheirs, SaveAccepted, SaveRejected,
       AddContact, SendPcs, AcceptPcs, args
  <2>4. ~ (DeleteStep(g) \/ Abort(g))
    BY <1>t, <1>g DEF DeleteStep, FindRooms, DeleteRooms, PullContacts,
       DeleteRequests, DeleteUser, Abort, Go, TalkPcs, DeletePcs
  <2>5. PICK v \in Users, w \in Users : Request(g, v, w)
    BY <1>g, <2>1, <2>2, <2>3, <2>4, HandlerMoves
  <2>6. PICK pc : Begun(g, v, w, pc) BY <2>5, Begins
  <2>7. u \in {v, w} BY <1>t, <1>g, <2>6 DEF Begun
  <2>8. ~ Deleting(u) BY <1>m, <2>6, <2>7 DEF Begun
  <2>9. ~ Deleting(u)'
    <3> SUFFICES ASSUME NEW h \in Handlers, at'[h] \in DeletePcs, by'[h] = u
                 PROVE  FALSE
      BY DEF Deleting, Busy
    <3>1. h # g BY <1>g, Talking
    <3>2. at[h] \in DeletePcs /\ by[h] = u BY <1>t, <2>6, <3>1 DEF Begun
    <3> QED BY <2>8, <3>2, Talking DEF Deleting, Busy
  <2>10. u \notin users BY <2>6, <2>9 DEF Begun
  <2>11. /\ u = w /\ u # v /\ requests[<<w, v>>] # "none"
    BY <2>6, <2>7, <2>10 DEF Begun, Active
  <2>12. <<w, v>> \in Pairs /\ u \in {<<w, v>>[1], <<w, v>>[2]}
    BY <2>11 DEF Pairs
  <2> QED BY <1>m, <2>10, <2>11, <2>12 DEF DeletionInv, DeletedLeaveNothing
<1> QED BY <1>1, <1>2

LEMMA ProgressStep == TypeInv /\ DeletionInv /\ [Next]_vars => ProgressInv'
<1> DEFINE Cleared == {"pullContacts", "deleteRequests", "deleteUser"}
<1> SUFFICES ASSUME TypeInv, DeletionInv, [Next]_vars,
                    NEW g \in Handlers, by'[g] \notin met',
                    at'[g] \in {"deleteRooms"} \cup Cleared
             PROVE  /\ at'[g] = "deleteRooms" =>
                         \A r \in Rooms : by'[g] \in rooms'[r] =>
                                            r \in batch'[g]
                    /\ at'[g] \in Cleared => NoRooms(by[g])'
                    /\ at'[g] \in {"deleteRequests", "deleteUser"} =>
                         NoContacts(by[g])'
                    /\ at'[g] = "deleteUser" => NoRequests(by[g])'
  BY DEF ProgressInv
<1>t. /\ at \in [Handlers -> Pcs] /\ by \in [Handlers -> Users]
      /\ batch \in [Handlers -> SUBSET Rooms]
      /\ contacts \in [Users -> SUBSET Users]
      /\ rooms \in [Rooms -> Twos \cup {{}}]
  BY DEF TypeInv, TypeOK
<1>1. /\ by'[g] = by[g] /\ at[g] \in DeletePcs
      /\ at'[g] = at[g] \/ DeleteStep(g)
  <2>1. ~ \E v, w \in Users : Request(g, v, w)
    <3> SUFFICES ASSUME NEW v \in Users, NEW w \in Users, Request(g, v, w)
                 PROVE  FALSE
      OBVIOUS
    <3>1. PICK pc : Begun(g, v, w, pc) BY Begins
    <3> QED BY <1>t, <3>1 DEF Begun
  <2>2. ~ \E v \in Users : DeleteAccount(g, v)
    BY <1>t DEF DeleteAccount, Go
  <2>3. ~ (RequestStep(g) \/ AnswerStep(g) \/ Abort(g))
    BY <1>t DEF RequestStep, FindExisting, CreateRequest, AnswerStep,
       CreateRoom, AddMine, AddTheirs, SaveAccepted, SaveRejected, Save,
       AddContact, Abort, Go
  <2>4. DeleteStep(g) => at[g] \in DeletePcs /\ by' = by
    BY DEF DeleteStep, FindRooms, DeleteRooms, PullContacts, DeleteRequests,
       DeleteUser, DeletePcs, args
  <2>5. at'[g] = at[g] => at[g] \in DeletePcs BY DEF DeletePcs
  <2> QED BY <2>1, <2>2, <2>3, <2>4, <2>5, HandlerMoves
<1>2. PICK u \in Users : u = by[g] BY <1>t
<1>3. u \notin met BY <1>1, <1>2, HistoryGrows
<1>4. About(u) = {}
  BY <1>1, <1>2, <1>3, Talking DEF DeletionInv, AloneInv, Deleting, Busy
<1>5. /\ \A r \in Rooms : u \in rooms'[r] => u \in rooms[r]
      /\ NoRooms(u) => NoRooms(u)'
      /\ NoContacts(u) => NoContacts(u)'
      /\ NoRequests(u) => NoRequests(u)'
  BY <1>4, Untouched DEF NoRooms
<1>6. SUFFICES /\ at'[g] = "deleteRooms" =>
                    \A r \in Rooms : u \in rooms'[r] => r \in batch'[g]
               /\ at'[g] \in Cleared => NoRooms(u)'
               /\ at'[g] \in {"deleteRequests", "deleteUser"} =>
                    NoContacts(u)'
               /\ at'[g] = "deleteUser" => NoRequests(u)'
  BY <1>1, <1>2 DEF NoRooms, NoContacts, NoRequests
<1>7. /\ at[g] = "deleteRooms" =>
           \A r \in Rooms : u \in rooms[r] => r \in batch[g]
      /\ at[g] \in Cleared => NoRooms(u)
      /\ at[g] \in {"deleteRequests", "deleteUser"} => NoContacts(u)
      /\ at[g] = "deleteUser" => NoRequests(u)
  BY <1>2, <1>3 DEF DeletionInv, ProgressInv
<1>8. CASE at'[g] = at[g]
  <2>1. ASSUME at[g] = "deleteRooms", NEW r \in Rooms, u \in rooms'[r]
        PROVE  r \in batch'[g]
    <3>1. r \in batch[g] BY <1>5, <1>7, <2>1
    <3>2. ASSUME NEW h \in Handlers, DeleteRooms(h) PROVE r \in batch'[g]
      BY <1>t, <2>1, <3>1, <3>2 DEF DeleteRooms
    <3>3. ASSUME NEW h \in Handlers, FindRooms(h) \/ Abort(h)
          PROVE  batch'[g] = batch[g]
      BY <1>t, <1>8, <2>1, <3>3 DEF FindRooms, Abort, Go
    <3>4. ASSUME NEW h \in Handlers, NEW v \in Users, NEW w \in Users,
                 Request(h, v, w)
          PROVE  UNCHANGED batch
      BY <3>4, Begins DEF Begun
    <3>5. \/ UNCHANGED batch
          \/ \E h \in Handlers : FindRooms(h) \/ DeleteRooms(h) \/ Abort(h)
      BY <3>4 DEF Next, vars, DeleteAccount, RequestStep, FindExisting,
         CreateRequest, AnswerStep, CreateRoom, AddMine, AddTheirs,
         SaveAccepted, SaveRejected, AddContact, DeleteStep, PullContacts,
         DeleteRequests, DeleteUser, RemoveContact, Expire, args, handlers
    <3> QED BY <3>1, <3>2, <3>3, <3>5
  <2> QED BY <1>5, <1>7, <1>8, <2>1
<1>9. CASE FindRooms(g)
  <2>1. batch'[g] = {r \in Rooms : u \in rooms[r]} /\ rooms' = rooms
    BY <1>t, <1>2, <1>9 DEF FindRooms, docs
  <2>2. at'[g] = IF batch'[g] = {} THEN "pullContacts" ELSE "deleteRooms"
    BY <1>t, <1>2, <1>9 DEF FindRooms, Go
  <2> QED BY <2>1, <2>2 DEF NoRooms
<1>10. CASE DeleteRooms(g)
  <2>1. at'[g] = "pullContacts" /\ at[g] = "deleteRooms"
    BY <1>t, <1>10 DEF DeleteRooms, Go
  <2>2. NoRooms(u)' BY <1>t, <1>7, <1>10, <2>1 DEF DeleteRooms, NoRooms
  <2> QED BY <2>1, <2>2
<1>11. CASE PullContacts(g)
  <2>1. at'[g] = "deleteRequests" /\ at[g] = "pullContacts"
    BY <1>t, <1>11 DEF PullContacts, Go
  <2>2. NoContacts(u)'
    BY <1>t, <1>2, <1>11 DEF PullContacts, NoContacts
  <2> QED BY <1>5, <1>7, <2>1, <2>2
<1>12. CASE DeleteRequests(g)
  <2>1. at'[g] = "deleteUser" /\ at[g] = "deleteRequests"
    BY <1>t, <1>12 DEF DeleteRequests, Go
  <2>2. NoRequests(u)' BY <1>2, <1>12 DEF DeleteRequests, NoRequests
  <2> QED BY <1>5, <1>7, <2>1, <2>2
<1>13. ~ DeleteUser(g) BY <1>t DEF DeleteUser, Go
<1> QED BY <1>1, <1>8, <1>9, <1>10, <1>11, <1>12, <1>13 DEF DeleteStep

LEMMA DeletedStep ==
  ASSUME TypeInv, DeletionInv, [Next]_vars PROVE DeletedLeaveNothing'
<1> SUFFICES ASSUME NEW u \in Users, u \notin users', u \notin met'
             PROVE  NoRooms(u)' /\ NoRequests(u)' /\ NoContacts(u)'
  BY DEF DeletedLeaveNothing, NoRooms, NoRequests, NoContacts
<1>m. u \notin met BY HistoryGrows
<1>1. CASE u \notin users
  <2>1. About(u) = {} BY <1>1, <1>m DEF DeletionInv, AloneInv
  <2>2. NoRooms(u) /\ NoRequests(u) /\ NoContacts(u)
    BY <1>1, <1>m DEF DeletionInv, DeletedLeaveNothing, NoRooms, NoRequests,
       NoContacts
  <2> QED BY <2>1, <2>2, Untouched DEF NoRooms
<1>2. CASE u \in users
  <2>1. PICK h \in Handlers : DeleteUser(h) BY <1>2, UsersChange
  <2>2. by[h] = u /\ at[h] = "deleteUser" BY <1>2, <2>1 DEF DeleteUser
  <2>3. About(u) = {}
    BY <1>m, <2>2 DEF DeletionInv, AloneInv, Deleting, Busy, DeletePcs
  <2>4. NoRooms(u) /\ NoRequests(u) /\ NoContacts(u)
    BY <1>m, <2>2 DEF DeletionInv, ProgressInv
  <2> QED BY <2>3, <2>4, Untouched DEF NoRooms
<1> QED BY <1>1, <1>2

LEMMA DeletionInit == Init => DeletionInv
BY DEF Init, DeletionInv, AloneInv, ProgressInv, DeletedLeaveNothing,
   Deleting, Busy

LEMMA DeletionStep == TypeInv /\ DeletionInv /\ [Next]_vars => DeletionInv'
BY AloneStep, ProgressStep, DeletedStep DEF DeletionInv

-----------------------------------------------------------------------------
(* One request between two users.                                          *)

\* Requests at work between the same two have overlapped.
OverlapInv ==
  \A g, h \in Handlers :
    g # h /\ at[g] \in TalkPcs /\ at[h] \in TalkPcs /\ Both(g) = Both(h) =>
      Both(h) \in raced

\* Nothing is sent or accepted against a request that counts.
AgainstInv ==
  \A h \in Handlers : Both(h) \notin raced =>
    /\ at[h] = "createRequest" => ~ Active(<<peer[h], by[h]>>)
    /\ at[h] \in AcceptPcs => ~ Active(<<by[h], peer[h]>>)

OneInv == OverlapInv /\ AgainstInv /\ OneRequestUnlessRaced

\* A request at work was so before, on the same two, or begins.
LEMMA Working ==
  ASSUME TypeInv, [Next]_vars, NEW g \in Handlers, at'[g] \in TalkPcs
  PROVE  \/ /\ at[g] \in TalkPcs /\ by'[g] = by[g] /\ peer'[g] = peer[g]
            /\ Both(g)' = Both(g)
            /\ at'[g] = at[g] \/ RequestStep(g) \/ AnswerStep(g)
         \/ \E v, w \in Users, pc \in Pcs :
              /\ Begun(g, v, w, pc)
              /\ at'[g] = pc /\ by'[g] = v /\ peer'[g] = w
<1>t. /\ at \in [Handlers -> Pcs]
      /\ by \in [Handlers -> Users] /\ peer \in [Handlers -> Users]
  BY DEF TypeInv, TypeOK
<1>1. ASSUME NEW v \in Users, NEW w \in Users, Request(g, v, w)
      PROVE  \E pc \in Pcs : /\ Begun(g, v, w, pc)
                             /\ at'[g] = pc /\ by'[g] = v /\ peer'[g] = w
  <2>1. PICK pc : Begun(g, v, w, pc) BY <1>1, Begins
  <2>2. pc \in Pcs BY <2>1 DEF Begun, Pcs, AcceptPcs, SendPcs
  <2>3. at'[g] = pc /\ by'[g] = v /\ peer'[g] = w BY <1>t, <2>1 DEF Begun
  <2> QED BY <2>1, <2>2, <2>3
<1>2. ~ \E v \in Users : DeleteAccount(g, v)
  BY <1>t DEF DeleteAccount, Go, TalkPcs, DeletePcs
<1>3. RequestStep(g) \/ AnswerStep(g) =>
        at[g] \in TalkPcs /\ by' = by /\ peer' = peer
  BY Talking DEF RequestStep, FindExisting, CreateRequest, AnswerStep,
     CreateRoom, AddMine, AddTheirs, SaveAccepted, SaveRejected,
     AddContact, SendPcs, AcceptPcs, args
<1>4. ~ (DeleteStep(g) \/ Abort(g))
  BY <1>t DEF DeleteStep, FindRooms, DeleteRooms, PullContacts,
     DeleteRequests, DeleteUser, Abort, Go, TalkPcs, DeletePcs
<1> QED BY <1>1, <1>2, <1>3, <1>4, HandlerMoves DEF Both

LEMMA OverlapStep == TypeInv /\ OverlapInv /\ [Next]_vars => OverlapInv'
<1> SUFFICES ASSUME TypeInv, OverlapInv, [Next]_vars,
                    NEW g \in Handlers, NEW h \in Handlers, g # h,
                    at'[g] \in TalkPcs, at'[h] \in TalkPcs,
                    Both(g)' = Both(h)'
             PROVE  Both(h)' \in raced'
  BY DEF OverlapInv
<1>t. /\ at \in [Handlers -> Pcs]
      /\ by \in [Handlers -> Users] /\ peer \in [Handlers -> Users]
  BY DEF TypeInv, TypeOK
<1>r. raced \subseteq raced' BY HistoryGrows
<1>1. ASSUME NEW f \in Handlers, NEW e \in Handlers, e # f,
             NEW v \in Users, NEW w \in Users, NEW pc \in Pcs,
             Begun(f, v, w, pc), at'[e] \in TalkPcs, Both(e)' = Both(f)'
      PROVE  Both(f)' \in raced'
  <2>1. at[e] = at'[e] /\ Both(e)' = Both(e)
    BY <1>t, <1>1 DEF Begun, Both
  <2>2. Both(f)' = {v, w} BY <1>t, <1>1 DEF Begun, Both
  <2>3. e \in Busy /\ at[e] \notin DeletePcs
    BY <1>1, <2>1, Talking DEF Busy
  <2> QED BY <1>1, <2>1, <2>2, <2>3 DEF Begun
<1>2. CASE /\ at[g] \in TalkPcs /\ Both(g)' = Both(g)
           /\ at[h] \in TalkPcs /\ Both(h)' = Both(h)
  BY <1>2, <1>r DEF OverlapInv
<1> QED BY <1>1, <1>2, Working

LEMMA AgainstStep == TypeInv /\ OneInv /\ [Next]_vars => AgainstInv'
<1> SUFFICES ASSUME TypeInv, OneInv, [Next]_vars,
                    NEW g \in Handlers, Both(g)' \notin raced',
                    at'[g] \in {"createRequest"} \cup AcceptPcs
             PROVE  /\ at'[g] = "createRequest" =>
                         ~ Active(<<peer[g], by[g]>>)'
                    /\ at'[g] \in AcceptPcs => ~ Active(<<by[g], peer[g]>>)'
  BY DEF AgainstInv
<1>t. /\ at \in [Handlers -> Pcs] /\ at' \in [Handlers -> Pcs]
      /\ by \in [Handlers -> Users] /\ peer \in [Handlers -> Users]
      /\ requests \in [Pairs -> {"none", "pending", "accepted", "rejected"}]
  BY TypeStep DEF TypeInv, TypeOK
<1>r. raced \subseteq raced' BY HistoryGrows
<1>p. at'[g] \in TalkPcs BY Talking DEF SendPcs
<1>1. ASSUME NEW v \in Users, NEW w \in Users, NEW pc \in Pcs,
             Begun(g, v, w, pc), at'[g] = pc, by'[g] = v, peer'[g] = w
      PROVE  pc = "createRoom" /\ ~ Active(<<v, w>>)'
  <2>1. pc = "createRoom" /\ requests[<<w, v>>] = "pending" /\ v # w
    BY <1>1 DEF Begun, AcceptPcs
  <2>2. {v, w} \notin raced BY <1>1, <1>r DEF Both
  <2>3. /\ <<w, v>> \in Pairs /\ <<w, v>>[1] = w /\ <<w, v>>[2] = v
        /\ {w, v} = {v, w}
    BY <2>1 DEF Pairs
  <2>4. ~ Active(<<v, w>>)
    BY <2>1, <2>2, <2>3 DEF OneInv, OneRequestUnlessRaced, Active
  <2> QED BY <1>1, <2>1, <2>4 DEF Begun, Active
<1>2. ASSUME at[g] \in TalkPcs, by'[g] = by[g], peer'[g] = peer[g],
             Both(g)' = Both(g),
             at'[g] = at[g] \/ RequestStep(g) \/ AnswerStep(g)
      PROVE  /\ at'[g] = "createRequest" => ~ Active(<<peer[g], by[g]>>)'
             /\ at'[g] \in AcceptPcs => ~ Active(<<by[g], peer[g]>>)'
  <2>1. PICK a \in Users, b \in Users : a = by[g] /\ b = peer[g] /\ a # b
    BY <1>2, BothTwo
  <2>2. {a, b} \notin raced /\ {a, b} = Both(g)
    BY <1>2, <1>r, <2>1 DEF Both
  <2>3. <<a, b>> \in Pairs /\ <<b, a>> \in Pairs BY <2>1 DEF Pairs
  <2>4. /\ at'[g] = "createRequest" => ~ Active(<<b, a>>)
        /\ at'[g] \in AcceptPcs => ~ Active(<<a, b>>)
    <3>1. CASE FindExisting(g)
      <4>1. at'[g] = "createRequest" => ~ Active(<<b, a>>)
        <5>1. <<b, a>>[1] = b /\ <<b, a>>[2] = a OBVIOUS
        <5> QED BY <1>t, <2>1, <2>3, <3>1, <5>1 DEF FindExisting, Go, Both
      <4>2. at'[g] \notin AcceptPcs
        BY <1>t, <3>1 DEF FindExisting, Go, AcceptPcs
      <4> QED BY <4>1, <4>2
    <3>2. CASE AnswerStep(g) \/ CreateRequest(g)
      <4>1. at'[g] \in AcceptPcs => at[g] \in AcceptPcs
        BY <1>t, <3>2 DEF AnswerStep, CreateRoom, AddMine, AddTheirs,
           SaveAccepted, SaveRejected, AddContact, CreateRequest, Save, Go,
           AcceptPcs
      <4>2. at'[g] # "createRequest"
        BY <1>t, <3>2 DEF AnswerStep, CreateRoom, AddMine, AddTheirs,
           SaveAccepted, SaveRejected, AddContact, CreateRequest, Save, Go
      <4> QED BY <2>1, <2>2, <4>1, <4>2 DEF OneInv, AgainstInv
    <3>3. CASE at'[g] = at[g]
      BY <2>1, <2>2, <3>3 DEF OneInv, AgainstInv
    <3> QED BY <1>2, <3>1, <3>2, <3>3 DEF RequestStep
  <2>5. ASSUME NEW p \in Pairs, p = <<a, b>> \/ p = <<b, a>>, ~ Active(p),
               Active(p)'
        PROVE  CreateRequest(g) \/ SaveAccepted(g)
    <3>1. PICK h \in Handlers : CreateRequest(h) \/ SaveAccepted(h)
      BY <1>t, <2>5, RequestsChange
         DEF SaveRejected, Save, DeleteRequests, Expire, Active
    <3>2. at[h] \in TalkPcs
      BY <3>1, Talking DEF CreateRequest, SaveAccepted, SendPcs, AcceptPcs
    <3>3. p = <<by[h], peer[h]>> \/ p = <<peer[h], by[h]>>
      BY <1>t, <2>5, <3>1 DEF CreateRequest, SaveAccepted, Save, Active
    <3>4. Both(h) = Both(g) BY <2>1, <2>5, <3>3 DEF Both
    <3>5. h = g
      BY <1>2, <2>2, <3>2, <3>4 DEF OneInv, OverlapInv
    <3> QED BY <3>1, <3>5
  <2>6. CreateRequest(g) \/ SaveAccepted(g) => at'[g] = "idle"
    BY <1>t DEF CreateRequest, SaveAccepted, Save, Go
  <2>7. /\ at'[g] = "createRequest" => ~ Active(<<b, a>>)'
        /\ at'[g] \in AcceptPcs => ~ Active(<<a, b>>)'
    BY <2>3, <2>4, <2>5, <2>6 DEF AcceptPcs
  <2> QED BY <1>2, <2>1, <2>7 DEF Active
<1>3. CASE \E v, w \in Users, pc \in Pcs :
             Begun(g, v, w, pc) /\ at'[g] = pc /\ by'[g] = v /\ peer'[g] = w
  BY <1>1, <1>3 DEF Active
<1> QED BY <1>p, <1>2, <1>3, Working

\* Of two requests between two users the second does not come to count.
LEMMA SecondStep ==
  ASSUME TypeInv, OneInv, [Next]_vars, NEW a \in Users, NEW b \in Users,
         a # b, {a, b} \notin raced, ~ Active(<<a, b>>), Active(<<a, b>>)'
  PROVE  ~ Active(<<b, a>>)'
<1>t. /\ requests \in [Pairs -> {"none", "pending", "accepted", "rejected"}]
      /\ by \in [Handlers -> Users] /\ peer \in [Handlers -> Users]
  BY DEF TypeInv, TypeOK
<1>p. /\ <<a, b>> \in Pairs /\ <<b, a>> \in Pairs /\ <<a, b>> # <<b, a>>
  BY DEF Pairs
<1>1. PICK h \in Handlers : CreateRequest(h) \/ SaveAccepted(h)
  BY <1>t, <1>p, RequestsChange
     DEF SaveRejected, Save, DeleteRequests, Expire, Active
<1>2. CASE CreateRequest(h)
  <2>1. by[h] = a /\ peer[h] = b
    BY <1>t, <1>p, <1>2 DEF CreateRequest, Active
  <2>2. ~ Active(<<b, a>>)
    BY <1>2, <2>1 DEF OneInv, AgainstInv, Both, CreateRequest
  <2> QED BY <1>t, <1>p, <1>2, <2>1, <2>2 DEF CreateRequest, Active
<1>3. CASE SaveAccepted(h)
  <2>1. peer[h] = a /\ by[h] = b
    BY <1>t, <1>p, <1>3 DEF SaveAccepted, Save, Active
  <2>2. ~ Active(<<b, a>>)
    BY <1>3, <2>1 DEF OneInv, AgainstInv, Both, SaveAccepted, AcceptPcs
  <2> QED BY <1>t, <1>p, <1>3, <2>1, <2>2 DEF SaveAccepted, Save, Active
<1> QED BY <1>1, <1>2, <1>3

LEMMA OneRequestStep ==
  ASSUME TypeInv, OneInv, [Next]_vars PROVE OneRequestUnlessRaced'
<1> SUFFICES ASSUME NEW p \in Pairs, {p[1], p[2]} \notin raced',
                    Active(p)', Active(<<p[2], p[1]>>)'
             PROVE  FALSE
  BY DEF OneRequestUnlessRaced
<1>1. PICK a \in Users, b \in Users : p = <<a, b>> /\ a # b BY DEF Pairs
<1>2. Active(<<a, b>>)' /\ Active(<<b, a>>)' BY <1>1 DEF Active
<1>3. {a, b} \notin raced /\ {b, a} \notin raced
  BY <1>1, HistoryGrows
<1>4. ~ (Active(<<a, b>>) /\ Active(<<b, a>>))
  BY <1>1, <1>3 DEF OneInv, OneRequestUnlessRaced
<1> QED BY <1>1, <1>2, <1>3, <1>4, SecondStep

LEMMA OneInit == Init => OneInv
BY DEF Init, OneInv, OverlapInv, AgainstInv, OneRequestUnlessRaced, Active,
   TalkPcs, AcceptPcs, Pairs

LEMMA OneStep == TypeInv /\ OneInv /\ [Next]_vars => OneInv'
BY OverlapStep, AgainstStep, OneRequestStep DEF OneInv

-----------------------------------------------------------------------------
(* One room of two users.                                                  *)

\* Two between whom nothing crossed, was undone, or met a deletion.
Calm(P) == P \notin raced \cup reopened \cup {{}} /\ P \cap met = {}

Accepted(P) ==
  \E p \in Pairs : {p[1], p[2]} = P /\ requests[p] = "accepted"

Making(h, P) ==
  at[h] \in {"addMine", "addTheirs", "saveAccepted"} /\ Both(h) = P

\* An accept holds its request until it is saved.
HoldsInv ==
  \A h \in Handlers : at[h] \in AcceptPcs /\ h \in lost =>
    Both(h) \cap met # {}

\* A room belongs to a request that was accepted or is being accepted.
OwnedInv ==
  \A r \in Rooms : Calm(rooms[r]) =>
    Accepted(rooms[r]) \/ \E h \in Handlers : Making(h, rooms[r])

\* An accept that is about to create the room finds none.
FreshInv ==
  \A h \in Handlers : at[h] = "createRoom" /\ Calm(Both(h)) =>
    \A r \in Rooms : rooms[r] # Both(h)

RoomInv == HoldsInv /\ OwnedInv /\ FreshInv /\ OneRoomUnlessReopened

LEMMA HoldsStep ==
  ASSUME TypeInv, DeletionInv, RoomInv, [Next]_vars PROVE HoldsInv'
<1> SUFFICES ASSUME NEW g \in Handlers, at'[g] \in AcceptPcs, g \in lost',
                    Both(g)' \cap met' = {}
             PROVE  FALSE
  BY DEF HoldsInv
<1>t. /\ at \in [Handlers -> Pcs]
      /\ by \in [Handlers -> Users] /\ peer \in [Handlers -> Users]
  BY DEF TypeInv, TypeOK
<1>m. met \subseteq met' BY HistoryGrows
<1>1. ~ \E v, w \in Users, pc \in Pcs : Begun(g, v, w, pc)
  BY DEF Begun
<1>2. /\ at[g] \in TalkPcs /\ Both(g)' = Both(g)
      /\ at'[g] = at[g] \/ RequestStep(g) \/ AnswerStep(g)
  BY <1>1, Working, Talking
<1>3. at[g] \in AcceptPcs
  BY <1>t, <1>2 DEF RequestStep, FindExisting, CreateRequest, AnswerStep,
     CreateRoom, AddMine, AddTheirs, SaveAccepted, SaveRejected, Save,
     AddContact, Go, AcceptPcs
<1>4. g \notin lost BY <1>2, <1>3, <1>m DEF RoomInv, HoldsInv
<1>5. ASSUME NEW h \in Handlers, NEW u \in Users, NEW w \in Users,
             Request(h, u, w)
      PROVE  lost' \subseteq lost
  BY <1>5, Begins DEF Begun
<1>6. PICK h \in Handlers : DeleteRequests(h)
  BY <1>4, <1>5 DEF Next, vars, DeleteAccount, RequestStep, FindExisting,
     CreateRequest, AnswerStep, CreateRoom, AddMine, AddTheirs, SaveAccepted,
     SaveRejected, AddContact, DeleteStep, FindRooms, DeleteRooms,
     PullContacts, DeleteUser, Abort, RemoveContact, Expire, handlers, args
<1>7. by[h] \in Both(g) /\ g \in About(by[h])
  BY <1>4, <1>6 DEF DeleteRequests, Answering, About
<1>8. by[h] \notin met BY <1>2, <1>7, <1>m
<1>9. Deleting(by[h]) BY <1>6 DEF DeleteRequests, Deleting, Busy, DeletePcs
<1> QED BY <1>t, <1>7, <1>8, <1>9 DEF DeletionInv, AloneInv

LEMMA FreshStep ==
  ASSUME TypeInv, OneInv, RoomInv, [Next]_vars PROVE FreshInv'
<1> SUFFICES ASSUME NEW g \in Handlers, at'[g] = "createRoom",
                    Calm(Both(g))', NEW r \in Rooms, rooms'[r] = Both(g)'
             PROVE  FALSE
  BY DEF FreshInv
<1>t. /\ at \in [Handlers -> Pcs] /\ rooms \in [Rooms -> Twos \cup {{}}]
      /\ by \in [Handlers -> Users] /\ peer \in [Handlers -> Users]
      /\ requests \in [Pairs -> {"none", "pending", "accepted", "rejected"}]
  BY DEF TypeInv, TypeOK
<1>c. Both(g)' \notin raced' /\ Calm(Both(g)')
  BY HistoryGrows DEF Calm
<1>1. ASSUME NEW v \in Users, NEW w \in Users, NEW pc \in Pcs,
             Begun(g, v, w, pc), at'[g] = pc, by'[g] = v, peer'[g] = w
      PROVE  FALSE
  <2>1. /\ requests[<<w, v>>] = "pending" /\ v # w /\ at[g] = "idle"
        /\ rooms[r] = {v, w} /\ Both(g)' = {v, w}
    BY <1>1 DEF Begun, Both
  <2>2. ~ Accepted({v, w})
    <3> SUFFICES ASSUME NEW p \in Pairs, {p[1], p[2]} = {v, w},
                        requests[p] = "accepted"
                 PROVE  FALSE
      BY DEF Accepted
    <3>1. p = <<v, w>> \/ p = <<w, v>> BY DEF Pairs
    <3>2. p = <<v, w>> /\ <<p[2], p[1]>> = <<w, v>> BY <2>1, <3>1
    <3> QED BY <1>c, <2>1, <3>2 DEF OneInv, OneRequestUnlessRaced, Active, Calm
  <2>3. ASSUME NEW h \in Handlers, Making(h, {v, w}) PROVE FALSE
    <3>1. h \in Busy /\ at[h] \notin DeletePcs /\ Both(h) = {v, w}
      BY <2>3 DEF Making, Busy, DeletePcs
    <3> QED BY <1>1, <1>c, <2>1, <3>1 DEF Begun
  <2> QED BY <1>c, <2>1, <2>2, <2>3 DEF RoomInv, OwnedInv
<1>2. ASSUME at[g] \in TalkPcs, Both(g)' = Both(g),
             at'[g] = at[g] \/ RequestStep(g) \/ AnswerStep(g)
      PROVE  FALSE
  <2>1. at[g] = "createRoom" /\ ~ CreateRoom(g)
    BY <1>t, <1>2 DEF RequestStep, FindExisting, CreateRequest, AnswerStep,
       CreateRoom, AddMine, AddTheirs, SaveAccepted, SaveRejected, Save,
       AddContact, Go
  <2>2. rooms[r] # Both(g) BY <1>2, <1>c, <2>1 DEF RoomInv, FreshInv
  <2>3. Both(g) # {} BY DEF Both
  <2>4. PICK h \in Handlers : CreateRoom(h) /\ Both(h) = Both(g)
    BY <1>t, <1>2, <2>2, <2>3, RoomsChange DEF CreateRoom, DeleteRooms
  <2>5. at[h] \in TalkPcs BY <2>4, Talking DEF CreateRoom, AcceptPcs
  <2>6. Both(g) \notin raced BY <1>2, <1>c DEF Calm
  <2> QED BY <1>2, <2>1, <2>4, <2>5, <2>6 DEF OneInv, OverlapInv
<1>3. at'[g] \in TalkPcs BY Talking DEF AcceptPcs
<1> QED BY <1>1, <1>2, <1>3, Working

\* A request that was accepted stays so while the two have their room.
LEMMA AcceptedLasts ==
  ASSUME TypeInv, DeletionInv, [Next]_vars, NEW r \in Rooms,
         Calm(rooms[r]), Calm(rooms[r])', rooms'[r] = rooms[r],
         Accepted(rooms[r])
  PROVE  Accepted(rooms[r])'
<1>t. /\ requests \in [Pairs -> {"none", "pending", "accepted", "rejected"}]
      /\ by \in [Handlers -> Users] /\ peer \in [Handlers -> Users]
      /\ rooms[r] \notin reopened'
  BY DEF TypeInv, TypeOK, Calm
<1>1. PICK p \in Pairs : {p[1], p[2]} = rooms[r] /\ requests[p] = "accepted"
  BY DEF Accepted
<1>2. SUFFICES requests'[p] = "accepted"
  BY <1>1 DEF Accepted
<1>3. ASSUME NEW h \in Handlers, CreateRequest(h) \/ SaveAccepted(h)
      PROVE  requests'[p] = "accepted"
  BY <1>t, <1>1, <1>3 DEF CreateRequest, SaveAccepted, Save
<1>4. ASSUME NEW h \in Handlers, SaveRejected(h)
      PROVE  requests'[p] = "accepted"
  <2>1. CASE h \in lost BY <1>1, <1>4, <2>1 DEF SaveRejected, Save
  <2>2. CASE p # <<peer[h], by[h]>>
    BY <1>t, <1>1, <1>4, <2>2 DEF SaveRejected, Save
  <2>3. CASE h \notin lost /\ p = <<peer[h], by[h]>>
    <3>1. Both(h) = rooms[r] BY <1>1, <2>3 DEF Both
    <3> QED BY <1>t, <1>1, <1>4, <2>3, <3>1 DEF SaveRejected
  <2> QED BY <2>1, <2>2, <2>3
<1>5. ASSUME NEW h \in Handlers, DeleteRequests(h)
      PROVE  requests'[p] = "accepted"
  <2>1. CASE by[h] \notin {p[1], p[2]}
    BY <1>t, <1>1, <1>5, <2>1 DEF DeleteRequests
  <2>2. CASE by[h] \in {p[1], p[2]}
    <3>1. by[h] \in rooms[r] /\ by[h] \notin met BY <1>1, <2>2 DEF Calm
    <3>2. NoRooms(by[h])
      BY <1>5, <3>1 DEF DeleteRequests, DeletionInv, ProgressInv
    <3> QED BY <3>1, <3>2 DEF NoRooms
  <2> QED BY <2>1, <2>2
<1>6. ASSUME NEW q \in Pairs, Expire(q) PROVE requests'[p] = "accepted"
  BY <1>t, <1>1, <1>6 DEF Expire
<1> QED BY <1>1, <1>3, <1>4, <1>5, <1>6, RequestsChange

\* An accept that made a room goes on, or its request is accepted.
LEMMA MakingLasts ==
  ASSUME TypeInv, RoomInv, [Next]_vars, NEW r \in Rooms,
         Calm(rooms[r]), Calm(rooms[r])', rooms'[r] = rooms[r],
         NEW h \in Handlers, Making(h, rooms[r])
  PROVE  Accepted(rooms[r])' \/ Making(h, rooms[r])'
<1>t. /\ requests \in [Pairs -> {"none", "pending", "accepted", "rejected"}]
      /\ at \in [Handlers -> Pcs]
      /\ by \in [Handlers -> Users] /\ peer \in [Handlers -> Users]
      /\ rooms[r] \notin reopened'
  BY DEF TypeInv, TypeOK, Calm
<1>m. /\ at[h] \in {"addMine", "addTheirs", "saveAccepted"}
      /\ Both(h) = rooms[r]
  BY DEF Making
<1>1. ~ \E u, w \in Users : Request(h, u, w)
  <2> SUFFICES ASSUME NEW u \in Users, NEW w \in Users, Request(h, u, w)
               PROVE  FALSE
    OBVIOUS
  <2>1. PICK pc : Begun(h, u, w, pc) BY Begins
  <2> QED BY <1>m, <2>1 DEF Begun
<1>2. ~ (\/ \E u \in Users : DeleteAccount(h, u)
         \/ RequestStep(h) \/ DeleteStep(h))
  BY <1>m DEF DeleteAccount, RequestStep, FindExisting, CreateRequest,
     DeleteStep, FindRooms, DeleteRooms, PullContacts, DeleteRequests,
     DeleteUser
<1>3. ~ Abort(h) BY <1>t, <1>m DEF Abort, AcceptPcs
<1>4. CASE at'[h] = at[h] /\ by'[h] = by[h] /\ peer'[h] = peer[h]
  BY <1>m, <1>4 DEF Making, Both
<1>5. CASE AddMine(h) \/ AddTheirs(h)
  <2>1. at'[h] \in {"addTheirs", "saveAccepted"} /\ by' = by /\ peer' = peer
    BY <1>t, <1>5 DEF AddMine, AddTheirs, Go, args
  <2> QED BY <1>m, <2>1 DEF Making, Both
<1>6. CASE SaveAccepted(h)
  <2>1. h \notin lost
    BY <1>m DEF RoomInv, HoldsInv, Calm, AcceptPcs
  <2>2. PICK p \in Pairs : p = <<peer[h], by[h]>>
    BY <1>m, BothTwo, Talking DEF AcceptPcs
  <2>3. requests'[p] = "accepted"
    BY <1>t, <1>6, <2>1, <2>2 DEF SaveAccepted, Save
  <2>4. {p[1], p[2]} = rooms'[r] BY <1>m, <2>2 DEF Both
  <2> QED BY <2>3, <2>4 DEF Accepted
<1>7. CASE CreateRoom(h) \/ SaveRejected(h) \/ AddContact(h)
  BY <1>m, <1>7 DEF CreateRoom, SaveRejected, AddContact
<1> QED BY <1>1, <1>2, <1>3, <1>4, <1>5, <1>6, <1>7, HandlerMoves
        DEF AnswerStep

LEMMA OwnedStep ==
  ASSUME TypeInv, DeletionInv, RoomInv, [Next]_vars PROVE OwnedInv'
<1> SUFFICES ASSUME NEW r \in Rooms, Calm(rooms[r])'
             PROVE  \/ Accepted(rooms[r])'
                    \/ \E h \in Handlers : Making(h, rooms[r])'
  BY DEF OwnedInv
<1>t. /\ rooms \in [Rooms -> Twos \cup {{}}] /\ at \in [Handlers -> Pcs]
  BY DEF TypeInv, TypeOK
<1>1. CASE rooms'[r] = rooms[r]
  <2>1. Calm(rooms[r]) BY <1>1, HistoryGrows DEF Calm
  <2>2. Accepted(rooms[r]) \/ \E h \in Handlers : Making(h, rooms[r])
    BY <2>1 DEF RoomInv, OwnedInv
  <2> QED BY <1>1, <2>1, <2>2, AcceptedLasts, MakingLasts
<1>2. CASE rooms'[r] # rooms[r]
  <2>1. PICK h \in Handlers : CreateRoom(h) /\ rooms'[r] = Both(h)
    BY <1>t, <1>2, RoomsChange DEF CreateRoom, DeleteRooms, Calm
  <2>2. at'[h] = "addMine" /\ Both(h)' = Both(h)
    BY <1>t, <2>1 DEF CreateRoom, Go, Both, args
  <2> QED BY <2>1, <2>2 DEF Making
<1> QED BY <1>1, <1>2

LEMMA OneRoomStep ==
  ASSUME TypeInv, RoomInv, [Next]_vars PROVE OneRoomUnlessReopened'
<1> SUFFICES ASSUME NEW r \in Rooms, NEW q \in Rooms, rooms'[r] = rooms'[q],
                    rooms'[r] \notin raced' \cup reopened' \cup {{}},
                    rooms'[r] \cap met' = {}, r # q
             PROVE  FALSE
  BY DEF OneRoomUnlessReopened
<1>t. rooms \in [Rooms -> Twos \cup {{}}] BY DEF TypeInv, TypeOK
<1>c. Calm(rooms'[r]) /\ rooms'[r] # {} BY HistoryGrows DEF Calm
<1>1. ~ (rooms[r] = rooms'[r] /\ rooms[q] = rooms'[q])
  BY <1>c DEF RoomInv, OneRoomUnlessReopened, Calm
<1>2. PICK h \in Handlers : CreateRoom(h) /\ Both(h) = rooms'[r]
  BY <1>t, <1>1, <1>c, RoomsChange DEF CreateRoom, DeleteRooms
<1>3. rooms[r] # Both(h) /\ rooms[q] # Both(h)
  BY <1>2, <1>c DEF RoomInv, FreshInv, CreateRoom
<1> QED BY <1>t, <1>2, <1>3 DEF CreateRoom

LEMMA RoomInit == Init => RoomInv
BY DEF Init, RoomInv, HoldsInv, OwnedInv, FreshInv, OneRoomUnlessReopened,
   Calm, AcceptPcs

LEMMA RoomStep ==
  TypeInv /\ DeletionInv /\ OneInv /\ RoomInv /\ [Next]_vars => RoomInv'
BY HoldsStep, OwnedStep, FreshStep, OneRoomStep DEF RoomInv

-----------------------------------------------------------------------------
(* The invariant and the theorems.                                         *)

IInv == TypeInv /\ CompleteInv /\ DeletionInv /\ OneInv /\ RoomInv

\* Every state the requests, answers, deletions and failures of
\* user.controller.js lead to satisfies the invariant.
THEOREM Invariance == Spec => []IInv
<1>1. Init => IInv
  BY TypeInit, CompleteInit, DeletionInit, OneInit, RoomInit DEF IInv
<1>2. IInv /\ [Next]_vars => IInv'
  BY TypeStep, CompleteStep, DeletionStep, OneStep, RoomStep DEF IInv
<1> QED BY <1>1, <1>2, PTL DEF Spec

\* ChatRequests' documents and handlers keep their types.
THEOREM TypeCorrect == Spec => []TypeOK
<1>1. IInv => TypeOK BY DEF IInv, TypeInv
<1> QED BY <1>1, Invariance, PTL

\* Wherever an accept fails, and whatever runs beside it, an accepted request
\* has its room and both contacts (acceptChatRequest saves the status last).
THEOREM AcceptedComplete == Spec => []AcceptedIsComplete
<1>1. IInv => AcceptedIsComplete BY DEF IInv, CompleteInv
<1> QED BY <1>1, Invariance, PTL

\* Two people have one request that counts unless their handlers overlapped.
THEOREM OneRequest == Spec => []OneRequestUnlessRaced
<1>1. IInv => OneRequestUnlessRaced BY DEF IInv, OneInv
<1> QED BY <1>1, Invariance, PTL

\* Two people have one permanent room unless their handlers overlapped, met a
\* deletion, or an accepted request was undone.
THEOREM OneRoom == Spec => []OneRoomUnlessReopened
<1>1. IInv => OneRoomUnlessReopened BY DEF IInv, RoomInv
<1> QED BY <1>1, Invariance, PTL

\* A deletion, whatever the number of attempts and of deletions at once,
\* leaves nothing that refers to the user (deleteAccount takes the account
\* last).
THEOREM NothingLeft == Spec => []DeletedLeaveNothing
<1>1. IInv => DeletedLeaveNothing BY DEF IInv, DeletionInv
<1> QED BY <1>1, Invariance, PTL
=============================================================================
