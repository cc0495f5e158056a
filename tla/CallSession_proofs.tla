------------------------- MODULE CallSession_proofs -------------------------
(***************************************************************************)
(* CallSession for any sockets, any stock of call ids and any number of    *)
(* requests: its pointer, the reaping of empty calls, the one call of a    *)
(* channel, and who offers to whom.                                        *)
(***************************************************************************)
EXTENDS CallSession, TLAPS

\* The steps of a request that work on a call others may know.
SharedPcs == {"checkMeta", "delStale", "addMember", "started", "rejectMeta",
              "rejectMembers"} \cup AcceptPcs \cup ReapPcs

\* A call in the hands of its creator is in nobody else's, and exists; every
\* other call in use was the channel's call.
KnownInv ==
  /\ pointer # None => pointer \in known
  /\ \A s \in Sockets :
       /\ callOf[s] # None => callOf[s] \in known
       /\ inCall[s] # None => inCall[s] \in known
       /\ at[s] \in SharedPcs => call[s] \in known
       /\ leaving[s] # "idle" => goes[s] \in known
       /\ at[s] = "setPointer" => call[s] \in meta \ known
       /\ \A t \in Sockets : s # t /\ at[s] = "setPointer"
                             /\ at[t] = "setPointer" => call[s] # call[t]

\* A call whose records are about to go is no longer the channel's call.
PointerInv ==
  /\ PointerLeadsToCall
  /\ \A s \in Sockets :
       /\ at[s] = "delCall" => pointer # call[s]
       /\ leaving[s] = "delCall" => pointer # goes[s]

\* Somebody is about to join call c, or to find it empty and reap it.
Tended(c) ==
  \E s \in Sockets :
    \/ /\ at[s] \in {"setPointer", "addMember", "joinPeers"} \cup ReapPcs
       /\ call[s] = c
    \/ leaving[s] \in {"getMembers"} \cup ReapPcs /\ goes[s] = c

EmptyInv == \A c \in meta : members[c] = {} => Tended(c)

\* Where nothing is contended, a start is alone, and none that ends a call is
\* beside it; the pointer has been what it found, or what it wrote.
StartInv ==
  /\ \A s, t \in Starting : s = t
  /\ \A s \in Sockets : at[s] \in StartPcs =>
       /\ Ending = {} /\ at[s] # "delStale"
       /\ at[s] \in {"createCall", "setPointer"} => pointer = None
       /\ at[s] \in {"checkMeta", "addMember", "started"} =>
            pointer = call[s]

\* Whoever may reap a call finds its pointer or none.
EndInv ==
  \A s \in Sockets :
    /\ at[s] \in {"rejectMembers"} \cup ReapPcs => pointer \in {call[s], None}
    /\ leaving[s] \in {"removeMember", "getMembers"} \cup ReapPcs =>
         pointer \in {goes[s], None}

\* A call that exists is the channel's, or about to be, or about to go.
Led(c) ==
  \/ pointer = c
  \/ \E s \in Sockets : \/ at[s] \in {"setPointer", "delCall"} /\ call[s] = c
                        \/ leaving[s] = "delCall" /\ goes[s] = c

OneInv == contended \/ (StartInv /\ EndInv /\ \A c \in meta : Led(c))

\* Steps that use the callId of a request or of a leave have one.
TypeInv ==
  /\ TypeOK
  /\ \A s \in Sockets :
       /\ at[s] \notin {"idle", "getPointer", "createCall"} =>
            call[s] \in Calls
       /\ leaving[s] # "idle" => goes[s] \in Calls

-----------------------------------------------------------------------------
\* Every step keeps the variables in their types; a request that works on a
\* call has one.
LEMMA TypeStep ==
  ASSUME TypeInv, [Next]_vars
  PROVE  TypeInv'
<1> USE CallAssumption DEF TypeOK, RequestPcs, JoinPcs, StartPcs, AcceptPcs,
      ReapPcs, LeavePcs, store, client, handlers, history, Go, Leaves,
      TypeInv
<1>1. ASSUME NEW s \in Sockets, Start(s) PROVE TypeInv'
  BY <1>1 DEF Start, Begin, Free, Event, Joining
<1>2. ASSUME NEW s \in Sockets, NEW c \in Calls, Accept(s, c)
      PROVE  TypeInv'
  BY <1>2 DEF Accept, Begin, Free, Event, Joining
<1>3. ASSUME NEW s \in Sockets, NEW c \in Calls, Reject(s, c)
      PROVE  TypeInv'
  BY <1>3 DEF Reject, Free, Event
<1>4. ASSUME NEW s \in Sockets, Leave(s) \/ Cancel(s) \/ Disconnect(s)
      PROVE  TypeInv'
  BY <1>4 DEF Leave, Cancel, Disconnect, StartLeave, Event
<1>5. ASSUME NEW s \in Sockets, GetPointer(s) \/ CheckMeta(s) \/ DelStale(s)
      PROVE  TypeInv'
  BY <1>5 DEF GetPointer, CheckMeta, DelStale
<1>6. ASSUME NEW s \in Sockets, CreateCall(s) PROVE TypeInv'
  BY <1>6 DEF CreateCall, Fresh
<1>7. ASSUME NEW s \in Sockets, SetPointer(s) PROVE TypeInv'
  BY <1>7 DEF SetPointer
<1>8. ASSUME NEW s \in Sockets, AcceptMeta(s) \/ AcceptMembers(s)
      PROVE  TypeInv'
  BY <1>8 DEF AcceptMeta, AcceptMembers
<1>9. ASSUME NEW s \in Sockets, AddMember(s) PROVE TypeInv'
  BY <1>9 DEF AddMember
<1>10. ASSUME NEW s \in Sockets, Started(s) \/ Accepted(s) PROVE TypeInv'
  BY <1>10 DEF Started, Accepted, Enter
<1>11. ASSUME NEW s \in Sockets, RejectMeta(s) \/ RejectMembers(s)
       PROVE  TypeInv'
  <2>1. CASE RejectMeta(s)
    <3>1. contended' \in BOOLEAN
      BY <2>1, Zenon DEF RejectMeta, MeetsStart
    <3>2. QED
      BY <2>1, <3>1 DEF RejectMeta
  <2>2. CASE RejectMembers(s)
    BY <2>2 DEF RejectMembers, ToldOver
  <2>3. QED
    BY <1>11, <2>1, <2>2
<1>12. ASSUME NEW s \in Sockets, GetMeta(s) \/ RemoveMember(s)
       PROVE  TypeInv'
  <2>1. CASE GetMeta(s)
    <3>1. contended' \in BOOLEAN
      BY <2>1, Zenon DEF GetMeta, MeetsStart
    <3>2. QED
      BY <2>1, <3>1 DEF GetMeta
  <2>2. CASE RemoveMember(s)
    <3>1. offers' \in [Calls -> SUBSET (Sockets \X Sockets)]
      <4>1. {o \in offers[goes[s]] : s \notin {o[1], o[2]}}
              \in SUBSET (Sockets \X Sockets)
        BY <2>2 DEF RemoveMember
      <4>2. QED
        BY <2>2, <4>1 DEF RemoveMember
    <3>2. QED
      BY <2>2, <3>1 DEF RemoveMember
  <2>3. QED
    BY <1>12, <2>1, <2>2
<1>13. ASSUME NEW s \in Sockets,
              Unavailable(s) \/ CancelMeta(s) \/ GetMembers(s)
       PROVE  TypeInv'
  BY <1>13 DEF Unavailable, CancelMeta, GetMembers, ToldOver
<1>14. ASSUME NEW s \in Sockets, DelPointer(s) PROVE TypeInv'
  BY <1>14 DEF DelPointer
<1>15. ASSUME NEW s \in Sockets, DelCall(s) PROVE TypeInv'
  BY <1>15 DEF DelCall, DeleteCall
<1>16. CASE UNCHANGED vars
  BY <1>16 DEF vars
<1>17. QED
  BY <1>1, <1>2, <1>3, <1>4, <1>5, <1>6, <1>7, <1>8, <1>9, <1>10, <1>11,
     <1>12, <1>13, <1>14, <1>15, <1>16
     DEF Next, StartStep, AcceptStep, RejectStep, LeaveStep, ReapStep

\* A callId is handed on only after it has been the channel's call.
LEMMA KnownStep ==
  ASSUME TypeInv, KnownInv, [Next]_vars
  PROVE  KnownInv'
<1> USE CallAssumption DEF TypeOK, RequestPcs, JoinPcs, StartPcs, AcceptPcs,
      ReapPcs, LeavePcs, store, client, handlers, history, Go, Leaves,
      TypeInv, KnownInv, SharedPcs
<1>1. ASSUME NEW s \in Sockets, Start(s) PROVE KnownInv'
  BY <1>1 DEF Start, Begin, Free, Event, Joining
<1>2. ASSUME NEW s \in Sockets, NEW c \in Calls, Accept(s, c)
      PROVE  KnownInv'
  BY <1>2 DEF Accept, Begin, Free, Event, Joining
<1>3. ASSUME NEW s \in Sockets, NEW c \in Calls, Reject(s, c)
      PROVE  KnownInv'
  BY <1>3 DEF Reject, Free, Event
<1>4. ASSUME NEW s \in Sockets, Leave(s) \/ Cancel(s) \/ Disconnect(s)
      PROVE  KnownInv'
  BY <1>4 DEF Leave, Cancel, Disconnect, StartLeave, Event
<1>5. ASSUME NEW s \in Sockets, GetPointer(s) \/ CheckMeta(s) \/ DelStale(s)
      PROVE  KnownInv'
  BY <1>5 DEF GetPointer, CheckMeta, DelStale
<1>6. ASSUME NEW s \in Sockets, CreateCall(s) PROVE KnownInv'
  BY <1>6 DEF CreateCall, Fresh
<1>7. ASSUME NEW s \in Sockets, SetPointer(s) PROVE KnownInv'
  BY <1>7 DEF SetPointer
<1>8. ASSUME NEW s \in Sockets, AcceptMeta(s) \/ AcceptMembers(s)
      PROVE  KnownInv'
  BY <1>8 DEF AcceptMeta, AcceptMembers
<1>9. ASSUME NEW s \in Sockets, AddMember(s) PROVE KnownInv'
  BY <1>9 DEF AddMember
<1>10. ASSUME NEW s \in Sockets, Started(s) \/ Accepted(s) PROVE KnownInv'
  BY <1>10 DEF Started, Accepted, Enter
<1>11. ASSUME NEW s \in Sockets, RejectMeta(s) \/ RejectMembers(s)
       PROVE  KnownInv'
  BY <1>11 DEF RejectMeta, RejectMembers, MeetsStart, ToldOver
<1>12. ASSUME NEW s \in Sockets, GetMeta(s) \/ RemoveMember(s)
       PROVE  KnownInv'
  BY <1>12 DEF GetMeta, RemoveMember, MeetsStart
<1>13. ASSUME NEW s \in Sockets,
              Unavailable(s) \/ CancelMeta(s) \/ GetMembers(s)
       PROVE  KnownInv'
  BY <1>13 DEF Unavailable, CancelMeta, GetMembers, ToldOver
<1>14. ASSUME NEW s \in Sockets, DelPointer(s) PROVE KnownInv'
  BY <1>14 DEF DelPointer
<1>15. ASSUME NEW s \in Sockets, DelCall(s) PROVE KnownInv'
  BY <1>15 DEF DelCall, DeleteCall
<1>16. CASE UNCHANGED vars
  BY <1>16 DEF vars
<1>17. QED
  BY <1>1, <1>2, <1>3, <1>4, <1>5, <1>6, <1>7, <1>8, <1>9, <1>10, <1>11,
     <1>12, <1>13, <1>14, <1>15, <1>16
     DEF Next, StartStep, AcceptStep, RejectStep, LeaveStep, ReapStep

\* No interleaving of starts and reaps leaves the pointer behind.
LEMMA PointerStep ==
  ASSUME TypeInv, KnownInv, PointerInv, [Next]_vars
  PROVE  PointerInv'
<1> USE CallAssumption DEF TypeOK, RequestPcs, JoinPcs, StartPcs, AcceptPcs,
      ReapPcs, LeavePcs, store, client, handlers, history, Go, Leaves,
      TypeInv, KnownInv, SharedPcs, PointerInv, PointerLeadsToCall
<1>1. ASSUME NEW s \in Sockets, Start(s) PROVE PointerInv'
  BY <1>1 DEF Start, Begin, Free, Event, Joining
<1>2. ASSUME NEW s \in Sockets, NEW c \in Calls, Accept(s, c)
      PROVE  PointerInv'
  BY <1>2 DEF Accept, Begin, Free, Event, Joining
<1>3. ASSUME NEW s \in Sockets, NEW c \in Calls, Reject(s, c)
      PROVE  PointerInv'
  BY <1>3 DEF Reject, Free, Event
<1>4. ASSUME NEW s \in Sockets, Leave(s) \/ Cancel(s) \/ Disconnect(s)
      PROVE  PointerInv'
  BY <1>4 DEF Leave, Cancel, Disconnect, StartLeave, Event
<1>5. ASSUME NEW s \in Sockets, GetPointer(s) \/ CheckMeta(s) \/ DelStale(s)
      PROVE  PointerInv'
  BY <1>5 DEF GetPointer, CheckMeta, DelStale
<1>6. ASSUME NEW s \in Sockets, CreateCall(s) PROVE PointerInv'
  BY <1>6 DEF CreateCall, Fresh
<1>7. ASSUME NEW s \in Sockets, SetPointer(s) PROVE PointerInv'
  BY <1>7 DEF SetPointer
<1>8. ASSUME NEW s \in Sockets, AcceptMeta(s) \/ AcceptMembers(s)
      PROVE  PointerInv'
  BY <1>8 DEF AcceptMeta, AcceptMembers
<1>9. ASSUME NEW s \in Sockets, AddMember(s) PROVE PointerInv'
  BY <1>9 DEF AddMember
<1>10. ASSUME NEW s \in Sockets, Started(s) \/ Accepted(s) PROVE PointerInv'
  BY <1>10 DEF Started, Accepted, Enter
<1>11. ASSUME NEW s \in Sockets, RejectMeta(s) \/ RejectMembers(s)
       PROVE  PointerInv'
  BY <1>11 DEF RejectMeta, RejectMembers, MeetsStart, ToldOver
<1>12. ASSUME NEW s \in Sockets, GetMeta(s) \/ RemoveMember(s)
       PROVE  PointerInv'
  BY <1>12 DEF GetMeta, RemoveMember, MeetsStart
<1>13. ASSUME NEW s \in Sockets,
              Unavailable(s) \/ CancelMeta(s) \/ GetMembers(s)
       PROVE  PointerInv'
  BY <1>13 DEF Unavailable, CancelMeta, GetMembers, ToldOver
<1>14. ASSUME NEW s \in Sockets, DelPointer(s) PROVE PointerInv'
  BY <1>14 DEF DelPointer
<1>15. ASSUME NEW s \in Sockets, DelCall(s) PROVE PointerInv'
  BY <1>15 DEF DelCall, DeleteCall
<1>16. CASE UNCHANGED vars
  BY <1>16 DEF vars
<1>17. QED
  BY <1>1, <1>2, <1>3, <1>4, <1>5, <1>6, <1>7, <1>8, <1>9, <1>10, <1>11,
     <1>12, <1>13, <1>14, <1>15, <1>16
     DEF Next, StartStep, AcceptStep, RejectStep, LeaveStep, ReapStep

\* The last to leave a call finds it empty.
LEMMA EmptyStep ==
  ASSUME TypeInv, EmptyInv, [Next]_vars
  PROVE  EmptyInv'
<1> USE CallAssumption DEF TypeOK, RequestPcs, JoinPcs, StartPcs, AcceptPcs,
      ReapPcs, LeavePcs, store, client, handlers, history, Go, Leaves,
      TypeInv, EmptyInv, Tended
<1>1. ASSUME NEW s \in Sockets, Start(s) PROVE EmptyInv'
  BY <1>1 DEF Start, Begin, Free, Event, Joining
<1>2. ASSUME NEW s \in Sockets, NEW c \in Calls, Accept(s, c)
      PROVE  EmptyInv'
  BY <1>2 DEF Accept, Begin, Free, Event, Joining
<1>3. ASSUME NEW s \in Sockets, NEW c \in Calls, Reject(s, c)
      PROVE  EmptyInv'
  BY <1>3 DEF Reject, Free, Event
<1>4. ASSUME NEW s \in Sockets, Leave(s) \/ Cancel(s) \/ Disconnect(s)
      PROVE  EmptyInv'
  BY <1>4 DEF Leave, Cancel, Disconnect, StartLeave, Event
<1>5. ASSUME NEW s \in Sockets, GetPointer(s) \/ CheckMeta(s) \/ DelStale(s)
      PROVE  EmptyInv'
  BY <1>5 DEF GetPointer, CheckMeta, DelStale
<1>6. ASSUME NEW s \in Sockets, CreateCall(s) PROVE EmptyInv'
  BY <1>6 DEF CreateCall, Fresh
<1>7. ASSUME NEW s \in Sockets, SetPointer(s) PROVE EmptyInv'
  BY <1>7 DEF SetPointer
<1>8. ASSUME NEW s \in Sockets, AcceptMeta(s) \/ AcceptMembers(s)
      PROVE  EmptyInv'
  BY <1>8 DEF AcceptMeta, AcceptMembers
<1>9. ASSUME NEW s \in Sockets, AddMember(s) PROVE EmptyInv'
  BY <1>9 DEF AddMember
<1>10. ASSUME NEW s \in Sockets, Started(s) \/ Accepted(s) PROVE EmptyInv'
  BY <1>10 DEF Started, Accepted, Enter
<1>11. ASSUME NEW s \in Sockets, RejectMeta(s) \/ RejectMembers(s)
       PROVE  EmptyInv'
  BY <1>11 DEF RejectMeta, RejectMembers, MeetsStart, ToldOver
<1>12. ASSUME NEW s \in Sockets, GetMeta(s) \/ RemoveMember(s)
       PROVE  EmptyInv'
  BY <1>12 DEF GetMeta, RemoveMember, MeetsStart
<1>13. ASSUME NEW s \in Sockets,
              Unavailable(s) \/ CancelMeta(s) \/ GetMembers(s)
       PROVE  EmptyInv'
  BY <1>13 DEF Unavailable, CancelMeta, GetMembers, ToldOver
<1>14. ASSUME NEW s \in Sockets, DelPointer(s) PROVE EmptyInv'
  BY <1>14 DEF DelPointer
<1>15. ASSUME NEW s \in Sockets, DelCall(s) PROVE EmptyInv'
  BY <1>15 DEF DelCall, DeleteCall
<1>16. CASE UNCHANGED vars
  BY <1>16 DEF vars
<1>17. QED
  BY <1>1, <1>2, <1>3, <1>4, <1>5, <1>6, <1>7, <1>8, <1>9, <1>10, <1>11,
     <1>12, <1>13, <1>14, <1>15, <1>16
     DEF Next, StartStep, AcceptStep, RejectStep, LeaveStep, ReapStep

\* One start after the other, and no end of a call beside it, make one call.
LEMMA OneStep ==
  ASSUME TypeInv, KnownInv, PointerInv, OneInv, [Next]_vars
  PROVE  OneInv'
<1> USE CallAssumption DEF TypeOK, RequestPcs, JoinPcs, StartPcs, AcceptPcs,
      ReapPcs, LeavePcs, store, client, handlers, history, Go, Leaves,
      TypeInv, OneInv, StartInv, EndInv, Led, Starting, Ending
<1>1. ASSUME NEW s \in Sockets, Start(s) PROVE OneInv'
  <2>1. CASE contended \/ Starting # {} \/ Ending # {}
    BY <1>1, <2>1, Zenon DEF Start
  <2>2. CASE ~ contended /\ Starting = {} /\ Ending = {}
    BY <1>1, <2>2 DEF Start, Begin, Free, Event
  <2>3. QED
    BY <2>1, <2>2
<1>2. ASSUME NEW s \in Sockets, NEW c \in Calls, Accept(s, c)
      PROVE  OneInv'
  BY <1>2 DEF Accept, Begin, Free, Event, Joining
<1>3. ASSUME NEW s \in Sockets, NEW c \in Calls, Reject(s, c)
      PROVE  OneInv'
  BY <1>3 DEF Reject, Free, Event
<1>4. ASSUME NEW s \in Sockets, Leave(s) \/ Cancel(s) \/ Disconnect(s)
      PROVE  OneInv'
  BY <1>4 DEF Leave, Cancel, Disconnect, StartLeave, Event
<1>5. ASSUME NEW s \in Sockets, GetPointer(s) \/ CheckMeta(s) \/ DelStale(s)
      PROVE  OneInv'
  <2>1. CASE GetPointer(s)
    BY <2>1 DEF GetPointer
  <2>2. CASE CheckMeta(s)
    <3>1. at[s] = "checkMeta" /\ call[s] \in Calls
      BY <2>2 DEF CheckMeta
    <3>2. ~ contended => StartInv
      BY Zenon DEF OneInv
    <3>3. ~ contended => call[s] \in meta /\ pointer = call[s]
      BY <3>1, <3>2 DEF PointerInv, PointerLeadsToCall
    <3>4. CASE contended
      BY <2>2, <3>4, Zenon DEF CheckMeta
    <3>5. CASE ~ contended
      <4>1. at' = [at EXCEPT ![s] = "addMember"] /\ pointer' = pointer
            /\ call' = call /\ leaving' = leaving /\ goes' = goes
            /\ meta' = meta /\ contended' = contended
        BY <2>2, <3>3, <3>5 DEF CheckMeta
      <4>2. at[s] = "checkMeta"
        BY <2>2 DEF CheckMeta
      <4>3. QED
        BY <3>3, <3>5, <4>1, <4>2
    <3>6. QED
      BY <3>4, <3>5
  <2>3. CASE DelStale(s)
    BY <2>3 DEF DelStale
  <2>4. QED
    BY <1>5, <2>1, <2>2, <2>3
<1>6. ASSUME NEW s \in Sockets, CreateCall(s) PROVE OneInv'
  BY <1>6 DEF CreateCall, Fresh
<1>7. ASSUME NEW s \in Sockets, SetPointer(s) PROVE OneInv'
  BY <1>7 DEF SetPointer
<1>8. ASSUME NEW s \in Sockets, AcceptMeta(s) \/ AcceptMembers(s)
      PROVE  OneInv'
  BY <1>8 DEF AcceptMeta, AcceptMembers
<1>9. ASSUME NEW s \in Sockets, AddMember(s) PROVE OneInv'
  BY <1>9 DEF AddMember
<1>10. ASSUME NEW s \in Sockets, Started(s) \/ Accepted(s) PROVE OneInv'
  BY <1>10 DEF Started, Accepted, Enter
<1>11. ASSUME NEW s \in Sockets, RejectMeta(s) \/ RejectMembers(s)
       PROVE  OneInv'
  <2>1. CASE RejectMeta(s)
    <3>1. CASE contended \/ (call[s] \in meta /\ Starting # {})
      BY <2>1, <3>1, Zenon DEF RejectMeta, MeetsStart
    <3>2. CASE ~ contended /\ (call[s] \in meta => Starting = {})
      BY <2>1, <3>2 DEF RejectMeta
    <3>3. QED
      BY <3>1, <3>2
  <2>2. CASE RejectMembers(s)
    BY <2>2 DEF RejectMembers, ToldOver
  <2>3. QED
    BY <1>11, <2>1, <2>2
<1>12. ASSUME NEW s \in Sockets, GetMeta(s) \/ RemoveMember(s)
       PROVE  OneInv'
  <2>1. CASE GetMeta(s)
    <3>1. CASE contended \/ (goes[s] \in meta /\ Starting # {})
      BY <2>1, <3>1, Zenon DEF GetMeta, MeetsStart
    <3>2. CASE ~ contended /\ (goes[s] \in meta => Starting = {})
      BY <2>1, <3>2 DEF GetMeta
    <3>3. QED
      BY <3>1, <3>2
  <2>2. CASE RemoveMember(s)
    BY <2>2 DEF RemoveMember
  <2>3. QED
    BY <1>12, <2>1, <2>2
<1>13. ASSUME NEW s \in Sockets,
              Unavailable(s) \/ CancelMeta(s) \/ GetMembers(s)
       PROVE  OneInv'
  BY <1>13 DEF Unavailable, CancelMeta, GetMembers, ToldOver
<1>14. ASSUME NEW s \in Sockets, DelPointer(s) PROVE OneInv'
  BY <1>14 DEF DelPointer
<1>15. ASSUME NEW s \in Sockets, DelCall(s) PROVE OneInv'
  BY <1>15 DEF DelCall, DeleteCall
<1>16. CASE UNCHANGED vars
  BY <1>16 DEF vars
<1>17. QED
  BY <1>1, <1>2, <1>3, <1>4, <1>5, <1>6, <1>7, <1>8, <1>9, <1>10, <1>11,
     <1>12, <1>13, <1>14, <1>15, <1>16
     DEF Next, StartStep, AcceptStep, RejectStep, LeaveStep, ReapStep

-----------------------------------------------------------------------------
(* Who offers to whom.                                                     *)

\* s is about to be removed from call c by a leave of its own.
Pend(s, c) == /\ goes[s] = c
              /\ \/ leaving[s] \in {"cancelMeta", "getMeta"} /\ c \in meta
                 \/ leaving[s] = "removeMember"

\* s has joined call c, its client shows it and has not left it since.
Joined(s, c) == /\ inCall[s] = c /\ s \in members[c] /\ at[s] \notin JoinPcs
                /\ ~ Pend(s, c)

\* s is still a member of a call that its client shows no more, without having
\* left: it was told that the call is over.
Old(s, c) == /\ s \in members[c] /\ inCall[s] # c
             /\ at[s] \in {"addMember", "started", "joinPeers", "accepted"}
                /\ call[s] = c => s \in silent

\* s has found that call c exists, or made it, and is joining it.
PastPcs == {"setPointer", "addMember", "started", "acceptMembers",
            "joinPeers", "accepted"}
Past(s, c) == at[s] \in PastPcs /\ call[s] = c

\* A client that joins is in no call; joins that overlap are noted by both;
\* and nobody has to do with a call that was not the channel's.
JoinInv ==
  /\ \A s \in Sockets : at[s] \in JoinPcs => inCall[s] = None
  /\ \A s, t \in Joining : s # t => s \in overlap[t]
  /\ \A c \in Calls \ known : members[c] = {} /\ offers[c] = {}

\* The members of a call that exists are in it, leave it, enter it, or were
\* told it is over; who offers in it is in it or leaves it.
RosterInv ==
  \A c \in meta : \A s \in Sockets :
    /\ s \in members[c] =>
         \/ Joined(s, c) \/ Pend(s, c) \/ Old(s, c)
         \/ at[s] \in {"started", "accepted"} /\ call[s] = c
    /\ \A t \in Sockets :
         <<s, t>> \in offers[c] => inCall[s] = c \/ Pend(s, c)

\* Whoever joined while s joins the same call met it, or is in the snapshot.
SnapshotInv ==
  \A c \in Calls : \A s, t \in Sockets :
    s # t /\ call[s] = c /\ t \notin overlap[s] =>
      /\ at[s] \in {"joinPeers", "accepted"} =>
           /\ Joined(t, c) => t \in peers[s]
           /\ t \in peers[s] =>
                Joined(t, c) \/ Pend(t, c) \/ Old(t, c) \/ c \notin meta
      /\ at[s] \in {"setPointer", "addMember", "started"} /\ s \notin silent
           => ~ Joined(t, c)

\* Where nothing was met, s offers to those who are still there.
OffersInv ==
  \A c \in Calls : \A s, t \in Sockets :
    /\ s # t /\ Joined(s, c) /\ s \notin silent
    /\ <<s, t>> \in offers[c] /\ t \notin overlap[s]
    => Joined(t, c) \/ Pend(t, c) \/ Old(t, c) \/ c \notin meta

Met(s, t) == s \in overlap[t] \/ t \in overlap[s]

\* Into a call that is gone come only those who were joining it together.
GoneInv ==
  \A c \in Calls \ meta : \A s, t \in Sockets :
    s # t /\ Joined(s, c) /\ (Joined(t, c) \/ Past(t, c)) => Met(s, t)

PairInv ==
  \A c \in Calls : \A s, t \in Sockets \ silent :
    s # t /\ Joined(s, c) /\ Joined(t, c) /\ ~ Met(s, t)
    => (Offers(s, t, c) <=> ~ Offers(t, s, c))

MeshInv == /\ JoinInv /\ RosterInv /\ SnapshotInv /\ OffersInv /\ GoneInv
           /\ PairInv

\* Joins note each other when the later begins.
LEMMA JoinStep ==
  ASSUME TypeInv, KnownInv, JoinInv, [Next]_vars
  PROVE  JoinInv'
<1> USE CallAssumption DEF TypeOK, RequestPcs, JoinPcs, StartPcs, AcceptPcs,
      ReapPcs, LeavePcs, store, client, handlers, history, Go, Leaves,
      TypeInv, KnownInv, SharedPcs, JoinInv, Joining
<1>1. ASSUME NEW s \in Sockets, Start(s) PROVE JoinInv'
  BY <1>1 DEF Start, Begin, Free, Event, Joining
<1>2. ASSUME NEW s \in Sockets, NEW c \in Calls, Accept(s, c)
      PROVE  JoinInv'
  BY <1>2 DEF Accept, Begin, Free, Event, Joining
<1>3. ASSUME NEW s \in Sockets, NEW c \in Calls, Reject(s, c)
      PROVE  JoinInv'
  BY <1>3 DEF Reject, Free, Event
<1>4. ASSUME NEW s \in Sockets, Leave(s) \/ Cancel(s) \/ Disconnect(s)
      PROVE  JoinInv'
  BY <1>4 DEF Leave, Cancel, Disconnect, StartLeave, Event
<1>5. ASSUME NEW s \in Sockets, GetPointer(s) \/ CheckMeta(s) \/ DelStale(s)
      PROVE  JoinInv'
  BY <1>5 DEF GetPointer, CheckMeta, DelStale
<1>6. ASSUME NEW s \in Sockets, CreateCall(s) PROVE JoinInv'
  BY <1>6 DEF CreateCall, Fresh
<1>7. ASSUME NEW s \in Sockets, SetPointer(s) PROVE JoinInv'
  BY <1>7 DEF SetPointer
<1>8. ASSUME NEW s \in Sockets, AcceptMeta(s) \/ AcceptMembers(s)
      PROVE  JoinInv'
  BY <1>8 DEF AcceptMeta, AcceptMembers
<1>9. ASSUME NEW s \in Sockets, AddMember(s) PROVE JoinInv'
  BY <1>9 DEF AddMember
<1>10. ASSUME NEW s \in Sockets, Started(s) \/ Accepted(s) PROVE JoinInv'
  BY <1>10 DEF Started, Accepted, Enter
<1>11. ASSUME NEW s \in Sockets, RejectMeta(s) \/ RejectMembers(s)
       PROVE  JoinInv'
  BY <1>11 DEF RejectMeta, RejectMembers, MeetsStart, ToldOver
<1>12. ASSUME NEW s \in Sockets, GetMeta(s) \/ RemoveMember(s)
       PROVE  JoinInv'
  BY <1>12 DEF GetMeta, RemoveMember, MeetsStart
<1>13. ASSUME NEW s \in Sockets,
              Unavailable(s) \/ CancelMeta(s) \/ GetMembers(s)
       PROVE  JoinInv'
  BY <1>13 DEF Unavailable, CancelMeta, GetMembers, ToldOver
<1>14. ASSUME NEW s \in Sockets, DelPointer(s) PROVE JoinInv'
  BY <1>14 DEF DelPointer
<1>15. ASSUME NEW s \in Sockets, DelCall(s) PROVE JoinInv'
  BY <1>15 DEF DelCall, DeleteCall
<1>16. CASE UNCHANGED vars
  BY <1>16 DEF vars
<1>17. QED
  BY <1>1, <1>2, <1>3, <1>4, <1>5, <1>6, <1>7, <1>8, <1>9, <1>10, <1>11,
     <1>12, <1>13, <1>14, <1>15, <1>16
     DEF Next, StartStep, AcceptStep, RejectStep, LeaveStep, ReapStep

\* A leave that finds the call takes its socket off the roster.
LEMMA RosterStep ==
  ASSUME TypeInv, KnownInv, JoinInv, RosterInv, [Next]_vars
  PROVE  RosterInv'
<1> USE CallAssumption DEF TypeOK, RequestPcs, JoinPcs, StartPcs, AcceptPcs,
      ReapPcs, LeavePcs, store, client, handlers, history, Go, Leaves,
      TypeInv, KnownInv, SharedPcs, JoinInv, Joining, Pend, Old, Joined,
      RosterInv
<1>1. ASSUME NEW s \in Sockets, Start(s) PROVE RosterInv'
  BY <1>1 DEF Start, Begin, Free, Event, Joining
<1>2. ASSUME NEW s \in Sockets, NEW c \in Calls, Accept(s, c)
      PROVE  RosterInv'
  BY <1>2 DEF Accept, Begin, Free, Event, Joining
<1>3. ASSUME NEW s \in Sockets, NEW c \in Calls, Reject(s, c)
      PROVE  RosterInv'
  BY <1>3 DEF Reject, Free, Event
<1>4. ASSUME NEW s \in Sockets, Leave(s) \/ Cancel(s) \/ Disconnect(s)
      PROVE  RosterInv'
  BY <1>4 DEF Leave, Cancel, Disconnect, StartLeave, Event
<1>5. ASSUME NEW s \in Sockets, GetPointer(s) \/ CheckMeta(s) \/ DelStale(s)
      PROVE  RosterInv'
  BY <1>5 DEF GetPointer, CheckMeta, DelStale
<1>6. ASSUME NEW s \in Sockets, CreateCall(s) PROVE RosterInv'
  BY <1>6 DEF CreateCall, Fresh
<1>7. ASSUME NEW s \in Sockets, SetPointer(s) PROVE RosterInv'
  BY <1>7 DEF SetPointer
<1>8. ASSUME NEW s \in Sockets, AcceptMeta(s) \/ AcceptMembers(s)
      PROVE  RosterInv'
  BY <1>8 DEF AcceptMeta, AcceptMembers
<1>9. ASSUME NEW s \in Sockets, AddMember(s) PROVE RosterInv'
  BY <1>9 DEF AddMember
<1>10. ASSUME NEW s \in Sockets, Started(s) \/ Accepted(s) PROVE RosterInv'
  BY <1>10 DEF Started, Accepted, Enter
<1>11. ASSUME NEW s \in Sockets, RejectMeta(s) \/ RejectMembers(s)
       PROVE  RosterInv'
  BY <1>11 DEF RejectMeta, RejectMembers, MeetsStart, ToldOver
<1>12. ASSUME NEW s \in Sockets, GetMeta(s) \/ RemoveMember(s)
       PROVE  RosterInv'
  BY <1>12 DEF GetMeta, RemoveMember, MeetsStart
<1>13. ASSUME NEW s \in Sockets,
              Unavailable(s) \/ CancelMeta(s) \/ GetMembers(s)
       PROVE  RosterInv'
  BY <1>13 DEF Unavailable, CancelMeta, GetMembers, ToldOver
<1>14. ASSUME NEW s \in Sockets, DelPointer(s) PROVE RosterInv'
  BY <1>14 DEF DelPointer
<1>15. ASSUME NEW s \in Sockets, DelCall(s) PROVE RosterInv'
  BY <1>15 DEF DelCall, DeleteCall
<1>16. CASE UNCHANGED vars
  BY <1>16 DEF vars
<1>17. QED
  BY <1>1, <1>2, <1>3, <1>4, <1>5, <1>6, <1>7, <1>8, <1>9, <1>10, <1>11,
     <1>12, <1>13, <1>14, <1>15, <1>16
     DEF Next, StartStep, AcceptStep, RejectStep, LeaveStep, ReapStep

\* A join that another has not met reads a roster that stays.
LEMMA SnapshotStep ==
  ASSUME TypeInv, KnownInv, JoinInv, RosterInv, SnapshotInv, [Next]_vars
  PROVE  SnapshotInv'
<1> USE CallAssumption DEF TypeOK, RequestPcs, JoinPcs, StartPcs, AcceptPcs,
      ReapPcs, LeavePcs, store, client, handlers, history, Go, Leaves,
      TypeInv, KnownInv, SharedPcs, JoinInv, Joining, Pend, Old, Joined,
      RosterInv, SnapshotInv
<1>1. ASSUME NEW s \in Sockets, Start(s) PROVE SnapshotInv'
  BY <1>1 DEF Start, Begin, Free, Event, Joining
<1>2. ASSUME NEW s \in Sockets, NEW c \in Calls, Accept(s, c)
      PROVE  SnapshotInv'
  BY <1>2 DEF Accept, Begin, Free, Event, Joining
<1>3. ASSUME NEW s \in Sockets, NEW c \in Calls, Reject(s, c)
      PROVE  SnapshotInv'
  BY <1>3 DEF Reject, Free, Event
<1>4. ASSUME NEW s \in Sockets, Leave(s) \/ Cancel(s) \/ Disconnect(s)
      PROVE  SnapshotInv'
  BY <1>4 DEF Leave, Cancel, Disconnect, StartLeave, Event
<1>5. ASSUME NEW s \in Sockets, GetPointer(s) \/ CheckMeta(s) \/ DelStale(s)
      PROVE  SnapshotInv'
  BY <1>5 DEF GetPointer, CheckMeta, DelStale
<1>6. ASSUME NEW s \in Sockets, CreateCall(s) PROVE SnapshotInv'
  BY <1>6 DEF CreateCall, Fresh
<1>7. ASSUME NEW s \in Sockets, SetPointer(s) PROVE SnapshotInv'
  BY <1>7 DEF SetPointer
<1>8. ASSUME NEW s \in Sockets, AcceptMeta(s) \/ AcceptMembers(s)
      PROVE  SnapshotInv'
  BY <1>8 DEF AcceptMeta, AcceptMembers
<1>9. ASSUME NEW s \in Sockets, AddMember(s) PROVE SnapshotInv'
  BY <1>9 DEF AddMember
<1>10. ASSUME NEW s \in Sockets, Started(s) \/ Accepted(s) PROVE SnapshotInv'
  BY <1>10 DEF Started, Accepted, Enter
<1>11. ASSUME NEW s \in Sockets, RejectMeta(s) \/ RejectMembers(s)
       PROVE  SnapshotInv'
  BY <1>11 DEF RejectMeta, RejectMembers, MeetsStart, ToldOver
<1>12. ASSUME NEW s \in Sockets, GetMeta(s) \/ RemoveMember(s)
       PROVE  SnapshotInv'
  <2>1. CASE GetMeta(s)
    BY <2>1 DEF GetMeta
  <2>2. CASE RemoveMember(s)
    BY <2>2 DEF RemoveMember
  <2>3. QED
    BY <1>12, <2>1, <2>2
<1>13. ASSUME NEW s \in Sockets,
              Unavailable(s) \/ CancelMeta(s) \/ GetMembers(s)
       PROVE  SnapshotInv'
  BY <1>13 DEF Unavailable, CancelMeta, GetMembers, ToldOver
<1>14. ASSUME NEW s \in Sockets, DelPointer(s) PROVE SnapshotInv'
  BY <1>14 DEF DelPointer
<1>15. ASSUME NEW s \in Sockets, DelCall(s) PROVE SnapshotInv'
  BY <1>15 DEF DelCall, DeleteCall
<1>16. CASE UNCHANGED vars
  BY <1>16 DEF vars
<1>17. QED
  BY <1>1, <1>2, <1>3, <1>4, <1>5, <1>6, <1>7, <1>8, <1>9, <1>10, <1>11,
     <1>12, <1>13, <1>14, <1>15, <1>16
     DEF Next, StartStep, AcceptStep, RejectStep, LeaveStep, ReapStep

\* An offer stands while both are there.
LEMMA OffersStep ==
  ASSUME TypeInv, KnownInv, JoinInv, RosterInv, SnapshotInv, OffersInv,
         [Next]_vars
  PROVE  OffersInv'
<1> USE CallAssumption DEF TypeOK, RequestPcs, JoinPcs, StartPcs, AcceptPcs,
      ReapPcs, LeavePcs, store, client, handlers, history, Go, Leaves,
      TypeInv, KnownInv, SharedPcs, JoinInv, Joining, Pend, Old, Joined,
      RosterInv, SnapshotInv, OffersInv
<1>1. ASSUME NEW s \in Sockets, Start(s) PROVE OffersInv'
  BY <1>1 DEF Start, Begin, Free, Event, Joining
<1>2. ASSUME NEW s \in Sockets, NEW c \in Calls, Accept(s, c)
      PROVE  OffersInv'
  BY <1>2 DEF Accept, Begin, Free, Event, Joining
<1>3. ASSUME NEW s \in Sockets, NEW c \in Calls, Reject(s, c)
      PROVE  OffersInv'
  BY <1>3 DEF Reject, Free, Event
<1>4. ASSUME NEW s \in Sockets, Leave(s) \/ Cancel(s) \/ Disconnect(s)
      PROVE  OffersInv'
  BY <1>4 DEF Leave, Cancel, Disconnect, StartLeave, Event
<1>5. ASSUME NEW s \in Sockets, GetPointer(s) \/ CheckMeta(s) \/ DelStale(s)
      PROVE  OffersInv'
  BY <1>5 DEF GetPointer, CheckMeta, DelStale
<1>6. ASSUME NEW s \in Sockets, CreateCall(s) PROVE OffersInv'
  BY <1>6 DEF CreateCall, Fresh
<1>7. ASSUME NEW s \in Sockets, SetPointer(s) PROVE OffersInv'
  BY <1>7 DEF SetPointer
<1>8. ASSUME NEW s \in Sockets, AcceptMeta(s) \/ AcceptMembers(s)
      PROVE  OffersInv'
  BY <1>8 DEF AcceptMeta, AcceptMembers
<1>9. ASSUME NEW s \in Sockets, AddMember(s) PROVE OffersInv'
  BY <1>9 DEF AddMember
<1>10. ASSUME NEW s \in Sockets, Started(s) \/ Accepted(s) PROVE OffersInv'
  <2> SUFFICES ASSUME NEW c \in Calls, NEW a \in Sockets, NEW t \in Sockets,
                      a # t, Joined(a, c)', a \notin silent',
                      <<a, t>> \in offers'[c], t \notin overlap'[a],
                      c \in meta'
               PROVE  Joined(t, c)' \/ Pend(t, c)' \/ Old(t, c)'
    OBVIOUS
  <2>1. /\ UNCHANGED <<meta, members, goes, leaving, overlap, silent, call>>
        /\ at[s] \in {"started", "accepted"} /\ inCall'[s] = call[s]
        /\ at'[s] = "idle"
        /\ \A x \in Sockets : x # s => at'[x] = at[x]
        /\ \A x \in Sockets : x # s => inCall'[x] = inCall[x]
    <3>1. CASE Started(s)
      BY <3>1 DEF Started, Enter
    <3>2. CASE Accepted(s)
      BY <3>2 DEF Accepted, Enter
    <3>3. QED
      BY <1>10, <3>1, <3>2
  <2>2. CASE a # s
    <3>1. <<a, t>> \in offers[c]
      BY <1>10, <2>2 DEF Started, Accepted
    <3>2. Joined(a, c)
      BY <2>1, <2>2
    <3>3. Joined(t, c) \/ Pend(t, c) \/ Old(t, c)
      BY <2>1, <3>1, <3>2
    <3>4. CASE t # s
      BY <2>1, <3>3, <3>4
    <3>5. CASE t = s /\ call[s] = c
      BY <2>1, <3>3, <3>5
    <3>6. CASE t = s /\ call[s] # c
      BY <2>1, <3>3, <3>6
    <3>7. QED
      BY <3>4, <3>5, <3>6
  <2>3. CASE a = s
    <3>1. ~ Pend(s, c) /\ inCall[s] = None
      BY <2>1, <2>3
    <3>2. <<s, t>> \notin offers[c]
      BY <2>1, <3>1
    <3>3. Accepted(s) /\ c = call[s] /\ t \in peers[s]
      BY <1>10, <2>3, <3>2 DEF Started, Accepted
    <3>4. Joined(t, c) \/ Pend(t, c) \/ Old(t, c)
      BY <2>1, <2>3, <3>3 DEF Accepted
    <3>5. QED
      BY <2>1, <2>3, <3>4
  <2>4. QED
    BY <2>2, <2>3
<1>11. ASSUME NEW s \in Sockets, RejectMeta(s) \/ RejectMembers(s)
       PROVE  OffersInv'
  BY <1>11 DEF RejectMeta, RejectMembers, MeetsStart, ToldOver
<1>12. ASSUME NEW s \in Sockets, GetMeta(s) \/ RemoveMember(s)
       PROVE  OffersInv'
  <2>1. CASE GetMeta(s)
    BY <2>1 DEF GetMeta
  <2>2. CASE RemoveMember(s)
    <3> SUFFICES ASSUME NEW c \in Calls, NEW a \in Sockets,
                        NEW t \in Sockets, a # t, Joined(a, c)',
                        a \notin silent',
                        <<a, t>> \in offers'[c], t \notin overlap'[a],
                        c \in meta'
                 PROVE  Joined(t, c)' \/ Pend(t, c)' \/ Old(t, c)'
      OBVIOUS
    <3>1. <<a, t>> \in offers[c] /\ (goes[s] = c => s # a /\ s # t)
      BY <2>2 DEF RemoveMember
    <3>2. Joined(a, c) /\ t \notin overlap[a]
      BY <2>2, <3>1 DEF RemoveMember
    <3>3. Joined(t, c) \/ Pend(t, c) \/ Old(t, c)
      BY <2>2, <3>1, <3>2 DEF RemoveMember
    <3>4. QED
      BY <2>2, <3>1, <3>3 DEF RemoveMember
  <2>3. QED
    BY <1>12, <2>1, <2>2
<1>13. ASSUME NEW s \in Sockets,
              Unavailable(s) \/ CancelMeta(s) \/ GetMembers(s)
       PROVE  OffersInv'
  BY <1>13 DEF Unavailable, CancelMeta, GetMembers, ToldOver
<1>14. ASSUME NEW s \in Sockets, DelPointer(s) PROVE OffersInv'
  BY <1>14 DEF DelPointer
<1>15. ASSUME NEW s \in Sockets, DelCall(s) PROVE OffersInv'
  <2>1. CASE at[s] = "delCall" /\ Go(s, "idle") /\ UNCHANGED leaving
             /\ DeleteCall(call[s])
    BY <1>15, <2>1 DEF DelCall, DeleteCall
  <2>2. CASE leaving[s] = "delCall" /\ Leaves(s, "idle") /\ UNCHANGED at
             /\ DeleteCall(goes[s])
    BY <1>15, <2>2 DEF DelCall, DeleteCall
  <2>3. QED
    BY <1>15, <2>1, <2>2 DEF DelCall
<1>16. CASE UNCHANGED vars
  BY <1>16 DEF vars
<1>17. QED
  BY <1>1, <1>2, <1>3, <1>4, <1>5, <1>6, <1>7, <1>8, <1>9, <1>10, <1>11,
     <1>12, <1>13, <1>14, <1>15, <1>16
     DEF Next, StartStep, AcceptStep, RejectStep, LeaveStep, ReapStep

\* Nobody finds a call that is gone.
LEMMA GoneStep ==
  ASSUME TypeInv, KnownInv, JoinInv, GoneInv, [Next]_vars
  PROVE  GoneInv'
<1> USE CallAssumption DEF TypeOK, RequestPcs, JoinPcs, StartPcs, AcceptPcs,
      ReapPcs, LeavePcs, store, client, handlers, history, Go, Leaves,
      TypeInv, KnownInv, SharedPcs, JoinInv, Joining, Pend, Old, Joined,
      Past, PastPcs, Met, GoneInv
<1>1. ASSUME NEW s \in Sockets, Start(s) PROVE GoneInv'
  BY <1>1 DEF Start, Begin, Free, Event, Joining
<1>2. ASSUME NEW s \in Sockets, NEW c \in Calls, Accept(s, c)
      PROVE  GoneInv'
  BY <1>2 DEF Accept, Begin, Free, Event, Joining
<1>3. ASSUME NEW s \in Sockets, NEW c \in Calls, Reject(s, c)
      PROVE  GoneInv'
  BY <1>3 DEF Reject, Free, Event
<1>4. ASSUME NEW s \in Sockets, Leave(s) \/ Cancel(s) \/ Disconnect(s)
      PROVE  GoneInv'
  BY <1>4 DEF Leave, Cancel, Disconnect, StartLeave, Event
<1>5. ASSUME NEW s \in Sockets, GetPointer(s) \/ CheckMeta(s) \/ DelStale(s)
      PROVE  GoneInv'
  BY <1>5 DEF GetPointer, CheckMeta, DelStale
<1>6. ASSUME NEW s \in Sockets, CreateCall(s) PROVE GoneInv'
  BY <1>6 DEF CreateCall, Fresh
<1>7. ASSUME NEW s \in Sockets, SetPointer(s) PROVE GoneInv'
  BY <1>7 DEF SetPointer
<1>8. ASSUME NEW s \in Sockets, AcceptMeta(s) \/ AcceptMembers(s)
      PROVE  GoneInv'
  BY <1>8 DEF AcceptMeta, AcceptMembers
<1>9. ASSUME NEW s \in Sockets, AddMember(s) PROVE GoneInv'
  BY <1>9 DEF AddMember
<1>10. ASSUME NEW s \in Sockets, Started(s) \/ Accepted(s) PROVE GoneInv'
  BY <1>10 DEF Started, Accepted, Enter
<1>11. ASSUME NEW s \in Sockets, RejectMeta(s) \/ RejectMembers(s)
       PROVE  GoneInv'
  BY <1>11 DEF RejectMeta, RejectMembers, MeetsStart, ToldOver
<1>12. ASSUME NEW s \in Sockets, GetMeta(s) \/ RemoveMember(s)
       PROVE  GoneInv'
  <2>1. CASE GetMeta(s)
    BY <2>1 DEF GetMeta
  <2>2. CASE RemoveMember(s)
    BY <2>2 DEF RemoveMember
  <2>3. QED
    BY <1>12, <2>1, <2>2
<1>13. ASSUME NEW s \in Sockets,
              Unavailable(s) \/ CancelMeta(s) \/ GetMembers(s)
       PROVE  GoneInv'
  BY <1>13 DEF Unavailable, CancelMeta, GetMembers, ToldOver
<1>14. ASSUME NEW s \in Sockets, DelPointer(s) PROVE GoneInv'
  BY <1>14 DEF DelPointer
<1>15. ASSUME NEW s \in Sockets, DelCall(s) PROVE GoneInv'
  <2>1. CASE at[s] = "delCall" /\ Go(s, "idle") /\ UNCHANGED leaving
             /\ DeleteCall(call[s])
    BY <1>15, <2>1 DEF DelCall, DeleteCall
  <2>2. CASE leaving[s] = "delCall" /\ Leaves(s, "idle") /\ UNCHANGED at
             /\ DeleteCall(goes[s])
    BY <1>15, <2>2 DEF DelCall, DeleteCall
  <2>3. QED
    BY <1>15, <2>1, <2>2 DEF DelCall
<1>16. CASE UNCHANGED vars
  BY <1>16 DEF vars
<1>17. QED
  BY <1>1, <1>2, <1>3, <1>4, <1>5, <1>6, <1>7, <1>8, <1>9, <1>10, <1>11,
     <1>12, <1>13, <1>14, <1>15, <1>16
     DEF Next, StartStep, AcceptStep, RejectStep, LeaveStep, ReapStep

\* The later of two offers, and the earlier does not.
LEMMA PairStep ==
  ASSUME TypeInv, KnownInv, JoinInv, RosterInv, SnapshotInv, OffersInv,
         GoneInv, PairInv, [Next]_vars
  PROVE  PairInv'
<1> USE CallAssumption DEF TypeOK, RequestPcs, JoinPcs, StartPcs, AcceptPcs,
      ReapPcs, LeavePcs, store, client, handlers, history, Go, Leaves,
      TypeInv, KnownInv, SharedPcs, JoinInv, Joining, Pend, Old, Joined,
      Past, PastPcs, Met, Offers, PairInv
<1>1. ASSUME NEW s \in Sockets, Start(s) PROVE PairInv'
  BY <1>1 DEF Start, Begin, Free, Event, Joining
<1>2. ASSUME NEW s \in Sockets, NEW c \in Calls, Accept(s, c)
      PROVE  PairInv'
  BY <1>2 DEF Accept, Begin, Free, Event, Joining
<1>3. ASSUME NEW s \in Sockets, NEW c \in Calls, Reject(s, c)
      PROVE  PairInv'
  BY <1>3 DEF Reject, Free, Event
<1>4. ASSUME NEW s \in Sockets, Leave(s) \/ Cancel(s) \/ Disconnect(s)
      PROVE  PairInv'
  BY <1>4 DEF Leave, Cancel, Disconnect, StartLeave, Event
<1>5. ASSUME NEW s \in Sockets, GetPointer(s) \/ CheckMeta(s) \/ DelStale(s)
      PROVE  PairInv'
  <2>1. CASE CheckMeta(s)
    BY <2>1 DEF CheckMeta
  <2>2. CASE GetPointer(s) \/ DelStale(s)
    BY <2>2 DEF GetPointer, DelStale
  <2>3. QED
    BY <1>5, <2>1, <2>2
<1>6. ASSUME NEW s \in Sockets, CreateCall(s) PROVE PairInv'
  BY <1>6 DEF CreateCall, Fresh
<1>7. ASSUME NEW s \in Sockets, SetPointer(s) PROVE PairInv'
  BY <1>7 DEF SetPointer
<1>8. ASSUME NEW s \in Sockets, AcceptMeta(s) \/ AcceptMembers(s)
      PROVE  PairInv'
  BY <1>8 DEF AcceptMeta, AcceptMembers
<1>9. ASSUME NEW s \in Sockets, AddMember(s) PROVE PairInv'
  BY <1>9 DEF AddMember
<1>10. ASSUME NEW s \in Sockets, Started(s) \/ Accepted(s) PROVE PairInv'
  <2> SUFFICES ASSUME NEW c \in Calls PROVE
        \A a, b \in Sockets \ silent' :
          a # b /\ Joined(a, c)' /\ Joined(b, c)' /\ ~ Met(a, b)'
          => (Offers(a, b, c)' <=> ~ Offers(b, a, c)')
    OBVIOUS
  <2>1. /\ UNCHANGED <<meta, members, goes, leaving, overlap, silent, call>>
        /\ at[s] \in {"started", "accepted"} /\ inCall'[s] = call[s]
        /\ \A x \in Sockets : x # s => at'[x] = at[x]
        /\ \A x \in Sockets : x # s => inCall'[x] = inCall[x]
    <3>1. CASE Started(s)
      BY <3>1 DEF Started, Enter
    <3>2. CASE Accepted(s)
      BY <3>2 DEF Accepted, Enter
    <3>3. QED
      BY <1>10, <3>1, <3>2
  <2>2. ASSUME NEW a \in Sockets, a # s
        PROVE  /\ Joined(a, c)' => Joined(a, c)
               /\ \A b \in Sockets : Offers(a, b, c)' <=> Offers(a, b, c)
    <3>1. Joined(a, c)' => Joined(a, c)
      BY <2>1, <2>2
    <3>2. CASE Started(s)
      BY <3>1, <3>2 DEF Started
    <3>3. CASE Accepted(s)
      BY <3>1, <3>3, <2>2 DEF Accepted
    <3>4. QED
      BY <1>10, <3>2, <3>3
  <2>3. ASSUME NEW t \in Sockets \ silent, s # t, s \notin silent,
               Joined(s, c)', Joined(t, c)', ~ Met(s, t)'
        PROVE  Offers(s, t, c)' /\ ~ Offers(t, s, c)'
    <3>1. Joined(t, c) /\ t \notin overlap[s] /\ s \notin overlap[t]
      BY <2>1, <2>2, <2>3
    <3>2. c = call[s]
      BY <2>1, <2>3
    <3>3. at[s] = "accepted" /\ t \in peers[s]
      BY <2>1, <2>3, <3>1, <3>2 DEF SnapshotInv
    <3>4. Accepted(s) /\ Offers(s, t, c)'
      BY <1>10, <3>2, <3>3 DEF Started, Accepted
    <3>5. ~ Joined(s, c) /\ ~ Pend(s, c) /\ ~ Old(s, c)
      BY <2>1, <2>3, <3>2
    <3>6. c \in meta
      BY <3>1, <3>2, <3>3, <2>3 DEF GoneInv
    <3>7. <<t, s>> \notin offers[c]
      BY <2>3, <3>1, <3>5, <3>6 DEF OffersInv
    <3>8. QED
      BY <2>2, <2>3, <3>4, <3>7
  <2>4. TAKE a, b \in Sockets \ silent'
  <2>5. CASE s \notin {a, b}
    BY <2>1, <2>2, <2>5
  <2>6. CASE s = a
    BY <2>1, <2>3, <2>6
  <2>7. CASE s = b
    BY <2>1, <2>3, <2>7
  <2>8. QED
    BY <2>5, <2>6, <2>7
<1>11. ASSUME NEW s \in Sockets, RejectMeta(s) \/ RejectMembers(s)
       PROVE  PairInv'
  BY <1>11 DEF RejectMeta, RejectMembers, MeetsStart, ToldOver
<1>12. ASSUME NEW s \in Sockets, GetMeta(s) \/ RemoveMember(s)
       PROVE  PairInv'
  BY <1>12 DEF GetMeta, RemoveMember, MeetsStart
<1>13. ASSUME NEW s \in Sockets,
              Unavailable(s) \/ CancelMeta(s) \/ GetMembers(s)
       PROVE  PairInv'
  BY <1>13 DEF Unavailable, CancelMeta, GetMembers, ToldOver
<1>14. ASSUME NEW s \in Sockets, DelPointer(s) PROVE PairInv'
  BY <1>14 DEF DelPointer
<1>15. ASSUME NEW s \in Sockets, DelCall(s) PROVE PairInv'
  BY <1>15 DEF DelCall, DeleteCall
<1>16. CASE UNCHANGED vars
  BY <1>16 DEF vars
<1>17. QED
  BY <1>1, <1>2, <1>3, <1>4, <1>5, <1>6, <1>7, <1>8, <1>9, <1>10, <1>11,
     <1>12, <1>13, <1>14, <1>15, <1>16
     DEF Next, StartStep, AcceptStep, RejectStep, LeaveStep, ReapStep

-----------------------------------------------------------------------------
\* What every step keeps.
IInv == /\ TypeInv /\ KnownInv /\ PointerInv /\ EmptyInv /\ OneInv
        /\ MeshInv

\* No call, no member, every handler idle.
LEMMA InitInv == Init => IInv
<1> SUFFICES ASSUME Init PROVE IInv
  OBVIOUS
<1> USE CallAssumption DEF Init, RequestPcs, JoinPcs, StartPcs, AcceptPcs,
      ReapPcs, LeavePcs, SharedPcs
<1>1. TypeInv
  BY DEF TypeInv, TypeOK
<1>2. KnownInv
  BY DEF KnownInv
<1>3. PointerInv /\ EmptyInv
  BY DEF PointerInv, PointerLeadsToCall, EmptyInv
<1>4. OneInv
  BY DEF OneInv, StartInv, EndInv, Starting, Ending
<1>5. MeshInv
  BY DEF MeshInv, JoinInv, RosterInv, SnapshotInv, OffersInv, GoneInv,
         PairInv, Joining, Joined, Pend
<1>6. QED
  BY <1>1, <1>2, <1>3, <1>4, <1>5 DEF IInv

\* In every behaviour, for any sockets and any number of requests.
THEOREM Invariance == Spec => []IInv
<1>1. IInv /\ [Next]_vars => IInv'
  <2>1. IInv /\ [Next]_vars => MeshInv'
    BY JoinStep, RosterStep, SnapshotStep, OffersStep, GoneStep, PairStep
       DEF IInv, MeshInv
  <2>2. QED
    BY <2>1, TypeStep, KnownStep, PointerStep, EmptyStep, OneStep DEF IInv
<1>2. QED
  BY <1>1, InitInv, PTL DEF Spec

\* The call keys and the positions of the handlers keep their types.
THEOREM TypeCorrect == Spec => []TypeOK
<1>1. IInv => TypeOK
  BY DEF IInv, TypeInv
<1>2. QED
  BY <1>1, Invariance, PTL

\* The channel's pointer is never stale.
THEOREM PointerIsNeverStale == Spec => []PointerLeadsToCall
<1>1. IInv => PointerLeadsToCall
  BY DEF IInv, PointerInv
<1>2. QED
  BY <1>1, Invariance, PTL

\* A call that all its members have left is reaped.
THEOREM NoEmptyCallStays == Spec => []EmptyCallIsReaped
<1>1. IInv => EmptyCallIsReaped
  BY DEF IInv, EmptyInv, EmptyCallIsReaped, Tended, InFlight, ReapPcs
<1>2. QED
  BY <1>1, Invariance, PTL

\* Where no start met another, or an end, the channel has one call.
THEOREM OneCall == Spec => []OneCallUnlessContended
<1>1. IInv => OneCallUnlessContended
  <2>1. ASSUME \A c \in meta : Led(c)
        PROVE  OneCallUnlessContended
    BY <2>1 DEF OneCallUnlessContended, Live, Led, InFlight
  <2>2. ASSUME contended PROVE OneCallUnlessContended
    BY <2>2, Zenon DEF OneCallUnlessContended
  <2>3. QED
    BY <2>1, <2>2 DEF IInv, OneInv
<1>2. QED
  BY <1>1, Invariance, PTL

\* Of two settled members who joined once and met nobody's join or leave, one
\* offers to the other and not the other way too.
THEOREM MeshIsComplete == Spec => []MeshUnlessRaced
<1>1. IInv => MeshUnlessRaced
  <2>1. ASSUME NEW s \in Sockets, NEW c \in Calls, Settled(s, c)
        PROVE  Joined(s, c)
    BY <2>1 DEF Settled, Joined, Pend, JoinPcs, StartPcs, AcceptPcs
  <2>2. QED
    BY <2>1 DEF IInv, MeshInv, PairInv, Met, MeshUnlessRaced
<1>2. QED
  BY <1>1, Invariance, PTL
=============================================================================
