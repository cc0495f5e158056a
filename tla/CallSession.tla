---------------------------- MODULE CallSession ----------------------------
(***************************************************************************)
(* The call control plane of one channel: webrtc.handler.js and            *)
(* call.controller.js over the call keys of redis.service.js.  A channel   *)
(* is an ephemeral room (a group call) or a conversation of two (a DM).    *)
(*                                                                         *)
(* As in RoomAccess one action is one awaited Redis call taking effect     *)
(* with the code up to the next one; at[s] is the call that the handler of *)
(* a start, accept or reject of socket s waits for, leaving[s] that of its *)
(* leaveCall.  The Redis TTLs of four hours do not run out here.  The      *)
(* per-user markers are left out: no code reads them.                      *)
(***************************************************************************)
EXTENDS Naturals, FiniteSets

CONSTANTS Sockets,   \* connections that may name the channel
          Calls,     \* the call ids that randomUUID may return
          None,      \* no call
          MaxEvents  \* bound: requests and disconnects

ASSUME CallAssumption == None \notin Calls /\ MaxEvents \in Nat

VARIABLES
  group,     \* the channel is an ephemeral room
  meta,      \* calls with a call:<id>:meta key
  members,   \* the fields of call:<id>:members
  pointer,   \* the call that channel:<channel>:call names
  callOf,    \* socket.data.callId
  inCall,    \* the call its client shows, by what it was told and sent
  link,      \* the sockets that are connected
  at,        \* the awaited call of the start, accept or reject in flight
  call,      \* the callId it works on
  peers,     \* accept: the members read before the socket adds itself
  leaving,   \* the awaited call of the leaveCall in flight
  goes,      \* the callId it works on
  offers,    \* who was told to offer to whom, while both are members
  known,     \* calls that were the channel's call at some time
  overlap,   \* per socket: those whose join or leave met its join (history)
  silent,    \* sockets that joined by call:start, or twice (history)
  contended, \* a start met another or a leave or reject (history)
  events     \* requests and disconnects so far

store == <<meta, members, pointer>>
client == <<callOf, inCall, link>>
handlers == <<at, call, peers, leaving, goes>>
history == <<overlap, silent, contended>>
vars == <<group, store, client, handlers, offers, known, history, events>>

StartPcs == {"getPointer", "checkMeta", "delStale", "createCall",
             "setPointer", "addMember", "started"}
AcceptPcs == {"acceptMeta", "acceptMembers", "joinPeers", "accepted"}
ReapPcs == {"delPointer", "delCall"}
JoinPcs == StartPcs \cup AcceptPcs
RequestPcs == {"idle", "rejectMeta", "rejectMembers"} \cup JoinPcs \cup ReapPcs
LeavePcs ==
  {"idle", "cancelMeta", "getMeta", "removeMember", "getMembers"} \cup ReapPcs

Init ==
  /\ group \in BOOLEAN
  /\ meta = {} /\ members = [c \in Calls |-> {}] /\ pointer = None
  /\ callOf = [s \in Sockets |-> None] /\ inCall = [s \in Sockets |-> None]
  /\ link = Sockets
  /\ at = [s \in Sockets |-> "idle"]
  /\ call = [s \in Sockets |-> None]
  /\ peers = [s \in Sockets |-> {}]
  /\ leaving = [s \in Sockets |-> "idle"]
  /\ goes = [s \in Sockets |-> None]
  /\ offers = [c \in Calls |-> {}]
  /\ known = {}
  /\ overlap = [s \in Sockets |-> {}]
  /\ silent = {} /\ contended = FALSE
  /\ events = 0

Event == events < MaxEvents /\ events' = events + 1
Go(s, pc) == at' = [at EXCEPT ![s] = pc]

Joining == {s \in Sockets : at[s] \in JoinPcs}
Starting == {s \in Sockets : at[s] \in StartPcs}

\* Leaves and rejects that found their call and may reap it.
Ending == {s \in Sockets :
             \/ at[s] \in {"rejectMembers"} \cup ReapPcs
             \/ leaving[s] \in {"removeMember", "getMembers"} \cup ReapPcs}

-----------------------------------------------------------------------------
(* call:start and call:accept.                                             *)

\* A client starts or accepts when it shows no call: its leave may still be in
\* flight, and where it was told that the call is over it sent none.
Free(s) == s \in link /\ at[s] = "idle" /\ inCall[s] = None

\* The joins that overlap in time are noted on both sides.
Begin(s, pc, c) ==
  /\ Free(s) /\ Event
  /\ Go(s, pc)
  /\ call' = [call EXCEPT ![s] = c]
  /\ peers' = [peers EXCEPT ![s] = {}]
  /\ overlap' = [t \in Sockets |-> IF t = s THEN Joining
                                   ELSE IF t \in Joining
                                   THEN overlap[t] \cup {s} ELSE overlap[t]]

Start(s) ==
  /\ Begin(s, "getPointer", None)
  /\ contended' = (contended \/ Starting # {} \/ Ending # {})
  /\ UNCHANGED <<group, store, client, leaving, goes, offers, known, silent>>

\* The invite and the banner carry the callId to everyone on the channel.
Accept(s, c) ==
  /\ c \in known
  /\ Begin(s, "acceptMeta", c)
  /\ UNCHANGED <<group, store, client, leaving, goes, offers, known, silent,
                 contended>>

\* Mutation: a start opens a call of its own.
GetNoPointer(s) ==
  /\ at[s] = "getPointer"
  /\ call' = [call EXCEPT ![s] = None]
  /\ Go(s, "createCall")
  /\ UNCHANGED <<group, store, client, peers, leaving, goes, offers, known,
                 history, events>>

GetPointer(s) ==
  /\ at[s] = "getPointer"
  /\ call' = [call EXCEPT ![s] = pointer]
  /\ Go(s, IF pointer = None THEN "createCall" ELSE "checkMeta")
  /\ UNCHANGED <<group, store, client, peers, leaving, goes, offers, known,
                 history, events>>

\* A pointer whose call is gone is stale: it is deleted, unread.
CheckMeta(s) ==
  /\ at[s] = "checkMeta"
  /\ Go(s, IF call[s] \in meta THEN "addMember" ELSE "delStale")
  /\ silent' = IF call[s] \in meta THEN silent \cup {s} ELSE silent
  /\ UNCHANGED <<group, store, client, call, peers, leaving, goes, offers,
                 known, overlap, contended, events>>

DelStale(s) ==
  /\ at[s] = "delStale"
  /\ pointer' = None
  /\ Go(s, "createCall")
  /\ UNCHANGED <<group, meta, members, client, call, peers, leaving, goes,
                 offers, known, history, events>>

\* A callId in use anywhere, or used before, is not drawn again.
Fresh == Calls \ (meta \cup known \cup {call[s] : s \in Sockets})

CreateCall(s) ==
  /\ at[s] = "createCall"
  /\ \E c \in Fresh : /\ call' = [call EXCEPT ![s] = c]
                      /\ meta' = meta \cup {c}
  /\ silent' = silent \ {s}
  /\ Go(s, "setPointer")
  /\ UNCHANGED <<group, members, pointer, client, peers, leaving, goes,
                 offers, known, overlap, contended, events>>

SetPointer(s) ==
  /\ at[s] = "setPointer"
  /\ pointer' = call[s]
  /\ known' = known \cup {call[s]}
  /\ Go(s, "addMember")
  /\ UNCHANGED <<group, meta, members, client, call, peers, leaving, goes,
                 offers, history, events>>

\* CALL_ENDED when the call is gone.
AcceptMeta(s) ==
  /\ at[s] = "acceptMeta"
  /\ Go(s, IF call[s] \in meta THEN "acceptMembers" ELSE "idle")
  /\ UNCHANGED <<group, store, client, call, peers, leaving, goes, offers,
                 known, history, events>>

\* The snapshot of the peers, before the socket is one of them.
AcceptMembers(s) ==
  /\ at[s] = "acceptMembers"
  /\ peers' = [peers EXCEPT ![s] = members[call[s]]]
  /\ silent' = IF s \in members[call[s]] THEN silent \cup {s}
                                         ELSE silent \ {s}
  /\ Go(s, "joinPeers")
  /\ UNCHANGED <<group, store, client, call, leaving, goes, offers, known,
                 overlap, contended, events>>

AddMember(s) ==
  /\ \/ at[s] = "addMember" /\ Go(s, "started")
     \/ at[s] = "joinPeers" /\ Go(s, "accepted")
  /\ members' = [members EXCEPT ![call[s]] = @ \cup {s}]
  /\ UNCHANGED <<group, meta, pointer, client, call, peers, leaving, goes,
                 offers, known, history, events>>

\* socket.data.callId is set and the client told.
Enter(s) == /\ callOf' = [callOf EXCEPT ![s] = call[s]]
            /\ inCall' = [inCall EXCEPT ![s] = call[s]]

\* These clients end whatever call they show, close their connections and send
\* nothing.
ToldOver(T) ==
  /\ inCall' = [s \in Sockets |-> IF s \in T THEN None ELSE inCall[s]]
  /\ offers' = [c \in Calls |-> {o \in offers[c] : o[1] \notin T}]

\* CALL_STARTED: the socket is in the call, and no peer is named.
Started(s) ==
  /\ at[s] = "started"
  /\ Enter(s)
  /\ Go(s, "idle")
  /\ UNCHANGED <<group, store, link, call, peers, leaving, goes, offers,
                 known, history, events>>

\* CALL_ENDED at once, and a reap: the callee of a DM takes no calls.
Unavailable(s) ==
  /\ at[s] = "started" /\ ~ group
  /\ callOf' = [callOf EXCEPT ![s] = call[s]]
  /\ ToldOver({s})
  /\ Go(s, "delPointer")
  /\ UNCHANGED <<group, store, link, call, peers, leaving, goes, known,
                 history, events>>

\* Mutation: the peers offer to the one who joins as well.
AcceptedByBoth(s) ==
  /\ at[s] = "accepted"
  /\ Enter(s)
  /\ offers' = [offers EXCEPT
       ![call[s]] = @ \cup ({s} \X peers[s]) \cup (peers[s] \X {s})]
  /\ Go(s, "idle")
  /\ UNCHANGED <<group, store, link, call, peers, leaving, goes, known,
                 history, events>>

\* CALL_ACCEPTED: the socket is in the call and offers to the peers named.
Accepted(s) ==
  /\ at[s] = "accepted"
  /\ Enter(s)
  /\ offers' = [offers EXCEPT ![call[s]] = @ \cup ({s} \X peers[s])]
  /\ Go(s, "idle")
  /\ UNCHANGED <<group, store, link, call, peers, leaving, goes, known,
                 history, events>>

-----------------------------------------------------------------------------
(* call:reject, and POST /calls/:callId/reject.                            *)

Reject(s, c) ==
  /\ c \in known /\ Free(s) /\ Event
  /\ Go(s, "rejectMeta")
  /\ call' = [call EXCEPT ![s] = c]
  /\ UNCHANGED <<group, store, client, peers, leaving, goes, offers, known,
                 history>>

MeetsStart(c) == contended' = (contended \/ (c \in meta /\ Starting # {}))

RejectMeta(s) ==
  /\ at[s] = "rejectMeta"
  /\ Go(s, IF call[s] \in meta THEN "rejectMembers" ELSE "idle")
  /\ MeetsStart(call[s])
  /\ UNCHANGED <<group, store, client, call, peers, leaving, goes, offers,
                 known, overlap, silent, events>>

\* Mutation: a reject ends as a leave.
RejectMembersByLeave(s) ==
  /\ at[s] = "rejectMembers"
  /\ IF ~ group /\ Cardinality(members[call[s]]) <= 1
     THEN Go(s, "getMembers") ELSE Go(s, "idle")
  /\ ToldOver(IF group THEN {} ELSE members[call[s]])
  /\ UNCHANGED <<group, store, callOf, link, call, peers, leaving, goes,
                 known, history, events>>

\* A group call goes on.  The members of a DM are told that it is over, and
\* it is reaped when the caller is alone in it.
RejectMembers(s) ==
  /\ at[s] = "rejectMembers"
  /\ IF ~ group /\ Cardinality(members[call[s]]) <= 1
     THEN Go(s, "delPointer") ELSE Go(s, "idle")
  /\ ToldOver(IF group THEN {} ELSE members[call[s]])
  /\ UNCHANGED <<group, store, callOf, link, call, peers, leaving, goes,
                 known, history, events>>

-----------------------------------------------------------------------------
(* leaveCall: call:leave, call:cancel and disconnect.                      *)

StartLeave(s, c) ==
  /\ leaving' = [leaving EXCEPT ![s] = "getMeta"]
  /\ goes' = [goes EXCEPT ![s] = c]

\* A client may hang up while its accept is still in flight.
Leave(s) ==
  /\ s \in link /\ leaving[s] = "idle" /\ Event
  /\ \/ inCall[s] # None /\ StartLeave(s, inCall[s])
     \/ at[s] \in AcceptPcs /\ StartLeave(s, call[s])
  /\ inCall' = [inCall EXCEPT ![s] = None]
  /\ UNCHANGED <<group, store, callOf, link, at, call, peers, offers, known,
                 history>>

Disconnect(s) ==
  /\ s \in link /\ leaving[s] = "idle" /\ Event
  /\ link' = link \ {s}
  /\ IF callOf[s] # None THEN StartLeave(s, callOf[s])
                         ELSE UNCHANGED <<leaving, goes>>
  /\ UNCHANGED <<group, store, callOf, inCall, at, call, peers, offers,
                 known, history>>

Leaves(s, pc) == leaving' = [leaving EXCEPT ![s] = pc]

\* The caller of a DM gives up: nobody was named to it.
Cancel(s) ==
  /\ s \in link /\ leaving[s] = "idle" /\ Event
  /\ ~ group /\ inCall[s] # None /\ peers[s] = {}
  /\ leaving' = [leaving EXCEPT ![s] = "cancelMeta"]
  /\ goes' = [goes EXCEPT ![s] = inCall[s]]
  /\ inCall' = [inCall EXCEPT ![s] = None]
  /\ UNCHANGED <<group, store, callOf, link, at, call, peers, offers, known,
                 history>>

\* CALL_CANCELLED to the devices of the other, also those that answered.
CancelMeta(s) ==
  /\ leaving[s] = "cancelMeta"
  /\ IF goes[s] \in meta
     THEN Leaves(s, "getMeta") /\ \E T \in SUBSET (Sockets \ {s}) : ToldOver(T)
     ELSE Leaves(s, "idle") /\ UNCHANGED <<inCall, offers>>
  /\ UNCHANGED <<group, store, callOf, link, at, call, peers, goes, known,
                 history, events>>

GetMeta(s) ==
  /\ leaving[s] = "getMeta"
  /\ callOf' = [callOf EXCEPT ![s] = None]
  /\ Leaves(s, IF goes[s] \in meta THEN "removeMember" ELSE "idle")
  /\ MeetsStart(goes[s])
  /\ UNCHANGED <<group, store, inCall, link, at, call, peers, goes, offers,
                 known, overlap, silent, events>>

\* What the members told each other about s is over; a join that has s among
\* its peers goes on with them.
RemoveMember(s) ==
  /\ leaving[s] = "removeMember"
  /\ members' = [members EXCEPT ![goes[s]] = @ \ {s}]
  /\ offers' = [offers EXCEPT ![goes[s]] = {o \in @ : s \notin {o[1], o[2]}}]
  /\ overlap' = [t \in Sockets |-> IF t \in Joining THEN overlap[t] \cup {s}
                                                    ELSE overlap[t]]
  /\ Leaves(s, "getMembers")
  /\ UNCHANGED <<group, meta, pointer, client, at, call, peers, goes, known,
                 silent, contended, events>>

\* Mutation: the roster is that of socket.data.callId, which is null by now.
GetMembersOfNull(s) ==
  /\ leaving[s] = "getMembers"
  /\ IF members[goes[s]] = {} /\ callOf[s] # None
     THEN Leaves(s, "delPointer") ELSE Leaves(s, "idle")
  /\ UNCHANGED <<group, store, client, at, call, peers, goes, offers, known,
                 history, events>>

\* CALL_PEER_LEFT to those who remain; a call without members is reaped.
GetMembers(s) ==
  /\ leaving[s] = "getMembers"
  /\ IF members[goes[s]] = {}
     THEN Leaves(s, "delPointer") ELSE Leaves(s, "idle")
  /\ UNCHANGED <<group, store, client, at, call, peers, goes, offers, known,
                 history, events>>

-----------------------------------------------------------------------------
(* reapCall, for a request or a leave of s.                                *)

\* Mutation: the pointer stays.
DelNoPointer(s) ==
  /\ \/ at[s] = "delPointer" /\ Go(s, "delCall") /\ UNCHANGED leaving
     \/ leaving[s] = "delPointer" /\ Leaves(s, "delCall") /\ UNCHANGED at
  /\ UNCHANGED <<group, store, client, call, peers, goes, offers, known,
                 history, events>>

DelPointer(s) ==
  /\ \/ at[s] = "delPointer" /\ Go(s, "delCall") /\ UNCHANGED leaving
     \/ leaving[s] = "delPointer" /\ Leaves(s, "delCall") /\ UNCHANGED at
  /\ pointer' = None
  /\ UNCHANGED <<group, meta, members, client, call, peers, goes, offers,
                 known, history, events>>

DeleteCall(c) ==
  /\ meta' = meta \ {c}
  /\ members' = [members EXCEPT ![c] = {}]

DelCall(s) ==
  /\ \/ /\ at[s] = "delCall" /\ Go(s, "idle") /\ UNCHANGED leaving
        /\ DeleteCall(call[s])
     \/ /\ leaving[s] = "delCall" /\ Leaves(s, "idle") /\ UNCHANGED at
        /\ DeleteCall(goes[s])
  /\ UNCHANGED <<group, pointer, client, call, peers, goes, offers, known,
                 history, events>>

-----------------------------------------------------------------------------

StartStep(s) ==
  \/ GetPointer(s) \/ CheckMeta(s) \/ DelStale(s) \/ CreateCall(s)
  \/ SetPointer(s) \/ Started(s) \/ Unavailable(s)
AcceptStep(s) == AcceptMeta(s) \/ AcceptMembers(s) \/ Accepted(s)
RejectStep(s) == RejectMeta(s) \/ RejectMembers(s)
LeaveStep(s) == CancelMeta(s) \/ GetMeta(s) \/ RemoveMember(s) \/ GetMembers(s)
ReapStep(s) == DelPointer(s) \/ DelCall(s)

Next == \E s \in Sockets :
  \/ Start(s) \/ Leave(s) \/ Cancel(s) \/ Disconnect(s)
  \/ \E c \in Calls : Accept(s, c) \/ Reject(s, c)
  \/ StartStep(s) \/ AcceptStep(s) \/ AddMember(s) \/ RejectStep(s)
  \/ LeaveStep(s) \/ ReapStep(s)

Spec == Init /\ [][Next]_vars

-----------------------------------------------------------------------------
(* Properties.                                                             *)

TypeOK ==
  /\ group \in BOOLEAN
  /\ meta \subseteq Calls /\ known \subseteq Calls
  /\ members \in [Calls -> SUBSET Sockets]
  /\ pointer \in Calls \cup {None}
  /\ callOf \in [Sockets -> Calls \cup {None}] /\ link \subseteq Sockets
  /\ inCall \in [Sockets -> Calls \cup {None}]
  /\ at \in [Sockets -> RequestPcs] /\ leaving \in [Sockets -> LeavePcs]
  /\ call \in [Sockets -> Calls \cup {None}]
  /\ goes \in [Sockets -> Calls \cup {None}]
  /\ peers \in [Sockets -> SUBSET Sockets]
  /\ offers \in [Calls -> SUBSET (Sockets \X Sockets)]
  /\ overlap \in [Sockets -> SUBSET Sockets]
  /\ silent \subseteq Sockets /\ contended \in BOOLEAN /\ events \in Nat

\* In call c, with no handler in flight.
Settled(s, c) == /\ s \in members[c] /\ inCall[s] = c
                 /\ at[s] = "idle" /\ leaving[s] = "idle"

Offers(a, b, c) == <<a, b>> \in offers[c]

\* Of any two members exactly one was told to offer to the other: no pair is
\* left out and none offers both ways.  Not so for joins that overlapped, for
\* a join that met the other's leave, and for those who came by call:start,
\* or again to a call that they were told is over and that was not.
MeshUnlessRaced ==
  \A c \in Calls : \A a, b \in Sockets \ silent :
    /\ a # b /\ Settled(a, c) /\ Settled(b, c)
    /\ a \notin overlap[b] /\ b \notin overlap[a]
    => (Offers(a, b, c) <=> ~ Offers(b, a, c))

\* The channel's pointer always leads to a call that exists: reapCall clears
\* it first, and no start or reap that meets it puts it back.
PointerLeadsToCall == pointer # None => pointer \in meta

InFlight(c) == \E s \in Sockets :
  \/ at[s] # "idle" /\ call[s] = c
  \/ leaving[s] # "idle" /\ goes[s] = c

\* A call nobody is in is reaped by the last to leave, in whatever order the
\* leaves interleave: it does not outlive the handlers that work on it.
EmptyCallIsReaped ==
  \A c \in meta : members[c] = {} => InFlight(c)

Live(c) == c \in meta /\ members[c] # {}

\* A channel has one call, the one its pointer names, unless a call:start met
\* another, or a leave or reject that might reap a call.
OneCallUnlessContended ==
  contended \/ \A c \in Calls : Live(c) => pointer = c \/ InFlight(c)
=============================================================================
