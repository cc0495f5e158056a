------------------------------ MODULE CallClient ------------------------------
(***************************************************************************)
(* The web client of a call, CallController.js and webrtc.js, and several  *)
(* of them around the server's webrtc.handler.js.                          *)
(*                                                                         *)
(* A handler of the server is one step here, taken when the client emits   *)
(* (CallSession has its parts); what it sends to a client waits in the     *)
(* client's inbox.  The browser's question for microphone and camera stays *)
(* open while other things happen.  Connections are not lost.              *)
(***************************************************************************)
EXTENDS Naturals, Sequences

CONSTANTS Clients,
          Channels,    \* direct conversations and rooms
          MembersOf,   \* who is in a channel
          Groups,      \* the channels that are rooms
          Calls, NoCall,
          MaxEvents    \* bound: what users do but for hanging up on two

ASSUME CallClientAssumption ==
  /\ MembersOf \in [Channels -> SUBSET Clients] /\ Groups \subseteq Channels
  /\ NoCall \notin Calls \cup Channels /\ MaxEvents \in Nat

VARIABLES
  roster,   \* the members of each call
  channel,  \* the channel of each call, NoCall when there is no such call
  used,     \* call ids given out
  inbox,    \* what the server sent to each client
  ui,       \* the state of each CallController, its peers and connections
  asked,    \* open questions for microphone and camera
  switched, \* the call its user chose to switch to (history)
  stray,    \* clients something crossed the end or the start of a call of
            \* (history)
  events

vars == <<roster, channel, used, inbox, ui, asked, switched, stray, events>>

Idle(u) == [u EXCEPT !.status = "idle", !.id = NoCall, !.waiting = NoCall]
Is(c, ss) == ui[c].status \in ss
Active(c) == ~Is(c, {"idle"})

\* What the overlay draws buttons for: a ring, a call, a call that waits.
Rung(c) == Is(c, {"incoming"})
InCall(c) == Is(c, {"outgoing", "connecting", "connected"})
OffersWaiting(c) == InCall(c) /\ ui[c].waiting # NoCall

Init ==
  /\ roster = [i \in Calls |-> {}] /\ channel = [i \in Calls |-> NoCall]
  /\ used = {} /\ inbox = [c \in Clients |-> <<>>]
  /\ ui = [c \in Clients |->
       [status |-> "idle", id |-> NoCall, waiting |-> NoCall, ring |-> FALSE,
        media |-> FALSE, peers |-> {}, conns |-> {}]]
  /\ asked = [c \in Clients |-> {}]
  /\ switched = [c \in Clients |-> NoCall] /\ stray = {} /\ events = 0

Event == events < MaxEvents /\ events' = events + 1
Set(c, u) == ui' = [ui EXCEPT ![c] = u]

(***************************************************************************)
(* The server.  In, the inboxes before; each handler appends to them.      *)
(***************************************************************************)
To(In, cs, e) == [c \in Clients |-> IF c \in cs THEN Append(In[c], e)
                                                ELSE In[c]]
NoEmit(In) == inbox' = In /\ UNCHANGED <<roster, channel, used>>

\* A call that is empty, declined or refused is reaped.
Reap(i) == /\ roster' = [roster EXCEPT ![i] = {}]
           /\ channel' = [channel EXCEPT ![i] = NoCall]

\* call:start: the channel's call, or a new one, and the others are rung; in
\* a direct conversation the callee may refuse calls, or have muted this
\* caller's.
EmitStart(In, c, ch) ==
  LET running == {i \in Calls : channel[i] = ch}
      others == MembersOf[ch] \ {c}
  IN \E i \in IF running # {} THEN running ELSE Calls \ used :
       LET started == To(In, {c}, [k |-> "started", i |-> i])
       IN /\ used' = used \cup {i}
          /\ \/ /\ channel' = [channel EXCEPT ![i] = ch]
                /\ roster' = [roster EXCEPT ![i] = @ \cup {c}]
                /\ \E rung \in {others, IF ch \in Groups THEN others ELSE {}} :
                     inbox' = To(started, rung, [k |-> "incoming", i |-> i])
             \/ /\ ch \notin Groups /\ Reap(i)
                /\ inbox' = To(started, {c}, [k |-> "ended", i |-> i])

\* call:accept: the members are told, and who accepts is told whom to offer
\* to.  A call id of null is refused.
EmitAccept(In, c, i) ==
  IF i = NoCall THEN NoEmit(In)
  ELSE IF channel[i] = NoCall
  THEN NoEmit(To(In, {c}, [k |-> "ended", i |-> i]))
  ELSE /\ roster' = [roster EXCEPT ![i] = @ \cup {c}]
       /\ inbox' = To(To(In, {c}, [k |-> "accepted", ps |-> roster[i]]),
                      roster[i], [k |-> "peer_joined", from |-> c])
       /\ UNCHANGED <<channel, used>>

\* call:reject: in a room the members are only informed.
EmitReject(In, i) ==
  IF i = NoCall \/ channel[i] = NoCall \/ channel[i] \in Groups
  THEN NoEmit(In)
  ELSE /\ inbox' = To(In, roster[i], [k |-> "rejected", i |-> i])
       /\ IF \E m \in Clients : roster[i] \subseteq {m} THEN Reap(i)
          ELSE UNCHANGED <<roster, channel>>
       /\ UNCHANGED used

\* call:leave: the members left are told; the last one's call is reaped.
EmitLeave(In, c, i) ==
  IF i = NoCall \/ channel[i] = NoCall THEN NoEmit(In)
  ELSE LET left == roster[i] \ {c}
       IN /\ inbox' = To(In, left, [k |-> "peer_left", from |-> c])
          /\ IF left = {} THEN Reap(i)
             ELSE roster' = [roster EXCEPT ![i] = left] /\ UNCHANGED channel
          /\ UNCHANGED used

\* call:cancel: the others of the channel are told, then as call:leave.
EmitCancel(In, c, i) ==
  IF i = NoCall \/ channel[i] = NoCall THEN NoEmit(In)
  ELSE EmitLeave(To(In, MembersOf[channel[i]] \ {c},
                    [k |-> "cancelled", i |-> i]), c, i)

(***************************************************************************)
(* The client.                                                             *)
(***************************************************************************)
\* Mutation: microphone and camera are not let go.
EndKeepsMedia(u) ==
  [Idle(u) EXCEPT !.ring = FALSE, !.peers = {}, !.conns = {}]

\* _end.  The note some ends show for two seconds ("ended") is left out: the
\* client may do then what it may when idle.
End(u) ==
  [Idle(u) EXCEPT !.ring = FALSE, !.media = FALSE, !.peers = {}, !.conns = {}]

\* History: a call ends while its question for media, or the answer to its
\* start or accept, is open.
Open(c) == \/ asked[c] # {}
           \/ \E n \in DOMAIN inbox[c] :
                 inbox[c][n].k \in {"started", "accepted"}
Crossed(c) == stray' = IF Open(c) THEN stray \cup {c} ELSE stray
Ask(c, q) == asked' = [asked EXCEPT ![c] = @ \cup {q}]

StartCall(c, ch) ==
  /\ Event /\ ~Active(c) /\ c \in MembersOf[ch]
  /\ Set(c, [Idle(ui[c]) EXCEPT !.status = "outgoing"])
  /\ Ask(c, [k |-> "start", ch |-> ch])
  /\ NoEmit(inbox) /\ UNCHANGED <<switched, stray>>

\* acceptIncoming: the question first, the call when it is answered.
AcceptIncoming(c) ==
  /\ Event /\ Rung(c) /\ ui[c].id # NoCall
  /\ Ask(c, [k |-> "accept"])
  /\ NoEmit(inbox) /\ UNCHANGED <<ui, switched, stray>>

\* The banner of a room that has a call.
ShowsBanner(c, i) ==
  ~Active(c) /\ channel[i] \in Groups /\ c \in MembersOf[channel[i]]

JoinGroupCall(c, i) ==
  /\ Event /\ ShowsBanner(c, i)
  /\ Set(c, [Idle(ui[c]) EXCEPT !.status = "connecting", !.id = i])
  /\ Ask(c, [k |-> "join", i |-> i])
  /\ NoEmit(inbox) /\ UNCHANGED <<switched, stray>>

\* The user lets the page have microphone and camera: what was begun goes
\* on, whatever has become of it.  An accept takes the call id there is now.
\* History: a start in a direct conversation that has a call crosses it.
Granted(c, q) ==
  /\ q \in asked[c] /\ asked' = [asked EXCEPT ![c] = @ \ {q}]
  /\ \/ /\ q.k = "start" /\ EmitStart(inbox, c, q.ch)
        /\ Set(c, [ui[c] EXCEPT !.media = TRUE, !.ring = TRUE])
        /\ stray' = IF q.ch \notin Groups /\ \E i \in Calls : channel[i] = q.ch
                    THEN stray \cup MembersOf[q.ch] ELSE stray
        /\ UNCHANGED switched
     \/ /\ q.k = "accept" /\ EmitAccept(inbox, c, ui[c].id)
        /\ Set(c, [ui[c] EXCEPT !.media = TRUE, !.status = "connecting"])
        /\ switched' = [switched EXCEPT ![c] =
                          IF @ = ui[c].id THEN NoCall ELSE @]
        /\ UNCHANGED stray
     \/ /\ q.k = "join" /\ EmitAccept(inbox, c, q.i)
        /\ Set(c, [ui[c] EXCEPT !.media = TRUE])
        /\ UNCHANGED <<switched, stray>>
  /\ UNCHANGED events

\* ... or does not.
Denied(c, q) ==
  /\ Event /\ q \in asked[c]
  /\ asked' = [asked EXCEPT ![c] = @ \ {q}]
  /\ IF q.k = "accept"
     THEN EmitReject(inbox, ui[c].id) /\ Set(c, End(ui[c]))
     ELSE NoEmit(inbox) /\ Set(c, End(ui[c]))
  /\ switched' = [switched EXCEPT ![c] = NoCall]
  /\ stray' = IF asked'[c] # {} THEN stray \cup {c} ELSE stray

Reject(c) ==
  /\ Event /\ Rung(c)
  /\ EmitReject(inbox, ui[c].id) /\ Set(c, End(ui[c])) /\ Crossed(c)
  /\ UNCHANGED <<asked, switched>>

\* cancel.  History: it crosses an accept when others are in the call.
CancelNow(c) ==
  /\ EmitCancel(inbox, c, ui[c].id) /\ Set(c, End(ui[c]))
  /\ stray' = stray \cup (IF Open(c) THEN {c} ELSE {})
                    \cup (IF ui[c].id = NoCall THEN {}
                          ELSE roster[ui[c].id] \ {c})
  /\ UNCHANGED <<asked, switched>>

Cancel(c) == Event /\ Is(c, {"outgoing"}) /\ CancelNow(c)

\* Nobody answered for 40 seconds.
RingTimeout(c) ==
  /\ ui[c].ring /\ Is(c, {"outgoing"}) /\ CancelNow(c) /\ UNCHANGED events

\* Mutation: the call is not left.
HangUpOnScreen(In, c) == NoEmit(In) /\ Set(c, End(ui[c]))

HangUpFrom(In, c) ==
  EmitLeave(In, c, ui[c].id) /\ Set(c, End(ui[c]))

HangUp(c) ==
  /\ Is(c, {"connecting", "connected"})
  /\ HangUpFrom(inbox, c) /\ Crossed(c) /\ UNCHANGED <<asked, switched>>
  /\ \/ Event
     \/ events' = events /\ \E p, q \in ui[c].peers : p # q

\* acceptWaiting: the end of the call hung up is awaited by nobody; it comes
\* when the waiting call has been put on the screen and its question asked,
\* and resets the screen again.
AcceptWaiting(c) ==
  /\ Event /\ OffersWaiting(c)
  /\ HangUpFrom(inbox, c)
  /\ Ask(c, [k |-> "accept"])
  /\ switched' = [switched EXCEPT ![c] = ui[c].waiting]
  /\ stray' = stray \cup {c}

DeclineWaiting(c) ==
  /\ Event /\ OffersWaiting(c)
  /\ EmitReject(inbox, ui[c].waiting)
  /\ Set(c, [ui[c] EXCEPT !.waiting = NoCall])
  /\ UNCHANGED <<asked, switched, stray>>

(***************************************************************************)
(* What the server sends, in turn.                                         *)
(***************************************************************************)
Rest(c) == [inbox EXCEPT ![c] = Tail(@)]
Gets(c, ks) == inbox[c] # <<>> /\ Head(inbox[c]).k \in ks

\* Rung while in a call: it waits, and a second one is declined.
OnIncoming(c) ==
  /\ Gets(c, {"incoming"})
  /\ LET i == Head(inbox[c]).i
         u == ui[c]
     IN IF Active(c) /\ u.waiting # NoCall
        THEN EmitReject(Rest(c), i) /\ UNCHANGED ui
        ELSE /\ NoEmit(Rest(c))
             /\ Set(c, IF Active(c) THEN [u EXCEPT !.waiting = i]
                       ELSE [Idle(u) EXCEPT !.status = "incoming", !.id = i])
  /\ UNCHANGED <<asked, switched, stray, events>>

OnStarted(c) ==
  /\ Gets(c, {"started"})
  /\ Set(c, [ui[c] EXCEPT !.id = Head(inbox[c]).i])
  /\ NoEmit(Rest(c)) /\ UNCHANGED <<asked, switched, stray, events>>

\* Offers to everyone there is no connection to yet.
OnAccepted(c) ==
  /\ Gets(c, {"accepted"})
  /\ LET ps == Head(inbox[c]).ps
     IN /\ Set(c, [ui[c] EXCEPT !.status = "connecting",
                                !.peers = @ \cup ps, !.conns = @ \cup ps])
        /\ NoEmit(To(Rest(c), ps \ ui[c].conns,
                     [k |-> "offer", from |-> c, media |-> ui[c].media]))
  /\ UNCHANGED <<asked, switched, stray, events>>

OnPeerJoined(c) ==
  /\ Gets(c, {"peer_joined"})
  /\ Set(c, [ui[c] EXCEPT
               !.ring = FALSE, !.peers = @ \cup {Head(inbox[c]).from},
               !.status = IF @ = "outgoing" THEN "connecting" ELSE @])
  /\ NoEmit(Rest(c)) /\ UNCHANGED <<asked, switched, stray, events>>

\* Mutation: the connection to a peer that left is kept.
PeerLeftOpen(c, p) == [ui[c] EXCEPT !.peers = @ \ {p}]

PeerLeft(c, p) == [ui[c] EXCEPT !.peers = @ \ {p}, !.conns = @ \ {p}]

\* The last peer left: hang up, whatever call that is now.
OnPeerLeft(c) ==
  /\ Gets(c, {"peer_left"})
  /\ LET u == PeerLeft(c, Head(inbox[c]).from)
     IN IF u.peers = {} THEN HangUpFrom(Rest(c), c) /\ Crossed(c)
        ELSE Set(c, u) /\ NoEmit(Rest(c)) /\ UNCHANGED stray
  /\ UNCHANGED <<asked, switched, events>>

\* call:rejected, call:cancelled, call:ended: of whatever call they are.
OnEnd(c) ==
  /\ Gets(c, {"rejected", "cancelled", "ended"})
  /\ LET e == Head(inbox[c])
     IN /\ Set(c, End(ui[c]))
        /\ stray' = IF e.i # ui[c].id \/ Open(c) \/ roster[e.i] # {}
                    THEN stray \cup {c} ELSE stray
  /\ NoEmit(Rest(c)) /\ UNCHANGED <<asked, switched, events>>

\* An offer is answered by whoever gets it; media on it connects the call.
OnOffer(c) ==
  /\ Gets(c, {"offer"})
  /\ LET e == Head(inbox[c])
     IN /\ Set(c, [ui[c] EXCEPT
                     !.peers = @ \cup {e.from}, !.conns = @ \cup {e.from},
                     !.status = IF e.media THEN "connected" ELSE @])
        /\ NoEmit(To(Rest(c), {e.from},
                     [k |-> "answer", from |-> c, media |-> ui[c].media]))
  /\ stray' = IF InCall(c) THEN stray ELSE stray \cup {c}
  /\ UNCHANGED <<asked, switched, events>>

OnAnswer(c) ==
  /\ Gets(c, {"answer"})
  /\ LET e == Head(inbox[c])
     IN Set(c, [ui[c] EXCEPT
                  !.status = IF e.media /\ e.from \in ui[c].conns
                             THEN "connected" ELSE @,
                  !.peers = IF e.media /\ e.from \in ui[c].conns
                            THEN @ \cup {e.from} ELSE @])
  /\ NoEmit(Rest(c)) /\ UNCHANGED <<asked, switched, stray, events>>

Next ==
  \E c \in Clients :
    \/ \E ch \in Channels : StartCall(c, ch)
    \/ \E i \in Calls : JoinGroupCall(c, i)
    \/ \E q \in asked[c] : Granted(c, q) \/ Denied(c, q)
    \/ AcceptIncoming(c) \/ Reject(c) \/ Cancel(c) \/ RingTimeout(c)
    \/ HangUp(c) \/ AcceptWaiting(c) \/ DeclineWaiting(c)
    \/ OnIncoming(c) \/ OnStarted(c) \/ OnAccepted(c) \/ OnPeerJoined(c)
    \/ OnPeerLeft(c) \/ OnEnd(c) \/ OnOffer(c) \/ OnAnswer(c)

Spec == Init /\ [][Next]_vars

(***************************************************************************)
(* Properties.                                                             *)
(***************************************************************************)
\* The state; there is a participant for every connection, and a call that
\* does not exist has no members.
TypeOK ==
  /\ roster \in [Calls -> SUBSET Clients]
  /\ channel \in [Calls -> Channels \cup {NoCall}] /\ used \subseteq Calls
  /\ \A i \in Calls : channel[i] # NoCall =>
       /\ i \in used /\ roster[i] # {}
       /\ roster[i] \subseteq MembersOf[channel[i]]
  /\ \A i \in Calls : channel[i] = NoCall => roster[i] = {}
  /\ \A i, j \in Calls :
       (channel[i] = channel[j] /\ i # j) => channel[i] = NoCall
  /\ \A c \in Clients :
       /\ ui[c].status \in {"idle", "outgoing", "incoming", "connecting",
                            "connected"}
       /\ {ui[c].id, ui[c].waiting, switched[c]} \subseteq Calls \cup {NoCall}
       /\ ui[c].conns \subseteq ui[c].peers /\ ui[c].peers \subseteq Clients
       /\ ui[c].ring \in BOOLEAN /\ ui[c].media \in BOOLEAN
       /\ \A q \in asked[c] : q.k \in {"start", "accept", "join"}
  /\ stray \subseteq Clients /\ events \in 0..MaxEvents

\* What a client shows is what the server holds: when it has read its inbox
\* and no question is open, it is in the call it shows and in no other, and
\* in none when it shows none.  Unless a call of its own ended while its
\* question or answer was open, an end was of another call, a cancel or a
\* start crossed, the end left the call with members, an offer came late, or
\* it accepted a waiting call.
ScreenMatchesRoster ==
  \A c \in Clients \ stray : (inbox[c] = <<>> /\ asked[c] = {}) =>
    {i \in Calls : c \in roster[i]} =
      IF InCall(c) THEN {ui[c].id} ELSE {}

\* Microphone and camera are held only in a call of one's own: placed,
\* connecting or connected.  The same races are left out.
MediaOnlyInCall ==
  \A c \in Clients \ stray : ui[c].media => InCall(c)

\* "their client offers Accept (switch) or Decline" (webrtc.handler.js:134):
\* when the question for media is answered with yes, the waiting call that
\* was accepted has been accepted.
AcceptedWaitingCallIsJoined ==
  \A c \in Clients : switched[c] # NoCall => [k |-> "accept"] \in asked[c]
===============================================================================
