--------------------------- MODULE CallClient_proofs --------------------------
(***************************************************************************)
(* CallClient for any clients, channels and calls: the server's calls, and *)
(* what a client that nothing crossed shows and holds.                     *)
(***************************************************************************)
EXTENDS CallClient, TLAPS

Ends == {"ended", "rejected", "cancelled"}
Msg == [k : Ends \cup {"started", "incoming"}, i : Calls]
         \cup [k : {"accepted"}, ps : SUBSET Clients]
         \cup [k : {"peer_joined", "peer_left"}, from : Clients]
         \cup [k : {"offer", "answer"}, from : Clients, media : BOOLEAN]
MaybeCall == Calls \cup {NoCall}
Ui == [status : {"idle", "outgoing", "incoming", "connecting", "connected"},
       id : MaybeCall, waiting : MaybeCall, ring : BOOLEAN, media : BOOLEAN,
       peers : SUBSET Clients, conns : SUBSET Clients]
Question == [k : {"start"}, ch : Channels] \cup [k : {"accept"}]
              \cup [k : {"join"}, i : Calls]
Boxes == [Clients -> Seq(Msg)]

Types ==
  /\ roster \in [Calls -> SUBSET Clients]
  /\ channel \in [Calls -> Channels \cup {NoCall}]
  /\ used \subseteq Calls /\ inbox \in Boxes /\ ui \in [Clients -> Ui]
  /\ asked \in [Clients -> SUBSET Question]
  /\ switched \in [Clients -> MaybeCall] /\ stray \subseteq Clients
  /\ events \in 0 .. MaxEvents

\* A call there is has members, of its channel, which has no other call.
Server ==
  /\ \A i \in Calls : channel[i] # NoCall =>
       /\ i \in used /\ roster[i] # {}
       /\ roster[i] \subseteq MembersOf[channel[i]]
  /\ \A i \in Calls : channel[i] = NoCall => roster[i] = {}
  /\ \A i, j \in Calls :
       (channel[i] = channel[j] /\ i # j) => channel[i] = NoCall

Mail(In, c) == {In[c][n] : n \in DOMAIN In[c]}
Mine(c) == {i \in Calls : c \in roster[i]}

\* A client has to do with a call of one of its channels, or one that is
\* over: the id of a call is not given out again.
Knows(c, i) ==
  i \in used /\ (channel[i] # NoCall => c \in MembersOf[channel[i]])

KnowsMail(c, box) ==
  \A e \in box : e.k \in Ends \cup {"started", "incoming"} => Knows(c, e.i)

LEMMA MailAppend ==
  ASSUME NEW s \in Seq(Msg), NEW e \in Msg
  PROVE  /\ Append(s, e) \in Seq(Msg)
         /\ {Append(s, e)[n] : n \in DOMAIN Append(s, e)} =
              {s[n] : n \in DOMAIN s} \cup {e}
<1>1. Append(s, e) \in Seq(Msg) /\ Len(Append(s, e)) = Len(s) + 1
  OBVIOUS
<1>2. /\ Append(s, e)[Len(s) + 1] = e
      /\ \A n \in 1 .. Len(s) : Append(s, e)[n] = s[n]
  OBVIOUS
<1>3. /\ DOMAIN s = 1 .. Len(s) /\ Len(s) \in Nat
      /\ DOMAIN Append(s, e) = 1 .. (Len(s) + 1)
  BY <1>1
<1>4. 1 .. (Len(s) + 1) = (1 .. Len(s)) \cup {Len(s) + 1} BY <1>3
<1> QED BY <1>1, <1>2, <1>3, <1>4

LEMMA MailTail ==
  ASSUME NEW s \in Seq(Msg), s # <<>>
  PROVE  /\ Tail(s) \in Seq(Msg) /\ Head(s) \in Msg
         /\ {s[n] : n \in DOMAIN s} =
              {Tail(s)[n] : n \in DOMAIN Tail(s)} \cup {Head(s)}
<1>1. /\ Tail(s) \in Seq(Msg) /\ Head(s) \in Msg /\ Head(s) = s[1]
      /\ Len(s) \in Nat /\ Len(s) >= 1 /\ Len(Tail(s)) = Len(s) - 1
  OBVIOUS
<1>2. \A n \in 1 .. (Len(s) - 1) : Tail(s)[n] = s[n + 1]
  OBVIOUS
<1>3. DOMAIN s = 1 .. Len(s) /\ DOMAIN Tail(s) = 1 .. (Len(s) - 1)
  BY <1>1
<1>4. ASSUME NEW n \in 1 .. Len(s), n # 1
      PROVE  n - 1 \in 1 .. (Len(s) - 1) /\ Tail(s)[n - 1] = s[n]
  BY <1>1, <1>2, <1>4
<1>5. ASSUME NEW n \in 1 .. (Len(s) - 1)
      PROVE  n + 1 \in 1 .. Len(s) /\ Tail(s)[n] = s[n + 1]
  BY <1>1, <1>2
<1>6. 1 \in 1 .. Len(s) BY <1>1
<1> DEFINE T == Tail(s)
           A == {s[n] : n \in 1 .. Len(s)}
           B == {T[n] : n \in 1 .. (Len(s) - 1)}
<1> HIDE DEF T
<1>7. ASSUME NEW x \in A PROVE x \in B \cup {s[1]}
  <2>1. PICK n \in 1 .. Len(s) : x = s[n] OBVIOUS
  <2>2. CASE n = 1 BY <2>1, <2>2
  <2>3. CASE n # 1
    <3>1. n - 1 \in 1 .. (Len(s) - 1) /\ x = T[n - 1]
      BY <1>4, <2>1, <2>3 DEF T
    <3> QED BY <3>1
  <2> QED BY <2>2, <2>3
<1>8. ASSUME NEW x \in B PROVE x \in A
  <2>1. PICK n \in 1 .. (Len(s) - 1) : x = T[n] OBVIOUS
  <2>2. n + 1 \in 1 .. Len(s) /\ x = s[n + 1] BY <1>5, <2>1 DEF T
  <2> QED BY <2>2
<1>9. s[1] \in A BY <1>6
<1>10. A = B \cup {s[1]} BY <1>7, <1>8, <1>9
<1> QED BY <1>1, <1>3, <1>10 DEF T

\* Who is sent a message finds it in the inbox.
Sent(In, Out, cs, e) ==
  /\ Out \in Boxes
  /\ \A d \in Clients :
       Mail(Out, d) = IF d \in cs THEN Mail(In, d) \cup {e} ELSE Mail(In, d)

LEMMA ToMail ==
  ASSUME NEW In \in Boxes, NEW cs, NEW e \in Msg
  PROVE  Sent(In, To(In, cs, e), cs, e)
<1>1. ASSUME NEW d \in Clients
      PROVE  /\ To(In, cs, e)[d] \in Seq(Msg)
             /\ Mail(To(In, cs, e), d) =
                  IF d \in cs THEN Mail(In, d) \cup {e} ELSE Mail(In, d)
  <2>1. In[d] \in Seq(Msg) BY DEF Boxes
  <2>2. To(In, cs, e)[d] = IF d \in cs THEN Append(In[d], e) ELSE In[d]
    BY DEF To
  <2>3. /\ Append(In[d], e) \in Seq(Msg)
        /\ {Append(In[d], e)[n] : n \in DOMAIN Append(In[d], e)} =
             {In[d][n] : n \in DOMAIN In[d]} \cup {e}
    BY <2>1, MailAppend
  <2>4. CASE d \in cs BY <2>2, <2>3, <2>4 DEF Mail
  <2>5. CASE d \notin cs BY <2>1, <2>2, <2>5 DEF Mail
  <2> QED BY <2>4, <2>5
<1>2. To(In, cs, e) \in Boxes BY <1>1 DEF To, Boxes
<1> QED BY <1>1, <1>2 DEF Sent

LEMMA RestMail ==
  ASSUME inbox \in Boxes, NEW c \in Clients, inbox[c] # <<>>
  PROVE  /\ Rest(c) \in Boxes /\ Head(inbox[c]) \in Msg
         /\ Mail(inbox, c) = Mail(Rest(c), c) \cup {Head(inbox[c])}
         /\ \A d \in Clients \ {c} : Mail(Rest(c), d) = Mail(inbox, d)
<1>1. inbox[c] \in Seq(Msg) BY DEF Boxes
<1>2. Tail(inbox[c]) \in Seq(Msg) BY <1>1, MailTail
<1>3. /\ Rest(c) \in Boxes /\ Rest(c)[c] = Tail(inbox[c])
      /\ \A d \in Clients \ {c} : Rest(c)[d] = inbox[d]
  BY <1>2 DEF Rest, Boxes
<1>4. /\ Head(inbox[c]) \in Msg
      /\ {inbox[c][n] : n \in DOMAIN inbox[c]} =
           {Tail(inbox[c])[n] : n \in DOMAIN Tail(inbox[c])}
             \cup {Head(inbox[c])}
  BY <1>1, MailTail
<1>5. Mail(inbox, c) = Mail(Rest(c), c) \cup {Head(inbox[c])}
  BY <1>3, <1>4 DEF Mail
<1>6. \A d \in Clients \ {c} : Mail(Rest(c), d) = Mail(inbox, d)
  BY <1>3 DEF Mail
<1> QED BY <1>3, <1>4, <1>5, <1>6

LEMMA MsgTypes ==
  /\ \A k \in Ends \cup {"started", "incoming"}, i \in Calls :
       [k |-> k, i |-> i] \in Msg
  /\ \A ps \in SUBSET Clients : [k |-> "accepted", ps |-> ps] \in Msg
  /\ \A k \in {"peer_joined", "peer_left"}, c \in Clients :
       [k |-> k, from |-> c] \in Msg
  /\ \A k \in {"offer", "answer"}, c \in Clients, m \in BOOLEAN :
       [k |-> k, from |-> c, media |-> m] \in Msg
BY DEF Msg

-----------------------------------------------------------------------------
(* What the handlers of the server do to the calls and the inboxes.        *)

Base(In) == Types /\ Server /\ In \in Boxes
Emitted ==
  /\ roster' \in [Calls -> SUBSET Clients] /\ inbox' \in Boxes
  /\ channel' \in [Calls -> Channels \cup {NoCall}] /\ used' \subseteq Calls
  /\ Server'
  /\ \A d \in Clients, i \in Calls : Knows(d, i) => Knows(d, i)'

\* What was sent to d is of calls it knows, and is no answer to a start or an
\* accept; when it lost a call it is told.
Unhurt(In, d) ==
  /\ Mail(In, d) \subseteq Mail(inbox', d)
  /\ Mine(d)' \subseteq Mine(d)
  /\ \A e \in Mail(inbox', d) \ Mail(In, d) :
       e.k \notin {"started", "accepted"}
  /\ Mine(d)' # Mine(d) => \E e \in Mail(inbox', d) : e.k \in Ends

Told(In, d) ==
  \A e \in Mail(inbox', d) \ Mail(In, d) :
    e.k \in Ends \cup {"started", "incoming"} => Knows(d, e.i)'

LEMMA NoEmitEffect ==
  ASSUME NEW In, Base(In), NoEmit(In)
  PROVE  /\ Emitted /\ \A d \in Clients : Unhurt(In, d) /\ Told(In, d)
         /\ \A d \in Clients : Mine(d)' = Mine(d) /\ inbox' = In
BY DEF Base, NoEmit, Emitted, Unhurt, Told, Types, Server, Knows, Mine

\* The end of a call, whose members are told or were none.
LEMMA ReapEffect ==
  ASSUME Types, Server, NEW i \in Calls, Reap(i), used \subseteq used'
  PROVE  /\ roster' \in [Calls -> SUBSET Clients]
         /\ channel' \in [Calls -> Channels \cup {NoCall}] /\ Server'
         /\ \A d \in Clients, x \in Calls : Knows(d, x) => Knows(d, x)'
         /\ \A d \in Clients : Mine(d)' = Mine(d) \ {i}
<1>1. /\ roster' \in [Calls -> SUBSET Clients]
      /\ channel' \in [Calls -> Channels \cup {NoCall}]
      /\ roster'[i] = {} /\ channel'[i] = NoCall
      /\ \A x \in Calls \ {i} :
           roster'[x] = roster[x] /\ channel'[x] = channel[x]
  BY DEF Types, Reap
<1>2. Server' BY <1>1 DEF Server
<1>3. \A d \in Clients, x \in Calls : Knows(d, x) => Knows(d, x)'
  BY <1>1 DEF Knows
<1> QED BY <1>1, <1>2, <1>3 DEF Mine

\* A call whose members become these, some of those it had or one of its
\* channel besides.
LEMMA RosterEffect ==
  ASSUME Types, Server, NEW i \in Calls, channel[i] # NoCall,
         NEW cs \in SUBSET Clients, cs # {},
         cs \subseteq MembersOf[channel[i]],
         roster' = [roster EXCEPT ![i] = cs], channel' = channel, used' = used
  PROVE  /\ roster' \in [Calls -> SUBSET Clients] /\ Server'
         /\ \A d \in Clients, x \in Calls : Knows(d, x) => Knows(d, x)'
         /\ \A d \in Clients : Mine(d)' = IF d \in cs THEN Mine(d) \cup {i}
                                           ELSE Mine(d) \ {i}
<1>1. /\ roster' \in [Calls -> SUBSET Clients] /\ roster'[i] = cs
      /\ \A x \in Calls \ {i} : roster'[x] = roster[x]
  BY DEF Types
<1>2. Server' BY <1>1 DEF Server
<1> QED BY <1>1, <1>2 DEF Knows, Mine

LEMMA AcceptEffect ==
  ASSUME NEW In, Base(In), NEW c \in Clients, NEW i \in Calls, Knows(c, i),
         EmitAccept(In, c, i)
  PROVE  /\ Emitted /\ \A d \in Clients : Told(In, d)
         /\ \A d \in Clients \ {c} : Unhurt(In, d)
         /\ Mail(In, c) \subseteq Mail(inbox', c)
         /\ \A e \in Mail(inbox', c) \ Mail(In, c) : e.k # "started"
         /\ \/ Mine(c)' = Mine(c) \cup {i}
            \/ Mine(c)' = Mine(c) /\ \E e \in Mail(inbox', c) : e.k \in Ends
<1>b. Types /\ Server /\ In \in Boxes BY DEF Base
<1>0. i # NoCall BY CallClientAssumption
<1>1. CASE channel[i] = NoCall
  <2> DEFINE e == [k |-> "ended", i |-> i]
             Out == To(In, {c}, e)
  <2>1. e \in Msg /\ e.k = "ended" /\ e.i = i BY MsgTypes DEF Ends
  <2>2. inbox' = Out /\ UNCHANGED <<roster, channel, used>>
    BY <1>0, <1>1 DEF EmitAccept, NoEmit
  <2> HIDE DEF e
  <2>s. Sent(In, Out, {c}, e) BY <1>b, <2>1, ToMail
  <2>3. /\ Out \in Boxes
        /\ Mail(Out, c) = Mail(In, c) \cup {e}
        /\ \A d \in Clients \ {c} : Mail(Out, d) = Mail(In, d)
    BY <2>s DEF Sent
  <2> HIDE DEF Out
  <2>4. Emitted BY <1>b, <2>2, <2>3 DEF Emitted, Types, Server, Knows
  <2>5. \A d \in Clients : Mine(d)' = Mine(d) BY <2>2 DEF Mine
  <2>6. \A d \in Clients \ {c} : Mail(inbox', d) = Mail(In, d)
    BY <2>2, <2>3
  <2>7. Mail(inbox', c) = Mail(In, c) \cup {e} BY <2>2, <2>3
  <2>8. Knows(c, i)' BY <2>4 DEF Emitted
  <2> QED BY <2>1, <2>4, <2>5, <2>6, <2>7, <2>8 DEF Unhurt, Told, Ends
<1>2. CASE channel[i] # NoCall
  <2> DEFINE e == [k |-> "accepted", ps |-> roster[i]]
             f == [k |-> "peer_joined", from |-> c]
             Mid == To(In, {c}, e)
             Out == To(Mid, roster[i], f)
             cs == roster[i] \cup {c}
  <2>1. e \in Msg /\ f \in Msg /\ e.k = "accepted" /\ f.k = "peer_joined"
    BY <1>b, MsgTypes DEF Types
  <2>2. /\ inbox' = Out /\ roster' = [roster EXCEPT ![i] = cs]
        /\ channel' = channel /\ used' = used
    BY <1>0, <1>2 DEF EmitAccept
  <2>5. /\ cs \in SUBSET Clients /\ cs # {}
        /\ cs \subseteq MembersOf[channel[i]]
    BY <1>b, <1>2 DEF Types, Server, Knows
  <2>c. c \in cs /\ \A d \in Clients \ {c} : d \in cs <=> i \in Mine(d)
    BY DEF Mine
  <2> HIDE DEF e, f, cs
  <2>s. Sent(In, Mid, {c}, e) BY <1>b, <2>1, ToMail
  <2> HIDE DEF Mid
  <2>3. /\ Mid \in Boxes
        /\ Mail(Mid, c) = Mail(In, c) \cup {e}
        /\ \A d \in Clients \ {c} : Mail(Mid, d) = Mail(In, d)
    BY <2>s DEF Sent
  <2>t. Sent(Mid, Out, roster[i], f) BY <2>1, <2>3, ToMail
  <2>4. /\ Out \in Boxes
        /\ \A d \in Clients : Mail(Out, d) =
             IF d \in roster[i] THEN Mail(Mid, d) \cup {f} ELSE Mail(Mid, d)
    BY <2>t DEF Sent
  <2> HIDE DEF Out
  <2>6. /\ roster' \in [Calls -> SUBSET Clients] /\ Server'
        /\ \A d \in Clients, x \in Calls : Knows(d, x) => Knows(d, x)'
        /\ \A d \in Clients : Mine(d)' = IF d \in cs THEN Mine(d) \cup {i}
                                          ELSE Mine(d) \ {i}
    BY <1>b, <1>2, <2>2, <2>5, RosterEffect
  <2>7. Emitted BY <1>b, <2>2, <2>4, <2>6 DEF Emitted, Types
  <2>8. \A d \in Clients \ {c} : Mine(d)' = Mine(d)
    BY <2>6, <2>c
  <2>9. Mine(c)' = Mine(c) \cup {i} BY <2>6, <2>c
  <2>10. \A d \in Clients :
           /\ Mail(In, d) \subseteq Mail(inbox', d)
           /\ \A x \in Mail(inbox', d) \ Mail(In, d) :
                x = f \/ (d = c /\ x = e)
    BY <2>2, <2>3, <2>4
  <2> QED BY <2>1, <2>7, <2>8, <2>9, <2>10 DEF Unhurt, Told, Ends
<1> QED BY <1>1, <1>2

LEMMA RejectEffect ==
  ASSUME NEW In, Base(In), NEW i \in MaybeCall, EmitReject(In, i)
  PROVE  Emitted /\ \A d \in Clients : Told(In, d) /\ Unhurt(In, d)
<1>b. Types /\ Server /\ In \in Boxes BY DEF Base
<1>1. CASE NoEmit(In) BY <1>1, NoEmitEffect
<1>2. CASE ~ (i = NoCall \/ channel[i] = NoCall \/ channel[i] \in Groups)
  <2> DEFINE e == [k |-> "rejected", i |-> i]
             Out == To(In, roster[i], e)
  <2>0. i \in Calls /\ channel[i] # NoCall BY <1>2 DEF MaybeCall
  <2>1. e \in Msg /\ e.k = "rejected" /\ e.i = i
    BY <2>0, MsgTypes DEF Ends
  <2>2. /\ inbox' = Out /\ used' = used
        /\ Reap(i) \/ UNCHANGED <<roster, channel>>
    BY <1>2 DEF EmitReject
  <2>s. Sent(In, Out, roster[i], e) BY <1>b, <2>1, ToMail
  <2>3. /\ Out \in Boxes
        /\ \A d \in Clients : Mail(Out, d) =
             IF d \in roster[i] THEN Mail(In, d) \cup {e} ELSE Mail(In, d)
    BY <2>s DEF Sent
  <2>4. \A d \in roster[i] : d \in Clients /\ Knows(d, i)
    BY <1>b, <2>0 DEF Types, Server, Knows
  <2> HIDE DEF Out, e
  <2>5. /\ Emitted
        /\ \A d \in Clients : Mine(d)' = Mine(d) \/ Mine(d)' = Mine(d) \ {i}
    <3>1. CASE Reap(i)
      BY <1>b, <2>0, <2>2, <2>3, <3>1, ReapEffect DEF Emitted, Types
    <3>2. CASE UNCHANGED <<roster, channel>>
      BY <1>b, <2>2, <2>3, <3>2 DEF Emitted, Types, Server, Knows, Mine
    <3> QED BY <2>2, <3>1, <3>2
  <2>6. ASSUME NEW d \in Clients PROVE Told(In, d) /\ Unhurt(In, d)
    <3>1. Mail(inbox', d) =
            IF d \in roster[i] THEN Mail(In, d) \cup {e} ELSE Mail(In, d)
      BY <2>2, <2>3
    <3>2. d \in roster[i] => Knows(d, i)' BY <2>0, <2>4, <2>5 DEF Emitted
    <3>3. d \notin roster[i] => Mine(d)' = Mine(d) BY <2>5 DEF Mine
    <3> QED BY <2>1, <2>5, <3>1, <3>2, <3>3 DEF Told, Unhurt, Ends
  <2> QED BY <2>5, <2>6
<1> QED BY <1>1, <1>2 DEF EmitReject

LEMMA LeaveEffect ==
  ASSUME NEW In, Base(In), NEW c \in Clients, NEW i \in MaybeCall,
         EmitLeave(In, c, i)
  PROVE  /\ Emitted /\ \A d \in Clients : Told(In, d)
         /\ \A d \in Clients \ {c} : Unhurt(In, d)
         /\ Mine(c)' = Mine(c) \ {i}
         /\ Mail(inbox', c) = Mail(In, c)
<1>b. Types /\ Server /\ In \in Boxes BY DEF Base
<1>1. CASE i = NoCall \/ channel[i] = NoCall
  <2>1. NoEmit(In) BY <1>1 DEF EmitLeave
  <2>2. i \notin Mine(c)
    BY <1>b, <1>1, CallClientAssumption DEF Mine, Server, MaybeCall
  <2> QED BY <2>1, <2>2, NoEmitEffect
<1>2. CASE ~ (i = NoCall \/ channel[i] = NoCall)
  <2> DEFINE e == [k |-> "peer_left", from |-> c]
             left == roster[i] \ {c}
             Out == To(In, left, e)
  <2>0. i \in Calls /\ channel[i] # NoCall BY <1>2 DEF MaybeCall
  <2>1. e \in Msg /\ e.k = "peer_left" BY MsgTypes
  <2>2. /\ inbox' = Out /\ used' = used
        /\ IF left = {} THEN Reap(i)
           ELSE roster' = [roster EXCEPT ![i] = left] /\ channel' = channel
    BY <1>2 DEF EmitLeave
  <2>4. left \in SUBSET Clients /\ left \subseteq MembersOf[channel[i]]
    BY <1>b, <2>0 DEF Types, Server
  <2>5. c \notin left /\ \A d \in Clients \ {c} : d \in left <=> i \in Mine(d)
    BY <2>0 DEF Mine
  <2> HIDE DEF e, left
  <2>s. Sent(In, Out, left, e) BY <1>b, <2>1, ToMail
  <2>3. /\ Out \in Boxes
        /\ \A d \in Clients : Mail(Out, d) =
             IF d \in left THEN Mail(In, d) \cup {e} ELSE Mail(In, d)
    BY <2>s DEF Sent
  <2> HIDE DEF Out
  <2>6. /\ Emitted
        /\ \A d \in Clients : Mine(d)' = IF d \in left THEN Mine(d) \cup {i}
                                          ELSE Mine(d) \ {i}
    <3>1. CASE left = {}
      <4>1. Reap(i) BY <2>2, <3>1
      <4> QED BY <1>b, <2>0, <2>2, <2>3, <3>1, <4>1, ReapEffect
              DEF Emitted, Types
    <3>2. CASE left # {}
      BY <1>b, <2>0, <2>2, <2>3, <2>4, <3>2, RosterEffect DEF Emitted, Types
    <3> QED BY <3>1, <3>2
  <2>7. ASSUME NEW d \in Clients \ {c} PROVE Told(In, d) /\ Unhurt(In, d)
    <3>1. Mine(d)' = Mine(d) BY <2>5, <2>6
    <3>2. \A x \in Mail(inbox', d) \ Mail(In, d) : x = e BY <2>2, <2>3
    <3>3. Mail(In, d) \subseteq Mail(inbox', d) BY <2>2, <2>3
    <3> QED BY <2>1, <3>1, <3>2, <3>3 DEF Told, Unhurt, Ends
  <2>8. Mail(inbox', c) = Mail(In, c) BY <2>2, <2>3, <2>5
  <2>9. Told(In, c) BY <2>8 DEF Told
  <2> QED BY <2>5, <2>6, <2>7, <2>8, <2>9
<1> QED BY <1>1, <1>2

LEMMA CancelEffect ==
  ASSUME NEW In, Base(In), NEW c \in Clients, NEW i \in MaybeCall,
         EmitCancel(In, c, i)
  PROVE  /\ Emitted /\ \A d \in Clients : Told(In, d)
         /\ \A d \in Clients \ {c} : Unhurt(In, d)
         /\ Mine(c)' = Mine(c) \ {i}
         /\ Mail(inbox', c) = Mail(In, c)
<1>b. Types /\ Server /\ In \in Boxes BY DEF Base
<1>1. CASE i = NoCall \/ channel[i] = NoCall
  <2>1. NoEmit(In) BY <1>1 DEF EmitCancel
  <2>2. i \notin Mine(c)
    BY <1>b, <1>1, CallClientAssumption DEF Mine, Server, MaybeCall
  <2> QED BY <2>1, <2>2, NoEmitEffect
<1>2. CASE ~ (i = NoCall \/ channel[i] = NoCall)
  <2> DEFINE e == [k |-> "cancelled", i |-> i]
             cs == MembersOf[channel[i]] \ {c}
             Mid == To(In, cs, e)
  <2>0. i \in Calls /\ channel[i] # NoCall BY <1>2 DEF MaybeCall
  <2>1. e \in Msg /\ e.k = "cancelled" /\ e.i = i
    BY <2>0, MsgTypes DEF Ends
  <2>2. EmitLeave(Mid, c, i) BY <1>2 DEF EmitCancel
  <2>3. \A d \in cs : Knows(d, i) BY <1>b, <2>0 DEF Knows, Server
  <2>4. c \notin cs OBVIOUS
  <2> HIDE DEF e, cs
  <2>s. Sent(In, Mid, cs, e) BY <1>b, <2>1, ToMail
  <2> HIDE DEF Mid
  <2>5. /\ Mid \in Boxes
        /\ \A d \in Clients : Mail(Mid, d) =
             IF d \in cs THEN Mail(In, d) \cup {e} ELSE Mail(In, d)
    BY <2>s DEF Sent
  <2>6. Base(Mid) BY <1>b, <2>5 DEF Base
  <2>7. /\ Emitted /\ \A d \in Clients : Told(Mid, d)
        /\ \A d \in Clients \ {c} : Unhurt(Mid, d)
        /\ Mine(c)' = Mine(c) \ {i}
        /\ Mail(inbox', c) = Mail(Mid, c)
    BY <2>2, <2>6, LeaveEffect
  <2>8. ASSUME NEW d \in Clients PROVE Told(In, d)
    <3>1. d \in cs => Knows(d, i)' BY <2>0, <2>3, <2>7 DEF Emitted
    <3>2. Told(Mid, d) BY <2>7
    <3> QED BY <2>1, <2>5, <3>1, <3>2 DEF Told
  <2>9. ASSUME NEW d \in Clients \ {c} PROVE Unhurt(In, d)
    BY <2>1, <2>5, <2>7 DEF Unhurt
  <2>10. Mail(inbox', c) = Mail(In, c) BY <2>4, <2>5, <2>7
  <2> QED BY <2>7, <2>8, <2>9, <2>10
<1> QED BY <1>1, <1>2

\* A member is added to the channel's call, which may be new.
LEMMA OpenEffect ==
  ASSUME Types, Server, NEW c \in Clients, NEW ch \in Channels,
         c \in MembersOf[ch], NEW i \in Calls,
         \/ channel[i] = ch
         \/ i \notin used /\ \A x \in Calls : channel[x] # ch,
         channel' = [channel EXCEPT ![i] = ch],
         roster' = [roster EXCEPT ![i] = @ \cup {c}],
         used' = used \cup {i}
  PROVE  /\ roster' \in [Calls -> SUBSET Clients]
         /\ channel' \in [Calls -> Channels \cup {NoCall}] /\ Server'
         /\ \A d \in Clients, x \in Calls : Knows(d, x) => Knows(d, x)'
         /\ Mine(c)' = Mine(c) \cup {i}
         /\ \A d \in Clients \ {c} : Mine(d)' = Mine(d)
         /\ \A d \in MembersOf[ch] : Knows(d, i)'
<1>0. ch # NoCall BY CallClientAssumption
<1>1. channel[i] = NoCall => roster[i] = {} BY DEF Server
<1>2. channel[i] # ch => channel[i] = NoCall BY DEF Server
<1>3. /\ roster' \in [Calls -> SUBSET Clients]
      /\ channel' \in [Calls -> Channels \cup {NoCall}]
      /\ roster'[i] = roster[i] \cup {c} /\ channel'[i] = ch
      /\ \A x \in Calls \ {i} :
           roster'[x] = roster[x] /\ channel'[x] = channel[x]
  BY DEF Types
<1>4. roster'[i] # {} /\ roster'[i] \subseteq MembersOf[ch]
  BY <1>0, <1>1, <1>2, <1>3 DEF Server
<1>5. \A x \in Calls \ {i} : channel[x] # ch
  BY <1>0, <1>2 DEF Server
<1>6. Server'
  <2>1. ASSUME NEW x \in Calls, channel'[x] # NoCall
        PROVE  /\ x \in used' /\ roster'[x] # {}
               /\ roster'[x] \subseteq MembersOf[channel'[x]]
    BY <1>3, <1>4, <2>1 DEF Server
  <2>2. ASSUME NEW x \in Calls, channel'[x] = NoCall PROVE roster'[x] = {}
    BY <1>0, <1>3, <2>2 DEF Server
  <2>3. ASSUME NEW x \in Calls, NEW y \in Calls,
               channel'[x] = channel'[y], x # y
        PROVE  channel'[x] = NoCall
    <3>1. x # i /\ y # i BY <1>3, <1>5, <2>3
    <3>2. channel[x] = channel[y] BY <1>3, <2>3, <3>1
    <3> QED BY <1>3, <2>3, <3>1, <3>2 DEF Server
  <2> QED BY <2>1, <2>2, <2>3 DEF Server
<1>7. \A d \in Clients, x \in Calls : Knows(d, x) => Knows(d, x)'
  BY <1>0, <1>3 DEF Knows
<1>8. \A d \in MembersOf[ch] : Knows(d, i)' BY <1>3 DEF Knows
<1> QED BY <1>3, <1>6, <1>7, <1>8 DEF Mine

LEMMA StartEffect ==
  ASSUME NEW In, Base(In), NEW c \in Clients, NEW ch \in Channels,
         c \in MembersOf[ch], EmitStart(In, c, ch)
  PROVE  /\ Emitted /\ \A d \in Clients : Told(In, d)
         /\ \A d \in Clients \ {c} :
              \/ Unhurt(In, d)
              \/ /\ d \in MembersOf[ch] /\ ch \notin Groups
                 /\ \E i \in Calls : channel[i] = ch
         /\ \E i \in Calls, e \in Mail(inbox', c) :
              /\ Mail(In, c) \subseteq Mail(inbox', c)
              /\ \A x \in Mail(inbox', c) \ Mail(In, c) :
                   x = e \/ x.k \notin {"started", "accepted"}
              /\ e.k = "started" /\ e.i = i
              /\ \/ Mine(c)' = Mine(c) \cup {i}
                 \/ /\ Mine(c)' = Mine(c) \ {i}
                    /\ \E x \in Mail(inbox', c) : x.k \in Ends
<1>b. Types /\ Server /\ In \in Boxes BY DEF Base
<1> DEFINE running == {i \in Calls : channel[i] = ch}
           others == MembersOf[ch] \ {c}
<1>1. PICK i \in IF running # {} THEN running ELSE Calls \ used :
        /\ used' = used \cup {i}
        /\ \/ /\ channel' = [channel EXCEPT ![i] = ch]
              /\ roster' = [roster EXCEPT ![i] = @ \cup {c}]
              /\ \E rung \in {others, IF ch \in Groups THEN others ELSE {}} :
                   inbox' = To(To(In, {c}, [k |-> "started", i |-> i]), rung,
                               [k |-> "incoming", i |-> i])
           \/ /\ ch \notin Groups /\ Reap(i)
              /\ inbox' = To(To(In, {c}, [k |-> "started", i |-> i]), {c},
                             [k |-> "ended", i |-> i])
  BY Zenon DEF EmitStart
<1>2. /\ i \in Calls
      /\ \/ channel[i] = ch
         \/ i \notin used /\ \A x \in Calls : channel[x] # ch
  BY <1>1
<1>3. \A d \in others : d \in MembersOf[ch] /\ d # c OBVIOUS
<1>u. used' \subseteq Calls BY <1>b, <1>1, <1>2 DEF Types
<1> HIDE DEF running, others
<1> DEFINE e == [k |-> "started", i |-> i]
           Mid == To(In, {c}, e)
<1>4. e \in Msg /\ e.k = "started" /\ e.i = i BY <1>2, MsgTypes
<1> HIDE DEF e
<1>s. Sent(In, Mid, {c}, e) BY <1>b, <1>4, ToMail
<1> HIDE DEF Mid
<1>5. /\ Mid \in Boxes
      /\ Mail(Mid, c) = Mail(In, c) \cup {e}
      /\ \A d \in Clients \ {c} : Mail(Mid, d) = Mail(In, d)
  BY <1>s DEF Sent
<1>6. CASE /\ channel' = [channel EXCEPT ![i] = ch]
           /\ roster' = [roster EXCEPT ![i] = @ \cup {c}]
           /\ \E rung \in {others, IF ch \in Groups THEN others ELSE {}} :
                inbox' = To(Mid, rung, [k |-> "incoming", i |-> i])
  <2>1. PICK rung \in {others, IF ch \in Groups THEN others ELSE {}} :
          inbox' = To(Mid, rung, [k |-> "incoming", i |-> i])
    BY <1>6
  <2>2. c \notin rung /\ \A d \in rung : d \in MembersOf[ch] BY <1>3
  <2> DEFINE f == [k |-> "incoming", i |-> i]
             Out == To(Mid, rung, f)
  <2>3. f \in Msg /\ f.k = "incoming" /\ f.i = i BY <1>2, MsgTypes
  <2> HIDE DEF f
  <2>s. Sent(Mid, Out, rung, f) BY <1>5, <2>3, ToMail
  <2>4. /\ inbox' \in Boxes
        /\ \A d \in Clients : Mail(inbox', d) =
             IF d \in rung THEN Mail(Mid, d) \cup {f} ELSE Mail(Mid, d)
    <3>1. inbox' = Out BY <2>1 DEF f
    <3> QED BY <2>s, <3>1 DEF Sent
  <2>5. /\ roster' \in [Calls -> SUBSET Clients]
        /\ channel' \in [Calls -> Channels \cup {NoCall}] /\ Server'
        /\ \A d \in Clients, x \in Calls : Knows(d, x) => Knows(d, x)'
        /\ Mine(c)' = Mine(c) \cup {i}
        /\ \A d \in Clients \ {c} : Mine(d)' = Mine(d)
        /\ \A d \in MembersOf[ch] : Knows(d, i)'
    BY <1>b, <1>1, <1>2, <1>6, OpenEffect
  <2>6. Emitted BY <1>u, <2>4, <2>5 DEF Emitted
  <2>7. Mail(inbox', c) = Mail(In, c) \cup {e} BY <1>5, <2>2, <2>4
  <2>8. \A d \in Clients \ {c} :
          /\ Mail(In, d) \subseteq Mail(inbox', d)
          /\ \A x \in Mail(inbox', d) \ Mail(In, d) :
               x = f /\ d \in MembersOf[ch]
    BY <1>5, <2>2, <2>4
  <2>9. \A d \in Clients : Told(In, d)
    BY <1>4, <2>2, <2>3, <2>5, <2>7, <2>8 DEF Told
  <2>10. \A d \in Clients \ {c} : Unhurt(In, d)
    BY <2>3, <2>5, <2>8 DEF Unhurt
  <2>11. e \in Mail(inbox', c) /\ Mail(In, c) \subseteq Mail(inbox', c)
    BY <2>7
  <2>12. \A x \in Mail(inbox', c) \ Mail(In, c) : x = e BY <2>7
  <2> QED BY <1>2, <1>4, <2>5, <2>6, <2>9, <2>10, <2>11, <2>12
<1>7. CASE /\ ch \notin Groups /\ Reap(i)
           /\ inbox' = To(Mid, {c}, [k |-> "ended", i |-> i])
  <2> DEFINE f == [k |-> "ended", i |-> i]
             Out == To(Mid, {c}, f)
  <2>3. f \in Msg /\ f.k = "ended" /\ f.i = i BY <1>2, MsgTypes DEF Ends
  <2> HIDE DEF f
  <2>s. Sent(Mid, Out, {c}, f) BY <1>5, <2>3, ToMail
  <2>4. /\ inbox' \in Boxes
        /\ Mail(inbox', c) = Mail(Mid, c) \cup {f}
        /\ \A d \in Clients \ {c} : Mail(inbox', d) = Mail(Mid, d)
    <3>1. inbox' = Out BY <1>7 DEF f
    <3> QED BY <2>s, <3>1 DEF Sent
  <2>5. /\ roster' \in [Calls -> SUBSET Clients]
        /\ channel' \in [Calls -> Channels \cup {NoCall}] /\ Server'
        /\ \A d \in Clients, x \in Calls : Knows(d, x) => Knows(d, x)'
        /\ \A d \in Clients : Mine(d)' = Mine(d) \ {i}
    BY <1>b, <1>1, <1>2, <1>7, ReapEffect
  <2>6. Emitted BY <1>u, <2>4, <2>5 DEF Emitted
  <2>7. Mail(inbox', c) = Mail(In, c) \cup {e, f} BY <1>5, <2>4
  <2>8. \A d \in Clients \ {c} : Mail(inbox', d) = Mail(In, d)
    BY <1>5, <2>4
  <2>9. Knows(c, i)' BY <1>1, <1>2, <1>7, <1>b DEF Knows, Reap, Types
  <2>10. \A d \in Clients : Told(In, d)
    BY <1>4, <2>3, <2>7, <2>8, <2>9 DEF Told
  <2>11. ASSUME NEW d \in Clients \ {c}
         PROVE  \/ Unhurt(In, d)
                \/ /\ d \in MembersOf[ch] /\ ch \notin Groups
                   /\ \E x \in Calls : channel[x] = ch
    <3>1. CASE channel[i] = ch /\ d \in MembersOf[ch] BY <1>2, <1>7, <3>1
    <3>2. CASE ~ (channel[i] = ch /\ d \in MembersOf[ch])
      <4>1. i \notin Mine(d)
        BY <1>b, <1>2, <3>2, CallClientAssumption DEF Mine, Server
      <4>2. Mine(d)' = Mine(d) BY <2>5, <4>1
      <4> QED BY <2>8, <4>2 DEF Unhurt
    <3> QED BY <3>1, <3>2
  <2>12. /\ e \in Mail(inbox', c) /\ f \in Mail(inbox', c)
         /\ Mail(In, c) \subseteq Mail(inbox', c)
    BY <2>7
  <2>13. \A x \in Mail(inbox', c) \ Mail(In, c) : x = e \/ x = f BY <2>7
  <2>14. f.k \in Ends /\ f.k \notin {"started", "accepted"}
    BY <2>3 DEF Ends
  <2>15. Mine(c)' = Mine(c) \ {i} BY <2>5
  <2> QED BY <1>2, <1>4, <2>6, <2>10, <2>11, <2>12, <2>13, <2>14, <2>15
<1>8. \/ /\ channel' = [channel EXCEPT ![i] = ch]
         /\ roster' = [roster EXCEPT ![i] = @ \cup {c}]
         /\ \E rung \in {others, IF ch \in Groups THEN others ELSE {}} :
              inbox' = To(Mid, rung, [k |-> "incoming", i |-> i])
      \/ /\ ch \notin Groups /\ Reap(i)
         /\ inbox' = To(Mid, {c}, [k |-> "ended", i |-> i])
  BY <1>1 DEF Mid, e
<1> QED BY <1>6, <1>7, <1>8

-----------------------------------------------------------------------------
(* What a client is in, has been sent, shows and has been asked.           *)

\* Its controller has to do with calls and channels it may.
Grounds(c, u, as) ==
  /\ u.id # NoCall => Knows(c, u.id)
  /\ u.waiting # NoCall => Knows(c, u.waiting)
  /\ \A q \in as : /\ q.k = "start" => c \in MembersOf[q.ch]
                   /\ q.k = "join" => Knows(c, q.i)
  /\ u.conns \subseteq u.peers

Calling(u) == u.status \in {"outgoing", "connecting", "connected"}
Quiet(mail) == \A e \in mail : e.k \notin {"started", "accepted"}
Over(mail) == \E e \in mail : e.k \in Ends

\* In no call: no media, no connection, no answer to come.
Outside(mine, mail, u, as) ==
  /\ mine = {} /\ Quiet(mail) /\ u.conns = {} /\ u.media = FALSE
  /\ \A q \in as : q.k = "accept" /\ u.status = "incoming" /\ u.id # NoCall

\* Has placed or joined a call, and waits for microphone and camera.
Asking(mine, mail, u, as) ==
  /\ mine = {} /\ Quiet(mail)
  /\ \E q \in as : /\ as = {q} /\ q.k \in {"start", "join"}
                   /\ q.k = "join" => u.id = q.i

\* In a call, the one started if the answer is still to be read; or its end
\* is still to be read.
Inside(mine, mail, u, as) ==
  /\ as = {}
  /\ \A e \in mail : e.k = "started" =>
       mine \subseteq {e.i} /\ (mine = {e.i} \/ Over(mail))
  /\ (\A e \in mail : e.k # "started") =>
       mine \subseteq {u.id} /\ (mine = {u.id} \/ Over(mail))

Own(mine, mail, u, as) ==
  IF Calling(u) THEN Asking(mine, mail, u, as) \/ Inside(mine, mail, u, as)
  ELSE Outside(mine, mail, u, as)

IInv ==
  /\ Types /\ Server
  /\ \A c \in Clients :
       /\ KnowsMail(c, Mail(inbox, c)) /\ Grounds(c, ui[c], asked[c])
       /\ c \notin stray => Own(Mine(c), Mail(inbox, c), ui[c], asked[c])

\* What others do to a client, and what is sent to it.
LEMMA OwnKeeps ==
  ASSUME NEW mine, NEW mail, NEW u, NEW as, Own(mine, mail, u, as),
         NEW mine2, NEW mail2, mine2 \subseteq mine, mail \subseteq mail2,
         \A e \in mail2 \ mail : e.k \notin {"started", "accepted"},
         mine2 # mine => Over(mail2)
  PROVE  Own(mine2, mail2, u, as)
<1>1. Over(mail) => Over(mail2) BY DEF Over
<1>2. \A e \in mail2 : e.k \in {"started", "accepted"} => e \in mail
  OBVIOUS
<1>3. CASE Outside(mine, mail, u, as) /\ ~ Calling(u)
  BY <1>2, <1>3 DEF Own, Outside, Quiet
<1>4. CASE Asking(mine, mail, u, as) /\ Calling(u)
  BY <1>2, <1>4 DEF Own, Asking, Quiet
<1>5. CASE Inside(mine, mail, u, as) /\ Calling(u)
  <2>1. ASSUME NEW e \in mail2, e.k = "started"
        PROVE  mine2 \subseteq {e.i} /\ (mine2 = {e.i} \/ Over(mail2))
    BY <1>1, <1>2, <1>5, <2>1 DEF Inside
  <2>2. ASSUME \A e \in mail2 : e.k # "started"
        PROVE  mine2 \subseteq {u.id} /\ (mine2 = {u.id} \/ Over(mail2))
    BY <1>1, <1>5, <2>2 DEF Inside
  <2> QED BY <1>5, <2>1, <2>2 DEF Own, Inside
<1> QED BY <1>3, <1>4, <1>5 DEF Own

\* A message read that is no end and no answer to a start.
LEMMA OwnReads ==
  ASSUME NEW mine, NEW mail, NEW rest, NEW h, NEW u, NEW as,
         Own(mine, mail, u, as), mail = rest \cup {h},
         h.k \notin Ends \cup {"started"}
  PROVE  Own(mine, rest, u, as)
<1>1. Over(mail) => Over(rest) BY DEF Over
<1>2. Quiet(mail) => Quiet(rest) BY DEF Quiet
<1>3. CASE Outside(mine, mail, u, as) /\ ~ Calling(u)
  BY <1>2, <1>3 DEF Own, Outside
<1>4. CASE Asking(mine, mail, u, as) /\ Calling(u)
  BY <1>2, <1>4 DEF Own, Asking
<1>5. CASE Inside(mine, mail, u, as) /\ Calling(u)
  <2>1. ASSUME NEW e \in rest, e.k = "started"
        PROVE  mine \subseteq {e.i} /\ (mine = {e.i} \/ Over(rest))
    BY <1>1, <1>5, <2>1 DEF Inside
  <2>2. ASSUME \A e \in rest : e.k # "started"
        PROVE  mine \subseteq {u.id} /\ (mine = {u.id} \/ Over(rest))
    BY <1>1, <1>5, <2>2 DEF Inside
  <2> QED BY <1>5, <2>1, <2>2 DEF Own, Inside
<1> QED BY <1>3, <1>4, <1>5 DEF Own

\* The controller moves on in the same call, or outside of one.
LEMMA OwnMoves ==
  ASSUME NEW mine, NEW mail, NEW u, NEW u2, NEW as, Own(mine, mail, u, as),
         Calling(u) <=> Calling(u2), u2.id = u.id,
         ~ Calling(u) => /\ u2.conns = {} /\ u2.media = FALSE
                         /\ u.status = "incoming" => u2.status = "incoming"
  PROVE  Own(mine, mail, u2, as)
<1>1. CASE Outside(mine, mail, u, as) /\ ~ Calling(u)
  BY <1>1 DEF Own, Outside
<1>2. CASE Asking(mine, mail, u, as) /\ Calling(u)
  BY <1>2 DEF Own, Asking
<1>3. CASE Inside(mine, mail, u, as) /\ Calling(u)
  BY <1>3 DEF Own, Inside
<1> QED BY <1>1, <1>2, <1>3 DEF Own

\* A call left or not entered: nothing is open, and it is the member of none.
LEMMA OwnEnds ==
  ASSUME NEW mail, NEW u, Quiet(mail), u.conns = {}, u.media = FALSE,
         ~ Calling(u)
  PROVE  Own({}, mail, u, {})
BY DEF Own, Outside

-----------------------------------------------------------------------------
(* A step of client c: In is the inboxes when what it read is taken.       *)

Source(c, In) ==
  /\ In \in Boxes /\ Mail(In, c) \subseteq Mail(inbox, c)
  /\ \A d \in Clients \ {c} : Mail(In, d) = Mail(inbox, d)

Shape(c, u, as) ==
  /\ u \in Ui /\ as \subseteq Question /\ Grounds(c, u, as)
  /\ ui' = [ui EXCEPT ![c] = u] /\ asked' = [asked EXCEPT ![c] = as]
  /\ switched' \in [Clients -> MaybeCall] /\ events' \in 0 .. MaxEvents
  /\ stray \subseteq stray' /\ stray' \subseteq Clients

Effect(c, In) ==
  /\ Emitted /\ \A d \in Clients : Told(In, d)
  /\ \A d \in Clients \ {c} : d \notin stray' => Unhurt(In, d)
  /\ Mail(In, c) \subseteq Mail(inbox', c)

LEMMA ActorStep ==
  ASSUME IInv, NEW c \in Clients, NEW In, NEW u, NEW as,
         Source(c, In), Shape(c, u, as), Effect(c, In),
         c \notin stray' => Own(Mine(c)', Mail(inbox', c), u, as)
  PROVE  IInv'
<1>t. Types BY DEF IInv
<1>1. Types'
  <2>1. ui' \in [Clients -> Ui] /\ asked' \in [Clients -> SUBSET Question]
    BY <1>t DEF Shape, Types
  <2> QED BY <2>1 DEF Types, Effect, Emitted, Shape
<1>2. Server' BY DEF Effect, Emitted
<1>3. ui'[c] = u /\ asked'[c] = as BY <1>t DEF Shape, Types
<1>4. \A d \in Clients \ {c} : ui'[d] = ui[d] /\ asked'[d] = asked[d]
  BY <1>t DEF Shape, Types
<1>5. \A d \in Clients, i \in Calls : Knows(d, i) => Knows(d, i)'
  BY DEF Effect, Emitted
<1>6. ASSUME NEW d \in Clients PROVE KnowsMail(d, Mail(inbox, d))'
  <2>1. ASSUME NEW e \in Mail(inbox', d),
               e.k \in Ends \cup {"started", "incoming"}
        PROVE  Knows(d, e.i)'
    <3>1. CASE e \notin Mail(In, d) BY <2>1, <3>1 DEF Effect, Told
    <3>2. CASE e \in Mail(In, d)
      <4>1. e \in Mail(inbox, d) BY <3>2 DEF Source
      <4>2. Knows(d, e.i) BY <2>1, <4>1 DEF IInv, KnowsMail
      <4>3. e \in Msg
        BY <1>t, <4>1 DEF Types, Boxes, Mail
      <4>4. e.i \in Calls BY <2>1, <4>3 DEF Msg, Ends
      <4> QED BY <1>5, <4>2, <4>4
    <3> QED BY <3>1, <3>2
  <2> QED BY <2>1 DEF KnowsMail
<1>7. ASSUME NEW d \in Clients PROVE Grounds(d, ui[d], asked[d])'
  <2>0. PICK w, qs : w = ui'[d] /\ qs = asked'[d] OBVIOUS
  <2>1. Grounds(d, w, qs) /\ w \in Ui /\ qs \subseteq Question
    BY <2>0, <1>3, <1>4, <1>t DEF Shape, IInv, Types
  <2>2. w.id \in MaybeCall /\ w.waiting \in MaybeCall BY <2>1 DEF Ui
  <2>3. \A q \in qs : q.k = "join" => q.i \in Calls BY <2>1 DEF Question
  <2>4. Grounds(d, w, qs)'
    <3>1. /\ w.id # NoCall => Knows(d, w.id)'
          /\ w.waiting # NoCall => Knows(d, w.waiting)'
      BY <1>5, <2>1, <2>2 DEF Grounds, MaybeCall
    <3>2. \A q \in qs : q.k = "join" => Knows(d, q.i)'
      BY <1>5, <2>1, <2>3 DEF Grounds
    <3> QED BY <2>1, <3>1, <3>2 DEF Grounds
  <2> QED BY <2>0, <2>4 DEF Grounds
<1>8. ASSUME NEW d \in Clients, d \notin stray'
      PROVE  Own(Mine(d), Mail(inbox, d), ui[d], asked[d])'
  <2>1. CASE d = c BY <1>3, <1>8, <2>1
  <2>2. CASE d # c
    <3>1. d \notin stray BY <1>8 DEF Shape
    <3>2. Own(Mine(d), Mail(inbox, d), ui[d], asked[d]) BY <3>1 DEF IInv
    <3>3. Unhurt(In, d) /\ Mail(In, d) = Mail(inbox, d)
      BY <1>8, <2>2 DEF Effect, Source
    <3>4. Own(Mine(d)', Mail(inbox', d), ui[d], asked[d])
      <4>1. Mine(d)' # Mine(d) => Over(Mail(inbox', d))
        BY <3>3 DEF Unhurt, Over
      <4> QED BY <3>2, <3>3, <4>1, OwnKeeps DEF Unhurt
    <3> QED BY <1>4, <2>2, <3>4
  <2> QED BY <2>1, <2>2
<1> QED BY <1>1, <1>2, <1>6, <1>7, <1>8 DEF IInv

LEMMA Facts ==
  ASSUME IInv, NEW c \in Clients
  PROVE  /\ Base(inbox) /\ Source(c, inbox)
         /\ ui[c] \in Ui /\ asked[c] \subseteq Question
         /\ Grounds(c, ui[c], asked[c]) /\ KnowsMail(c, Mail(inbox, c))
         /\ c \notin stray => Own(Mine(c), Mail(inbox, c), ui[c], asked[c])
         /\ stray \subseteq Clients /\ events \in 0 .. MaxEvents
         /\ switched \in [Clients -> MaybeCall]
         /\ InCall(c) <=> Calling(ui[c])
         /\ ~ Open(c) <=> asked[c] = {} /\ Quiet(Mail(inbox, c))
         /\ MaxEvents \in Nat /\ NoCall \notin Calls
<1>1. ~ Open(c) <=> asked[c] = {} /\ Quiet(Mail(inbox, c))
  BY DEF Open, Quiet, Mail
<1>2. InCall(c) <=> Calling(ui[c]) BY DEF InCall, Is, Calling
<1>3. Source(c, inbox) BY DEF Source, IInv, Types
<1> QED BY <1>1, <1>2, <1>3, CallClientAssumption DEF IInv, Base, Types

LEMMA Reading ==
  ASSUME IInv, NEW c \in Clients, inbox[c] # <<>>
  PROVE  /\ Base(Rest(c)) /\ Source(c, Rest(c)) /\ Head(inbox[c]) \in Msg
         /\ Mail(inbox, c) = Mail(Rest(c), c) \cup {Head(inbox[c])}
<1>1. inbox \in Boxes BY DEF IInv, Types
<1> QED BY <1>1, RestMail DEF IInv, Base, Source

\* Nothing is emitted, or an offer or answer.
LEMMA EffectNone ==
  ASSUME IInv, NEW c \in Clients, NEW In, Base(In), NoEmit(In)
  PROVE  /\ Effect(c, In) /\ Mine(c)' = Mine(c) /\ inbox' = In
         /\ Unhurt(In, c)
BY NoEmitEffect DEF Effect

LEMMA EffectSend ==
  ASSUME IInv, NEW c \in Clients, NEW In, Base(In), NEW cs, NEW e \in Msg,
         e.k \in {"offer", "answer"}, NoEmit(To(In, cs, e))
  PROVE  Effect(c, In) /\ Unhurt(In, c)
<1>1. Types /\ Server /\ In \in Boxes BY DEF Base
<1>2. Sent(In, To(In, cs, e), cs, e) BY <1>1, ToMail
<1>3. PICK Out : Out = To(In, cs, e) OBVIOUS
<1>4. /\ Out \in Boxes
      /\ \A d \in Clients : Mail(Out, d) =
           IF d \in cs THEN Mail(In, d) \cup {e} ELSE Mail(In, d)
  BY <1>2, <1>3 DEF Sent
<1>5. Base(Out) /\ NoEmit(Out) BY <1>1, <1>3, <1>4 DEF Base
<1>6. /\ Emitted /\ inbox' = Out /\ \A d \in Clients : Mine(d)' = Mine(d)
  BY <1>5, NoEmitEffect
<1>7. \A d \in Clients :
        /\ Mail(In, d) \subseteq Mail(inbox', d)
        /\ Mail(inbox', d) \subseteq Mail(In, d) \cup {e}
  BY <1>4, <1>6
<1>8. \A d \in Clients : Unhurt(In, d) /\ Told(In, d)
  BY <1>6, <1>7 DEF Unhurt, Told, Ends
<1> QED BY <1>6, <1>7, <1>8 DEF Effect

LEMMA IdleUi ==
  ASSUME NEW u \in Ui
  PROVE  /\ Idle(u) \in Ui /\ Idle(u).status = "idle"
         /\ Idle(u).id = NoCall /\ Idle(u).waiting = NoCall
         /\ Idle(u).media = u.media /\ Idle(u).ring = u.ring
         /\ Idle(u).peers = u.peers /\ Idle(u).conns = u.conns
BY DEF Idle, Ui, MaybeCall

LEMMA EndUi ==
  ASSUME NEW u \in Ui
  PROVE  /\ End(u) \in Ui /\ End(u).status = "idle"
         /\ End(u).id = NoCall /\ End(u).waiting = NoCall
         /\ End(u).media = FALSE /\ End(u).peers = {} /\ End(u).conns = {}
<1>1. PICK v \in Ui : v = Idle(u) BY IdleUi
<1>2. End(u) = [v EXCEPT !.ring = FALSE, !.media = FALSE, !.peers = {},
                         !.conns = {}]
  BY <1>1 DEF End
<1>3. /\ v.status = "idle" /\ v.id = NoCall /\ v.waiting = NoCall
  BY <1>1, IdleUi
<1> QED BY <1>2, <1>3 DEF Ui

\* A call ends: its client is a member of none when nothing was open.
LEMMA EndStep ==
  ASSUME IInv, NEW c \in Clients, NEW In, Source(c, In), Effect(c, In),
         NEW as, as \subseteq asked[c],
         ui' = [ui EXCEPT ![c] = End(ui[c])],
         asked' = [asked EXCEPT ![c] = as],
         switched' \in [Clients -> MaybeCall], events' \in 0 .. MaxEvents,
         stray \subseteq stray', stray' \subseteq Clients,
         c \notin stray' => /\ as = {} /\ Mine(c)' = {}
                            /\ Quiet(Mail(inbox', c))
  PROVE  IInv'
<1>1. PICK u : u = End(ui[c]) OBVIOUS
<1>2. /\ u \in Ui /\ u.status = "idle" /\ u.id = NoCall
      /\ u.waiting = NoCall /\ u.media = FALSE /\ u.peers = {} /\ u.conns = {}
  BY <1>1, Facts, EndUi
<1>3. Grounds(c, u, as) BY <1>2, Facts DEF Grounds
<1>4. Shape(c, u, as) BY <1>1, <1>2, <1>3, Facts DEF Shape
<1>5. ~ Calling(u) BY <1>2 DEF Calling
<1>6. c \notin stray' => Own(Mine(c)', Mail(inbox', c), u, as)
  BY <1>2, <1>5, OwnEnds
<1> QED BY <1>4, <1>6, ActorStep

\* ... by leaving it.
LEMMA LeftStep ==
  ASSUME IInv, NEW c \in Clients, NEW In, Source(c, In), Effect(c, In),
         ui' = [ui EXCEPT ![c] = End(ui[c])], asked' = asked,
         switched' \in [Clients -> MaybeCall], events' \in 0 .. MaxEvents,
         stray \subseteq stray', stray' \subseteq Clients,
         c \notin stray' => ~ Open(c),
         Mine(c)' = Mine(c) \ {ui[c].id}, Mail(inbox', c) = Mail(In, c)
  PROVE  IInv'
<1>1. asked' = [asked EXCEPT ![c] = asked[c]] BY DEF IInv, Types
<1>2. ASSUME c \notin stray'
      PROVE  /\ asked[c] = {} /\ Mine(c)' = {} /\ Quiet(Mail(inbox', c))
  <2>1. /\ asked[c] = {} /\ Quiet(Mail(inbox, c))
        /\ Own(Mine(c), Mail(inbox, c), ui[c], asked[c])
    BY <1>2, Facts
  <2>2. Mine(c) \subseteq {ui[c].id}
    BY <2>1 DEF Own, Outside, Asking, Inside, Quiet
  <2>3. Quiet(Mail(inbox', c)) BY <2>1 DEF Source, Quiet
  <2> QED BY <2>1, <2>2, <2>3
<1> QED BY <1>1, <1>2, EndStep

-----------------------------------------------------------------------------
(* What users do.                                                          *)

LEMMA StepStartCall ==
  ASSUME IInv, NEW c \in Clients, NEW ch \in Channels, StartCall(c, ch)
  PROVE  IInv'
<1>f. /\ ui[c] \in Ui /\ asked[c] \subseteq Question
      /\ Grounds(c, ui[c], asked[c])
      /\ c \notin stray => Own(Mine(c), Mail(inbox, c), ui[c], asked[c])
  BY Facts
<1>1. PICK q : q = [k |-> "start", ch |-> ch] OBVIOUS
<1>2. q \in Question /\ q.k = "start" /\ q.ch = ch BY <1>1 DEF Question
<1>3. PICK v \in Ui : /\ v = Idle(ui[c]) /\ v.id = NoCall
                      /\ v.waiting = NoCall /\ v.peers = ui[c].peers
                      /\ v.conns = ui[c].conns
  BY <1>f, IdleUi
<1>4. PICK u : u = [v EXCEPT !.status = "outgoing"] OBVIOUS
<1>5. /\ u \in Ui /\ u.status = "outgoing" /\ u.id = NoCall
      /\ u.waiting = NoCall /\ u.peers = ui[c].peers /\ u.conns = ui[c].conns
  BY <1>3, <1>4 DEF Ui
<1>6. PICK as : as = asked[c] \cup {q} OBVIOUS
<1>7. /\ ui' = [ui EXCEPT ![c] = u] /\ asked' = [asked EXCEPT ![c] = as]
      /\ NoEmit(inbox) /\ switched' = switched /\ stray' = stray
      /\ events' = events + 1 /\ events < MaxEvents /\ c \in MembersOf[ch]
      /\ ui[c].status = "idle"
  BY <1>1, <1>3, <1>4, <1>6 DEF StartCall, Set, Ask, Event, Active, Is, Types,
     IInv
<1>8. Grounds(c, u, as) BY <1>2, <1>5, <1>6, <1>7, <1>f DEF Grounds
<1>9. Shape(c, u, as)
  BY <1>2, <1>5, <1>6, <1>7, <1>8, <1>f, Facts DEF Shape
<1>10. Effect(c, inbox) /\ Mine(c)' = Mine(c) /\ inbox' = inbox
  BY <1>7, Facts, EffectNone
<1>11. ASSUME c \notin stray'
       PROVE  Own(Mine(c)', Mail(inbox', c), u, as)
  <2>1. Outside(Mine(c), Mail(inbox, c), ui[c], asked[c])
    BY <1>7, <1>11, <1>f DEF Own, Calling
  <2>2. as = {q} BY <1>6, <1>7, <2>1 DEF Outside
  <2>3. Asking(Mine(c), Mail(inbox, c), u, as)
    BY <1>2, <2>1, <2>2 DEF Outside, Asking
  <2> QED BY <1>5, <1>10, <2>3 DEF Own, Calling
<1> QED BY <1>9, <1>10, <1>11, Facts, ActorStep

LEMMA StepJoinGroupCall ==
  ASSUME IInv, NEW c \in Clients, NEW i \in Calls, JoinGroupCall(c, i)
  PROVE  IInv'
<1>f. /\ ui[c] \in Ui /\ asked[c] \subseteq Question
      /\ Grounds(c, ui[c], asked[c])
      /\ c \notin stray => Own(Mine(c), Mail(inbox, c), ui[c], asked[c])
  BY Facts
<1>1. PICK q : q = [k |-> "join", i |-> i] OBVIOUS
<1>2. q \in Question /\ q.k = "join" /\ q.i = i BY <1>1 DEF Question
<1>3. PICK v \in Ui : /\ v = Idle(ui[c]) /\ v.id = NoCall
                      /\ v.waiting = NoCall /\ v.peers = ui[c].peers
                      /\ v.conns = ui[c].conns
  BY <1>f, IdleUi
<1>4. PICK u : u = [v EXCEPT !.status = "connecting", !.id = i] OBVIOUS
<1>5. /\ u \in Ui /\ u.status = "connecting" /\ u.id = i
      /\ u.waiting = NoCall /\ u.peers = ui[c].peers /\ u.conns = ui[c].conns
  BY <1>3, <1>4 DEF Ui, MaybeCall
<1>6. PICK as : as = asked[c] \cup {q} OBVIOUS
<1>7. /\ ui' = [ui EXCEPT ![c] = u] /\ asked' = [asked EXCEPT ![c] = as]
      /\ NoEmit(inbox) /\ switched' = switched /\ stray' = stray
      /\ events' = events + 1 /\ events < MaxEvents /\ ShowsBanner(c, i)
  BY <1>1, <1>3, <1>4, <1>6 DEF JoinGroupCall, Set, Ask, Event, Types, IInv
<1>k. ui[c].status = "idle" /\ Knows(c, i)
  BY <1>7, CallClientAssumption
     DEF ShowsBanner, Active, Is, Knows, IInv, Server
<1>8. Grounds(c, u, as) BY <1>2, <1>5, <1>6, <1>k, <1>f DEF Grounds
<1>9. Shape(c, u, as)
  BY <1>2, <1>5, <1>6, <1>7, <1>8, <1>f, Facts DEF Shape
<1>10. Effect(c, inbox) /\ Mine(c)' = Mine(c) /\ inbox' = inbox
  BY <1>7, Facts, EffectNone
<1>11. ASSUME c \notin stray'
       PROVE  Own(Mine(c)', Mail(inbox', c), u, as)
  <2>1. Outside(Mine(c), Mail(inbox, c), ui[c], asked[c])
    BY <1>7, <1>k, <1>11, <1>f DEF Own, Calling
  <2>2. as = {q} BY <1>6, <1>k, <2>1 DEF Outside
  <2>3. Asking(Mine(c), Mail(inbox, c), u, as)
    BY <1>2, <1>5, <2>1, <2>2 DEF Outside, Asking
  <2> QED BY <1>5, <1>10, <2>3 DEF Own, Calling
<1> QED BY <1>9, <1>10, <1>11, Facts, ActorStep

LEMMA StepAcceptIncoming ==
  ASSUME IInv, NEW c \in Clients, AcceptIncoming(c)
  PROVE  IInv'
<1>f. /\ ui[c] \in Ui /\ asked[c] \subseteq Question
      /\ Grounds(c, ui[c], asked[c])
      /\ c \notin stray => Own(Mine(c), Mail(inbox, c), ui[c], asked[c])
  BY Facts
<1>1. PICK q : q = [k |-> "accept"] OBVIOUS
<1>2. q \in Question /\ q.k = "accept" BY <1>1 DEF Question
<1>3. PICK u : u = ui[c] OBVIOUS
<1>6. PICK as : as = asked[c] \cup {q} OBVIOUS
<1>7. /\ ui' = [ui EXCEPT ![c] = u] /\ asked' = [asked EXCEPT ![c] = as]
      /\ NoEmit(inbox) /\ switched' = switched /\ stray' = stray
      /\ events' = events + 1 /\ events < MaxEvents
      /\ u.status = "incoming" /\ u.id # NoCall
  BY <1>1, <1>3, <1>6 DEF AcceptIncoming, Ask, Event, Rung, Is, Types, IInv
<1>8. Grounds(c, u, as) BY <1>2, <1>3, <1>6, <1>f DEF Grounds
<1>9. Shape(c, u, as)
  BY <1>2, <1>3, <1>6, <1>7, <1>8, <1>f, Facts DEF Shape
<1>10. Effect(c, inbox) /\ Mine(c)' = Mine(c) /\ inbox' = inbox
  BY <1>7, Facts, EffectNone
<1>11. ASSUME c \notin stray'
       PROVE  Own(Mine(c)', Mail(inbox', c), u, as)
  <2>1. Outside(Mine(c), Mail(inbox, c), u, asked[c])
    BY <1>3, <1>7, <1>11, <1>f DEF Own, Calling
  <2>2. Outside(Mine(c), Mail(inbox, c), u, as)
    BY <1>2, <1>6, <1>7, <2>1 DEF Outside
  <2> QED BY <1>7, <1>10, <2>2 DEF Own, Calling
<1> QED BY <1>9, <1>10, <1>11, Facts, ActorStep

LEMMA StepReject ==
  ASSUME IInv, NEW c \in Clients, Reject(c)
  PROVE  IInv'
<1>1. /\ EmitReject(inbox, ui[c].id) /\ ui' = [ui EXCEPT ![c] = End(ui[c])]
      /\ asked' = asked /\ switched' = switched /\ Crossed(c)
      /\ events' = events + 1 /\ events < MaxEvents
      /\ ui[c].status = "incoming"
  BY DEF Reject, Set, Event, Rung, Is
<1>2. ui[c].id \in MaybeCall BY Facts DEF Ui
<1>3. Emitted /\ \A d \in Clients : Told(inbox, d) /\ Unhurt(inbox, d)
  BY <1>1, <1>2, Facts, RejectEffect
<1>4. Effect(c, inbox) BY <1>3 DEF Effect, Unhurt
<1>5. /\ stray \subseteq stray' /\ stray' \subseteq Clients
      /\ c \notin stray' => c \notin stray /\ ~ Open(c)
  BY <1>1, Facts DEF Crossed
<1>6. ASSUME c \notin stray'
      PROVE  /\ asked[c] = {} /\ Mine(c)' = {} /\ Quiet(Mail(inbox', c))
  <2>1. /\ asked[c] = {} /\ Quiet(Mail(inbox, c))
        /\ Own(Mine(c), Mail(inbox, c), ui[c], asked[c])
    BY <1>5, <1>6, Facts
  <2>2. Mine(c) = {} BY <1>1, <2>1 DEF Own, Calling, Outside
  <2> QED BY <1>3, <2>1, <2>2 DEF Unhurt, Quiet
<1>7. asked' = [asked EXCEPT ![c] = asked[c]] BY <1>1 DEF IInv, Types
<1>8. switched' \in [Clients -> MaybeCall] /\ events' \in 0 .. MaxEvents
  BY <1>1, Facts
<1> QED BY <1>1, <1>4, <1>5, <1>6, <1>7, <1>8, Facts, EndStep

LEMMA StepCancelNow ==
  ASSUME IInv, NEW c \in Clients, CancelNow(c), events' \in 0 .. MaxEvents
  PROVE  IInv'
<1>1. /\ EmitCancel(inbox, c, ui[c].id) /\ asked' = asked
      /\ ui' = [ui EXCEPT ![c] = End(ui[c])] /\ switched' = switched
      /\ stray' = stray \cup (IF Open(c) THEN {c} ELSE {})
                      \cup (IF ui[c].id = NoCall THEN {}
                            ELSE roster[ui[c].id] \ {c})
  BY DEF CancelNow, Set
<1>2. ui[c].id \in MaybeCall BY Facts DEF Ui
<1>3. /\ Emitted /\ \A d \in Clients : Told(inbox, d)
      /\ \A d \in Clients \ {c} : Unhurt(inbox, d)
      /\ Mine(c)' = Mine(c) \ {ui[c].id} /\ Mail(inbox', c) = Mail(inbox, c)
  BY <1>1, <1>2, Facts, CancelEffect
<1>4. Effect(c, inbox) BY <1>3 DEF Effect
<1>5. ui[c].id # NoCall => roster[ui[c].id] \subseteq Clients
  BY <1>2 DEF IInv, Types, MaybeCall
<1>6. /\ stray \subseteq stray' /\ stray' \subseteq Clients
      /\ c \notin stray' => ~ Open(c)
  BY <1>1, <1>5, Facts
<1>7. switched' \in [Clients -> MaybeCall] BY <1>1, Facts
<1> QED BY <1>1, <1>3, <1>4, <1>6, <1>7, Facts, LeftStep

LEMMA StepHangUp ==
  ASSUME IInv, NEW c \in Clients, HangUp(c)
  PROVE  IInv'
<1>1. /\ EmitLeave(inbox, c, ui[c].id) /\ asked' = asked
      /\ ui' = [ui EXCEPT ![c] = End(ui[c])] /\ switched' = switched
      /\ Crossed(c)
      /\ events' = events \/ (events' = events + 1 /\ events < MaxEvents)
  BY DEF HangUp, HangUpFrom, Set, Event
<1>2. ui[c].id \in MaybeCall BY Facts DEF Ui
<1>3. /\ Emitted /\ \A d \in Clients : Told(inbox, d)
      /\ \A d \in Clients \ {c} : Unhurt(inbox, d)
      /\ Mine(c)' = Mine(c) \ {ui[c].id} /\ Mail(inbox', c) = Mail(inbox, c)
  BY <1>1, <1>2, Facts, LeaveEffect
<1>4. Effect(c, inbox) BY <1>3 DEF Effect
<1>6. /\ stray \subseteq stray' /\ stray' \subseteq Clients
      /\ c \notin stray' => ~ Open(c)
  BY <1>1, Facts DEF Crossed
<1>7. switched' \in [Clients -> MaybeCall] /\ events' \in 0 .. MaxEvents
  BY <1>1, Facts
<1> QED BY <1>1, <1>3, <1>4, <1>6, <1>7, Facts, LeftStep

LEMMA StepDenied ==
  ASSUME IInv, NEW c \in Clients, NEW q \in asked[c], Denied(c, q)
  PROVE  IInv'
<1>f. /\ ui[c] \in Ui /\ Grounds(c, ui[c], asked[c])
      /\ c \notin stray => Own(Mine(c), Mail(inbox, c), ui[c], asked[c])
  BY Facts
<1>1. PICK as : as = asked[c] \ {q} OBVIOUS
<1>2. /\ asked' = [asked EXCEPT ![c] = as] /\ asked'[c] = as
      /\ ui' = [ui EXCEPT ![c] = End(ui[c])]
      /\ switched' = [switched EXCEPT ![c] = NoCall]
      /\ events' = events + 1 /\ events < MaxEvents
      /\ EmitReject(inbox, ui[c].id) \/ NoEmit(inbox)
      /\ stray' = IF asked'[c] # {} THEN stray \cup {c} ELSE stray
  BY <1>1 DEF Denied, Set, Event, IInv, Types
<1>3. ui[c].id \in MaybeCall BY <1>f DEF Ui
<1>4. Effect(c, inbox) /\ Unhurt(inbox, c)
  <2>1. CASE NoEmit(inbox) BY <2>1, Facts, EffectNone
  <2>2. CASE EmitReject(inbox, ui[c].id)
    BY <1>3, <2>2, Facts, RejectEffect DEF Effect, Unhurt
  <2> QED BY <1>2, <2>1, <2>2
<1>5. /\ stray \subseteq stray' /\ stray' \subseteq Clients
      /\ c \notin stray' => c \notin stray /\ as = {}
  BY <1>2, Facts
<1>6. ASSUME c \notin stray'
      PROVE  as = {} /\ Mine(c)' = {} /\ Quiet(Mail(inbox', c))
  <2>1. Own(Mine(c), Mail(inbox, c), ui[c], asked[c]) BY <1>5, <1>6, <1>f
  <2>2. Mine(c) = {} /\ Quiet(Mail(inbox, c))
    BY <2>1 DEF Own, Outside, Asking, Inside
  <2> QED BY <1>4, <1>5, <1>6, <2>2 DEF Unhurt, Quiet
<1>7. switched' \in [Clients -> MaybeCall] /\ events' \in 0 .. MaxEvents
  BY <1>2, Facts DEF MaybeCall
<1>8. as \subseteq asked[c] BY <1>1
<1> QED BY <1>2, <1>4, <1>5, <1>6, <1>7, <1>8, Facts, EndStep

LEMMA StepAcceptWaiting ==
  ASSUME IInv, NEW c \in Clients, AcceptWaiting(c)
  PROVE  IInv'
<1>f. /\ ui[c] \in Ui /\ asked[c] \subseteq Question
      /\ Grounds(c, ui[c], asked[c])
  BY Facts
<1>1. PICK as : as = asked[c] \cup {[k |-> "accept"]} OBVIOUS
<1>2. PICK u : u = End(ui[c]) OBVIOUS
<1>3. /\ EmitLeave(inbox, c, ui[c].id) /\ ui' = [ui EXCEPT ![c] = u]
      /\ asked' = [asked EXCEPT ![c] = as]
      /\ switched' = [switched EXCEPT ![c] = ui[c].waiting]
      /\ stray' = stray \cup {c} /\ events' = events + 1
      /\ events < MaxEvents
  BY <1>1, <1>2 DEF AcceptWaiting, HangUpFrom, Set, Ask, Event, IInv, Types
<1>4. ui[c].id \in MaybeCall /\ ui[c].waiting \in MaybeCall BY <1>f DEF Ui
<1>5. Effect(c, inbox) BY <1>3, <1>4, Facts, LeaveEffect DEF Effect
<1>6. /\ u \in Ui /\ u.id = NoCall /\ u.waiting = NoCall /\ u.conns = {}
  BY <1>2, <1>f, EndUi
<1>7. Grounds(c, u, as) BY <1>1, <1>6, <1>f DEF Grounds
<1>8. as \subseteq Question BY <1>1, <1>f DEF Question
<1>9. switched' \in [Clients -> MaybeCall] /\ events' \in 0 .. MaxEvents
  BY <1>3, <1>4, Facts
<1>10. Shape(c, u, as) BY <1>3, <1>6, <1>7, <1>8, <1>9, Facts DEF Shape
<1> QED BY <1>3, <1>5, <1>10, Facts, ActorStep

LEMMA StepDeclineWaiting ==
  ASSUME IInv, NEW c \in Clients, DeclineWaiting(c)
  PROVE  IInv'
<1>f. /\ ui[c] \in Ui /\ asked[c] \subseteq Question
      /\ Grounds(c, ui[c], asked[c])
      /\ c \notin stray => Own(Mine(c), Mail(inbox, c), ui[c], asked[c])
  BY Facts
<1>1. PICK u : u = [ui[c] EXCEPT !.waiting = NoCall] OBVIOUS
<1>2. /\ EmitReject(inbox, ui[c].waiting) /\ ui' = [ui EXCEPT ![c] = u]
      /\ asked' = asked /\ switched' = switched /\ stray' = stray
      /\ events' = events + 1 /\ events < MaxEvents /\ InCall(c)
  BY <1>1 DEF DeclineWaiting, OffersWaiting, Set, Event
<1>3. ui[c].waiting \in MaybeCall BY <1>f DEF Ui
<1>4. /\ u \in Ui /\ u.waiting = NoCall /\ u.id = ui[c].id
      /\ u.conns = ui[c].conns /\ u.peers = ui[c].peers
      /\ u.status = ui[c].status
  BY <1>1, <1>f DEF Ui, MaybeCall
<1>5. /\ Emitted /\ \A d \in Clients : Told(inbox, d) /\ Unhurt(inbox, d)
  BY <1>2, <1>3, Facts, RejectEffect
<1>6. Effect(c, inbox) BY <1>5 DEF Effect, Unhurt
<1>7. Grounds(c, u, asked[c]) BY <1>4, <1>f DEF Grounds
<1>8. asked' = [asked EXCEPT ![c] = asked[c]] BY <1>2 DEF IInv, Types
<1>s. /\ switched' \in [Clients -> MaybeCall] /\ events' \in 0 .. MaxEvents
      /\ stray \subseteq stray' /\ stray' \subseteq Clients
  BY <1>2, Facts
<1>9. Shape(c, u, asked[c]) BY <1>2, <1>4, <1>7, <1>8, <1>f, <1>s DEF Shape
<1>10. Calling(ui[c]) /\ Calling(u) BY <1>2, <1>4, Facts DEF Calling
<1>11. ASSUME c \notin stray'
       PROVE  Own(Mine(c)', Mail(inbox', c), u, asked[c])
  <2>1. Own(Mine(c), Mail(inbox, c), ui[c], asked[c]) BY <1>2, <1>11, <1>f
  <2>2. Own(Mine(c)', Mail(inbox', c), ui[c], asked[c])
    BY <1>5, <2>1, OwnKeeps DEF Unhurt, Over
  <2> QED BY <1>4, <1>10, <2>2, OwnMoves
<1> QED BY <1>6, <1>9, <1>11, Facts, ActorStep

LEMMA StepGrantedStart ==
  ASSUME IInv, NEW c \in Clients, NEW q \in asked[c], Granted(c, q),
         q.k = "start"
  PROVE  IInv'
<1>f. /\ ui[c] \in Ui /\ asked[c] \subseteq Question
      /\ Grounds(c, ui[c], asked[c])
      /\ c \notin stray => Own(Mine(c), Mail(inbox, c), ui[c], asked[c])
  BY Facts
<1>1. PICK u : u = [ui[c] EXCEPT !.media = TRUE, !.ring = TRUE] OBVIOUS
<1>2. PICK as : as = asked[c] \ {q} OBVIOUS
<1>3. /\ asked' = [asked EXCEPT ![c] = as] /\ ui' = [ui EXCEPT ![c] = u]
      /\ EmitStart(inbox, c, q.ch) /\ switched' = switched /\ events' = events
      /\ stray' = IF q.ch \notin Groups /\ \E i \in Calls : channel[i] = q.ch
                  THEN stray \cup MembersOf[q.ch] ELSE stray
  BY <1>1, <1>2 DEF Granted, Set, IInv, Types
<1>q. q \in Question BY <1>f
<1>4. q.ch \in Channels /\ c \in MembersOf[q.ch]
  BY <1>q, <1>f DEF Grounds, Question
<1>5. /\ Emitted /\ \A d \in Clients : Told(inbox, d)
      /\ \A d \in Clients \ {c} :
           \/ Unhurt(inbox, d)
           \/ /\ d \in MembersOf[q.ch] /\ q.ch \notin Groups
              /\ \E i \in Calls : channel[i] = q.ch
  BY <1>3, <1>4, Facts, StartEffect
<1>6. PICK i \in Calls, e \in Mail(inbox', c) :
        /\ Mail(inbox, c) \subseteq Mail(inbox', c)
        /\ \A x \in Mail(inbox', c) \ Mail(inbox, c) :
             x = e \/ x.k \notin {"started", "accepted"}
        /\ e.k = "started" /\ e.i = i
        /\ \/ Mine(c)' = Mine(c) \cup {i}
           \/ /\ Mine(c)' = Mine(c) \ {i}
              /\ \E x \in Mail(inbox', c) : x.k \in Ends
  BY <1>3, <1>4, Facts, StartEffect
<1>7. stray \subseteq stray' /\ stray' \subseteq Clients
  BY <1>3, <1>4, Facts, CallClientAssumption
<1>8. \A d \in Clients \ {c} : d \notin stray' => Unhurt(inbox, d)
  BY <1>3, <1>5
<1>9. Effect(c, inbox) BY <1>5, <1>6, <1>8 DEF Effect
<1>10. /\ u \in Ui /\ u.id = ui[c].id /\ u.waiting = ui[c].waiting
       /\ u.conns = ui[c].conns /\ u.peers = ui[c].peers
       /\ u.status = ui[c].status
  BY <1>1, <1>f DEF Ui
<1>11. Grounds(c, u, as) BY <1>2, <1>10, <1>f DEF Grounds
<1>12. Shape(c, u, as)
  BY <1>2, <1>3, <1>7, <1>10, <1>11, <1>f, Facts DEF Shape
<1>13. ASSUME c \notin stray'
       PROVE  Own(Mine(c)', Mail(inbox', c), u, as)
  <2>1. Own(Mine(c), Mail(inbox, c), ui[c], asked[c])
    BY <1>7, <1>13, <1>f
  <2>2. Calling(ui[c]) /\ Asking(Mine(c), Mail(inbox, c), ui[c], asked[c])
    BY <2>1 DEF Own, Outside, Inside
  <2>3. as = {} /\ Mine(c) = {} /\ Quiet(Mail(inbox, c))
    <3>1. PICK x \in asked[c] : asked[c] = {x} BY <2>2 DEF Asking
    <3>2. asked[c] = {q} BY <3>1
    <3> QED BY <1>2, <2>2, <3>2 DEF Asking
  <2>4. Calling(u) BY <1>10, <2>2 DEF Calling
  <2>5. Mine(c)' \subseteq {i} /\ (Mine(c)' = {i} \/ Over(Mail(inbox', c)))
    BY <1>6, <2>3 DEF Over
  <2>6. \A x \in Mail(inbox', c) : x.k = "started" => x.i = i
    BY <1>6, <2>3 DEF Quiet
  <2>7. Inside(Mine(c)', Mail(inbox', c), u, as)
    BY <1>6, <2>3, <2>5, <2>6 DEF Inside
  <2> QED BY <2>4, <2>7 DEF Own
<1> QED BY <1>9, <1>12, <1>13, Facts, ActorStep

LEMMA StepGrantedAccept ==
  ASSUME IInv, NEW c \in Clients, NEW q \in asked[c], Granted(c, q),
         q.k = "accept"
  PROVE  IInv'
<1>f. /\ ui[c] \in Ui /\ asked[c] \subseteq Question
      /\ Grounds(c, ui[c], asked[c])
      /\ c \notin stray => Own(Mine(c), Mail(inbox, c), ui[c], asked[c])
  BY Facts
<1>1. PICK u : u = [ui[c] EXCEPT !.media = TRUE, !.status = "connecting"]
  OBVIOUS
<1>2. PICK as : as = asked[c] \ {q} OBVIOUS
<1>i. PICK i : i = ui[c].id OBVIOUS
<1>3. /\ asked' = [asked EXCEPT ![c] = as] /\ ui' = [ui EXCEPT ![c] = u]
      /\ EmitAccept(inbox, c, i) /\ stray' = stray /\ events' = events
      /\ switched' = [switched EXCEPT ![c] = IF @ = i THEN NoCall ELSE @]
  BY <1>1, <1>2, <1>i DEF Granted, Set, IInv, Types
<1>4. /\ u \in Ui /\ u.id = i /\ u.waiting = ui[c].waiting
      /\ u.conns = ui[c].conns /\ u.peers = ui[c].peers
      /\ u.status = "connecting"
  BY <1>1, <1>i, <1>f DEF Ui
<1>5. Grounds(c, u, as) BY <1>2, <1>4, <1>i, <1>f DEF Grounds
<1>6. /\ switched' \in [Clients -> MaybeCall] /\ events' \in 0 .. MaxEvents
      /\ stray \subseteq stray' /\ stray' \subseteq Clients
  BY <1>3, Facts DEF MaybeCall
<1>7. Shape(c, u, as) BY <1>2, <1>3, <1>4, <1>5, <1>6, <1>f DEF Shape
<1>8. Calling(u) BY <1>4 DEF Calling
<1>9. CASE i = NoCall
  <2>1. NoEmit(inbox) BY <1>3, <1>9 DEF EmitAccept
  <2>2. Effect(c, inbox) BY <2>1, Facts, EffectNone
  <2>3. c \in stray
    BY <1>9, <1>f, <1>i DEF Own, Asking, Inside, Outside
  <2> QED BY <1>6, <1>7, <2>2, <2>3, Facts, ActorStep
<1>10. CASE i # NoCall
  <2>1. i \in Calls /\ Knows(c, i)
    BY <1>10, <1>i, <1>f DEF Grounds, Ui, MaybeCall
  <2>2. /\ Emitted /\ \A d \in Clients : Told(inbox, d)
        /\ \A d \in Clients \ {c} : Unhurt(inbox, d)
        /\ Mail(inbox, c) \subseteq Mail(inbox', c)
        /\ \A e \in Mail(inbox', c) \ Mail(inbox, c) : e.k # "started"
        /\ \/ Mine(c)' = Mine(c) \cup {i}
           \/ Mine(c)' = Mine(c) /\ \E e \in Mail(inbox', c) : e.k \in Ends
    BY <1>3, <2>1, Facts, AcceptEffect
  <2>3. Effect(c, inbox) BY <2>2 DEF Effect
  <2>4. ASSUME c \notin stray'
        PROVE  Own(Mine(c)', Mail(inbox', c), u, as)
    <3>1. Own(Mine(c), Mail(inbox, c), ui[c], asked[c])
      BY <1>6, <2>4, <1>f
    <3>2. Outside(Mine(c), Mail(inbox, c), ui[c], asked[c])
      BY <3>1 DEF Own, Asking, Inside
    <3>3. as = {}
      <4>1. \A x \in asked[c] : x \in Question /\ x.k = "accept"
        BY <3>2, <1>f DEF Outside
      <4>2. \A x \in asked[c] : x = [k |-> "accept"] BY <4>1 DEF Question
      <4> QED BY <1>2, <4>2
    <3>4. Mine(c) = {} /\ Quiet(Mail(inbox, c)) BY <3>2 DEF Outside
    <3>5. Mine(c)' \subseteq {i} /\ (Mine(c)' = {i} \/ Over(Mail(inbox', c)))
      BY <2>2, <3>4 DEF Over
    <3>6. \A e \in Mail(inbox', c) : e.k # "started"
      BY <2>2, <3>4 DEF Quiet
    <3> QED BY <1>4, <1>8, <3>3, <3>5, <3>6 DEF Own, Inside
  <2> QED BY <1>7, <2>3, <2>4, Facts, ActorStep
<1> QED BY <1>9, <1>10

LEMMA StepGrantedJoin ==
  ASSUME IInv, NEW c \in Clients, NEW q \in asked[c], Granted(c, q),
         q.k = "join"
  PROVE  IInv'
<1>f. /\ ui[c] \in Ui /\ asked[c] \subseteq Question
      /\ Grounds(c, ui[c], asked[c])
      /\ c \notin stray => Own(Mine(c), Mail(inbox, c), ui[c], asked[c])
  BY Facts
<1>1. PICK u : u = [ui[c] EXCEPT !.media = TRUE] OBVIOUS
<1>2. PICK as : as = asked[c] \ {q} OBVIOUS
<1>i. PICK i : i = q.i OBVIOUS
<1>3. /\ asked' = [asked EXCEPT ![c] = as] /\ ui' = [ui EXCEPT ![c] = u]
      /\ EmitAccept(inbox, c, i) /\ stray' = stray /\ events' = events
      /\ switched' = switched
  BY <1>1, <1>2, <1>i DEF Granted, Set, IInv, Types
<1>4. /\ u \in Ui /\ u.id = ui[c].id /\ u.waiting = ui[c].waiting
      /\ u.conns = ui[c].conns /\ u.peers = ui[c].peers
      /\ u.status = ui[c].status
  BY <1>1, <1>f DEF Ui
<1>5. Grounds(c, u, as) BY <1>2, <1>4, <1>f DEF Grounds
<1>6. /\ switched' \in [Clients -> MaybeCall] /\ events' \in 0 .. MaxEvents
      /\ stray \subseteq stray' /\ stray' \subseteq Clients
  BY <1>3, Facts
<1>7. Shape(c, u, as) BY <1>2, <1>3, <1>4, <1>5, <1>6, <1>f DEF Shape
<1>q. q \in Question BY <1>f
<1>8. i \in Calls /\ Knows(c, i) BY <1>q, <1>i, <1>f DEF Grounds, Question
<1>9. /\ Emitted /\ \A d \in Clients : Told(inbox, d)
      /\ \A d \in Clients \ {c} : Unhurt(inbox, d)
      /\ Mail(inbox, c) \subseteq Mail(inbox', c)
      /\ \A e \in Mail(inbox', c) \ Mail(inbox, c) : e.k # "started"
      /\ \/ Mine(c)' = Mine(c) \cup {i}
         \/ Mine(c)' = Mine(c) /\ \E e \in Mail(inbox', c) : e.k \in Ends
  BY <1>3, <1>8, Facts, AcceptEffect
<1>10. Effect(c, inbox) BY <1>9 DEF Effect
<1>11. ASSUME c \notin stray'
       PROVE  Own(Mine(c)', Mail(inbox', c), u, as)
  <2>1. Own(Mine(c), Mail(inbox, c), ui[c], asked[c]) BY <1>6, <1>11, <1>f
  <2>2. Calling(ui[c]) /\ Asking(Mine(c), Mail(inbox, c), ui[c], asked[c])
    BY <2>1 DEF Own, Outside, Inside
  <2>3. PICK x \in asked[c] :
          asked[c] = {x} /\ (x.k = "join" => ui[c].id = x.i)
    BY <2>2 DEF Asking
  <2>4. asked[c] = {q} /\ u.id = i BY <1>4, <1>i, <2>3
  <2>5. as = {} /\ Mine(c) = {} /\ Quiet(Mail(inbox, c))
    BY <1>2, <2>2, <2>4 DEF Asking
  <2>6. Mine(c)' \subseteq {i} /\ (Mine(c)' = {i} \/ Over(Mail(inbox', c)))
    BY <1>9, <2>5 DEF Over
  <2>7. \A e \in Mail(inbox', c) : e.k # "started" BY <1>9, <2>5 DEF Quiet
  <2>8. Calling(u) BY <1>4, <2>2 DEF Calling
  <2> QED BY <2>4, <2>5, <2>6, <2>7, <2>8 DEF Own, Inside
<1> QED BY <1>7, <1>10, <1>11, Facts, ActorStep

-----------------------------------------------------------------------------
(* What a client makes of what it is sent.                                 *)

\* What it read changes nothing it is in.
LEMMA ReadOwn ==
  ASSUME IInv, NEW c \in Clients, inbox[c] # <<>>, c \notin stray,
         Head(inbox[c]).k \notin Ends \cup {"started"}, Unhurt(Rest(c), c)
  PROVE  Own(Mine(c)', Mail(inbox', c), ui[c], asked[c])
<1>1. Own(Mine(c), Mail(inbox, c), ui[c], asked[c]) BY Facts
<1>2. Own(Mine(c), Mail(Rest(c), c), ui[c], asked[c])
  BY <1>1, Reading, OwnReads
<1> QED BY <1>2, OwnKeeps DEF Unhurt, Over

LEMMA StepOnIncoming ==
  ASSUME IInv, NEW c \in Clients, OnIncoming(c)
  PROVE  IInv'
<1>f. /\ ui[c] \in Ui /\ asked[c] \subseteq Question
      /\ Grounds(c, ui[c], asked[c])
      /\ c \notin stray => Own(Mine(c), Mail(inbox, c), ui[c], asked[c])
  BY Facts
<1>1. PICK h : h = Head(inbox[c]) OBVIOUS
<1>2. /\ inbox[c] # <<>> /\ h.k = "incoming" /\ asked' = asked
      /\ switched' = switched /\ stray' = stray /\ events' = events
      /\ \/ EmitReject(Rest(c), h.i) /\ ui' = ui
         \/ /\ NoEmit(Rest(c))
            /\ ui' = [ui EXCEPT ![c] =
                        IF Active(c) THEN [ui[c] EXCEPT !.waiting = h.i]
                        ELSE [Idle(ui[c]) EXCEPT !.status = "incoming",
                                                 !.id = h.i]]
  BY <1>1 DEF OnIncoming, Gets, Set
<1>r. /\ Base(Rest(c)) /\ Source(c, Rest(c)) /\ h \in Msg
      /\ Mail(inbox, c) = Mail(Rest(c), c) \cup {h}
  BY <1>1, <1>2, Reading
<1>3. h.i \in Calls BY <1>2, <1>r DEF Msg
<1>4. Knows(c, h.i) BY <1>2, <1>r, Facts DEF KnowsMail
<1>5. PICK as : as = asked[c] OBVIOUS
<1>6. asked' = [asked EXCEPT ![c] = as] BY <1>2, <1>5 DEF IInv, Types
<1>7. /\ switched' \in [Clients -> MaybeCall] /\ events' \in 0 .. MaxEvents
      /\ stray \subseteq stray' /\ stray' \subseteq Clients
  BY <1>2, Facts
<1>8. CASE EmitReject(Rest(c), h.i) /\ ui' = ui
  <2>1. /\ Emitted
        /\ \A d \in Clients : Told(Rest(c), d) /\ Unhurt(Rest(c), d)
    BY <1>3, <1>8, <1>r, RejectEffect DEF MaybeCall
  <2>2. Effect(c, Rest(c)) BY <2>1 DEF Effect, Unhurt
  <2>3. ui' = [ui EXCEPT ![c] = ui[c]] BY <1>8 DEF IInv, Types
  <2>4. Shape(c, ui[c], as) BY <1>5, <1>6, <1>7, <1>f, <2>3 DEF Shape
  <2>5. c \notin stray' => Own(Mine(c)', Mail(inbox', c), ui[c], as)
    BY <1>1, <1>2, <1>5, <2>1, ReadOwn DEF Ends
  <2> QED BY <1>r, <2>2, <2>4, <2>5, ActorStep
<1>9. CASE /\ Active(c) /\ NoEmit(Rest(c))
           /\ ui' = [ui EXCEPT ![c] = [ui[c] EXCEPT !.waiting = h.i]]
  <2>1. PICK u : u = [ui[c] EXCEPT !.waiting = h.i] OBVIOUS
  <2>2. /\ u \in Ui /\ u.waiting = h.i /\ u.id = ui[c].id
        /\ u.status = ui[c].status /\ u.media = ui[c].media
        /\ u.conns = ui[c].conns /\ u.peers = ui[c].peers
    BY <1>3, <1>f, <2>1 DEF Ui, MaybeCall
  <2>3. Grounds(c, u, as) BY <1>4, <1>5, <1>f, <2>2 DEF Grounds
  <2>4. Shape(c, u, as)
    BY <1>5, <1>6, <1>7, <1>9, <1>f, <2>1, <2>2, <2>3 DEF Shape
  <2>5. Effect(c, Rest(c)) /\ Unhurt(Rest(c), c)
    BY <1>9, <1>r, EffectNone
  <2>6. ASSUME c \notin stray' PROVE Own(Mine(c)', Mail(inbox', c), u, as)
    <3>1. Own(Mine(c)', Mail(inbox', c), ui[c], as)
      BY <1>1, <1>2, <1>5, <2>5, <2>6, ReadOwn DEF Ends
    <3>2. Own(Mine(c), Mail(inbox, c), ui[c], asked[c])
      BY <1>2, <1>f, <2>6
    <3>3. Calling(u) <=> Calling(ui[c]) BY <2>2 DEF Calling
    <3>4. ~ Calling(ui[c]) => ui[c].conns = {} /\ ui[c].media = FALSE
      BY <3>2 DEF Own, Outside
    <3> QED BY <2>2, <3>1, <3>3, <3>4, OwnMoves
  <2> QED BY <1>r, <2>4, <2>5, <2>6, ActorStep
<1>10. CASE /\ ~ Active(c) /\ NoEmit(Rest(c))
            /\ ui' = [ui EXCEPT ![c] = [Idle(ui[c]) EXCEPT
                                          !.status = "incoming", !.id = h.i]]
  <2>0. PICK v \in Ui : /\ v = Idle(ui[c]) /\ v.waiting = NoCall
                        /\ v.peers = ui[c].peers /\ v.conns = ui[c].conns
                        /\ v.media = ui[c].media
    BY <1>f, IdleUi
  <2>1. PICK u : u = [v EXCEPT !.status = "incoming", !.id = h.i] OBVIOUS
  <2>2. /\ u \in Ui /\ u.waiting = NoCall /\ u.id = h.i
        /\ u.status = "incoming" /\ u.media = ui[c].media
        /\ u.conns = ui[c].conns /\ u.peers = ui[c].peers
    BY <1>3, <2>0, <2>1 DEF Ui, MaybeCall
  <2>3. Grounds(c, u, as) BY <1>4, <1>5, <1>f, <2>2 DEF Grounds
  <2>t. ui' = [ui EXCEPT ![c] = u] BY <1>10, <2>0, <2>1
  <2>4. Shape(c, u, as)
    BY <1>5, <1>6, <1>7, <1>f, <2>2, <2>3, <2>t DEF Shape
  <2>5. Effect(c, Rest(c)) /\ Mine(c)' = Mine(c) /\ inbox' = Rest(c)
    BY <1>10, <1>r, EffectNone
  <2>6. ASSUME c \notin stray' PROVE Own(Mine(c)', Mail(inbox', c), u, as)
    <3>1. Own(Mine(c), Mail(inbox, c), ui[c], asked[c])
      BY <1>2, <1>f, <2>6
    <3>2. ui[c].status = "idle" BY <1>10 DEF Active, Is
    <3>3. Outside(Mine(c), Mail(inbox, c), ui[c], asked[c])
      BY <3>1, <3>2 DEF Own, Calling
    <3>4. as = {} BY <1>5, <3>2, <3>3 DEF Outside
    <3>5. Quiet(Mail(inbox', c)) BY <1>r, <2>5, <3>3 DEF Outside, Quiet
    <3>6. Mine(c)' = {} /\ u.conns = {} /\ u.media = FALSE
      BY <2>2, <2>5, <3>3 DEF Outside
    <3>7. ~ Calling(u) BY <2>2 DEF Calling
    <3> QED BY <3>4, <3>5, <3>6, <3>7, OwnEnds
  <2> QED BY <1>r, <2>4, <2>5, <2>6, ActorStep
<1> QED BY <1>2, <1>8, <1>9, <1>10

LEMMA StepOnStarted ==
  ASSUME IInv, NEW c \in Clients, OnStarted(c)
  PROVE  IInv'
<1>f. /\ ui[c] \in Ui /\ asked[c] \subseteq Question
      /\ Grounds(c, ui[c], asked[c])
      /\ c \notin stray => Own(Mine(c), Mail(inbox, c), ui[c], asked[c])
  BY Facts
<1>1. PICK h : h = Head(inbox[c]) OBVIOUS
<1>2. PICK u : u = [ui[c] EXCEPT !.id = h.i] OBVIOUS
<1>3. /\ inbox[c] # <<>> /\ h.k = "started" /\ asked' = asked
      /\ switched' = switched /\ stray' = stray /\ events' = events
      /\ NoEmit(Rest(c)) /\ ui' = [ui EXCEPT ![c] = u]
  BY <1>1, <1>2 DEF OnStarted, Gets, Set
<1>r. /\ Base(Rest(c)) /\ Source(c, Rest(c)) /\ h \in Msg
      /\ Mail(inbox, c) = Mail(Rest(c), c) \cup {h}
  BY <1>1, <1>3, Reading
<1>4. h.i \in Calls BY <1>3, <1>r DEF Msg
<1>5. Knows(c, h.i) BY <1>3, <1>r, Facts DEF KnowsMail
<1>6. PICK as : as = asked[c] OBVIOUS
<1>7. asked' = [asked EXCEPT ![c] = as] BY <1>3, <1>6 DEF IInv, Types
<1>8. /\ switched' \in [Clients -> MaybeCall] /\ events' \in 0 .. MaxEvents
      /\ stray \subseteq stray' /\ stray' \subseteq Clients
  BY <1>3, Facts
<1>9. /\ u \in Ui /\ u.waiting = ui[c].waiting /\ u.id = h.i
      /\ u.status = ui[c].status /\ u.conns = ui[c].conns
      /\ u.peers = ui[c].peers
  BY <1>2, <1>4, <1>f DEF Ui, MaybeCall
<1>10. Grounds(c, u, as) BY <1>5, <1>6, <1>9, <1>f DEF Grounds
<1>11. Shape(c, u, as)
  BY <1>3, <1>6, <1>7, <1>8, <1>9, <1>10, <1>f DEF Shape
<1>12. Effect(c, Rest(c)) /\ Mine(c)' = Mine(c) /\ inbox' = Rest(c)
  BY <1>3, <1>r, EffectNone
<1>13. ASSUME c \notin stray' PROVE Own(Mine(c)', Mail(inbox', c), u, as)
  <2>1. Own(Mine(c), Mail(inbox, c), ui[c], as) BY <1>3, <1>6, <1>13, <1>f
  <2>2. h \in Mail(inbox, c) BY <1>r
  <2>3. Calling(ui[c]) /\ Inside(Mine(c), Mail(inbox, c), ui[c], as)
    BY <1>3, <2>1, <2>2 DEF Own, Outside, Asking, Quiet
  <2>4. Over(Mail(inbox, c)) => Over(Mail(Rest(c), c))
    BY <1>3, <1>r DEF Over, Ends
  <2>5. Inside(Mine(c), Mail(Rest(c), c), u, as)
    <3>1. ASSUME NEW e \in Mail(Rest(c), c) \cup {h}, e.k = "started"
          PROVE  /\ Mine(c) \subseteq {e.i}
                 /\ Mine(c) = {e.i} \/ Over(Mail(Rest(c), c))
      BY <1>r, <2>3, <2>4, <3>1 DEF Inside
    <3>2. /\ Mine(c) \subseteq {u.id}
          /\ Mine(c) = {u.id} \/ Over(Mail(Rest(c), c))
      BY <1>3, <1>9, <3>1
    <3> QED BY <2>3, <3>1, <3>2 DEF Inside
  <2>6. Calling(u) BY <1>9, <2>3 DEF Calling
  <2> QED BY <1>12, <2>5, <2>6 DEF Own
<1> QED BY <1>r, <1>11, <1>12, <1>13, ActorStep

\* A message that is no end and no answer to a start moves the controller in
\* the call it is in.
LEMMA ReadStep ==
  ASSUME IInv, NEW c \in Clients, inbox[c] # <<>>,
         Head(inbox[c]).k \notin Ends \cup {"started"},
         Effect(c, Rest(c)), Unhurt(Rest(c), c),
         NEW u \in Ui, u.id = ui[c].id, u.waiting = ui[c].waiting,
         u.conns \subseteq u.peers, ui' = [ui EXCEPT ![c] = u],
         asked' = asked, switched' = switched, events' = events,
         stray \subseteq stray', stray' \subseteq Clients,
         c \notin stray' =>
           /\ Calling(ui[c]) <=> Calling(u)
           /\ ~ Calling(ui[c]) =>
                /\ u.conns = {} /\ u.media = FALSE
                /\ ui[c].status = "incoming" => u.status = "incoming"
  PROVE  IInv'
<1>1. PICK as : as = asked[c] OBVIOUS
<1>2. asked' = [asked EXCEPT ![c] = as] BY <1>1 DEF IInv, Types
<1>3. as \subseteq Question /\ Grounds(c, ui[c], as) BY <1>1, Facts
<1>4. Grounds(c, u, as) BY <1>3 DEF Grounds
<1>5. switched' \in [Clients -> MaybeCall] /\ events' \in 0 .. MaxEvents
  BY Facts
<1>6. Shape(c, u, as) BY <1>2, <1>3, <1>4, <1>5 DEF Shape
<1>7. ASSUME c \notin stray' PROVE Own(Mine(c)', Mail(inbox', c), u, as)
  <2>1. Own(Mine(c)', Mail(inbox', c), ui[c], as) BY <1>1, <1>7, ReadOwn
  <2> QED BY <1>7, <2>1, OwnMoves
<1> QED BY <1>6, <1>7, Reading, ActorStep

LEMMA StepOnAccepted ==
  ASSUME IInv, NEW c \in Clients, OnAccepted(c)
  PROVE  IInv'
<1>f. /\ ui[c] \in Ui /\ Grounds(c, ui[c], asked[c]) /\ stray \subseteq Clients
      /\ c \notin stray => Own(Mine(c), Mail(inbox, c), ui[c], asked[c])
  BY Facts
<1>1. PICK h : h = Head(inbox[c]) OBVIOUS
<1>2. PICK u : u = [ui[c] EXCEPT !.status = "connecting",
                      !.peers = @ \cup h.ps, !.conns = @ \cup h.ps]
  OBVIOUS
<1>3. PICK e : e = [k |-> "offer", from |-> c, media |-> ui[c].media]
  OBVIOUS
<1>4. /\ inbox[c] # <<>> /\ h.k = "accepted" /\ asked' = asked
      /\ switched' = switched /\ stray' = stray /\ events' = events
      /\ ui' = [ui EXCEPT ![c] = u]
      /\ NoEmit(To(Rest(c), h.ps \ ui[c].conns, e))
  BY <1>1, <1>2, <1>3 DEF OnAccepted, Gets, Set
<1>r. /\ Base(Rest(c)) /\ h \in Msg
      /\ Mail(inbox, c) = Mail(Rest(c), c) \cup {h}
  BY <1>1, <1>4, Reading
<1>5. h.ps \subseteq Clients BY <1>4, <1>r DEF Msg, Ends
<1>6. ui[c].conns \subseteq ui[c].peers BY <1>f DEF Grounds
<1>7. /\ u \in Ui /\ u.id = ui[c].id /\ u.waiting = ui[c].waiting
      /\ u.status = "connecting"
      /\ u.peers = ui[c].peers \cup h.ps /\ u.conns = ui[c].conns \cup h.ps
  BY <1>2, <1>5, <1>f DEF Ui
<1>8. e \in Msg /\ e.k = "offer" BY <1>3, <1>f, MsgTypes DEF Ui
<1>9. Effect(c, Rest(c)) /\ Unhurt(Rest(c), c)
  BY <1>4, <1>8, <1>r, EffectSend
<1>10. ASSUME c \notin stray' PROVE Calling(ui[c])
  BY <1>4, <1>10, <1>f, <1>r DEF Own, Outside, Quiet
<1>11. Calling(u) BY <1>7 DEF Calling
<1> QED BY <1>1, <1>4, <1>6, <1>7, <1>9, <1>10, <1>11, <1>f, ReadStep DEF Ends

LEMMA StepOnPeerJoined ==
  ASSUME IInv, NEW c \in Clients, OnPeerJoined(c)
  PROVE  IInv'
<1>f. /\ ui[c] \in Ui /\ Grounds(c, ui[c], asked[c]) /\ stray \subseteq Clients
      /\ c \notin stray => Own(Mine(c), Mail(inbox, c), ui[c], asked[c])
  BY Facts
<1>1. PICK h : h = Head(inbox[c]) OBVIOUS
<1>2. PICK u : u = [ui[c] EXCEPT
                      !.ring = FALSE, !.peers = @ \cup {h.from},
                      !.status = IF @ = "outgoing" THEN "connecting" ELSE @]
  OBVIOUS
<1>4. /\ inbox[c] # <<>> /\ h.k = "peer_joined" /\ asked' = asked
      /\ switched' = switched /\ stray' = stray /\ events' = events
      /\ ui' = [ui EXCEPT ![c] = u] /\ NoEmit(Rest(c))
  BY <1>1, <1>2 DEF OnPeerJoined, Gets, Set
<1>r. Base(Rest(c)) /\ h \in Msg BY <1>1, <1>4, Reading
<1>5. h.from \in Clients BY <1>4, <1>r DEF Msg, Ends
<1>6. PICK s : s = IF ui[c].status = "outgoing" THEN "connecting"
                   ELSE ui[c].status
  OBVIOUS
<1>7. u = [ui[c] EXCEPT !.ring = FALSE, !.peers = @ \cup {h.from},
                        !.status = s]
  BY <1>2, <1>6
<1>8. s \in {"idle", "outgoing", "incoming", "connecting", "connected"}
  BY <1>6, <1>f DEF Ui
<1>9. /\ u \in Ui /\ u.id = ui[c].id /\ u.waiting = ui[c].waiting
      /\ u.status = s /\ u.media = ui[c].media /\ u.conns = ui[c].conns
      /\ u.peers = ui[c].peers \cup {h.from}
  BY <1>5, <1>7, <1>8, <1>f DEF Ui
<1>10. u.conns \subseteq u.peers BY <1>9, <1>f DEF Grounds
<1>11. /\ Calling(u) <=> Calling(ui[c])
       /\ ui[c].status = "incoming" => u.status = "incoming"
  BY <1>6, <1>9 DEF Calling
<1>12. c \notin stray' /\ ~ Calling(ui[c]) =>
         ui[c].conns = {} /\ ui[c].media = FALSE
  BY <1>4, <1>f DEF Own, Outside
<1>13. Effect(c, Rest(c)) /\ Unhurt(Rest(c), c) BY <1>4, <1>r, EffectNone
<1> QED BY <1>1, <1>4, <1>9, <1>10, <1>11, <1>12, <1>13, <1>f, ReadStep
        DEF Ends

LEMMA StepOnPeerLeft ==
  ASSUME IInv, NEW c \in Clients, OnPeerLeft(c)
  PROVE  IInv'
<1>f. /\ ui[c] \in Ui /\ Grounds(c, ui[c], asked[c]) /\ stray \subseteq Clients
      /\ c \notin stray => Own(Mine(c), Mail(inbox, c), ui[c], asked[c])
  BY Facts
<1>1. PICK h : h = Head(inbox[c]) OBVIOUS
<1>2. PICK u : u = PeerLeft(c, h.from) OBVIOUS
<1>3. /\ inbox[c] # <<>> /\ h.k = "peer_left" /\ asked' = asked
      /\ switched' = switched /\ events' = events
      /\ \/ /\ EmitLeave(Rest(c), c, ui[c].id) /\ Crossed(c)
            /\ ui' = [ui EXCEPT ![c] = End(ui[c])]
         \/ /\ ui' = [ui EXCEPT ![c] = u] /\ NoEmit(Rest(c))
            /\ stray' = stray
  BY <1>1, <1>2 DEF OnPeerLeft, Gets, Set, HangUpFrom
<1>r. Base(Rest(c)) /\ Source(c, Rest(c)) /\ h \in Msg
  BY <1>1, <1>3, Reading
<1>4. CASE /\ EmitLeave(Rest(c), c, ui[c].id) /\ Crossed(c)
           /\ ui' = [ui EXCEPT ![c] = End(ui[c])]
  <2>1. ui[c].id \in MaybeCall BY <1>f DEF Ui
  <2>2. /\ Emitted /\ \A d \in Clients : Told(Rest(c), d)
        /\ \A d \in Clients \ {c} : Unhurt(Rest(c), d)
        /\ Mine(c)' = Mine(c) \ {ui[c].id}
        /\ Mail(inbox', c) = Mail(Rest(c), c)
    BY <1>4, <1>r, <2>1, LeaveEffect
  <2>3. Effect(c, Rest(c)) BY <2>2 DEF Effect
  <2>4. /\ stray \subseteq stray' /\ stray' \subseteq Clients
        /\ c \notin stray' => ~ Open(c)
    BY <1>4, <1>f DEF Crossed
  <2>5. switched' \in [Clients -> MaybeCall] /\ events' \in 0 .. MaxEvents
    BY <1>3, Facts
  <2> QED BY <1>3, <1>4, <1>r, <2>2, <2>3, <2>4, <2>5, LeftStep
<1>5. CASE /\ ui' = [ui EXCEPT ![c] = u] /\ NoEmit(Rest(c))
           /\ stray' = stray
  <2>1. /\ u \in Ui /\ u.id = ui[c].id /\ u.waiting = ui[c].waiting
        /\ u.status = ui[c].status /\ u.media = ui[c].media
        /\ u.conns = ui[c].conns \ {h.from}
        /\ u.peers = ui[c].peers \ {h.from}
    BY <1>2, <1>f DEF Ui, PeerLeft
  <2>2. u.conns \subseteq u.peers BY <1>f, <2>1 DEF Grounds
  <2>3. Calling(u) <=> Calling(ui[c]) BY <2>1 DEF Calling
  <2>4. c \notin stray' /\ ~ Calling(ui[c]) =>
          u.conns = {} /\ u.media = FALSE
    BY <1>5, <1>f, <2>1 DEF Own, Outside
  <2>5. Effect(c, Rest(c)) /\ Unhurt(Rest(c), c)
    BY <1>5, <1>r, EffectNone
  <2> QED BY <1>1, <1>3, <1>5, <1>f, <2>1, <2>2, <2>3, <2>4, <2>5, ReadStep
          DEF Ends
<1> QED BY <1>3, <1>4, <1>5

LEMMA StepOnEnd ==
  ASSUME IInv, NEW c \in Clients, OnEnd(c)
  PROVE  IInv'
<1>1. PICK h : h = Head(inbox[c]) OBVIOUS
<1>2. /\ inbox[c] # <<>> /\ h.k \in Ends /\ asked' = asked
      /\ switched' = switched /\ events' = events /\ NoEmit(Rest(c))
      /\ ui' = [ui EXCEPT ![c] = End(ui[c])]
      /\ stray' = IF h.i # ui[c].id \/ Open(c) \/ roster[h.i] # {}
                  THEN stray \cup {c} ELSE stray
  BY <1>1 DEF OnEnd, Gets, Set, Ends
<1>r. /\ Base(Rest(c)) /\ Source(c, Rest(c)) /\ h \in Msg
      /\ Mail(inbox, c) = Mail(Rest(c), c) \cup {h}
  BY <1>1, <1>2, Reading
<1>3. Effect(c, Rest(c)) /\ Mine(c)' = Mine(c) /\ inbox' = Rest(c)
  BY <1>2, <1>r, EffectNone
<1>4. /\ stray \subseteq stray' /\ stray' \subseteq Clients
      /\ c \notin stray' => /\ c \notin stray /\ ~ Open(c)
                            /\ h.i = ui[c].id /\ roster[h.i] = {}
  BY <1>2, Facts
<1>5. ASSUME c \notin stray'
      PROVE  /\ asked[c] = {} /\ Mine(c)' = {} /\ Quiet(Mail(inbox', c))
  <2>1. /\ asked[c] = {} /\ Quiet(Mail(inbox, c))
        /\ Own(Mine(c), Mail(inbox, c), ui[c], asked[c])
    BY <1>4, <1>5, Facts
  <2>2. Mine(c) \subseteq {ui[c].id}
    BY <2>1 DEF Own, Outside, Asking, Inside, Quiet
  <2>3. ui[c].id \notin Mine(c) BY <1>4, <1>5 DEF Mine
  <2>4. Quiet(Mail(inbox', c)) BY <1>3, <1>r, <2>1 DEF Quiet
  <2> QED BY <1>3, <2>1, <2>2, <2>3, <2>4
<1>6. asked' = [asked EXCEPT ![c] = asked[c]] BY <1>2 DEF IInv, Types
<1>7. switched' \in [Clients -> MaybeCall] /\ events' \in 0 .. MaxEvents
  BY <1>2, Facts
<1> QED BY <1>2, <1>3, <1>4, <1>5, <1>6, <1>7, <1>r, EndStep

LEMMA StepOnOffer ==
  ASSUME IInv, NEW c \in Clients, OnOffer(c)
  PROVE  IInv'
<1>f. ui[c] \in Ui /\ Grounds(c, ui[c], asked[c]) /\ stray \subseteq Clients
  BY Facts
<1>1. PICK h : h = Head(inbox[c]) OBVIOUS
<1>2. PICK s : s = IF h.media THEN "connected" ELSE ui[c].status OBVIOUS
<1>3. PICK u : u = [ui[c] EXCEPT !.peers = @ \cup {h.from},
                      !.conns = @ \cup {h.from}, !.status = s]
  OBVIOUS
<1>4. PICK e : e = [k |-> "answer", from |-> c, media |-> ui[c].media]
  OBVIOUS
<1>5. /\ inbox[c] # <<>> /\ h.k = "offer" /\ asked' = asked
      /\ switched' = switched /\ events' = events
      /\ stray' = IF InCall(c) THEN stray ELSE stray \cup {c}
      /\ ui' = [ui EXCEPT ![c] = u] /\ NoEmit(To(Rest(c), {h.from}, e))
  BY <1>1, <1>2, <1>3, <1>4 DEF OnOffer, Gets, Set
<1>r. Base(Rest(c)) /\ h \in Msg BY <1>1, <1>5, Reading
<1>6. h.from \in Clients BY <1>5, <1>r DEF Msg, Ends
<1>7. s \in {"idle", "outgoing", "incoming", "connecting", "connected"}
  BY <1>2, <1>f DEF Ui
<1>8. /\ u \in Ui /\ u.id = ui[c].id /\ u.waiting = ui[c].waiting
      /\ u.status = s /\ u.peers = ui[c].peers \cup {h.from}
      /\ u.conns = ui[c].conns \cup {h.from}
  BY <1>3, <1>6, <1>7, <1>f DEF Ui
<1>9. u.conns \subseteq u.peers BY <1>8, <1>f DEF Grounds
<1>10. e \in Msg /\ e.k = "answer" BY <1>4, <1>f, MsgTypes DEF Ui
<1>11. Effect(c, Rest(c)) /\ Unhurt(Rest(c), c)
  BY <1>5, <1>10, <1>r, EffectSend
<1>12. /\ stray \subseteq stray' /\ stray' \subseteq Clients
       /\ c \notin stray' => Calling(ui[c])
  BY <1>5, <1>f, Facts
<1>13. Calling(ui[c]) => Calling(u) BY <1>2, <1>8 DEF Calling
<1> QED BY <1>1, <1>5, <1>8, <1>9, <1>11, <1>12, <1>13, ReadStep DEF Ends

LEMMA StepOnAnswer ==
  ASSUME IInv, NEW c \in Clients, OnAnswer(c)
  PROVE  IInv'
<1>f. /\ ui[c] \in Ui /\ Grounds(c, ui[c], asked[c]) /\ stray \subseteq Clients
      /\ c \notin stray => Own(Mine(c), Mail(inbox, c), ui[c], asked[c])
  BY Facts
<1>1. PICK h : h = Head(inbox[c]) OBVIOUS
<1>2. PICK s, ps :
        /\ s = IF h.media /\ h.from \in ui[c].conns THEN "connected"
               ELSE ui[c].status
        /\ ps = IF h.media /\ h.from \in ui[c].conns
                THEN ui[c].peers \cup {h.from} ELSE ui[c].peers
  OBVIOUS
<1>3. PICK u : u = [ui[c] EXCEPT !.status = s, !.peers = ps] OBVIOUS
<1>4. /\ inbox[c] # <<>> /\ h.k = "answer" /\ asked' = asked
      /\ switched' = switched /\ events' = events /\ stray' = stray
      /\ ui' = [ui EXCEPT ![c] = u] /\ NoEmit(Rest(c))
  BY <1>1, <1>2, <1>3 DEF OnAnswer, Gets, Set
<1>r. Base(Rest(c)) /\ h \in Msg BY <1>1, <1>4, Reading
<1>5. h.from \in Clients BY <1>4, <1>r DEF Msg, Ends
<1>6. /\ s \in {"idle", "outgoing", "incoming", "connecting", "connected"}
      /\ ps \subseteq Clients /\ ui[c].peers \subseteq ps
  BY <1>2, <1>5, <1>f DEF Ui
<1>7. /\ u \in Ui /\ u.id = ui[c].id /\ u.waiting = ui[c].waiting
      /\ u.status = s /\ u.peers = ps /\ u.conns = ui[c].conns
      /\ u.media = ui[c].media
  BY <1>3, <1>6, <1>f DEF Ui
<1>8. u.conns \subseteq u.peers BY <1>6, <1>7, <1>f DEF Grounds
<1>9. Effect(c, Rest(c)) /\ Unhurt(Rest(c), c) BY <1>4, <1>r, EffectNone
<1>10. ASSUME c \notin stray'
       PROVE  /\ Calling(ui[c]) <=> Calling(u)
              /\ ~ Calling(ui[c]) =>
                   /\ u.conns = {} /\ u.media = FALSE
                   /\ ui[c].status = "incoming" => u.status = "incoming"
  <2>1. Own(Mine(c), Mail(inbox, c), ui[c], asked[c]) BY <1>4, <1>10, <1>f
  <2>2. CASE Calling(ui[c]) BY <1>2, <1>7, <2>2 DEF Calling
  <2>3. CASE ~ Calling(ui[c])
    <3>1. ui[c].conns = {} /\ ui[c].media = FALSE
      BY <2>1, <2>3 DEF Own, Outside
    <3>2. s = ui[c].status BY <1>2, <3>1
    <3> QED BY <1>7, <2>3, <3>1, <3>2 DEF Calling
  <2> QED BY <2>2, <2>3
<1> QED BY <1>1, <1>4, <1>7, <1>8, <1>9, <1>10, <1>f, ReadStep DEF Ends

-----------------------------------------------------------------------------
(* The results.                                                            *)

LEMMA InitInv == Init => IInv
<1> SUFFICES ASSUME Init PROVE IInv OBVIOUS
<1>0. NoCall \notin Calls /\ MaxEvents \in Nat BY CallClientAssumption
<1>1. Types
  <2>1. inbox \in Boxes BY DEF Init, Boxes
  <2>2. ui \in [Clients -> Ui] BY DEF Init, Ui, MaybeCall
  <2>3. /\ roster \in [Calls -> SUBSET Clients]
        /\ channel \in [Calls -> Channels \cup {NoCall}]
        /\ asked \in [Clients -> SUBSET Question]
        /\ switched \in [Clients -> MaybeCall]
    BY DEF Init, MaybeCall
  <2>4. used \subseteq Calls /\ stray \subseteq Clients BY DEF Init
  <2>5. events \in 0 .. MaxEvents BY <1>0 DEF Init
  <2> QED BY <2>1, <2>2, <2>3, <2>4, <2>5 DEF Types
<1>2. Server BY DEF Init, Server
<1>3. ASSUME NEW c \in Clients
      PROVE  /\ KnowsMail(c, Mail(inbox, c)) /\ Grounds(c, ui[c], asked[c])
             /\ Own(Mine(c), Mail(inbox, c), ui[c], asked[c])
  <2>1. /\ Mail(inbox, c) = {} /\ Mine(c) = {} /\ asked[c] = {}
        /\ ui[c].status = "idle" /\ ui[c].id = NoCall
        /\ ui[c].waiting = NoCall /\ ui[c].media = FALSE
        /\ ui[c].conns = {} /\ ui[c].peers = {}
    BY DEF Init, Mail, Mine
  <2>2. KnowsMail(c, Mail(inbox, c)) BY <2>1 DEF KnowsMail
  <2>3. Grounds(c, ui[c], asked[c]) BY <2>1 DEF Grounds
  <2>4. ~ Calling(ui[c]) /\ Quiet(Mail(inbox, c))
    BY <2>1 DEF Calling, Quiet
  <2> QED BY <2>1, <2>2, <2>3, <2>4, OwnEnds
<1> QED BY <1>1, <1>2, <1>3 DEF IInv

LEMMA StepInv == IInv /\ [Next]_vars => IInv'
<1> SUFFICES ASSUME IInv, [Next]_vars PROVE IInv' OBVIOUS
<1>1. CASE UNCHANGED vars
  <2>1. /\ roster' = roster /\ channel' = channel /\ used' = used
        /\ inbox' = inbox /\ ui' = ui /\ asked' = asked /\ stray' = stray
        /\ switched' = switched /\ events' = events
    BY <1>1 DEF vars
  <2>2. Types' /\ Server' BY <2>1 DEF IInv, Types, Server
  <2>3. ASSUME NEW c \in Clients
        PROVE  /\ KnowsMail(c, Mail(inbox, c))'
               /\ Grounds(c, ui[c], asked[c])'
               /\ (c \notin stray =>
                     Own(Mine(c), Mail(inbox, c), ui[c], asked[c]))'
    <3>1. \A i : Knows(c, i)' = Knows(c, i) BY <2>1 DEF Knows
    <3>2. Mine(c)' = Mine(c) BY <2>1 DEF Mine
    <3>3. KnowsMail(c, Mail(inbox, c))'
      BY <2>1, <3>1 DEF IInv, KnowsMail
    <3>4. Grounds(c, ui[c], asked[c])' BY <2>1, <3>1 DEF IInv, Grounds
    <3> QED BY <2>1, <3>2, <3>3, <3>4 DEF IInv
  <2> QED BY <2>2, <2>3 DEF IInv
<1>2. CASE Next
  <2>1. PICK c \in Clients :
          \/ \E ch \in Channels : StartCall(c, ch)
          \/ \E i \in Calls : JoinGroupCall(c, i)
          \/ \E q \in asked[c] : Granted(c, q) \/ Denied(c, q)
          \/ AcceptIncoming(c) \/ Reject(c) \/ Cancel(c) \/ RingTimeout(c)
          \/ HangUp(c) \/ AcceptWaiting(c) \/ DeclineWaiting(c)
          \/ OnIncoming(c) \/ OnStarted(c) \/ OnAccepted(c)
          \/ OnPeerJoined(c) \/ OnPeerLeft(c) \/ OnEnd(c) \/ OnOffer(c)
          \/ OnAnswer(c)
    BY <1>2 DEF Next
  <2>2. CASE \E ch \in Channels : StartCall(c, ch)
    BY <2>2, StepStartCall
  <2>3. CASE \E i \in Calls : JoinGroupCall(c, i)
    BY <2>3, StepJoinGroupCall
  <2>4. ASSUME NEW q \in asked[c], Granted(c, q) PROVE IInv'
    <3>1. q.k \in {"start", "accept", "join"} BY <2>4 DEF Granted
    <3> QED BY <2>4, <3>1, StepGrantedStart, StepGrantedAccept,
               StepGrantedJoin
  <2>5. ASSUME NEW q \in asked[c], Denied(c, q) PROVE IInv'
    BY <2>5, StepDenied
  <2>6. CASE AcceptIncoming(c) BY <2>6, StepAcceptIncoming
  <2>7. CASE Reject(c) BY <2>7, StepReject
  <2>8. CASE Cancel(c) \/ RingTimeout(c)
    <3>1. CancelNow(c) /\ events' \in 0 .. MaxEvents
      BY <2>8, Facts DEF Cancel, RingTimeout, Event
    <3> QED BY <3>1, StepCancelNow
  <2>9. CASE HangUp(c) BY <2>9, StepHangUp
  <2>10. CASE AcceptWaiting(c) BY <2>10, StepAcceptWaiting
  <2>11. CASE DeclineWaiting(c) BY <2>11, StepDeclineWaiting
  <2>12. CASE OnIncoming(c) BY <2>12, StepOnIncoming
  <2>13. CASE OnStarted(c) BY <2>13, StepOnStarted
  <2>14. CASE OnAccepted(c) BY <2>14, StepOnAccepted
  <2>15. CASE OnPeerJoined(c) BY <2>15, StepOnPeerJoined
  <2>16. CASE OnPeerLeft(c) BY <2>16, StepOnPeerLeft
  <2>17. CASE OnEnd(c) BY <2>17, StepOnEnd
  <2>18. CASE OnOffer(c) BY <2>18, StepOnOffer
  <2>19. CASE OnAnswer(c) BY <2>19, StepOnAnswer
  <2> QED BY <2>1, <2>2, <2>3, <2>4, <2>5, <2>6, <2>7, <2>8, <2>9, <2>10,
             <2>11, <2>12, <2>13, <2>14, <2>15, <2>16, <2>17, <2>18, <2>19
<1> QED BY <1>1, <1>2

\* The inductive invariant of the clients and the server's calls: what every
\* handler of CallController.js and webrtc.handler.js preserves.
THEOREM Invariance == Spec => []IInv
<1>1. Init => IInv BY InitInv
<1>2. IInv /\ [Next]_vars => IInv' BY StepInv
<1> QED BY <1>1, <1>2, PTL DEF Spec

LEMMA InvType == IInv => TypeOK
<1> SUFFICES ASSUME IInv PROVE TypeOK OBVIOUS
<1>1. Types /\ Server BY DEF IInv
<1>2. ASSUME NEW c \in Clients
      PROVE  /\ ui[c].status \in {"idle", "outgoing", "incoming",
                                  "connecting", "connected"}
             /\ {ui[c].id, ui[c].waiting, switched[c]}
                  \subseteq Calls \cup {NoCall}
             /\ ui[c].conns \subseteq ui[c].peers
             /\ ui[c].peers \subseteq Clients
             /\ ui[c].ring \in BOOLEAN /\ ui[c].media \in BOOLEAN
             /\ \A q \in asked[c] : q.k \in {"start", "accept", "join"}
  <2>1. /\ ui[c] \in Ui /\ Grounds(c, ui[c], asked[c])
        /\ asked[c] \subseteq Question /\ switched[c] \in MaybeCall
    BY Facts
  <2>2. \A q \in Question : q.k \in {"start", "accept", "join"}
    BY DEF Question
  <2>3. /\ ui[c].conns \subseteq ui[c].peers
        /\ \A q \in asked[c] : q.k \in {"start", "accept", "join"}
    BY <2>1, <2>2 DEF Grounds
  <2> QED BY <2>1, <2>3 DEF Ui, MaybeCall
<1> QED BY <1>1, <1>2 DEF TypeOK, Types, Server

\* The clients' state, and the server's calls: a call has members of its
\* channel or is none, and a channel has one call (callRepository.js,
\* webrtc.handler.js), for any number of clients, channels and calls.
THEOREM TypeCorrect == Spec => []TypeOK
<1>1. IInv => TypeOK BY InvType
<1> QED BY <1>1, Invariance, PTL

LEMMA InvScreen == IInv => ScreenMatchesRoster
<1> SUFFICES ASSUME IInv, NEW c \in Clients \ stray,
                    inbox[c] = <<>>, asked[c] = {}
             PROVE  {i \in Calls : c \in roster[i]} =
                      IF InCall(c) THEN {ui[c].id} ELSE {}
  BY DEF ScreenMatchesRoster
<1>1. /\ Own(Mine(c), Mail(inbox, c), ui[c], asked[c])
      /\ InCall(c) <=> Calling(ui[c])
  BY Facts
<1>2. Mail(inbox, c) = {} BY DEF Mail
<1>3. Mine(c) = IF Calling(ui[c]) THEN {ui[c].id} ELSE {}
  BY <1>1, <1>2 DEF Own, Outside, Asking, Inside, Over
<1> QED BY <1>1, <1>3 DEF Mine

\* CallController.js and the server's roster agree: once a client has read
\* what it was sent, it is in the call it shows and in no other, unless one of
\* the races of its end or its start crossed it.
THEOREM ScreenAgrees == Spec => []ScreenMatchesRoster
<1>1. IInv => ScreenMatchesRoster BY InvScreen
<1> QED BY <1>1, Invariance, PTL

LEMMA InvMedia == IInv => MediaOnlyInCall
<1> SUFFICES ASSUME IInv, NEW c \in Clients \ stray, ui[c].media
             PROVE  InCall(c)
  BY DEF MediaOnlyInCall
<1>1. /\ Own(Mine(c), Mail(inbox, c), ui[c], asked[c])
      /\ InCall(c) <=> Calling(ui[c])
  BY Facts
<1> QED BY <1>1 DEF Own, Outside

\* Every end of a call lets microphone and camera go (_end and webrtc.js's
\* close), with the same exceptions.
THEOREM MediaReleased == Spec => []MediaOnlyInCall
<1>1. IInv => MediaOnlyInCall BY InvMedia
<1> QED BY <1>1, Invariance, PTL

===============================================================================
