--------------------------- MODULE Sessions_proofs ---------------------------
(***************************************************************************)
(* Sessions for any tabs and browsers, any lifetime of the tokens, any     *)
(* clock and number of requests: what the document and the browsers hold.  *)
(***************************************************************************)
EXTENDS Sessions, TLAPS

Ops == {"none", "api", "login", "refresh", "logout", "change", "reset"}
Ats == {"idle", "denied", "waiting", "sent", "saving", "answered", "refused",
        "failed"}
Req == [op : Ops, at : Ats, access : Seconds, token : Seconds,
        seen : SUBSET Seconds, version : Nat, password : Nat,
        since : Seconds, new : Seconds]
Doc == [tokens : SUBSET Seconds, version : Nat, password : Nat,
        floor : Seconds]
Sets == /\ minted \subseteq Seconds /\ twins \subseteq Seconds
        /\ revoked \subseteq Seconds /\ revived \subseteq Seconds
        /\ fresh \subseteq Seconds /\ late \subseteq Seconds

Types ==
  /\ now \in 1 .. MaxTime /\ doc \in Doc
  /\ store \in [Browsers -> [access : Seconds, refresh : Seconds]]
  /\ status \in [Tabs -> {"guest", "loading", "authed"}]
  /\ req \in [Slots -> Req] /\ Sets
  /\ excused \subseteq Browsers /\ events \in 0 .. MaxEvents

\* A handler that has read the document did so in a second gone by; a slot
\* for refreshes has no other request.
ReadInv ==
  \A p \in Slots :
    /\ req[p].at = "saving" => req[p].since \in 1 .. now
    /\ p[2] = "refresh" => req[p].op \in {"none", "refresh"}

TypeInv == Types /\ ReadInv

LEMMA TypesOK == Types <=> TypeOK
BY DEF Types, TypeOK, Sets, Req, Doc, Ops, Ats

\* The slots of a tab.
LEMMA SlotParts ==
  /\ \A t \in Tabs : /\ Call(t) \in Slots /\ Refresh(t) \in Slots
                     /\ Call(t) # Refresh(t) /\ Call(t)[2] = "call"
                     /\ Home(Call(t)) = BrowserOf[t]
                     /\ Home(Refresh(t)) = BrowserOf[t]
                     /\ BrowserOf[t] \in Browsers
  /\ \A p \in Slots : Home(p) \in Browsers
BY SessionsAssumption DEF Slots, Call, Refresh, Home

LEMMA IdleType ==
  Idle \in Req /\ None \in [access : Seconds, refresh : Seconds]
BY SessionsAssumption DEF Idle, None, Req, Ops, Ats, Seconds

LEMMA InitTypes == Init => TypeInv
BY SessionsAssumption, IdleType DEF Init, TypeInv, Types, ReadInv, Sets, Doc,
   Idle, Seconds

\* A request takes the place of another in its slot.
LEMMA Replace ==
  ASSUME TypeInv, NEW p \in Slots, NEW r \in Req,
         req' = [req EXCEPT ![p] = r], now' = now,
         r.at = "saving" => r.since \in 1 .. now,
         p[2] = "refresh" => r.op \in {"none", "refresh"}
  PROVE  req' \in [Slots -> Req] /\ ReadInv'
BY DEF TypeInv, Types, ReadInv

LEMMA SendTypes ==
  ASSUME TypeInv, now' = now, NEW p \in Slots, p[2] # "refresh",
         NEW op \in Ops, Send(p, op)
  PROVE  req' \in [Slots -> Req] /\ ReadInv' /\ excused' \subseteq Browsers
<1>t. /\ store \in [Browsers -> [access : Seconds, refresh : Seconds]]
      /\ excused \subseteq Browsers
  BY DEF TypeInv, Types
<1> DEFINE r == [Idle EXCEPT !.op = op, !.at = "sent",
                             !.access = store[Home(p)].access,
                             !.token = store[Home(p)].refresh]
<1>1. r \in Req /\ r.at = "sent"
  BY <1>t, SlotParts, IdleType DEF Req, Idle, Ats
<1>2. req' = [req EXCEPT ![p] = r] BY DEF Send
<1>3. excused' \subseteq Browsers BY <1>t, SlotParts DEF Send
<1> HIDE DEF r
<1> QED BY <1>1, <1>2, <1>3, Replace

LEMMA FinishTypes ==
  ASSUME TypeInv, now' = now, NEW p \in Slots,
         NEW at \in Ats \ {"saving"}, NEW new \in Seconds, Finish(p, at, new)
  PROVE  req' \in [Slots -> Req] /\ ReadInv'
<1>t. req[p] \in Req BY DEF TypeInv, Types
<1> DEFINE r == [Idle EXCEPT !.op = req[p].op, !.at = at,
                             !.token = req[p].token, !.new = new]
<1>1. r \in Req /\ r.at # "saving" /\ r.op = req[p].op
  BY <1>t, IdleType DEF Req, Idle
<1>2. req' = [req EXCEPT ![p] = r] BY DEF Finish
<1>3. p[2] = "refresh" => r.op \in {"none", "refresh"}
  BY <1>1 DEF TypeInv, ReadInv
<1> HIDE DEF r
<1> QED BY <1>1, <1>2, <1>3, Replace

LEMMA LoadTypes ==
  ASSUME TypeInv, now' = now, NEW p \in Slots, Load(p)
  PROVE  req' \in [Slots -> Req] /\ ReadInv'
<1>t. req[p] \in Req /\ doc \in Doc /\ now \in 1 .. MaxTime
  BY DEF TypeInv, Types
<1> DEFINE r == [req[p] EXCEPT !.at = "saving", !.seen = doc.tokens,
                   !.version = doc.version, !.password = doc.password,
                   !.since = now]
<1>s. now \in Seconds BY <1>t, SessionsAssumption DEF Seconds
<1>1. r \in Req /\ r.since = now /\ r.op = req[p].op
  BY <1>t, <1>s DEF Req, Doc, Ats
<1>2. req' = [req EXCEPT ![p] = r] BY DEF Load, TypeInv, Types
<1>3. p[2] = "refresh" => r.op \in {"none", "refresh"}
  BY <1>1 DEF TypeInv, ReadInv
<1>4. r.at = "saving" => r.since \in 1 .. now BY <1>t, <1>1
<1> HIDE DEF r
<1> QED BY <1>1, <1>2, <1>3, <1>4, Replace

\* The idle request, and the one whose call was refused, as such.
LEMMA IdleTypes ==
  /\ Idle.at = "idle" /\ Idle.op = "none"
  /\ [Idle EXCEPT !.op = "api", !.at = "denied"] \in Req
  /\ [Idle EXCEPT !.op = "api", !.at = "denied"].at = "denied"
BY IdleType DEF Idle, Req, Ops, Ats

\* The seconds a handler that has read may mint in.
LEMMA SinceSeconds ==
  ASSUME TypeInv, NEW p \in Slots, req[p].at = "saving",
         NEW x \in req[p].since .. now
  PROVE  x \in Seconds /\ x \in 1 .. MaxTime /\ Floor(x) \in Seconds
BY SessionsAssumption DEF TypeInv, Types, ReadInv, Seconds, Floor

\* The steps of a handler keep the types.
LEMMA HandlerTypes ==
  ASSUME TypeInv, NEW t \in Tabs, Handler(t) PROVE TypeInv'
<1> DEFINE p == Call(t)
           f == Refresh(t)
<1>s. p \in Slots /\ f \in Slots /\ p[2] # "refresh" BY SlotParts
<1>t. Types BY DEF TypeInv
<1>0. 0 \in Seconds BY SessionsAssumption DEF Seconds
<1>a. {"answered", "refused", "failed"} \subseteq Ats \ {"saving"} BY DEF Ats
<1> HIDE DEF p, f
<1>r. req[p] \in Req /\ req[f] \in Req BY <1>s, <1>t DEF Types
<1> USE DEF Answer, Refuse, Fail
<1>1. CASE FindUser(t)
  <2>1. Load(p) /\ now' = now BY <1>1 DEF FindUser, p
  <2> QED BY <1>1, <1>s, <1>t, <2>1, LoadTypes
          DEF FindUser, TypeInv, Types, Sets, history
<1>2. CASE IssueTokens(t)
  <2>1. req[p].at = "saving" BY <1>2 DEF IssueTokens, p
  <2>2. PICK x \in req[p].since .. now :
          /\ doc' = [doc EXCEPT !.tokens = @ \cup {x}, !.version = @ + 1]
          /\ Answer(p, x) /\ Mint(x)
    BY <1>2 DEF IssueTokens, p
  <2>3. x \in Seconds BY <1>s, <2>1, SinceSeconds
  <2>4. now' = now BY <1>2 DEF IssueTokens
  <2>5. req' \in [Slots -> Req] /\ ReadInv'
    BY <1>s, <1>a, <2>2, <2>3, <2>4, FinishTypes
  <2>6. doc' \in Doc
    <3>1. doc.tokens \cup {x} \in SUBSET Seconds /\ doc.version + 1 \in Nat
      BY <1>t, <2>3 DEF Types, Doc
    <3> QED BY <1>t, <2>2, <3>1 DEF Types, Doc
  <2>7. /\ fresh' \subseteq fresh \cup Seconds
        /\ late' \subseteq late \cup Seconds
    <3>1. PICK y \in req[p].since .. now :
            /\ fresh' \subseteq fresh \cup {y} /\ late' \subseteq late \cup {y}
      BY <1>2 DEF IssueTokens, p
    <3>2. y \in Seconds BY <1>s, <2>1, SinceSeconds
    <3> QED BY <3>1, <3>2
  <2>8. minted' \subseteq Seconds /\ twins' \subseteq Seconds
    BY <1>t, <2>2, <2>3 DEF Mint, Types, Sets
  <2> QED BY <1>2, <1>t, <2>5, <2>6, <2>7, <2>8
          DEF IssueTokens, TypeInv, Types, Sets
<1>3. CASE CheckRefresh(t)
  <2>1. Load(f) \/ Refuse(f) BY <1>3 DEF CheckRefresh, f
  <2>2. now' = now BY <1>3 DEF CheckRefresh
  <2>3. req' \in [Slots -> Req] /\ ReadInv'
    BY <1>s, <1>a, <1>0, <2>1, <2>2, LoadTypes, FinishTypes
  <2> QED BY <1>3, <1>t, <2>3
          DEF CheckRefresh, TypeInv, Types, Sets, history
<1>4. CASE Rotate(t)
  <2>1. req[f].at = "saving" BY <1>4 DEF Rotate, SaveRotation, f
  <2>2. PICK x \in req[f].since .. now :
          /\ doc' = [doc EXCEPT !.version = @ + 1,
                       !.tokens = (req[f].seen \ {req[f].token}) \cup {x}]
          /\ Answer(f, x) /\ Mint(x)
          /\ Revoke({req[f].token} \ {x}, FALSE)
          /\ fresh' \subseteq fresh \cup {x} /\ late' \subseteq late \cup {x}
    BY <1>4 DEF Rotate, SaveRotation, f
  <2>3. x \in Seconds BY <1>s, <2>1, SinceSeconds
  <2>4. now' = now BY <1>4 DEF Rotate, SaveRotation
  <2>5. req' \in [Slots -> Req] /\ ReadInv'
    BY <1>s, <1>a, <2>2, <2>3, <2>4, FinishTypes
  <2>6. doc' \in Doc
    <3>1. /\ (req[f].seen \ {req[f].token}) \cup {x} \in SUBSET Seconds
          /\ doc.version + 1 \in Nat
      BY <1>t, <1>r, <2>3 DEF Types, Doc, Req
    <3> QED BY <1>t, <2>2, <3>1 DEF Types, Doc
  <2>7. Sets'
    <3>1. req[f].token \in Seconds BY <1>r DEF Req
    <3> QED BY <1>t, <2>2, <2>3, <3>1 DEF Mint, Revoke, Types, Sets
  <2> QED BY <1>4, <1>t, <2>5, <2>6, <2>7
          DEF Rotate, SaveRotation, TypeInv, Types
<1>5. CASE RotateConflict(t)
  <2>1. Fail(f) /\ now' = now BY <1>5 DEF RotateConflict, f
  <2>2. req' \in [Slots -> Req] /\ ReadInv'
    BY <1>s, <1>a, <1>0, <2>1, FinishTypes
  <2> QED BY <1>5, <1>t, <2>2
          DEF RotateConflict, TypeInv, Types, Sets, history
<1>6. CASE PullToken(t)
  <2> DEFINE x == {req[p].token} \cap doc.tokens
  <2>1. /\ \/ /\ doc' = [doc EXCEPT !.tokens = @ \ x] /\ Answer(p, 0)
              /\ Revoke(x, TRUE)
           \/ Refuse(p) /\ UNCHANGED <<doc, revoked, revived>>
        /\ UNCHANGED <<now, store, status, minted, twins, fresh, late,
                       excused, events>>
    BY <1>6 DEF PullToken, p
  <2>2. req' \in [Slots -> Req] /\ ReadInv'
    BY <1>s, <1>a, <1>0, <2>1, FinishTypes
  <2>3. x \subseteq Seconds BY <1>t DEF Types, Doc
  <2> HIDE DEF x
  <2>4. doc' \in Doc BY <1>t, <2>1 DEF Types, Doc
  <2>5. revoked' \subseteq Seconds /\ revived' \subseteq Seconds
    BY <1>t, <2>1, <2>3 DEF Revoke, Types, Sets
  <2> QED BY <1>t, <2>1, <2>2, <2>4, <2>5 DEF TypeInv, Types, Sets
<1>7. CASE CheckPassword(t)
  <2>1. Load(p) \/ Refuse(p) BY <1>7 DEF CheckPassword, p
  <2>2. now' = now BY <1>7 DEF CheckPassword
  <2>3. req' \in [Slots -> Req] /\ ReadInv'
    BY <1>s, <1>a, <1>0, <2>1, <2>2, LoadTypes, FinishTypes
  <2> QED BY <1>7, <1>t, <2>3
          DEF CheckPassword, TypeInv, Types, Sets, history
<1>8. CASE SavePassword(t)
  <2> DEFINE r == req[p]
             writes == Keeps(r) # r.seen
  <2>1. /\ r.at = "saving" /\ now' = now /\ Answer(p, 0)
        /\ UNCHANGED <<now, store, status, minted, twins, events>>
        /\ Revoke(IF writes THEN doc.tokens \ Keeps(r) ELSE {}, FALSE)
        /\ fresh' = IF r.op = "change" THEN r.seen \cap {r.token} ELSE {}
        /\ late' = IF writes THEN late ELSE late \cup (doc.tokens \ r.seen)
        /\ excused' \subseteq excused \cup Browsers
    BY <1>8 DEF SavePassword, p
  <2>2. PICK s \in r.since .. now :
          doc' = [tokens |-> IF writes THEN Keeps(r) ELSE doc.tokens,
                  version |-> IF writes THEN doc.version + 1 ELSE doc.version,
                  password |-> doc.password + 1, floor |-> Floor(s)]
    BY <1>8 DEF SavePassword, p
  <2>3. Floor(s) \in Seconds BY <1>s, <2>1, SinceSeconds
  <2>4. req' \in [Slots -> Req] /\ ReadInv'
    BY <1>s, <1>a, <1>0, <2>1, FinishTypes
  <2>5. Keeps(r) \subseteq Seconds BY <1>r DEF Keeps, Req
  <2>6. doc' \in Doc BY <1>t, <2>2, <2>3, <2>5 DEF Types, Doc
  <2>7. r.seen \subseteq Seconds /\ doc.tokens \subseteq Seconds
    BY <1>r, <1>t DEF Req, Types, Doc
  <2> HIDE DEF r, writes
  <2>8. Sets' BY <1>t, <2>1, <2>7 DEF Revoke, Types, Sets
  <2>9. excused' \subseteq Browsers BY <1>t, <2>1 DEF Types
  <2> QED BY <1>t, <2>1, <2>4, <2>6, <2>8, <2>9 DEF TypeInv, Types
<1>9. CASE PasswordConflict(t)
  <2>1. Fail(p) /\ now' = now BY <1>9 DEF PasswordConflict, p
  <2>2. req' \in [Slots -> Req] /\ ReadInv'
    BY <1>s, <1>a, <1>0, <2>1, FinishTypes
  <2> QED BY <1>9, <1>t, <2>2
          DEF PasswordConflict, TypeInv, Types, Sets, history
<1> QED BY <1>1, <1>2, <1>3, <1>4, <1>5, <1>6, <1>7, <1>8, <1>9 DEF Handler

\* The steps of the client keep the types.
LEMMA ClientTypes ==
  ASSUME TypeInv, NEW t \in Tabs, Client(t) PROVE TypeInv'
<1> DEFINE p == Call(t)
           f == Refresh(t)
           b == BrowserOf[t]
<1>s. /\ p \in Slots /\ f \in Slots /\ p[2] # "refresh" /\ p # f
      /\ b \in Browsers /\ Home(p) = b /\ Home(f) = b
  BY SlotParts
<1>t. Types BY DEF TypeInv
<1>0. 0 \in Seconds BY SessionsAssumption DEF Seconds
<1>o. {"login", "logout", "change", "reset", "none", "refresh"} \subseteq Ops
  BY DEF Ops
<1> HIDE DEF p, f, b
<1>r. req[p] \in Req /\ req[f] \in Req BY <1>s, <1>t DEF Types
<1>1. ASSUME NEW op \in {"login", "logout", "change", "reset"}, Event,
             Send(p, op),
             UNCHANGED <<now, doc, store, status, minted, twins, revoked,
                         revived, fresh, late>>
      PROVE  TypeInv'
  <2>1. req' \in [Slots -> Req] /\ ReadInv' /\ excused' \subseteq Browsers
    BY <1>s, <1>o, <1>1, SendTypes
  <2>2. events' \in 0 .. MaxEvents
    BY <1>t, <1>1, SessionsAssumption DEF Event, Types
  <2> QED BY <1>t, <1>1, <2>1, <2>2 DEF TypeInv, Types, Sets
<1>2. CASE Login(t) \/ Logout(t) \/ ChangePassword(t) \/ ResetPassword(t)
  BY <1>1, <1>2 DEF Login, Logout, ChangePassword, ResetPassword, p
<1>3. CASE Denied(t)
  <2>1. /\ req' = [req EXCEPT ![p] = [Idle EXCEPT !.op = "api",
                                                  !.at = "denied"]]
        /\ UNCHANGED <<now, doc, store, status, history>> /\ Event
    BY <1>3 DEF Denied, p
  <2>2. req' \in [Slots -> Req] /\ ReadInv'
    BY <1>s, <2>1, Replace, IdleTypes
  <2>3. events' \in 0 .. MaxEvents
    BY <1>t, <2>1, SessionsAssumption DEF Event, Types
  <2> QED BY <1>t, <2>1, <2>2, <2>3 DEF TypeInv, Types, Sets, history
<1>4. CASE GiveUp(t)
  <2>1. /\ req' = [req EXCEPT ![p] = Idle]
        /\ status' = [status EXCEPT ![t] = IF @ = "loading" THEN "guest"
                                           ELSE @]
        /\ UNCHANGED <<now, doc, store, history, events>>
    BY <1>4 DEF GiveUp, p
  <2>2. req' \in [Slots -> Req] /\ ReadInv'
    BY <1>s, <2>1, Replace, IdleTypes, IdleType
  <2> QED BY <1>t, <2>1, <2>2 DEF TypeInv, Types, Sets, history
<1>5. CASE DoRefresh(t)
  <2> DEFINE r == [req[p] EXCEPT !.at = "waiting"]
             q == IF req[f].at # "idle" THEN req[f]
                  ELSE [Idle EXCEPT !.op = "refresh", !.at = "sent",
                                    !.token = store[b].refresh]
  <2>1. /\ req' = [req EXCEPT ![p] = r, ![f] = q]
        /\ UNCHANGED <<now, doc, store, status, minted, twins, revoked,
                       revived, fresh, late, events>>
        /\ excused' \subseteq excused \cup {b}
    BY <1>s, <1>5 DEF DoRefresh, p, f, TypeInv, Types
  <2>2. r \in Req /\ r.at = "waiting" BY <1>r DEF Req, Ats
  <2>3. store[b].refresh \in Seconds BY <1>s, <1>t DEF Types
  <2>4. /\ q \in Req /\ q.op \in {"none", "refresh"}
        /\ q.at = "saving" => q = req[f]
    <3>1. req[f].op \in {"none", "refresh"}
      BY <1>s DEF TypeInv, ReadInv, f, Refresh
    <3> QED BY <1>r, <2>3, <3>1, IdleType DEF Req, Idle, Ops, Ats
  <2>5. p[2] # "refresh" BY <1>s
  <2> HIDE DEF r, q
  <2>6. req' \in [Slots -> Req] BY <1>t, <2>1, <2>2, <2>4 DEF Types
  <2>7. ReadInv'
    BY <1>s, <1>t, <2>1, <2>2, <2>4, <2>5 DEF TypeInv, Types, ReadInv
  <2> QED BY <1>s, <1>t, <2>1, <2>6, <2>7 DEF TypeInv, Types, Sets
<1>6. CASE Refreshed(t)
  <2> DEFINE q == IF req[p].at = "waiting" THEN Idle ELSE req[p]
  <2>1. /\ req' = [req EXCEPT ![f] = Idle, ![p] = q]
        /\ UNCHANGED <<now, doc, minted, twins, revoked, revived, fresh, late,
                       events>>
        /\ excused' \subseteq excused \cup {b}
    BY <1>s, <1>6 DEF Refreshed, p, f, TypeInv, Types
  <2>2. store' \in [Browsers -> [access : Seconds, refresh : Seconds]]
    <3>1. store' = [store EXCEPT ![b] = CASE
              req[f].at = "answered" -> [access |-> req[f].new,
                                         refresh |-> req[f].new]
           [] req[f].at = "refused" -> None
           [] OTHER -> @]
      BY <1>s, <1>6 DEF Refreshed, f
    <3>2. req[f].new \in Seconds BY <1>r DEF Req
    <3>3. store[b] \in [access : Seconds, refresh : Seconds]
      BY <1>s, <1>t DEF Types
    <3> QED BY <1>s, <1>t, <3>1, <3>2, <3>3, IdleType DEF Types
  <2>3. status' \in [Tabs -> {"guest", "loading", "authed"}]
    BY <1>t, <1>6 DEF Refreshed, Types
  <2>4. q \in Req /\ q \in {Idle, req[p]} BY <1>r, IdleType
  <2> HIDE DEF q
  <2>5. req' \in [Slots -> Req] BY <1>t, <2>1, <2>4, IdleType DEF Types
  <2>6. ReadInv'
    BY <1>s, <1>t, <2>1, <2>4, IdleTypes DEF TypeInv, Types, ReadInv
  <2> QED BY <1>s, <1>t, <2>1, <2>2, <2>3, <2>5, <2>6
          DEF TypeInv, Types, Sets
<1>7. CASE LoggedOut(t)
  <2>1. /\ req' = [req EXCEPT ![p] = Idle]
        /\ status' = [status EXCEPT ![t] = "guest"]
        /\ store' = [store EXCEPT ![b] = None]
        /\ UNCHANGED <<now, doc, minted, twins, revoked, revived, fresh, late,
                       excused, events>>
    BY <1>7 DEF LoggedOut, EndLogout, p, b
  <2>2. req' \in [Slots -> Req] /\ ReadInv'
    BY <1>s, <2>1, Replace, IdleTypes, IdleType
  <2> QED BY <1>t, <2>1, <2>2, IdleType DEF TypeInv, Types, Sets
<1>8. CASE Receive(t)
  <2>1. UNCHANGED <<now, doc, minted, twins, revoked, revived, fresh, late,
                    events>>
    BY <1>8 DEF Receive
  <2>2. /\ store' \in [Browsers -> [access : Seconds, refresh : Seconds]]
        /\ status' \in [Tabs -> {"guest", "loading", "authed"}]
    <3>1. \/ UNCHANGED <<store, status>>
          \/ /\ store' = [store EXCEPT ![b] = [access |-> req[p].new,
                                               refresh |-> req[p].new]]
             /\ status' = [status EXCEPT ![t] = "authed"]
      BY <1>s, <1>8 DEF Receive, p
    <3>2. req[p].new \in Seconds BY <1>r DEF Req
    <3> QED BY <1>s, <1>t, <3>1, <3>2 DEF Types
  <2>3. \/ Send(p, "logout")
        \/ req' = [req EXCEPT ![p] = Idle] /\ UNCHANGED excused
    BY <1>8 DEF Receive, p
  <2>4. req' \in [Slots -> Req] /\ ReadInv' /\ excused' \subseteq Browsers
    <3>1. CASE Send(p, "logout") BY <1>s, <1>o, <2>1, <3>1, SendTypes
    <3>2. CASE req' = [req EXCEPT ![p] = Idle] /\ UNCHANGED excused
      BY <1>s, <1>t, <2>1, <3>2, Replace, IdleTypes, IdleType DEF Types
    <3> QED BY <2>3, <3>1, <3>2
  <2> QED BY <1>t, <2>1, <2>2, <2>4 DEF TypeInv, Types, Sets
<1>9. CASE Bootstrap(t)
  <2>1. /\ UNCHANGED <<now, doc, store, minted, twins, revoked, revived,
                       fresh, late>>
        /\ Event /\ excused' \subseteq excused \cup {b}
        /\ status' \in [Tabs -> {"guest", "loading", "authed"}]
    BY <1>t, <1>9 DEF Bootstrap, b, Types
  <2>2. PICK q \in {Idle, [Idle EXCEPT !.op = "api", !.at = "denied"]} :
          req' = [req EXCEPT ![f] = Idle, ![p] = q]
    BY <1>9 DEF Bootstrap, p, f
  <2>3. q \in Req /\ q.at # "saving" BY IdleType, IdleTypes
  <2>4. req' \in [Slots -> Req] BY <1>t, <2>2, <2>3, IdleType DEF Types
  <2>5. ReadInv'
    BY <1>s, <1>t, <2>1, <2>2, <2>3, IdleTypes DEF TypeInv, Types, ReadInv
  <2>6. events' \in 0 .. MaxEvents
    BY <1>t, <2>1, SessionsAssumption DEF Event, Types
  <2> QED BY <1>s, <1>t, <2>1, <2>4, <2>5, <2>6 DEF TypeInv, Types, Sets
<1> QED BY <1>2, <1>3, <1>4, <1>5, <1>6, <1>7, <1>8, <1>9 DEF Client

LEMMA TypeStep == TypeInv /\ [Next]_vars => TypeInv'
<1> SUFFICES ASSUME TypeInv, [Next]_vars PROVE TypeInv'
  OBVIOUS
<1>t. Types BY DEF TypeInv
<1>1. CASE Tick
  <2>1. /\ now < MaxTime /\ now' = now + 1
        /\ UNCHANGED <<doc, store, status, req, history, events>>
    BY <1>1 DEF Tick
  <2>2. now \in Nat /\ now' \in 1 .. MaxTime
    BY <1>t, <2>1, SessionsAssumption DEF Types
  <2>3. \A n \in 1 .. now : n \in 1 .. now' BY <2>1, <2>2
  <2>4. ReadInv' BY <2>1, <2>3 DEF TypeInv, ReadInv
  <2> QED BY <1>t, <2>1, <2>2, <2>4 DEF TypeInv, Types, Sets, history
<1>2. ASSUME NEW p \in Slots, Lose(p) PROVE TypeInv'
  <2>1. /\ Finish(p, "failed", 0) /\ Event
        /\ excused' = excused \cup {Home(p)}
        /\ UNCHANGED <<now, doc, store, status, minted, twins, revoked,
                       revived, fresh, late>>
    BY <1>2 DEF Lose, Fail
  <2>2. req' \in [Slots -> Req] /\ ReadInv'
    BY <2>1, FinishTypes, SessionsAssumption DEF Ats, Seconds
  <2>3. events' \in 0 .. MaxEvents
    BY <1>t, <2>1, SessionsAssumption DEF Event, Types
  <2> QED BY <1>t, <2>1, <2>2, <2>3, SlotParts DEF TypeInv, Types, Sets
<1>3. CASE UNCHANGED vars
  BY <1>3, <1>t DEF vars, history, TypeInv, Types, ReadInv, Sets
<1> QED BY <1>1, <1>2, <1>3, HandlerTypes, ClientTypes DEF Next

-----------------------------------------------------------------------------
(* What the document holds.                                                *)

\* What a handler has read was minted, is not newer than the document, and
\* while no array has been written since is still there, or was pulled and
\* is marked; nothing else is there.  A rotation replaces a token it has read.
Slot(p) ==
  /\ p[2] = "refresh" /\ req[p].at \in {"sent", "saving"}
       => req[p].op = "refresh"
  /\ req[p].at = "saving" =>
       /\ req[p].seen \subseteq minted /\ req[p].version <= doc.version
       /\ p[2] = "refresh" => req[p].token \in req[p].seen
       /\ req[p].op \in {"refresh", "change"} /\ req[p].version = doc.version
            => req[p].seen \subseteq doc.tokens \cup revived
       /\ req[p].version = doc.version => doc.tokens \subseteq req[p].seen

SlotInv == \A p \in Slots : Slot(p)
MintedInv == doc.tokens \subseteq minted /\ revoked \subseteq minted

SafeInv ==
  MintedInv /\ SlotInv /\ RevokedStaysRevoked /\ SessionsOfThisPassword

LEMMA InitSafe == Init => SafeInv
BY DEF Init, SafeInv, MintedInv, SlotInv, Slot, RevokedStaysRevoked,
   SessionsOfThisPassword, Idle

\* A step that leaves the document alone: a slot keeps its request, sends
\* one, reads the document for it, or is done.
Carried(q) ==
  \/ req'[q] = req[q]
  \/ req'[q].at \notin {"sent", "saving"}
  \/ /\ req'[q].at = "sent"
     /\ q[2] = "refresh" => req'[q].op = "refresh"
  \/ /\ req'[q].at = "saving"
     /\ req'[q].seen = doc.tokens /\ req'[q].version = doc.version
     /\ q[2] = "refresh" =>
          req'[q].op = "refresh" /\ req'[q].token \in doc.tokens

LEMMA QuietStep ==
  ASSUME TypeInv, SafeInv,
         UNCHANGED <<doc, minted, twins, revoked, revived, fresh, late>>,
         \A q \in Slots : Carried(q)
  PROVE  SafeInv'
<1>1. doc.version \in Nat BY DEF TypeInv, Types, Doc
<1>2. ASSUME NEW q \in Slots PROVE Slot(q)'
  <2>1. Slot(q) /\ doc.tokens \subseteq minted
    BY DEF SafeInv, SlotInv, MintedInv
  <2>2. Carried(q) OBVIOUS
  <2>3. CASE req'[q] = req[q] BY <2>1, <2>3 DEF Slot
  <2>4. CASE req'[q].at \notin {"sent", "saving"} BY <2>4 DEF Slot
  <2>5. CASE /\ req'[q].at = "sent"
             /\ q[2] = "refresh" => req'[q].op = "refresh"
    BY <2>5 DEF Slot
  <2>6. CASE /\ req'[q].at = "saving"
             /\ req'[q].seen = doc.tokens /\ req'[q].version = doc.version
             /\ q[2] = "refresh" =>
                  req'[q].op = "refresh" /\ req'[q].token \in doc.tokens
    BY <1>1, <2>1, <2>6 DEF Slot
  <2> QED BY <2>2, <2>3, <2>4, <2>5, <2>6 DEF Carried
<1> QED BY <1>2 DEF SafeInv, MintedInv, SlotInv, RevokedStaysRevoked,
                    SessionsOfThisPassword

LEMMA SendCarries ==
  ASSUME TypeInv, NEW p \in Slots, p[2] # "refresh", NEW op, Send(p, op)
  PROVE  \A q \in Slots : Carried(q)
<1>1. req \in [Slots -> Req] BY DEF TypeInv, Types
<1>2. \A q \in Slots : IF q = p THEN req'[q].at = "sent" ELSE req'[q] = req[q]
  BY <1>1 DEF Send, Idle
<1> QED BY <1>2 DEF Carried

LEMMA FinishCarries ==
  ASSUME TypeInv, NEW p \in Slots, NEW at \in Ats \ {"saving", "sent"},
         NEW new, Finish(p, at, new)
  PROVE  \A q \in Slots : Carried(q)
<1>1. req \in [Slots -> Req] BY DEF TypeInv, Types
<1>2. \A q \in Slots : IF q = p THEN req'[q].at = at ELSE req'[q] = req[q]
  BY <1>1 DEF Finish, Idle
<1> QED BY <1>2 DEF Carried, Ats

LEMMA LoadCarries ==
  ASSUME TypeInv, SafeInv, NEW p \in Slots, Load(p), req[p].at = "sent",
         p[2] = "refresh" => req[p].token \in doc.tokens
  PROVE  \A q \in Slots : Carried(q)
<1>1. req \in [Slots -> Req] BY DEF TypeInv, Types
<1>2. \A q \in Slots : q # p => req'[q] = req[q] BY <1>1 DEF Load
<1>3. /\ req'[p].at = "saving" /\ req'[p].seen = doc.tokens
      /\ req'[p].version = doc.version /\ req'[p].op = req[p].op
      /\ req'[p].token = req[p].token
  BY <1>1 DEF Load, Req
<1>4. p[2] = "refresh" => req[p].op = "refresh"
  BY DEF SafeInv, SlotInv, Slot
<1> QED BY <1>2, <1>3, <1>4 DEF Carried

\* The four steps that write the document: the slot is done, and no other
\* slot changes.
LEMMA OthersKeep ==
  ASSUME TypeInv, NEW p \in Slots, NEW new, Answer(p, new)
  PROVE  \A q \in Slots : IF q = p THEN req'[q].at = "answered"
                          ELSE req'[q] = req[q]
BY DEF TypeInv, Types, Answer, Finish, Idle

\* A write of the array outdates what the others have read.
LEMMA NewVersion ==
  ASSUME TypeInv, SlotInv, NEW p \in Slots,
         \A q \in Slots : IF q = p THEN req'[q].at = "answered"
                          ELSE req'[q] = req[q],
         doc'.version = doc.version + 1, minted \subseteq minted'
  PROVE  SlotInv'
<1>1. doc.version \in Nat BY DEF TypeInv, Types, Doc
<1>2. ASSUME NEW q \in Slots PROVE Slot(q)'
  <2>1. Slot(q) BY DEF SlotInv
  <2>2. req[q].version \in Nat BY DEF TypeInv, Types, Req
  <2>3. CASE q = p BY <2>3 DEF Slot
  <2>4. CASE q # p
    <3>1. req'[q] = req[q] BY <2>4
    <3>2. req[q].at = "saving" =>
            req[q].version <= doc'.version /\ req[q].version # doc'.version
      BY <1>1, <2>1, <2>2 DEF Slot
    <3> QED BY <2>1, <3>1, <3>2 DEF Slot
  <2> QED BY <2>3, <2>4
<1> QED BY <1>2 DEF SlotInv

LEMMA IssueSafe ==
  ASSUME TypeInv, SafeInv, NEW t \in Tabs, IssueTokens(t) PROVE SafeInv'
<1> DEFINE p == Call(t)
<1>s. p \in Slots BY SlotParts
<1>1. PICK x \in req[p].since .. now :
        /\ doc' = [doc EXCEPT !.tokens = @ \cup {x}, !.version = @ + 1]
        /\ Answer(p, x) /\ Mint(x)
        /\ \/ fresh' = fresh \cup {x} /\ UNCHANGED late
           \/ late' = late \cup {x} /\ UNCHANGED fresh
  BY DEF IssueTokens
<1>2. revoked' = revoked /\ revived' = revived BY DEF IssueTokens
<1> HIDE DEF p
<1>3. doc'.tokens = doc.tokens \cup {x} /\ doc'.version = doc.version + 1
  BY <1>1 DEF TypeInv, Types, Doc
<1>4. /\ minted' = minted \cup {x} /\ twins \subseteq twins'
      /\ x \in minted => x \in twins'
  BY <1>1 DEF Mint
<1>5. SlotInv' BY <1>s, <1>1, <1>3, <1>4, OthersKeep, NewVersion DEF SafeInv
<1>6. MintedInv' BY <1>2, <1>3, <1>4 DEF SafeInv, MintedInv
<1>7. RevokedStaysRevoked'
  BY <1>2, <1>3, <1>4 DEF SafeInv, MintedInv, RevokedStaysRevoked
<1>8. SessionsOfThisPassword'
  BY <1>1, <1>2, <1>3 DEF SafeInv, SessionsOfThisPassword
<1> QED BY <1>5, <1>6, <1>7, <1>8 DEF SafeInv

LEMMA RotateSafe ==
  ASSUME TypeInv, SafeInv, NEW t \in Tabs, Rotate(t) PROVE SafeInv'
<1> DEFINE p == Refresh(t)
           tok == req[p].token
           seen == req[p].seen
<1>s. p \in Slots /\ p[2] = "refresh" BY SlotParts DEF Refresh
<1>1. PICK x \in req[p].since .. now :
        /\ doc' = [doc EXCEPT !.version = @ + 1,
                     !.tokens = (seen \ {tok}) \cup {x}]
        /\ Answer(p, x) /\ Mint(x) /\ Revoke({tok} \ {x}, FALSE)
        /\ fresh \subseteq fresh' /\ late \subseteq late'
        /\ tok \in revived \cup late => x \in late'
        /\ tok \in fresh \ revived => x \in fresh'
  BY DEF Rotate, SaveRotation
<1>v. req[p].at = "saving" /\ req[p].version = doc.version
  BY DEF Rotate, SaveRotation
<1>o. /\ req[p].op = "refresh" /\ tok \in seen /\ seen \subseteq minted
      /\ seen \subseteq doc.tokens \cup revived
  BY <1>s, <1>v DEF SafeInv, SlotInv, Slot
<1> HIDE DEF p, tok, seen
<1>3. doc'.tokens = (seen \ {tok}) \cup {x} /\ doc'.version = doc.version + 1
  BY <1>1 DEF TypeInv, Types, Doc
<1>4. /\ minted' = minted \cup {x} /\ twins \subseteq twins'
      /\ x \in minted => x \in twins'
  BY <1>1 DEF Mint
<1>2. revoked' = revoked \cup ({tok} \ {x}) /\ revived' = revived
  BY <1>1 DEF Revoke
<1>5. SlotInv' BY <1>s, <1>1, <1>3, <1>4, OthersKeep, NewVersion DEF SafeInv
<1>6. MintedInv' BY <1>o, <1>2, <1>3, <1>4 DEF SafeInv, MintedInv
<1>7. RevokedStaysRevoked'
  BY <1>o, <1>2, <1>3, <1>4 DEF SafeInv, MintedInv, RevokedStaysRevoked
<1>8. SessionsOfThisPassword'
  BY <1>o, <1>1, <1>2, <1>3 DEF SafeInv, SessionsOfThisPassword
<1> QED BY <1>5, <1>6, <1>7, <1>8 DEF SafeInv

LEMMA PullSafe ==
  ASSUME TypeInv, SafeInv, NEW t \in Tabs, PullToken(t) PROVE SafeInv'
<1> DEFINE p == Call(t)
           x == {req[p].token} \cap doc.tokens
<1>s. p \in Slots BY SlotParts
<1>1. /\ \/ /\ doc' = [doc EXCEPT !.tokens = @ \ x] /\ Answer(p, 0)
            /\ Revoke(x, TRUE)
         \/ Refuse(p) /\ UNCHANGED <<doc, revoked, revived>>
      /\ UNCHANGED <<now, store, status, minted, twins, fresh, late, excused,
                     events>>
  BY DEF PullToken
<1>x. x \subseteq doc.tokens OBVIOUS
<1> HIDE DEF p, x
<1>2. CASE Refuse(p) /\ UNCHANGED <<doc, revoked, revived>>
  BY <1>s, <1>1, <1>2, FinishCarries, QuietStep DEF Refuse, Ats
<1>3. CASE /\ doc' = [doc EXCEPT !.tokens = @ \ x] /\ Answer(p, 0)
           /\ Revoke(x, TRUE)
  <2>1. doc'.tokens = doc.tokens \ x /\ doc'.version = doc.version
    BY <1>3 DEF TypeInv, Types, Doc
  <2>2. revoked' = revoked \cup x /\ revived \subseteq revived'
    BY <1>3 DEF Revoke
  <2>3. \A q \in Slots :
          /\ req[q].op \in {"refresh", "change"} /\ req[q].at = "saving"
          => req[q].seen \cap x \subseteq revived'
    BY <1>3 DEF Revoke
  <2>4. \A q \in Slots : IF q = p THEN req'[q].at = "answered"
                         ELSE req'[q] = req[q]
    BY <1>s, <1>3, OthersKeep
  <2>5. ASSUME NEW q \in Slots PROVE Slot(q)'
    <3>1. Slot(q) BY DEF SafeInv, SlotInv
    <3>2. CASE q = p BY <2>4, <3>2 DEF Slot
    <3>3. CASE q # p
      <4>1. req'[q] = req[q] BY <2>4, <3>3
      <4>2. /\ req[q].op \in {"refresh", "change"} /\ req[q].at = "saving"
            /\ req[q].seen \subseteq doc.tokens \cup revived
            => req[q].seen \subseteq doc'.tokens \cup revived'
        BY <2>1, <2>2, <2>3
      <4> QED BY <1>1, <2>1, <3>1, <4>1, <4>2 DEF Slot
    <3> QED BY <3>2, <3>3
  <2>6. MintedInv' BY <1>1, <1>x, <2>1, <2>2 DEF SafeInv, MintedInv
  <2>7. RevokedStaysRevoked'
    BY <1>1, <2>1, <2>2 DEF SafeInv, RevokedStaysRevoked
  <2>8. SessionsOfThisPassword'
    BY <1>1, <2>1, <2>2 DEF SafeInv, SessionsOfThisPassword
  <2> QED BY <2>5, <2>6, <2>7, <2>8 DEF SafeInv, SlotInv
<1> QED BY <1>1, <1>2, <1>3

LEMMA SavePasswordSafe ==
  ASSUME TypeInv, SafeInv, NEW t \in Tabs, SavePassword(t) PROVE SafeInv'
<1> DEFINE p == Call(t)
           r == req[p]
           kept == Keeps(r)
<1>s. p \in Slots BY SlotParts
<1>1. /\ r.at = "saving" /\ r.op \in {"change", "reset"} /\ Answer(p, 0)
      /\ kept # r.seen => r.version = doc.version
      /\ UNCHANGED <<minted, twins>>
      /\ Revoke(IF kept # r.seen THEN doc.tokens \ kept ELSE {}, FALSE)
      /\ fresh' = IF r.op = "change" THEN r.seen \cap {r.token} ELSE {}
      /\ late' = IF kept # r.seen THEN late
                 ELSE late \cup (doc.tokens \ r.seen)
      /\ \E s \in r.since .. now :
           doc' = [tokens |-> IF kept # r.seen THEN kept ELSE doc.tokens,
                   version |-> IF kept # r.seen THEN doc.version + 1
                               ELSE doc.version,
                   password |-> doc.password + 1, floor |-> Floor(s)]
  BY DEF SavePassword
<1>d. /\ doc'.tokens = IF kept # r.seen THEN kept ELSE doc.tokens
      /\ doc'.version = IF kept # r.seen THEN doc.version + 1
                        ELSE doc.version
  BY <1>1
<1>k. kept = fresh' /\ kept \subseteq r.seen BY <1>1 DEF Keeps
<1>o. /\ r.seen \subseteq minted
      /\ r.op = "change" /\ r.version = doc.version
           => r.seen \subseteq doc.tokens \cup revived
      /\ r.op = "reset" => kept = {}
  BY <1>s, <1>1 DEF SafeInv, SlotInv, Slot, Keeps
<1> HIDE DEF p, r, kept
<1>a. \A q \in Slots : IF q = p THEN req'[q].at = "answered"
                       ELSE req'[q] = req[q]
  BY <1>s, <1>1, OthersKeep
<1>2. CASE kept # r.seen
  <2>1. /\ doc'.tokens = kept /\ doc'.version = doc.version + 1
        /\ revoked' = revoked \cup (doc.tokens \ kept) /\ revived' = revived
    BY <1>1, <1>2, <1>d DEF Revoke
  <2>2. kept \subseteq doc.tokens \cup revived BY <1>1, <1>2, <1>k, <1>o
  <2>3. SlotInv' BY <1>s, <1>1, <1>a, <2>1, NewVersion DEF SafeInv
  <2>4. MintedInv' BY <1>1, <1>k, <1>o, <2>1 DEF SafeInv, MintedInv
  <2>5. RevokedStaysRevoked'
    BY <1>1, <2>1, <2>2 DEF SafeInv, RevokedStaysRevoked
  <2>6. SessionsOfThisPassword' BY <1>k, <2>1 DEF SessionsOfThisPassword
  <2> QED BY <2>3, <2>4, <2>5, <2>6 DEF SafeInv
<1>3. CASE kept = r.seen
  <2>1. /\ doc'.tokens = doc.tokens /\ doc'.version = doc.version
        /\ revoked' = revoked /\ revived' = revived
        /\ late' = late \cup (doc.tokens \ r.seen)
    BY <1>1, <1>3, <1>d DEF Revoke
  <2>3. ASSUME NEW q \in Slots PROVE Slot(q)'
    <3>1. Slot(q) BY DEF SafeInv, SlotInv
    <3>2. CASE q = p BY <1>a, <3>2 DEF Slot
    <3>3. CASE q # p
      <4>1. req'[q] = req[q] BY <1>a, <3>3
      <4> QED BY <1>1, <2>1, <3>1, <4>1 DEF Slot
    <3> QED BY <3>2, <3>3
  <2>4. MintedInv' BY <1>1, <2>1 DEF SafeInv, MintedInv
  <2>5. RevokedStaysRevoked' BY <1>1, <2>1 DEF SafeInv, RevokedStaysRevoked
  <2>6. SessionsOfThisPassword'
    BY <1>3, <1>k, <2>1 DEF SessionsOfThisPassword
  <2> QED BY <2>3, <2>4, <2>5, <2>6 DEF SafeInv, SlotInv
<1> QED BY <1>2, <1>3

LEMMA HandlerSafe ==
  ASSUME TypeInv, SafeInv, NEW t \in Tabs, Handler(t) PROVE SafeInv'
<1> DEFINE p == Call(t)
           f == Refresh(t)
<1>s. p \in Slots /\ f \in Slots /\ p[2] # "refresh"
  BY SlotParts
<1>a. {"answered", "refused", "failed"} \subseteq Ats \ {"saving", "sent"}
  BY DEF Ats
<1> HIDE DEF p, f
<1>1. ASSUME NEW q \in {p, f}, Refuse(q) \/ Fail(q),
             UNCHANGED <<doc, history>>
      PROVE  SafeInv'
  BY <1>s, <1>a, <1>1, FinishCarries, QuietStep DEF Refuse, Fail, history
<1>2. CASE FindUser(t)
  <2>1. Load(p) /\ req[p].at = "sent" /\ UNCHANGED <<doc, history>>
    BY <1>2 DEF FindUser, p
  <2> QED BY <1>s, <2>1, LoadCarries, QuietStep DEF history
<1>3. CASE CheckRefresh(t)
  <2>1. /\ UNCHANGED <<doc, history>> /\ req[f].at = "sent"
        /\ \/ req[f].token \in doc.tokens /\ Load(f)
           \/ Refuse(f)
    BY <1>3 DEF CheckRefresh, f
  <2>2. CASE Refuse(f) BY <1>1, <2>1, <2>2
  <2>3. CASE req[f].token \in doc.tokens /\ Load(f)
    BY <1>s, <2>1, <2>3, LoadCarries, QuietStep DEF history
  <2> QED BY <2>1, <2>2, <2>3
<1>4. CASE CheckPassword(t)
  <2>1. /\ UNCHANGED <<doc, history>> /\ req[p].at = "sent"
        /\ Load(p) \/ Refuse(p)
    BY <1>4 DEF CheckPassword, p
  <2>2. CASE Refuse(p) BY <1>1, <2>1, <2>2
  <2>3. CASE Load(p)
    BY <1>s, <2>1, <2>3, LoadCarries, QuietStep DEF history
  <2> QED BY <2>1, <2>2, <2>3
<1>5. CASE RotateConflict(t) \/ PasswordConflict(t)
  BY <1>1, <1>5 DEF RotateConflict, PasswordConflict, p, f
<1> QED BY <1>2, <1>3, <1>4, <1>5, IssueSafe, RotateSafe, PullSafe,
           SavePasswordSafe DEF Handler

LEMMA ClientSafe ==
  ASSUME TypeInv, SafeInv, NEW t \in Tabs, Client(t) PROVE SafeInv'
<1> DEFINE p == Call(t)
           f == Refresh(t)
<1>s. p \in Slots /\ f \in Slots /\ p[2] # "refresh" /\ p # f
  BY SlotParts
<1>t. req \in [Slots -> Req] BY DEF TypeInv, Types
<1> HIDE DEF p, f
<1>u. UNCHANGED <<doc, minted, twins, revoked, revived, fresh, late>>
  BY DEF Client, Login, Logout, ChangePassword, ResetPassword, Denied, GiveUp,
         DoRefresh, Refreshed, LoggedOut, EndLogout, Receive, Bootstrap,
         history
<1>i. /\ Idle.at \notin {"sent", "saving"}
      /\ [Idle EXCEPT !.op = "api", !.at = "denied"].at
           \notin {"sent", "saving"}
  BY IdleTypes
<1>1. CASE \E op \in Ops : Send(p, op)
  BY <1>s, <1>u, <1>1, SendCarries, QuietStep
<1>2. CASE \E r \in {Idle, [Idle EXCEPT !.op = "api", !.at = "denied"]} :
             req' = [req EXCEPT ![p] = r]
  BY <1>s, <1>t, <1>u, <1>i, <1>2, QuietStep DEF Carried
<1>3. CASE Login(t) \/ Logout(t) \/ ChangePassword(t) \/ ResetPassword(t)
  BY <1>1, <1>3 DEF Login, Logout, ChangePassword, ResetPassword, p, Ops
<1>4. CASE Denied(t) \/ GiveUp(t) \/ LoggedOut(t)
  BY <1>2, <1>4 DEF Denied, GiveUp, LoggedOut, EndLogout, p
<1>5. CASE DoRefresh(t)
  <2>1. PICK r, q :
          /\ req' = [req EXCEPT ![p] = r, ![f] = q] /\ r.at = "waiting"
          /\ \/ q = req[f]
             \/ q.at = "sent" /\ q.op = "refresh"
    <3> DEFINE r == [req[p] EXCEPT !.at = "waiting"]
               new == [Idle EXCEPT !.op = "refresh", !.at = "sent",
                                   !.token = store[Home(f)].refresh]
               q == IF req[f].at # "idle" THEN req[f] ELSE new
    <3>1. req' = [req EXCEPT ![p] = r, ![f] = q]
      BY <1>s, <1>t, <1>5 DEF DoRefresh, p, f
    <3>2. r.at = "waiting" BY <1>s, <1>t DEF Req
    <3>3. new.at = "sent" /\ new.op = "refresh" BY DEF Idle
    <3> HIDE DEF r, new
    <3> QED BY <3>1, <3>2, <3>3
  <2>2. \A s \in Slots : Carried(s)
    BY <1>s, <1>t, <2>1 DEF Carried
  <2> QED BY <1>u, <2>2, QuietStep
<1>6. CASE Refreshed(t)
  <2>1. PICK q \in {Idle, req[p]} : req' = [req EXCEPT ![f] = Idle, ![p] = q]
    BY <1>s, <1>t, <1>6 DEF Refreshed, p, f
  <2>2. \A s \in Slots : Carried(s)
    BY <1>s, <1>t, <1>i, <2>1 DEF Carried
  <2> QED BY <1>u, <2>2, QuietStep
<1>7. CASE Receive(t)
  BY <1>1, <1>2, <1>7 DEF Receive, Ops, p
<1>8. CASE Bootstrap(t)
  <2>1. PICK q \in {Idle, [Idle EXCEPT !.op = "api", !.at = "denied"]} :
          req' = [req EXCEPT ![f] = Idle, ![p] = q]
    BY <1>8 DEF Bootstrap, p, f
  <2>2. \A s \in Slots : Carried(s)
    BY <1>s, <1>t, <1>i, <2>1 DEF Carried
  <2> QED BY <1>u, <2>2, QuietStep
<1> QED BY <1>3, <1>4, <1>5, <1>6, <1>7, <1>8 DEF Client

LEMMA SafeStep == TypeInv /\ SafeInv /\ [Next]_vars => SafeInv'
<1> SUFFICES ASSUME TypeInv, SafeInv, [Next]_vars PROVE SafeInv'
  OBVIOUS
<1>1. CASE Tick \/ UNCHANGED vars
  <2>1. UNCHANGED <<doc, req, history>> BY <1>1 DEF Tick, vars
  <2>2. \A q \in Slots : Carried(q) BY <2>1 DEF Carried
  <2> QED BY <2>1, <2>2, QuietStep DEF history
<1>2. ASSUME NEW p \in Slots, Lose(p) PROVE SafeInv'
  <2>1. Finish(p, "failed", 0) BY <1>2 DEF Lose, Fail
  <2>2. UNCHANGED <<doc, minted, twins, revoked, revived, fresh, late>>
    BY <1>2 DEF Lose
  <2> QED BY <2>1, <2>2, FinishCarries, QuietStep DEF Ats
<1> QED BY <1>1, <1>2, HandlerSafe, ClientSafe DEF Next

-----------------------------------------------------------------------------
(* What a browser holds.                                                   *)

Of(b) == {p \in Slots : Home(p) = b}
Rests(p) == req[p].at \in {"idle", "denied", "waiting"}
Living == doc.tokens \cup twins \cup {0}

\* x is in b's localStorage, in a request of b or in an answer to one.
Holds(b, x) ==
  \/ store[b].refresh = x
  \/ \E p \in Of(b) : req[p].token = x \/ req[p].new = x

\* No two browsers hold the same token, but for those minted twice.
Apart ==
  /\ \A b \in Browsers : \A x : Holds(b, x) => x \in minted \cup {0}
  /\ \A b, c \in Browsers : \A x :
       b # c /\ Holds(b, x) /\ Holds(c, x) => x \in twins \cup {0}

\* An answer that puts a token in the store, and one that takes it out.
Brings(p) ==
  req[p].at = "answered" /\ (p[2] = "refresh" \/ req[p].op = "login")
Clears(p) ==
  \/ p[2] = "refresh" /\ req[p].at \in {"answered", "refused"}
  \/ req[p].op = "logout" /\ req[p].at \in {"answered", "refused", "failed"}

\* In a browser whose requests did not overlap: one request at most, which
\* carries the token of the store; the store's token is live until an answer
\* that replaces it is on its way, and so is the one that answer brings.
Single(b) == \A p, q \in Of(b) : Rests(p) \/ Rests(q) \/ p = q
Current(b) == \A p \in Of(b) :
  req[p].at \in {"sent", "saving"} => req[p].token = store[b].refresh
Delivers(b) == \A p \in Of(b) : Brings(p) => req[p].new \in Living
StoreLives(b) ==
  (\A p \in Of(b) : ~ Clears(p)) => store[b].refresh \in Living

\* A call that waits for a refresh, or will, is of a user who is signed in;
\* and where there are tokens there is such a tab.
TabsWait(b) == \A t \in Tabs : BrowserOf[t] = b =>
  /\ req[Refresh(t)].at \notin {"denied", "waiting"}
  /\ req[Call(t)].at = "denied" => status[t] # "guest"
  /\ req[Refresh(t)].at # "idle" =>
       req[Call(t)].at = "waiting" /\ status[t] # "guest"
SignedIn(b) == store[b].refresh # 0 =>
  \E t \in Tabs : BrowserOf[t] = b /\ status[t] # "guest"

Orderly(b) == /\ Single(b) /\ Current(b) /\ Delivers(b) /\ StoreLives(b)
              /\ TabsWait(b) /\ SignedIn(b)

KeepInv ==
  /\ Apart
  /\ \A b \in Browsers : store[b].access = store[b].refresh
  /\ \A b \in Browsers \ excused : Orderly(b)

LEMMA InitKeep == Init => KeepInv
<1> SUFFICES ASSUME Init PROVE KeepInv OBVIOUS
<1>1. \A p \in Slots : req[p] = Idle BY DEF Init
<1>2. \A b \in Browsers : store[b] = None BY DEF Init
<1>3. Apart BY <1>1, <1>2 DEF Apart, Holds, Of, Idle, None
<1>4. \A b \in Browsers : Orderly(b)
  BY <1>1, <1>2, SlotParts
     DEF Orderly, Single, Current, Delivers, StoreLives, TabsWait, SignedIn,
         Of, Rests, Brings, Clears, Living, Idle, None
<1> QED BY <1>2, <1>3, <1>4 DEF KeepInv, None

\* A token that is new to its holder is held by nobody else.
Fresh(x) == x \in minted' /\ (x \in minted => x \in twins')

\* A step at browser h, seen from the others: what they hold stays as live
\* as it was, and h gets nothing of theirs.
Local(h) ==
  /\ \A q \in Slots : Home(q) # h => req'[q] = req[q]
  /\ \A b \in Browsers \ {h} : store'[b] = store[b]
  /\ \A t \in Tabs : BrowserOf[t] # h => status'[t] = status[t]
  /\ excused \subseteq excused'
  /\ minted \subseteq minted' /\ twins \subseteq twins'
  /\ \A b \in Browsers \ (excused' \cup {h}) : \A x :
       Holds(b, x) /\ x \in Living => x \in Living'
  /\ \A x : Holds(h, x)' => Holds(h, x) \/ x = 0 \/ Fresh(x)
  /\ store'[h].access = store'[h].refresh

LEMMA Elsewhere ==
  ASSUME KeepInv, NEW h \in Browsers, Local(h),
         h \in excused' \/ Orderly(h)'
  PROVE  KeepInv'
<1>h. \A q \in Slots : Home(q) \in Browsers BY SlotParts
<1>1. \A b \in Browsers \ {h} : \A x : Holds(b, x)' <=> Holds(b, x)
  BY DEF Local, Holds, Of
<1>2. Apart'
  <2>1. \A b \in Browsers : \A x : Holds(b, x)' => x \in minted' \cup {0}
    <3> SUFFICES ASSUME NEW b \in Browsers, NEW x, Holds(b, x)'
                 PROVE  x \in minted' \cup {0}
      OBVIOUS
    <3>1. Holds(b, x) \/ x = 0 \/ Fresh(x) BY <1>1 DEF Local
    <3> QED BY <3>1 DEF KeepInv, Apart, Local, Fresh
  <2>2. ASSUME NEW c \in Browsers \ {h}, NEW x, Holds(h, x)', Holds(c, x)'
        PROVE  x \in twins' \cup {0}
    <3>1. Holds(c, x) BY <1>1, <2>2
    <3>2. x \in minted \cup {0} BY <3>1 DEF KeepInv, Apart
    <3>3. Holds(h, x) \/ x = 0 \/ Fresh(x) BY <2>2 DEF Local
    <3>4. Holds(h, x) => x \in twins \cup {0}
      BY <3>1 DEF KeepInv, Apart
    <3> QED BY <3>2, <3>3, <3>4 DEF Fresh, Local
  <2>3. ASSUME NEW b \in Browsers \ {h}, NEW c \in Browsers \ {h}, NEW x,
               b # c, Holds(b, x)', Holds(c, x)'
        PROVE  x \in twins' \cup {0}
    BY <1>1, <2>3 DEF KeepInv, Apart, Local
  <2> QED BY <2>1, <2>2, <2>3 DEF Apart
<1>3. \A b \in Browsers : store'[b].access = store'[b].refresh
  BY DEF KeepInv, Local
<1>4. ASSUME NEW b \in Browsers \ (excused' \cup {h}) PROVE Orderly(b)'
  <2>1. Orderly(b) BY DEF KeepInv, Local
  <2>2. \A p \in Of(b) : req'[p] = req[p] BY DEF Local, Of
  <2>3. store'[b] = store[b] BY DEF Local
  <2>4. \A t \in Tabs : BrowserOf[t] = b =>
          /\ Call(t) \in Of(b) /\ Refresh(t) \in Of(b)
          /\ status'[t] = status[t]
    BY SlotParts DEF Of, Local
  <2>5. \A x : Holds(b, x) /\ x \in Living => x \in Living' BY DEF Local
  <2>6. Single(b)' /\ Current(b)'
    BY <2>1, <2>2, <2>3 DEF Orderly, Single, Current, Rests, Of
  <2>7. Delivers(b)' BY <2>1, <2>2, <2>5 DEF Orderly, Delivers, Brings, Holds,
                                            Of
  <2>8. StoreLives(b)'
    BY <2>1, <2>2, <2>3, <2>5 DEF Orderly, StoreLives, Clears, Holds, Of
  <2>9. TabsWait(b)' BY <2>1, <2>2, <2>4 DEF Orderly, TabsWait
  <2>10. SignedIn(b)' BY <2>1, <2>3, <2>4 DEF Orderly, SignedIn
  <2> QED BY <2>6, <2>7, <2>8, <2>9, <2>10 DEF Orderly
<1> QED BY <1>2, <1>3, <1>4 DEF KeepInv

\* A handler moves a request on: the slot keeps its token, and what the
\* answer brings is new.
LEMMA ReplaceKeeps ==
  ASSUME TypeInv, KeepInv, NEW p \in Slots, NEW r,
         req' = [req EXCEPT ![p] = r], UNCHANGED <<store, status>>,
         excused \subseteq excused', minted \subseteq minted',
         twins \subseteq twins',
         req[p].at \in {"sent", "saving"},
         r.at \in {"saving", "answered", "refused", "failed"},
         r.token = req[p].token,
         r.new \in {0, req[p].new} \/ Fresh(r.new),
         \A b \in Browsers \ (excused' \cup {Home(p)}) : \A x :
           Holds(b, x) /\ x \in Living => x \in Living',
         Home(p) \in excused' \/
           /\ Brings(p)' => r.new \in Living'
           /\ store[Home(p)].refresh \in Living =>
                store[Home(p)].refresh \in Living' \/ Clears(p)'
  PROVE  KeepInv'
<1> DEFINE h == Home(p)
<1>h. h \in Browsers /\ p \in Of(h) BY SlotParts DEF Of
<1>r. /\ req'[p] = r
      /\ \A q \in Slots : q # p => req'[q] = req[q]
  BY DEF TypeInv, Types
<1>1. Local(h)
  <2>1. \A x : Holds(h, x)' => Holds(h, x) \/ x = 0 \/ Fresh(x)
    <3> SUFFICES ASSUME NEW x, Holds(h, x)', ~ Holds(h, x)
                 PROVE  x = 0 \/ Fresh(x)
      OBVIOUS
    <3>1. PICK q \in Of(h) : req'[q].token = x \/ req'[q].new = x
      BY DEF Holds, Of
    <3>2. q = p /\ r.new = x /\ req[p].new # x
      BY <1>r, <1>h, <3>1 DEF Holds, Of
    <3> QED BY <3>2
  <2>2. store'[h].access = store'[h].refresh BY <1>h DEF KeepInv
  <2> QED BY <1>r, <2>1, <2>2 DEF Local
<1>2. ASSUME h \notin excused' PROVE Orderly(h)'
  <2>1. Orderly(h) BY <1>h, <1>2 DEF KeepInv
  <2>2. \A q \in Of(h) : q # p => Rests(q) /\ req'[q] = req[q]
    BY <1>h, <1>r, <2>1 DEF Orderly, Single, Rests, Of
  <2>3. Single(h)'
    <3>1. \A q \in Of(h) : q # p => Rests(q)' BY <2>2 DEF Rests
    <3> QED BY <3>1 DEF Single, Of
  <2>4. Current(h)' BY <1>h, <1>r, <2>1 DEF Orderly, Current, Of
  <2>5. Delivers(h)'
    BY <1>2, <1>r, <2>2 DEF Delivers, Brings, Rests, Of
  <2>6. StoreLives(h)'
    <3>1. \A q \in Of(h) : ~ Clears(q)
      BY <2>2 DEF Clears, Rests
    <3>2. store[h].refresh \in Living BY <2>1, <3>1 DEF Orderly, StoreLives
    <3>3. store[h].refresh \in Living' \/ Clears(p)' BY <1>2, <3>2
    <3> QED BY <1>h, <3>3 DEF StoreLives, Of
  <2>7. TabsWait(h)'
    <3> SUFFICES ASSUME NEW t \in Tabs, BrowserOf[t] = h
                 PROVE  /\ req'[Refresh(t)].at \notin {"denied", "waiting"}
                        /\ req'[Call(t)].at = "denied" => status[t] # "guest"
                        /\ req'[Refresh(t)].at # "idle" =>
                             /\ req'[Call(t)].at = "waiting"
                             /\ status[t] # "guest"
      BY DEF TabsWait
    <3>1. /\ Call(t) \in Of(h) /\ Refresh(t) \in Of(h)
          /\ Call(t) # Refresh(t)
      BY SlotParts DEF Of
    <3>2. /\ req[Refresh(t)].at \notin {"denied", "waiting"}
          /\ req[Call(t)].at = "denied" => status[t] # "guest"
          /\ req[Refresh(t)].at # "idle" =>
               req[Call(t)].at = "waiting" /\ status[t] # "guest"
      BY <2>1 DEF Orderly, TabsWait
    <3>3. CASE p = Refresh(t) BY <1>r, <2>2, <3>1, <3>2, <3>3
    <3>4. CASE p = Call(t)
      BY <1>r, <2>2, <3>1, <3>2, <3>4
    <3>5. CASE p \notin {Call(t), Refresh(t)} BY <2>2, <3>1, <3>2, <3>5
    <3> QED BY <3>3, <3>4, <3>5
  <2>8. SignedIn(h)' BY <2>1 DEF Orderly, SignedIn
  <2> QED BY <2>3, <2>4, <2>5, <2>6, <2>7, <2>8 DEF Orderly
<1> HIDE DEF h
<1> QED BY <1>h, <1>1, <1>2, Elsewhere

\* The handler reads, refuses or fails: nothing else changes.
LEMMA QuietKeeps ==
  ASSUME TypeInv, KeepInv, NEW p \in Slots, req[p].at \in {"sent", "saving"},
         Load(p) \/ Refuse(p) \/ Fail(p),
         UNCHANGED <<doc, store, status, history>>
  PROVE  KeepInv'
<1>t. req[p] \in Req BY DEF TypeInv, Types
<1>1. PICK r : /\ req' = [req EXCEPT ![p] = r] /\ r.token = req[p].token
               /\ r.at \in {"saving", "refused", "failed"}
               /\ r.new \in {0, req[p].new}
  <2>1. CASE Load(p)
    <3> DEFINE r == [req[p] EXCEPT !.at = "saving", !.seen = doc.tokens,
                       !.version = doc.version, !.password = doc.password,
                       !.since = now]
    <3>1. req' = [req EXCEPT ![p] = r] BY <2>1 DEF Load, TypeInv, Types
    <3>2. r.token = req[p].token /\ r.at = "saving" /\ r.new = req[p].new
      BY <1>t DEF Req
    <3> HIDE DEF r
    <3> QED BY <3>1, <3>2
  <2>2. ASSUME NEW at \in {"refused", "failed"}, Finish(p, at, 0)
        PROVE  \E r : /\ req' = [req EXCEPT ![p] = r]
                      /\ r.token = req[p].token
                      /\ r.at \in {"saving", "refused", "failed"}
                      /\ r.new \in {0, req[p].new}
    <3> DEFINE r == [Idle EXCEPT !.op = req[p].op, !.at = at,
                                 !.token = req[p].token, !.new = 0]
    <3>1. req' = [req EXCEPT ![p] = r] BY <2>2 DEF Finish
    <3>2. r.token = req[p].token /\ r.at = at /\ r.new = 0 BY DEF Idle
    <3> HIDE DEF r
    <3> QED BY <3>1, <3>2
  <2> QED BY <2>1, <2>2 DEF Refuse, Fail
<1>2. UNCHANGED <<minted, twins, excused>> /\ Living' = Living
  BY DEF history, Living
<1>3. ~ Brings(p)' BY <1>1 DEF Brings, TypeInv, Types
<1> QED BY <1>1, <1>2, <1>3, ReplaceKeeps

\* The request is answered.
LEMMA AnswerKeeps ==
  ASSUME TypeInv, KeepInv, NEW p \in Slots, NEW x,
         req[p].at \in {"sent", "saving"}, Answer(p, x), x = 0 \/ Fresh(x),
         UNCHANGED <<store, status>>,
         excused \subseteq excused', minted \subseteq minted',
         twins \subseteq twins',
         \A b \in Browsers \ (excused' \cup {Home(p)}) : \A y :
           Holds(b, y) /\ y \in Living => y \in Living',
         Home(p) \in excused' \/
           /\ p[2] = "refresh" \/ req[p].op = "login" => x \in Living'
           /\ store[Home(p)].refresh \in Living =>
                \/ store[Home(p)].refresh \in Living'
                \/ p[2] = "refresh" \/ req[p].op = "logout"
  PROVE  KeepInv'
<1> DEFINE r == [Idle EXCEPT !.op = req[p].op, !.at = "answered",
                             !.token = req[p].token, !.new = x]
<1>1. req' = [req EXCEPT ![p] = r] BY DEF Answer, Finish
<1>2. /\ r.token = req[p].token /\ r.at = "answered" /\ r.new = x
      /\ r.op = req[p].op
  BY DEF Idle
<1> HIDE DEF r
<1>3. req'[p] = r BY <1>1 DEF TypeInv, Types
<1>4. /\ Brings(p)' => p[2] = "refresh" \/ req[p].op = "login"
      /\ p[2] = "refresh" \/ req[p].op = "logout" => Clears(p)'
  BY <1>2, <1>3 DEF Brings, Clears
<1> QED BY <1>1, <1>2, <1>4, ReplaceKeeps

LEMMA IssueKeeps ==
  ASSUME TypeInv, KeepInv, NEW t \in Tabs, IssueTokens(t) PROVE KeepInv'
<1> DEFINE p == Call(t)
<1>s. p \in Slots BY SlotParts
<1>1. /\ req[p].at = "saving" /\ UNCHANGED <<store, status, excused>>
      /\ \E x \in req[p].since .. now :
           /\ doc' = [doc EXCEPT !.tokens = @ \cup {x}, !.version = @ + 1]
           /\ Answer(p, x) /\ Mint(x)
  BY DEF IssueTokens
<1> HIDE DEF p
<1>2. PICK x : /\ doc' = [doc EXCEPT !.tokens = @ \cup {x},
                                     !.version = @ + 1]
               /\ Answer(p, x) /\ Mint(x)
  BY <1>1
<1>3. minted \subseteq minted' /\ twins \subseteq twins' /\ Fresh(x)
  BY <1>2 DEF Mint, Fresh
<1>4. doc'.tokens = doc.tokens \cup {x} BY <1>2 DEF TypeInv, Types, Doc
<1>5. Living \subseteq Living' /\ x \in Living' BY <1>3, <1>4 DEF Living
<1> QED BY <1>s, <1>1, <1>2, <1>3, <1>5, AnswerKeeps

LEMMA RotateKeeps ==
  ASSUME TypeInv, SafeInv, KeepInv, NEW t \in Tabs, Rotate(t) PROVE KeepInv'
<1> DEFINE p == Refresh(t)
           tok == req[p].token
           seen == req[p].seen
<1>s. p \in Slots /\ p[2] = "refresh" /\ Home(p) \in Browsers
  BY SlotParts DEF Refresh
<1>1. /\ req[p].at = "saving" /\ req[p].version = doc.version
      /\ UNCHANGED <<store, status, excused>>
      /\ \E x \in req[p].since .. now :
           /\ doc' = [doc EXCEPT !.version = @ + 1,
                        !.tokens = (seen \ {tok}) \cup {x}]
           /\ Answer(p, x) /\ Mint(x)
  BY DEF Rotate, SaveRotation
<1>o. doc.tokens \subseteq seen BY <1>s, <1>1 DEF SafeInv, SlotInv, Slot
<1>k. Holds(Home(p), tok) BY <1>s DEF Holds, Of
<1> HIDE DEF p, tok, seen
<1>2. PICK x : /\ doc' = [doc EXCEPT !.version = @ + 1,
                            !.tokens = (seen \ {tok}) \cup {x}]
               /\ Answer(p, x) /\ Mint(x)
  BY <1>1
<1>3. minted \subseteq minted' /\ twins \subseteq twins' /\ Fresh(x)
  BY <1>2 DEF Mint, Fresh
<1>4. doc'.tokens = (seen \ {tok}) \cup {x} BY <1>2 DEF TypeInv, Types, Doc
<1>5. Living \subseteq Living' \cup {tok} /\ x \in Living'
  BY <1>o, <1>3, <1>4 DEF Living
<1>6. ASSUME NEW b \in Browsers \ {Home(p)}, NEW y, Holds(b, y),
             y \in Living
      PROVE  y \in Living'
  <2>1. y = tok => y \in twins \cup {0}
    BY <1>s, <1>k, <1>6 DEF KeepInv, Apart
  <2> QED BY <1>3, <1>5, <1>6, <2>1 DEF Living
<1> QED BY <1>s, <1>1, <1>2, <1>3, <1>5, <1>6, AnswerKeeps

LEMMA PullKeeps ==
  ASSUME TypeInv, KeepInv, NEW t \in Tabs, PullToken(t) PROVE KeepInv'
<1> DEFINE p == Call(t)
           tok == req[p].token
<1>s. p \in Slots /\ Home(p) \in Browsers BY SlotParts
<1>1. /\ req[p].at = "sent" /\ req[p].op = "logout"
      /\ UNCHANGED <<store, status, minted, twins, excused>>
      /\ \/ /\ doc' = [doc EXCEPT !.tokens = @ \ ({tok} \cap doc.tokens)]
            /\ Answer(p, 0)
         \/ Refuse(p) /\ UNCHANGED <<doc, revoked, revived, fresh, late>>
  BY DEF PullToken
<1>k. Holds(Home(p), tok) BY <1>s DEF Holds, Of
<1> HIDE DEF p, tok
<1>2. CASE Refuse(p) /\ UNCHANGED <<doc, revoked, revived, fresh, late>>
  BY <1>s, <1>1, <1>2, QuietKeeps DEF history
<1>3. CASE /\ doc' = [doc EXCEPT !.tokens = @ \ ({tok} \cap doc.tokens)]
           /\ Answer(p, 0)
  <2>1. doc'.tokens = doc.tokens \ {tok} BY <1>3 DEF TypeInv, Types, Doc
  <2>2. Living \subseteq Living' \cup {tok} BY <1>1, <2>1 DEF Living
  <2>3. ASSUME NEW b \in Browsers \ {Home(p)}, NEW y, Holds(b, y),
               y \in Living
        PROVE  y \in Living'
    <3>1. y = tok => y \in twins \cup {0}
      BY <1>s, <1>k, <2>3 DEF KeepInv, Apart
    <3> QED BY <1>1, <2>2, <2>3, <3>1 DEF Living
  <2>4. p[2] = "refresh" \/ req[p].op = "login" => 0 \in Living'
    BY DEF Living
  <2> QED BY <1>s, <1>1, <1>3, <2>3, <2>4, AnswerKeeps
<1> QED BY <1>1, <1>2, <1>3

LEMMA SavePasswordKeeps ==
  ASSUME TypeInv, KeepInv, NEW t \in Tabs, SavePassword(t) PROVE KeepInv'
<1> DEFINE p == Call(t)
           r == req[p]
           kept == Keeps(r)
<1>s. p \in Slots /\ Home(p) \in Browsers /\ p \in Of(Home(p))
  BY SlotParts DEF Of
<1>1. /\ r.at = "saving" /\ Answer(p, 0)
      /\ r.op \in {"change", "reset"}
      /\ UNCHANGED <<store, status, minted, twins>>
      /\ fresh' = IF r.op = "change" THEN r.seen \cap {r.token} ELSE {}
      /\ excused' = excused \cup (Browsers \ {b \in {Home(p)} : fresh' # {}})
      /\ \E s \in r.since .. now :
           doc' = [tokens |-> IF kept # r.seen THEN kept ELSE doc.tokens,
                   version |-> IF kept # r.seen THEN doc.version + 1
                               ELSE doc.version,
                   password |-> doc.password + 1, floor |-> Floor(s)]
  BY DEF SavePassword
<1>2. kept = fresh' BY <1>1 DEF Keeps
<1> HIDE DEF kept
<1>3. doc'.tokens = IF kept # r.seen THEN kept ELSE doc.tokens BY <1>1
<1>4. Browsers \subseteq excused' \cup {Home(p)} BY <1>1
<1>5. ASSUME Home(p) \notin excused', store[Home(p)].refresh \in Living
      PROVE  store[Home(p)].refresh \in Living'
  <2>1. kept = {r.token} BY <1>1, <1>2, <1>5, <1>s
  <2>2. Home(p) \notin excused BY <1>1, <1>5
  <2>3. r.token = store[Home(p)].refresh
    BY <1>1, <1>s, <2>2 DEF KeepInv, Orderly, Current
  <2> QED BY <1>1, <1>3, <1>5, <2>1, <2>3 DEF Living
<1>6. p[2] = "refresh" \/ r.op = "login" => 0 \in Living' BY DEF Living
<1> QED BY <1>s, <1>1, <1>4, <1>5, <1>6, AnswerKeeps

LEMMA HandlerKeeps ==
  ASSUME TypeInv, SafeInv, KeepInv, NEW t \in Tabs, Handler(t) PROVE KeepInv'
<1>s. Call(t) \in Slots /\ Refresh(t) \in Slots BY SlotParts
<1>1. CASE \E p \in {Call(t), Refresh(t)} :
             /\ req[p].at \in {"sent", "saving"}
             /\ Load(p) \/ Refuse(p) \/ Fail(p)
             /\ UNCHANGED <<doc, store, status, history>>
  BY <1>s, <1>1, QuietKeeps
<1>2. CASE \/ FindUser(t) \/ CheckRefresh(t) \/ CheckPassword(t)
           \/ RotateConflict(t) \/ PasswordConflict(t)
  BY <1>1, <1>2 DEF FindUser, CheckRefresh, CheckPassword, RotateConflict,
                    PasswordConflict
<1> QED BY <1>2, IssueKeeps, RotateKeeps, PullKeeps, SavePasswordKeeps
        DEF Handler

\* The client of a tab changes its two requests, its status and the store;
\* nothing is minted and the document stays.  Where requests overlapped, what
\* it puts there is the browser's own.
Changes(t, a, f, s, u) ==
  /\ req' = [req EXCEPT ![Call(t)] = a, ![Refresh(t)] = f]
  /\ store' = [store EXCEPT ![BrowserOf[t]] = s]
  /\ status' = [status EXCEPT ![t] = u]
  /\ UNCHANGED <<doc, minted, twins>> /\ excused \subseteq excused'
  /\ s.access = s.refresh
  /\ \A x \in {a.token, a.new, f.token, f.new, s.refresh} :
       x = 0 \/ Holds(BrowserOf[t], x)

\* What keeps the browser in order meanwhile.
InOrder(t, a, f, s, u) ==
  /\ a.at \in {"idle", "denied", "waiting", "sent"}
  /\ f.at \in {"idle", "sent"} /\ (a.at # "sent" \/ f.at # "sent")
  /\ a.at = "sent" \/ f.at = "sent" \/ s # store[BrowserOf[t]] =>
       \A q \in Of(BrowserOf[t]) \ {Call(t), Refresh(t)} : Rests(q)
  /\ a.at = "sent" => a.token = s.refresh
  /\ f.at = "sent" => f.token = s.refresh
  /\ \/ s.refresh \in Living
     \/ /\ s = store[BrowserOf[t]]
        /\ ~ Clears(Call(t)) /\ ~ Clears(Refresh(t))
  /\ a.at = "denied" => u # "guest"
  /\ f.at # "idle" => a.at = "waiting" /\ u # "guest"
  /\ s.refresh # 0 =>
       u # "guest" \/ (u = status[t] /\ s = store[BrowserOf[t]])

Tidy(t, a, f, s, u) ==
  BrowserOf[t] \in excused' \/ (excused' = excused /\ InOrder(t, a, f, s, u))

LEMMA TabLocal ==
  ASSUME TypeInv, KeepInv, NEW t \in Tabs, NEW a, NEW f, NEW s, NEW u,
         Changes(t, a, f, s, u),
         BrowserOf[t] \in excused' \/ Orderly(BrowserOf[t])'
  PROVE  KeepInv'
<1> DEFINE h == BrowserOf[t]
           p == Call(t)
           g == Refresh(t)
<1>s. /\ h \in Browsers /\ p \in Slots /\ g \in Slots /\ p # g
      /\ Home(p) = h /\ Home(g) = h
  BY SlotParts
<1>r. /\ req'[p] = a /\ req'[g] = f /\ store'[h] = s
      /\ \A q \in Slots \ {p, g} : req'[q] = req[q]
      /\ \A b \in Browsers \ {h} : store'[b] = store[b]
  BY <1>s DEF TypeInv, Types, Changes
<1>1. Living' = Living BY DEF Living, Changes
<1>c. /\ excused \subseteq excused' /\ s.access = s.refresh
      /\ UNCHANGED <<minted, twins>>
      /\ \A x \in {a.token, a.new, f.token, f.new, s.refresh} :
           x = 0 \/ Holds(h, x)
  BY DEF Changes
<1>2. ASSUME NEW x, Holds(h, x)' PROVE Holds(h, x) \/ x = 0
  <2>1. CASE store'[h].refresh = x BY <1>c, <1>r, <2>1
  <2>2. ASSUME NEW q \in Of(h), req'[q].token = x \/ req'[q].new = x
        PROVE  Holds(h, x) \/ x = 0
    <3>1. CASE q \in {p, g} BY <1>c, <1>r, <2>2, <3>1
    <3>2. CASE q \notin {p, g} BY <1>r, <2>2, <3>2 DEF Holds, Of
    <3> QED BY <3>1, <3>2
  <2> QED BY <1>2, <2>1, <2>2 DEF Holds, Of
<1>3. Local(h)
  <2>1. \A q \in Slots : Home(q) # h => req'[q] = req[q] BY <1>s, <1>r
  <2>2. \A v \in Tabs : BrowserOf[v] # h => status'[v] = status[v]
    BY DEF Changes, TypeInv, Types
  <2> QED BY <1>c, <1>r, <1>1, <1>2, <2>1, <2>2 DEF Local
<1> HIDE DEF h, p, g
<1>4. h \in excused' \/ Orderly(h)' BY DEF h
<1> QED BY <1>s, <1>3, <1>4, Elsewhere

LEMMA TabKeeps ==
  ASSUME TypeInv, KeepInv, NEW t \in Tabs, NEW a, NEW f, NEW s, NEW u,
         Changes(t, a, f, s, u), Tidy(t, a, f, s, u)
  PROVE  KeepInv'
<1>0. CASE BrowserOf[t] \in excused' BY <1>0, TabLocal
<1> SUFFICES ASSUME BrowserOf[t] \notin excused, excused' = excused,
                    InOrder(t, a, f, s, u)
             PROVE  KeepInv'
  BY <1>0 DEF Tidy
<1> DEFINE h == BrowserOf[t]
           p == Call(t)
           g == Refresh(t)
<1>s. h \in Browsers /\ p \in Of(h) /\ g \in Of(h) /\ p # g
  BY SlotParts DEF Of
<1>r. /\ req'[p] = a /\ req'[g] = f /\ store'[h] = s /\ status'[t] = u
      /\ \A q \in Of(h) \ {p, g} : req'[q] = req[q]
      /\ \A v \in Tabs : v # t => status'[v] = status[v]
  BY <1>s DEF TypeInv, Types, Of, Changes
<1>c. /\ a.at \in {"idle", "denied", "waiting", "sent"}
      /\ f.at \in {"idle", "sent"} /\ (a.at # "sent" \/ f.at # "sent")
      /\ a.at = "sent" \/ f.at = "sent" \/ s # store[h] =>
           \A q \in Of(h) \ {p, g} : Rests(q)
      /\ a.at = "sent" => a.token = s.refresh
      /\ f.at = "sent" => f.token = s.refresh
      /\ s.refresh \in Living \/
           (s = store[h] /\ ~ Clears(p) /\ ~ Clears(g))
      /\ a.at = "denied" => u # "guest"
      /\ f.at # "idle" => a.at = "waiting" /\ u # "guest"
      /\ s.refresh # 0 => u # "guest" \/ (u = status[t] /\ s = store[h])
  BY DEF InOrder
<1>o. Orderly(h) BY <1>s DEF KeepInv
<1>l. Living' = Living BY DEF Living, Changes
<1>1. Single(h)'
  <2>1. \A q \in Of(h) \ {p, g} : Rests(q)' <=> Rests(q) BY <1>r DEF Rests
  <2>2. Rests(p)' \/ Rests(g)' BY <1>c, <1>r DEF Rests
  <2>3. \/ \A q \in Of(h) \ {p, g} : Rests(q)
        \/ Rests(p)' /\ Rests(g)'
    BY <1>c, <1>r DEF Rests
  <2> QED BY <1>o, <2>1, <2>2, <2>3 DEF Orderly, Single, Of
<1>2. Current(h)'
  <2> SUFFICES ASSUME NEW q \in Of(h), req'[q].at \in {"sent", "saving"}
               PROVE  req'[q].token = s.refresh
    BY <1>r DEF Current, Of
  <2>1. CASE q \in {p, g} BY <1>c, <1>r, <2>1
  <2>2. CASE q \notin {p, g}
    <3>1. req'[q] = req[q] /\ ~ Rests(q) BY <1>r, <2>2 DEF Rests
    <3>2. s = store[h] BY <1>c, <2>2, <3>1
    <3> QED BY <1>o, <3>1, <3>2 DEF Orderly, Current
  <2> QED BY <2>1, <2>2
<1>3. Delivers(h)'
  <2> SUFFICES ASSUME NEW q \in Of(h), Brings(q)'
               PROVE  req'[q].new \in Living
    BY <1>l DEF Delivers, Of
  <2>1. q \notin {p, g} BY <1>c, <1>r DEF Brings
  <2>2. req'[q] = req[q] BY <1>r, <2>1
  <2> QED BY <1>o, <2>2 DEF Orderly, Delivers, Brings
<1>4. StoreLives(h)'
  <2> SUFFICES ASSUME \A q \in Of(h) : ~ Clears(q)', s.refresh \notin Living
               PROVE  FALSE
    BY <1>r, <1>l DEF StoreLives, Of
  <2>1. \A q \in Of(h) \ {p, g} : ~ Clears(q) BY <1>r DEF Clears
  <2>2. \A q \in Of(h) : ~ Clears(q) BY <1>c, <2>1
  <2> QED BY <1>c, <1>o, <2>2 DEF Orderly, StoreLives
<1>5. TabsWait(h)'
  <2> SUFFICES ASSUME NEW v \in Tabs, BrowserOf[v] = h
               PROVE  /\ req'[Refresh(v)].at \notin {"denied", "waiting"}
                      /\ req'[Call(v)].at = "denied" => status'[v] # "guest"
                      /\ req'[Refresh(v)].at # "idle" =>
                           /\ req'[Call(v)].at = "waiting"
                           /\ status'[v] # "guest"
    BY DEF TabsWait
  <2>1. CASE v = t BY <1>c, <1>r, <2>1
  <2>2. CASE v # t
    <3>1. Call(v) \in Of(h) \ {p, g} /\ Refresh(v) \in Of(h) \ {p, g}
      BY <2>2, SlotParts DEF Of, Call, Refresh
    <3> QED BY <1>o, <1>r, <2>2, <3>1 DEF Orderly, TabsWait
  <2> QED BY <2>1, <2>2
<1>6. SignedIn(h)'
  <2> SUFFICES ASSUME s.refresh # 0
               PROVE  \E v \in Tabs : BrowserOf[v] = h /\ status'[v] # "guest"
    BY <1>r DEF SignedIn
  <2>1. CASE u # "guest" BY <1>c, <1>r, <2>1
  <2>2. CASE u = status[t] /\ s = store[h]
    <3>1. PICK v \in Tabs : BrowserOf[v] = h /\ status[v] # "guest"
      BY <1>o, <2>2 DEF Orderly, SignedIn
    <3> QED BY <1>r, <2>2, <3>1
  <2> QED BY <1>c, <2>1, <2>2
<1>7. Orderly(h)' BY <1>1, <1>2, <1>3, <1>4, <1>5, <1>6 DEF Orderly
<1> QED BY <1>7, TabLocal

\* What the client puts in its slots and the store is the browser's own.
LEMMA OwnHeld ==
  ASSUME NEW t \in Tabs
  PROVE  /\ \A q \in {Call(t), Refresh(t)} :
              /\ Holds(BrowserOf[t], req[q].token)
              /\ Holds(BrowserOf[t], req[q].new)
         /\ Holds(BrowserOf[t], store[BrowserOf[t]].refresh)
BY SlotParts DEF Holds, Of

\* A tab of a browser in order: beside a call under way the slot for
\* refreshes is idle, and the other tabs rest.
LEMMA TabRests ==
  ASSUME TypeInv, KeepInv, NEW t \in Tabs, BrowserOf[t] \notin excused
  PROVE  LET p == Call(t)
             g == Refresh(t)
             others == Of(BrowserOf[t]) \ {p, g}
         IN /\ req[p].at # "waiting" => req[g].at = "idle"
            /\ Rests(g) => req[g].at = "idle"
            /\ ~ Rests(p) \/ ~ Rests(g) => \A q \in others : Rests(q)
            /\ req[p].at = "denied" => status[t] # "guest"
            /\ req[g].at # "idle" => status[t] # "guest"
            /\ Rests(p) => ~ Clears(p)
            /\ Rests(g) => ~ Clears(g)
<1>1. Orderly(BrowserOf[t]) BY SlotParts DEF KeepInv
<1>2. /\ Call(t) \in Of(BrowserOf[t]) /\ Refresh(t) \in Of(BrowserOf[t])
      /\ Call(t) # Refresh(t)
  BY SlotParts DEF Of
<1> QED BY <1>1, <1>2 DEF Orderly, TabsWait, Single, Rests, Clears

LEMMA SendKeeps ==
  ASSUME TypeInv, KeepInv, NEW t \in Tabs, NEW op, Send(Call(t), op),
         UNCHANGED <<doc, store, status, minted, twins>>
  PROVE  KeepInv'
<1> DEFINE h == BrowserOf[t]
           p == Call(t)
           g == Refresh(t)
           a == [Idle EXCEPT !.op = op, !.at = "sent",
                             !.access = store[Home(p)].access,
                             !.token = store[Home(p)].refresh]
<1>s. /\ h \in Browsers /\ p \in Of(h) /\ g \in Of(h) /\ p # g
      /\ Home(p) = h /\ p \in Slots /\ g \in Slots
  BY SlotParts DEF Of
<1>a. /\ a.at = "sent" /\ a.token = store[h].refresh /\ a.new = 0
  BY <1>s DEF Idle
<1>1. /\ req' = [req EXCEPT ![p] = a]
      /\ excused' = IF Under(h) # {} THEN excused \cup {h} ELSE excused
  BY <1>s DEF Send
<1> HIDE DEF a
<1>2. /\ req' = [req EXCEPT ![p] = a, ![g] = req[g]]
      /\ store' = [store EXCEPT ![h] = store[h]]
      /\ status' = [status EXCEPT ![t] = status[t]]
  BY <1>s, <1>1 DEF TypeInv, Types
<1>3. store[h].access = store[h].refresh BY <1>s DEF KeepInv
<1>4. \A x \in {a.token, a.new, req[g].token, req[g].new, store[h].refresh} :
        x = 0 \/ Holds(h, x)
  BY <1>a, OwnHeld
<1>c. PICK c, f, s, u :
        c = a /\ f = req[g] /\ s = store[h] /\ u = status[t]
  OBVIOUS
<1>5. Changes(t, c, f, s, u)
  BY <1>1, <1>2, <1>3, <1>4, <1>c DEF Changes
<1>6. ASSUME h \notin excused'
      PROVE  excused' = excused /\ InOrder(t, c, f, s, u)
  <2>1. excused' = excused /\ \A q \in Of(h) : Rests(q)
    BY <1>1, <1>6 DEF Under, Of, Rests
  <2>2. Rests(p) /\ Rests(g) BY <1>s, <2>1
  <2>3. req[g].at = "idle" /\ ~ Clears(p) /\ ~ Clears(g)
    BY <1>6, <2>1, <2>2, TabRests
  <2>4. store[h].refresh \in Living \/ (~ Clears(p) /\ ~ Clears(g))
    BY <2>3
  <2> QED BY <1>a, <1>c, <2>1, <2>3 DEF InOrder
<1>n. Tidy(t, c, f, s, u) BY <1>6 DEF Tidy
<1> QED BY <1>5, <1>n, TabKeeps

\* The steps of the client that send nothing of a call.
LEMMA WaitKeeps ==
  ASSUME TypeInv, KeepInv, NEW t \in Tabs,
         Denied(t) \/ GiveUp(t) \/ DoRefresh(t) \/ Bootstrap(t)
  PROVE  KeepInv'
<1> DEFINE h == BrowserOf[t]
           p == Call(t)
           g == Refresh(t)
           den == [Idle EXCEPT !.op = "api", !.at = "denied"]
<1>s. /\ h \in Browsers /\ p \in Of(h) /\ g \in Of(h) /\ p # g
      /\ Home(p) = h /\ Home(g) = h /\ p \in Slots /\ g \in Slots
  BY SlotParts DEF Of
<1>t. /\ req \in [Slots -> Req] /\ store[h].refresh \in Seconds
      /\ store = [store EXCEPT ![h] = store[h]]
      /\ status = [status EXCEPT ![t] = status[t]]
      /\ \A q : [req EXCEPT ![p] = q] = [req EXCEPT ![p] = q, ![g] = req[g]]
  BY <1>s DEF TypeInv, Types
<1>e. store[h].access = store[h].refresh BY <1>s DEF KeepInv
<1>i. /\ Idle.at = "idle" /\ Idle.token = 0 /\ Idle.new = 0
      /\ den.at = "denied" /\ den.token = 0 /\ den.new = 0
  BY DEF Idle
<1>k. /\ Holds(h, req[p].token) /\ Holds(h, req[p].new)
      /\ Holds(h, req[g].token) /\ Holds(h, req[g].new)
      /\ Holds(h, store[h].refresh)
  BY OwnHeld
<1>c. PICK f, s, u : f = req[g] /\ s = store[h] /\ u = status[t]
  OBVIOUS
<1> HIDE DEF den
<1>1. CASE Denied(t)
  <2>1. /\ status[t] = "authed" /\ req[p].at = "idle"
        /\ req' = [req EXCEPT ![p] = den]
        /\ UNCHANGED <<doc, store, status, minted, twins, excused>>
    BY <1>1 DEF Denied, history, den
  <2>2. Changes(t, den, f, s, u)
    BY <1>c, <1>e, <1>i, <1>k, <1>t, <2>1 DEF Changes
  <2>3. ASSUME h \notin excused
        PROVE  InOrder(t, den, f, s, u)
    <3>1. req[g].at = "idle" /\ ~ Clears(p) /\ ~ Clears(g)
      BY <2>1, <2>3, TabRests DEF Rests
    <3> QED BY <1>c, <1>i, <2>1, <3>1 DEF InOrder
  <2>n. Tidy(t, den, f, s, u) BY <2>1, <2>3 DEF Tidy
  <2> QED BY <2>2, <2>n, TabKeeps
<1>2. CASE GiveUp(t)
  <2>0. PICK v : v = IF status[t] = "loading" THEN "guest" ELSE status[t]
    OBVIOUS
  <2>1. /\ req[p].at = "denied" /\ store[h].refresh = 0
        /\ req' = [req EXCEPT ![p] = Idle]
        /\ status' = [status EXCEPT ![t] = v]
        /\ UNCHANGED <<doc, store, minted, twins, excused>>
    BY <1>2, <2>0, <1>t DEF GiveUp, history, p, h, TypeInv, Types
  <2>2. Changes(t, Idle, f, s, v)
    BY <1>c, <1>e, <1>i, <1>k, <1>t, <2>1 DEF Changes
  <2>3. ASSUME h \notin excused
        PROVE  InOrder(t, Idle, f, s, v)
    <3>1. req[g].at = "idle" /\ ~ Clears(p) /\ ~ Clears(g)
      BY <2>1, <2>3, TabRests DEF Rests
    <3> QED BY <1>c, <1>i, <2>1, <3>1 DEF InOrder
  <2>n. Tidy(t, Idle, f, s, v) BY <2>1, <2>3 DEF Tidy
  <2> QED BY <2>2, <2>n, TabKeeps
<1>3. CASE DoRefresh(t)
  <2> DEFINE a == [req[p] EXCEPT !.at = "waiting"]
             new == [Idle EXCEPT !.op = "refresh", !.at = "sent",
                                 !.token = store[h].refresh]
             next == IF req[g].at # "idle" THEN req[g] ELSE new
  <2>1. /\ req[p].at = "denied"
        /\ req' = [req EXCEPT ![p] = a, ![g] = next]
        /\ excused' = IF Under(h) # {} THEN excused \cup {h} ELSE excused
        /\ UNCHANGED <<doc, store, status, minted, twins>>
    BY <1>3, <1>s, <1>t DEF DoRefresh, p, g
  <2>2. /\ a.at = "waiting" /\ a.token = req[p].token /\ a.new = req[p].new
        /\ new.at = "sent" /\ new.token = store[h].refresh /\ new.new = 0
    BY <1>s, <1>t DEF Req, Idle
  <2> HIDE DEF a, new
  <2>c. PICK c, k : c = a /\ k = next OBVIOUS
  <2>3. Changes(t, c, k, s, u)
    <3>1. /\ k.token \in {req[g].token, store[h].refresh}
          /\ k.new \in {req[g].new, 0}
      BY <2>2, <2>c
    <3> HIDE DEF next
    <3> QED BY <1>c, <1>e, <1>k, <1>t, <2>1, <2>2, <2>c, <3>1 DEF Changes
  <2>4. ASSUME h \notin excused'
        PROVE  excused' = excused /\ InOrder(t, c, k, s, u)
    <3>1. excused' = excused /\ \A q \in Of(h) : Rests(q)
      BY <2>1, <2>4 DEF Under, Of, Rests
    <3>2. Rests(p) /\ Rests(g) BY <1>s, <3>1
    <3>3. /\ req[g].at = "idle" /\ ~ Clears(p) /\ ~ Clears(g)
          /\ status[t] # "guest"
      BY <2>1, <2>4, <3>1, <3>2, TabRests
    <3> QED BY <1>c, <2>2, <2>c, <3>1, <3>3 DEF InOrder
  <2>n. Tidy(t, c, k, s, u) BY <2>4 DEF Tidy
  <2> QED BY <2>3, <2>n, TabKeeps
<1>4. CASE Bootstrap(t)
  <2>1. PICK a, v :
          /\ a \in {Idle, den} /\ (a = den => v # "guest")
          /\ store[h].refresh # 0 => v # "guest"
          /\ req' = [req EXCEPT ![g] = Idle, ![p] = a]
          /\ status' = [status EXCEPT ![t] = v]
    <3> DEFINE held == store[h].access # 0
               ok == Accepted(store[h].access)
               v == IF ~ held THEN "guest" ELSE IF ok THEN "authed"
                                                ELSE "loading"
               a == IF held /\ ~ ok THEN den ELSE Idle
    <3>1. /\ req' = [req EXCEPT ![g] = Idle, ![p] = a]
          /\ status' = [status EXCEPT ![t] = v]
      BY <1>4 DEF Bootstrap, p, g, h, den
    <3>2. a \in {Idle, den} OBVIOUS
    <3>3. a = Idle \/ v # "guest" OBVIOUS
    <3>4. store[h].refresh # 0 => v # "guest" BY <1>e
    <3>5. Idle # den BY <1>i
    <3> QED BY <3>1, <3>2, <3>3, <3>4, <3>5
  <2>2. /\ UNCHANGED <<doc, store, minted, twins>>
        /\ \A q \in {p, g} : req[q].at \notin {"sent", "saving"}
        /\ excused' = excused \cup {x \in {h} : \E q \in Under(h) : q[1] = t}
    BY <1>4 DEF Bootstrap
  <2>3. req' = [req EXCEPT ![p] = a, ![g] = Idle]
    BY <1>s, <1>t, <2>1
  <2>4. Changes(t, a, Idle, s, v)
    BY <1>c, <1>e, <1>i, <1>k, <1>t, <2>1, <2>2, <2>3 DEF Changes
  <2>5. ASSUME h \notin excused'
        PROVE  excused' = excused /\ InOrder(t, a, Idle, s, v)
    <3>1. excused' = excused /\ h \notin excused BY <2>2, <2>5
    <3>2. p[1] = t /\ g[1] = t BY DEF Call, Refresh
    <3>3. Rests(p) /\ Rests(g)
      BY <1>s, <2>2, <2>5, <3>2 DEF Under, Rests
    <3>4. ~ Clears(p) /\ ~ Clears(g) BY <3>1, <3>3, TabRests
    <3> QED BY <1>c, <1>i, <2>1, <3>1, <3>4 DEF InOrder
  <2>n. Tidy(t, a, Idle, s, v) BY <2>5 DEF Tidy
  <2> QED BY <2>4, <2>n, TabKeeps
<1> QED BY <1>1, <1>2, <1>3, <1>4

\* The answers.
LEMMA RefreshedKeeps ==
  ASSUME TypeInv, KeepInv, NEW t \in Tabs, Refreshed(t) PROVE KeepInv'
<1> DEFINE h == BrowserOf[t]
           p == Call(t)
           g == Refresh(t)
<1>s. /\ h \in Browsers /\ p \in Of(h) /\ g \in Of(h) /\ p # g
      /\ Home(p) = h /\ Home(g) = h /\ p \in Slots /\ g \in Slots
      /\ g[2] = "refresh"
  BY SlotParts DEF Of, Refresh
<1>e. store[h].access = store[h].refresh BY <1>s DEF KeepInv
<1>k. /\ Holds(h, req[p].token) /\ Holds(h, req[p].new)
      /\ Holds(h, req[g].new) /\ Holds(h, store[h].refresh)
  BY OwnHeld
<1>i. /\ Idle.at = "idle" /\ Idle.token = 0 /\ Idle.new = 0
      /\ None.refresh = 0 /\ None.access = 0
  BY DEF Idle, None
<1>a. PICK a : a = IF req[p].at = "waiting" THEN Idle ELSE req[p] OBVIOUS
<1>b. PICK s : s = CASE req[g].at = "answered" -> [access |-> req[g].new,
                                                  refresh |-> req[g].new]
                     [] req[g].at = "refused" -> None
                     [] OTHER -> store[h]
  OBVIOUS
<1>u. PICK u : u = IF status[t] # "loading" THEN status[t]
                   ELSE IF req[g].at = "answered" THEN "authed" ELSE "guest"
  OBVIOUS
<1>1. /\ req[g].at \in {"answered", "refused", "failed"}
      /\ req' = [req EXCEPT ![p] = a, ![g] = Idle]
      /\ store' = [store EXCEPT ![h] = s]
      /\ status' = [status EXCEPT ![t] = u]
      /\ excused' = IF status[t] = "loading" /\ req[g].at = "failed"
                    THEN excused \cup {h} ELSE excused
      /\ UNCHANGED <<doc, minted, twins>>
  BY <1>s, <1>a, <1>b, <1>u DEF Refreshed, p, g, h, TypeInv, Types
<1>c. /\ req[g].at = "answered" =>
           s.access = req[g].new /\ s.refresh = req[g].new
      /\ req[g].at = "refused" => s = None
      /\ req[g].at = "failed" => s = store[h]
  BY <1>b
<1>2. Changes(t, a, Idle, s, u)
  <2>1. s.access = s.refresh BY <1>c, <1>e, <1>i, <1>1
  <2>2. s.refresh \in {req[g].new, 0, store[h].refresh}
    BY <1>c, <1>i, <1>1
  <2>3. a.token \in {0, req[p].token} /\ a.new \in {0, req[p].new}
    BY <1>a, <1>i
  <2> QED BY <1>i, <1>k, <1>1, <2>1, <2>2, <2>3 DEF Changes
<1>3. ASSUME h \notin excused'
      PROVE  excused' = excused /\ InOrder(t, a, Idle, s, u)
  <2>1. /\ excused' = excused
        /\ ~ (status[t] = "loading" /\ req[g].at = "failed")
    BY <1>1, <1>3
  <2>2. /\ ~ Rests(g) /\ req[g].at # "idle" BY <1>1 DEF Rests
  <2>3. /\ req[p].at = "waiting" /\ status[t] # "guest"
        /\ \A q \in Of(h) \ {p, g} : Rests(q)
    BY <1>3, <2>1, <2>2, TabRests
  <2>4. ~ Clears(p) BY <1>s, <2>1, <1>3, <2>3, TabRests DEF Rests
  <2>5. a = Idle BY <1>a, <2>3
  <2>6. /\ s.refresh \in Living \/ (s = store[h] /\ ~ Clears(g))
        /\ s.refresh # 0 => u # "guest" \/ (u = status[t] /\ s = store[h])
    <3>1. CASE req[g].at = "answered"
      <4>1. Brings(g) BY <1>s, <3>1 DEF Brings
      <4>2. req[g].new \in Living
        BY <1>s, <1>3, <2>1, <4>1 DEF KeepInv, Orderly, Delivers
      <4> QED BY <1>c, <1>u, <2>3, <3>1, <4>2
    <3>2. CASE req[g].at = "refused" BY <1>c, <1>i, <3>2 DEF Living
    <3>3. CASE req[g].at = "failed"
      <4>1. req[g].op \in {"none", "refresh"}
        BY <1>s DEF TypeInv, ReadInv
      <4>2. ~ Clears(g) BY <3>3, <4>1 DEF Clears
      <4> QED BY <1>c, <1>u, <2>1, <3>3, <4>2
    <3> QED BY <1>1, <3>1, <3>2, <3>3
  <2> QED BY <1>i, <2>1, <2>3, <2>4, <2>5, <2>6 DEF InOrder
<1>4. Tidy(t, a, Idle, s, u) BY <1>3 DEF Tidy
<1> QED BY <1>2, <1>4, TabKeeps

LEMMA AnsweredKeeps ==
  ASSUME TypeInv, KeepInv, NEW t \in Tabs, LoggedOut(t) \/ Receive(t)
  PROVE  KeepInv'
<1> DEFINE h == BrowserOf[t]
           p == Call(t)
           g == Refresh(t)
           brings == req[p].op = "login" /\ req[p].at = "answered"
<1>s. /\ h \in Browsers /\ p \in Of(h) /\ g \in Of(h) /\ p # g
      /\ Home(p) = h /\ Home(g) = h /\ p \in Slots /\ g \in Slots
      /\ p[2] = "call"
  BY SlotParts DEF Of, Call
<1>e. store[h].access = store[h].refresh BY <1>s DEF KeepInv
<1>k. /\ Holds(h, req[g].token) /\ Holds(h, req[g].new)
      /\ Holds(h, req[p].new) /\ Holds(h, store[h].refresh)
  BY OwnHeld
<1>i. /\ Idle.at = "idle" /\ Idle.token = 0 /\ Idle.new = 0
      /\ None.refresh = 0 /\ None.access = 0
  BY DEF Idle, None
<1>1. CASE Receive(t) /\ req[p].at = "answered" /\ req[p].op = "reset"
  <2>1. /\ Send(p, "logout")
        /\ UNCHANGED <<doc, store, status, minted, twins>>
    BY <1>1 DEF Receive
  <2> QED BY <2>1, SendKeeps
<1>2. CASE LoggedOut(t) \/
           (Receive(t) /\ ~ (req[p].at = "answered" /\ req[p].op = "reset"))
  <2>1. PICK s, u :
          /\ store' = [store EXCEPT ![h] = s]
          /\ status' = [status EXCEPT ![t] = u]
          /\ \/ s.access = 0 /\ s.refresh = 0
             \/ /\ brings /\ u = "authed"
                /\ s.access = req[p].new /\ s.refresh = req[p].new
             \/ req[p].op # "logout" /\ s = store[h] /\ u = status[t]
    <3>1. CASE LoggedOut(t)
      BY <1>i, <3>1 DEF LoggedOut, EndLogout
    <3>2. CASE Receive(t)
      <4>1. /\ req[p].op # "logout"
            /\ \/ /\ brings /\ status' = [status EXCEPT ![t] = "authed"]
                  /\ store' = [store EXCEPT ![h] = [access |-> req[p].new,
                                                    refresh |-> req[p].new]]
               \/ UNCHANGED <<store, status>>
        BY <1>s, <3>2 DEF Receive
      <4>2. CASE UNCHANGED <<store, status>>
        <5>1. /\ store' = [store EXCEPT ![h] = store[h]]
              /\ status' = [status EXCEPT ![t] = status[t]]
          BY <1>s, <4>2 DEF TypeInv, Types
        <5> QED BY <4>1, <5>1
      <4>3. CASE brings /\ status' = [status EXCEPT ![t] = "authed"] /\
                 store' = [store EXCEPT ![h] = [access |-> req[p].new,
                                                refresh |-> req[p].new]]
        <5> DEFINE s == [access |-> req[p].new, refresh |-> req[p].new]
        <5>1. s.access = req[p].new /\ s.refresh = req[p].new OBVIOUS
        <5>2. store' = [store EXCEPT ![h] = s] BY <4>3
        <5> HIDE DEF s
        <5> QED BY <4>3, <5>1, <5>2
      <4> QED BY <4>1, <4>2, <4>3
    <3> QED BY <1>2, <3>1, <3>2
  <2>2. /\ req[p].at \in {"answered", "refused", "failed"}
        /\ req' = [req EXCEPT ![p] = Idle]
        /\ UNCHANGED <<doc, minted, twins, excused>>
    BY <1>2 DEF LoggedOut, EndLogout, Receive
  <2>3. PICK f : f = req[g] OBVIOUS
  <2>4. req' = [req EXCEPT ![p] = Idle, ![g] = f]
    BY <1>s, <2>2, <2>3 DEF TypeInv, Types
  <2>5. Changes(t, Idle, f, s, u)
    <3>1. /\ s.access = s.refresh
          /\ s.refresh \in {0, req[p].new, store[h].refresh}
      BY <1>e, <2>1
    <3> QED BY <1>i, <1>k, <2>1, <2>2, <2>3, <2>4, <3>1 DEF Changes
  <2>6. ASSUME h \notin excused
        PROVE  InOrder(t, Idle, f, s, u)
    <3>1. ~ Rests(p) /\ req[p].at # "waiting" BY <2>2 DEF Rests
    <3>2. req[g].at = "idle" /\ \A q \in Of(h) \ {p, g} : Rests(q)
      BY <2>6, <3>1, TabRests
    <3>3. ~ Clears(g) BY <2>6, <3>2, TabRests DEF Rests
    <3>4. brings => req[p].new \in Living
      BY <1>s, <2>6 DEF KeepInv, Orderly, Delivers, Brings
    <3>5. req[p].op # "logout" => ~ Clears(p) BY <1>s DEF Clears
    <3>6. /\ s.refresh \in Living \/ (s = store[h] /\ ~ Clears(p))
          /\ s.refresh # 0 => u # "guest" \/ (u = status[t] /\ s = store[h])
      BY <2>1, <3>4, <3>5 DEF Living
    <3> QED BY <1>i, <2>3, <3>2, <3>3, <3>6 DEF InOrder
  <2>7. Tidy(t, Idle, f, s, u) BY <2>2, <2>6 DEF Tidy
  <2> QED BY <2>5, <2>7, TabKeeps
<1>3. LoggedOut(t) \/ Receive(t) OBVIOUS
<1> QED BY <1>1, <1>2, <1>3

LEMMA ClientKeeps ==
  ASSUME TypeInv, KeepInv, NEW t \in Tabs, Client(t) PROVE KeepInv'
<1>1. CASE Login(t) \/ Logout(t) \/ ChangePassword(t) \/ ResetPassword(t)
  <2>1. /\ UNCHANGED <<doc, store, status, minted, twins>>
        /\ \E op \in Ops : Send(Call(t), op)
    BY <1>1 DEF Login, Logout, ChangePassword, ResetPassword, Ops
  <2> QED BY <2>1, SendKeeps
<1> QED BY <1>1, WaitKeeps, RefreshedKeeps, AnsweredKeeps DEF Client

\* An answer that is lost excuses the browser.
LEMMA LoseKeeps ==
  ASSUME TypeInv, KeepInv, NEW p \in Slots, Lose(p) PROVE KeepInv'
<1> DEFINE r == [Idle EXCEPT !.op = req[p].op, !.at = "failed",
                             !.token = req[p].token, !.new = 0]
<1>1. /\ req' = [req EXCEPT ![p] = r]
      /\ excused' = excused \cup {Home(p)}
      /\ UNCHANGED <<doc, store, status, minted, twins>>
  BY DEF Lose, Fail, Finish
<1>2. r.token = req[p].token /\ r.new = 0 BY DEF Idle
<1> HIDE DEF r
<1>s. Home(p) \in Browsers /\ p \in Of(Home(p)) BY SlotParts DEF Of
<1>r. req'[p] = r /\ \A q \in Slots \ {p} : req'[q] = req[q]
  BY <1>1 DEF TypeInv, Types
<1>3. Local(Home(p))
  <2>1. ASSUME NEW x, Holds(Home(p), x)' PROVE Holds(Home(p), x) \/ x = 0
    <3>1. \/ store[Home(p)].refresh = x
          \/ \E q \in Of(Home(p)) : req'[q].token = x \/ req'[q].new = x
      BY <1>1, <2>1 DEF Holds, Of
    <3> QED BY <1>s, <1>r, <1>2, <3>1 DEF Holds, Of
  <2>2. Living' = Living BY <1>1 DEF Living
  <2>3. \A q \in Slots : Home(q) # Home(p) => req'[q] = req[q] BY <1>r
  <2>4. store'[Home(p)].access = store'[Home(p)].refresh
    BY <1>1, <1>s DEF KeepInv
  <2> QED BY <1>1, <2>1, <2>2, <2>3, <2>4 DEF Local
<1>4. Home(p) \in excused' BY <1>1
<1> QED BY <1>s, <1>3, <1>4, Elsewhere

LEMMA KeepStep == TypeInv /\ SafeInv /\ KeepInv /\ [Next]_vars => KeepInv'
<1> SUFFICES ASSUME TypeInv, SafeInv, KeepInv, [Next]_vars PROVE KeepInv'
  OBVIOUS
<1>1. CASE Tick \/ UNCHANGED vars
  <2>1. UNCHANGED <<doc, store, status, req, minted, twins, excused>>
    BY <1>1 DEF Tick, vars, history
  <2> QED BY <2>1 DEF KeepInv, Apart, Holds, Of, Orderly, Single, Current,
          Delivers, StoreLives, TabsWait, SignedIn, Rests, Brings, Clears,
          Living
<1> QED BY <1>1, HandlerKeeps, ClientKeeps, LoseKeeps DEF Next

-----------------------------------------------------------------------------
(* The theorems.                                                           *)

THEOREM Invariance == Spec => [](TypeInv /\ SafeInv /\ KeepInv)
<1>1. Init => TypeInv /\ SafeInv /\ KeepInv BY InitTypes, InitSafe, InitKeep
<1>2. TypeInv /\ SafeInv /\ KeepInv /\ [Next]_vars
        => (TypeInv /\ SafeInv /\ KeepInv)'
  BY TypeStep, SafeStep, KeepStep
<1> QED BY <1>1, <1>2, PTL DEF Spec

\* Every variable keeps the values the client and the User schema can hold,
\* and a token is a second that has been.
THEOREM TypeCorrect == Spec => []TypeOK
<1>1. TypeInv /\ SafeInv => TypeOK BY TypesOK DEF TypeInv
<1> QED BY <1>1, Invariance, PTL

\* A refresh token that the document lost counts again only when a handler
\* that had read it before a logout's $pull writes it back, or when it was
\* minted again within its second (refresh, logout and changePassword of
\* auth.controller.js).
THEOREM RevokedStays == Spec => []RevokedStaysRevoked
<1>1. TypeInv /\ SafeInv => RevokedStaysRevoked BY DEF SafeInv
<1> QED BY <1>1, Invariance, PTL

\* A change or reset of the password ends the sessions from before it, but
\* for the caller's and those of handlers that were in flight
\* (auth.controller.js changePassword, resetPassword).
THEOREM SessionsEnd == Spec => []SessionsOfThisPassword
<1>1. TypeInv /\ SafeInv => SessionsOfThisPassword BY DEF SafeInv
<1> QED BY <1>1, Invariance, PTL

\* Between its requests a browser none of whose requests overlapped or lost
\* an answer holds a refresh token the server accepts, or none, whatever
\* happens at other browsers short of a change of the password; and none
\* where nobody is signed in (api/client.js doRefresh, store/auth.js, and
\* refresh, logout, changePassword of auth.controller.js).
THEOREM LiveTokens == Spec => []ClientHoldsLiveToken
<1>1. TypeInv /\ KeepInv => ClientHoldsLiveToken
  <2> SUFFICES ASSUME TypeInv, KeepInv,
                      NEW b \in Browsers \ excused, Under(b) = {}
               PROVE  /\ store[b].refresh \in Living
                      /\ (\A t \in Tabs : BrowserOf[t] = b =>
                            status[t] = "guest" /\ Free(t))
                           => store[b] = None
    BY DEF ClientHoldsLiveToken, Living
  <2>1. Orderly(b) /\ store[b].access = store[b].refresh
    BY DEF KeepInv
  <2>2. \A p \in Of(b) : Rests(p) BY DEF Under, Of, Rests
  <2>3. \A p \in Of(b) : ~ Clears(p) BY <2>2 DEF Rests, Clears
  <2>4. store[b].refresh \in Living BY <2>1, <2>3 DEF Orderly, StoreLives
  <2>5. ASSUME \A t \in Tabs : BrowserOf[t] = b => status[t] = "guest"
        PROVE  store[b] = None
    <3>1. store[b].refresh = 0 BY <2>1, <2>5 DEF Orderly, SignedIn
    <3>2. store[b] \in [access : Seconds, refresh : Seconds]
      BY DEF TypeInv, Types
    <3> QED BY <2>1, <3>1, <3>2 DEF None
  <2> QED BY <2>4, <2>5
<1> QED BY <1>1, Invariance, PTL
=============================================================================
