------------------------------- MODULE Sessions -------------------------------
(***************************************************************************)
(* The sessions of one account: the refresh tokens in the User document    *)
(* (auth.controller.js), the check of access tokens (auth.middleware.js)   *)
(* and the web client that stores, rotates and clears the two              *)
(* (api/client.js, api/auth.js, store/auth.js).                            *)
(*                                                                         *)
(* A browser's tabs share its localStorage.  A tab has at most one call    *)
(* and one refresh under way.  A handler reads the document in one step    *)
(* and saves it in a later one; the answer is a third, or is lost.  Save   *)
(* is Mongoose's: an array that was pushed to is written with $push and no *)
(* condition, an array that was assigned only if the document's version is *)
(* still the one read.  A JWT is its payload and its second: two refresh   *)
(* tokens of one second are the same string, so a token is its second      *)
(* here, and 0 is none.                                                    *)
(***************************************************************************)
EXTENDS Naturals, FiniteSets

CONSTANTS Tabs, Browsers,
          BrowserOf,   \* the browser of each tab
          AccessLife,  \* seconds an access token lives
          MaxTime,     \* bound: seconds
          MaxEvents    \* bound: what users do, and lost answers

ASSUME SessionsAssumption ==
  /\ BrowserOf \in [Tabs -> Browsers]
  /\ AccessLife \in Nat \ {0} /\ MaxTime \in Nat \ {0} /\ MaxEvents \in Nat

VARIABLES
  now,
  doc,      \* tokens, version, password and passwordChangedAt of the user
  store,    \* tokenStore of each browser
  status,   \* useAuth.status of each tab
  req,      \* the request of each slot of a tab
  minted,   \* tokens ever minted (history)
  twins,    \* those minted twice (history)
  revoked,  \* tokens ever taken out of the document (history)
  revived,  \* those a handler had read that would write them back (history)
  fresh,    \* tokens that rest on the present password (history)
  late,     \* tokens of handlers that raced a change of it (history)
  excused,  \* browsers whose requests overlapped, were lost, or whose
            \* sessions a password change ended (history)
  events

history == <<minted, twins, revoked, revived, fresh, late, excused>>
vars == <<now, doc, store, status, req, history, events>>

Slots == Tabs \X {"call", "refresh"}
Call(t) == <<t, "call">>
Refresh(t) == <<t, "refresh">>
Home(p) == BrowserOf[p[1]]

None == [access |-> 0, refresh |-> 0]
Idle == [op |-> "none", at |-> "idle", access |-> 0, token |-> 0,
         seen |-> {}, version |-> 0, password |-> 0, since |-> 0, new |-> 0]

Init ==
  /\ now = 1
  /\ doc = [tokens |-> {}, version |-> 0, password |-> 0, floor |-> 0]
  /\ store = [b \in Browsers |-> None]
  /\ status = [t \in Tabs |-> "guest"]
  /\ req = [p \in Slots |-> Idle]
  /\ minted = {} /\ twins = {} /\ revoked = {} /\ revived = {} /\ fresh = {}
  /\ late = {} /\ excused = {}
  /\ events = 0

-----------------------------------------------------------------------------
Event == events < MaxEvents /\ events' = events + 1

Tick ==
  /\ now < MaxTime /\ now' = now + 1
  /\ UNCHANGED <<doc, store, status, req, history, events>>

\* An access token outlives a change of the password when it was minted in
\* the same second or the one before.
ChangedPasswordAfter(iat) == iat < doc.floor
Accepted(access) ==
  access # 0 /\ now < access + AccessLife /\ ~ ChangedPasswordAfter(access)

\* The requests of b that carry or bring tokens.
Under(b) == {p \in Slots : Home(p) = b /\ req[p].at \notin {"idle", "denied",
                                                             "waiting"}}

\* The user may act while a call in the background waits for a refresh.
Free(t) == req[Call(t)].at \in {"idle", "waiting"}

Send(p, op) ==
  /\ req' = [req EXCEPT ![p] =
       [Idle EXCEPT !.op = op, !.at = "sent",
                    !.access = store[Home(p)].access,
                    !.token = store[Home(p)].refresh]]
  /\ excused' = IF Under(Home(p)) # {} THEN excused \cup {Home(p)} ELSE excused

\* The handler is done with the request.
Finish(p, at, new) ==
  req' = [req EXCEPT ![p] = [Idle EXCEPT !.op = req[p].op, !.at = at,
                                         !.token = req[p].token, !.new = new]]
Answer(p, new) == Finish(p, "answered", new)
Refuse(p) == Finish(p, "refused", 0)
Fail(p) == Finish(p, "failed", 0)

\* The handler has read the document.
Load(p) ==
  req' = [req EXCEPT ![p].at = "saving", ![p].seen = doc.tokens,
                     ![p].version = doc.version, ![p].password = doc.password,
                     ![p].since = now]

\* The document loses some tokens; revived are those that a refresh or a
\* change in flight has read, and saves again without a conflict.
Revoke(lost, quietly) ==
  /\ revoked' = revoked \cup lost
  /\ revived' = IF quietly
       THEN revived \cup {x \in lost : \E p \in Slots :
              /\ req[p].op \in {"refresh", "change"}
              /\ req[p].at = "saving" /\ x \in req[p].seen}
       ELSE revived

\* issueTokens mints before it saves, somewhere since the document was read.
Mint(x) ==
  /\ minted' = minted \cup {x}
  /\ twins' = IF x \in minted THEN twins \cup {x} ELSE twins

-----------------------------------------------------------------------------
(* login and firebaseAuth of a verified account.                           *)

Login(t) ==
  /\ Event
  /\ status[t] = "guest" /\ Free(t)
  /\ Send(Call(t), "login")
  /\ UNCHANGED <<now, doc, store, status, minted, twins, revoked, revived,
                 fresh, late>>

\* findOne; the password is right, or Firebase vouches for the user.
FindUser(t) ==
  /\ req[Call(t)].op = "login" /\ req[Call(t)].at = "sent"
  /\ Load(Call(t))
  /\ UNCHANGED <<now, doc, store, status, history, events>>

IssueTokens(t) ==
  LET p == Call(t) IN
  /\ req[p].op = "login" /\ req[p].at = "saving"
  /\ \E x \in req[p].since .. now :
       /\ doc' = [doc EXCEPT !.tokens = @ \cup {x}, !.version = @ + 1]
       /\ Answer(p, x) /\ Mint(x)
       /\ IF req[p].password = doc.password
          THEN fresh' = fresh \cup {x} /\ UNCHANGED late
          ELSE late' = late \cup {x} /\ UNCHANGED fresh
  /\ UNCHANGED <<now, store, status, revoked, revived, excused, events>>

-----------------------------------------------------------------------------
(* A 401 on a call that is not /auth/ and the one refresh a tab shares.    *)

Denied(t) ==
  /\ Event
  /\ status[t] = "authed" /\ req[Call(t)].at = "idle"
  /\ ~ Accepted(store[BrowserOf[t]].access)
  /\ req' = [req EXCEPT ![Call(t)] = [Idle EXCEPT !.op = "api",
                                                  !.at = "denied"]]
  /\ UNCHANGED <<now, doc, store, status, history>>

GiveUp(t) ==
  /\ req[Call(t)].at = "denied" /\ store[BrowserOf[t]].refresh = 0
  /\ req' = [req EXCEPT ![Call(t)] = Idle]
  /\ status' = [status EXCEPT ![t] = IF @ = "loading" THEN "guest" ELSE @]
  /\ UNCHANGED <<now, doc, store, history, events>>

\* doRefresh sends the token the store holds now, which another tab may have
\* renewed since the 401; while one is under way the call waits for that.
DoRefresh(t) ==
  LET p == Refresh(t) IN
  /\ req[Call(t)].at = "denied" /\ store[Home(p)].refresh # 0
  /\ req' = [req EXCEPT
       ![Call(t)].at = "waiting",
       ![p] = IF @.at # "idle" THEN @
              ELSE [Idle EXCEPT !.op = "refresh", !.at = "sent",
                                !.token = store[Home(p)].refresh]]
  /\ excused' = IF Under(Home(p)) # {} THEN excused \cup {Home(p)} ELSE excused
  /\ UNCHANGED <<now, doc, store, status, minted, twins, revoked, revived,
                 fresh, late, events>>

CheckRefresh(t) ==
  LET p == Refresh(t) IN
  /\ req[p].at = "sent"
  /\ IF req[p].token \in doc.tokens THEN Load(p) ELSE Refuse(p)
  /\ UNCHANGED <<now, doc, store, status, history, events>>

\* The token is dropped and its successor added in the array that was read.
SaveRotation(t) ==
  LET p == Refresh(t) IN
  /\ req[p].at = "saving"
  /\ \E x \in req[p].since .. now :
       /\ doc' = [doc EXCEPT !.version = @ + 1,
                    !.tokens = (req[p].seen \ {req[p].token}) \cup {x}]
       /\ Answer(p, x) /\ Mint(x)
       /\ Revoke({req[p].token} \ {x}, FALSE)
       /\ IF req[p].token \in revived
          THEN late' = late \cup {x} /\ UNCHANGED fresh
          ELSE /\ fresh' = IF req[p].token \in fresh THEN fresh \cup {x}
                                                     ELSE fresh
               /\ late' = IF req[p].token \in late THEN late \cup {x}
                                                   ELSE late
  /\ UNCHANGED <<now, store, status, excused, events>>

\* Mutation: the array is saved without a look at the version.
RotateUnversioned(t) == SaveRotation(t)

\* Saved only over the version that was read; save() throws otherwise.
Rotate(t) == req[Refresh(t)].version = doc.version /\ SaveRotation(t)

RotateConflict(t) ==
  LET p == Refresh(t) IN
  /\ req[p].at = "saving" /\ req[p].version # doc.version
  /\ Fail(p)
  /\ UNCHANGED <<now, doc, store, status, history, events>>

\* Only a refusal clears the session; the call that waits is repeated or
\* rejected, and bootstrap ends.
Refreshed(t) ==
  LET p == Refresh(t)  b == Home(p) IN
  /\ req[p].at \in {"answered", "refused", "failed"}
  /\ store' = [store EXCEPT ![b] =
       CASE req[p].at = "answered" -> [access |-> req[p].new,
                                       refresh |-> req[p].new]
         [] req[p].at = "refused" -> None
         [] OTHER -> @]
  /\ status' = [status EXCEPT ![t] =
       IF @ # "loading" THEN @
       ELSE IF req[p].at = "answered" THEN "authed" ELSE "guest"]
  /\ excused' = IF status[t] = "loading" /\ req[p].at = "failed"
                THEN excused \cup {b} ELSE excused
  /\ req' = [req EXCEPT ![p] = Idle,
                        ![Call(t)] = IF @.at = "waiting" THEN Idle ELSE @]
  /\ UNCHANGED <<now, doc, minted, twins, revoked, revived, fresh, late,
                 events>>

-----------------------------------------------------------------------------
(* logout.                                                                 *)

Logout(t) ==
  /\ Event
  /\ status[t] = "authed" /\ Free(t)
  /\ Send(Call(t), "logout")
  /\ UNCHANGED <<now, doc, store, status, minted, twins, revoked, revived,
                 fresh, late>>

\* $pull does not touch the version.  Without a valid access token verifyJWT
\* refuses, and the client does not refresh on an /auth/ route.
PullToken(t) ==
  LET p == Call(t)  x == {req[p].token} \cap doc.tokens IN
  /\ req[p].op = "logout" /\ req[p].at = "sent"
  /\ IF Accepted(req[p].access)
     THEN doc' = [doc EXCEPT !.tokens = @ \ x] /\ Answer(p, 0)
          /\ Revoke(x, TRUE)
     ELSE Refuse(p) /\ UNCHANGED <<doc, revoked, revived>>
  /\ UNCHANGED <<now, store, status, minted, twins, fresh, late, excused,
                 events>>

EndLogout(t) ==
  LET p == Call(t) IN
  /\ req[p].op = "logout" /\ req[p].at \in {"answered", "refused", "failed"}
  /\ status' = [status EXCEPT ![t] = "guest"]
  /\ req' = [req EXCEPT ![p] = Idle]
  /\ UNCHANGED <<now, doc, minted, twins, revoked, revived, fresh, late,
                 excused, events>>

\* Whatever the answer was, the tokens are cleared.
LoggedOut(t) ==
  /\ EndLogout(t)
  /\ store' = [store EXCEPT ![BrowserOf[t]] = None]

-----------------------------------------------------------------------------
(* changePassword, and resetPassword with a ticket or link that is valid.  *)

ChangePassword(t) ==
  /\ Event
  /\ status[t] = "authed" /\ Free(t)
  /\ Send(Call(t), "change")
  /\ UNCHANGED <<now, doc, store, status, minted, twins, revoked, revived,
                 fresh, late>>

ResetPassword(t) ==
  /\ Event
  /\ Free(t)
  /\ Send(Call(t), "reset")
  /\ UNCHANGED <<now, doc, store, status, minted, twins, revoked, revived,
                 fresh, late>>

CheckPassword(t) ==
  LET p == Call(t) IN
  /\ req[p].op \in {"change", "reset"} /\ req[p].at = "sent"
  /\ IF req[p].op = "reset" \/ Accepted(req[p].access)
     THEN Load(p) ELSE Refuse(p)
  /\ UNCHANGED <<now, doc, store, status, history, events>>

\* Mutation: every token that was read stays.
KeepsAll(r) == r.seen

\* What the assigned array holds: the caller's token, or nothing.
Keeps(r) == IF r.op = "change" THEN r.seen \cap {r.token} ELSE {}

\* Mutation: passwordChangedAt in milliseconds, as Date.now() is.
FloorInMillis(s) == 1000 * s

\* passwordChangedAt is back-dated by a second.
Floor(s) == s - 1

\* An array that is assigned what it held is not written, and not checked;
\* tokens pushed since it was read then stay.
SavePassword(t) ==
  LET p == Call(t)  r == req[p]  writes == Keeps(r) # r.seen IN
  /\ r.op \in {"change", "reset"} /\ r.at = "saving"
  /\ writes => r.version = doc.version
  /\ \E s \in r.since .. now :
       doc' = [tokens |-> IF writes THEN Keeps(r) ELSE doc.tokens,
               version |-> IF writes THEN doc.version + 1 ELSE doc.version,
               password |-> doc.password + 1, floor |-> Floor(s)]
  /\ Revoke(IF writes THEN doc.tokens \ Keeps(r) ELSE {}, FALSE)
  /\ fresh' = IF r.op = "change" THEN r.seen \cap {r.token} ELSE {}
  /\ late' = IF writes THEN late ELSE late \cup (doc.tokens \ r.seen)
  /\ excused' = excused \cup (Browsers \ {b \in {Home(p)} : fresh' # {}})
  /\ Answer(p, 0)
  /\ UNCHANGED <<now, store, status, minted, twins, events>>

PasswordConflict(t) ==
  LET p == Call(t)  r == req[p] IN
  /\ r.op \in {"change", "reset"} /\ r.at = "saving"
  /\ Keeps(r) # r.seen /\ r.version # doc.version
  /\ Fail(p)
  /\ UNCHANGED <<now, doc, store, status, history, events>>

-----------------------------------------------------------------------------
(* The client, when a call other than logout is over.                      *)

\* A login saves its tokens.  After a reset the screen logs out.
Receive(t) ==
  LET p == Call(t)  r == req[p]  b == Home(p) IN
  /\ r.op \in {"login", "change", "reset"}
  /\ r.at \in {"answered", "refused", "failed"}
  /\ IF r.at = "answered" /\ r.op = "login"
     THEN /\ store' = [store EXCEPT ![b] = [access |-> r.new,
                                            refresh |-> r.new]]
          /\ status' = [status EXCEPT ![t] = "authed"]
     ELSE UNCHANGED <<store, status>>
  /\ IF r.at = "answered" /\ r.op = "reset"
     THEN Send(p, "logout")
     ELSE req' = [req EXCEPT ![p] = Idle] /\ UNCHANGED excused
  /\ UNCHANGED <<now, doc, minted, twins, revoked, revived, fresh, late,
                 events>>

\* The answer does not arrive: the client sees an error without a status.
Lose(p) ==
  /\ Event
  /\ req[p].at = "answered"
  /\ Fail(p)
  /\ excused' = excused \cup {Home(p)}
  /\ UNCHANGED <<now, doc, store, status, minted, twins, revoked, revived,
                 fresh, late>>

\* The page is loaded again: what the tab waited for is dropped, and
\* bootstrap asks for the user.
Bootstrap(t) ==
  LET b == BrowserOf[t] IN
  /\ Event
  /\ \A p \in {Call(t), Refresh(t)} : req[p].at \notin {"sent", "saving"}
  /\ LET held == store[b].access # 0  ok == Accepted(store[b].access) IN
       /\ status' = [status EXCEPT ![t] =
            IF ~ held THEN "guest" ELSE IF ok THEN "authed" ELSE "loading"]
       /\ req' = [req EXCEPT ![Refresh(t)] = Idle,
            ![Call(t)] = IF held /\ ~ ok
                         THEN [Idle EXCEPT !.op = "api", !.at = "denied"]
                         ELSE Idle]
  /\ excused' = excused \cup {x \in {b} : \E p \in Under(b) : p[1] = t}
  /\ UNCHANGED <<now, doc, store, minted, twins, revoked, revived, fresh,
                 late>>

Handler(t) ==
  \/ FindUser(t) \/ IssueTokens(t)
  \/ CheckRefresh(t) \/ Rotate(t) \/ RotateConflict(t)
  \/ PullToken(t)
  \/ CheckPassword(t) \/ SavePassword(t) \/ PasswordConflict(t)
Client(t) ==
  \/ Login(t) \/ Logout(t) \/ ChangePassword(t) \/ ResetPassword(t)
  \/ Denied(t) \/ GiveUp(t) \/ DoRefresh(t)
  \/ Refreshed(t) \/ LoggedOut(t) \/ Receive(t) \/ Bootstrap(t)

Next ==
  \/ Tick
  \/ \E t \in Tabs : Handler(t) \/ Client(t)
  \/ \E p \in Slots : Lose(p)

Spec == Init /\ [][Next]_vars

-----------------------------------------------------------------------------
(* Properties.                                                             *)

Seconds == 0 .. MaxTime

TypeOK ==
  /\ now \in 1 .. MaxTime
  /\ doc \in [tokens : SUBSET Seconds, version : Nat, password : Nat,
             floor : Seconds]
  /\ store \in [Browsers -> [access : Seconds, refresh : Seconds]]
  /\ status \in [Tabs -> {"guest", "loading", "authed"}]
  /\ req \in [Slots ->
       [op : {"none", "api", "login", "refresh", "logout", "change", "reset"},
        at : {"idle", "denied", "waiting", "sent", "saving", "answered",
              "refused", "failed"},
        access : Seconds, token : Seconds, seen : SUBSET Seconds,
        version : Nat, password : Nat, since : Seconds, new : Seconds]]
  /\ \A x \in {minted, twins, revoked, revived, fresh, late} :
       x \subseteq Seconds
  /\ excused \subseteq Browsers /\ events \in 0 .. MaxEvents

\* A refresh token that was rotated, logged out or revoked with the password
\* never counts again, although three handlers write the array they have
\* read and logins push to it meanwhile: only a logout's $pull can be undone,
\* by a handler that had read the token, and a token minted twice in a second
\* lives as long as the last of the two.
RevokedStaysRevoked == revoked \cap doc.tokens \subseteq twins \cup revived

\* After a change of the password only the caller's session, and after a reset
\* none, is left of those from before (auth.controller.js:371, :552), unless a
\* login was under way when the password was saved, the array was not written
\* because it held nothing else, or a refresh in flight undid a logout.
SessionsOfThisPassword == doc.tokens \subseteq fresh \cup late \cup revived

\* The refresh token a browser holds is one the server accepts, so that the
\* next refresh goes well, whatever other browsers do short of changing the
\* password: between requests, unless two of the browser's requests
\* overlapped, an answer was lost, or the second was shared.  One in which
\* nobody is signed in holds none: the next one at the machine finds a login
\* screen that stays one.
ClientHoldsLiveToken ==
  \A b \in Browsers \ excused : Under(b) = {} =>
    /\ store[b].refresh \in doc.tokens \cup twins \cup {0}
    /\ (\A t \in Tabs : BrowserOf[t] = b => status[t] = "guest" /\ Free(t))
         => store[b] = None
=============================================================================
