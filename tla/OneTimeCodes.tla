----------------------------- MODULE OneTimeCodes -----------------------------
(***************************************************************************)
(* Registration and password reset of one e-mail address: the handlers of  *)
(* auth.controller.js that issue and check mailed codes, and the screens   *)
(* that drive them (Register, Verify, Login, Forgot, Reset).               *)
(*                                                                         *)
(* A handler reads the User document in one step, saves it in a later one  *)
(* and mails in a third; the clients' requests interleave.  Save writes    *)
(* the paths that were assigned: emailVerification and passwordReset as a  *)
(* whole where the code assigns them as a whole, else a single leaf.       *)
(* Codes are numbered as they are made, and 0 is none; a hash stands for   *)
(* its code.  A client's password is its name.                             *)
(***************************************************************************)
EXTENDS Naturals, FiniteSets

CONSTANTS Clients,
          MaxAttempts,  \* MAX_OTP_ATTEMPTS of both kinds of code
          MaxEvents     \* bound: requests, expiries, lost mails and answers

ASSUME CodesAssumption ==
  IsFiniteSet(Clients) /\ MaxAttempts \in Nat \ {0} /\ MaxEvents \in Nat

VARIABLES
  user,     \* the document of the address
  screen,   \* where each client is
  held,     \* the ticket or link token of its Reset screen
  job,      \* its request
  mails,    \* codes and links that were mailed
  last,     \* the last number given to a code, link or ticket
  tries,    \* wrong codes tried on each code or attempt (history)
  resets,   \* passwords set by each reset attempt (history)
  attempt,  \* the attempt of each link and ticket (history)
  raced,    \* codes and attempts two requests were about at once (history)
  reclaims, \* a register read the account before it was verified (history)
  events

history == <<tries, resets, attempt, raced, reclaims>>
vars == <<user, screen, held, job, mails, last, history, events>>

NoCode == [code |-> 0, live |-> FALSE, attempts |-> 0]
NoReset == [code |-> 0, link |-> 0, ticket |-> 0, live |-> FALSE,
            attempts |-> 0]
NoUser == [exists |-> FALSE, verified |-> FALSE, social |-> FALSE,
           password |-> "none", ev |-> NoCode, pr |-> NoReset]
Idle == [op |-> "none", at |-> "idle", code |-> 0, read |-> NoUser]

Ids == 0 .. 2 * MaxEvents

Init ==
  /\ user = NoUser
  /\ screen = [c \in Clients |-> "login"]
  /\ held = [c \in Clients |-> 0]
  /\ job = [c \in Clients |-> Idle]
  /\ mails = {} /\ last = 0
  /\ tries = [i \in Ids |-> 0] /\ resets = [i \in Ids |-> 0]
  /\ attempt = [i \in Ids |-> 0] /\ raced = {} /\ reclaims = FALSE
  /\ events = 0

-----------------------------------------------------------------------------
Event == events < MaxEvents /\ events' = events + 1

Code(u) == u.ev.code
Attempt(u) == u.pr.link

\* The code and the attempt a request is about, from when it has read them.
About(c) == {Code(job[c].read), Attempt(job[c].read)} \ {0}
Busy == {c \in Clients : job[c].at \in {"save", "mail"}}

At(c, op, at) == job[c].op = op /\ job[c].at = at
Go(c, at) == job' = [job EXCEPT ![c].at = at]

\* The mail has the code that this request made.
GoMail(c) == job' = [job EXCEPT ![c].at = "mail", ![c].code = last + 1]

\* A button is disabled while its request is under way.
Submit(c, from, op, code) ==
  /\ Event
  /\ screen[c] = from /\ job[c].at = "idle"
  /\ job' = [job EXCEPT ![c] = [Idle EXCEPT !.op = op, !.at = "sent",
                                           !.code = code]]
  /\ UNCHANGED <<user, screen, held, mails, last, history>>

\* findOne has found the document and the handler goes on.
Load(c) ==
  /\ job' = [job EXCEPT ![c].at = "save", ![c].read = user]
  /\ raced' = raced \cup
       ({Code(user), Attempt(user)} \cap UNION {About(d) : d \in Busy})
Refuse(c) == Go(c, "refused") /\ UNCHANGED raced

\* A save is about what is there now too.
Overlap(c) ==
  raced' = IF Busy \ {c} # {} \/ Code(user) # Code(job[c].read)
              \/ Attempt(user) # Attempt(job[c].read)
           THEN raced \cup About(c) \cup ({Code(user), Attempt(user)} \ {0})
           ELSE raced

\* issueVerificationOtp: a code that replaces the one before, with no tries.
NewCode == [code |-> last + 1, live |-> TRUE, attempts |-> 0]

-----------------------------------------------------------------------------
(* register.                                                               *)

Register(c) == Submit(c, "register", "register", 0)

\* Mutation: any account of the address is reclaimed.
FindAnyByEmail(c) ==
  /\ At(c, "register", "sent")
  /\ Load(c) \/ Refuse(c)
  /\ UNCHANGED <<user, screen, held, mails, last, tries, resets, attempt,
                 reclaims, events>>

\* A verified account is a conflict; one that is not is reclaimed.  The
\* username may belong to another address.
FindByEmail(c) ==
  /\ At(c, "register", "sent")
  /\ IF user.exists /\ user.verified THEN Refuse(c)
     ELSE Load(c) \/ Refuse(c)
  /\ UNCHANGED <<user, screen, held, mails, last, tries, resets, attempt,
                 reclaims, events>>

\* isEmailVerified = false is no change of a document that was read so, and
\* is not written.  Another register may have created the document.
SaveRegistration(c) ==
  /\ At(c, "register", "save")
  /\ IF ~ job[c].read.exists /\ user.exists
     THEN Go(c, "failed") /\ UNCHANGED <<user, last, raced, reclaims>>
     ELSE /\ user' = [user EXCEPT
               !.exists = TRUE, !.password = c, !.ev = NewCode, !.pr = NoReset]
          /\ last' = last + 1
          /\ reclaims' = \/ reclaims
                         \/ user.verified /\ ~ job[c].read.verified
          /\ Overlap(c) /\ GoMail(c)
  /\ UNCHANGED <<screen, held, mails, tries, resets, attempt, events>>

\* The mail goes out, or the service fails and so does the request.
SendVerificationEmail(c) ==
  /\ job[c].op \in {"register", "login", "resend"} /\ job[c].at = "mail"
  /\ \/ mails' = mails \cup {job[c].code}
        /\ Go(c, IF job[c].op = "login" THEN "verify" ELSE "ok")
        /\ UNCHANGED events
     \/ Event /\ Go(c, "failed") /\ UNCHANGED mails
  /\ UNCHANGED <<user, screen, held, last, history>>

-----------------------------------------------------------------------------
(* resendVerification, and login: an account that is not verified is sent  *)
(* a new code.                                                             *)

Resend(c) == Submit(c, "verify", "resend", 0)
Login(c) == Submit(c, "login", "login", 0)

FindToResend(c) ==
  /\ At(c, "resend", "sent")
  /\ IF user.exists /\ ~ user.verified THEN Load(c)
     ELSE Go(c, "ok") /\ UNCHANGED raced
  /\ UNCHANGED <<user, screen, held, mails, last, tries, resets, attempt,
                 reclaims, events>>

FindToLogin(c) ==
  /\ At(c, "login", "sent")
  /\ IF user.exists /\ user.password = c
     THEN IF user.verified THEN Go(c, "ok") /\ UNCHANGED raced ELSE Load(c)
     ELSE Refuse(c)
  /\ UNCHANGED <<user, screen, held, mails, last, tries, resets, attempt,
                 reclaims, events>>

SaveNewCode(c) ==
  /\ job[c].op \in {"resend", "login"} /\ job[c].at = "save"
  /\ user' = [user EXCEPT !.ev = NewCode]
  /\ last' = last + 1
  /\ Overlap(c) /\ GoMail(c)
  /\ UNCHANGED <<screen, held, mails, tries, resets, attempt, reclaims,
                 events>>

-----------------------------------------------------------------------------
(* firebaseAuth: by the provider's id, else by e-mail, else a new account  *)
(* that is verified by default.                                            *)

SocialLogin(c) ==
  /\ Event
  /\ screen[c] \in {"login", "register"} /\ job[c].at = "idle"
  /\ user' = IF user.exists THEN [user EXCEPT !.social = TRUE]
             ELSE [NoUser EXCEPT !.exists = TRUE, !.verified = TRUE,
                                 !.social = TRUE]
  /\ screen' = [screen EXCEPT ![c] = "app"]
  /\ UNCHANGED <<held, job, mails, last, history>>

-----------------------------------------------------------------------------
(* verifyEmail.                                                            *)

VerifyEmail(c, code) == Submit(c, "verify", "verifyEmail", code)

\* Mutation: the last attempt is one too many.
FindCodeOffByOne(c) ==
  /\ At(c, "verifyEmail", "sent")
  /\ IF user.ev.code # 0 /\ user.ev.live /\ user.ev.attempts <= MaxAttempts
     THEN Load(c) ELSE Refuse(c)
  /\ UNCHANGED <<user, screen, held, mails, last, tries, resets, attempt,
                 reclaims, events>>

\* There is a code that may still be tried.
FindCode(c) ==
  /\ At(c, "verifyEmail", "sent")
  /\ IF user.ev.code # 0 /\ user.ev.live /\ user.ev.attempts < MaxAttempts
     THEN Load(c) ELSE Refuse(c)
  /\ UNCHANGED <<user, screen, held, mails, last, tries, resets, attempt,
                 reclaims, events>>

\* Wrong: the attempts that were read and one more.  Right: verified, and the
\* code is spent.
SaveVerified(c) ==
  LET right == job[c].code = Code(job[c].read) IN
  /\ At(c, "verifyEmail", "save")
  /\ user' = IF right THEN [user EXCEPT !.verified = TRUE, !.ev = NoCode]
             ELSE [user EXCEPT !.ev.attempts = job[c].read.ev.attempts + 1]
  /\ tries' = IF right THEN tries
              ELSE [tries EXCEPT ![Code(job[c].read)] = @ + 1]
  /\ Overlap(c) /\ Go(c, IF right THEN "ok" ELSE "refused")
  /\ UNCHANGED <<screen, held, mails, last, resets, attempt, reclaims, events>>

-----------------------------------------------------------------------------
(* forgotPassword, verifyOtp, resetPassword.                               *)

Forgot(c) == Submit(c, "forgot", "forgot", 0)

FindToForgot(c) ==
  /\ At(c, "forgot", "sent")
  /\ IF user.exists THEN Load(c) ELSE Go(c, "ok") /\ UNCHANGED raced
  /\ UNCHANGED <<user, screen, held, mails, last, tries, resets, attempt,
                 reclaims, events>>

SaveForgot(c) ==
  /\ At(c, "forgot", "save")
  /\ user' = [user EXCEPT !.pr = [code |-> last + 1, link |-> last + 2,
                                  ticket |-> 0, live |-> TRUE, attempts |-> 0]]
  /\ attempt' = [attempt EXCEPT ![last + 2] = last + 2]
  /\ last' = last + 2
  /\ Overlap(c) /\ GoMail(c)
  /\ UNCHANGED <<screen, held, mails, tries, resets, reclaims, events>>

\* A mail that fails is not told.
SendPasswordResetEmail(c) ==
  /\ At(c, "forgot", "mail") /\ Go(c, "ok")
  /\ \/ mails' = mails \cup {job[c].code, job[c].code + 1} /\ UNCHANGED events
     \/ Event /\ UNCHANGED mails
  /\ UNCHANGED <<user, screen, held, last, history>>

VerifyOtp(c, code) == Submit(c, "resetOtp", "verifyOtp", code)

FindOtp(c) ==
  /\ At(c, "verifyOtp", "sent")
  /\ IF user.pr.code # 0 /\ user.pr.live THEN Load(c) ELSE Refuse(c)
  /\ UNCHANGED <<user, screen, held, mails, last, tries, resets, attempt,
                 reclaims, events>>

Capped(c) == job[c].read.pr.attempts >= MaxAttempts
RightOtp(c) == ~ Capped(c) /\ job[c].code = job[c].read.pr.code

\* The cap ends the attempt.
SaveCapped(c) ==
  /\ At(c, "verifyOtp", "save") /\ Capped(c)
  /\ user' = [user EXCEPT !.pr = NoReset]
  /\ Overlap(c) /\ Go(c, "refused")
  /\ UNCHANGED <<screen, held, mails, last, tries, resets, attempt, reclaims,
                 events>>

\* Mutation: a wrong code is answered and not counted.
SaveWrongUncounted(c) ==
  /\ At(c, "verifyOtp", "save") /\ ~ Capped(c) /\ ~ RightOtp(c)
  /\ tries' = [tries EXCEPT ![Attempt(job[c].read)] = @ + 1]
  /\ Overlap(c) /\ Go(c, "refused")
  /\ UNCHANGED <<user, screen, held, mails, last, resets, attempt, reclaims,
                 events>>

SaveWrongOtp(c) ==
  /\ At(c, "verifyOtp", "save") /\ ~ Capped(c) /\ ~ RightOtp(c)
  /\ user' = [user EXCEPT !.pr.attempts = job[c].read.pr.attempts + 1]
  /\ tries' = [tries EXCEPT ![Attempt(job[c].read)] = @ + 1]
  /\ Overlap(c) /\ Go(c, "refused")
  /\ UNCHANGED <<screen, held, mails, last, resets, attempt, reclaims, events>>

\* The code is spent and a ticket given: leaves, whatever the rest is now.
SaveTicket(c) ==
  /\ At(c, "verifyOtp", "save") /\ RightOtp(c)
  /\ user' = [user EXCEPT !.pr.ticket = last + 1, !.pr.code = 0,
       !.pr.live = TRUE,
       !.pr.attempts = IF job[c].read.pr.attempts = 0 THEN @ ELSE 0]
  /\ attempt' = [attempt EXCEPT ![last + 1] = Attempt(job[c].read)]
  /\ last' = last + 1
  /\ job' = [job EXCEPT ![c].at = "ok", ![c].code = last + 1]
  /\ Overlap(c)
  /\ UNCHANGED <<screen, held, mails, tries, resets, reclaims, events>>

ResetPassword(c) == Submit(c, "resetPassword", "reset", held[c])

FindToken(c) ==
  /\ At(c, "reset", "sent")
  /\ IF user.pr.live /\ job[c].code \in {user.pr.ticket, user.pr.link} \ {0}
     THEN Load(c) ELSE Refuse(c)
  /\ UNCHANGED <<user, screen, held, mails, last, tries, resets, attempt,
                 reclaims, events>>

\* Mutation: the ticket is spent and the link is not.
SpentTicket(pr) == [pr EXCEPT !.ticket = 0]

\* clearPasswordReset.
Spent(pr) == NoReset

SavePassword(c) ==
  /\ At(c, "reset", "save")
  /\ user' = [user EXCEPT !.password = c, !.pr = Spent(@)]
  /\ resets' = [resets EXCEPT ![attempt[job[c].code]] = @ + 1]
  /\ Overlap(c) /\ Go(c, "ok")
  /\ UNCHANGED <<screen, held, mails, last, tries, attempt, reclaims, events>>

-----------------------------------------------------------------------------
(* The screens.                                                            *)

\* Where an answer leads.
After(c) ==
  CASE job[c].at = "verify" -> "verify"
    [] job[c].op = "register" -> "verify"
    [] job[c].op \in {"login", "verifyEmail"} -> "app"
    [] job[c].op = "forgot" -> "resetOtp"
    [] job[c].op = "verifyOtp" -> "resetPassword"
    [] job[c].op = "reset" -> "login"
    [] OTHER -> screen[c]

Answered(c) ==
  /\ job[c].at \in {"ok", "verify", "refused", "failed"}
  /\ IF job[c].at \in {"ok", "verify"}
     THEN /\ screen' = [screen EXCEPT ![c] = After(c)]
          /\ held' = [held EXCEPT ![c] = IF job[c].op = "verifyOtp"
                                        THEN job[c].code ELSE 0]
     ELSE UNCHANGED <<screen, held>>
  /\ job' = [job EXCEPT ![c] = Idle]
  /\ UNCHANGED <<user, mails, last, history, events>>

\* The request was carried out, and the client sees an error.
LoseAnswer(c) ==
  /\ Event
  /\ job[c].at \in {"ok", "verify"}
  /\ job' = [job EXCEPT ![c] = Idle]
  /\ UNCHANGED <<user, screen, held, mails, last, history>>

\* The links between the screens, and the link in the mail.
Navigate(c, to) ==
  /\ job[c].at = "idle"
  /\ <<screen[c], to>> \in {<<"login", "register">>, <<"login", "forgot">>,
       <<"register", "login">>, <<"verify", "login">>, <<"forgot", "login">>,
       <<"resetOtp", "login">>, <<"resetPassword", "login">>}
  /\ screen' = [screen EXCEPT ![c] = to]
  /\ held' = [held EXCEPT ![c] = 0]
  /\ UNCHANGED <<user, job, mails, last, history, events>>

OpenLink(c, link) ==
  /\ job[c].at = "idle" /\ link \in mails /\ attempt[link] = link
  /\ screen' = [screen EXCEPT ![c] = "resetPassword"]
  /\ held' = [held EXCEPT ![c] = link]
  /\ UNCHANGED <<user, job, mails, last, history, events>>

\* Fifteen minutes pass.
Expire ==
  /\ Event
  /\ user.ev.live \/ user.pr.live
  /\ \/ user' = [user EXCEPT !.ev.live = FALSE]
     \/ user' = [user EXCEPT !.pr.live = FALSE]
  /\ UNCHANGED <<screen, held, job, mails, last, history>>

Screens == {"login", "register", "verify", "forgot", "resetOtp",
            "resetPassword", "app"}

\* Any code that was mailed, or one that was not.
Typed == mails \cup {0}

User(c) ==
  \/ Register(c) \/ Resend(c) \/ Login(c) \/ SocialLogin(c) \/ Forgot(c)
  \/ ResetPassword(c)
  \/ \E code \in Typed : VerifyEmail(c, code) \/ VerifyOtp(c, code)
  \/ \E link \in mails : OpenLink(c, link)
  \/ \E to \in Screens : Navigate(c, to)
Handler(c) ==
  \/ FindByEmail(c) \/ SaveRegistration(c) \/ SendVerificationEmail(c)
  \/ FindToResend(c) \/ FindToLogin(c) \/ SaveNewCode(c)
  \/ FindCode(c) \/ SaveVerified(c)
  \/ FindToForgot(c) \/ SaveForgot(c) \/ SendPasswordResetEmail(c)
  \/ FindOtp(c) \/ SaveCapped(c) \/ SaveWrongOtp(c) \/ SaveTicket(c)
  \/ FindToken(c) \/ SavePassword(c)
  \/ Answered(c) \/ LoseAnswer(c)

Next == Expire \/ \E c \in Clients : User(c) \/ Handler(c)

Spec == Init /\ [][Next]_vars

-----------------------------------------------------------------------------
(* Properties.                                                             *)

TypeOK ==
  /\ user \in
       [exists : BOOLEAN, verified : BOOLEAN, social : BOOLEAN,
        password : Clients \cup {"none"},
        ev : [code : Ids, live : BOOLEAN, attempts : 0 .. MaxAttempts],
        pr : [code : Ids, link : Ids, ticket : Ids, live : BOOLEAN,
              attempts : 0 .. MaxAttempts]]
  /\ screen \in [Clients -> Screens] /\ held \in [Clients -> Ids]
  /\ mails \subseteq Ids /\ last \in Ids
  /\ raced \subseteq Ids /\ reclaims \in BOOLEAN

\* However often codes are asked for, at most MaxAttempts wrong ones are tried
\* on one code, unless two requests about it overlapped: both read the same
\* counter then and count as one.
WrongCodesAreCounted ==
  \A i \in Ids \ raced : tries[i] <= MaxAttempts

\* One forgotten password is one new password: the link and the ticket of an
\* attempt set at most one between them (auth.controller.js:551), unless two
\* requests about the attempt overlapped.
OneResetPerAttempt ==
  \A i \in Ids \ raced : resets[i] <= 1

\* The password of a verified account changes by a reset only, unless a
\* registration had read the account before it was verified.
VerifiedKeepsPassword ==
  [][user.verified /\ user'.password # user.password =>
       resets' # resets \/ reclaims']_vars
=============================================================================
