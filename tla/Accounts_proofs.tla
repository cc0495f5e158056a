---------------------------- MODULE Accounts_proofs ---------------------------
(***************************************************************************)
(* The two guards of an account's secrets.                                 *)
(*                                                                         *)
(* OneTimeCodes, for any clients, any number of attempts and requests: the *)
(* tries that are counted, the one reset of an attempt, and the password   *)
(* of a verified account.                                                  *)
(*                                                                         *)
(* AuthBackoff, for any identities, requests, budget, delays, clock and    *)
(* number of attempts: penalties and their recovery.  A check that has     *)
(* counted and is not over yet (Counted) keeps its identity's counter      *)
(* above zero, unless the identity is crossed.  From there: a check about  *)
(* to set the first expiry runs while there is no block (BeforeBlock), one *)
(* about to prolong it has set the block that stands, and what it prolongs *)
(* it by reaches as far (OwnBlock).                                        *)
(***************************************************************************)
EXTENDS OneTimeCodes, AuthBackoff, FiniteSetTheorems, TLAPS

(***************************************************************************)
(* OneTimeCodes.                                                           *)
(***************************************************************************)
EvCode == [code : Ids, live : BOOLEAN, attempts : 0 .. MaxAttempts]
Reset == [code : Ids, link : Ids, ticket : Ids, live : BOOLEAN,
          attempts : 0 .. MaxAttempts]
Document == [exists : BOOLEAN, verified : BOOLEAN, social : BOOLEAN,
             password : Clients \cup {"none"}, ev : EvCode, pr : Reset]
Ops == {"none", "register", "resend", "login", "verifyEmail", "forgot",
        "verifyOtp", "reset"}
Ats == {"idle", "sent", "save", "mail", "ok", "verify", "refused", "failed"}
Job == [op : Ops, at : Ats, code : Ids, read : Document]

Types ==
  /\ user \in Document
  /\ screen \in [Clients -> Screens] /\ held \in [Clients -> Ids]
  /\ job \in [Clients -> Job]
  /\ mails \subseteq Ids /\ last \in Ids /\ raced \subseteq Ids
  /\ tries \in [Ids -> Nat] /\ resets \in [Ids -> Nat]
  /\ attempt \in [Ids -> Ids] /\ reclaims \in BOOLEAN
  /\ events \in 0 .. MaxEvents

\* A request that has not saved may still take two numbers.
Pending == {c \in Clients : job[c].at \in {"sent", "save"}}
Budget == last + 2 * Cardinality(Pending) <= 2 * events

\* Numbers not given out have no history.
Fresh ==
  \A i \in Ids :
    /\ attempt[i] <= last
    /\ i > last => tries[i] = 0 /\ resets[i] = 0 /\ attempt[i] = 0

\* A code no two requests raced for has counted every wrong try.
EvSound(ev) ==
  /\ ev.code \in 0 .. last
  /\ ev.code # 0 => attempt[ev.code] = 0
  /\ ev.code \notin raced \cup {0} => tries[ev.code] <= ev.attempts

\* Likewise an attempt, which has set no password; a ticket belongs to the
\* attempt whose link is beside it, or was raced for.
PrSound(pr) ==
  /\ pr.link \in 0 .. last /\ pr.ticket \in 0 .. last
  /\ pr.code # 0 => pr.link # 0
  /\ pr.link # 0 => attempt[pr.link] = pr.link
  /\ pr.ticket # 0 =>
       /\ attempt[pr.ticket] # 0
       /\ attempt[pr.ticket] \in raced \cup {pr.link}
  /\ pr.link \notin raced \cup {0} =>
       /\ resets[pr.link] = 0
       /\ pr.code # 0 => tries[pr.link] <= pr.attempts

\* Before there is an account it has neither.
Known(u) == \/ u.exists
            \/ /\ ~ u.verified /\ u.ev.code = 0 /\ u.pr.code = 0
               /\ u.pr.link = 0 /\ u.pr.ticket = 0

Sound(u) == EvSound(u.ev) /\ PrSound(u.pr) /\ Known(u)

\* What a handler about to save knows of the document it has read.
Reads(c) ==
  /\ job[c].at = "save" =>
       /\ Sound(job[c].read)
       /\ job[c].op # "register" => user.exists
       /\ job[c].op = "register" => ~ job[c].read.verified
       /\ job[c].op = "verifyEmail" =>
            job[c].read.ev.code # 0 /\ job[c].read.ev.attempts < MaxAttempts
       /\ job[c].op = "verifyOtp" => job[c].read.pr.code # 0
       /\ job[c].op = "reset" =>
            job[c].code \in {job[c].read.pr.ticket, job[c].read.pr.link} \ {0}
  /\ job[c].at = "mail" /\ job[c].op = "forgot" => job[c].code + 1 \in Ids

Bounded == WrongCodesAreCounted /\ OneResetPerAttempt

Inv == /\ Types /\ Budget /\ Fresh /\ Bounded /\ Sound(user)
       /\ \A c \in Clients : Reads(c)

LEMMA IdType == 0 \in Ids /\ Ids \subseteq Nat
BY CodesAssumption DEF Ids

LEMMA NothingType ==
  /\ NoCode \in EvCode /\ NoReset \in Reset /\ NoUser \in Document
  /\ Idle \in Job /\ Idle.at = "idle"
BY CodesAssumption, IdType
   DEF NoCode, NoReset, NoUser, Idle, EvCode, Reset, Document, Job, Ops, Ats

LEMMA TypesOK == Types => TypeOK
BY DEF Types, TypeOK, Document, EvCode, Reset

LEMMA InitInv == Init => Inv
<1> SUFFICES ASSUME Init PROVE Inv
  OBVIOUS
<1>1. Types
  <2>1. /\ tries \in [Ids -> Nat] /\ resets \in [Ids -> Nat]
        /\ attempt \in [Ids -> Ids] /\ held \in [Clients -> Ids]
    BY IdType DEF Init
  <2>2. job \in [Clients -> Job] /\ screen \in [Clients -> Screens]
    BY NothingType DEF Init, Screens
  <2>3. events \in 0 .. MaxEvents BY CodesAssumption DEF Init
  <2> QED BY <2>1, <2>2, <2>3, NothingType, IdType DEF Init, Types
<1>2. Pending = {} BY DEF Init, Pending, Idle
<1>3. Budget BY <1>2, FS_EmptySet, CodesAssumption DEF Init, Budget
<1>4. Fresh /\ Bounded
  BY CodesAssumption, IdType
     DEF Init, Fresh, Bounded, WrongCodesAreCounted, OneResetPerAttempt
<1>5. Sound(user)
  BY DEF Init, Sound, EvSound, PrSound, Known, NoUser, NoCode, NoReset
<1>6. \A c \in Clients : Reads(c) BY DEF Init, Reads, Idle
<1> QED BY <1>1, <1>3, <1>4, <1>5, <1>6 DEF Inv

-----------------------------------------------------------------------------
(* Pending requests.                                                       *)

LEMMA PendingFinite ==
  IsFiniteSet(Pending) /\ Cardinality(Pending) \in Nat
BY CodesAssumption, FS_Subset, FS_CardinalityType DEF Pending

\* Without a new request there are no more pending ones, and one fewer when
\* one is saved.
LEMMA PendingShrinks ==
  ASSUME NEW c \in Clients,
         \A d \in Clients \ {c} : job'[d].at = job[d].at
  PROVE  /\ job'[c].at \notin {"sent", "save"} =>
              Cardinality(Pending') <= Cardinality(Pending)
         /\ job[c].at = "save" =>
              Cardinality(Pending) >= 1
         /\ job[c].at = "save" /\ job'[c].at \notin {"sent", "save"} =>
              Cardinality(Pending') = Cardinality(Pending) - 1
         /\ job[c].at = "sent" /\ job'[c].at \in {"sent", "save"} =>
              Cardinality(Pending') = Cardinality(Pending)
         /\ Cardinality(Pending') <= Cardinality(Pending) + 1
<1>1. IsFiniteSet(Pending) /\ Cardinality(Pending) \in Nat
  BY PendingFinite
<1>2. /\ Cardinality(Pending \ {c}) =
           IF c \in Pending THEN Cardinality(Pending) - 1
           ELSE Cardinality(Pending)
      /\ Cardinality(Pending \cup {c}) =
           IF c \in Pending THEN Cardinality(Pending)
           ELSE Cardinality(Pending) + 1
      /\ IsFiniteSet(Pending \ {c})
  BY <1>1, FS_RemoveElement, FS_AddElement
<1>3. c \in Pending => Cardinality(Pending) >= 1
  <2>1. ASSUME c \in Pending PROVE Cardinality(Pending) # 0
    BY <1>1, <2>1, FS_EmptySet
  <2> QED BY <1>1, <2>1
<1>4. Pending' = IF job'[c].at \in {"sent", "save"} THEN Pending \cup {c}
                 ELSE Pending \ {c}
  BY DEF Pending
<1>5. job[c].at \in {"sent", "save"} => c \in Pending BY DEF Pending
<1> HIDE DEF Pending
<1> QED BY <1>1, <1>2, <1>3, <1>4, <1>5

-----------------------------------------------------------------------------
(* What was sound stays so when only raced numbers and new ones change.    *)

Kept == /\ raced \subseteq raced' /\ last' \in Ids /\ last <= last'
        /\ \A i \in 0 .. last : attempt'[i] = attempt[i]
        /\ \A i \in (0 .. last) \ raced' :
             tries'[i] = tries[i] /\ resets'[i] = resets[i]

LEMMA EvKept ==
  ASSUME Types, Kept, NEW ev \in EvCode, EvSound(ev) PROVE EvSound(ev)'
BY IdType DEF Types, Kept, EvSound

LEMMA PrKept ==
  ASSUME Types, Kept, NEW pr \in Reset, PrSound(pr) PROVE PrSound(pr)'
<1>1. last \in Nat /\ last' \in Nat BY IdType DEF Types, Kept
<1>2. 0 .. last \subseteq 0 .. last' BY <1>1 DEF Kept
<1>3. pr.link \in 0 .. last /\ pr.ticket \in 0 .. last BY DEF PrSound
<1>4. /\ attempt'[pr.link] = attempt[pr.link]
      /\ attempt'[pr.ticket] = attempt[pr.ticket]
      /\ pr.link \notin raced' =>
           /\ pr.link \notin raced
           /\ tries'[pr.link] = tries[pr.link]
           /\ resets'[pr.link] = resets[pr.link]
      /\ raced \subseteq raced'
  BY <1>3 DEF Kept
<1> QED BY <1>2, <1>3, <1>4 DEF PrSound

LEMMA SoundKept ==
  ASSUME Types, Kept, NEW u \in Document, Sound(u) PROVE Sound(u)'
<1>1. u.ev \in EvCode /\ u.pr \in Reset BY DEF Document
<1>2. PICK ev \in EvCode : ev = u.ev BY <1>1
<1>3. PICK pr \in Reset : pr = u.pr BY <1>1
<1>4. EvSound(ev)' BY <1>2, EvKept DEF Sound
<1>5. PrSound(pr)' BY <1>3, PrKept DEF Sound
<1> QED BY <1>2, <1>3, <1>4, <1>5 DEF Sound, Known

\* A handler that does not move keeps what it knows.
LEMMA ReadsKept ==
  ASSUME Inv, Kept, NEW d \in Clients, job'[d] = job[d],
         user.exists => user'.exists
  PROVE  Reads(d)'
<1>1. PICK j \in Job : j = job[d] BY DEF Inv, Types
<1>2. PICK u \in Document : u = j.read BY DEF Job
<1>3. Reads(d) BY DEF Inv
<1>4. j.at = "save" => Sound(u)'
  BY <1>1, <1>2, <1>3, SoundKept DEF Inv, Reads
<1>5. job'[d].read = u BY <1>1, <1>2
<1>6. job'[d].at = "save" => Sound(job[d].read)'
  BY <1>1, <1>4, <1>5 DEF Sound, EvSound, PrSound, Known
<1> QED BY <1>3, <1>6 DEF Reads

\* The steps of one client.
LEMMA OneStep ==
  ASSUME Inv, Kept, NEW c \in Clients, Types', Budget', Fresh', Bounded',
         \A d \in Clients \ {c} : job'[d] = job[d],
         user.exists => user'.exists, Sound(user)', Reads(c)'
  PROVE  Inv'
<1>1. \A d \in Clients \ {c} : Reads(d)' BY ReadsKept
<1> QED BY <1>1 DEF Inv

\* Those that save nothing.
Quietly ==
  /\ user' = user /\ last' = last /\ tries' = tries /\ resets' = resets
  /\ attempt' = attempt /\ reclaims' = reclaims
  /\ raced \subseteq raced' /\ raced' \subseteq Ids
  /\ screen' \in [Clients -> Screens] /\ held' \in [Clients -> Ids]
  /\ mails' \subseteq Ids /\ events' \in 0 .. MaxEvents

LEMMA QuietKeeps ==
  ASSUME Inv, Quietly
  PROVE  Kept /\ Sound(user)' /\ Fresh' /\ Bounded'
<1>1. Kept BY IdType DEF Inv, Types, Quietly, Kept
<1>2. PICK u \in Document : u = user BY DEF Inv, Types
<1>3. Sound(u)' BY <1>1, <1>2, SoundKept DEF Inv
<1>4. user' = u BY <1>2 DEF Quietly
<1>5. Sound(user)' BY <1>3, <1>4 DEF Sound, EvSound, PrSound, Known
<1>6. Fresh' BY DEF Inv, Fresh, Quietly
<1>7. Bounded'
  BY DEF Inv, Bounded, WrongCodesAreCounted, OneResetPerAttempt, Quietly
<1> QED BY <1>1, <1>5, <1>6, <1>7

LEMMA QuietStep ==
  ASSUME Inv, Quietly, NEW c \in Clients, NEW j \in Job,
         job' = [job EXCEPT ![c] = j], Reads(c)',
         \/ events' >= events /\ j.at \notin {"sent", "save"}
         \/ events' >= events /\ j.at = "save" /\ job[c].at = "sent"
         \/ events' = events + 1
  PROVE  Inv'
<1>t. Types BY DEF Inv
<1>0. job'[c] = j /\ \A d \in Clients \ {c} : job'[d] = job[d]
  BY <1>t DEF Types
<1>1. Types' BY <1>t DEF Types, Quietly
<1>2. last \in Nat /\ events \in Nat /\ events' \in Nat
  BY <1>t, <1>1, IdType, CodesAssumption DEF Types
<1>3. Cardinality(Pending) \in Nat BY PendingFinite
<1>4. Cardinality(Pending') \in Nat
  <2>1. IsFiniteSet(Pending')
    BY CodesAssumption, FS_Subset DEF Pending
  <2> QED BY <2>1, FS_CardinalityType
<1>5. /\ j.at \notin {"sent", "save"}
           => Cardinality(Pending') <= Cardinality(Pending)
      /\ j.at = "save" /\ job[c].at = "sent"
           => Cardinality(Pending') = Cardinality(Pending)
      /\ Cardinality(Pending') <= Cardinality(Pending) + 1
  BY <1>0, PendingShrinks
<1>6. Budget'
  BY <1>2, <1>3, <1>4, <1>5 DEF Budget, Quietly, Inv
<1> QED BY <1>0, <1>1, <1>6, QuietKeeps, OneStep DEF Quietly

\* A new request, the read of a handler, and its refusal.
LEMMA SubmitStep ==
  ASSUME Inv, NEW c \in Clients, NEW from, NEW op \in Ops, NEW code \in Ids,
         Submit(c, from, op, code)
  PROVE  Inv'
<1> DEFINE j == [Idle EXCEPT !.op = op, !.at = "sent", !.code = code]
<1>1. j \in Job /\ j.at = "sent" BY NothingType DEF Job, Ats, Idle
<1>2. job' = [job EXCEPT ![c] = j] /\ Event BY DEF Submit
<1>3. Quietly /\ events' = events + 1
  BY CodesAssumption DEF Submit, Event, Quietly, history, Inv, Types
<1> HIDE DEF j
<1>4. Reads(c)' BY <1>1, <1>2 DEF Reads, Inv, Types
<1> QED BY <1>1, <1>2, <1>3, <1>4, QuietStep

LEMMA LoadStep ==
  ASSUME Inv, NEW c \in Clients, job[c].at = "sent", Load(c),
         UNCHANGED <<user, screen, held, mails, last, tries, resets, attempt,
                     reclaims, events>>,
         job[c].op # "register" => user.exists,
         job[c].op = "register" => ~ user.verified,
         job[c].op = "verifyEmail" =>
            user.ev.code # 0 /\ user.ev.attempts < MaxAttempts,
         job[c].op = "verifyOtp" => user.pr.code # 0,
         job[c].op = "reset" =>
            job[c].code \in {user.pr.ticket, user.pr.link} \ {0}
  PROVE  Inv'
<1>t. Types BY DEF Inv
<1> DEFINE j == [job[c] EXCEPT !.at = "save", !.read = user]
<1>1. /\ j \in Job /\ j.at = "save" /\ j.read = user /\ j.op = job[c].op
      /\ j.code = job[c].code
  BY <1>t DEF Types, Job, Ats
<1>2. job' = [job EXCEPT ![c] = j] BY <1>t DEF Load, Types
<1> HIDE DEF j
<1>3. Quietly
  <2>1. Code(user) \in Ids /\ Attempt(user) \in Ids
    BY <1>t DEF Types, Document, EvCode, Reset, Code, Attempt
  <2> QED BY <1>t, <2>1 DEF Load, Quietly, Types
<1>4. Sound(user)' BY <1>3, QuietKeeps
<1>5. job'[c].read = user' /\ job'[c] = j BY <1>t, <1>1, <1>2 DEF Types
<1>6. Sound(job[c].read)'
  BY <1>4, <1>5 DEF Sound, EvSound, PrSound, Known
<1>7. Reads(c)' BY <1>1, <1>5, <1>6 DEF Reads
<1>8. events' >= events BY <1>t, CodesAssumption DEF Types
<1> QED BY <1>1, <1>2, <1>3, <1>7, <1>8, QuietStep

\* A handler that ends, or sends its mail, without a save.
LEMMA GoStep ==
  ASSUME Inv, NEW c \in Clients, NEW to \in Ats \ {"sent", "save", "mail"},
         Go(c, to), Quietly, events' >= events
  PROVE  Inv'
<1>t. Types BY DEF Inv
<1> DEFINE j == [job[c] EXCEPT !.at = to]
<1>1. j \in Job /\ j.at = to BY <1>t DEF Types, Job
<1>2. job' = [job EXCEPT ![c] = j] BY <1>t DEF Go, Types
<1> HIDE DEF j
<1>3. Reads(c)' BY <1>t, <1>1, <1>2 DEF Reads, Types
<1> QED BY <1>1, <1>2, <1>3, QuietStep

LEMMA RestStep ==
  ASSUME Inv, NEW c \in Clients, job' = [job EXCEPT ![c] = Idle], Quietly,
         events' >= events
  PROVE  Inv'
<1>1. Reads(c)' BY NothingType DEF Reads, Inv, Types
<1> QED BY <1>1, NothingType, QuietStep

\* Nobody's request moves.
LEMMA CalmStep ==
  ASSUME Inv, job' = job, Quietly, events' >= events PROVE Inv'
<1>t. Types BY DEF Inv
<1>1. Types' BY <1>t DEF Types, Quietly
<1>2. Pending' = Pending BY DEF Pending
<1>3. last \in Nat /\ events \in Nat /\ events' \in Nat
  BY <1>t, <1>1, IdType, CodesAssumption DEF Types
<1>4. Cardinality(Pending) \in Nat BY PendingFinite
<1>5. Budget' BY <1>2, <1>3, <1>4 DEF Budget, Quietly, Inv
<1>6. \A d \in Clients : Reads(d)'
  BY QuietKeeps, ReadsKept DEF Quietly
<1> QED BY <1>1, <1>5, <1>6, QuietKeeps DEF Inv

-----------------------------------------------------------------------------
(* The saves.                                                              *)

\* No other request is under way and the document's numbers are those read.
Alone(c) == /\ Code(user) = Code(job[c].read)
            /\ Attempt(user) = Attempt(job[c].read)

LEMMA Overlapped ==
  ASSUME Inv, NEW c \in Clients, Overlap(c)
  PROVE  /\ raced \subseteq raced' /\ raced' \subseteq Ids
         /\ \/ Alone(c)
            \/ /\ {Code(user), Attempt(user)} \subseteq raced' \cup {0}
               /\ About(c) \subseteq raced'
         /\ Busy \subseteq {c} \/ About(c) \subseteq raced'
<1>1. /\ Code(user) \in Ids /\ Attempt(user) \in Ids
      /\ Code(job[c].read) \in Ids /\ Attempt(job[c].read) \in Ids
  BY DEF Inv, Types, Job, Document, EvCode, Reset, Code, Attempt
<1>2. raced \subseteq Ids BY DEF Inv, Types
<1> DEFINE own == About(c)
           theirs == {Code(user), Attempt(user)} \ {0}
           met == \/ Busy \ {c} # {} \/ Code(user) # Code(job[c].read)
                  \/ Attempt(user) # Attempt(job[c].read)
<1>3. own \subseteq Ids /\ theirs \subseteq Ids BY <1>1 DEF About
<1>4. raced' = IF met THEN raced \cup own \cup theirs ELSE raced
  BY DEF Overlap
<1>5. ~ met => Alone(c) /\ Busy \subseteq {c} BY DEF Alone
<1>6. {Code(user), Attempt(user)} \subseteq theirs \cup {0} OBVIOUS
<1> HIDE DEF own, theirs, met
<1>7. /\ raced \subseteq raced' /\ raced' \subseteq Ids
      /\ met => own \subseteq raced' /\ theirs \subseteq raced'
  BY <1>2, <1>3, <1>4
<1>8. CASE met
  <2>1. {Code(user), Attempt(user)} \subseteq raced' \cup {0}
    BY <1>6, <1>7, <1>8
  <2> QED BY <1>7, <1>8, <2>1 DEF own
<1>9. CASE ~ met BY <1>5, <1>7, <1>9
<1> QED BY <1>8, <1>9

\* What every save has in common: the numbers it counts for are its own.
Saving(c, j) ==
  /\ job[c].at = "save" /\ job' = [job EXCEPT ![c] = j]
  /\ j \in Job /\ j.at \notin {"idle", "sent", "save"}
  /\ j.at = "mail" /\ j.op = "forgot" => j.code + 1 \in Ids
  /\ Overlap(c) /\ user' \in Document /\ user'.exists
  /\ last' \in {last, last + 1, last + 2}
  /\ tries' \in [Ids -> Nat] /\ resets' \in [Ids -> Nat]
  /\ attempt' \in [Ids -> Ids] /\ reclaims' \in BOOLEAN
  /\ \A i \in Ids : i <= last => attempt'[i] = attempt[i]
  /\ \A i \in Ids : attempt'[i] <= last' /\ (i > last' => attempt'[i] = 0)
  /\ \A i \in Ids \ (About(c) \cup raced) :
       tries'[i] = tries[i] /\ resets'[i] = resets[i]
  /\ UNCHANGED <<screen, held, mails, events>>

LEMMA SavingRoom ==
  ASSUME Inv, NEW c \in Clients, job[c].at = "save"
  PROVE  /\ last + 1 \in Ids /\ last + 2 \in Ids /\ last \in Nat
         /\ last + 2 <= 2 * events
<1>1. Cardinality(Pending) >= 1
  <2>1. c \in Pending BY DEF Pending
  <2>2. Cardinality(Pending) # 0 BY <2>1, PendingFinite, FS_EmptySet
  <2> QED BY <2>2, PendingFinite
<1>2. last \in Nat /\ events \in Nat /\ events <= MaxEvents
  BY IdType, CodesAssumption DEF Inv, Types
<1>3. Cardinality(Pending) \in Nat BY PendingFinite
<1>4. last + 2 <= 2 * events BY <1>1, <1>2, <1>3 DEF Inv, Budget
<1> QED BY <1>2, <1>4, CodesAssumption DEF Ids

LEMMA SavingKnown ==
  ASSUME Inv, NEW c \in Clients, NEW j, Saving(c, j)
  PROVE  /\ Types' /\ Budget' /\ Reads(c)' /\ last' \in Nat /\ last <= last'
         /\ raced \subseteq raced' /\ last' \in Ids
         /\ \A d \in Clients \ {c} : job'[d] = job[d]
<1>t. Types BY DEF Inv
<1>0. job'[c] = j /\ \A d \in Clients \ {c} : job'[d] = job[d]
  BY <1>t DEF Types, Saving
<1>1. last' \in Ids /\ last \in Nat /\ last' \in Nat /\ last <= last'
  BY <1>t, SavingRoom DEF Saving, Types
<1>2. raced \subseteq raced' /\ raced' \subseteq Ids
  BY Overlapped DEF Saving
<1>3. Types'
  <2>1. job' \in [Clients -> Job] BY <1>t DEF Types, Saving
  <2> QED BY <1>t, <1>1, <1>2, <2>1 DEF Types, Saving
<1>4. Budget'
  <2>1. Cardinality(Pending') = Cardinality(Pending) - 1
    BY <1>0, PendingShrinks DEF Saving
  <2>2. events \in Nat BY <1>t, CodesAssumption DEF Types
  <2>3. Cardinality(Pending) \in Nat BY PendingFinite
  <2> QED BY <1>1, <2>1, <2>2, <2>3 DEF Budget, Inv, Saving
<1>5. Reads(c)' BY <1>0 DEF Reads, Saving
<1> QED BY <1>0, <1>1, <1>2, <1>3, <1>4, <1>5

\* Another request about to save makes the numbers of this one raced.
LEMMA SavingOthers ==
  ASSUME Inv, NEW c \in Clients, NEW j, Saving(c, j),
         NEW d \in Clients \ {c}
  PROVE  Reads(d)'
<1>1. job'[d] = job[d] BY SavingKnown
<1>2. CASE job[d].at # "save"
  BY <1>1, <1>2 DEF Reads, Inv
<1>3. CASE job[d].at = "save"
  <2>1. d \in Busy BY <1>3 DEF Busy
  <2>2. About(c) \subseteq raced' BY <2>1, Overlapped DEF Saving
  <2>3. Kept
    <3>1. last \in Nat /\ last \in Ids BY IdType DEF Inv, Types
    <3>2. \A i \in 0 .. last : i \in Ids /\ i <= last
      BY <3>1, CodesAssumption DEF Ids
    <3>3. /\ raced \subseteq raced' /\ last' \in Ids /\ last <= last'
      BY SavingKnown
    <3>4. \A i \in Ids \ raced' :
            tries'[i] = tries[i] /\ resets'[i] = resets[i]
      BY <2>2, <3>3 DEF Saving
    <3>5. \A i \in 0 .. last : attempt'[i] = attempt[i]
      BY <3>2 DEF Saving
    <3> QED BY <3>2, <3>3, <3>4, <3>5 DEF Kept
  <2> QED BY <1>1, <2>3, ReadsKept DEF Saving
<1> QED BY <1>2, <1>3

LEMMA SavingFresh ==
  ASSUME Inv, NEW c \in Clients, NEW j, Saving(c, j),
         \A i \in Ids : i > last => tries'[i] = 0 /\ resets'[i] = 0
  PROVE  Fresh'
<1>1. last \in Nat /\ last' \in Nat /\ last <= last'
  BY SavingKnown, SavingRoom DEF Saving
<1> QED BY <1>1, IdType DEF Fresh, Saving

\* A save that keeps the histories.
LEMMA PlainBounded ==
  ASSUME Inv, NEW c \in Clients, NEW j, Saving(c, j),
         UNCHANGED <<tries, resets>>
  PROVE  /\ Kept /\ Fresh' /\ Bounded'
<1>1. last \in Nat /\ last \in Ids BY IdType DEF Inv, Types
<1>2. \A i \in 0 .. last : i \in Ids /\ i <= last
  BY <1>1, CodesAssumption DEF Ids
<1>3. Kept
  <2>1. /\ raced \subseteq raced' /\ last' \in Ids /\ last <= last'
    BY SavingKnown
  <2>2. \A i \in 0 .. last : attempt'[i] = attempt[i] BY <1>2 DEF Saving
  <2> QED BY <2>1, <2>2 DEF Kept
<1>4. \A i \in Ids : i > last => tries'[i] = 0 /\ resets'[i] = 0
  BY DEF Inv, Fresh
<1>5. Fresh' BY <1>4, SavingFresh
<1>6. Bounded'
  BY SavingKnown DEF Inv, Bounded, WrongCodesAreCounted, OneResetPerAttempt
<1> QED BY <1>3, <1>5, <1>6

LEMMA SavingStep ==
  ASSUME Inv, NEW c \in Clients, NEW j, Saving(c, j), Fresh', Bounded',
         EvSound(user.ev)', PrSound(user.pr)'
  PROVE  Inv'
<1>1. Sound(user)' BY DEF Sound, Known, Saving
<1> QED BY <1>1, SavingKnown, SavingOthers DEF Inv

\* The parts of the document, kept by a save that writes the other part.
LEMMA EvStays ==
  ASSUME Inv, Kept, user'.ev = user.ev PROVE EvSound(user.ev)'
<1>1. PICK ev \in EvCode : ev = user.ev BY DEF Inv, Types, Document
<1>2. EvSound(ev)' BY <1>1, EvKept DEF Inv, Sound
<1> QED BY <1>1, <1>2 DEF EvSound

LEMMA PrStays ==
  ASSUME Inv, Kept, user'.pr = user.pr PROVE PrSound(user.pr)'
<1>1. PICK pr \in Reset : pr = user.pr BY DEF Inv, Types, Document
<1>2. PrSound(pr)' BY <1>1, PrKept DEF Inv, Sound
<1> QED BY <1>1, <1>2 DEF PrSound

\* A new code, and no reset.
LEMMA NewCodeSound ==
  ASSUME Inv, NEW c \in Clients, NEW j, Saving(c, j), last' = last + 1,
         UNCHANGED <<tries, attempt>>, user'.ev = NewCode
  PROVE  EvSound(user.ev)'
<1>1. last + 1 \in Ids /\ last \in Nat BY SavingRoom DEF Saving
<1>2. tries[last + 1] = 0 /\ attempt[last + 1] = 0
  BY <1>1 DEF Inv, Fresh
<1> QED BY <1>1, <1>2 DEF NewCode, EvSound

LEMMA NoResetSound ==
  ASSUME last' \in Nat, user'.pr = NoReset PROVE PrSound(user.pr)'
BY DEF NoReset, PrSound

LEMMA NoCodeSound ==
  ASSUME last' \in Nat, user'.ev = NoCode PROVE EvSound(user.ev)'
BY DEF NoCode, EvSound

\* A request that goes on to its mail, with the code it has made.
LEMMA MailJob ==
  ASSUME Inv, NEW c \in Clients, job[c].at = "save", GoMail(c)
  PROVE  \E j \in Job : /\ job' = [job EXCEPT ![c] = j] /\ j.at = "mail"
                        /\ j.op = job[c].op /\ j.code = last + 1
<1> DEFINE j == [job[c] EXCEPT !.at = "mail", !.code = last + 1]
<1>1. last + 1 \in Ids BY SavingRoom
<1>2. /\ j \in Job /\ j.at = "mail" /\ j.op = job[c].op
      /\ j.code = last + 1
  BY <1>1 DEF Inv, Types, Job, Ats
<1>3. job' = [job EXCEPT ![c] = j] BY DEF GoMail, Inv, Types
<1> QED BY <1>2, <1>3

LEMMA GoneJob ==
  ASSUME Inv, NEW c \in Clients, NEW to \in {"ok", "refused"}, Go(c, to)
  PROVE  \E j \in Job : /\ job' = [job EXCEPT ![c] = j] /\ j.at = to
                        /\ j.op = job[c].op
<1> DEFINE j == [job[c] EXCEPT !.at = to]
<1>1. j \in Job /\ j.at = to /\ j.op = job[c].op
  BY DEF Inv, Types, Job, Ats
<1>2. job' = [job EXCEPT ![c] = j] BY DEF Go, Inv, Types
<1> QED BY <1>1, <1>2

LEMMA FreshAttempts ==
  ASSUME Inv 
  PROVE  /\ \A i \in Ids : attempt[i] \in Nat /\ attempt[i] <= last
         /\ \A i \in Ids : i > last => attempt[i] = 0
BY IdType DEF Inv, Types, Fresh

LEMMA RegistrationStep ==
  ASSUME Inv, NEW c \in Clients, SaveRegistration(c) PROVE Inv'
<1>t. Types BY DEF Inv
<1>1. CASE ~ job[c].read.exists /\ user.exists
  <2>1. Go(c, "failed") /\ UNCHANGED <<user, last, raced, reclaims, screen,
                              held, mails, tries, resets, attempt, events>>
    BY <1>1 DEF SaveRegistration
  <2>2. Quietly BY <1>t, <2>1 DEF Quietly, Types
  <2>3. events' >= events BY <1>t, <2>1, CodesAssumption DEF Types
  <2> QED BY <2>1, <2>2, <2>3, GoStep DEF Ats
<1>2. CASE ~ (~ job[c].read.exists /\ user.exists)
  <2>1. /\ user' = [user EXCEPT !.exists = TRUE, !.password = c,
                                !.ev = NewCode, !.pr = NoReset]
        /\ last' = last + 1 /\ reclaims' \in BOOLEAN
        /\ Overlap(c) /\ GoMail(c) /\ At(c, "register", "save")
        /\ UNCHANGED <<screen, held, mails, tries, resets, attempt, events>>
    BY <1>t, <1>2 DEF SaveRegistration, Types
  <2>2. job[c].at = "save" /\ job[c].op = "register" BY <2>1 DEF At
  <2>3. PICK j \in Job : /\ job' = [job EXCEPT ![c] = j] /\ j.at = "mail"
                         /\ j.op = "register"
    BY <2>1, <2>2, MailJob
  <2>4. last + 1 \in Ids BY <2>2, SavingRoom
  <2>5. NewCode \in EvCode BY <2>4, CodesAssumption DEF NewCode, EvCode
  <2>6. /\ user' \in Document /\ user'.exists
        /\ user'.ev = NewCode /\ user'.pr = NoReset
    BY <1>t, <2>1, <2>5, NothingType DEF Types, Document
  <2>7. last \in Nat BY <2>2, SavingRoom
  <2>8. Saving(c, j)
    BY <1>t, <2>1, <2>2, <2>3, <2>6, <2>7, FreshAttempts, IdType
       DEF Saving, Types
  <2>9. EvSound(user.ev)' BY <2>1, <2>6, <2>8, NewCodeSound
  <2>10. PrSound(user.pr)' BY <2>1, <2>6, <2>7, NoResetSound
  <2> QED BY <2>1, <2>8, <2>9, <2>10, PlainBounded, SavingStep
<1> QED BY <1>1, <1>2

LEMMA NewCodeStep ==
  ASSUME Inv, NEW c \in Clients, SaveNewCode(c) PROVE Inv'
<1>t. Types BY DEF Inv
<1>1. /\ user' = [user EXCEPT !.ev = NewCode] /\ last' = last + 1
      /\ Overlap(c) /\ GoMail(c)
      /\ job[c].op \in {"resend", "login"} /\ job[c].at = "save"
      /\ UNCHANGED <<screen, held, mails, tries, resets, attempt, reclaims,
                     events>>
  BY DEF SaveNewCode
<1>2. PICK j \in Job : /\ job' = [job EXCEPT ![c] = j] /\ j.at = "mail"
                       /\ j.op # "forgot"
  BY <1>1, MailJob
<1>3. user.exists BY <1>1 DEF Inv, Reads
<1>4. last + 1 \in Ids /\ last \in Nat BY <1>1, SavingRoom
<1>5. NewCode \in EvCode BY <1>4, CodesAssumption DEF NewCode, EvCode
<1>6. /\ user' \in Document /\ user'.exists /\ user'.ev = NewCode
      /\ user'.pr = user.pr
  BY <1>t, <1>1, <1>3, <1>5 DEF Types, Document
<1>7. Saving(c, j)
  BY <1>t, <1>1, <1>2, <1>4, <1>6, FreshAttempts, IdType DEF Saving, Types
<1>8. Kept /\ Fresh' /\ Bounded' BY <1>1, <1>7, PlainBounded
<1>9. EvSound(user.ev)' BY <1>1, <1>6, <1>7, NewCodeSound
<1> QED BY <1>6, <1>7, <1>8, <1>9, PrStays, SavingStep

LEMMA ForgotStep ==
  ASSUME Inv, NEW c \in Clients, SaveForgot(c) PROVE Inv'
<1>t. Types BY DEF Inv
<1> DEFINE pr == [code |-> last + 1, link |-> last + 2, ticket |-> 0,
                  live |-> TRUE, attempts |-> 0]
<1>1. /\ user' = [user EXCEPT !.pr = pr] /\ last' = last + 2
      /\ attempt' = [attempt EXCEPT ![last + 2] = last + 2]
      /\ Overlap(c) /\ GoMail(c) /\ job[c].op = "forgot"
      /\ job[c].at = "save"
      /\ UNCHANGED <<screen, held, mails, tries, resets, reclaims, events>>
  BY DEF SaveForgot, At
<1>4. last + 1 \in Ids /\ last + 2 \in Ids /\ last \in Nat
  BY <1>1, SavingRoom
<1>2. PICK j \in Job : /\ job' = [job EXCEPT ![c] = j] /\ j.at = "mail"
                       /\ j.code + 1 \in Ids
  BY <1>1, <1>4, MailJob
<1>3. user.exists BY <1>1 DEF Inv, Reads
<1>5. /\ pr \in Reset /\ pr.link = last + 2 /\ pr.ticket = 0
      /\ pr.attempts = 0
  BY <1>4, IdType, CodesAssumption DEF Reset
<1> HIDE DEF pr
<1>6. /\ user' \in Document /\ user'.exists /\ user'.ev = user.ev
      /\ user'.pr = pr
  BY <1>t, <1>1, <1>3, <1>5 DEF Types, Document
<1>a. /\ attempt' \in [Ids -> Ids] /\ attempt'[last + 2] = last + 2
      /\ \A i \in Ids : i # last + 2 => attempt'[i] = attempt[i]
  BY <1>t, <1>1, <1>4 DEF Types
<1>b. /\ \A i \in Ids : i <= last => attempt'[i] = attempt[i]
      /\ \A i \in Ids : attempt'[i] <= last' /\ (i > last' => attempt'[i] = 0)
  BY <1>1, <1>4, <1>a, FreshAttempts, IdType
<1>7. Saving(c, j) BY <1>t, <1>1, <1>2, <1>6, <1>a, <1>b DEF Saving, Types
<1>8. Kept /\ Fresh' /\ Bounded' BY <1>1, <1>7, PlainBounded
<1>9. tries[last + 2] = 0 /\ resets[last + 2] = 0
  BY <1>4 DEF Inv, Fresh
<1>10. PrSound(user.pr)' BY <1>1, <1>4, <1>5, <1>6, <1>9, <1>a DEF PrSound
<1> QED BY <1>6, <1>7, <1>8, <1>10, EvStays, SavingStep

LEMMA CappedStep ==
  ASSUME Inv, NEW c \in Clients, SaveCapped(c) PROVE Inv'
<1>t. Types BY DEF Inv
<1>1. /\ user' = [user EXCEPT !.pr = NoReset]
      /\ Overlap(c) /\ Go(c, "refused") /\ job[c].op = "verifyOtp"
      /\ job[c].at = "save"
      /\ UNCHANGED <<screen, held, mails, last, tries, resets, attempt,
                     reclaims, events>>
  BY DEF SaveCapped, At
<1>2. PICK j \in Job : job' = [job EXCEPT ![c] = j] /\ j.at = "refused"
  BY <1>1, GoneJob
<1>3. user.exists BY <1>1 DEF Inv, Reads
<1>4. /\ user' \in Document /\ user'.exists /\ user'.ev = user.ev
      /\ user'.pr = NoReset
  BY <1>t, <1>1, <1>3, NothingType DEF Types, Document
<1>5. last \in Nat BY <1>1, SavingRoom
<1>6. Saving(c, j)
  BY <1>t, <1>1, <1>2, <1>4, <1>5, FreshAttempts DEF Saving, Types
<1>7. Kept /\ Fresh' /\ Bounded' BY <1>1, <1>6, PlainBounded
<1>8. PrSound(user.pr)' BY <1>1, <1>4, <1>5, NoResetSound
<1> QED BY <1>4, <1>6, <1>7, <1>8, EvStays, SavingStep

LEMMA TicketStep ==
  ASSUME Inv, NEW c \in Clients, SaveTicket(c) PROVE Inv'
<1>t. Types BY DEF Inv
<1> DEFINE L == Attempt(job[c].read)
           j == [job[c] EXCEPT !.at = "ok", !.code = last + 1]
<1>1. /\ user' = [user EXCEPT !.pr.ticket = last + 1, !.pr.code = 0,
           !.pr.live = TRUE,
           !.pr.attempts = IF job[c].read.pr.attempts = 0 THEN @ ELSE 0]
      /\ attempt' = [attempt EXCEPT ![last + 1] = L]
      /\ last' = last + 1 /\ job' = [job EXCEPT ![c] = j]
      /\ Overlap(c) /\ job[c].op = "verifyOtp" /\ job[c].at = "save"
      /\ UNCHANGED <<screen, held, mails, tries, resets, reclaims, events>>
  BY <1>t DEF SaveTicket, At, Types
<1>2. last + 1 \in Ids /\ last \in Nat BY <1>1, SavingRoom
<1>3. user.exists /\ Sound(job[c].read) /\ job[c].read.pr.code # 0
  BY <1>1 DEF Inv, Reads
<1>4. /\ user' \in Document /\ user'.exists /\ user'.ev = user.ev
      /\ user'.pr.ticket = last + 1 /\ user'.pr.code = 0
      /\ user'.pr.link = user.pr.link
  <2> DEFINE n == IF job[c].read.pr.attempts = 0 THEN user.pr.attempts ELSE 0
             q == [user.pr EXCEPT !.ticket = last + 1, !.code = 0,
                    !.live = TRUE, !.attempts = n]
  <2>1. user.pr \in Reset BY <1>t DEF Types, Document
  <2>4. n \in 0 .. MaxAttempts BY <2>1, CodesAssumption DEF Reset
  <2>3. user' = [user EXCEPT !.pr = q]
    BY <1>t, <1>1, <2>1 DEF Types, Document, Reset
  <2> HIDE DEF n
  <2>2. /\ q \in Reset /\ q.ticket = last + 1 /\ q.code = 0
        /\ q.link = user.pr.link
    BY <1>2, <2>1, <2>4, IdType DEF Reset
  <2> HIDE DEF q
  <2> QED BY <1>t, <1>3, <2>2, <2>3 DEF Types, Document
<1>5. L \in Ids /\ L # 0 /\ L \in 0 .. last
  BY <1>t, <1>3 DEF Types, Job, Document, Reset, Attempt, Sound, PrSound
<1>6. j \in Job /\ j.at = "ok" BY <1>t, <1>2 DEF Types, Job, Ats
<1>l. L \in About(c) BY <1>5 DEF About
<1> HIDE DEF L, j
<1>a. /\ attempt' \in [Ids -> Ids] /\ attempt'[last + 1] = L
      /\ \A i \in Ids : i # last + 1 => attempt'[i] = attempt[i]
  BY <1>t, <1>1, <1>2, <1>5 DEF Types
<1>b. /\ \A i \in Ids : i <= last => attempt'[i] = attempt[i]
      /\ \A i \in Ids : attempt'[i] <= last' /\ (i > last' => attempt'[i] = 0)
  BY <1>1, <1>2, <1>5, <1>a, FreshAttempts, IdType
<1>7. Saving(c, j) BY <1>t, <1>1, <1>4, <1>6, <1>a, <1>b DEF Saving, Types
<1>8. Kept /\ Fresh' /\ Bounded' BY <1>1, <1>7, PlainBounded
<1>9. L \in raced' \cup {user.pr.link}
  BY <1>1, <1>l, Overlapped DEF Alone, Attempt, L
<1>10. PrSound(user.pr)'
  <2>1. PrSound(user.pr) /\ user.pr.link \in 0 .. last /\ user.pr.link \in Ids
    BY <1>t DEF Inv, Sound, PrSound, Types, Document, Reset
  <2>2. attempt'[user.pr.link] = attempt[user.pr.link]
    BY <1>2, <1>b, <2>1
  <2>3. raced \subseteq raced' BY <1>7, SavingKnown
  <2> QED BY <1>1, <1>2, <1>4, <1>5, <1>9, <1>a, <2>1, <2>2, <2>3 DEF PrSound
<1> QED BY <1>4, <1>7, <1>8, <1>10, EvStays, SavingStep

LEMMA WrongOtpStep ==
  ASSUME Inv, NEW c \in Clients, SaveWrongOtp(c) PROVE Inv'
<1>t. Types BY DEF Inv
<1> DEFINE L == Attempt(job[c].read)
           n == job[c].read.pr.attempts
<1>1. /\ user' = [user EXCEPT !.pr.attempts = n + 1]
      /\ tries' = [tries EXCEPT ![L] = @ + 1]
      /\ Overlap(c) /\ Go(c, "refused") /\ job[c].op = "verifyOtp"
      /\ job[c].at = "save" /\ ~ Capped(c)
      /\ UNCHANGED <<screen, held, mails, last, resets, attempt, reclaims,
                     events>>
  BY DEF SaveWrongOtp, At
<1>2. PICK j \in Job : job' = [job EXCEPT ![c] = j] /\ j.at = "refused"
  BY <1>1, GoneJob
<1>3. user.exists /\ Sound(job[c].read) /\ job[c].read.pr.code # 0
  BY <1>1 DEF Inv, Reads
<1>4. n \in 0 .. MaxAttempts /\ n < MaxAttempts /\ n + 1 \in 0 .. MaxAttempts
  <2>1. n \in 0 .. MaxAttempts BY <1>t DEF Types, Job, Document, Reset
  <2> QED BY <1>1, <2>1, CodesAssumption DEF Capped
<1>5. /\ L \in Ids /\ L # 0 /\ L \in 0 .. last /\ last \in Nat
      /\ attempt[L] = L
      /\ L \notin raced => resets[L] = 0 /\ tries[L] <= n
  BY <1>t, <1>3, IdType
     DEF Types, Job, Document, Reset, Attempt, Sound, PrSound
<1>l. L \in About(c) BY <1>5 DEF About
<1>6. /\ user' \in Document /\ user'.exists /\ user'.ev = user.ev
      /\ user'.pr.link = user.pr.link /\ user'.pr.ticket = user.pr.ticket
      /\ user'.pr.code = user.pr.code /\ user'.pr.attempts = n + 1
  BY <1>t, <1>1, <1>3, <1>4 DEF Types, Document, Reset
<1>a. Alone(c) => user.pr.link = L BY DEF Alone, Attempt
<1> HIDE DEF L, n
<1>7. /\ tries' \in [Ids -> Nat] /\ tries'[L] = tries[L] + 1
      /\ \A i \in Ids : i # L => tries'[i] = tries[i]
  BY <1>t, <1>1, <1>5 DEF Types
<1>8. Saving(c, j)
  BY <1>t, <1>1, <1>2, <1>5, <1>6, <1>7, <1>l, FreshAttempts
     DEF Saving, Types
<1>9. raced \subseteq raced' /\ (L \in raced' \/ Alone(c))
  BY <1>1, <1>l, Overlapped
<1>10. Fresh'
  <2>1. \A i \in Ids : i > last => i # L BY <1>5, IdType
  <2>2. \A i \in Ids : i > last => tries'[i] = 0 /\ resets'[i] = 0
    BY <1>1, <1>7, <2>1 DEF Inv, Fresh
  <2> QED BY <1>8, <2>2, SavingFresh
<1>11. Bounded'
  <2>1. ASSUME NEW i \in Ids \ raced'
        PROVE  tries'[i] <= MaxAttempts /\ resets'[i] <= 1
    <3>1. i \notin raced /\ tries[i] <= MaxAttempts /\ resets[i] <= 1
      BY <1>9 DEF Inv, Bounded, WrongCodesAreCounted, OneResetPerAttempt
    <3>2. CASE i = L
      <4>1. tries[i] \in Nat BY <1>t DEF Types
      <4> QED BY <1>1, <1>4, <1>5, <1>7, <3>1, <3>2, <4>1, CodesAssumption
    <3>3. CASE i # L BY <1>1, <1>7, <3>1, <3>3
    <3> QED BY <3>2, <3>3
  <2> QED BY <2>1 DEF Bounded, WrongCodesAreCounted, OneResetPerAttempt
<1>12. CASE L \in raced'
  <2>1. Kept
    <3>1. \A i \in 0 .. last : i \in Ids
      BY <1>t, IdType, CodesAssumption DEF Types, Ids
    <3> QED BY <1>1, <1>7, <1>9, <1>12, <1>t, <1>5, <3>1 DEF Kept, Types
  <2>2. EvSound(user.ev)' BY <1>6, <2>1, EvStays
  <2>3. PrSound(user.pr)'
    <3>1. PICK pr \in Reset : pr = user.pr BY <1>t DEF Types, Document
    <3>2. PrSound(pr)' BY <2>1, <1>t, <3>1, PrKept DEF Inv, Sound
    <3>3. user.pr.link \notin raced' \cup {0} => ~ Alone(c)
      BY <1>12, <1>a
    <3>4. user.pr.link \in raced' \cup {0}
      BY <1>1, <3>3, Overlapped DEF Attempt
    <3> QED BY <1>6, <3>1, <3>2, <3>4 DEF PrSound
  <2> QED BY <1>8, <1>10, <1>11, <2>2, <2>3, SavingStep
<1>13. CASE Alone(c) /\ L \notin raced'
  <2>1. user.pr.link = L BY <1>13, <1>a
  <2>2. EvSound(user.ev)'
    <3>1. /\ user.ev.code # L /\ user.ev.code \in Ids /\ EvSound(user.ev)
      BY <1>t, <1>5 DEF Types, Document, EvCode, Inv, Sound, EvSound
    <3> QED BY <1>1, <1>6, <1>7, <1>9, <3>1 DEF EvSound
  <2>3. PrSound(user.pr)'
    <3>1. PrSound(user.pr) BY DEF Inv, Sound
    <3>2. tries'[L] <= n + 1 /\ resets'[L] = 0
      BY <1>t, <1>1, <1>4, <1>5, <1>7, <1>9, <1>13 DEF Types
    <3> QED BY <1>1, <1>6, <1>9, <2>1, <3>1, <3>2 DEF PrSound
  <2> QED BY <1>8, <1>10, <1>11, <2>2, <2>3, SavingStep
<1> QED BY <1>9, <1>12, <1>13

LEMMA VerifiedStep ==
  ASSUME Inv, NEW c \in Clients, SaveVerified(c) PROVE Inv'
<1>t. Types BY DEF Inv
<1> DEFINE K == Code(job[c].read)
           n == job[c].read.ev.attempts
<1>1. /\ \/ /\ user' = [user EXCEPT !.verified = TRUE, !.ev = NoCode]
            /\ tries' = tries /\ Go(c, "ok")
         \/ /\ user' = [user EXCEPT !.ev.attempts = n + 1]
            /\ tries' = [tries EXCEPT ![K] = @ + 1] /\ Go(c, "refused")
      /\ Overlap(c) /\ job[c].op = "verifyEmail" /\ job[c].at = "save"
      /\ UNCHANGED <<screen, held, mails, last, resets, attempt, reclaims,
                     events>>
  BY DEF SaveVerified, At
<1>2. PICK j \in Job :
        /\ job' = [job EXCEPT ![c] = j] /\ j.at \in {"ok", "refused"}
  BY <1>1, GoneJob
<1>3. user.exists /\ Sound(job[c].read) /\ K # 0 /\ n < MaxAttempts
  BY <1>1 DEF Inv, Reads, Code
<1>4. n \in 0 .. MaxAttempts /\ n + 1 \in 0 .. MaxAttempts
  <2>1. n \in 0 .. MaxAttempts BY <1>t DEF Types, Job, Document, EvCode
  <2> QED BY <1>3, <2>1, CodesAssumption
<1>5. /\ K \in Ids /\ K \in 0 .. last /\ last \in Nat /\ attempt[K] = 0
      /\ K \notin raced => tries[K] <= n
  BY <1>t, <1>3, IdType
     DEF Types, Job, Document, EvCode, Code, Sound, EvSound
<1>l. K \in About(c) BY <1>3 DEF About
<1>a. Alone(c) => user.ev.code = K BY DEF Alone, Code
<1>6. CASE /\ user' = [user EXCEPT !.verified = TRUE, !.ev = NoCode]
           /\ tries' = tries
  <2>1. /\ user' \in Document /\ user'.exists /\ user'.ev = NoCode
        /\ user'.pr = user.pr
    BY <1>t, <1>3, <1>6, NothingType DEF Types, Document
  <2>2. Saving(c, j)
    BY <1>t, <1>1, <1>2, <1>5, <1>6, <2>1, FreshAttempts DEF Saving, Types
  <2>3. Kept /\ Fresh' /\ Bounded' BY <1>1, <1>6, <2>2, PlainBounded
  <2>4. EvSound(user.ev)' BY <1>1, <1>5, <2>1, NoCodeSound
  <2> QED BY <2>1, <2>2, <2>3, <2>4, PrStays, SavingStep
<1>7. CASE /\ user' = [user EXCEPT !.ev.attempts = n + 1]
           /\ tries' = [tries EXCEPT ![K] = @ + 1]
  <2>1. /\ user' \in Document /\ user'.exists /\ user'.pr = user.pr
        /\ user'.ev.code = user.ev.code /\ user'.ev.attempts = n + 1
    BY <1>t, <1>3, <1>4, <1>7 DEF Types, Document, EvCode
  <2> HIDE DEF K, n
  <2>2. /\ tries' \in [Ids -> Nat] /\ tries'[K] = tries[K] + 1
        /\ \A i \in Ids : i # K => tries'[i] = tries[i]
    BY <1>t, <1>5, <1>7 DEF Types
  <2>3. Saving(c, j)
    BY <1>t, <1>1, <1>2, <1>5, <1>l, <2>1, <2>2, FreshAttempts
       DEF Saving, Types
  <2>4. raced \subseteq raced' /\ (K \in raced' \/ Alone(c))
    BY <1>1, <1>l, Overlapped
  <2>5. Fresh'
    <3>1. \A i \in Ids : i > last => i # K BY <1>5, IdType
    <3>2. \A i \in Ids : i > last => tries'[i] = 0 /\ resets'[i] = 0
      BY <1>1, <2>2, <3>1 DEF Inv, Fresh
    <3> QED BY <2>3, <3>2, SavingFresh
  <2>6. Bounded'
    <3>1. ASSUME NEW i \in Ids \ raced'
          PROVE  tries'[i] <= MaxAttempts /\ resets'[i] <= 1
      <4>1. i \notin raced /\ tries[i] <= MaxAttempts /\ resets[i] <= 1
        BY <2>4 DEF Inv, Bounded, WrongCodesAreCounted, OneResetPerAttempt
      <4>2. CASE i = K
        <5>1. tries[i] \in Nat BY <1>t DEF Types
        <5> QED BY <1>1, <1>4, <1>5, <2>2, <4>1, <4>2, <5>1, CodesAssumption
      <4>3. CASE i # K BY <1>1, <2>2, <4>1, <4>3
      <4> QED BY <4>2, <4>3
    <3> QED BY <3>1 DEF Bounded, WrongCodesAreCounted, OneResetPerAttempt
  <2>7. CASE K \in raced'
    <3>1. Kept
      <4>1. \A i \in 0 .. last : i \in Ids
        BY <1>t, IdType, CodesAssumption DEF Types, Ids
      <4> QED BY <1>1, <1>t, <1>5, <2>2, <2>4, <2>7, <4>1 DEF Kept, Types
    <3>2. PrSound(user.pr)' BY <2>1, <3>1, PrStays
    <3>3. EvSound(user.ev)'
      <4>1. PICK ev \in EvCode : ev = user.ev BY <1>t DEF Types, Document
      <4>2. EvSound(ev)' BY <3>1, <1>t, <4>1, EvKept DEF Inv, Sound
      <4>3. user.ev.code \in raced' \cup {0}
        BY <1>1, <1>a, <2>7, Overlapped DEF Code
      <4> QED BY <2>1, <4>1, <4>2, <4>3 DEF EvSound
    <3> QED BY <2>3, <2>5, <2>6, <3>2, <3>3, SavingStep
  <2>8. CASE Alone(c) /\ K \notin raced'
    <3>1. user.ev.code = K BY <1>a, <2>8
    <3>2. EvSound(user.ev)'
      <4>1. tries'[K] <= n + 1
        BY <1>t, <1>4, <1>5, <2>2, <2>4, <2>8 DEF Types
      <4> QED BY <1>1, <1>5, <2>1, <3>1, <4>1 DEF EvSound
    <3>3. PrSound(user.pr)'
      <4>1. /\ PrSound(user.pr) /\ user.pr.link \in Ids
            /\ user.pr.link # 0 => user.pr.link # K
        BY <1>t, <1>3, <1>5 DEF Types, Document, Reset, Inv, Sound, PrSound
      <4> QED BY <1>1, <2>1, <2>2, <2>4, <4>1 DEF PrSound
    <3> QED BY <2>3, <2>5, <2>6, <3>2, <3>3, SavingStep
  <2> QED BY <2>4, <2>7, <2>8
<1> QED BY <1>1, <1>6, <1>7

LEMMA PasswordStep ==
  ASSUME Inv, NEW c \in Clients, SavePassword(c)
  PROVE  Inv' /\ resets' # resets
<1>t. Types BY DEF Inv
<1> DEFINE r == job[c].read.pr
           a == attempt[job[c].code]
<1>1. /\ user' = [user EXCEPT !.password = c, !.pr = NoReset]
      /\ resets' = [resets EXCEPT ![a] = @ + 1]
      /\ Overlap(c) /\ Go(c, "ok") /\ job[c].op = "reset"
      /\ job[c].at = "save"
      /\ UNCHANGED <<screen, held, mails, last, tries, attempt, reclaims,
                     events>>
  BY <1>t DEF SavePassword, At, Spent, Types, Document
<1>2. PICK j \in Job : job' = [job EXCEPT ![c] = j] /\ j.at = "ok"
  BY <1>1, GoneJob
<1>3. /\ user.exists /\ PrSound(r)
      /\ job[c].code \in {r.ticket, r.link} \ {0}
  BY <1>1 DEF Inv, Reads, Sound
<1>4. /\ a \in Ids /\ a # 0 /\ a \in raced \cup {r.link}
      /\ a \notin raced => resets[a] = 0
  <2>1. job[c].code \in Ids /\ r.link \in Ids
    BY <1>t DEF Types, Job, Document, Reset
  <2>2. a \in Ids BY <1>t, <2>1 DEF Types
  <2>3. a # 0 /\ a \in raced \cup {r.link} BY <1>3 DEF PrSound
  <2>4. a \notin raced => resets[a] = 0 BY <1>3, <2>3 DEF PrSound
  <2> QED BY <2>2, <2>3, <2>4
<1>5. a \in About(c) \cup raced BY <1>4 DEF About, Attempt
<1>6. /\ user' \in Document /\ user'.exists /\ user'.ev = user.ev
      /\ user'.pr = NoReset
  BY <1>t, <1>1, <1>3, NothingType DEF Types, Document
<1> HIDE DEF a, r
<1>7. /\ resets' \in [Ids -> Nat] /\ resets'[a] = resets[a] + 1
      /\ \A i \in Ids : i # a => resets'[i] = resets[i]
      /\ resets[a] \in Nat
  BY <1>t, <1>1, <1>4 DEF Types
<1>8. last \in Nat BY <1>1, SavingRoom
<1>9. Saving(c, j)
  BY <1>t, <1>1, <1>2, <1>5, <1>6, <1>7, <1>8, FreshAttempts
     DEF Saving, Types
<1>10. raced \subseteq raced' BY <1>9, SavingKnown
<1>11. Fresh'
  <2>1. a <= last
    <3>1. job[c].code \in Ids BY <1>t DEF Types, Job
    <3> QED BY <3>1, FreshAttempts DEF a
  <2>2. \A i \in Ids : i > last => tries'[i] = 0 /\ resets'[i] = 0
    BY <1>1, <1>4, <1>7, <1>8, <2>1, IdType DEF Inv, Fresh
  <2> QED BY <1>9, <2>2, SavingFresh
<1>12. Bounded'
  <2>1. ASSUME NEW i \in Ids \ raced'
        PROVE  tries'[i] <= MaxAttempts /\ resets'[i] <= 1
    <3>1. i \notin raced /\ tries[i] <= MaxAttempts /\ resets[i] <= 1
      BY <1>10 DEF Inv, Bounded, WrongCodesAreCounted, OneResetPerAttempt
    <3>2. CASE i = a BY <1>1, <1>4, <1>7, <3>1, <3>2
    <3>3. CASE i # a BY <1>1, <1>7, <3>1, <3>3
    <3> QED BY <3>2, <3>3
  <2> QED BY <2>1 DEF Bounded, WrongCodesAreCounted, OneResetPerAttempt
<1>13. EvSound(user.ev)'
  <2>1. EvSound(user.ev) BY DEF Inv, Sound
  <2> QED BY <1>1, <1>6, <1>10, <2>1 DEF EvSound
<1>14. PrSound(user.pr)' BY <1>1, <1>6, <1>8, NoResetSound
<1>15. resets' # resets BY <1>7
<1> QED BY <1>9, <1>11, <1>12, <1>13, <1>14, <1>15, SavingStep

-----------------------------------------------------------------------------
(* The other steps of a client.                                            *)

LEMMA StayQuiet ==
  ASSUME Inv,
         UNCHANGED <<user, screen, held, mails, last, tries, resets, attempt,
                     reclaims>>,
         raced \subseteq raced', raced' \subseteq Ids,
         Event \/ UNCHANGED events
  PROVE  Quietly /\ events' >= events
BY CodesAssumption DEF Inv, Types, Quietly, Event

LEMMA FindStep ==
  ASSUME Inv, NEW c \in Clients,
         \/ FindByEmail(c) \/ FindToResend(c) \/ FindToLogin(c) \/ FindCode(c)
         \/ FindToForgot(c) \/ FindOtp(c) \/ FindToken(c)
  PROVE  Inv'
<1>t. Types /\ Sound(user) BY DEF Inv
<1>u. /\ UNCHANGED <<user, screen, held, mails, last, tries, resets, attempt,
                     reclaims, events>>
      /\ job[c].at = "sent"
  BY DEF FindByEmail, FindToResend, FindToLogin, FindCode, FindToForgot,
         FindOtp, FindToken, At
<1>1. ASSUME NEW to \in {"ok", "refused"}, Go(c, to), UNCHANGED raced
      PROVE  Inv'
  <2>1. Quietly /\ events' >= events BY <1>t, <1>u, <1>1, StayQuiet DEF Types
  <2> QED BY <1>1, <2>1, GoStep DEF Ats
<1>2. CASE Refuse(c) \/ (Go(c, "ok") /\ UNCHANGED raced)
  BY <1>1, <1>2 DEF Refuse
<1>3. CASE FindByEmail(c)
  BY <1>t, <1>u, <1>2, <1>3, LoadStep DEF FindByEmail, At, Sound, Known
<1>4. CASE FindToResend(c)
  BY <1>u, <1>2, <1>4, LoadStep DEF FindToResend, At
<1>5. CASE FindToLogin(c)
  BY <1>u, <1>2, <1>5, LoadStep DEF FindToLogin, At
<1>6. CASE FindCode(c)
  BY <1>t, <1>u, <1>2, <1>6, LoadStep DEF FindCode, At, Sound, Known
<1>7. CASE FindToForgot(c)
  BY <1>u, <1>2, <1>7, LoadStep DEF FindToForgot, At
<1>8. CASE FindOtp(c)
  BY <1>t, <1>u, <1>2, <1>8, LoadStep DEF FindOtp, At, Sound, Known
<1>9. CASE FindToken(c)
  BY <1>t, <1>u, <1>2, <1>9, LoadStep DEF FindToken, At, Sound, Known
<1> QED BY <1>3, <1>4, <1>5, <1>6, <1>7, <1>8, <1>9

\* The mails.
LEMMA MailStep ==
  ASSUME Inv, NEW c \in Clients,
         SendVerificationEmail(c) \/ SendPasswordResetEmail(c)
  PROVE  Inv'
<1>t. Types BY DEF Inv
<1>1. job[c].code \in Ids BY <1>t DEF Types, Job
<1>2. SendPasswordResetEmail(c) => job[c].code + 1 \in Ids
  BY DEF SendPasswordResetEmail, At, Inv, Reads
<1>3. mails' \subseteq Ids
  BY <1>t, <1>1, <1>2 DEF SendVerificationEmail, SendPasswordResetEmail, Types
<1>4. /\ UNCHANGED <<user, screen, held, last, tries, resets, attempt, raced,
                     reclaims>>
      /\ Event \/ UNCHANGED events
      /\ \E to \in {"ok", "verify", "failed"} : Go(c, to)
  BY DEF SendVerificationEmail, SendPasswordResetEmail, history
<1>5. Quietly /\ events' >= events
  BY <1>t, <1>3, <1>4, CodesAssumption DEF Quietly, Types, Event
<1> QED BY <1>4, <1>5, GoStep DEF Ats

\* The screens.
LEMMA ScreenStep ==
  ASSUME Inv, NEW c \in Clients,
         \/ Answered(c) \/ LoseAnswer(c)
         \/ \E to \in Screens : Navigate(c, to)
         \/ \E link \in mails : OpenLink(c, link)
  PROVE  Inv'
<1>t. Types BY DEF Inv
<1>0. 0 \in Ids BY IdType
<1>1. CASE Answered(c)
  <2>1. After(c) \in Screens
    BY <1>t DEF After, Screens, Types
  <2>2. job[c].code \in Ids BY <1>t DEF Types, Job
  <2>3. /\ screen' \in [Clients -> Screens] /\ held' \in [Clients -> Ids]
        /\ job' = [job EXCEPT ![c] = Idle]
        /\ UNCHANGED <<user, mails, last, history, events>>
    BY <1>t, <1>0, <1>1, <2>1, <2>2 DEF Answered, Types
  <2>4. Quietly /\ events' >= events
    BY <1>t, <2>3, CodesAssumption DEF Quietly, Types, history
  <2> QED BY <2>3, <2>4, RestStep
<1>2. CASE LoseAnswer(c)
  <2>1. /\ job' = [job EXCEPT ![c] = Idle] /\ Event
        /\ UNCHANGED <<user, screen, held, mails, last, history>>
    BY <1>2 DEF LoseAnswer
  <2>2. Quietly /\ events' >= events
    BY <1>t, <2>1, StayQuiet DEF history, Types
  <2> QED BY <2>1, <2>2, RestStep
<1>3. CASE \E to \in Screens : Navigate(c, to)
  <2>1. /\ screen' \in [Clients -> Screens] /\ held' \in [Clients -> Ids]
        /\ UNCHANGED <<user, job, mails, last, history, events>>
    BY <1>t, <1>0, <1>3 DEF Navigate, Types
  <2>2. Quietly /\ events' >= events
    BY <1>t, <2>1, CodesAssumption DEF Quietly, Types, history
  <2> QED BY <2>1, <2>2, CalmStep
<1>4. CASE \E link \in mails : OpenLink(c, link)
  <2>1. /\ screen' \in [Clients -> Screens] /\ held' \in [Clients -> Ids]
        /\ UNCHANGED <<user, job, mails, last, history, events>>
    BY <1>t, <1>4 DEF OpenLink, Types, Screens
  <2>2. Quietly /\ events' >= events
    BY <1>t, <2>1, CodesAssumption DEF Quietly, Types, history
  <2> QED BY <2>1, <2>2, CalmStep
<1> QED BY <1>1, <1>2, <1>3, <1>4

\* The provider vouches for the user; a code or an attempt expires.
LEMMA CalmDocument ==
  ASSUME Inv, Types', Event,
         UNCHANGED <<job, last, tries, resets, attempt, raced>>,
         user.exists => user'.exists, Sound(user)'
  PROVE  Inv'
<1>t. Types BY DEF Inv
<1>1. Kept BY <1>t, IdType DEF Types, Kept
<1>2. Pending' = Pending BY DEF Pending
<1>3. last \in Nat /\ events \in Nat /\ events' = events + 1
  BY <1>t, IdType, CodesAssumption DEF Types, Event
<1>4. Cardinality(Pending) \in Nat BY PendingFinite
<1>5. Budget' BY <1>2, <1>3, <1>4 DEF Budget, Inv
<1>6. Fresh' /\ Bounded'
  BY DEF Inv, Fresh, Bounded, WrongCodesAreCounted, OneResetPerAttempt
<1>7. \A d \in Clients : Reads(d)' BY <1>1, ReadsKept
<1> QED BY <1>5, <1>6, <1>7 DEF Inv

LEMMA SocialStep ==
  ASSUME Inv, NEW c \in Clients, SocialLogin(c) PROVE Inv'
<1>t. Types /\ Sound(user) BY DEF Inv
<1>1. /\ user' = IF user.exists THEN [user EXCEPT !.social = TRUE]
                 ELSE [NoUser EXCEPT !.exists = TRUE, !.verified = TRUE,
                                     !.social = TRUE]
      /\ Event /\ screen' = [screen EXCEPT ![c] = "app"]
      /\ UNCHANGED <<held, job, mails, last, history>>
  BY DEF SocialLogin
<1>2. /\ user' \in Document /\ user'.exists
      /\ \/ user'.ev = user.ev /\ user'.pr = user.pr
         \/ user'.ev = NoCode /\ user'.pr = NoReset
  BY <1>t, <1>1, NothingType DEF Types, Document, NoUser
<1>3. events' \in 0 .. MaxEvents
  BY <1>t, <1>1, CodesAssumption DEF Types, Event
<1>4. Types' BY <1>t, <1>1, <1>2, <1>3 DEF Types, Screens, history
<1>5. last' = last /\ last \in Nat BY <1>t, <1>1, IdType DEF Types
<1>6. Sound(user)'
  BY <1>t, <1>1, <1>2, <1>5
     DEF Sound, EvSound, PrSound, Known, NoCode, NoReset, history
<1> QED BY <1>1, <1>2, <1>4, <1>6, CalmDocument DEF history

LEMMA ExpireStep == Inv /\ Expire => Inv'
<1> SUFFICES ASSUME Inv, Expire PROVE Inv'
  OBVIOUS
<1>t. Types /\ Sound(user) BY DEF Inv
<1>1. /\ user' = [user EXCEPT !.ev.live = FALSE]
            \/ user' = [user EXCEPT !.pr.live = FALSE]
      /\ Event /\ UNCHANGED <<screen, held, job, mails, last, history>>
  BY DEF Expire
<1>2. /\ user' \in Document /\ user'.exists = user.exists
      /\ user'.verified = user.verified
      /\ user'.ev.code = user.ev.code /\ user'.pr.code = user.pr.code
      /\ user'.ev.attempts = user.ev.attempts
      /\ user'.pr.attempts = user.pr.attempts
      /\ user'.pr.link = user.pr.link /\ user'.pr.ticket = user.pr.ticket
  <2>1. CASE user' = [user EXCEPT !.ev.live = FALSE]
    <3>1. user.ev \in EvCode BY <1>t DEF Types, Document
    <3>2. user' = [user EXCEPT !.ev = [user.ev EXCEPT !.live = FALSE]]
      BY <1>t, <2>1 DEF Types, Document
    <3>3. [user.ev EXCEPT !.live = FALSE] \in EvCode BY <3>1 DEF EvCode
    <3> QED BY <1>t, <3>1, <3>2, <3>3 DEF Types, Document, EvCode
  <2>2. CASE user' = [user EXCEPT !.pr.live = FALSE]
    <3>1. user.pr \in Reset BY <1>t DEF Types, Document
    <3>2. user' = [user EXCEPT !.pr = [user.pr EXCEPT !.live = FALSE]]
      BY <1>t, <2>2 DEF Types, Document
    <3>3. [user.pr EXCEPT !.live = FALSE] \in Reset BY <3>1 DEF Reset
    <3> QED BY <1>t, <3>1, <3>2, <3>3 DEF Types, Document, Reset
  <2> QED BY <1>1, <2>1, <2>2
<1>3. events' \in 0 .. MaxEvents
  BY <1>t, <1>1, CodesAssumption DEF Types, Event
<1>4. Types' BY <1>t, <1>1, <1>2, <1>3 DEF Types, history
<1>5. EvSound(user.ev)' BY <1>t, <1>1, <1>2 DEF Sound, EvSound, history
<1>6. PrSound(user.pr)' BY <1>t, <1>1, <1>2 DEF Sound, PrSound, history
<1>7. Known(user)' BY <1>t, <1>2 DEF Sound, Known
<1>8. Sound(user)' BY <1>5, <1>6, <1>7 DEF Sound
<1> QED BY <1>1, <1>2, <1>4, <1>8, CalmDocument DEF history

LEMMA UserStep ==
  ASSUME Inv, NEW c \in Clients, User(c) PROVE Inv'
<1>t. Types BY DEF Inv
<1>1. 0 \in Ids /\ held[c] \in Ids /\ Typed \subseteq Ids
  BY <1>t, IdType DEF Types, Typed
<1>2. CASE \E from, op, code : /\ Submit(c, from, op, code)
                               /\ op \in Ops /\ code \in Ids
  BY <1>2, SubmitStep
<1>3. CASE \/ Register(c) \/ Resend(c) \/ Login(c) \/ Forgot(c)
           \/ ResetPassword(c)
           \/ \E code \in Typed : VerifyEmail(c, code) \/ VerifyOtp(c, code)
  BY <1>1, <1>2, <1>3
     DEF Register, Resend, Login, Forgot, ResetPassword, VerifyEmail,
         VerifyOtp, Ops
<1> QED BY <1>3, ScreenStep, SocialStep DEF User

LEMMA HandlerStep ==
  ASSUME Inv, NEW c \in Clients, Handler(c) PROVE Inv'
BY FindStep, MailStep, ScreenStep, RegistrationStep, NewCodeStep, VerifiedStep,
   ForgotStep, CappedStep, WrongOtpStep, TicketStep, PasswordStep DEF Handler

LEMMA InvStep == Inv /\ [Next]_vars => Inv'
<1> SUFFICES ASSUME Inv, [Next]_vars PROVE Inv'
  OBVIOUS
<1>1. CASE UNCHANGED vars
  <2> USE <1>1 DEF vars, history
  <2>1. Types' BY DEF Inv, Types
  <2>2. Budget' BY DEF Inv, Budget, Pending
  <2>3. Fresh' BY DEF Inv, Fresh
  <2>4. Bounded' BY DEF Inv, Bounded, WrongCodesAreCounted, OneResetPerAttempt
  <2>5. Sound(user)' BY DEF Inv, Sound, EvSound, PrSound, Known
  <2>6. \A c \in Clients : Reads(c)'
    BY DEF Inv, Reads, Sound, EvSound, PrSound, Known
  <2> QED BY <2>1, <2>2, <2>3, <2>4, <2>5, <2>6 DEF Inv
<1> QED BY <1>1, ExpireStep, UserStep, HandlerStep DEF Next

\* Who sets the password of a verified account.
LEMMA PasswordSetters ==
  ASSUME Inv, [Next]_vars, user.verified, user'.password # user.password
  PROVE  resets' # resets \/ reclaims'
<1>t. Types /\ Sound(user) BY DEF Inv
<1>1. PICK c \in Clients : SaveRegistration(c) \/ SavePassword(c)
  <2>1. CASE UNCHANGED user BY <2>1
  <2>2. ASSUME UNCHANGED <<user>> \/ user'.password = user.password
        PROVE  FALSE
    BY <2>2
  <2>3. user.exists BY <1>t DEF Sound, Known
  <2>4. ASSUME NEW c \in Clients, User(c) PROVE FALSE
    <3>1. \/ UNCHANGED user
          \/ user' = [user EXCEPT !.social = TRUE]
      BY <2>3, <2>4
         DEF User, Register, Resend, Login, SocialLogin, Forgot, ResetPassword,
             VerifyEmail, VerifyOtp, OpenLink, Navigate, Submit
    <3> QED BY <1>t, <2>2, <3>1 DEF Types, Document
  <2>5. ASSUME NEW c \in Clients, Handler(c),
               ~ SaveRegistration(c), ~ SavePassword(c)
        PROVE  FALSE
    <3>1. CASE UNCHANGED user BY <2>2, <3>1
    <3>2. CASE SaveNewCode(c)
      BY <1>t, <2>2, <3>2 DEF SaveNewCode, Types, Document
    <3>3. CASE SaveVerified(c)
      BY <1>t, <2>2, <3>3 DEF SaveVerified, Types, Document
    <3>4. CASE SaveForgot(c)
      BY <1>t, <2>2, <3>4 DEF SaveForgot, Types, Document
    <3>5. CASE SaveCapped(c)
      BY <1>t, <2>2, <3>5 DEF SaveCapped, Types, Document
    <3>6. CASE SaveWrongOtp(c)
      BY <1>t, <2>2, <3>6 DEF SaveWrongOtp, Types, Document
    <3>7. CASE SaveTicket(c)
      BY <1>t, <2>2, <3>7 DEF SaveTicket, Types, Document
    <3> QED
      BY <2>5, <3>1, <3>2, <3>3, <3>4, <3>5, <3>6, <3>7
         DEF Handler, FindByEmail, SendVerificationEmail, FindToResend,
             FindToLogin, FindCode, FindToForgot, SendPasswordResetEmail,
             FindOtp, FindToken, Answered, LoseAnswer
  <2>6. CASE Expire
    BY <1>t, <2>2, <2>6 DEF Expire, Types, Document
  <2> QED BY <2>1, <2>4, <2>5, <2>6 DEF Next, vars
<1>2. CASE SaveRegistration(c)
  <2>1. ~ job[c].read.verified
    BY <1>2 DEF SaveRegistration, At, Inv, Reads
  <2> QED BY <1>2, <2>1 DEF SaveRegistration
<1> QED BY <1>1, <1>2, PasswordStep

-----------------------------------------------------------------------------
(* The theorems.                                                           *)

THEOREM Invariance == Spec => []Inv
BY InitInv, InvStep, PTL DEF Spec

\* The document, the screens and the numbers given out keep their types, the
\* attempt counters never pass MAX_OTP_ATTEMPTS, and the numbers suffice.
THEOREM TypeCorrect == Spec => []TypeOK
<1>1. Inv => TypeOK BY TypesOK DEF Inv
<1> QED BY <1>1, Invariance, PTL

\* For every cap, at most that many wrong codes are tried on a code or an
\* attempt no two requests raced for (verifyEmail and verifyOtp of
\* auth.controller.js).
THEOREM TriesAreBounded == Spec => []WrongCodesAreCounted
<1>1. Inv => WrongCodesAreCounted BY DEF Inv, Bounded
<1> QED BY <1>1, Invariance, PTL

\* The link and the ticket of one forgotten password set one new password
\* between them, unless two requests raced for it (resetPassword and
\* clearPasswordReset).
THEOREM OneReset == Spec => []OneResetPerAttempt
<1>1. Inv => OneResetPerAttempt BY DEF Inv, Bounded
<1> QED BY <1>1, Invariance, PTL

\* No step but a reset, or a registration that had read the account before
\* it was verified, changes the password of a verified account (register
\* and firebaseAuth among them).
THEOREM PasswordIsKept == Spec => VerifiedKeepsPassword
<1>1. Inv /\ [Next]_vars =>
        [user.verified /\ user'.password # user.password =>
           resets' # resets \/ reclaims']_vars
  BY PasswordSetters
<1> QED BY <1>1, Invariance, PTL DEF Spec, VerifiedKeepsPassword

(***************************************************************************)
(* AuthBackoff.                                                            *)
(***************************************************************************)
\* Whose checks nothing disturbed.
Clean == Identities \ (broken \cup crossed)

Counted(r, i) ==
  /\ at[<<r, i>>] \in {"pexpire", "block", "keep"}
       => count[i] >= seen[<<r, i>>] /\ seen[<<r, i>>] > 0
  /\ at[<<r, i>>] \in {"block", "keep"} => seen[<<r, i>>] > Free

BeforeBlock(r, i) == at[<<r, i>>] = "pexpire" => block[i] <= now

OwnBlock(r, i) ==
  at[<<r, i>>] = "keep" => block[i] <= now + Delay(seen[<<r, i>>])

Penalty(i) ==
  block[i] > now /\ (\A r \in Requests : at[<<r, i>>] # "keep")
    => count[i] > Free /\ expiry[i] >= block[i]

Recovers(i) ==
  count[i] > 0 /\ expiry[i] = Never
    => \E r \in Requests : at[<<r, i>>] = "pexpire"

\* What holds of an identity nothing disturbed.
Undisturbed(i) ==
  /\ \A r \in Requests : Counted(r, i) /\ BeforeBlock(r, i) /\ OwnBlock(r, i)
  /\ Penalty(i) /\ Recovers(i)

BlocksCapped == \A i \in Identities : block[i] <= now + MaxDelay

BackoffInv == BackoffTypeOK /\ BlocksCapped /\ \A i \in Clean : Undisturbed(i)

\* The delay is capped, whatever the number of violations.
LEMMA DelayType == ASSUME NEW n \in Nat PROVE Delay(n) \in 0 .. MaxDelay
BY BackoffAssumption DEF Delay

\* A check is a request's, of an identity.
LEMMA CheckParts ==
  ASSUME NEW c \in Checks
  PROVE  c[1] \in Requests /\ c[2] \in Identities /\ c = <<c[1], c[2]>>
BY DEF Checks

\* The initial state satisfies the invariant.
LEMMA BackoffStart == BackoffInit => BackoffInv
<1> SUFFICES ASSUME BackoffInit PROVE BackoffInv
  OBVIOUS
<1> USE BackoffAssumption DEF BackoffInit
<1>1. BackoffTypeOK BY CheckParts DEF BackoffTypeOK, Times, Done
<1>2. BlocksCapped
  <2>1. now = 0 /\ \A i \in Identities : block[i] = 0 OBVIOUS
  <2>2. 0 <= 0 + MaxDelay OBVIOUS
  <2> QED BY <2>1, <2>2 DEF BlocksCapped
<1>3. ASSUME NEW i \in Clean PROVE Undisturbed(i)
  BY DEF Undisturbed, Counted, BeforeBlock, OwnBlock, Penalty, Recovers, Clean,
         Checks
<1> QED BY <1>1, <1>2, <1>3 DEF BackoffInv

\* Every step keeps the types.
LEMMA BackoffTypeStep ==
  BackoffTypeOK /\ [BackoffNext]_backoff => BackoffTypeOK'
<1> SUFFICES ASSUME BackoffTypeOK, [BackoffNext]_backoff PROVE BackoffTypeOK'
  OBVIOUS
<1> USE BackoffAssumption, CheckParts DEF BackoffTypeOK, Times, Done
<1>1. CASE Tick BY <1>1 DEF Tick
<1>2. ASSUME NEW r \in Requests, NEW ids \in SUBSET Identities, Arrive(r, ids)
      PROVE  BackoffTypeOK'
  BY <1>2 DEF Arrive, Spend
<1>3. ASSUME NEW r \in Requests, Respond(r) PROVE BackoffTypeOK'
  BY <1>3 DEF Respond, Leave
<1>4. ASSUME NEW r \in Requests, ResetAuthAttempts(r) PROVE BackoffTypeOK'
  <2>1. {c[2] : c \in {d \in Checks : at[d] \notin Done}} \subseteq Identities
    OBVIOUS
  <2> QED BY <1>4, <2>1 DEF ResetAuthAttempts, Leave
<1>5. ASSUME NEW c \in Checks, Pttl(c) PROVE BackoffTypeOK'
  BY <1>5 DEF Pttl, Await
<1>6. ASSUME NEW c \in Checks, Incr(c) PROVE BackoffTypeOK'
  BY <1>6 DEF Incr, Await, Awaits
<1>7. ASSUME NEW c \in Checks, PExpire(c) PROVE BackoffTypeOK'
  BY <1>7 DEF PExpire, SetExpiry, Await
<1>8. ASSUME NEW c \in Checks, SetBlock(c) PROVE BackoffTypeOK'
  <2>1. Delay(seen[c]) \in 0 .. MaxDelay BY DelayType
  <2> QED BY <1>8, <2>1 DEF SetBlock, Await
<1>9. ASSUME NEW c \in Checks, Keep(c) PROVE BackoffTypeOK'
  <2>1. Delay(seen[c]) \in 0 .. MaxDelay BY DelayType
  <2>2. Larger(Decay, Delay(seen[c])) \in 0 .. Decay + MaxDelay
    BY <2>1 DEF Larger
  <2> QED BY <1>9, <2>2 DEF Keep, SetExpiry, Await
<1>10. ASSUME NEW c \in Checks, Fail(c) PROVE BackoffTypeOK'
  BY <1>10 DEF Fail, Await, Spend
<1>11. CASE UNCHANGED backoff BY <1>11 DEF backoff
<1> QED BY <1>1, <1>2, <1>3, <1>4, <1>5, <1>6, <1>7, <1>8, <1>9, <1>10, <1>11
        DEF BackoffNext, Check

\* An identity whose counter, block and checks a step leaves alone.
LEMMA BackoffFrame ==
  ASSUME NEW i \in Identities, Undisturbed(i), now' = now,
         count'[i] = count[i],
         expiry'[i] = expiry[i], block'[i] = block[i],
         \A r \in Requests : /\ at'[<<r, i>>] = at[<<r, i>>]
                             /\ seen'[<<r, i>>] = seen[<<r, i>>]
  PROVE  Undisturbed(i)'
BY DEF Undisturbed, Counted, BeforeBlock, OwnBlock, Penalty, Recovers, Delay

\* No step makes a block longer than the longest.
LEMMA BlocksCappedStep ==
  BackoffTypeOK /\ BlocksCapped /\ [BackoffNext]_backoff => BlocksCapped'
<1> SUFFICES ASSUME BackoffTypeOK, BlocksCapped, [BackoffNext]_backoff
             PROVE BlocksCapped'
  OBVIOUS
<1> USE BackoffAssumption DEF BlocksCapped, BackoffTypeOK, Times
<1>1. CASE Tick BY <1>1 DEF Tick
<1>2. ASSUME NEW r \in Requests, ResetAuthAttempts(r) PROVE BlocksCapped'
  BY <1>2 DEF ResetAuthAttempts
<1>3. ASSUME NEW c \in Checks, SetBlock(c) PROVE BlocksCapped'
  <2>1. Delay(seen[c]) \in 0 .. MaxDelay BY DelayType
  <2> QED BY <1>3, <2>1, CheckParts DEF SetBlock
<1>4. CASE UNCHANGED <<now, block>>
  BY <1>4
<1> QED BY <1>1, <1>2, <1>3, <1>4
     DEF BackoffNext, Check, backoff, Arrive, Respond,
        Pttl, Incr, PExpire, Keep, Fail

\* A step of a check.
LEMMA CheckStep ==
  ASSUME BackoffInv, BackoffTypeOK', NEW c \in Checks, Check(c) \/ Fail(c),
         NEW i \in Identities, i \in Clean, i \in Clean'
  PROVE  Undisturbed(i)'
<1> DEFINE s == c[1]
<1> USE BackoffAssumption
<1>s. s \in Requests /\ c[2] \in Identities /\ c = <<s, c[2]>>
  BY CheckParts
<1>t. BackoffTypeOK /\ Undisturbed(i) BY DEF BackoffInv
<1>o. \A r \in Requests : <<r, i>> \in Checks BY DEF Checks
<1>1. CASE c[2] # i
  <2>1. \A r \in Requests : <<r, i>> # c BY <1>1
  <2>2. /\ now' = now /\ count'[i] = count[i] /\ expiry'[i] = expiry[i]
        /\ block'[i] = block[i]
    BY <1>1, <1>s, <1>t DEF Check, Fail, Pttl, Incr, PExpire, SetBlock, Keep,
       SetExpiry, BackoffTypeOK
  <2>3. \A r \in Requests : /\ at'[<<r, i>>] = at[<<r, i>>]
                            /\ seen'[<<r, i>>] = seen[<<r, i>>]
    BY <2>1, <1>o, <1>t DEF Check, Fail, Pttl, Incr, PExpire, SetBlock, Keep,
       Await, BackoffTypeOK
  <2> QED BY <2>2, <2>3, <1>t, BackoffFrame
<1>2. CASE c[2] = i
  <2>c. c = <<s, i>> BY <1>2, <1>s
  <2> HIDE DEF s
  <2>o. \A r \in Requests : r # s => <<r, i>> # c BY <2>c
  <2>f. ~ Fail(c) BY <1>2 DEF Fail, Clean
  <2>n. /\ now \in Nat /\ count[i] \in Nat /\ block[i] \in Nat
        /\ expiry[i] \in Nat /\ seen[c] \in Nat
        /\ \A r \in Requests : seen[<<r, i>>] \in Nat
    BY <1>t, <1>o DEF BackoffTypeOK, Times
  <2>d. \A r \in Requests : Delay(seen[<<r, i>>]) \in 0 .. MaxDelay
    BY <2>n, DelayType
  <2> USE <1>s, <1>t, <1>o, <2>c, <2>o, <2>n, <2>d
      DEF Undisturbed, Counted, BeforeBlock, OwnBlock, Penalty, Recovers
  <2>1. CASE Pttl(c)
    <3>1. /\ UNCHANGED <<now, count, expiry, block, seen>>
          /\ at[c] = "pttl" /\ at'[c] \in {"limited", "incr"}
          /\ \A r \in Requests : r # s => at'[<<r, i>>] = at[<<r, i>>]
      BY <2>1 DEF Pttl, Awaits, Await, BackoffTypeOK
    <3> QED BY <3>1
  <2>2. CASE Incr(c)
    <3>1. /\ UNCHANGED <<now, expiry, block>>
          /\ at[c] = "incr" /\ count'[i] = count[i] + 1
          /\ seen'[c] = count[i] + 1
          /\ at'[c] = IF count[i] + 1 = 1 THEN "pexpire"
                      ELSE IF count[i] + 1 <= Free THEN "free" ELSE "block"
          /\ \A r \in Requests : r # s =>
               at'[<<r, i>>] = at[<<r, i>>] /\ seen'[<<r, i>>] = seen[<<r, i>>]
      BY <1>2, <2>2 DEF Incr, Awaits, Await, BackoffTypeOK
    <3>2. \A r \in Requests : Counted(r, i)' BY <3>1
    <3>3. count[i] = 0 => block[i] <= now BY <3>1
    <3>4. \A r \in Requests : BeforeBlock(r, i)' BY <3>1, <3>3
    <3>5. \A r \in Requests : OwnBlock(r, i)' BY <3>1 DEF Delay
    <3>6. Penalty(i)' BY <3>1
    <3>7. Recovers(i)' BY <3>1
    <3> QED BY <3>2, <3>4, <3>5, <3>6, <3>7
  <2>3. CASE PExpire(c)
    <3>1. /\ UNCHANGED <<now, count, block, seen>>
          /\ at[c] = "pexpire"
          /\ at'[c] = IF seen[c] <= Free THEN "free" ELSE "block"
          /\ \A r \in Requests : r # s => at'[<<r, i>>] = at[<<r, i>>]
      BY <2>3 DEF PExpire, Awaits, Await, BackoffTypeOK
    <3>2. count[i] > 0 /\ block[i] <= now BY <3>1
    <3>3. expiry'[i] = now + Decay
      BY <1>2, <2>3, <3>2 DEF PExpire, SetExpiry, BackoffTypeOK
    <3>4. now + Decay # Never BY DEF BackoffTypeOK
    <3> QED BY <3>1, <3>2, <3>3, <3>4
  <2>4. CASE SetBlock(c)
    <3>1. /\ UNCHANGED <<now, count, expiry, seen>>
          /\ at[c] = "block" /\ at'[c] = "keep"
          /\ block'[i] = now + Delay(seen[c])
          /\ \A r \in Requests : r # s => at'[<<r, i>>] = at[<<r, i>>]
      BY <1>2, <2>4 DEF SetBlock, Awaits, Await, BackoffTypeOK
    <3>2. \A r \in Requests : r # s =>
            at[<<r, i>>] \notin {"pexpire", "block", "keep"}
      <4> SUFFICES ASSUME NEW r \in Requests, r # s,
                          at[<<r, i>>] \in {"pexpire", "block", "keep"}
                   PROVE  FALSE
        OBVIOUS
      <4>1. <<r, i>> \in Checks /\ <<r, i>> # c /\ <<r, i>>[2] = c[2]
        BY <1>2
      <4>2. i \in crossed' BY <1>2, <2>4, <4>1 DEF SetBlock
      <4> QED BY <4>2 DEF Clean
    <3> QED BY <3>1, <3>2
  <2>5. CASE Keep(c)
    <3>1. /\ UNCHANGED <<now, count, block, seen>>
          /\ at[c] = "keep" /\ at'[c] = "limited"
          /\ \A r \in Requests : r # s => at'[<<r, i>>] = at[<<r, i>>]
      BY <2>5 DEF Keep, Awaits, Await, BackoffTypeOK
    <3>2. /\ count[i] > Free /\ count[i] > 0
          /\ block[i] <= now + Delay(seen[c])
      BY <3>1
    <3> DEFINE t == now + Larger(Decay, Delay(seen[c]))
    <3>3. expiry'[i] = t
      BY <1>2, <2>5, <3>2 DEF Keep, SetExpiry, BackoffTypeOK
    <3>4. t \in Nat /\ t # Never /\ t >= now + Delay(seen[c])
      BY DEF Larger, BackoffTypeOK
    <3> HIDE DEF t
    <3> QED BY <3>1, <3>2, <3>3, <3>4 DEF Delay
  <2> QED BY <2>f, <2>1, <2>2, <2>3, <2>4, <2>5 DEF Check
<1> QED BY <1>1, <1>2

\* Every step keeps the invariant.
LEMMA BackoffStep == BackoffInv /\ [BackoffNext]_backoff => BackoffInv'
<1> SUFFICES ASSUME BackoffInv, [BackoffNext]_backoff PROVE BackoffInv'
  OBVIOUS
<1>t. BackoffTypeOK /\ BackoffTypeOK' BY BackoffTypeStep DEF BackoffInv
<1>c. BlocksCapped' BY BlocksCappedStep DEF BackoffInv
<1>i. SUFFICES ASSUME NEW i \in Clean' PROVE Undisturbed(i)'
  BY <1>t, <1>c DEF BackoffInv
<1>m. i \in Identities /\ i \in Clean
  BY DEF Clean, BackoffNext, Check, backoff, Tick, Arrive, Respond,
         ResetAuthAttempts,
         Pttl, Incr, PExpire, SetBlock, Keep, Fail
<1>s. Undisturbed(i) BY <1>m DEF BackoffInv
<1>o. \A r \in Requests : <<r, i>> \in Checks BY <1>m DEF Checks
<1> USE BackoffAssumption, <1>t, <1>m, <1>s, <1>o
<1> DEFINE Amid == {"pexpire", "block", "keep"}
<1>1. CASE Tick
  <2>1. \A r \in Requests : at[<<r, i>>] \in Amid => expiry[i] > now'
    <3> SUFFICES ASSUME NEW r \in Requests, at[<<r, i>>] \in Amid,
                        expiry[i] <= now'
                 PROVE  FALSE
      BY <1>1 DEF Tick, BackoffTypeOK, Times
    <3>1. <<r, i>> \in Checks /\ <<r, i>>[2] = i OBVIOUS
    <3>2. i \in crossed' BY <1>1, <3>1 DEF Tick
    <3> QED BY <3>2 DEF Clean
  <2>2. /\ UNCHANGED <<at, seen>> /\ now' = now + 1
        /\ now \in Nat /\ count[i] \in Nat /\ block[i] \in Nat
        /\ expiry[i] \in Nat
        /\ count'[i] = IF expiry[i] <= now' THEN 0 ELSE count[i]
        /\ expiry'[i] = IF expiry[i] <= now' THEN Never ELSE expiry[i]
        /\ block'[i] = IF block[i] <= now' THEN 0 ELSE block[i]
    BY <1>1 DEF Tick, BackoffTypeOK, Times
  <2>3. \A r \in Requests : Delay(seen[<<r, i>>]) \in 0 .. MaxDelay
    BY DelayType DEF BackoffTypeOK
  <2> USE <2>1, <2>2, <2>3
      DEF Undisturbed, Counted, BeforeBlock, OwnBlock, Penalty, Recovers
  <2>4. \A r \in Requests : Counted(r, i)' OBVIOUS
  <2>5. \A r \in Requests : BeforeBlock(r, i)' OBVIOUS
  <2>6. \A r \in Requests : OwnBlock(r, i)' BY DEF Delay
  <2>7. Penalty(i)' OBVIOUS
  <2>8. Recovers(i)' OBVIOUS
  <2> QED BY <2>4, <2>5, <2>6, <2>7, <2>8
<1>2. ASSUME NEW r \in Requests,
             \/ \E ids \in SUBSET Identities : Arrive(r, ids)
             \/ Respond(r)
      PROVE  Undisturbed(i)'
  <2>1. /\ UNCHANGED <<now, count, expiry, block>>
        /\ \A q \in Requests :
             \/ /\ at'[<<q, i>>] = at[<<q, i>>]
                /\ seen'[<<q, i>>] = seen[<<q, i>>]
             \/ at[<<q, i>>] \in Done /\ at'[<<q, i>>] \in {"idle", "pttl"}
    BY <1>2 DEF Arrive, Respond, Leave, BackoffTypeOK, Done
  <2> QED BY <2>1 DEF Undisturbed, Counted, BeforeBlock, OwnBlock, Penalty,
          Recovers, Delay, Done
<1>3. ASSUME NEW r \in Requests, ResetAuthAttempts(r) PROVE Undisturbed(i)'
  <2>1. \A q \in Requests : at[<<q, i>>] \in Done
    <3> SUFFICES ASSUME NEW q \in Requests, at[<<q, i>>] \notin Done
                 PROVE  FALSE
      OBVIOUS
    <3>1. <<q, i>> \in Checks /\ <<q, i>>[2] = i OBVIOUS
    <3>2. i \in crossed' BY <1>3, <3>1 DEF ResetAuthAttempts
    <3> QED BY <3>2 DEF Clean
  <2>2. /\ now' = now /\ now \in Nat /\ count'[i] = 0 /\ block'[i] = 0
        /\ \A q \in Requests : at'[<<q, i>>] \in Done
    BY <1>3, <2>1 DEF ResetAuthAttempts, Leave, BackoffTypeOK, Done
  <2> QED BY <2>2 DEF Undisturbed, Counted, BeforeBlock, OwnBlock, Penalty,
          Recovers, Done
<1>4. ASSUME NEW c \in Checks, Check(c) \/ Fail(c) PROVE Undisturbed(i)'
  BY <1>4, CheckStep
<1>5. CASE UNCHANGED backoff
  BY <1>5, BackoffFrame DEF backoff
<1> QED BY <1>1, <1>2, <1>3, <1>4, <1>5 DEF BackoffNext

\* AuthBackoff's state keeps its type, whatever the delays and the clock.
THEOREM BackoffTypeCorrect == BackoffSpec => []BackoffTypeOK
<1>1. BackoffInv => BackoffTypeOK BY DEF BackoffInv
<1> QED BY <1>1, BackoffStart, BackoffStep, PTL DEF BackoffSpec

\* While a block lasts, its identity's counter lasts and stays above the free
\* attempts (recordAuthAttempt prolongs the counter to the block's length),
\* for any delays, decay and number of requests at once.
THEOREM PenaltiesCount == BackoffSpec => []PenaltyKeepsCounting
<1>1. BackoffInv => PenaltyKeepsCounting
  BY DEF BackoffInv, PenaltyKeepsCounting, Undisturbed, Penalty, Clean
<1> QED BY <1>1, BackoffStart, BackoffStep, PTL DEF BackoffSpec

\* No counter stays for good unless a call failed, and no block is longer
\* than the longest.
THEOREM CountersExpire == BackoffSpec => []CounterExpires
<1>1. BackoffInv => CounterExpires
  BY DEF BackoffInv, CounterExpires, Undisturbed, Recovers, Clean, BlocksCapped
<1> QED BY <1>1, BackoffStart, BackoffStep, PTL DEF BackoffSpec
===============================================================================
