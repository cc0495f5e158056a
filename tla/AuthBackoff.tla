----------------------------- MODULE AuthBackoff -----------------------------
(***************************************************************************)
(* The strict tier of rate limiting: authRateLimiter                       *)
(* (rateLimit.middleware.js) and the counter and block it keeps in Redis   *)
(* for an address and for an account (redis.service.js).                   *)
(*                                                                         *)
(* A request checks its identities at the same time; each check is a       *)
(* sequence of Redis calls, and those of other requests run between them.  *)
(* A key is gone when its time has come.  Time is in units of the base     *)
(* delay.                                                                  *)
(***************************************************************************)
EXTENDS Naturals

CONSTANTS Identities, Requests,
          Free,       \* freeAttempts
          Base, MaxDelay, Decay,
          Never,      \* the expiry of a key that has none
          MaxTime,    \* bound: time
          MaxSpent    \* bound: attempts and failures

ASSUME BackoffAssumption ==
  /\ Free \in Nat /\ MaxTime \in Nat /\ MaxSpent \in Nat
  /\ Base \in Nat \ {0} /\ MaxDelay \in Nat \ {0} /\ Decay \in Nat \ {0}
  /\ Never \in Nat /\ Never > MaxTime + Decay + MaxDelay

VARIABLES
  now,
  count, expiry,  \* the counter of each identity and when it expires
  block,          \* when the block of each identity expires; 0 without one
  at,             \* the call each check of a request waits for
  seen,           \* the count its INCR returned
  broken,         \* identities one of whose checks failed (history)
  crossed,        \* those cleared or expired beside a check in flight, or
                  \* blocked beside one (history)
  spent

backoff == <<now, count, expiry, block, at, seen, broken, crossed, spent>>

Checks == Requests \X Identities
Done == {"idle", "free", "limited", "failed"}

BackoffInit ==
  /\ now = 0
  /\ count = [i \in Identities |-> 0]
  /\ expiry = [i \in Identities |-> Never]
  /\ block = [i \in Identities |-> 0]
  /\ at = [c \in Checks |-> "idle"] /\ seen = [c \in Checks |-> 0]
  /\ broken = {} /\ crossed = {}
  /\ spent = 0

Spend == spent < MaxSpent /\ spent' = spent + 1
Await(c, pc) == at' = [at EXCEPT ![c] = pc]
Awaits(c, pc) == at[c] = pc
Larger(a, b) == IF a > b THEN a ELSE b

\* Mutation: the delay has no cap.
DelayUncapped(n) == Base * 2 ^ (n - Free - 1)

\* min(base * 2^(violations - 1), max)
Delay(n) ==
  LET d == Base * 2 ^ (n - Free - 1) IN IF d \in 0 .. MaxDelay THEN d
                                                             ELSE MaxDelay

-----------------------------------------------------------------------------
\* A request arrives; an e-mail names an account as well.
Arrive(r, ids) ==
  /\ Spend
  /\ ids # {} /\ \A i \in Identities : at[<<r, i>>] = "idle"
  /\ at' = [c \in Checks |-> IF c[1] = r /\ c[2] \in ids THEN "pttl"
                             ELSE at[c]]
  /\ UNCHANGED <<now, count, expiry, block, seen, broken, crossed>>

\* Who is blocked is refused and not counted.
Pttl(c) ==
  /\ Awaits(c, "pttl")
  /\ Await(c, IF block[c[2]] > now THEN "limited" ELSE "incr")
  /\ UNCHANGED <<now, count, expiry, block, seen, broken, crossed, spent>>

Incr(c) ==
  LET n == count[c[2]] + 1 IN
  /\ Awaits(c, "incr")
  /\ count' = [count EXCEPT ![c[2]] = n]
  /\ seen' = [seen EXCEPT ![c] = n]
  /\ Await(c, IF n = 1 THEN "pexpire"
              ELSE IF n <= Free THEN "free" ELSE "block")
  /\ UNCHANGED <<now, expiry, block, broken, crossed, spent>>

\* PEXPIRE of a key that is gone does nothing.
SetExpiry(i, t) ==
  expiry' = IF count[i] = 0 THEN expiry ELSE [expiry EXCEPT ![i] = t]

\* Mutation: the counter is not given an expiry.
PExpireNever(c) ==
  /\ Awaits(c, "pexpire")
  /\ Await(c, IF seen[c] <= Free THEN "free" ELSE "block")
  /\ UNCHANGED <<now, count, expiry, block, seen, broken, crossed, spent>>

PExpire(c) ==
  /\ Awaits(c, "pexpire")
  /\ SetExpiry(c[2], now + Decay)
  /\ Await(c, IF seen[c] <= Free THEN "free" ELSE "block")
  /\ UNCHANGED <<now, count, block, seen, broken, crossed, spent>>

\* A later SET replaces the block of another check, be it longer.
SetBlock(c) ==
  /\ Awaits(c, "block")
  /\ block' = [block EXCEPT ![c[2]] = now + Delay(seen[c])]
  /\ Await(c, "keep")
  /\ crossed' = IF \E d \in Checks : d # c /\ d[2] = c[2]
                                     /\ at[d] \in {"pexpire", "block", "keep"}
                THEN crossed \cup {c[2]} ELSE crossed
  /\ UNCHANGED <<now, count, expiry, seen, broken, spent>>

\* Mutation: the counter lives for the decay, be the block longer.
KeepDecay(c) ==
  /\ Awaits(c, "keep")
  /\ SetExpiry(c[2], now + Decay)
  /\ Await(c, "limited")
  /\ UNCHANGED <<now, count, block, seen, broken, crossed, spent>>

Keep(c) ==
  /\ Awaits(c, "keep")
  /\ SetExpiry(c[2], now + Larger(Decay, Delay(seen[c])))
  /\ Await(c, "limited")
  /\ UNCHANGED <<now, count, block, seen, broken, crossed, spent>>

\* A Redis call fails, and the check with it.
Fail(c) ==
  /\ Spend
  /\ at[c] \notin Done
  /\ Await(c, "failed")
  /\ broken' = broken \cup {c[2]}
  /\ UNCHANGED <<now, count, expiry, block, seen, crossed>>

Limited(r) == \E i \in Identities : at[<<r, i>>] = "limited"
Failed(r) == \E i \in Identities : at[<<r, i>>] = "failed"

\* Promise.all: all are over, or one failed and the others run on unawaited.
Settled(r) == Failed(r) \/ \A i \in Identities : at[<<r, i>>] \in Done
Leave(r) ==
  /\ at' = [c \in Checks |-> IF c[1] = r /\ at[c] \in Done THEN "idle"
                             ELSE at[c]]
  /\ seen' = [c \in Checks |-> IF c[1] = r /\ at[c] \in Done THEN 0
                               ELSE seen[c]]

\* 429, or on to the handler: also when a check failed, whatever the others
\* say.
Respond(r) ==
  /\ Settled(r) /\ \E i \in Identities : at[<<r, i>>] # "idle"
  /\ Leave(r)
  /\ UNCHANGED <<now, count, expiry, block, broken, crossed, spent>>

\* A login that succeeds clears the address and the account.
ResetAuthAttempts(r) ==
  /\ Settled(r) /\ \A i \in Identities : at[<<r, i>>] # "idle"
  /\ Failed(r) \/ ~ Limited(r)
  /\ Leave(r)
  /\ count' = [i \in Identities |-> 0]
  /\ expiry' = [i \in Identities |-> Never]
  /\ block' = [i \in Identities |-> 0]
  /\ crossed' = crossed \cup {c[2] : c \in {d \in Checks : at[d] \notin Done}}
  /\ UNCHANGED <<now, broken, spent>>

\* Time passes and what expires is gone.
Tick ==
  /\ now < MaxTime /\ now' = now + 1
  /\ count' = [i \in Identities |-> IF expiry[i] <= now' THEN 0 ELSE count[i]]
  /\ expiry' = [i \in Identities |-> IF expiry[i] <= now' THEN Never
                                                          ELSE expiry[i]]
  /\ block' = [i \in Identities |-> IF block[i] <= now' THEN 0 ELSE block[i]]
  /\ crossed' = crossed \cup {c[2] : c \in {d \in Checks :
                  /\ at[d] \in {"pexpire", "block", "keep"}
                  /\ expiry[d[2]] <= now'}}
  /\ UNCHANGED <<at, seen, broken, spent>>

Check(c) == Pttl(c) \/ Incr(c) \/ PExpire(c) \/ SetBlock(c) \/ Keep(c)

BackoffNext ==
  \/ Tick
  \/ \E r \in Requests :
       \/ \E ids \in SUBSET Identities : Arrive(r, ids)
       \/ Respond(r) \/ ResetAuthAttempts(r)
  \/ \E c \in Checks : Check(c) \/ Fail(c)

BackoffSpec == BackoffInit /\ [][BackoffNext]_backoff

-----------------------------------------------------------------------------
(* Properties.                                                             *)

Times == 0 .. MaxTime + Decay + MaxDelay

BackoffTypeOK ==
  /\ now \in 0 .. MaxTime
  /\ count \in [Identities -> Nat]
  /\ expiry \in [Identities -> Times \cup {Never}]
  /\ block \in [Identities -> Times]
  /\ at \in [Checks -> Done \cup {"pttl", "incr", "pexpire", "block", "keep"}]
  /\ seen \in [Checks -> Nat]
  /\ broken \subseteq Identities /\ crossed \subseteq Identities
  /\ spent \in Nat

\* redis.service.js:236: as long as a block lasts, its identity's counter does
\* and stays above the free attempts, so that who comes back early climbs on
\* and nobody starts anew in the middle of a penalty: unless a call failed, a
\* login cleared the identity beside a check, or two checks were at it
\* at once, the shorter time last.
PenaltyKeepsCounting ==
  \A i \in Identities \ (broken \cup crossed) :
    block[i] > now /\ (\A r \in Requests : at[<<r, i>>] # "keep")
      => count[i] > Free /\ expiry[i] >= block[i]

\* constants.js:178: every identity recovers: no counter stays for good, unless
\* a call failed between the INCR and the PEXPIRE, and no block is longer than
\* the longest.
CounterExpires ==
  \A i \in Identities :
    /\ block[i] <= now + MaxDelay
    /\ i \notin broken \cup crossed /\ count[i] > 0 /\ expiry[i] = Never
         => \E r \in Requests : at[<<r, i>>] = "pexpire"
=============================================================================
