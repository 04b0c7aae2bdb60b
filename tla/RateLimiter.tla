------------------------------ MODULE RateLimiter ------------------------------
(***************************************************************************)
(* The token bucket of packages/transport (rate-limiter.ts).               *)
(*                                                                         *)
(* A bucket is refilled lazily, by the time since it was last looked at,   *)
(* in every call of consume(), granted or not.  Tokens are counted in      *)
(* units so that a refill is a whole number: Cost units make one token and *)
(* Rate units come back per tick (with a tick of a millisecond, Cost is    *)
(* 60000 and Rate is requestsPerMinute).  The clock does not run backwards.*)
(* reset() and clear() have no caller in the repository and are left out.  *)
(***************************************************************************)
EXTENDS Naturals

CONSTANTS
    Key,        \* client addresses
    Cost, Rate,
    Burst,      \* burstSize
    Horizon     \* bound of the clock

ASSUME LimitAssumption ==
    Cost \in Nat \ {0} /\ Rate \in Nat /\ Burst \in Nat /\ Horizon \in Nat

VARIABLES
    now,            \* Date.now()
    buckets,        \* keys that have a bucket
    tokens, lastRefill,
    from, granted   \* history: requests granted to a key at time from or later

bucketVars  == <<buckets, tokens, lastRefill>>
vars        == <<now, bucketVars, from, granted>>

TypeOK ==
    /\ now \in 0..Horizon
    /\ buckets \subseteq Key
    /\ tokens \in [Key -> 0..Burst * Cost]
    /\ lastRefill \in [Key -> 0..now]
    /\ from \in 0..Horizon
    /\ granted \in [Key -> Nat]

\* What a key without a bucket maps to is never read.
Init ==
    /\ now = 0
    /\ buckets = {} /\ tokens = [k \in Key |-> 0] /\ lastRefill = [k \in Key |-> 0]
    /\ from \in 0..Horizon
    /\ granted = [k \in Key |-> 0]

\* The tokens of a key after the refill that consume() begins with.
Refilled(k) ==
    IF k \in buckets
    THEN LET t == tokens[k] + (now - lastRefill[k]) * Rate
         IN  IF t > Burst * Cost THEN Burst * Cost ELSE t
    ELSE Burst * Cost

\* Mutant: the time of the refill is not recorded.
LookAt_StaleClock(k, t) ==
    /\ buckets' = buckets \cup {k}
    /\ tokens' = [tokens EXCEPT ![k] = t]
    /\ UNCHANGED <<now, from, lastRefill>>

LookAt(k, t) ==
    /\ buckets' = buckets \cup {k}
    /\ tokens' = [tokens EXCEPT ![k] = t]
    /\ lastRefill' = [lastRefill EXCEPT ![k] = now]
    /\ UNCHANGED <<now, from>>

\* consume() returns true.
Grant(k) ==
    /\ Refilled(k) >= Cost
    /\ LookAt(k, Refilled(k) - Cost)
    /\ granted' = [granted EXCEPT ![k] = IF now >= from THEN @ + 1 ELSE @]

\* consume() returns false.
Deny(k) ==
    /\ Refilled(k) < Cost
    /\ LookAt(k, Refilled(k))
    /\ UNCHANGED granted

Tick ==
    /\ now < Horizon
    /\ now' = now + 1
    /\ UNCHANGED <<bucketVars, from, granted>>

Next == Tick \/ \E k \in Key : Grant(k) \/ Deny(k)

Spec == Init /\ [][Next]_vars

-----------------------------------------------------------------------------
(***************************************************************************)
(* Whatever window of time one looks at (it begins at from, which is any   *)
(* moment, and ends now), a client is granted at most a burst and what the *)
(* rate allows for its length: denied requests, idle times and the first   *)
(* request of a client do not create tokens.                               *)
(***************************************************************************)
WindowBound ==
    \A k \in Key :
        IF now < from THEN granted[k] = 0
        ELSE granted[k] * Cost <= Burst * Cost + (now - from) * Rate
=============================================================================
