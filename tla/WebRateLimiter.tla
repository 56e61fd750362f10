--------------------------- MODULE WebRateLimiter ---------------------------
(***************************************************************************)
(* The token buckets of a BNWeb server (libraries/bn_web/src/web/server.rs,*)
(* RateLimiter).  A bucket keeps whole tokens and the instant up to which  *)
(* elapsed time was turned into tokens; both conversions round down, so    *)
(* what is left of a millisecond or of a token has to survive in one of    *)
(* the two.  Beside each bucket the model keeps an ideal one, in           *)
(* thousandths of a token, and what the bucket has granted since it was    *)
(* made.                                                                   *)
(***************************************************************************)
EXTENDS Integers, FiniteSets

CONSTANTS
    Keys,     \* client keys, numbers so that ties have an order
    Burst,    \* rate_limit_burst
    Rate,     \* rate_limit_refill_per_second
    MaxKeys,  \* rate_limit_key_capacity
    Steps,    \* how many milliseconds may pass between two requests
    MaxNow    \* bound: the clock

\* Assumed of the constants by the module that instantiates this one.
RateConstants ==
    /\ Keys \subseteq Nat /\ IsFiniteSet(Keys)
    /\ Burst \in Nat \ {0} /\ Rate \in Nat \ {0} /\ MaxKeys \in Nat \ {0}
    /\ Steps \subseteq Nat \ {0} /\ MaxNow \in Nat

VARIABLES
    buckets,  \* RateLimiter.buckets
    now,      \* the clock, in milliseconds
    ledger    \* per bucket: when it was made, what it granted, the ideal credit

vars == <<buckets, now, ledger>>

Least(a, b) == IF a < b THEN a ELSE b

\* The tokens elapsed time is worth, and the time those tokens are worth.
refill(bucket) == ((now - bucket.updated) * Rate) \div 1000
converted(tokens) == (tokens * 1000) \div Rate

\* The bucket after its refill: the instant moves by the converted time.
LosesRemainder(bucket) ==
    [tokens |-> Least(bucket.tokens + refill(bucket), Burst), updated |-> now]

Refilled(bucket) ==
    [tokens |-> Least(bucket.tokens + refill(bucket), Burst),
     updated |-> bucket.updated + converted(refill(bucket))]

\* The bucket a full table forgets: the least recently updated, then the
\* smallest key.
victim ==
    CHOOSE k \in DOMAIN buckets : \A j \in DOMAIN buckets :
        \/ buckets[k].updated < buckets[j].updated
        \/ buckets[k].updated = buckets[j].updated /\ k <= j

\* The table with room for one more bucket.
Kept ==
    IF Cardinality(DOMAIN buckets) >= MaxKeys THEN DOMAIN buckets \ {victim} ELSE DOMAIN buckets

Init == buckets = << >> /\ now = 0 /\ ledger = << >>

\* The ideal bucket: credit grows with every millisecond, up to the burst,
\* and pays for every grant.
Credit(k) == Least(ledger[k].credit + Rate * (now - ledger[k].at), 1000 * Burst)

Account(k, granted) ==
    ledger' = [ledger EXCEPT ![k] =
        [since |-> @.since, at |-> now,
         granted |-> @.granted + (IF granted THEN 1 ELSE 0),
         credit |-> Credit(k) - (IF granted THEN 1000 ELSE 0),
         starved |-> Credit(k) >= 1000 /\ ~granted]]

\* A request of a key that has a bucket: refilled, then granted or refused.
AllowKnown(k) ==
    /\ k \in DOMAIN buckets
    /\ LET bucket == Refilled(buckets[k]) IN
       \/ /\ bucket.tokens > 0
          /\ buckets' = [buckets EXCEPT ![k] = [bucket EXCEPT !.tokens = @ - 1]]
          /\ Account(k, TRUE)
       \/ /\ bucket.tokens = 0
          /\ buckets' = [buckets EXCEPT ![k] = bucket]
          /\ Account(k, FALSE)
    /\ UNCHANGED now

\* A request of a new key: granted from a full bucket.
AllowNew(k) ==
    /\ k \notin DOMAIN buckets
    /\ buckets' = [j \in Kept \cup {k} |->
                     IF j = k THEN [tokens |-> Burst - 1, updated |-> now] ELSE buckets[j]]
    /\ ledger' = [j \in Kept \cup {k} |->
                     IF j = k THEN [since |-> now, at |-> now, granted |-> 1,
                                    credit |-> 1000 * (Burst - 1), starved |-> FALSE]
                     ELSE ledger[j]]
    /\ UNCHANGED now

\* Time passes between requests.
Pass(d) ==
    /\ now + d <= MaxNow
    /\ now' = now + d
    /\ UNCHANGED <<buckets, ledger>>

Next ==
    \/ \E k \in Keys : AllowKnown(k) \/ AllowNew(k)
    \/ \E d \in Steps : Pass(d)

Spec == Init /\ [][Next]_vars

(***************************************************************************)
(* Properties.                                                             *)
(***************************************************************************)
\* A bucket grants its burst and then refill_per_second: the instant stands
\* for the time already turned into tokens, so no time is turned twice.
GrantsKeepTheRate ==
    \A k \in DOMAIN ledger :
        1000 * ledger[k].granted <= 1000 * Burst + Rate * (now - ledger[k].since)

\* Rounding never refuses a request that whole-millisecond credit would
\* grant: what is left of a token stays in the instant.
NoRequestIsStarved == \A k \in DOMAIN ledger : ~ledger[k].starved
=============================================================================
