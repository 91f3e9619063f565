------------------------------ MODULE RateLimit ------------------------------
(***************************************************************************)
(* The token buckets of the gateway, one per bucket name and key, in the   *)
(* memory of one process.  Tokens are whole parts of a request: a request  *)
(* costs Cost of them.                                                     *)
(***************************************************************************)
EXTENDS IdentityService

CONSTANTS
    Bucket,     \* pairs of a bucket name and a key
    Capacity,   \* per bucket
    Refill,     \* per bucket, parts per instant
    Cost        \* parts a request costs

ASSUME RateAssumption ==
    /\ Cost \in Nat \ {0}
    /\ Capacity \in [Bucket -> Nat \ {0}]
    /\ Refill \in [Bucket -> Nat \ {0}]

VARIABLES
    bucket,     \* per bucket its tokens and updated_at
    passed      \* per bucket and instant, how many requests passed before it

rateVars == <<bucket, passed>>

\* The first use of a key creates its bucket full.
RateInit ==
    /\ bucket = [k \in Bucket |-> [tokens |-> Capacity[k], updatedAt |-> 0]]
    /\ passed = [k \in Bucket |-> [t \in 0..(MaxTime + 1) |-> 0]]

Lesser(a, b) == IF a < b THEN a ELSE b

Refilled(k) ==
    Lesser(Capacity[k], bucket[k].tokens + (clock - bucket[k].updatedAt) * Refill[k])

Passes(k) == Refilled(k) >= Cost

OneMore(counts) == [t \in 0..(MaxTime + 1) |-> IF t > clock THEN counts[t] + 1 ELSE counts[t]]

\* Mutant: the time of the refill is noted only when a request passes.
Consume_LateTime(k, passes) ==
    /\ passes = Passes(k)
    /\ bucket' = [bucket EXCEPT ![k] =
         [tokens |-> IF passes THEN Refilled(k) - Cost ELSE Refilled(k),
          updatedAt |-> IF passes THEN clock ELSE @.updatedAt]]
    /\ passed' = IF passes THEN [passed EXCEPT ![k] = OneMore(@)] ELSE passed

\* consume, with its answer.
Consume(k, passes) ==
    /\ passes = Passes(k)
    /\ bucket' = [bucket EXCEPT ![k] =
         [tokens |-> IF passes THEN Refilled(k) - Cost ELSE Refilled(k),
          updatedAt |-> clock]]
    /\ passed' = IF passes THEN [passed EXCEPT ![k] = OneMore(@)] ELSE passed

\* A bucket that an instance cannot empty keeps no state there.
Use(k, passes) ==
    IF k \in setting.limited THEN Consume(k, passes) ELSE passes = TRUE /\ UNCHANGED rateVars

\* _rate_key: the caller where it is known, else its address, with the name
\* it gives where the body has one.  All of the console is one address.  The
\* key of a known caller also has the tenant that the request names; here every
\* request names the same.
ReadKey(u) == <<"admin-read", u>>
LoginKey(u) == <<"auth-login", u>>
RefreshKey == <<"auth-login", "ip">>

-----------------------------------------------------------------------------
Since(k, from) == passed[k][clock + 1] - passed[k][from]

\* In any stretch of time no more requests pass than the bucket holds when
\* full and what flows into it meanwhile (TokenBucketLimiter.consume).
WithinRate ==
    \A k \in Bucket : \A from \in 0..clock :
        Since(k, from) * Cost <= Capacity[k] + (clock - from) * Refill[k]
=============================================================================
