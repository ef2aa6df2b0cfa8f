---------------------------- MODULE RateLimiter -----------------------------
(***************************************************************************)
(* rateLimiter (internal/hub/server.go): a bucket of tokens per caller,    *)
(* refilled with time.  A unit of the clock is the time one token takes    *)
(* to come back; buckets is a function from the callers that have one.     *)
(***************************************************************************)
EXTENDS Integers, FiniteSets

CONSTANTS
    Burst,      \* tokens of a full bucket (30)
    MaxBuckets  \* buckets kept (128)

ASSUME RateLimiterAssumption == Burst \in Nat \ {0} /\ MaxBuckets \in Nat \ {0}

Smaller(a, b) == IF a < b THEN a ELSE b

\* The bucket a caller is charged on: what came back since the last charge.
Refilled(buckets, key, now) ==
    IF key \in DOMAIN buckets
    THEN Smaller(Burst, buckets[key].tokens + (now - buckets[key].updated))
    ELSE Burst

\* The buckets that stay when key needs one: of a full map the least recently
\* charged goes (which of several as old is up to the map).
Kept(buckets, key) ==
    IF key \in DOMAIN buckets \/ Cardinality(DOMAIN buckets) < MaxBuckets
    THEN {DOMAIN buckets}
    ELSE {DOMAIN buckets \ {old} : old \in
            {k \in DOMAIN buckets : \A l \in DOMAIN buckets : buckets[k].updated <= buckets[l].updated}}

\* allow: the outcomes of a charge on the caller's bucket.
Charged(buckets, key, now) ==
    LET tokens == Refilled(buckets, key, now)
        left == [tokens |-> IF tokens >= 1 THEN tokens - 1 ELSE tokens, updated |-> now]
    IN  {[ok |-> tokens >= 1,
          buckets |-> [k \in kept \union {key} |-> IF k = key THEN left ELSE buckets[k]]]
         : kept \in Kept(buckets, key)}

Retained(buckets, keys) == [k \in DOMAIN buckets \intersect keys |-> buckets[k]]
=============================================================================
