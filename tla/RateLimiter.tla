----------------------------- MODULE RateLimiter -----------------------------
(***************************************************************************)
(* The token buckets that limit the requests of a client                   *)
(* (common/rate-limiter.ts), one for each key, in a table of bounded size. *)
(* A bucket that has rested until it is full is as good as none; when the  *)
(* table overflows these are dropped, and then the oldest.                 *)
(***************************************************************************)
EXTENDS Integers, FiniteSets

CONSTANTS
    Key,
    Rate,         \* ratePerSecond: tokens in a tick
    Burst,
    MaxKeys,
    MaxTime,
    MaxForgotten  \* the bound on the drops of buckets that have not rested

ASSUME RateAssumption ==
    /\ Rate \in Nat \ {0} /\ Burst \in Nat \ {0} /\ MaxKeys \in Nat \ {0}
    /\ MaxTime \in Nat /\ MaxForgotten \in Nat

VARIABLES
    clock,
    buckets,      \* the table: a bucket for each key it holds
    fair,         \* the tokens of a bucket that is never dropped, which the program lacks
    forgotten     \* how often the bucket of a key was dropped before it had rested

rateVars == <<clock, buckets, fair, forgotten>>

-----------------------------------------------------------------------------
Time == 0 .. MaxTime
Bucket == [tokens : 0 .. Burst, updatedAt : Time]
Least(a, b) == IF a < b THEN a ELSE b

\* What a key has now; a key without a bucket has the whole burst.
Tokens(k) ==
    IF k \in DOMAIN buckets
    THEN Least(Burst, buckets[k].tokens + (clock - buckets[k].updatedAt) * Rate)
    ELSE Burst

\* A bug: a bucket that nobody touched for a tick is taken to be full.
RestedSoon(b) == clock - b.updatedAt >= 1

\* Idle for burst / rate: full, whatever it held.
Rested(b) == (clock - b.updatedAt) * Rate >= Burst

\* The tables that are left of t when key k was put into a full one: the rested buckets
\* go, and if that is not enough the least recently used; of the buckets used in this
\* instant, that of k is the youngest.
Evictions(t, k) ==
    LET rest == {x \in DOMAIN t : ~Rested(t[x])}
        kept == {S \in SUBSET rest :
                    /\ Cardinality(S) = Least(MaxKeys, Cardinality(rest))
                    /\ k \in rest => k \in S
                    /\ \A x \in rest \ S, y \in S : t[x].updatedAt <= t[y].updatedAt}
    IN  IF Cardinality(DOMAIN t) <= MaxKeys THEN {DOMAIN t} ELSE kept

\* consume of a key that has no token left
Refuse(k) ==
    /\ Tokens(k) < 1
    /\ buckets' = [x \in DOMAIN buckets \union {k} |->
                     IF x = k THEN [tokens |-> Tokens(k), updatedAt |-> clock] ELSE buckets[x]]
    /\ UNCHANGED <<clock, fair, forgotten>>

\* consume of a key that has one, and evict
Allow(k) ==
    LET t == [x \in DOMAIN buckets \union {k} |->
                 IF x = k THEN [tokens |-> Tokens(k) - 1, updatedAt |-> clock] ELSE buckets[x]]
    IN  /\ Tokens(k) >= 1
        /\ \E kept \in Evictions(t, k) :
              /\ buckets' = [x \in kept |-> t[x]]
              /\ forgotten' = [x \in Key |->
                    forgotten[x] + IF x \in DOMAIN t \ kept /\ ~Rested(t[x]) THEN 1 ELSE 0]
        /\ \A x \in Key : forgotten'[x] <= MaxForgotten
        /\ fair' = [fair EXCEPT ![k] = @ - 1]
        /\ UNCHANGED clock

Tick ==
    /\ clock < MaxTime
    /\ clock' = clock + 1
    /\ fair' = [k \in Key |-> Least(Burst, fair[k] + Rate)]
    /\ UNCHANGED <<buckets, forgotten>>

Init ==
    /\ clock = 0
    /\ buckets = [k \in {} |-> 0]
    /\ fair = [k \in Key |-> Burst]
    /\ forgotten = [k \in Key |-> 0]

Next ==
    \/ \E k \in Key : Refuse(k) \/ Allow(k)
    \/ Tick

Spec == Init /\ [][Next]_rateVars
-----------------------------------------------------------------------------
\* Properties

\* The table is never larger than its limit, and what it holds are buckets.
TypeOK ==
    /\ clock \in Time
    /\ DOMAIN buckets \subseteq Key /\ Cardinality(DOMAIN buckets) <= MaxKeys
    /\ \A k \in DOMAIN buckets : buckets[k] \in Bucket
    /\ fair \in [Key -> Int]
    /\ forgotten \in [Key -> 0 .. MaxForgotten]

\* A key has exactly the tokens of a bucket that is never dropped, whatever rested
\* buckets were forgotten and whoever else filled the table; each time its bucket was
\* dropped too early it has gained a burst at most.
RateHeld ==
    \A k \in Key : Tokens(k) - fair[k] \in 0 .. Burst * forgotten[k]
=============================================================================
