----------------------------- MODULE Live_proofs -----------------------------
(***************************************************************************)
(* What the parts of MCLive promise: the feed of shouts and who follows    *)
(* it, what the players of a channel see, the pages of the markets, and    *)
(* the search for a route, for every map and any number of players,        *)
(* shouts, messages, monsters, fires, deals, listings and quotes.  Each    *)
(* part has its own inductive invariant; the steps of the others leave its *)
(* variables alone.  What the pages list, cut and count are places in one  *)
(* order; a route is a shortest one because the maps that wait are ordered *)
(* by the lengths of their routes, and whatever is nearer was visited.     *)
(* First what these proofs and those of WorldQueries_proofs share: ranks,  *)
(* cuts, pages, imports and chains of references.                          *)
(***************************************************************************)
EXTENDS MCLive, FiniteSetTheorems, WellFoundedInduction, TLAPS

\* A step is one of the part, or leaves it as it is.
LEMMA StepsApart ==
    ASSUME [LiveNext]_liveVars
    PROVE  /\ Fires!Next \/ UNCHANGED fireVars
           /\ World!Next \/ UNCHANGED worldVars
           /\ Feed!Next \/ UNCHANGED feedVars
           /\ Chat!Next \/ UNCHANGED chatVars
           /\ Figures!Next \/ UNCHANGED closed
           /\ Pages!Next \/ UNCHANGED board
           /\ Search!Next \/ UNCHANGED searchVars
           /\ Route!Next \/ UNCHANGED routeVars
<1>1. CASE UNCHANGED liveVars
  BY <1>1 DEF liveVars, fireVars, worldVars, feedVars, chatVars, searchVars, routeVars
<1>2. CASE LiveNext
  BY <1>2 DEF LiveNext, LiveIn
<1> QED
  BY <1>1, <1>2

\* Each instance counts as its user does.
LEMMA SameCount ==
    /\ \A S : Feed!Cardinality(S) = Cardinality(S)
    /\ \A S : Fires!Cardinality(S) = Cardinality(S)
    /\ \A S : World!Cardinality(S) = Cardinality(S)
  BY DEF Feed!Cardinality, Fires!Cardinality, World!Cardinality, Cardinality

\* Of some things in a strict order, of which there are finitely many, one comes first.
LEMMA Foremost ==
    ASSUME NEW S, IsFiniteSet(S), S # {}, NEW R,
           \A a, b \in S : a = b \/ <<a, b>> \in R \/ <<b, a>> \in R,
           \A a \in S : <<a, a>> \notin R,
           \A a, b, c \in S : <<a, b>> \in R /\ <<b, c>> \in R => <<a, c>> \in R
    PROVE  \E m \in S : \A k \in S : k = m \/ <<m, k>> \in R
<1> DEFINE before == [m \in S |-> {x \in S : <<x, m>> \in R}]
           T == {before[m] : m \in S}
<1>1. T \subseteq FiniteSubsetsOf(S) /\ T # {}
  <2>1. \A m \in S : IsFiniteSet(before[m]) /\ before[m] \in SUBSET S
    BY FS_Subset
  <2>2. \A m \in S : before[m] \in FiniteSubsetsOf(S)
    BY <2>1 DEF FiniteSubsetsOf
  <2> HIDE DEF before
  <2> QED
    BY <2>2
<1>2. PICK x \in T : \A y \in T : <<y, x>> \notin StrictSubsetOrdering(S)
  <2> HIDE DEF T
  <2> QED
    BY <1>1, FS_StrictSubsetOrderingWellFounded, WFMin
<1>3. PICK m \in S : x = before[m]
  OBVIOUS
<1>4. ASSUME NEW k \in S, k # m, <<m, k>> \notin R PROVE FALSE
  <2>1. <<k, m>> \in R
    BY <1>4
  <2>2. before[k] \subseteq before[m] /\ k \in before[m] /\ k \notin before[k]
    BY <2>1
  <2>3. <<before[k], x>> \in StrictSubsetOrdering(S)
    BY <1>3, <2>2 DEF StrictSubsetOrdering
  <2> QED
    BY <1>2, <2>3
<1> QED
  BY <1>4

\* The same, of an order that has a name.
StrictOrder(S, R) ==
    /\ \A a, b \in S : a = b \/ <<a, b>> \in R \/ <<b, a>> \in R
    /\ \A a \in S : <<a, a>> \notin R
    /\ \A a, b, c \in S : <<a, b>> \in R /\ <<b, c>> \in R => <<a, c>> \in R
HasFirst(S, R) == \E m \in S : \A k \in S : k = m \/ <<m, k>> \in R

LEMMA OrderedFirst ==
    ASSUME NEW S, IsFiniteSet(S), S # {}, NEW R, StrictOrder(S, R)
    PROVE  HasFirst(S, R)
  BY Foremost DEF StrictOrder, HasFirst

-----------------------------------------------------------------------------
\* Places in an order

\* How many of S come before x in the order R
RankIn(S, R, x) == Cardinality({y \in S : <<y, x>> \in R})

\* In a strict order of finitely many things, ranks tell which comes before which.
LEMMA RankLess ==
    ASSUME NEW S, IsFiniteSet(S), NEW R, StrictOrder(S, R)
    PROVE  /\ \A x \in S : RankIn(S, R, x) \in Nat /\ RankIn(S, R, x) < Cardinality(S)
           /\ \A x, y \in S : <<x, y>> \in R <=> RankIn(S, R, x) < RankIn(S, R, y)
           /\ \A x, y \in S : RankIn(S, R, x) = RankIn(S, R, y) => x = y
<1> DEFINE before(x) == {y \in S : <<y, x>> \in R}
<1>1. \A x \in S : IsFiniteSet(before(x)) /\ Cardinality(before(x)) \in Nat
  BY FS_Subset, FS_CardinalityType
<1>2. ASSUME NEW x \in S PROVE Cardinality(before(x)) < Cardinality(S)
  <2>1. before(x) \in SUBSET S /\ before(x) # S
    BY DEF StrictOrder
  <2>2. Cardinality(before(x)) <= Cardinality(S) /\ Cardinality(before(x)) # Cardinality(S)
    <3> HIDE DEF before
    <3> QED
      BY <2>1, FS_Subset
  <2>3. Cardinality(S) \in Nat
    BY FS_CardinalityType
  <2> QED
    BY <1>1, <2>2, <2>3
<1>3. ASSUME NEW x \in S, NEW y \in S, <<x, y>> \in R
      PROVE  Cardinality(before(x)) < Cardinality(before(y))
  <2>1. before(x) \in SUBSET before(y) /\ before(x) # before(y)
    <3>1. x \in before(y) /\ x \notin before(x)
      BY <1>3 DEF StrictOrder
    <3>2. \A z \in before(x) : z \in before(y)
      BY <1>3 DEF StrictOrder
    <3> QED
      BY <3>1, <3>2
  <2>2. /\ Cardinality(before(x)) <= Cardinality(before(y))
        /\ Cardinality(before(x)) # Cardinality(before(y))
    <3>1. IsFiniteSet(before(y))
      BY <1>1
    <3> HIDE DEF before
    <3> QED
      BY <2>1, <3>1, FS_Subset
  <2> QED
    BY <1>1, <2>2
<1>4. \A x \in S : RankIn(S, R, x) = Cardinality(before(x))
  BY DEF RankIn
<1> DEFINE c == [x \in S |-> Cardinality(before(x))]
<1>5. /\ \A x \in S : c[x] \in Nat /\ RankIn(S, R, x) = c[x] /\ c[x] < Cardinality(S)
      /\ \A x, y \in S : <<x, y>> \in R => c[x] < c[y]
  BY <1>1, <1>2, <1>3, <1>4
<1>6. \A x, y \in S : x = y \/ <<x, y>> \in R \/ <<y, x>> \in R
  BY DEF StrictOrder
<1> HIDE DEF before, c
<1>7. ASSUME NEW x \in S, NEW y \in S
      PROVE  (<<x, y>> \in R <=> c[x] < c[y]) /\ (c[x] = c[y] => x = y)
  <2>1. c[x] \in Nat /\ c[y] \in Nat
    BY <1>5
  <2>2. <<x, y>> \in R => c[x] < c[y]
    BY <1>5
  <2>3. <<y, x>> \in R => c[y] < c[x]
    BY <1>5
  <2>4. x = y \/ <<x, y>> \in R \/ <<y, x>> \in R
    BY <1>6
  <2> QED
    BY <2>1, <2>2, <2>3, <2>4
<1> QED
  BY <1>5, <1>7

\* Every number below that of the things is the rank of one of them.
LEMMA RankTaken ==
    ASSUME NEW S, IsFiniteSet(S), NEW R, StrictOrder(S, R),
           NEW n \in Nat, n < Cardinality(S)
    PROVE  \E x \in S : RankIn(S, R, x) = n
<1> DEFINE c == Cardinality(S)
           r == [x \in S |-> RankIn(S, R, x)]
<1>1. c \in Nat
  BY FS_CardinalityType
<1>2. IsFiniteSet(0 .. c - 1) /\ Cardinality(0 .. c - 1) = c
  <2> HIDE DEF c
  <2>1. IsFiniteSet(0 .. c - 1)
        /\ Cardinality(0 .. c - 1) = IF 0 > c - 1 THEN 0 ELSE (c - 1) - 0 + 1
    BY <1>1, FS_Interval
  <2> QED
    BY <1>1, <2>1
<1>3. r \in [S -> 0 .. c - 1] /\ \A x, y \in S : r[x] = r[y] => x = y
  <2>1. \A x \in S : RankIn(S, R, x) \in 0 .. c - 1
    BY <1>1, RankLess
  <2>2. \A x, y \in S : RankIn(S, R, x) = RankIn(S, R, y) => x = y
    BY RankLess
  <2> HIDE DEF c
  <2> QED
    BY <2>1, <2>2
<1>4. r \in Injection(S, 0 .. c - 1)
  <2> HIDE DEF r, c
  <2> QED
    BY <1>3 DEF Injection, IsInjective
<1>5. r \in Surjection(S, 0 .. c - 1)
  <2>1. Cardinality(S) = Cardinality(0 .. c - 1)
    BY <1>2
  <2> HIDE DEF r, c
  <2> QED
    BY <1>2, <1>4, <2>1, FS_Injection
<1>6. n \in 0 .. c - 1
  BY <1>1
<1>7. \E x \in S : r[x] = n
  <2> HIDE DEF r, c
  <2> QED
    BY <1>5, <1>6 DEF Surjection
<1> QED
  BY <1>7

\* So the things with the ranks of a stretch are as many as it is long.
LEMMA RankCut ==
    ASSUME NEW S, IsFiniteSet(S), NEW R, StrictOrder(S, R),
           NEW a \in Nat, NEW b \in Nat, a <= b, b <= Cardinality(S)
    PROVE  Cardinality({x \in S : a <= RankIn(S, R, x) /\ RankIn(S, R, x) < b}) = b - a
<1> DEFINE T == {x \in S : a <= RankIn(S, R, x) /\ RankIn(S, R, x) < b}
           r == [x \in T |-> RankIn(S, R, x)]
<1>1. IsFiniteSet(a .. b - 1) /\ Cardinality(a .. b - 1) = b - a
  <2>1. IsFiniteSet(a .. b - 1)
        /\ Cardinality(a .. b - 1) = IF a > b - 1 THEN 0 ELSE (b - 1) - a + 1
    BY FS_Interval
  <2> QED
    BY <2>1
<1>2. Cardinality(S) \in Nat
  BY FS_CardinalityType
<1>3. /\ \A x \in T : RankIn(S, R, x) \in a .. b - 1
      /\ \A x, y \in T : RankIn(S, R, x) = RankIn(S, R, y) => x = y
  BY RankLess
<1>4. \A n \in a .. b - 1 : \E x \in T : RankIn(S, R, x) = n
  <2> SUFFICES ASSUME NEW n \in a .. b - 1 PROVE \E x \in T : RankIn(S, R, x) = n
    OBVIOUS
  <2>1. n \in Nat /\ n < Cardinality(S)
    BY <1>2
  <2>2. PICK x \in S : RankIn(S, R, x) = n
    BY <2>1, RankTaken
  <2> QED
    BY <2>2
<1> HIDE DEF T
<1>5. r \in [T -> a .. b - 1] /\ (\A x, y \in T : r[x] = r[y] => x = y)
      /\ \A n \in a .. b - 1 : \E x \in T : r[x] = n
  BY <1>3, <1>4
<1> HIDE DEF r
<1>6. r \in Injection(T, a .. b - 1) /\ r \in Surjection(T, a .. b - 1)
  BY <1>5 DEF Injection, IsInjective, Surjection
<1>7. Cardinality(T) = Cardinality(a .. b - 1)
  BY <1>1, <1>6, FS_Injection
<1> QED
  BY <1>1, <1>7 DEF T

-----------------------------------------------------------------------------
\* Cuts by place

\* The order of numbers, either way
Down(S) == {p \in S \X S : p[1] > p[2]}
Up(S) == {p \in S \X S : p[1] < p[2]}

LEMMA NumbersOrdered ==
    ASSUME NEW S \in SUBSET Int
    PROVE  /\ StrictOrder(S, Down(S)) /\ StrictOrder(S, Up(S))
           /\ \A x \in S : /\ {k \in S : k > x} = {k \in S : <<k, x>> \in Down(S)}
                           /\ {k \in S : k < x} = {k \in S : <<k, x>> \in Up(S)}
<1>1. /\ \A x, y \in S : <<x, y>> \in Down(S) <=> x > y
      /\ \A x, y \in S : <<x, y>> \in Up(S) <=> x < y
  BY DEF Down, Up
<1>2. \A x \in S : x \in Int
  OBVIOUS
<1>3. StrictOrder(S, Down(S)) /\ StrictOrder(S, Up(S))
  BY <1>1, <1>2 DEF StrictOrder
<1> QED
  BY <1>1, <1>3

\* What a cut keeps of some places: the last ones, or the first ones, and no more than asked.
LatestOf(S, limit) == {n \in S : Cardinality({k \in S : k > n}) < limit}
OldestOf(S, limit) == {n \in S : Cardinality({k \in S : k < n}) < limit}

LEMMA CutKeeps ==
    ASSUME NEW S \in SUBSET Int, IsFiniteSet(S), NEW limit \in Nat
    PROVE  /\ \A n \in LatestOf(S, limit), k \in S : k > n => k \in LatestOf(S, limit)
           /\ \A n \in OldestOf(S, limit), k \in S : k < n => k \in OldestOf(S, limit)
           /\ Cardinality(S) <= limit => LatestOf(S, limit) = S /\ OldestOf(S, limit) = S
           /\ Cardinality(LatestOf(S, limit))
                 = IF Cardinality(S) <= limit THEN Cardinality(S) ELSE limit
<1>1. /\ StrictOrder(S, Down(S)) /\ StrictOrder(S, Up(S))
      /\ \A x \in S : /\ Cardinality({k \in S : k > x}) = RankIn(S, Down(S), x)
                      /\ Cardinality({k \in S : k < x}) = RankIn(S, Up(S), x)
  BY NumbersOrdered DEF RankIn
<1>2. /\ \A x, y \in S : <<x, y>> \in Down(S) <=> x > y
      /\ \A x, y \in S : <<x, y>> \in Up(S) <=> x < y
  BY DEF Down, Up
<1> DEFINE d == [x \in S |-> RankIn(S, Down(S), x)]
           u == [x \in S |-> RankIn(S, Up(S), x)]
<1>3. /\ LatestOf(S, limit) = {x \in S : d[x] < limit}
      /\ OldestOf(S, limit) = {x \in S : u[x] < limit}
  BY <1>1 DEF LatestOf, OldestOf
<1>4. /\ \A x \in S : d[x] \in Nat /\ d[x] < Cardinality(S)
      /\ \A x, y \in S : x > y <=> d[x] < d[y]
  BY <1>1, <1>2, RankLess
<1>5. /\ \A x \in S : u[x] \in Nat /\ u[x] < Cardinality(S)
      /\ \A x, y \in S : x < y <=> u[x] < u[y]
  BY <1>1, <1>2, RankLess
<1>6. Cardinality(S) \in Nat
  BY FS_CardinalityType
<1>7. /\ \A x : x \in LatestOf(S, limit) <=> x \in S /\ d[x] < limit
      /\ \A x : x \in OldestOf(S, limit) <=> x \in S /\ u[x] < limit
  BY <1>3
<1>8. Cardinality(S) > limit => Cardinality(LatestOf(S, limit)) = limit
  <2> SUFFICES ASSUME Cardinality(S) > limit PROVE Cardinality(LatestOf(S, limit)) = limit
    OBVIOUS
  <2> DEFINE T == {x \in S : 0 <= RankIn(S, Down(S), x) /\ RankIn(S, Down(S), x) < limit}
  <2>1. Cardinality(T) = limit - 0
    BY <1>1, <1>6, RankCut
  <2>2. \A x \in S : d[x] = RankIn(S, Down(S), x)
    OBVIOUS
  <2>3. \A x : x \in T <=> x \in S /\ d[x] < limit
    <3> SUFFICES ASSUME NEW x \in S PROVE x \in T <=> d[x] < limit
      OBVIOUS
    <3>1. d[x] \in Nat /\ d[x] = RankIn(S, Down(S), x)
      BY <1>4, <2>2
    <3> HIDE DEF d
    <3> QED
      BY <3>1
  <2> HIDE DEF T, d, u
  <2>4. LatestOf(S, limit) = T
    BY <1>7, <2>3
  <2> QED
    BY <2>1, <2>4
<1> HIDE DEF d, u
<1>9. ASSUME Cardinality(S) <= limit PROVE LatestOf(S, limit) = S /\ OldestOf(S, limit) = S
  <2>1. \A x \in S : d[x] < limit /\ u[x] < limit
    BY <1>4, <1>5, <1>6, <1>9
  <2> QED
    BY <1>7, <2>1
<1>10. ASSUME NEW n \in LatestOf(S, limit), NEW k \in S, k > n PROVE k \in LatestOf(S, limit)
  <2>1. n \in S /\ d[n] < limit /\ d[n] \in Nat /\ d[k] \in Nat
    BY <1>4, <1>7
  <2>2. d[k] < d[n]
    BY <1>4, <1>10, <2>1
  <2> QED
    BY <1>7, <2>1, <2>2
<1>11. ASSUME NEW n \in OldestOf(S, limit), NEW k \in S, k < n PROVE k \in OldestOf(S, limit)
  <2>1. n \in S /\ u[n] < limit /\ u[n] \in Nat /\ u[k] \in Nat
    BY <1>5, <1>7
  <2>2. u[k] < u[n]
    BY <1>5, <1>11, <2>1
  <2> QED
    BY <1>7, <2>1, <2>2
<1>12. /\ Cardinality(S) <= limit => Cardinality(LatestOf(S, limit)) = Cardinality(S)
       /\ ~ (Cardinality(S) <= limit) => Cardinality(LatestOf(S, limit)) = limit
  BY <1>6, <1>8, <1>9
<1> QED
  BY <1>9, <1>10, <1>11, <1>12

\* Some natural number is the least of a set.
LEMMA LeastOf ==
    ASSUME NEW S \in SUBSET Nat, S # {}
    PROVE  \E m \in S : \A n \in S : m <= n
<1> DEFINE T == {0 .. n : n \in S}
<1>1. T \subseteq FiniteSubsetsOf(Nat) /\ T # {}
  <2>1. \A n \in S : IsFiniteSet(0 .. n) /\ 0 .. n \subseteq Nat
    BY FS_Interval
  <2> QED
    BY <2>1 DEF FiniteSubsetsOf
<1>2. PICK x \in T : \A y \in T : <<y, x>> \notin StrictSubsetOrdering(Nat)
  <2> HIDE DEF T
  <2> QED
    BY <1>1, FS_StrictSubsetOrderingWellFounded, WFMin
<1>3. PICK m \in S : x = 0 .. m
  OBVIOUS
<1>4. ASSUME NEW n \in S, ~ (m <= n) PROVE FALSE
  <2>1. 0 .. n \subseteq 0 .. m /\ m \in 0 .. m /\ m \notin 0 .. n
    BY <1>4
  <2>2. <<0 .. n, x>> \in StrictSubsetOrdering(Nat)
    BY <1>3, <2>1 DEF StrictSubsetOrdering
  <2> QED
    BY <1>2, <2>2
<1> QED
  BY <1>4

LEMMA OneTo == \A n \in Nat : IsFiniteSet(1 .. n) /\ Cardinality(1 .. n) = n
<1> SUFFICES ASSUME NEW n \in Nat PROVE IsFiniteSet(1 .. n) /\ Cardinality(1 .. n) = n
  OBVIOUS
<1>1. IsFiniteSet(1 .. n) /\ Cardinality(1 .. n) = IF 1 > n THEN 0 ELSE n - 1 + 1
  BY FS_Interval
<1> QED
  BY <1>1

\* Where a page is cut
LEMMA TimesOrder ==
    ASSUME NEW a \in Int, NEW b \in Int, NEW s \in Nat
    PROVE  (a <= b => a * s <= b * s) /\ a * s \in Int /\ (a + 1) * s = a * s + s
<1>1. a * s \in Int /\ (a + 1) * s = a * s + s
  OBVIOUS
<1>2. ASSUME a <= b PROVE a * s <= b * s
  <2>1. b - a \in Nat /\ b * s = a * s + (b - a) * s
    BY <1>2
  <2>2. (b - a) * s >= 0
    BY <2>1
  <2> QED
    BY <2>1, <2>2
<1> QED
  BY <1>1, <1>2

LEMMA DivCut ==
    ASSUME NEW r \in Nat, NEW s \in Nat \ {0}
    PROVE  r \div s \in Nat /\ (r \div s) * s <= r /\ r < (r \div s + 1) * s
<1>1. r \div s \in Nat /\ (r \div s) * s <= r /\ r < (r \div s) * s + s
  OBVIOUS
<1>2. (r \div s + 1) * s = (r \div s) * s + s
  BY <1>1, TimesOrder
<1> QED
  BY <1>1, <1>2

LEMMA PageOfPlace ==
    ASSUME NEW r \in Nat, NEW s \in Nat \ {0}, NEW total \in Nat, r < total * s
    PROVE  \E n \in 1 .. total : \A k \in 1 .. total :
              ((k - 1) * s <= r /\ r < k * s) <=> k = n
<1> DEFINE q == r \div s
<1>1. q \in Nat /\ q * s <= r /\ r < (q + 1) * s
  BY DivCut
<1> HIDE DEF q
<1>2. q < total
  <2> SUFFICES ASSUME total <= q PROVE FALSE
    BY <1>1
  <2>1. total * s <= q * s /\ total * s \in Int /\ q * s \in Int
    BY <1>1, TimesOrder
  <2> QED
    BY <1>1, <2>1
<1>3. q + 1 \in 1 .. total
  BY <1>1, <1>2
<1>4. ASSUME NEW k \in 1 .. total, k # q + 1, (k - 1) * s <= r, r < k * s
      PROVE  FALSE
  <2>1. CASE k <= q
    <3>1. k * s <= q * s /\ k * s \in Int /\ q * s \in Int
      BY <1>1, <2>1, TimesOrder
    <3> QED
      BY <1>1, <1>4, <3>1
  <2>2. CASE k > q + 1
    <3>1. q + 1 <= k - 1 /\ k - 1 \in Int /\ q + 1 \in Int
      BY <1>1, <2>2
    <3>2. (q + 1) * s <= (k - 1) * s /\ (k - 1) * s \in Int /\ (q + 1) * s \in Int
      BY <3>1, TimesOrder
    <3> QED
      BY <1>1, <1>4, <3>2
  <2>3. k \in Int /\ q \in Int /\ k # q + 1
    BY <1>1, <1>4
  <2> QED
    BY <2>1, <2>2, <2>3
<1>5. \A k \in 1 .. total : ((k - 1) * s <= r /\ r < k * s) <=> k = q + 1
  <2> SUFFICES ASSUME NEW k \in 1 .. total
               PROVE  ((k - 1) * s <= r /\ r < k * s) <=> k = q + 1
    OBVIOUS
  <2>1. CASE k = q + 1
    <3>1. k - 1 = q
      BY <1>1, <2>1
    <3> QED
      BY <1>1, <2>1, <3>1
  <2>2. CASE k # q + 1
    BY <1>4, <2>2
  <2> QED
    BY <2>1, <2>2
<1> QED
  BY <1>3, <1>5

LEMMA PagesCut ==
    ASSUME NEW S, IsFiniteSet(S), NEW R, StrictOrder(S, R), NEW s \in Nat \ {0},
           NEW n \in Nat \ {0}
    PROVE  LET onPage == {x \in S : (n - 1) * s <= RankIn(S, R, x) /\ RankIn(S, R, x) < n * s}
           IN  /\ Cardinality(onPage) <= s
               /\ n * s <= Cardinality(S) => Cardinality(onPage) = s
<1> DEFINE a == (n - 1) * s
           b == n * s
           c == Cardinality(S)
           onPage == {x \in S : a <= RankIn(S, R, x) /\ RankIn(S, R, x) < b}
<1>1. a \in Nat /\ b \in Nat /\ b = a + s
  <2>1. n - 1 \in Nat /\ n \in Nat
    OBVIOUS
  <2>2. a \in Nat
    BY <2>1
  <2>3. (n - 1 + 1) * s = (n - 1) * s + s
    BY <2>1, TimesOrder
  <2> QED
    BY <2>2, <2>3
<1>2. c \in Nat /\ \A x \in S : RankIn(S, R, x) \in Nat /\ RankIn(S, R, x) < c
  BY FS_CardinalityType, RankLess
<1> HIDE DEF a, b
<1>3. CASE b <= c
  <2>1. a <= b
    BY <1>1
  <2>2. Cardinality(onPage) = b - a
    BY <1>1, <1>3, <2>1, RankCut
  <2> QED
    BY <1>1, <2>2 DEF a, b
<1>4. CASE a <= c /\ c < b
  <2>1. onPage = {x \in S : a <= RankIn(S, R, x) /\ RankIn(S, R, x) < c}
    BY <1>1, <1>2, <1>4
  <2>2. c <= c
    BY <1>2
  <2>3. Cardinality({x \in S : a <= RankIn(S, R, x) /\ RankIn(S, R, x) < c}) = c - a
    BY <1>1, <1>2, <1>4, <2>2, RankCut
  <2>4. Cardinality(onPage) = c - a
    BY <2>1, <2>3
  <2>5. Cardinality(onPage) <= s /\ ~ (b <= c)
    BY <1>1, <1>2, <1>4, <2>4
  <2> QED
    BY <2>5 DEF a, b
<1>5. CASE c < a
  <2>1. onPage = {}
    BY <1>1, <1>2, <1>5
  <2>2. Cardinality(onPage) = 0
    BY <2>1, FS_EmptySet
  <2>3. Cardinality(onPage) <= s /\ ~ (b <= c)
    BY <1>1, <1>2, <1>5, <2>2
  <2> QED
    BY <2>3 DEF a, b
<1> QED
  BY <1>1, <1>2, <1>3, <1>4, <1>5

-----------------------------------------------------------------------------
\* Imports

\* All documents that are made of x are in the collections s but those that are left; D has
\* the documents by extract and collection.
Written(N, D, s, x, left) ==
    \A n \in N : \A id \in DOMAIN D[x][n] :
        id \in left[n] \/ (id \in DOMAIN s[n] /\ s[n][id] = D[x][n][id])

NoImport == [none |-> TRUE]

\* What is stored was made of some extract, and what the import under way has written, and
\* a whole one wrote, is still there.
ImportOK(N, E, D, s, i, w) ==
    /\ DOMAIN s = N
    /\ \A n \in N : \A id \in DOMAIN s[n] :
          \E x \in E : id \in DOMAIN D[x][n] /\ s[n][id] = D[x][n][id]
    /\ i # NoImport =>
          /\ w = NoImport
          /\ i \in [from : E, only : SUBSET N, left : [N -> SUBSET Int]]
          /\ \A n \in N : i.left[n] \subseteq DOMAIN D[i.from][n]
          /\ i.only = N => Written(N, D, s, i.from, i.left)
    /\ w # NoImport => w \in E /\ Written(N, D, s, w, [n \in N |-> {}])

\* The actions of CatalogImport, of any catalogue
Began(N, E, D, s, i, s2, i2, w2) ==
    /\ i = NoImport /\ s2 = s /\ w2 = NoImport
    /\ \E x \in E, only \in SUBSET N :
          i2 = [from |-> x, only |-> only,
                left |-> [n \in N |-> IF n \in only THEN DOMAIN D[x][n] ELSE {}]]
Wrote(N, D, s, i, w, s2, i2, w2) ==
    /\ i # NoImport /\ w2 = w
    /\ \E n \in N : \E id \in i.left[n] :
          /\ s2 = [s EXCEPT ![n] = [k \in DOMAIN @ \union {id} |->
                                       IF k = id THEN D[i.from][n][id] ELSE @[k]]]
          /\ i2 = [i EXCEPT !.left[n] = @ \ {id}]
Finished(N, s, i, w, s2, i2, w2) ==
    /\ i # NoImport /\ s2 = s /\ i2 = NoImport
    /\ \/ w2 = w
       \/ w2 = NoImport
       \/ w2 = i.from /\ i.only = N /\ \A n \in N : i.left[n] = {}
ImportStep(N, E, D, s, i, w, s2, i2, w2) ==
    \/ Began(N, E, D, s, i, s2, i2, w2)
    \/ Wrote(N, D, s, i, w, s2, i2, w2)
    \/ Finished(N, s, i, w, s2, i2, w2)
    \/ s2 = s /\ i2 = i /\ w2 = w

LEMMA ImportKeeps ==
    ASSUME NEW N, NEW E, NEW D, \A x \in E, n \in N : DOMAIN D[x][n] \subseteq Int,
           NEW s, NEW i, NEW w, NEW s2, NEW i2, NEW w2,
           ImportOK(N, E, D, s, i, w), ImportStep(N, E, D, s, i, w, s2, i2, w2)
    PROVE  ImportOK(N, E, D, s2, i2, w2)
<1>1. CASE Began(N, E, D, s, i, s2, i2, w2)
  <2>1. PICK x \in E, only \in SUBSET N :
           i2 = [from |-> x, only |-> only,
                 left |-> [n \in N |-> IF n \in only THEN DOMAIN D[x][n] ELSE {}]]
    BY <1>1 DEF Began
  <2>2. i2 \in [from : E, only : SUBSET N, left : [N -> SUBSET Int]]
    BY <2>1
  <2>3. /\ i2.from = x /\ i2.only = only
        /\ \A n \in N : i2.left[n] = IF n \in only THEN DOMAIN D[x][n] ELSE {}
    BY <2>1
  <2>4. i2.only = N => Written(N, D, s2, i2.from, i2.left)
    BY <2>3 DEF Written
  <2> QED
    BY <1>1, <2>2, <2>3, <2>4 DEF ImportOK, Began
<1>2. CASE Wrote(N, D, s, i, w, s2, i2, w2)
  <2> DEFINE Put(n, id) ==
               /\ s2 = [s EXCEPT ![n] = [k \in DOMAIN @ \union {id} |->
                                           IF k = id THEN D[i.from][n][id] ELSE @[k]]]
               /\ i2 = [i EXCEPT !.left[n] = @ \ {id}]
  <2>0. PICK n \in N : \E id \in i.left[n] : Put(n, id)
    BY <1>2 DEF Wrote
  <2>1. PICK id \in i.left[n] : Put(n, id)
    BY <2>0
  <2>2. /\ i \in [from : E, only : SUBSET N, left : [N -> SUBSET Int]]
        /\ w = NoImport /\ w2 = NoImport /\ DOMAIN s = N
        /\ id \in DOMAIN D[i.from][n] /\ i.from \in E
    BY <1>2, <2>1 DEF ImportOK, Wrote
  <2>3. /\ i2 \in [from : E, only : SUBSET N, left : [N -> SUBSET Int]]
        /\ i2.from = i.from /\ i2.only = i.only
        /\ \A m \in N : i2.left[m] = IF m = n THEN i.left[m] \ {id} ELSE i.left[m]
    BY <2>1, <2>2
  <2>4. /\ DOMAIN s2 = N
        /\ \A m \in N : m # n => s2[m] = s[m]
        /\ DOMAIN s2[n] = DOMAIN s[n] \union {id}
        /\ s2[n][id] = D[i.from][n][id]
        /\ \A k \in DOMAIN s[n] : k # id => s2[n][k] = s[n][k]
    BY <2>1, <2>2
  <2>5. ASSUME NEW m \in N, NEW k \in DOMAIN s2[m]
        PROVE  \E x \in E : k \in DOMAIN D[x][m] /\ s2[m][k] = D[x][m][k]
    <3>1. CASE m = n /\ k = id
      BY <2>2, <2>4, <3>1
    <3>2. CASE ~ (m = n /\ k = id)
      <4>1. k \in DOMAIN s[m] /\ s2[m][k] = s[m][k]
        BY <2>4, <2>5, <3>2
      <4> QED
        BY <4>1 DEF ImportOK
    <3> QED
      BY <3>1, <3>2
  <2>6. \A m \in N : i2.left[m] \subseteq DOMAIN D[i2.from][m]
    BY <1>2, <2>3 DEF ImportOK, Wrote
  <2>7. ASSUME i2.only = N PROVE Written(N, D, s2, i2.from, i2.left)
    <3>1. Written(N, D, s, i.from, i.left)
      BY <1>2, <2>3, <2>7 DEF ImportOK, Wrote
    <3>2. SUFFICES ASSUME NEW m \in N, NEW k \in DOMAIN D[i.from][m], k \notin i2.left[m]
                   PROVE  k \in DOMAIN s2[m] /\ s2[m][k] = D[i.from][m][k]
      BY <2>3 DEF Written
    <3>3. CASE m = n /\ k = id
      BY <2>4, <3>3
    <3>4. CASE ~ (m = n /\ k = id)
      <4>1. k \notin i.left[m]
        BY <2>3, <3>2, <3>4
      <4>2. k \in DOMAIN s[m] /\ s[m][k] = D[i.from][m][k]
        BY <3>1, <4>1 DEF Written
      <4> QED
        BY <2>4, <3>4, <4>2
    <3> QED
      BY <3>3, <3>4
  <2> QED
    BY <2>2, <2>3, <2>4, <2>5, <2>6, <2>7 DEF ImportOK
<1>3. CASE Finished(N, s, i, w, s2, i2, w2)
  <2>1. i \in [from : E, only : SUBSET N, left : [N -> SUBSET Int]] /\ w = NoImport
    BY <1>3 DEF ImportOK, Finished
  <2>2. ASSUME w2 # NoImport
        PROVE  w2 \in E /\ Written(N, D, s2, w2, [n \in N |-> {}])
    <3>1. w2 = i.from /\ i.only = N /\ \A n \in N : i.left[n] = {}
      BY <1>3, <2>1, <2>2 DEF Finished
    <3>2. Written(N, D, s, i.from, i.left)
      BY <1>3, <3>1 DEF ImportOK, Finished
    <3>3. Written(N, D, s, i.from, [n \in N |-> {}])
      BY <3>1, <3>2 DEF Written
    <3> QED
      BY <1>3, <2>1, <3>1, <3>3 DEF Finished
  <2> QED
    BY <1>3, <2>2 DEF ImportOK, Finished
<1>4. CASE s2 = s /\ i2 = i /\ w2 = w
  BY <1>4
<1> QED
  BY <1>1, <1>2, <1>3, <1>4 DEF ImportStep

\* Rows are sorted by a key and then by their ids; the rows ahead of one
AheadOf(key, r) == {q \in DOMAIN key : key[q] < key[r] \/ (key[q] = key[r] /\ q < r)}
BehindOf(key, r) == {q \in DOMAIN key : r \in AheadOf(key, q)}
PagesOfRow(key, r, limit) ==
    {(n \div limit) + 1 :
        n \in Cardinality(AheadOf(key, r))
                .. Cardinality(DOMAIN key \ {r}) - Cardinality(BehindOf(key, r))}

\* A row is on one page, and that is one of those there are.
LEMMA RowsOnce ==
    ASSUME NEW key, IsFiniteSet(DOMAIN key), \A q \in DOMAIN key : q \in Int /\ key[q] \in Int,
           NEW limit \in Nat \ {0}, NEW r \in DOMAIN key
    PROVE  \E p \in 1 .. (Cardinality(DOMAIN key) + limit - 1) \div limit :
              PagesOfRow(key, r, limit) = {p}
<1> DEFINE S == DOMAIN key
           R == {p \in S \X S : p[1] \in AheadOf(key, p[2])}
           ahead == AheadOf(key, r)
           behind == BehindOf(key, r)
           c == Cardinality(S)
           n == Cardinality(ahead)
<1>1. \A a, b \in S : <<a, b>> \in R <=> key[a] < key[b] \/ (key[a] = key[b] /\ a < b)
  BY DEF AheadOf
<1>2. StrictOrder(S, R)
  <2> HIDE DEF R, S
  <2> QED
    BY <1>1 DEF StrictOrder, S
<1>3. n = RankIn(S, R, r)
  <2>1. ahead = {y \in S : <<y, r>> \in R}
    BY DEF AheadOf
  <2> QED
    BY <2>1 DEF RankIn
<1>4. n \in Nat /\ n < c /\ c \in Nat
  <2> HIDE DEF R
  <2> QED
    BY <1>2, <1>3, RankLess, FS_CardinalityType
<1>5. Cardinality(S \ {r}) - Cardinality(behind) = n
  <2>1. /\ ahead \subseteq S \ {r} /\ behind \subseteq S \ {r}
        /\ ahead \intersect behind = {} /\ ahead \union behind = S \ {r}
    BY DEF AheadOf, BehindOf
  <2>2. IsFiniteSet(ahead) /\ IsFiniteSet(behind) /\ IsFiniteSet(S \ {r})
    BY <2>1, FS_Subset
  <2> HIDE DEF ahead, behind, S
  <2>3. Cardinality(ahead \intersect behind) = 0
    BY <2>1, FS_EmptySet
  <2>4. Cardinality(ahead \union behind)
           = Cardinality(ahead) + Cardinality(behind) - Cardinality(ahead \intersect behind)
    BY <2>2, FS_Union
  <2>5. Cardinality(ahead) \in Nat /\ Cardinality(behind) \in Nat
    BY <2>2, FS_CardinalityType
  <2>6. Cardinality(ahead \union behind) = Cardinality(S \ {r})
    BY <2>1
  <2> QED
    BY <2>3, <2>4, <2>5, <2>6
<1> DEFINE p == (n \div limit) + 1
           total == (c + limit - 1) \div limit
<1>6. p \in 1 .. total
  <2> HIDE DEF n, c
  <2>1. n \div limit \in Nat /\ (n \div limit) * limit <= n
    BY <1>4, DivCut
  <2>2. c + limit - 1 \in Nat
    BY <1>4
  <2>3. total \in Nat /\ c + limit - 1 < (total + 1) * limit
    BY <2>2, DivCut
  <2>4. (total + 1) * limit = total * limit + limit /\ total * limit \in Int
    BY <2>3, TimesOrder
  <2>5. c - 1 < total * limit
    BY <1>4, <2>3, <2>4
  <2>6. n < total * limit
    BY <1>4, <2>4, <2>5
  <2>7. SUFFICES ASSUME total <= n \div limit PROVE FALSE
    BY <2>1, <2>3
  <2>8. total * limit <= (n \div limit) * limit /\ (n \div limit) * limit \in Int
    BY <2>1, <2>3, <2>7, TimesOrder
  <2> QED
    BY <1>4, <2>1, <2>4, <2>6, <2>8
<1>7. {(m \div limit) + 1 : m \in n .. n} = {p}
  <2>1. n .. n = {n}
    BY <1>4
  <2> QED
    BY <2>1
<1>8. PagesOfRow(key, r, limit) = {(m \div limit) + 1 : m \in n .. n}
  BY <1>5 DEF PagesOfRow
<1> QED
  BY <1>6, <1>7, <1>8

-----------------------------------------------------------------------------
\* References

\* The function that begins at a and goes on by a step exists; so TLA+'s recursive one fits it.
Steps(T, a, step, f) ==
    f \in [Nat -> T] /\ f[0] = a /\ \A h \in Nat : h # 0 => f[h] = step[f[h - 1]]

LEMMA StepsExist ==
    ASSUME NEW T, NEW a \in T, NEW step \in [T -> T]
    PROVE  \E f : Steps(T, a, step, f)
<1> DEFINE Path(n) == {g \in [0 .. n -> T] : g[0] = a /\ \A k \in 1 .. n : g[k] = step[g[k - 1]]}
           Missing == {n \in Nat : Path(n) = {}}
           g(n) == CHOOSE g \in Path(n) : TRUE
           f == [n \in Nat |-> g(n)[n]]
<1>1. ASSUME NEW n \in Nat PROVE Path(n) # {}
  <2>1. SUFFICES ASSUME Missing # {} PROVE FALSE
    BY <2>1
  <2>2. PICK m \in Missing : \A k \in Missing : m <= k
    BY <2>1, LeastOf
  <2>3. m # 0
    <3>1. [k \in 0 .. 0 |-> a] \in Path(0)
      OBVIOUS
    <3> QED
      BY <3>1
  <2>4. m - 1 \in Nat /\ ~ (m <= m - 1)
    BY <2>3
  <2>5. PICK q \in Path(m - 1) : TRUE
    <3> HIDE DEF Path
    <3> QED
      BY <2>2, <2>4
  <2>6. [k \in 0 .. m |-> IF k = m THEN step[q[m - 1]] ELSE q[k]] \in Path(m)
    <3> DEFINE r == [k \in 0 .. m |-> IF k = m THEN step[q[m - 1]] ELSE q[k]]
    <3>1. r \in [0 .. m -> T]
      BY <2>4, <2>5
    <3>2. r[0] = a
      BY <2>3, <2>5
    <3>3. ASSUME NEW k \in 1 .. m PROVE r[k] = step[r[k - 1]]
      BY <2>5, <3>3
    <3> QED
      BY <3>1, <3>2, <3>3
  <2> QED
    BY <2>2, <2>6
<1>2. ASSUME NEW m \in Nat, NEW n \in Nat, m <= n, NEW p \in Path(m), NEW q \in Path(n)
      PROVE  \A k \in 0 .. m : p[k] = q[k]
  <2> DEFINE Apart == {k \in 0 .. m : p[k] # q[k]}
  <2>1. SUFFICES ASSUME Apart # {} PROVE FALSE
    OBVIOUS
  <2>2. PICK k \in Apart : \A j \in Apart : k <= j
    <3>1. Apart \in SUBSET Nat
      OBVIOUS
    <3> HIDE DEF Apart
    <3> QED
      BY <2>1, <3>1, LeastOf
  <2>3. k # 0
    OBVIOUS
  <2>4. k - 1 \in 0 .. m /\ k - 1 \notin Apart
    BY <2>2, <2>3
  <2> QED
    BY <1>2, <2>2, <2>3, <2>4
<1>3. \A n \in Nat : g(n) \in Path(n)
  BY <1>1
<1>4. f \in [Nat -> T]
  <2>1. ASSUME NEW n \in Nat PROVE g(n)[n] \in T
    <3>1. g(n) \in Path(n)
      BY <1>3
    <3> HIDE DEF g
    <3>2. g(n) \in [0 .. n -> T] /\ n \in 0 .. n
      BY <3>1
    <3> QED
      BY <3>2
  <2> HIDE DEF g
  <2> QED
    BY <2>1
<1>5. f[0] = a
  BY <1>3
<1>6. ASSUME NEW h \in Nat, h # 0 PROVE f[h] = step[f[h - 1]]
  <2>1. h - 1 \in Nat /\ h - 1 <= h /\ h - 1 \in 0 .. h - 1 /\ h \in 1 .. h
    BY <1>6
  <2>2. g(h - 1)[h - 1] = g(h)[h - 1]
    <3>1. g(h - 1) \in Path(h - 1) /\ g(h) \in Path(h)
      BY <1>3, <2>1
    <3> HIDE DEF g, Path
    <3> QED
      BY <1>2, <2>1, <3>1
  <2>3. g(h)[h] = step[g(h)[h - 1]]
    BY <1>3, <2>1
  <2> HIDE DEF g
  <2> QED
    BY <2>1, <2>2, <2>3
<1> HIDE DEF f
<1> QED
  BY <1>4, <1>5, <1>6 DEF Steps

\* The places that are come to from p, the first being what p refers to
HopsFrom(ref, p, f) ==
    f = [h \in Nat |-> IF h = 0 THEN ref[p]
                       ELSE IF f[h - 1] \in DOMAIN ref THEN ref[f[h - 1]] ELSE f[h - 1]]
HopsEnd(ref, p, hops) ==
    IF p \notin DOMAIN ref THEN {p} ELSE {(CHOOSE f : HopsFrom(ref, p, f))[hops]} \ DOMAIN ref

LEMMA HopsExist ==
    ASSUME NEW T, NEW D \in SUBSET T, NEW ref \in [D -> T], NEW q \in D
    PROVE  \E g : HopsFrom(ref, q, g)
                  /\ Steps(T, ref[q], [p \in T |-> IF p \in D THEN ref[p] ELSE p], g)
<1> DEFINE step == [p \in T |-> IF p \in D THEN ref[p] ELSE p]
<1>1. step \in [T -> T] /\ ref[q] \in T
  OBVIOUS
<1>2. PICK g : Steps(T, ref[q], step, g)
  <2> HIDE DEF step
  <2> QED
    BY <1>1, StepsExist
<1>3. HopsFrom(ref, q, g)
  <2>1. ASSUME NEW h \in Nat
        PROVE  g[h] = IF h = 0 THEN ref[q]
                      ELSE IF g[h - 1] \in DOMAIN ref THEN ref[g[h - 1]] ELSE g[h - 1]
    <3>1. h # 0 => g[h - 1] \in T /\ g[h] = step[g[h - 1]]
      BY <1>2 DEF Steps
    <3> QED
      BY <1>2, <3>1 DEF Steps
  <2>2. g \in [Nat -> T]
    BY <1>2 DEF Steps
  <2> QED
    BY <2>1, <2>2 DEF HopsFrom
<1> QED
  BY <1>2, <1>3

\* References from one place to another of which the hops lead to the end
Ending(T, D, ref, hops) ==
    /\ D \in SUBSET T /\ ref \in [D -> T] /\ hops \in Nat
    /\ \E left \in [T -> 0 .. hops + 1] : \A q \in D : left[ref[q]] < left[q]

\* References that lead to an end within the hops lead to the one that the next one leads to.
LEMMA EndsMeet ==
    ASSUME NEW T, NEW D, NEW ref, NEW hops, Ending(T, D, ref, hops), NEW p \in D
    PROVE  HopsEnd(ref, p, hops) = HopsEnd(ref, ref[p], hops)
<1> D \in SUBSET T /\ ref \in [D -> T] /\ hops \in Nat
  BY DEF Ending
<1> PICK left \in [T -> 0 .. hops + 1] : \A q \in D : left[ref[q]] < left[q]
  BY DEF Ending
<1> DEFINE step == [q \in T |-> IF q \in D THEN ref[q] ELSE q]
           Walks(q, f) == f \in [Nat -> T] /\ f[0] = ref[q]
                          /\ \A h \in Nat : h # 0 => f[h] = step[f[h - 1]]
           f(q) == CHOOSE g : HopsFrom(ref, q, g)
<1>1. ASSUME NEW q \in D PROVE Walks(q, f(q))
  <2>1. PICK g : HopsFrom(ref, q, g) /\ Steps(T, ref[q], step, g)
    BY HopsExist
  <2>2. g \in [Nat -> T] /\ g[0] = ref[q] /\ \A h \in Nat : h # 0 => g[h] = step[g[h - 1]]
    BY <2>1 DEF Steps
  <2>4. HopsFrom(ref, q, f(q))
    BY <2>1
  <2> HIDE DEF f
  <2>5. /\ f(q)[0] = ref[q]
        /\ DOMAIN f(q) = Nat
        /\ \A h \in Nat : h # 0 => f(q)[h] = IF f(q)[h - 1] \in DOMAIN ref THEN ref[f(q)[h - 1]]
                                            ELSE f(q)[h - 1]
    BY <2>4 DEF HopsFrom
  <2>6. \A h \in Nat : f(q)[h] = g[h]
    <3> DEFINE Apart == {h \in Nat : f(q)[h] # g[h]}
    <3>1. SUFFICES ASSUME Apart # {} PROVE FALSE
      OBVIOUS
    <3>2. PICK h \in Apart : \A k \in Apart : h <= k
      <4>1. Apart \in SUBSET Nat
        OBVIOUS
      <4> HIDE DEF Apart
      <4> QED
        BY <3>1, <4>1, LeastOf
    <3>3. h # 0
      BY <2>2, <2>5
    <3>4. h - 1 \in Nat /\ f(q)[h - 1] = g[h - 1] /\ g[h - 1] \in T
      BY <2>2, <3>2, <3>3
    <3>5. f(q)[h] = step[g[h - 1]]
      BY <2>5, <3>3, <3>4
    <3> QED
      BY <2>2, <3>3, <3>5
  <2>7. f(q) = [h \in Nat |-> f(q)[h]]
    BY <2>4 DEF HopsFrom
  <2>8. f(q) \in [Nat -> T]
    BY <2>2, <2>6, <2>7
  <2> QED
    BY <2>2, <2>6, <2>8
<1> HIDE DEF f
<1>2. f(p)[hops] \notin D
  <2> DEFINE Far == {h \in Nat : h <= hops /\ f(p)[h] \in D /\ left[f(p)[h]] > hops - h}
  <2>1. ASSUME Far # {} PROVE FALSE
    <3>1. PICK h \in Far : \A k \in Far : h <= k
      <4>1. Far \in SUBSET Nat
        OBVIOUS
      <4> HIDE DEF Far
      <4> QED
        BY <2>1, <4>1, LeastOf
    <3>2. h # 0
      BY <1>1
    <3>3. h - 1 \in Nat /\ h - 1 \notin Far /\ h - 1 <= hops /\ f(p)[h - 1] \in T
      BY <1>1, <3>1, <3>2
    <3>4. f(p)[h] = step[f(p)[h - 1]]
      BY <1>1, <3>2
    <3>5. f(p)[h - 1] \in D /\ f(p)[h] = ref[f(p)[h - 1]]
      BY <3>1, <3>3, <3>4
    <3>6. left[f(p)[h]] < left[f(p)[h - 1]]
      BY <3>5
    <3>7. left[f(p)[h - 1]] <= hops - (h - 1)
      BY <3>3, <3>5
    <3> QED
      BY <3>1, <3>5, <3>6, <3>7
  <2>2. ASSUME f(p)[hops] \in D PROVE FALSE
    <3>1. left[f(p)[hops]] = 0
      BY <2>1, <2>2
    <3>2. left[ref[f(p)[hops]]] < left[f(p)[hops]] /\ ref[f(p)[hops]] \in T
      BY <2>2
    <3> QED
      BY <3>1, <3>2
  <2> QED
    BY <2>2
<1>3. HopsEnd(ref, p, hops) = {f(p)[hops]}
  BY <1>2 DEF HopsEnd, f
<1>4. CASE ref[p] \notin D
  <2> DEFINE Other == {h \in Nat : f(p)[h] # ref[p]}
  <2>1. ASSUME Other # {} PROVE FALSE
    <3>1. PICK h \in Other : \A k \in Other : h <= k
      <4>1. Other \in SUBSET Nat
        OBVIOUS
      <4> HIDE DEF Other
      <4> QED
        BY <2>1, <4>1, LeastOf
    <3>2. h # 0
      BY <1>1
    <3>3. h - 1 \in Nat /\ f(p)[h - 1] = ref[p]
      BY <3>1, <3>2
    <3>4. f(p)[h] = ref[p]
      BY <1>1, <1>4, <3>2, <3>3
    <3> QED
      BY <3>4
  <2>2. f(p)[hops] = ref[p]
    BY <2>1
  <2> QED
    BY <1>3, <1>4, <2>2 DEF HopsEnd
<1>5. CASE ref[p] \in D
  <2> DEFINE q == ref[p]
             Apart == {h \in Nat : f(q)[h] # f(p)[h + 1]}
  <2>0. Walks(p, f(p)) /\ Walks(q, f(q))
    BY <1>1, <1>5
  <2>1. ASSUME Apart # {} PROVE FALSE
    <3>1. PICK h \in Apart : \A k \in Apart : h <= k
      <4>1. Apart \in SUBSET Nat
        OBVIOUS
      <4> HIDE DEF Apart
      <4> QED
        BY <2>1, <4>1, LeastOf
    <3>2. h # 0
      <4>1. f(p)[0] = q /\ f(p)[1] = step[f(p)[0]]
        BY <2>0
      <4>2. f(q)[0] = f(p)[1]
        BY <1>5, <2>0, <4>1
      <4> QED
        BY <3>1, <4>2
    <3>3. h - 1 \in Nat /\ f(q)[h - 1] = f(p)[h]
      BY <3>1, <3>2
    <3>4. f(q)[h] = step[f(q)[h - 1]] /\ f(p)[h + 1] = step[f(p)[h]]
      BY <2>0, <3>2
    <3> QED
      BY <3>1, <3>3, <3>4
  <2>2. f(q)[hops] = f(p)[hops + 1]
    BY <2>1
  <2>3. f(p)[hops + 1] = f(p)[hops]
    <3>1. hops + 1 \in Nat /\ hops + 1 # 0 /\ (hops + 1) - 1 = hops /\ f(p)[hops] \in T
      BY <2>0
    <3>2. f(p)[hops + 1] = step[f(p)[hops]]
      BY <2>0, <3>1
    <3> QED
      BY <1>2, <3>1, <3>2
  <2>4. HopsEnd(ref, q, hops) = {f(q)[hops]} \ D
    BY <1>5 DEF HopsEnd, f
  <2> QED
    BY <1>2, <1>3, <2>2, <2>3, <2>4
<1> QED
  BY <1>4, <1>5

\* What a function makes of a finite set is finite.
LEMMA ImageFinite ==
    ASSUME NEW S, IsFiniteSet(S), NEW f
    PROVE  IsFiniteSet({f[x] : x \in S})
<1> DEFINE T == {f[x] : x \in S}
           g == [x \in S |-> f[x]]
<1>1. g \in Surjection(S, T)
  BY DEF Surjection
<1> HIDE DEF g, T
<1>2. IsFiniteSet(T)
  BY <1>1, FS_Surjection
<1> QED
  BY <1>2 DEF T

-----------------------------------------------------------------------------
\* The feed

Place == [at : Int, id : Int]

\* Shouts are in a strict order.
LEMMA InOrder ==
    /\ \A a, b \in Place : a = b \/ Feed!After(a, b) \/ Feed!After(b, a)
    /\ \A a \in Place : ~Feed!After(a, a)
    /\ \A a, b \in Place : Feed!After(a, b) => ~Feed!After(b, a)
    /\ \A a, b, c \in Place : Feed!After(a, b) /\ Feed!After(b, c) => Feed!After(a, c)
  BY DEF Feed!After, Place

\* The newest and the oldest of some shouts
LEMMA Ends ==
    ASSUME NEW S \in SUBSET Place, IsFiniteSet(S), S # {}
    PROVE  /\ Feed!First(S) \in S /\ \A k \in S : k = Feed!First(S) \/ Feed!After(Feed!First(S), k)
           /\ Feed!Last(S) \in S /\ \A k \in S : k = Feed!Last(S) \/ Feed!After(k, Feed!Last(S))
<1>1. \E m \in S : \A k \in S : k = m \/ Feed!After(m, k)
  <2> DEFINE R == {p \in Place \X Place : Feed!After(p[1], p[2])}
  <2>1. \A a, b \in Place : <<a, b>> \in R <=> Feed!After(a, b)
    OBVIOUS
  <2> HIDE DEF R
  <2>2. /\ \A a, b \in S : a = b \/ <<a, b>> \in R \/ <<b, a>> \in R
        /\ \A a \in S : <<a, a>> \notin R
        /\ \A a, b, c \in S : <<a, b>> \in R /\ <<b, c>> \in R => <<a, c>> \in R
    BY <2>1, InOrder
  <2>3. \E m \in S : \A k \in S : k = m \/ <<m, k>> \in R
    BY <2>2, Foremost
  <2> QED
    BY <2>1, <2>3
<1>2. \E m \in S : \A k \in S : k = m \/ Feed!After(k, m)
  <2> DEFINE R == {p \in Place \X Place : Feed!After(p[2], p[1])}
  <2>1. \A a, b \in Place : <<a, b>> \in R <=> Feed!After(b, a)
    OBVIOUS
  <2> HIDE DEF R
  <2>2. /\ \A a, b \in S : a = b \/ <<a, b>> \in R \/ <<b, a>> \in R
        /\ \A a \in S : <<a, a>> \notin R
        /\ \A a, b, c \in S : <<a, b>> \in R /\ <<b, c>> \in R => <<a, c>> \in R
    BY <2>1, InOrder
  <2>3. \E m \in S : \A k \in S : k = m \/ <<m, k>> \in R
    BY <2>2, Foremost
  <2> QED
    BY <2>1, <2>3
<1> QED
  BY <1>1, <1>2 DEF Feed!First, Feed!Last

\* A page holds something if there is anything, and nothing newer than it is left out.
LEMMA PageOf ==
    ASSUME NEW S \in SUBSET Place, IsFiniteSet(S), NEW n \in Nat \ {0}
    PROVE  LET page == Feed!Newest(S, n)
           IN  /\ page \subseteq S /\ IsFiniteSet(page)
               /\ S # {} => page # {}
               /\ \A q \in page, m \in S : m \notin page => Feed!After(q, m)
<1> DEFINE newer(m) == {k \in S : Feed!After(k, m)}
           page == {m \in S : Cardinality(newer(m)) < n}
<1>1. Feed!Newest(S, n) = page
  BY SameCount DEF Feed!Newest
<1>2. page \subseteq S /\ IsFiniteSet(page)
  BY FS_Subset
<1>3. ASSUME S # {} PROVE page # {}
  <2>1. newer(Feed!First(S)) = {}
    BY <1>3, Ends, InOrder
  <2>2. Cardinality(newer(Feed!First(S))) = 0
    BY <2>1, FS_EmptySet
  <2> QED
    BY <1>3, <2>2, Ends
<1>4. ASSUME NEW q \in page, NEW m \in S, m \notin page, ~Feed!After(q, m)
      PROVE  FALSE
  <2>1. q \in S /\ q # m
    BY <1>4
  <2>2. Feed!After(m, q)
    BY <1>4, <2>1, InOrder
  <2>3. newer(m) \subseteq newer(q)
    BY <2>1, <2>2, InOrder
  <2>4. IsFiniteSet(newer(q)) /\ IsFiniteSet(newer(m))
    BY FS_Subset
  <2>5. /\ Cardinality(newer(m)) \in Nat /\ Cardinality(newer(q)) \in Nat
        /\ Cardinality(newer(m)) <= Cardinality(newer(q))
    BY <2>3, <2>4, FS_Subset, FS_CardinalityType
  <2>6. Cardinality(newer(q)) < n /\ ~(Cardinality(newer(m)) < n)
    BY <1>4
  <2> QED
    BY <2>5, <2>6
<1> QED
  BY <1>1, <1>2, <1>3, <1>4

\* The numbers of the shouts: of those that are stored in s, that wait in a to be stored, and
\* that the client has seen last (u), of which n were given out by now.
Numbered(n, a, s, u) ==
    /\ n \in Nat
    /\ \A c \in Collector : a[c] # Feed!NoShout => a[c] \in Place /\ a[c].id \in 1 .. n
    /\ \A c, d \in Collector : c # d /\ a[c] # Feed!NoShout => a[c].id # a[d].id
    /\ \A m \in s : /\ m \in Place /\ m.at >= 0 /\ m.id \in 1 .. n
                    /\ \A c \in Collector : a[c] # Feed!NoShout => a[c].id # m.id
    /\ u \in Place /\ u.id <= n
    /\ \A c \in Collector : a[c] # Feed!NoShout => a[c].id # u.id

\* What lies between the two ends of the client's list, u and o, is on it or came late.
Followed(s, l, u, o, t) ==
    \A m \in s : ~Feed!After(m, u) /\ (o = Feed!None \/ ~Feed!After(o, m)) => m \in l \union t

FeedOK(k, n, a, s, l, u, o, t) ==
    /\ k \in Nat
    /\ a = [c \in Collector |-> a[c]]
    /\ \A c \in Collector : a[c] # Feed!NoShout => a[c].at >= 0
    /\ IsFiniteSet(s) /\ o \in Place
    /\ Numbered(n, a, s, u)
    /\ Followed(s, l, u, o, t)

FeedInv ==
    \E k, n, a, s, l, u, o, t :
        /\ k = feedClock /\ n = nextId /\ a = adding /\ s = shouts /\ l = list /\ u = since
        /\ o = older /\ t = late
        /\ FeedOK(k, n, a, s, l, u, o, t)

\* Nobody has said anything.
LEMMA FeedInit == Feed!Init => FeedInv
<1> SUFFICES ASSUME Feed!Init PROVE FeedInv
  OBVIOUS
<1>1. PICK k, n, a, s, l, u, o, t :
         /\ k = feedClock /\ n = nextId /\ a = adding /\ s = shouts /\ l = list /\ u = since
         /\ o = older /\ t = late
  OBVIOUS
<1>2. /\ k = 0 /\ n = 0 /\ a = [c \in Collector |-> Feed!NoShout] /\ s = {}
      /\ u = Feed!None /\ o = Feed!None
  BY <1>1 DEF Feed!Init
<1>3. Feed!None \in Place /\ Feed!None.id = 0
  BY DEF Feed!None, Place
<1>4. FeedOK(k, n, a, s, l, u, o, t)
  BY <1>2, <1>3, FS_EmptySet DEF FeedOK, Numbered, Followed
<1> QED
  BY <1>1, <1>4 DEF FeedInv

\* Shouts that are dropped are missed by nobody.
LEMMA FewerShouts ==
    ASSUME NEW n, NEW a, NEW s, NEW u, NEW l, NEW o, NEW t, NEW r \in SUBSET s
    PROVE  /\ Numbered(n, a, s, u) => Numbered(n, a, r, u)
           /\ Followed(s, l, u, o, t) => Followed(r, l, u, o, t)
  BY DEF Numbered, Followed

\* A shout gets the next number.
LEMMA NextNumber ==
    ASSUME NEW n, NEW a, NEW s, NEW u, Numbered(n, a, s, u), a = [c \in Collector |-> a[c]],
           NEW c \in Collector, a[c] = Feed!NoShout, NEW m \in Place, m.id = n + 1
    PROVE  Numbered(n + 1, [a EXCEPT ![c] = m], s, u)
<1>1. PICK b : b = [a EXCEPT ![c] = m]
  OBVIOUS
<1>2. b[c] = m /\ \A d \in Collector : d # c => b[d] = a[d]
  BY <1>1
<1>3. n \in Nat /\ n + 1 \in Nat /\ u.id \in Int
  BY DEF Numbered, Place
<1>4. /\ \A d \in Collector : a[d] # Feed!NoShout => a[d].id # n + 1 /\ a[d].id \in 1 .. n + 1
      /\ \A x \in s : x.id # n + 1 /\ x.id \in 1 .. n + 1
      /\ u.id <= n + 1 /\ u.id # n + 1 /\ m.id \in 1 .. n + 1
  BY <1>3 DEF Numbered
<1>5. Feed!NoShout.id # n + 1
  BY <1>3 DEF Feed!NoShout
<1>6. \A d, e \in Collector : d # e /\ b[d] # Feed!NoShout => b[d].id # b[e].id
  BY <1>2, <1>4, <1>5 DEF Numbered
<1>7. Numbered(n + 1, b, s, u)
  BY <1>2, <1>3, <1>4, <1>6 DEF Numbered
<1> QED
  BY <1>1, <1>7

\* A request ends; its shout may be stored by now.
LEMMA NumberDone ==
    ASSUME NEW n, NEW a, NEW s, NEW u, Numbered(n, a, s, u), a = [c \in Collector |-> a[c]],
           NEW c \in Collector, a[c] # Feed!NoShout, a[c].at >= 0
    PROVE  /\ Numbered(n, [a EXCEPT ![c] = Feed!NoShout], s, u)
           /\ Numbered(n, [a EXCEPT ![c] = Feed!NoShout], s \union {a[c]}, u)
<1>1. PICK b : b = [a EXCEPT ![c] = Feed!NoShout]
  OBVIOUS
<1>2. b[c] = Feed!NoShout /\ \A d \in Collector : d # c => b[d] = a[d]
  BY <1>1
<1>3. a[c].id \in 1 .. n /\ a[c].id # Feed!NoShout.id
  BY DEF Numbered, Feed!NoShout
<1>4. \A d, e \in Collector : d # e /\ b[d] # Feed!NoShout => b[d].id # b[e].id
  <2>1. \A d \in Collector : a[d] # Feed!NoShout => a[d].id # Feed!NoShout.id
    BY DEF Numbered, Feed!NoShout
  <2> QED
    BY <1>2, <2>1 DEF Numbered
<1>5. Numbered(n, b, s, u)
  BY <1>2, <1>4 DEF Numbered
<1>6. \A d \in Collector : b[d] # Feed!NoShout => b[d].id # a[c].id
  BY <1>2 DEF Numbered
<1>7. Numbered(n, b, s \union {a[c]}, u)
  BY <1>3, <1>5, <1>6 DEF Numbered
<1> QED
  BY <1>1, <1>5, <1>7

\* The client has seen a stored shout last, or waits from the start of an instant on.
LEMMA SeenLast ==
    ASSUME NEW n, NEW a, NEW s, NEW u, Numbered(n, a, s, u), NEW v,
           v \in s \/ v = u \/ (v \in Place /\ v.id = 0)
    PROVE  Numbered(n, a, s, v)
<1>1. \A c \in Collector : a[c] # Feed!NoShout => a[c].id \in 1 .. n
  BY DEF Numbered
<1>2. v \in Place /\ v.id <= n /\ \A c \in Collector : a[c] # Feed!NoShout => a[c].id # v.id
  BY <1>1 DEF Numbered
<1> QED
  BY <1>2 DEF Numbered

\* What a page leaves out is older than where it ends.
LEMMA PageEnds ==
    ASSUME NEW s \in SUBSET Place, \A m \in s : m.at >= 0, IsFiniteSet(s),
           NEW k \in Nat \ {0}, NEW page, page = Feed!Newest(s, k), page # s
    PROVE  /\ Feed!Last(page) \in page /\ Feed!First(page) \in page
           /\ Feed!Last(page) # Feed!None /\ Feed!Last(page) \in Place
           /\ \A m \in s : m \in page \/ Feed!After(Feed!Last(page), m)
<1>1. /\ page \subseteq s /\ IsFiniteSet(page) /\ (s # {} => page # {})
      /\ \A q \in page, m \in s : m \notin page => Feed!After(q, m)
  BY PageOf
<1>2. page # {}
  BY <1>1
<1>3. Feed!Last(page) \in page /\ Feed!First(page) \in page
  BY <1>1, <1>2, Ends
<1>4. \A m \in s : m \in page \/ Feed!After(Feed!Last(page), m)
  BY <1>1, <1>3
<1>5. Feed!Last(page).at >= 0 /\ Feed!None.at = -1
  BY <1>1, <1>3 DEF Feed!None
<1> QED
  BY <1>1, <1>3, <1>4, <1>5

\* The first page: it goes down to the end that is told, if not to the oldest shout.
LEMMA LoadFollows ==
    ASSUME NEW s \in SUBSET Place, \A m \in s : m.at >= 0, IsFiniteSet(s),
           NEW page, page = Feed!Newest(s, PageSize), NEW u,
           NEW o, o = IF page = s THEN Feed!None ELSE Feed!Last(page)
    PROVE  Followed(s, page, u, o, {}) /\ o \in Place
<1>1. CASE page = s
  BY <1>1 DEF Followed, Feed!None, Place
<1>2. CASE page # s
  <2>1. /\ o \in Place /\ o # Feed!None /\ o \in page
        /\ \A m \in s : m \in page \/ Feed!After(o, m)
    BY <1>2, PageEnds, PageAssumption
  <2> QED
    BY <2>1 DEF Followed
<1> QED
  BY <1>1, <1>2

\* The next page backwards from o, and where it ends
PageBack(s, o) == Feed!Newest({m \in s : Feed!After(o, m)}, PageSize)
EndBack(s, o) == IF PageBack(s, o) = {m \in s : Feed!After(o, m)} THEN Feed!None
                 ELSE Feed!Last(PageBack(s, o))

\* It goes on where the list ended.
LEMMA OlderFollows ==
    ASSUME NEW s \in SUBSET Place, \A m \in s : m.at >= 0, IsFiniteSet(s),
           NEW l, NEW u, NEW o, NEW t, Followed(s, l, u, o, t), o # Feed!None
    PROVE  Followed(s, l \union PageBack(s, o), u, EndBack(s, o), t) /\ EndBack(s, o) \in Place
<1>1. PICK past : past = {m \in s : Feed!After(o, m)}
  OBVIOUS
<1>2. PICK page, p : page = PageBack(s, o) /\ p = EndBack(s, o)
  OBVIOUS
<1>3. /\ past \in SUBSET Place /\ IsFiniteSet(past) /\ \A m \in past : m.at >= 0
      /\ \A m \in s : m \in past <=> Feed!After(o, m)
  BY <1>1, FS_Subset
<1>4. page = Feed!Newest(past, PageSize)
  BY <1>1, <1>2 DEF PageBack
<1>5. p = IF page = past THEN Feed!None ELSE Feed!Last(page)
  BY <1>1, <1>2 DEF EndBack
<1> SUFFICES Followed(s, l \union page, u, p, t) /\ p \in Place
  BY <1>2
<1>6. CASE page = past
  BY <1>3, <1>5, <1>6 DEF Followed, Feed!None, Place
<1>7. CASE page # past
  <2>1. /\ p \in Place /\ p # Feed!None
        /\ \A m \in past : m \in page \/ Feed!After(p, m)
    BY <1>3, <1>4, <1>5, <1>7, PageEnds, PageAssumption
  <2> QED
    BY <1>3, <2>1 DEF Followed
<1> QED
  BY <1>6, <1>7

\* The page that a poll gets from u on, the list that it makes of l, and its ends
Newer(s, u) == {m \in s : Feed!After(m, u)}
Polled(s, u) == Feed!Newest(Newer(s, u), LivePage)
Listed(s, u, l) == IF Polled(s, u) # Newer(s, u) THEN Polled(s, u) ELSE l \union Polled(s, u)
NewestSeen(s, u) == IF Polled(s, u) = {} THEN u ELSE Feed!First(Polled(s, u))
OldestSeen(s, u, o) == IF Polled(s, u) # Newer(s, u) THEN Feed!Last(Polled(s, u)) ELSE o

\* What is newer goes on top of the list, or takes its place if there is too much.
LEMMA PollFollows ==
    ASSUME NEW s \in SUBSET Place, \A m \in s : m.at >= 0, IsFiniteSet(s),
           NEW l, NEW u \in Place, NEW o \in Place, NEW t, Followed(s, l, u, o, t)
    PROVE  /\ Followed(s, Listed(s, u, l), NewestSeen(s, u), OldestSeen(s, u, o), t)
           /\ OldestSeen(s, u, o) \in Place
           /\ NewestSeen(s, u) = u \/ NewestSeen(s, u) \in s
<1>1. PICK new, page : new = Newer(s, u) /\ page = Polled(s, u)
  OBVIOUS
<1>2. PICK k, v, p : k = Listed(s, u, l) /\ v = NewestSeen(s, u) /\ p = OldestSeen(s, u, o)
  OBVIOUS
<1>3. /\ new \in SUBSET Place /\ IsFiniteSet(new) /\ new \subseteq s
      /\ \A m \in new : m.at >= 0 /\ Feed!After(m, u)
      /\ \A m \in s : Feed!After(m, u) => m \in new
  BY <1>1, FS_Subset DEF Newer
<1>4. page = Feed!Newest(new, LivePage)
  BY <1>1 DEF Polled
<1>5. page \subseteq new /\ IsFiniteSet(page)
  BY <1>3, <1>4, PageOf, PageAssumption
<1>6. /\ k = IF page # new THEN page ELSE l \union page
      /\ v = IF page = {} THEN u ELSE Feed!First(page)
      /\ p = IF page # new THEN Feed!Last(page) ELSE o
  BY <1>1, <1>2 DEF Listed, NewestSeen, OldestSeen
<1>7. v = u \/ v \in page
  BY <1>3, <1>5, <1>6, Ends
<1> SUFFICES Followed(s, k, v, p, t) /\ p \in Place
  BY <1>2, <1>3, <1>5, <1>7
<1>8. CASE page = new
  <2>1. k = l \union new /\ p = o
    BY <1>6, <1>8
  <2> QED
    BY <1>3, <2>1 DEF Followed
<1>9. CASE page # new
  <2>1. /\ p \in Place /\ p # Feed!None /\ p \in page /\ k = page
        /\ \A m \in new : m \in page \/ Feed!After(p, m)
    BY <1>3, <1>4, <1>6, <1>9, PageEnds, PageAssumption
  <2>2. Feed!After(p, u)
    BY <1>3, <1>5, <2>1
  <2>3. \A m \in s : Feed!After(m, u) \/ Feed!After(p, m)
    BY <2>1, <2>2, InOrder
  <2> QED
    BY <1>3, <2>1, <2>3 DEF Followed
<1> QED
  BY <1>8, <1>9

LEMMA FeedNext ==
    ASSUME FeedInv, Feed!Next \/ UNCHANGED feedVars
    PROVE  FeedInv'
<1>1. PICK k, n, a, s, l, u, o, t :
         /\ k = feedClock /\ n = nextId /\ a = adding /\ s = shouts /\ l = list /\ u = since
         /\ o = older /\ t = late
         /\ FeedOK(k, n, a, s, l, u, o, t)
  BY DEF FeedInv
<1>2. PICK k2, n2, a2, s2, l2, u2, o2, t2 :
         /\ k2 = feedClock' /\ n2 = nextId' /\ a2 = adding' /\ s2 = shouts' /\ l2 = list'
         /\ u2 = since' /\ o2 = older' /\ t2 = late'
  OBVIOUS
<1>3. SUFFICES FeedOK(k2, n2, a2, s2, l2, u2, o2, t2)
  BY <1>2 DEF FeedInv
<1>4. /\ k \in Nat /\ a = [c \in Collector |-> a[c]] /\ IsFiniteSet(s) /\ o \in Place
      /\ \A c \in Collector : a[c] # Feed!NoShout => a[c].at >= 0
      /\ Numbered(n, a, s, u) /\ Followed(s, l, u, o, t)
  BY <1>1 DEF FeedOK
<1>5. /\ n \in Nat /\ s \in SUBSET Place /\ (\A m \in s : m.at >= 0) /\ u \in Place
      /\ \A c \in Collector : a[c] # Feed!NoShout => a[c] \in Place
  BY <1>4 DEF Numbered
<1>6. CASE UNCHANGED feedVars
  BY <1>1, <1>2, <1>6 DEF feedVars
<1>7. ASSUME NEW c \in Collector, Feed!Begin(c)
      PROVE  FeedOK(k2, n2, a2, s2, l2, u2, o2, t2)
  <2>1. PICK m : m = [at |-> k, id |-> n + 1]
    OBVIOUS
  <2>2. /\ n2 = n + 1 /\ a2 = [a EXCEPT ![c] = m] /\ k2 = k /\ s2 = s /\ l2 = l /\ u2 = u
        /\ o2 = o /\ t2 = t /\ a[c] = Feed!NoShout
    BY <1>1, <1>2, <1>7, <2>1 DEF Feed!Begin, Feed!Begun
  <2>3. m \in Place /\ m.at >= 0 /\ m.id = n + 1
    BY <1>4, <1>5, <2>1 DEF Place
  <2>4. Numbered(n2, a2, s, u)
    BY <1>4, <2>2, <2>3, NextNumber
  <2>5. /\ a2 = [d \in Collector |-> a2[d]]
        /\ \A d \in Collector : a2[d] # Feed!NoShout => a2[d].at >= 0
    BY <1>4, <2>2, <2>3
  <2> QED
    BY <1>4, <2>2, <2>4, <2>5 DEF FeedOK
<1>8. ASSUME NEW c \in Collector, Feed!Store(c) \/ Feed!StoreFails(c)
      PROVE  FeedOK(k2, n2, a2, s2, l2, u2, o2, t2)
  <2>1. PICK m : m = a[c]
    OBVIOUS
  <2>2. /\ n2 = n /\ a2 = [a EXCEPT ![c] = Feed!NoShout] /\ k2 = k /\ l2 = l /\ u2 = u
        /\ o2 = o /\ a[c] # Feed!NoShout
        /\ \/ s2 = s /\ t2 = t
           \/ /\ s2 = s \union {m}
              /\ t2 = IF Feed!After(u, m) THEN t \union {m} ELSE t
    BY <1>1, <1>2, <1>8, <2>1 DEF Feed!Store, Feed!StoreFails, Feed!Begun
  <2>3. m \in Place /\ m.at >= 0 /\ m.id # u.id
    BY <1>4, <1>5, <2>1, <2>2 DEF Numbered
  <2>4. Numbered(n, a2, s, u) /\ Numbered(n, a2, s \union {m}, u)
    BY <1>4, <2>1, <2>2, NumberDone
  <2>5. /\ a2 = [d \in Collector |-> a2[d]]
        /\ \A d \in Collector : a2[d] # Feed!NoShout => a2[d].at >= 0
    BY <1>4, <2>2
  <2>6. CASE s2 = s /\ t2 = t
    BY <1>4, <2>2, <2>4, <2>5, <2>6 DEF FeedOK
  <2>7. CASE /\ s2 = s \union {m}
             /\ t2 = IF Feed!After(u, m) THEN t \union {m} ELSE t
    <3>1. m # u
      BY <2>3
    <3>2. ~Feed!After(m, u) => m \in t2
      BY <1>5, <2>3, <2>7, <3>1, InOrder
    <3>3. t \subseteq t2
      BY <2>7
    <3>4. Followed(s2, l, u, o, t2)
      BY <1>4, <2>7, <3>2, <3>3 DEF Followed
    <3>5. IsFiniteSet(s2)
      BY <1>4, <2>7, FS_AddElement
    <3> QED
      BY <1>4, <2>2, <2>4, <2>5, <2>7, <3>4, <3>5 DEF FeedOK
  <2> QED
    BY <2>2, <2>6, <2>7
<1>9. CASE Feed!Forget
  <2>1. PICK m : m = Feed!Last(s)
    OBVIOUS
  <2>2. s2 = s \ {m} /\ k2 = k /\ n2 = n /\ a2 = a /\ l2 = l /\ u2 = u /\ o2 = o /\ t2 = t
    BY <1>1, <1>2, <1>9, <2>1 DEF Feed!Forget
  <2>3. s2 \in SUBSET s /\ IsFiniteSet(s2)
    BY <1>4, <2>2, FS_Subset
  <2> QED
    BY <1>4, <2>2, <2>3, FewerShouts DEF FeedOK
<1>10. CASE Feed!Tick
  <2>1. k2 = k + 1 /\ n2 = n /\ a2 = a /\ s2 = s /\ l2 = l /\ u2 = u /\ o2 = o /\ t2 = t
    BY <1>1, <1>2, <1>10 DEF Feed!Tick
  <2> QED
    BY <1>4, <2>1 DEF FeedOK
<1>11. CASE Feed!Load
  <2>1. PICK page : page = Feed!Newest(s, PageSize)
    OBVIOUS
  <2>2. /\ k2 = k /\ n2 = n /\ a2 = a /\ s2 = s /\ l2 = page /\ t2 = {}
        /\ u2 = IF page = {} THEN [at |-> k, id |-> 0] ELSE Feed!First(page)
        /\ o2 = IF page = s THEN Feed!None ELSE Feed!Last(page)
    BY <1>1, <1>2, <1>11, <2>1 DEF Feed!Load
  <2>3. Followed(s, page, u2, o2, {}) /\ o2 \in Place
    BY <1>4, <1>5, <2>1, <2>2, LoadFollows
  <2>4. u2 \in s \/ (u2 \in Place /\ u2.id = 0)
    <3>1. page \subseteq s /\ IsFiniteSet(page)
      BY <1>4, <1>5, <2>1, PageOf, PageAssumption
    <3>2. CASE page = {}
      BY <1>4, <2>2, <3>2 DEF Place
    <3>3. CASE page # {}
      BY <1>5, <2>2, <3>1, <3>3, Ends
    <3> QED
      BY <3>2, <3>3
  <2>5. Numbered(n, a, s, u2)
    BY <1>4, <2>4, SeenLast
  <2> QED
    BY <1>4, <2>2, <2>3, <2>5 DEF FeedOK
<1>12. CASE Feed!Older
  <2>1. /\ k2 = k /\ n2 = n /\ a2 = a /\ s2 = s /\ u2 = u /\ t2 = t /\ o # Feed!None
        /\ l2 = l \union PageBack(s, o) /\ o2 = EndBack(s, o)
    BY <1>1, <1>2, <1>12 DEF Feed!Older, PageBack, EndBack
  <2>2. Followed(s, l2, u, o2, t) /\ o2 \in Place
    BY <1>4, <1>5, <2>1, OlderFollows
  <2> QED
    BY <1>4, <2>1, <2>2 DEF FeedOK
<1>13. CASE Feed!Poll
  <2>1. /\ k2 = k /\ n2 = n /\ a2 = a /\ s2 = s /\ t2 = t /\ l2 = Listed(s, u, l)
        /\ u2 = NewestSeen(s, u) /\ o2 = OldestSeen(s, u, o)
    BY <1>1, <1>2, <1>13 DEF Feed!Poll, Listed, NewestSeen, OldestSeen, Polled, Newer
  <2>2. Followed(s, l2, u2, o2, t) /\ o2 \in Place /\ (u2 = u \/ u2 \in s)
    BY <1>4, <1>5, <2>1, PollFollows
  <2>3. Numbered(n, a, s, u2)
    BY <1>4, <2>2, SeenLast
  <2> QED
    BY <1>4, <2>1, <2>2, <2>3 DEF FeedOK
<1> QED
  BY <1>6, <1>7, <1>8, <1>9, <1>10, <1>11, <1>12, <1>13 DEF Feed!Next

\* A client that polls and pages back misses no shout between the newest it has seen and the
\* oldest it has paged back to, but those stored after it had polled past their time, for
\* every size of the pages and any number of collectors (findNewer, findOlder).
THEOREM LiveSkipsNothing == LiveSpec => []NothingSkipped
<1>1. LiveInit => FeedInv
  BY FeedInit DEF LiveInit
<1>2. FeedInv /\ [LiveNext]_liveVars => FeedInv'
  BY FeedNext, StepsApart
<1>3. FeedInv => NothingSkipped
  BY DEF FeedInv, FeedOK, Followed, NothingSkipped, Feed!NothingSkipped
<1> QED
  BY <1>1, <1>2, <1>3, PTL DEF LiveSpec

-----------------------------------------------------------------------------
\* Campfires

Flame == [at : Open, ends : Int]
BurningAt(s, k) == {f \in s : f.ends > k}
Spread(s) == \A f, g \in s : f # g => ~Fires!Near(f.at, g.at)

\* At time k, the fires fs that burn in memory are apart, and so are those of the file fl; who
\* of the announced ones an burns is in both.
FiresOK(k, fs, fl, an) ==
    /\ k \in Int
    /\ fs \subseteq Flame /\ fl \subseteq Flame /\ an \subseteq Flame
    /\ BurningAt(an, k) \subseteq fs \intersect fl
    /\ Spread(BurningAt(fs, k)) /\ Spread(BurningAt(fl, k))

FiresInv ==
    \E k, fs, fl, an : /\ k = clock /\ fs = fires /\ fl = file /\ an = announced
                       /\ FiresOK(k, fs, fl, an)

\* Nothing burns at first.
LEMMA FiresInit == Fires!Init => FiresInv
<1> SUFFICES ASSUME Fires!Init PROVE FiresInv
  OBVIOUS
<1>1. PICK k, fs, fl, an : k = clock /\ fs = fires /\ fl = file /\ an = announced
  OBVIOUS
<1>2. k = 0 /\ fs = {} /\ fl = {} /\ an = {}
  BY <1>1 DEF Fires!Init
<1>3. FiresOK(k, fs, fl, an)
  BY <1>2 DEF FiresOK, Spread, BurningAt
<1> QED
  BY <1>1, <1>3 DEF FiresInv

\* To be near is mutual.
LEMMA NearBoth ==
    ASSUME NEW p \in Open, NEW q \in Open
    PROVE  Fires!Near(p, q) => Fires!Near(q, p) /\ Fires!Near(p, p)
<1>1. p[1] \in Int /\ p[2] \in Int /\ q[1] \in Int /\ q[2] \in Int
  BY FireAssumption
<1> QED
  BY <1>1, FireAssumption DEF Fires!Near, Fires!Apart

\* A fire that has no neighbour joins the others.
LEMMA OneMore ==
    ASSUME NEW s \in SUBSET Flame, Spread(s), NEW n \in Flame, NEW p, n.at = p,
           \A f \in s : ~Fires!Near(f.at, p)
    PROVE  Spread(s \union {n})
<1>1. ASSUME NEW f \in s PROVE ~Fires!Near(f.at, n.at) /\ ~Fires!Near(n.at, f.at)
  <2>1. f.at \in Open /\ n.at \in Open
    BY <1>1 DEF Flame
  <2> QED
    BY <1>1, <2>1, NearBoth
<1> QED
  BY <1>1 DEF Spread

\* The fires that burn are what matters.
LEMMA BurningStays ==
    ASSUME NEW k \in Int, NEW s \in SUBSET Flame
    PROVE  /\ BurningAt(s, k) \in SUBSET Flame
           /\ BurningAt(BurningAt(s, k), k) = BurningAt(s, k)
           /\ \A r : BurningAt(s \union r, k) = BurningAt(s, k) \union BurningAt(r, k)
           /\ Spread(s) => Spread(BurningAt(s, k))
  BY DEF BurningAt, Spread

LEMMA FiresNext ==
    ASSUME FiresInv, Fires!Next \/ UNCHANGED fireVars
    PROVE  FiresInv'
<1>1. PICK k, fs, fl, an : /\ k = clock /\ fs = fires /\ fl = file /\ an = announced
                           /\ FiresOK(k, fs, fl, an)
  BY DEF FiresInv
<1>2. PICK k2, fs2, fl2, an2 : k2 = clock' /\ fs2 = fires' /\ fl2 = file' /\ an2 = announced'
  OBVIOUS
<1>3. SUFFICES FiresOK(k2, fs2, fl2, an2)
  BY <1>2 DEF FiresInv
<1>4. /\ k \in Int /\ fs \in SUBSET Flame /\ fl \in SUBSET Flame /\ an \in SUBSET Flame
      /\ BurningAt(an, k) \subseteq fs /\ BurningAt(an, k) \subseteq fl
      /\ Spread(BurningAt(fs, k)) /\ Spread(BurningAt(fl, k))
  BY <1>1 DEF FiresOK
<1>5. PICK b, c : b = BurningAt(fs, k) /\ c = BurningAt(fl, k)
  OBVIOUS
<1>6. /\ Fires!Burning(fires) = b /\ Fires!Burning(file) = c
      /\ b \in SUBSET Flame /\ c \in SUBSET Flame
      /\ BurningAt(b, k) = b /\ BurningAt(c, k) = c /\ Spread(b) /\ Spread(c)
      /\ BurningAt(an, k) \subseteq b /\ BurningAt(an, k) \subseteq c
  <2>1. Fires!Burning(fires) = b /\ Fires!Burning(file) = c
    BY <1>1, <1>5 DEF Fires!Burning, BurningAt
  <2>2. BurningAt(an, k) \subseteq b /\ BurningAt(an, k) \subseteq c
    BY <1>4, <1>5 DEF BurningAt
  <2> QED
    BY <1>4, <1>5, <2>1, <2>2, BurningStays
\* What a step leaves behind: fires x in memory and y in the file, both of which spread and
\* hold what burns of the announced ones z.
<1>7. ASSUME k2 = k, fs2 \in SUBSET Flame, fl2 \in SUBSET Flame, an2 \in SUBSET Flame,
             BurningAt(an2, k) \subseteq fs2, BurningAt(an2, k) \subseteq fl2,
             Spread(BurningAt(fs2, k)), Spread(BurningAt(fl2, k))
      PROVE  FiresOK(k2, fs2, fl2, an2)
  BY <1>4, <1>7 DEF FiresOK
<1>8. CASE UNCHANGED fireVars
  BY <1>1, <1>2, <1>8 DEF fireVars
<1>9. CASE Fires!Sweep
  <2>1. k2 = k /\ fs2 = b /\ fl2 = b /\ an2 = an
    BY <1>1, <1>2, <1>6, <1>9 DEF Fires!Sweep
  <2> QED
    BY <1>4, <1>6, <1>7, <2>1
<1>10. CASE Fires!Restart
  <2>1. k2 = k /\ fs2 = c /\ fl2 = fl /\ an2 = an
    BY <1>1, <1>2, <1>6, <1>10 DEF Fires!Restart, Fires!Load
  <2> QED
    BY <1>4, <1>6, <1>7, <2>1
<1>11. CASE Fires!Tick
  <2>1. k2 = k + 1 /\ fs2 = fs /\ fl2 = fl /\ an2 = an
    BY <1>1, <1>2, <1>11 DEF Fires!Tick
  <2>2. \A s \in SUBSET Flame : BurningAt(s, k2) \subseteq BurningAt(s, k)
    BY <1>4, <2>1 DEF BurningAt, Flame
  <2>3. /\ Spread(BurningAt(fs, k2)) /\ Spread(BurningAt(fl, k2))
        /\ BurningAt(an, k2) \subseteq BurningAt(an, k)
    BY <1>4, <2>2 DEF Spread
  <2> QED
    BY <1>4, <2>1, <2>3 DEF FiresOK
<1>12. ASSUME NEW p \in Open, Fires!Refuse(p)
       PROVE  FiresOK(k2, fs2, fl2, an2)
  <2>1. k2 = k /\ fs2 = b /\ (fl2 = b \/ fl2 = fl) /\ an2 = an
    BY <1>1, <1>2, <1>6, <1>12 DEF Fires!Refuse
  <2> QED
    BY <1>4, <1>6, <1>7, <2>1
<1>13. ASSUME NEW p \in Open, Fires!Place(p) \/ Fires!PlaceFails(p) \/ Fires!PlaceUntold(p)
       PROVE  FiresOK(k2, fs2, fl2, an2)
  <2>1. PICK n : n = [at |-> p, ends |-> k + Lifetime]
    OBVIOUS
  <2>2. PICK w : w = b \union {n}
    OBVIOUS
  <2>3. n \in Flame /\ n.at = p /\ w \in SUBSET Flame /\ b \subseteq w
    BY <1>4, <1>6, <2>1, <2>2, FireAssumption DEF Flame
  <2>4. CASE ~Fires!Allowed(p)
    <3>1. k2 = k /\ fs2 = b /\ fl2 = fl /\ an2 = an
      BY <1>1, <1>2, <1>6, <1>13, <2>4 DEF Fires!Place, Fires!PlaceFails, Fires!PlaceUntold
    <3> QED
      BY <1>4, <1>6, <1>7, <3>1
  <2>5. CASE Fires!Allowed(p)
    <3>1. Spread(w) /\ Spread(BurningAt(w, k))
      <4>1. \A f \in b : ~Fires!Near(f.at, p)
        BY <1>6, <2>5 DEF Fires!Allowed
      <4>2. Spread(w)
        BY <1>6, <2>2, <2>3, <4>1, OneMore
      <4> QED
        BY <1>4, <2>3, <4>2, BurningStays
    <3>2. BurningAt(an \union {n}, k) \subseteq w /\ BurningAt(an, k) \subseteq w
      <4>1. BurningAt(an \union {n}, k) \subseteq BurningAt(an, k) \union {n}
        BY DEF BurningAt
      <4> QED
        BY <1>6, <2>2, <4>1
    <3>3. Fires!New(p) = n
      BY <1>1, <2>1 DEF Fires!New
    <3>4. k2 = k
      BY <1>1, <1>2, <1>13 DEF Fires!Place, Fires!PlaceFails, Fires!PlaceUntold
    <3>5. CASE Fires!Place(p)
      <4>1. fs2 = w /\ fl2 = w /\ an2 = an \union {n}
        BY <1>1, <1>2, <1>6, <2>2, <3>3, <3>5 DEF Fires!Place
      <4>2. an2 \in SUBSET Flame
        BY <1>4, <2>3, <4>1
      <4> QED
        BY <1>7, <2>3, <3>1, <3>2, <3>4, <4>1, <4>2
    <3>6. CASE Fires!PlaceFails(p)
      <4>1. (fs2 = b \/ fs2 = w) /\ (fl2 = b \/ fl2 = fl) /\ an2 = an
        BY <1>1, <1>2, <1>6, <2>2, <3>3, <3>6 DEF Fires!PlaceFails
      <4>2. fs2 \in SUBSET Flame /\ BurningAt(an, k) \subseteq fs2 /\ Spread(BurningAt(fs2, k))
        BY <1>6, <2>3, <3>1, <3>2, <4>1
      <4>3. fl2 \in SUBSET Flame /\ BurningAt(an, k) \subseteq fl2 /\ Spread(BurningAt(fl2, k))
        BY <1>4, <1>6, <4>1
      <4> QED
        BY <1>4, <1>7, <3>4, <4>1, <4>2, <4>3
    <3>7. CASE Fires!PlaceUntold(p)
      <4>1. fl2 = w /\ fs2 = BurningAt(w, k) /\ an2 = an
        BY <1>1, <1>2, <1>6, <2>2, <3>3, <3>7
           DEF Fires!PlaceUntold, Fires!Load, Fires!Burning, BurningAt
      <4>2. fs2 \in SUBSET Flame /\ BurningAt(fs2, k) = fs2 /\ BurningAt(an, k) \subseteq fs2
        <5>1. BurningAt(an, k) \subseteq BurningAt(w, k)
          BY <3>2 DEF BurningAt
        <5> QED
          BY <1>4, <2>3, <4>1, <5>1, BurningStays
      <4> QED
        BY <1>4, <1>7, <2>3, <3>1, <3>2, <3>4, <4>1, <4>2
    <3> QED
      BY <1>13, <3>5, <3>6, <3>7
  <2> QED
    BY <2>4, <2>5
<1> QED
  BY <1>8, <1>9, <1>10, <1>11, <1>12, <1>13 DEF Fires!Next

\* A fire the players were told of burns for its whole life and has no neighbour
\* (CampfireStore, placeCampfire).
LEMMA FiresLastHolds == FiresInv => Fires!FiresLast
<1> SUFFICES ASSUME FiresInv PROVE Fires!FiresLast
  OBVIOUS
<1>1. PICK k, fs, fl, an : /\ k = clock /\ fs = fires /\ fl = file /\ an = announced
                           /\ FiresOK(k, fs, fl, an)
  BY DEF FiresInv
<1>2. /\ Fires!Burning(announced) = BurningAt(an, k) /\ Fires!Burning(fires) = BurningAt(fs, k)
  BY <1>1 DEF Fires!Burning, BurningAt
<1> QED
  BY <1>1, <1>2 DEF FiresOK, Spread, Fires!FiresLast

-----------------------------------------------------------------------------
\* The chat of a channel: messages

Utterance == [id : Nat, sender : Talker, pinned : BOOLEAN, at : Int]
Stage == {"away", "joining", "here", "gone"}
Present(p) == {s \in Talker : p[s] = "here"}

\* What the server and the clients do with a message: it is kept, and it is shown.
Remember(m, x) == Chat!Newest(Append(m, x))
Telling(P, h, x) ==
    [t \in Talker |-> IF t \in P
                      THEN [id \in DOMAIN h[t] \union {x.id} |-> IF id = x.id THEN x ELSE h[t][id]]
                      ELSE h[t]]
Given(m) ==
    [id \in {m[i].id : i \in DOMAIN m} |-> m[CHOOSE i \in DOMAIN m : m[i].id = id]]

\* m holds the last of n messages that were said.
HistoryOK(m, n) ==
    /\ n \in Nat /\ m \in Seq(Utterance)
    /\ Len(m) = IF n < MaxHistory THEN n ELSE MaxHistory
    /\ \A i \in DOMAIN m : m[i].id <= n
    /\ \A i, j \in DOMAIN m : i < j => m[i].id < m[j].id

\* Those in P show all of m, nothing that is not said yet, and the same.
ShownOK(P, m, n, h) ==
    /\ \A s \in P : \A i \in DOMAIN m : m[i].id \in DOMAIN h[s] /\ h[s][m[i].id] = m[i]
    /\ \A s \in P : \A id \in DOMAIN h[s] : id \in Nat /\ id <= n
    /\ \A s, t \in P : \A id \in DOMAIN h[s] \intersect DOMAIN h[t] : h[s][id] = h[t][id]

\* Who said something is here, and remembered to have, or gone for good.
HeardOf(p, a, x) ==
    /\ p[x.sender] \in {"here", "gone"}
    /\ p[x.sender] = "here" => a[x.sender] # MaxTalk /\ x.at <= a[x.sender]
WaitsOK(p, a, m) ==
    /\ \A i \in DOMAIN m : HeardOf(p, a, m[i])
    /\ \A i, j \in DOMAIN m : i < j /\ m[i].sender = m[j].sender =>
          m[j].at - m[i].at >= Chat!Wait(m[i].sender)

TalkOK(k, p, a, m, n, h) ==
    /\ k \in Nat /\ k < MaxTalk
    /\ p \in [Talker -> Stage] /\ a \in [Talker -> 0 .. MaxTalk] /\ DOMAIN h = Talker
    /\ HistoryOK(m, n) /\ ShownOK(Present(p), m, n, h) /\ WaitsOK(p, a, m)

TalkInv ==
    \E k, p, a, m, n, h :
        /\ k = talkTime /\ p = phase /\ a = saidAt /\ m = messages /\ n = said /\ h = shown
        /\ TalkOK(k, p, a, m, n, h)

LEMMA Elements ==
    ASSUME NEW S, NEW s \in Seq(S)
    PROVE  \A i \in DOMAIN s : s[i] \in S
  OBVIOUS

\* Of finitely many numbers, the greatest is the maximum.
LEMMA MaxOf ==
    ASSUME NEW S \in SUBSET Int, IsFiniteSet(S), S # {}
    PROVE  Chat!Max(S) \in S /\ \A y \in S : Chat!Max(S) >= y
<1>1. \E m \in S : \A k \in S : m >= k
  <2> DEFINE R == {p \in Int \X Int : p[1] > p[2]}
  <2>1. \A a, b \in Int : <<a, b>> \in R <=> a > b
    OBVIOUS
  <2> HIDE DEF R
  <2>2. StrictOrder(S, R)
    BY <2>1 DEF StrictOrder
  <2>3. HasFirst(S, R)
    BY <2>2, OrderedFirst
  <2>4. PICK m \in S : \A k \in S : k = m \/ <<m, k>> \in R
    BY <2>3 DEF HasFirst
  <2>5. ASSUME NEW k \in S PROVE m >= k
    <3>1. m \in Int /\ k \in Int /\ (k = m \/ <<m, k>> \in R)
      BY <2>4
    <3> QED
      BY <2>1, <3>1
  <2> QED
    BY <2>5
<1> QED
  BY <1>1 DEF Chat!Max

\* The newest messages q: the last is x, just said, and the others moved up by d.
Moved(m, x, d, q) ==
    /\ q \in Seq(Utterance) /\ Len(q) = Len(m) + 1 - d
    /\ d \in {0, 1} /\ d = IF Len(m) < MaxHistory THEN 0 ELSE 1
    /\ \A i \in DOMAIN q : IF i = Len(q) THEN q[i] = x ELSE i + d \in DOMAIN m /\ q[i] = m[i + d]

LEMMA MaxOfTwo ==
    ASSUME NEW e \in Int
    PROVE  Chat!Max({1, e}) = IF e > 1 THEN e ELSE 1
<1>1. CASE e > 1
  <2>1. \A y \in {1, e} : e >= y
    BY <1>1
  <2>2. \A x \in {1, e} : (\A y \in {1, e} : x >= y) => x = e
    BY <1>1
  <2> QED
    BY <1>1, <2>1, <2>2 DEF Chat!Max
<1>2. CASE ~(e > 1)
  <2>1. \A y \in {1, e} : 1 >= y
    BY <1>2
  <2>2. \A x \in {1, e} : (\A y \in {1, e} : x >= y) => x = 1
    BY <1>2
  <2> QED
    BY <1>2, <2>1, <2>2 DEF Chat!Max
<1> QED
  BY <1>1, <1>2

LEMMA Remembered ==
    ASSUME NEW m \in Seq(Utterance), NEW x \in Utterance, Len(m) <= MaxHistory
    PROVE  \E d : Moved(m, x, d, Remember(m, x))
<1> DEFINE q == Append(m, x)
           e == Len(q) - MaxHistory + 1
           d == IF Len(m) < MaxHistory THEN 0 ELSE 1
<1>1. q \in Seq(Utterance) /\ Len(q) = Len(m) + 1 /\ Len(m) \in Nat
  OBVIOUS
<1>2. q[Len(m) + 1] = x /\ \A i \in 1 .. Len(m) : q[i] = m[i]
  OBVIOUS
<1>3. e \in Int /\ e = Len(m) + 2 - MaxHistory
  BY <1>1, ChatAssumption
<1>4. Chat!Max({1, e}) = 1 + d
  <2>1. Chat!Max({1, e}) = IF e > 1 THEN e ELSE 1
    BY <1>3, MaxOfTwo
  <2> QED
    BY <1>1, <1>3, <2>1, ChatAssumption
<1>5. Remember(m, x) = SubSeq(q, 1 + d, Len(q))
  BY <1>4 DEF Remember, Chat!Newest
<1>6. d \in {0, 1} /\ (d = 1 => Len(m) >= 1)
  BY ChatAssumption
<1> HIDE DEF q, e, d
<1>7. /\ SubSeq(q, 1 + d, Len(q)) \in Seq(Utterance)
      /\ Len(SubSeq(q, 1 + d, Len(q))) = Len(m) + 1 - d
      /\ \A i \in 1 .. Len(m) + 1 - d : SubSeq(q, 1 + d, Len(q))[i] = q[i + d]
  BY <1>1, <1>6
<1>8. PICK r : r = SubSeq(q, 1 + d, Len(q))
  OBVIOUS
<1>9. /\ r \in Seq(Utterance) /\ Len(r) = Len(m) + 1 - d
      /\ \A i \in 1 .. Len(m) + 1 - d : r[i] = q[i + d]
      /\ DOMAIN r = 1 .. Len(m) + 1 - d
  BY <1>7, <1>8
<1>10. ASSUME NEW i \in DOMAIN r
       PROVE  IF i = Len(r) THEN r[i] = x ELSE i + d \in DOMAIN m /\ r[i] = m[i + d]
  <2>1. r[i] = q[i + d] /\ i \in 1 .. Len(m) + 1 - d
    BY <1>9
  <2>2. CASE i = Len(r)
    <3>1. i + d = Len(m) + 1
      BY <1>1, <1>6, <1>9, <2>2
    <3> QED
      BY <1>2, <2>1, <2>2, <3>1
  <2>3. CASE i # Len(r)
    <3>1. i + d \in 1 .. Len(m)
      BY <1>1, <1>6, <1>9, <2>1, <2>3
    <3> QED
      BY <1>2, <2>1, <2>3, <3>1
  <2> QED
    BY <2>2, <2>3
<1>11. Moved(m, x, d, r)
  <2>1. d = IF Len(m) < MaxHistory THEN 0 ELSE 1
    BY DEF d
  <2> QED
    BY <1>6, <1>9, <1>10, <2>1 DEF Moved
<1> QED
  BY <1>5, <1>8, <1>11

\* What is known of the history m and of what it becomes
LEMMA Recalled ==
    ASSUME NEW m, NEW n, HistoryOK(m, n), NEW x \in Utterance
    PROVE  /\ \E d : Moved(m, x, d, Remember(m, x))
           /\ DOMAIN m = 1 .. Len(m) /\ Len(m) \in Nat /\ n \in Nat
           /\ \A i \in DOMAIN m : m[i] \in Utterance /\ m[i].id \in Nat /\ m[i].id <= n
<1>1. m \in Seq(Utterance) /\ Len(m) \in Nat /\ n \in Nat /\ Len(m) <= MaxHistory
  BY ChatAssumption DEF HistoryOK
<1>2. \E d : Moved(m, x, d, Remember(m, x))
  BY <1>1, Remembered
<1>3. \A i \in DOMAIN m : m[i] \in Utterance
  BY <1>1, Elements
<1>4. \A i \in DOMAIN m : m[i].id \in Nat /\ m[i].id <= n
  BY <1>3 DEF HistoryOK, Utterance
<1>5. DOMAIN m = 1 .. Len(m)
  BY <1>1
<1> QED
  BY <1>1, <1>2, <1>3, <1>4, <1>5

\* A message that is new.
LEMMA HistoryGrows ==
    ASSUME NEW m, NEW n, HistoryOK(m, n), NEW x \in Utterance, x.id = n + 1
    PROVE  HistoryOK(Remember(m, x), n + 1)
<1>1. PICK q : q = Remember(m, x)
  OBVIOUS
<1>2. PICK d : Moved(m, x, d, q)
  BY <1>1, Recalled
<1>3. /\ n \in Nat /\ Len(m) \in Nat /\ d \in {0, 1} /\ Len(q) = Len(m) + 1 - d
      /\ \A i \in DOMAIN m : m[i].id \in Nat /\ m[i].id <= n
      /\ q \in Seq(Utterance) /\ DOMAIN q = 1 .. Len(q)
  BY <1>2, Recalled DEF Moved
<1>4. \A i \in DOMAIN q :
         \/ i = Len(q) /\ q[i].id = n + 1
         \/ i < Len(q) /\ i + d \in DOMAIN m /\ q[i].id = m[i + d].id
  BY <1>2, <1>3 DEF Moved
<1>5. \A i \in DOMAIN q : q[i].id <= n + 1
  BY <1>3, <1>4
<1>6. ASSUME NEW i \in DOMAIN q, NEW j \in DOMAIN q, i < j PROVE q[i].id < q[j].id
  <2>1. i < Len(q) /\ i \in Int /\ j \in Int
    BY <1>3, <1>6
  <2>2. i + d \in DOMAIN m /\ q[i].id = m[i + d].id
    BY <1>4, <2>1
  <2>3. m[i + d].id \in Nat /\ m[i + d].id <= n
    BY <1>3, <2>2
  <2>4. CASE j = Len(q)
    BY <1>3, <1>4, <2>2, <2>3, <2>4
  <2>5. CASE j # Len(q)
    <3>1. j + d \in DOMAIN m /\ q[j].id = m[j + d].id
      BY <1>4, <2>5
    <3>2. i + d < j + d
      BY <1>3, <1>6, <2>1
    <3>3. m[i + d].id < m[j + d].id
      BY <2>2, <3>1, <3>2 DEF HistoryOK
    <3> QED
      BY <2>2, <3>1, <3>3
  <2> QED
    BY <2>4, <2>5
<1>7. Len(q) = IF n + 1 < MaxHistory THEN n + 1 ELSE MaxHistory
  <2>1. Len(m) = IF n < MaxHistory THEN n ELSE MaxHistory
    BY DEF HistoryOK
  <2>2. d = IF Len(m) < MaxHistory THEN 0 ELSE 1
    BY <1>2 DEF Moved
  <2> QED
    BY <1>3, <2>1, <2>2, ChatAssumption
<1> QED
  BY <1>1, <1>3, <1>5, <1>6, <1>7 DEF HistoryOK

LEMMA ShownGrows ==
    ASSUME NEW P \in SUBSET Talker, NEW m, NEW n, NEW h, HistoryOK(m, n), ShownOK(P, m, n, h),
           NEW x \in Utterance, x.id = n + 1
    PROVE  ShownOK(P, Remember(m, x), n + 1, Telling(P, h, x))
<1>1. PICK q, g : q = Remember(m, x) /\ g = Telling(P, h, x)
  OBVIOUS
<1>2. PICK d : Moved(m, x, d, q)
  BY <1>1, Recalled
<1>3. n \in Nat
  BY Recalled
<1>4. \A t \in P : /\ DOMAIN g[t] = DOMAIN h[t] \union {n + 1}
                   /\ g[t][n + 1] = x
                   /\ \A id \in DOMAIN h[t] : id # n + 1 => g[t][id] = h[t][id]
  BY <1>1 DEF Telling
<1>5. \A t \in P : \A id \in DOMAIN h[t] : id \in Nat /\ id <= n
  BY DEF ShownOK
<1>6. \A t \in P : \A id \in DOMAIN h[t] : id # n + 1 /\ g[t][id] = h[t][id]
  <2>1. \A t \in P : \A id \in DOMAIN h[t] : id # n + 1
    BY <1>3, <1>5
  <2> QED
    BY <1>4, <2>1
<1>7. \A t \in P : \A i \in DOMAIN m : m[i].id \in DOMAIN g[t] /\ g[t][m[i].id] = m[i]
  <2>1. \A t \in P : \A i \in DOMAIN m : m[i].id \in DOMAIN h[t] /\ h[t][m[i].id] = m[i]
    BY DEF ShownOK
  <2> QED
    BY <1>4, <1>6, <2>1
<1>8. \A i \in DOMAIN q : q[i] = x \/ \E j \in DOMAIN m : q[i] = m[j]
  BY <1>2 DEF Moved
<1>9. \A t \in P : x.id \in DOMAIN g[t] /\ g[t][x.id] = x
  BY <1>4
<1>10. \A t \in P : \A i \in DOMAIN q : q[i].id \in DOMAIN g[t] /\ g[t][q[i].id] = q[i]
  BY <1>7, <1>8, <1>9
<1>11. \A t \in P : \A id \in DOMAIN g[t] : id \in Nat /\ id <= n + 1
  BY <1>3, <1>4, <1>5
<1>12. \A s, t \in P : \A id \in DOMAIN g[s] \intersect DOMAIN g[t] : g[s][id] = g[t][id]
  <2>1. \A s, t \in P : \A id \in DOMAIN h[s] \intersect DOMAIN h[t] : h[s][id] = h[t][id]
    BY DEF ShownOK
  <2> QED
    BY <1>4, <1>6, <2>1
<1> QED
  BY <1>1, <1>10, <1>11, <1>12 DEF ShownOK

LEMMA WaitsGrow ==
    ASSUME NEW p, NEW a, NEW m, NEW n, HistoryOK(m, n), WaitsOK(p, a, m),
           NEW x \in Utterance, HeardOf(p, a, x),
           \A i \in DOMAIN m : m[i].sender = x.sender => x.at - m[i].at >= Chat!Wait(x.sender)
    PROVE  WaitsOK(p, a, Remember(m, x))
<1>1. PICK q : q = Remember(m, x)
  OBVIOUS
<1>2. PICK d : Moved(m, x, d, q)
  BY <1>1, Recalled
<1>3. d \in {0, 1} /\ DOMAIN q = 1 .. Len(q) /\ Len(q) \in Nat
  BY <1>2 DEF Moved
<1>4. \A i \in DOMAIN q : i # Len(q) => i + d \in DOMAIN m /\ q[i] = m[i + d]
  BY <1>2 DEF Moved
<1>5. \A i \in DOMAIN q : i = Len(q) => q[i] = x
  BY <1>2 DEF Moved
<1>6. \A i \in DOMAIN q : HeardOf(p, a, q[i])
  <2>1. \A i \in DOMAIN m : HeardOf(p, a, m[i])
    BY DEF WaitsOK
  <2> QED
    BY <1>4, <1>5, <2>1
<1>7. ASSUME NEW i \in DOMAIN q, NEW j \in DOMAIN q, i < j, q[i].sender = q[j].sender
      PROVE  q[j].at - q[i].at >= Chat!Wait(q[i].sender)
  <2>1. i # Len(q) /\ i \in Int /\ j \in Int
    BY <1>3, <1>7
  <2>2. i + d \in DOMAIN m /\ q[i] = m[i + d]
    BY <1>4, <2>1
  <2>3. CASE j = Len(q)
    <3>1. q[j] = x
      BY <1>5, <2>3
    <3> QED
      BY <1>7, <2>2, <3>1
  <2>4. CASE j # Len(q)
    <3>1. j + d \in DOMAIN m /\ q[j] = m[j + d]
      BY <1>4, <2>4
    <3>2. i + d < j + d
      BY <1>3, <1>7, <2>1
    <3> QED
      BY <1>7, <2>2, <3>1, <3>2 DEF WaitsOK
  <2> QED
    BY <2>3, <2>4
<1> QED
  BY <1>1, <1>6, <1>7 DEF WaitsOK

\* The message at k loses its pin, here and with those who show it.
Bare(x) == [x EXCEPT !.pinned = FALSE]
Cleared(m, k) == [m EXCEPT ![k].pinned = FALSE]

LEMMA Unpinned ==
    ASSUME NEW P \in SUBSET Talker, NEW m, NEW n, NEW h, HistoryOK(m, n), ShownOK(P, m, n, h),
           NEW k \in DOMAIN m
    PROVE  /\ HistoryOK(Cleared(m, k), n)
           /\ ShownOK(P, Cleared(m, k), n, Telling(P, h, Bare(m[k])))
           /\ DOMAIN Cleared(m, k) = DOMAIN m
           /\ \A i \in DOMAIN m : /\ Cleared(m, k)[i].sender = m[i].sender
                                 /\ Cleared(m, k)[i].at = m[i].at
<1>1. PICK x, q, g : x = Bare(m[k]) /\ q = Cleared(m, k) /\ g = Telling(P, h, x)
  OBVIOUS
<1>2. /\ n \in Nat /\ m \in Seq(Utterance) /\ Len(m) \in Nat
      /\ \A i \in DOMAIN m : m[i] \in Utterance /\ m[i].id <= n
      /\ \A i, j \in DOMAIN m : i < j => m[i].id < m[j].id
  BY Elements DEF HistoryOK
<1>3. x.id = m[k].id /\ x.sender = m[k].sender /\ x.at = m[k].at /\ x \in Utterance
  BY <1>1, <1>2 DEF Utterance, Bare
<1>4. DOMAIN q = DOMAIN m /\ q[k] = x /\ \A i \in DOMAIN m : i # k => q[i] = m[i]
  BY <1>1 DEF Cleared, Bare
<1>5. \A i \in DOMAIN m : /\ q[i] \in Utterance /\ q[i].id = m[i].id
                          /\ q[i].sender = m[i].sender /\ q[i].at = m[i].at
  BY <1>2, <1>3, <1>4
<1>6. q \in Seq(Utterance) /\ Len(q) = Len(m)
  <2>1. DOMAIN q = 1 .. Len(m)
    BY <1>2, <1>4
  <2>2. q \in [1 .. Len(m) -> Utterance]
    BY <1>1, <1>2, <1>5, <2>1 DEF Cleared
  <2>3. q \in Seq(Utterance)
    BY <1>2, <2>2
  <2> QED
    BY <1>2, <2>1, <2>3
<1>7. HistoryOK(q, n)
  <2>1. \A i, j \in DOMAIN q : i < j => q[i].id < q[j].id
    BY <1>2, <1>4, <1>5
  <2> QED
    BY <1>2, <1>4, <1>5, <1>6, <2>1 DEF HistoryOK
<1>8. m[k].id \in Nat /\ \A i \in DOMAIN m : i # k => m[i].id # m[k].id
  <2>1. \A i \in DOMAIN m : m[i].id \in Nat /\ i \in Int
    BY <1>2 DEF Utterance
  <2> QED
    BY <1>2, <2>1
<1>9. \A t \in P : /\ m[k].id \in DOMAIN h[t]
                   /\ DOMAIN g[t] = DOMAIN h[t]
                   /\ g[t][m[k].id] = x
                   /\ \A id \in DOMAIN h[t] : id # m[k].id => g[t][id] = h[t][id]
  <2>1. \A t \in P : m[k].id \in DOMAIN h[t]
    BY DEF ShownOK
  <2>2. \A t \in P : DOMAIN h[t] \union {m[k].id} = DOMAIN h[t]
    BY <2>1
  <2> QED
    BY <1>1, <1>3, <2>1, <2>2 DEF Telling
<1>10. \A t \in P : \A i \in DOMAIN m : m[i].id \in DOMAIN h[t] /\ h[t][m[i].id] = m[i]
  BY DEF ShownOK
<1>11. \A t \in P : \A i \in DOMAIN q : q[i].id \in DOMAIN g[t] /\ g[t][q[i].id] = q[i]
  <2>1. ASSUME NEW t \in P, NEW i \in DOMAIN m, i # k
        PROVE  m[i].id \in DOMAIN g[t] /\ g[t][m[i].id] = m[i]
    BY <1>8, <1>9, <1>10, <2>1
  <2>2. ASSUME NEW t \in P PROVE x.id \in DOMAIN g[t] /\ g[t][x.id] = x
    BY <1>3, <1>9
  <2>3. ASSUME NEW t \in P, NEW i \in DOMAIN q
        PROVE  q[i].id \in DOMAIN g[t] /\ g[t][q[i].id] = q[i]
    <3>1. CASE i = k
      BY <1>4, <2>2, <3>1
    <3>2. CASE i # k
      <4>1. i \in DOMAIN m /\ q[i] = m[i]
        BY <1>4, <3>2
      <4> QED
        BY <2>1, <3>2, <4>1
    <3> QED
      BY <3>1, <3>2
  <2> QED
    BY <2>3
<1>12. \A t \in P : \A id \in DOMAIN g[t] : id \in Nat /\ id <= n
  BY <1>9 DEF ShownOK
<1>13. \A s, t \in P : \A id \in DOMAIN g[s] \intersect DOMAIN g[t] : g[s][id] = g[t][id]
  <2>1. \A s, t \in P : \A id \in DOMAIN h[s] \intersect DOMAIN h[t] : h[s][id] = h[t][id]
    BY DEF ShownOK
  <2> QED
    BY <1>9, <2>1
<1>14. ShownOK(P, q, n, g)
  BY <1>11, <1>12, <1>13 DEF ShownOK
<1> QED
  BY <1>1, <1>4, <1>5, <1>7, <1>14

\* A newcomer is given what the others show.
LEMMA ShownToAll ==
    ASSUME NEW P \in SUBSET Talker, NEW m, NEW n, NEW h, HistoryOK(m, n), ShownOK(P, m, n, h),
           NEW s \in Talker, NEW g, g[s] = Given(m), \A t \in P : t # s => g[t] = h[t]
    PROVE  ShownOK(P \union {s}, m, n, g)
<1>1. /\ m \in Seq(Utterance)
      /\ \A i \in DOMAIN m : m[i] \in Utterance /\ m[i].id <= n
      /\ \A i, j \in DOMAIN m : i < j => m[i].id < m[j].id
  BY Elements DEF HistoryOK
<1>2. \A i, j \in DOMAIN m : m[i].id = m[j].id => i = j
  <2>1. \A i \in DOMAIN m : m[i].id \in Nat /\ i \in Int
    BY <1>1 DEF Utterance
  <2> QED
    BY <1>1, <2>1
<1>3. DOMAIN g[s] = {m[i].id : i \in DOMAIN m}
  BY DEF Given
<1>4. \A i \in DOMAIN m : m[i].id \in DOMAIN g[s] /\ g[s][m[i].id] = m[i]
  <2> SUFFICES ASSUME NEW i \in DOMAIN m PROVE g[s][m[i].id] = m[i]
    BY <1>3
  <2>1. g[s][m[i].id] = m[CHOOSE j \in DOMAIN m : m[j].id = m[i].id]
    <3>1. \A id \in DOMAIN Given(m) : Given(m)[id] = m[CHOOSE j \in DOMAIN m : m[j].id = id]
      BY DEF Given
    <3> QED
      BY <1>3, <3>1
  <2>2. (CHOOSE j \in DOMAIN m : m[j].id = m[i].id) = i
    BY <1>2
  <2> QED
    BY <2>1, <2>2
<1>5. \A t \in P : \A i \in DOMAIN m : m[i].id \in DOMAIN h[t] /\ h[t][m[i].id] = m[i]
  BY DEF ShownOK
<1>6. \A t \in P \union {s} : \A i \in DOMAIN m :
         m[i].id \in DOMAIN g[t] /\ g[t][m[i].id] = m[i]
  BY <1>4, <1>5
<1>7. \A t \in P \union {s} : \A id \in DOMAIN g[t] : id \in Nat /\ id <= n
  <2>1. \A t \in P : t # s => \A id \in DOMAIN g[t] : id \in Nat /\ id <= n
    BY DEF ShownOK
  <2>2. \A id \in DOMAIN g[s] : id \in Nat /\ id <= n
    BY <1>1, <1>3 DEF Utterance
  <2> QED
    BY <2>1, <2>2
<1>8. \A t \in P \union {s} : \A id \in DOMAIN g[t] \intersect DOMAIN g[s] :
         g[t][id] = g[s][id]
  BY <1>3, <1>6
<1>9. \A r, t \in P \union {s} : \A id \in DOMAIN g[r] \intersect DOMAIN g[t] :
         g[r][id] = g[t][id]
  <2>1. \A r, t \in P : r # s /\ t # s =>
           \A id \in DOMAIN g[r] \intersect DOMAIN g[t] : g[r][id] = g[t][id]
    BY DEF ShownOK
  <2> QED
    BY <1>8, <2>1
<1> QED
  BY <1>6, <1>7, <1>9 DEF ShownOK

\* Who does not talk, or not yet, is not heard of otherwise.
LEMMA WaitsStay ==
    ASSUME NEW p, NEW a, NEW m, WaitsOK(p, a, m), NEW p2, NEW a2, NEW q,
           DOMAIN q = DOMAIN m,
           \A i \in DOMAIN m : q[i].sender = m[i].sender /\ q[i].at = m[i].at,
           \A i \in DOMAIN m : HeardOf(p, a, m[i]) => HeardOf(p2, a2, m[i])
    PROVE  WaitsOK(p2, a2, q)
<1>1. \A i \in DOMAIN q : HeardOf(p2, a2, q[i])
  BY DEF WaitsOK, HeardOf
<1> QED
  BY <1>1 DEF WaitsOK

LEMMA TalkInit == Chat!Init => TalkInv
<1> SUFFICES ASSUME Chat!Init PROVE TalkInv
  OBVIOUS
<1>1. PICK k, p, a, m, n, h :
         k = talkTime /\ p = phase /\ a = saidAt /\ m = messages /\ n = said /\ h = shown
  OBVIOUS
<1>2. /\ k = 0 /\ m = << >> /\ n = 0 /\ h = [s \in Talker |-> << >>]
      /\ p = [s \in Talker |-> "away"] /\ a = [s \in Talker |-> MaxTalk]
  BY <1>1 DEF Chat!Init
<1>3. HistoryOK(m, n)
  BY <1>2, ChatAssumption DEF HistoryOK
<1>4. Present(p) = {}
  BY <1>2 DEF Present
<1>5. ShownOK(Present(p), m, n, h) /\ WaitsOK(p, a, m)
  BY <1>2, <1>4 DEF ShownOK, WaitsOK
<1>6. p \in [Talker -> Stage] /\ a \in [Talker -> 0 .. MaxTalk] /\ DOMAIN h = Talker
  BY <1>2, ChatAssumption DEF Stage
<1>7. k \in Nat /\ k < MaxTalk
  BY <1>2, ChatAssumption
<1>8. TalkOK(k, p, a, m, n, h)
  BY <1>3, <1>5, <1>6, <1>7 DEF TalkOK
<1> QED
  BY <1>1, <1>8 DEF TalkInv

LEMMA TalkNext ==
    ASSUME TalkInv, Chat!Next \/ UNCHANGED chatVars
    PROVE  TalkInv'
<1>1. PICK k, p, a, m, n, h :
         /\ k = talkTime /\ p = phase /\ a = saidAt /\ m = messages /\ n = said /\ h = shown
         /\ TalkOK(k, p, a, m, n, h)
  BY DEF TalkInv
<1>2. PICK k2, p2, a2, m2, n2, h2 : /\ k2 = talkTime' /\ p2 = phase' /\ a2 = saidAt'
                                    /\ m2 = messages' /\ n2 = said' /\ h2 = shown'
  OBVIOUS
<1>3. SUFFICES TalkOK(k2, p2, a2, m2, n2, h2)
  BY <1>2 DEF TalkInv
<1>4. PICK P : P = Present(p)
  OBVIOUS
<1>5. /\ k \in Nat /\ k < MaxTalk
      /\ p \in [Talker -> Stage] /\ a \in [Talker -> 0 .. MaxTalk] /\ DOMAIN h = Talker
      /\ HistoryOK(m, n) /\ ShownOK(P, m, n, h) /\ WaitsOK(p, a, m)
      /\ P \in SUBSET Talker
  BY <1>1, <1>4 DEF TalkOK, Present
<1>6. Chat!Here = P
  BY <1>1, <1>4 DEF Chat!Here, Present
<1>7. \A i \in DOMAIN m : m[i] \in Utterance /\ m[i].sender \in Talker
  <2>1. \A i \in DOMAIN m : m[i] \in Utterance
    BY <1>5, Elements DEF HistoryOK
  <2> QED
    BY <2>1 DEF Utterance
<1>8. CASE k2 = k /\ p2 = p /\ a2 = a /\ m2 = m /\ n2 = n /\ h2 = h
  BY <1>1, <1>8
<1>9. CASE Chat!Tick
  <2>1. k2 = k + 1 /\ k < MaxTalk - 1 /\ p2 = p /\ a2 = a /\ m2 = m /\ n2 = n /\ h2 = h
    BY <1>1, <1>2, <1>9 DEF Chat!Tick
  <2> QED
    BY <1>4, <1>5, <2>1, ChatAssumption DEF TalkOK
<1>10. ASSUME NEW s \in Talker, Chat!Arrive(s) PROVE TalkOK(k2, p2, a2, m2, n2, h2)
  <2>1. /\ p[s] = "away" /\ p2 = [p EXCEPT ![s] = "joining"]
        /\ k2 = k /\ a2 = a /\ m2 = m /\ n2 = n /\ h2 = h
    BY <1>1, <1>2, <1>10 DEF Chat!Arrive
  <2>2. p2 \in [Talker -> Stage] /\ Present(p2) = P
    BY <1>4, <1>5, <2>1 DEF Stage, Present
  <2>3. \A i \in DOMAIN m : HeardOf(p, a, m[i]) => HeardOf(p2, a2, m[i])
    BY <1>5, <1>7, <2>1 DEF HeardOf
  <2>4. WaitsOK(p2, a2, m2)
    BY <1>5, <2>1, <2>3, WaitsStay
  <2> QED
    BY <1>5, <2>1, <2>2, <2>4 DEF TalkOK
<1>11. ASSUME NEW s \in Talker, Chat!Join(s) PROVE TalkOK(k2, p2, a2, m2, n2, h2)
  <2>1. /\ p[s] = "joining" /\ p2 = [p EXCEPT ![s] = "here"]
        /\ k2 = k /\ a2 = a /\ m2 = m /\ n2 = n
        /\ h2 = [h EXCEPT ![s] = Given(m)]
    BY <1>1, <1>2, <1>11 DEF Chat!Join, Given
  <2>2. p2 \in [Talker -> Stage] /\ Present(p2) = P \union {s}
    BY <1>4, <1>5, <2>1 DEF Stage, Present
  <2>3. h2[s] = Given(m) /\ (\A t \in P : t # s => h2[t] = h[t]) /\ DOMAIN h2 = Talker
    BY <1>5, <2>1
  <2>4. ShownOK(P \union {s}, m, n, h2)
    BY <1>5, <2>3, ShownToAll
  <2>5. \A i \in DOMAIN m : HeardOf(p, a, m[i]) => HeardOf(p2, a2, m[i])
    BY <1>5, <1>7, <2>1 DEF HeardOf
  <2>6. WaitsOK(p2, a2, m2)
    BY <1>5, <2>1, <2>5, WaitsStay
  <2> QED
    BY <1>5, <2>1, <2>2, <2>3, <2>4, <2>6 DEF TalkOK
<1>12. ASSUME NEW s \in Talker, Chat!Leave(s) PROVE TalkOK(k2, p2, a2, m2, n2, h2)
  <2>1. /\ p2 = [p EXCEPT ![s] = "gone"] /\ a2 = [a EXCEPT ![s] = MaxTalk]
        /\ k2 = k /\ m2 = m /\ n2 = n /\ h2 = [h EXCEPT ![s] = << >>]
    BY <1>1, <1>2, <1>12 DEF Chat!Leave
  <2>2. /\ p2 \in [Talker -> Stage] /\ a2 \in [Talker -> 0 .. MaxTalk] /\ DOMAIN h2 = Talker
        /\ Present(p2) = P \ {s}
    BY <1>4, <1>5, <2>1, ChatAssumption DEF Stage, Present
  <2>3. \A t \in P \ {s} : h2[t] = h[t]
    BY <1>5, <2>1
  <2>4. ShownOK(P \ {s}, m, n, h2)
    BY <1>5, <2>3 DEF ShownOK
  <2>5. \A i \in DOMAIN m : HeardOf(p, a, m[i]) => HeardOf(p2, a2, m[i])
    BY <1>5, <1>7, <2>1 DEF HeardOf
  <2>6. WaitsOK(p2, a2, m2)
    BY <1>5, <2>1, <2>5, WaitsStay
  <2> QED
    BY <1>5, <2>1, <2>2, <2>4, <2>6 DEF TalkOK
<1>13. ASSUME NEW s \in Talker, NEW pinned \in BOOLEAN, Chat!Say(s, pinned)
       PROVE  TalkOK(k2, p2, a2, m2, n2, h2)
  <2>1. PICK x : x = [id |-> n + 1, sender |-> s, pinned |-> pinned, at |-> k]
    OBVIOUS
  <2>2. /\ s \in P /\ (a[s] = MaxTalk \/ k - a[s] >= Chat!Wait(s))
        /\ p2 = p /\ a2 = [a EXCEPT ![s] = k] /\ k2 = k /\ n2 = n + 1
        /\ m2 = Remember(m, x) /\ h2 = Telling(P, h, x)
    <3>1. /\ s \in P /\ (a[s] = MaxTalk \/ k - a[s] >= Chat!Wait(s))
          /\ p2 = p /\ a2 = [a EXCEPT ![s] = k] /\ k2 = k /\ n2 = n + 1
      BY <1>1, <1>2, <1>6, <1>13 DEF Chat!Say
    <3>2. m2 = Remember(m, x)
      BY <1>1, <1>2, <1>13, <2>1 DEF Chat!Say, Remember
    <3>3. h2 = Telling(P, h, x)
      BY <1>1, <1>2, <1>6, <1>13, <2>1 DEF Chat!Say, Chat!Told, Telling
    <3> QED
      BY <3>1, <3>2, <3>3
  <2>3. x \in Utterance /\ x.id = n + 1 /\ x.sender = s /\ x.at = k
    BY <1>5, <2>1 DEF HistoryOK, Utterance
  <2>4. p[s] = "here" /\ a[s] \in 0 .. MaxTalk /\ Chat!Wait(s) \in Nat
    BY <1>4, <1>5, <2>2, ChatAssumption DEF Present, Chat!Wait
  <2>5. \A i \in DOMAIN m : m[i].sender = s => a[s] # MaxTalk /\ m[i].at <= a[s] /\ m[i].at \in Int
    BY <1>5, <1>7, <2>4 DEF WaitsOK, HeardOf, Utterance
  <2>6. \A i \in DOMAIN m : m[i].sender = s => k - m[i].at >= Chat!Wait(s) /\ m[i].at <= k
    BY <1>5, <2>2, <2>4, <2>5
  <2>7. a2 \in [Talker -> 0 .. MaxTalk] /\ DOMAIN h2 = Talker
    BY <1>5, <2>2, ChatAssumption DEF Telling
  <2>8. HistoryOK(m2, n2) /\ ShownOK(P, m2, n2, h2)
    BY <1>5, <2>2, <2>3, HistoryGrows, ShownGrows
  <2>9. HeardOf(p2, a2, x)
    BY <1>5, <2>2, <2>3, <2>4 DEF HeardOf
  <2>10. \A i \in DOMAIN m : HeardOf(p, a, m[i]) => HeardOf(p2, a2, m[i])
    BY <1>5, <1>7, <2>2, <2>4, <2>6 DEF HeardOf
  <2>11. WaitsOK(p2, a2, m)
    BY <1>5, <2>10, WaitsStay
  <2>12. WaitsOK(p2, a2, m2)
    BY <1>5, <2>2, <2>3, <2>6, <2>9, <2>11, WaitsGrow
  <2> QED
    BY <1>4, <1>5, <2>2, <2>7, <2>8, <2>12 DEF TalkOK
<1>14. ASSUME NEW s \in Talker, Chat!ClearPinned(s) PROVE TalkOK(k2, p2, a2, m2, n2, h2)
  <2>1. PICK S : S = Chat!Pinned(s)
    OBVIOUS
  <2>2. S \subseteq DOMAIN m /\ S # {}
    BY <1>1, <1>14, <2>1 DEF Chat!Pinned, Chat!ClearPinned
  <2>3. DOMAIN m = 1 .. Len(m) /\ Len(m) \in Nat
    BY <1>5 DEF HistoryOK
  <2>4. S \in SUBSET Int /\ IsFiniteSet(S)
    <3>1. IsFiniteSet(1 .. Len(m))
      BY <2>3, FS_Interval
    <3>2. IsFiniteSet(S)
      BY <2>2, <2>3, <3>1, FS_Subset
    <3> QED
      BY <2>2, <2>3, <3>2
  <2>5. PICK j : j = Chat!Max(S)
    OBVIOUS
  <2>6. j \in DOMAIN m
    BY <2>2, <2>4, <2>5, MaxOf
  <2>9. /\ p2 = p /\ a2 = a /\ k2 = k /\ n2 = n
        /\ m2 = Cleared(m, j) /\ h2 = Telling(P, h, Bare(m[j]))
    <3>1. p2 = p /\ a2 = a /\ k2 = k /\ n2 = n
      BY <1>1, <1>2, <1>14 DEF Chat!ClearPinned
    <3>2. m2 = Cleared(m, j)
      BY <1>1, <1>2, <1>14, <2>1, <2>5 DEF Chat!ClearPinned, Cleared
    <3>3. h2 = Telling(P, h, Bare(m[j]))
      BY <1>1, <1>2, <1>6, <1>14, <2>1, <2>5 DEF Chat!ClearPinned, Chat!Told, Telling, Bare
    <3> QED
      BY <3>1, <3>2, <3>3
  <2>10. /\ HistoryOK(m2, n) /\ ShownOK(P, m2, n, h2) /\ DOMAIN m2 = DOMAIN m
         /\ \A i \in DOMAIN m : m2[i].sender = m[i].sender /\ m2[i].at = m[i].at
    BY <1>5, <2>6, <2>9, Unpinned
  <2>11. WaitsOK(p, a, m2)
    BY <1>5, <2>10, WaitsStay
  <2> QED
    BY <1>4, <1>5, <2>9, <2>10, <2>11 DEF TalkOK, Telling
<1>15. ASSUME NEW x \in awards, Chat!Credit(x) \/ Chat!Answer(x) \/ Chat!AnswerFails(x)
       PROVE  TalkOK(k2, p2, a2, m2, n2, h2)
  <2>1. k2 = k /\ p2 = p /\ a2 = a /\ m2 = m /\ n2 = n /\ h2 = h
    BY <1>1, <1>2, <1>15 DEF Chat!Credit, Chat!Answer, Chat!AnswerFails
  <2> QED
    BY <1>8, <2>1
<1>16. CASE UNCHANGED chatVars
  BY <1>1, <1>2, <1>8, <1>16 DEF chatVars
<1> QED
  BY <1>9, <1>10, <1>11, <1>12, <1>13, <1>14, <1>15, <1>16 DEF Chat!Next

-----------------------------------------------------------------------------
\* The chat of a channel: grades

Award == [id : Nat, socket : Talker, point : Int]
Level(point) == Chat!GradeOf(point)
Owns(s) == AccountOf[s] # NoAccount

\* An award is of a member that came in, and its points, when it has some, lie between those
\* the member came with and those it has.
Earned(p, q, r, x) ==
    /\ p[x.socket] \in {"here", "gone"} /\ Owns(x.socket)
    /\ \/ x.point = -1
       \/ r[x.socket] <= x.point /\ x.point <= q[AccountOf[x.socket]]

\* With stages p, points q, awards w, grades g, badges b and the points r at arrival
Ranks(p, q, g, r) ==
    \A s \in Present(p) : Owns(s) => /\ Level(r[s]) <= g[s]
                                     /\ g[s] <= Level(q[AccountOf[s]]) /\ g[s] \in Nat
Seen(p, g, b) == \A s, t \in Present(p) : t \in DOMAIN b[s] /\ b[s][t] = g[t]

GradesOK(p, q, w, g, b, r) ==
    /\ p \in [Talker -> Stage] /\ q \in [Chat!Account -> Nat] /\ r \in [Talker -> Nat]
    /\ DOMAIN g = Talker /\ DOMAIN b = Talker
    /\ \A x \in w : x \in Award /\ Earned(p, q, r, x)
    /\ \A s \in Talker : Owns(s) => r[s] <= q[AccountOf[s]]
    /\ Ranks(p, q, g, r) /\ Seen(p, g, b)

GradesInv ==
    \E p, q, w, g, b, r :
        /\ p = phase /\ q = points /\ w = awards /\ g = grade /\ b = badges /\ r = arrivedWith
        /\ GradesOK(p, q, w, g, b, r)

\* More points never mean a lower grade.
LEMMA Levels ==
    /\ \A x \in Nat : Level(x) \in Nat
    /\ \A x, y \in Nat : x <= y => Level(x) <= Level(y)
<1> DEFINE S(x) == {n \in DOMAIN GradePoints : GradePoints[n] <= x}
<1>1. /\ DOMAIN GradePoints = 1 .. Len(GradePoints) /\ Len(GradePoints) \in Nat
      /\ 1 \in DOMAIN GradePoints
  BY ChatAssumption
<1>2. IsFiniteSet(DOMAIN GradePoints)
  BY <1>1, FS_Interval
<1>3. ASSUME NEW x \in Nat
      PROVE  Level(x) \in S(x) /\ \A y \in S(x) : Level(x) >= y
  <2>1. S(x) \in SUBSET Int /\ 1 \in S(x)
    BY <1>1, ChatAssumption
  <2>2. IsFiniteSet(S(x))
    BY <1>2, FS_Subset
  <2>3. Level(x) = Chat!Max(S(x))
    BY DEF Level, Chat!GradeOf
  <2> HIDE DEF S
  <2> QED
    BY <2>1, <2>2, <2>3, MaxOf
<1>4. \A n \in DOMAIN GradePoints : n \in Nat /\ GradePoints[n] \in Nat
  BY <1>1, ChatAssumption, Elements
<1>5. ASSUME NEW x \in Nat, NEW y \in Nat, x <= y PROVE Level(x) <= Level(y)
  <2>1. Level(x) \in S(x) /\ Level(y) \in S(y) /\ \A z \in S(y) : Level(y) >= z
    BY <1>3
  <2>2. S(x) \subseteq S(y)
    BY <1>4, <1>5
  <2>3. Level(x) \in Nat /\ Level(y) \in Nat
    BY <1>4, <2>1
  <2> HIDE DEF S
  <2> QED
    BY <2>1, <2>2, <2>3
<1>6. ASSUME NEW x \in Nat PROVE Level(x) \in Nat
  BY <1>3, <1>4
<1> QED
  BY <1>5, <1>6

LEMMA GradesInit == Chat!Init => GradesInv
<1> SUFFICES ASSUME Chat!Init PROVE GradesInv
  OBVIOUS
<1>1. PICK p, q, w, g, b, r :
         p = phase /\ q = points /\ w = awards /\ g = grade /\ b = badges /\ r = arrivedWith
  OBVIOUS
<1>2. /\ p = [s \in Talker |-> "away"] /\ q = [a \in Chat!Account |-> 0] /\ w = {}
      /\ g = [s \in Talker |-> 1] /\ b = [s \in Talker |-> << >>] /\ r = [s \in Talker |-> 0]
  BY <1>1 DEF Chat!Init
<1>3. p \in [Talker -> Stage] /\ q \in [Chat!Account -> Nat] /\ r \in [Talker -> Nat]
  BY <1>2 DEF Stage
<1>4. Present(p) = {}
  BY <1>2 DEF Present
<1>5. \A s \in Talker : Owns(s) => r[s] <= q[AccountOf[s]]
  BY <1>2 DEF Owns, Chat!Account
<1>6. GradesOK(p, q, w, g, b, r)
  BY <1>2, <1>3, <1>4, <1>5 DEF GradesOK, Ranks, Seen
<1> QED
  BY <1>1, <1>6 DEF GradesInv

\* The points of an account grow.
LEMMA RanksGrow ==
    ASSUME NEW p \in [Talker -> Stage], NEW q \in [Chat!Account -> Nat], NEW g,
           NEW r \in [Talker -> Nat], Ranks(p, q, g, r), NEW z \in [Chat!Account -> Nat],
           \A c \in Chat!Account : q[c] <= z[c]
    PROVE  Ranks(p, z, g, r)
<1> SUFFICES ASSUME NEW s \in Present(p), Owns(s)
             PROVE  Level(r[s]) <= g[s] /\ g[s] <= Level(z[AccountOf[s]]) /\ g[s] \in Nat
  BY DEF Ranks
<1>1. AccountOf[s] \in Chat!Account
  BY DEF Owns, Present, Chat!Account
<1>2. q[AccountOf[s]] \in Nat /\ z[AccountOf[s]] \in Nat /\ q[AccountOf[s]] <= z[AccountOf[s]]
  BY <1>1
<1>3. PICK u, v : u = Level(q[AccountOf[s]]) /\ v = Level(z[AccountOf[s]])
  OBVIOUS
<1>4. u \in Nat /\ v \in Nat /\ u <= v
  BY <1>2, <1>3, Levels
<1>5. Level(r[s]) <= g[s] /\ g[s] <= u /\ g[s] \in Nat
  BY <1>3 DEF Ranks
<1> QED
  BY <1>3, <1>4, <1>5

LEMMA GradesNext ==
    ASSUME GradesInv, said \in Nat, Chat!Next \/ UNCHANGED chatVars
    PROVE  GradesInv'
<1>1. PICK p, q, w, g, b, r :
         /\ p = phase /\ q = points /\ w = awards /\ g = grade /\ b = badges /\ r = arrivedWith
         /\ GradesOK(p, q, w, g, b, r)
  BY DEF GradesInv
<1>2. PICK p2, q2, w2, g2, b2, r2 : /\ p2 = phase' /\ q2 = points' /\ w2 = awards'
                                    /\ g2 = grade' /\ b2 = badges' /\ r2 = arrivedWith'
  OBVIOUS
<1>3. SUFFICES GradesOK(p2, q2, w2, g2, b2, r2)
  BY <1>2 DEF GradesInv
<1>4. PICK P : P = Present(p)
  OBVIOUS
<1>5. /\ p \in [Talker -> Stage] /\ q \in [Chat!Account -> Nat] /\ r \in [Talker -> Nat]
      /\ DOMAIN g = Talker /\ DOMAIN b = Talker
      /\ \A x \in w : x \in Award /\ Earned(p, q, r, x)
      /\ \A s \in Talker : Owns(s) => r[s] <= q[AccountOf[s]]
      /\ Ranks(p, q, g, r) /\ Seen(p, g, b)
  BY <1>1 DEF GradesOK
<1>6. Chat!Here = P /\ P \subseteq Talker
  BY <1>1, <1>4 DEF Chat!Here, Present
<1>7. \A s \in Talker : Owns(s) => AccountOf[s] \in Chat!Account
  BY DEF Owns, Chat!Account
<1>8. CASE p2 = p /\ q2 = q /\ w2 = w /\ g2 = g /\ b2 = b /\ r2 = r
  BY <1>1, <1>8
<1>9. CASE Chat!Tick
  BY <1>1, <1>2, <1>8, <1>9 DEF Chat!Tick
<1>10. ASSUME NEW s \in Talker, Chat!ClearPinned(s) PROVE GradesOK(p2, q2, w2, g2, b2, r2)
  <2>1. p2 = p /\ q2 = q /\ w2 = w /\ g2 = g /\ b2 = b /\ r2 = r
    BY <1>1, <1>2, <1>10 DEF Chat!ClearPinned
  <2> QED
    BY <1>8, <2>1
<1>11. ASSUME NEW s \in Talker, NEW pinned \in BOOLEAN, Chat!Say(s, pinned)
       PROVE  GradesOK(p2, q2, w2, g2, b2, r2)
  <2>1. PICK x : x = [id |-> said + 1, socket |-> s, point |-> -1]
    OBVIOUS
  <2>2. /\ s \in P /\ p2 = p /\ q2 = q /\ g2 = g /\ b2 = b /\ r2 = r
        /\ w2 = w \/ (Owns(s) /\ w2 = w \union {x})
    BY <1>1, <1>2, <1>6, <1>11, <2>1 DEF Chat!Say, Owns
  <2>3. x \in Award /\ x.socket = s /\ x.point = -1
    BY <2>1 DEF Award
  <2>4. p[s] = "here"
    BY <1>4, <2>2 DEF Present
  <2>5. \A y \in w2 : y \in Award /\ Earned(p, q, r, y)
    BY <1>5, <2>2, <2>3, <2>4 DEF Earned
  <2> QED
    BY <1>5, <2>2, <2>5 DEF GradesOK
<1>12. ASSUME NEW s \in Talker, Chat!Arrive(s) PROVE GradesOK(p2, q2, w2, g2, b2, r2)
  <2>1. /\ p[s] = "away" /\ p2 = [p EXCEPT ![s] = "joining"]
        /\ r2 = [r EXCEPT ![s] = IF Owns(s) THEN q[AccountOf[s]] ELSE 0]
        /\ q2 = q /\ w2 = w /\ g2 = g /\ b2 = b
    BY <1>1, <1>2, <1>12 DEF Chat!Arrive, Owns
  <2>2. Owns(s) => q[AccountOf[s]] \in Nat
    BY <1>5, <1>7
  <2>3. p2 \in [Talker -> Stage] /\ r2 \in [Talker -> Nat] /\ Present(p2) = P
    BY <1>4, <1>5, <2>1, <2>2 DEF Stage, Present
  <2>4. s \notin P
    BY <1>4, <2>1 DEF Present
  <2>5. \A t \in Talker : t # s => r2[t] = r[t] /\ p2[t] = p[t]
    BY <1>5, <2>1
  <2>6. r2[s] = IF Owns(s) THEN q[AccountOf[s]] ELSE 0
    BY <1>5, <2>1
  <2>7. \A t \in Talker : Owns(t) => r2[t] <= q[AccountOf[t]]
    BY <1>5, <2>2, <2>5, <2>6
  <2>8. ASSUME NEW x \in w PROVE x \in Award /\ Earned(p2, q, r2, x)
    <3>1. x \in Award /\ Earned(p, q, r, x) /\ x.socket \in Talker
      BY <1>5 DEF Award
    <3>2. x.socket # s
      BY <2>1, <3>1 DEF Earned
    <3> QED
      BY <2>5, <3>1, <3>2 DEF Earned
  <2>9. Ranks(p2, q, g, r2) /\ Seen(p2, g, b)
    BY <1>4, <1>5, <1>6, <2>3, <2>4, <2>5 DEF Ranks, Seen
  <2> QED
    BY <1>5, <2>1, <2>3, <2>7, <2>8, <2>9 DEF GradesOK
<1>13. ASSUME NEW s \in Talker, Chat!Join(s) PROVE GradesOK(p2, q2, w2, g2, b2, r2)
  <2>1. PICK n : n = Level(r[s])
    OBVIOUS
  <2>2. /\ p[s] = "joining" /\ p2 = [p EXCEPT ![s] = "here"]
        /\ g2 = [g EXCEPT ![s] = n] /\ q2 = q /\ w2 = w /\ r2 = r
    BY <1>1, <1>2, <1>13, <2>1 DEF Chat!Join, Level
  <2>3. b2 = [t \in Talker |-> IF t = s THEN [u \in P \union {s} |-> g2[u]]
                               ELSE IF t \in P
                               THEN [u \in DOMAIN b[t] \union {s} |->
                                        IF u = s THEN g2[s] ELSE b[t][u]]
                               ELSE b[t]]
    BY <1>1, <1>2, <1>6, <1>13 DEF Chat!Join
  <2>4. g2[s] = n /\ DOMAIN g2 = Talker /\ \A t \in Talker : t # s => g2[t] = g[t]
    BY <1>5, <2>2
  <2>5. p2 \in [Talker -> Stage] /\ Present(p2) = P \union {s} /\ s \notin P
    BY <1>4, <1>5, <2>2 DEF Stage, Present
  <2>6. DOMAIN b2 = Talker
    BY <2>3
  <2>7. \A u \in P \union {s} : u \in DOMAIN b2[s] /\ b2[s][u] = g2[u]
    BY <2>3
  <2>8. ASSUME NEW t \in P PROVE \A u \in P \union {s} : u \in DOMAIN b2[t] /\ b2[t][u] = g2[u]
    <3>1. t # s /\ t \in Talker
      BY <1>6, <2>5
    <3>2. \A u \in P : u \in DOMAIN b[t] /\ b[t][u] = g[u] /\ u \in Talker /\ u # s
      BY <1>4, <1>5, <1>6, <2>5 DEF Seen
    <3>3. b2[t] = [u \in DOMAIN b[t] \union {s} |-> IF u = s THEN g2[s] ELSE b[t][u]]
      BY <2>3, <3>1
    <3> QED
      BY <2>4, <3>2, <3>3
  <2>9. Seen(p2, g2, b2)
    BY <2>5, <2>7, <2>8 DEF Seen
  <2>10. Ranks(p2, q, g2, r)
    <3>1. n \in Nat
      BY <1>5, <2>1, Levels
    <3>2. Owns(s) => n <= Level(q[AccountOf[s]])
      BY <1>5, <1>7, <2>1, Levels
    <3>3. Owns(s) => Level(r[s]) <= g2[s] /\ g2[s] <= Level(q[AccountOf[s]]) /\ g2[s] \in Nat
      BY <2>1, <2>4, <3>1, <3>2
    <3>4. \A t \in P : Owns(t) => /\ Level(r[t]) <= g2[t]
                                  /\ g2[t] <= Level(q[AccountOf[t]]) /\ g2[t] \in Nat
      BY <1>4, <1>5, <1>6, <2>4, <2>5 DEF Ranks
    <3> QED
      BY <2>5, <3>3, <3>4 DEF Ranks
  <2>11. \A x \in w : x \in Award /\ Earned(p2, q, r, x)
    <3> SUFFICES ASSUME NEW x \in w PROVE x \in Award /\ Earned(p2, q, r, x)
      OBVIOUS
    <3>1. x \in Award /\ Earned(p, q, r, x) /\ x.socket \in Talker
      BY <1>5 DEF Award
    <3>2. x.socket # s
      BY <2>2, <3>1 DEF Earned
    <3> QED
      BY <1>5, <2>2, <3>1, <3>2 DEF Earned
  <2> QED
    BY <1>5, <2>2, <2>4, <2>5, <2>6, <2>9, <2>10, <2>11 DEF GradesOK
<1>14. ASSUME NEW s \in Talker, Chat!Leave(s) PROVE GradesOK(p2, q2, w2, g2, b2, r2)
  <2>1. /\ p2 = [p EXCEPT ![s] = "gone"] /\ q2 = q /\ w2 = w /\ g2 = g /\ r2 = r
        /\ b2 = [t \in Talker |-> IF t = s THEN << >>
                                  ELSE [u \in DOMAIN b[t] \ {s} |-> b[t][u]]]
    BY <1>1, <1>2, <1>14 DEF Chat!Leave
  <2>2. p2 \in [Talker -> Stage] /\ Present(p2) = P \ {s} /\ DOMAIN b2 = Talker
    BY <1>4, <1>5, <2>1 DEF Stage, Present
  <2>3. \A t \in P \ {s} : \A u \in P \ {s} : u \in DOMAIN b2[t] /\ b2[t][u] = g[u]
    BY <1>4, <1>5, <1>6, <2>1 DEF Seen
  <2>4. Seen(p2, g, b2) /\ Ranks(p2, q, g, r)
    BY <1>4, <1>5, <2>2, <2>3 DEF Seen, Ranks
  <2>5. \A x \in w : x \in Award /\ Earned(p2, q, r, x)
    <3> SUFFICES ASSUME NEW x \in w PROVE x \in Award /\ Earned(p2, q, r, x)
      OBVIOUS
    <3>1. x \in Award /\ Earned(p, q, r, x) /\ x.socket \in Talker
      BY <1>5 DEF Award
    <3>2. p2[x.socket] = p[x.socket] \/ p2[x.socket] = "gone"
      BY <1>5, <2>1, <3>1
    <3> QED
      BY <3>1, <3>2 DEF Earned
  <2> QED
    BY <1>5, <2>1, <2>2, <2>4, <2>5 DEF GradesOK
<1>15. ASSUME NEW x \in w, Chat!Credit(x) PROVE GradesOK(p2, q2, w2, g2, b2, r2)
  <2>1. PICK c : c = AccountOf[x.socket]
    OBVIOUS
  <2>2. x \in Award /\ Earned(p, q, r, x) /\ x.socket \in Talker /\ Owns(x.socket)
    BY <1>5, <1>15 DEF Award, Earned
  <2>3. c \in Chat!Account /\ q[c] \in Nat /\ r[x.socket] <= q[c] /\ r[x.socket] \in Nat
    BY <1>5, <1>7, <2>1, <2>2
  <2>4. PICK y : y = [x EXCEPT !.point = q[c] + 1]
    OBVIOUS
  <2>5. /\ p2 = p /\ q2 = [q EXCEPT ![c] = q[c] + 1] /\ g2 = g /\ b2 = b /\ r2 = r
        /\ w2 = (w \ {x}) \union {[x EXCEPT !.point = q2[c]]}
    BY <1>1, <1>2, <1>15, <2>1 DEF Chat!Credit
  <2>6. q2[c] = q[c] + 1 /\ q2 \in [Chat!Account -> Nat]
    BY <1>5, <2>3, <2>5
  <2>7. w2 = (w \ {x}) \union {y}
    BY <2>4, <2>5, <2>6
  <2>8. \A a \in Chat!Account : q[a] <= q2[a] /\ q[a] \in Nat
    BY <1>5, <2>3, <2>5
  <2>9. Ranks(p, q2, g, r)
    BY <1>5, <2>6, <2>8, RanksGrow
  <2>10. \A s \in Talker : Owns(s) => r[s] <= q2[AccountOf[s]]
    <3> SUFFICES ASSUME NEW s \in Talker, Owns(s) PROVE r[s] <= q2[AccountOf[s]]
      OBVIOUS
    <3>1. AccountOf[s] \in Chat!Account /\ r[s] \in Nat /\ r[s] <= q[AccountOf[s]]
      BY <1>5, <1>7
    <3> QED
      BY <2>6, <2>8, <3>1
  <2>11. y \in Award /\ Earned(p, q2, r, y)
    <3>1. y \in Award /\ y.socket = x.socket /\ y.point = q[c] + 1
      BY <2>2, <2>3, <2>4 DEF Award
    <3>2. r[y.socket] <= y.point /\ y.point <= q2[AccountOf[y.socket]]
      BY <2>1, <2>3, <2>6, <3>1
    <3> QED
      BY <2>2, <3>1, <3>2 DEF Earned
  <2>12. ASSUME NEW a \in w PROVE a \in Award /\ Earned(p, q2, r, a)
    <3>1. a \in Award /\ Earned(p, q, r, a) /\ Owns(a.socket) /\ a.socket \in Talker
      BY <1>5 DEF Award, Earned
    <3>2. PICK k : k = AccountOf[a.socket]
      OBVIOUS
    <3>3. k \in Chat!Account /\ a.point \in Int
      BY <1>7, <3>1, <3>2 DEF Award
    <3>4. q[k] \in Nat /\ q2[k] \in Nat /\ q[k] <= q2[k]
      BY <2>6, <2>8, <3>3
    <3>5. a.point <= q[k] => a.point <= q2[k]
      BY <3>3, <3>4
    <3> QED
      BY <3>1, <3>2, <3>5 DEF Earned
  <2> QED
    BY <1>5, <2>5, <2>6, <2>7, <2>9, <2>10, <2>11, <2>12 DEF GradesOK
<1>16. ASSUME NEW x \in w, Chat!Answer(x) PROVE GradesOK(p2, q2, w2, g2, b2, r2)
  <2>1. PICK s, n : s = x.socket /\ n = Level(x.point)
    OBVIOUS
  <2>2. x \in Award /\ Earned(p, q, r, x) /\ s \in Talker /\ Owns(s) /\ x.point \in Int
    BY <1>5, <1>16, <2>1 DEF Award, Earned
  <2>3. x.point # -1 /\ p2 = p /\ q2 = q /\ w2 = w \ {x} /\ r2 = r
    BY <1>1, <1>2, <1>16 DEF Chat!Answer
  <2>4. CASE s \notin P
    <3>1. g2 = g /\ b2 = b
      BY <1>1, <1>2, <1>6, <1>16, <2>1, <2>4 DEF Chat!Answer
    <3> QED
      BY <1>5, <2>3, <3>1 DEF GradesOK
  <2>5. CASE s \in P
    <3>1. /\ g2 = [g EXCEPT ![s] = n]
          /\ b2 = [t \in Talker |-> IF t \in P THEN [b[t] EXCEPT ![s] = n] ELSE b[t]]
      BY <1>1, <1>2, <1>6, <1>16, <2>1, <2>5 DEF Chat!Answer, Level
    <3>2. g2[s] = n /\ DOMAIN g2 = Talker /\ \A t \in Talker : t # s => g2[t] = g[t]
      BY <1>5, <2>2, <3>1
    <3>3. r[s] \in Nat /\ q[AccountOf[s]] \in Nat
      BY <1>5, <1>7, <2>2
    <3>4. r[s] <= x.point /\ x.point <= q[AccountOf[s]] /\ x.point \in Nat
      <4>1. r[s] <= x.point /\ x.point <= q[AccountOf[s]]
        BY <2>1, <2>2, <2>3 DEF Earned
      <4> QED
        BY <2>2, <3>3, <4>1
    <3>5. Level(r[s]) <= n /\ n <= Level(q[AccountOf[s]]) /\ n \in Nat
      BY <2>1, <3>3, <3>4, Levels
    <3>6. Ranks(p, q, g2, r)
      <4>1. \A t \in P : t # s /\ Owns(t) => /\ Level(r[t]) <= g2[t]
                                             /\ g2[t] <= Level(q[AccountOf[t]]) /\ g2[t] \in Nat
        BY <1>4, <1>5, <1>6, <3>2 DEF Ranks
      <4> QED
        BY <1>4, <3>2, <3>5, <4>1 DEF Ranks
    <3>7. ASSUME NEW t \in P, NEW u \in P PROVE u \in DOMAIN b2[t] /\ b2[t][u] = g2[u]
      <4>1. b2[t] = [b[t] EXCEPT ![s] = n] /\ DOMAIN b2[t] = DOMAIN b[t]
        BY <1>6, <3>1
      <4>2. u \in DOMAIN b[t] /\ b[t][u] = g[u] /\ s \in DOMAIN b[t] /\ u \in Talker
        BY <1>4, <1>5, <1>6, <2>5 DEF Seen
      <4> QED
        BY <3>2, <4>1, <4>2
    <3>8. Seen(p, g2, b2) /\ DOMAIN b2 = Talker
      BY <1>4, <3>1, <3>7 DEF Seen
    <3> QED
      BY <1>5, <2>3, <3>2, <3>6, <3>8 DEF GradesOK
  <2> QED
    BY <2>4, <2>5
<1>17. ASSUME NEW x \in w, Chat!AnswerFails(x) PROVE GradesOK(p2, q2, w2, g2, b2, r2)
  <2>1. p2 = p /\ q2 = q /\ w2 = w \ {x} /\ g2 = g /\ b2 = b /\ r2 = r
    BY <1>1, <1>2, <1>17 DEF Chat!AnswerFails
  <2> QED
    BY <1>5, <2>1 DEF GradesOK
<1>18. CASE UNCHANGED chatVars
  BY <1>1, <1>2, <1>8, <1>18 DEF chatVars
<1> QED
  BY <1>1, <1>9, <1>10, <1>11, <1>12, <1>13, <1>14, <1>15, <1>16, <1>17, <1>18 DEF Chat!Next

\* Whoever is here shows the messages and the grades that the server has.
LEMMA ChatAgreesHolds == TalkInv /\ GradesInv => Chat!ChatAgrees
<1> SUFFICES ASSUME TalkInv, GradesInv PROVE Chat!ChatAgrees
  OBVIOUS
<1>1. PICK k, p, a, m, n, h :
         /\ k = talkTime /\ p = phase /\ a = saidAt /\ m = messages /\ n = said /\ h = shown
         /\ TalkOK(k, p, a, m, n, h)
  BY DEF TalkInv
<1>2. PICK f, q, w, g, b, r :
         /\ f = phase /\ q = points /\ w = awards /\ g = grade /\ b = badges /\ r = arrivedWith
         /\ GradesOK(f, q, w, g, b, r)
  BY DEF GradesInv
<1>3. Chat!Here = Present(p) /\ Chat!Here = Present(f)
  BY <1>1, <1>2 DEF Chat!Here, Present
<1>4. HistoryOK(m, n) /\ ShownOK(Present(p), m, n, h) /\ WaitsOK(p, a, m)
  BY <1>1 DEF TalkOK
<1>5. Chat!Min({n, MaxHistory}) = IF n < MaxHistory THEN n ELSE MaxHistory
  <2>1. n \in Int /\ MaxHistory \in Int
    BY <1>4, ChatAssumption DEF HistoryOK
  <2>2. CASE n < MaxHistory
    <3>1. \A y \in {n, MaxHistory} : n <= y
      BY <2>1, <2>2
    <3>2. \A x \in {n, MaxHistory} : (\A y \in {n, MaxHistory} : x <= y) => x = n
      BY <2>1, <2>2
    <3> QED
      BY <2>2, <3>1, <3>2 DEF Chat!Min
  <2>3. CASE ~(n < MaxHistory)
    <3>1. \A y \in {n, MaxHistory} : MaxHistory <= y
      BY <2>1, <2>3
    <3>2. \A x \in {n, MaxHistory} : (\A y \in {n, MaxHistory} : x <= y) => x = MaxHistory
      BY <2>1, <2>3
    <3> QED
      BY <2>3, <3>1, <3>2 DEF Chat!Min
  <2> QED
    BY <2>2, <2>3
<1>6. Len(messages) = Chat!Min({said, MaxHistory})
  BY <1>1, <1>4, <1>5 DEF HistoryOK
<1>7. /\ \A s \in Chat!Here : \A i \in DOMAIN messages :
            /\ messages[i].id \in DOMAIN shown[s]
            /\ shown[s][messages[i].id] = messages[i]
      /\ \A s, t \in Chat!Here : \A id \in DOMAIN shown[s] \intersect DOMAIN shown[t] :
            shown[s][id] = shown[t][id]
  BY <1>1, <1>3, <1>4 DEF ShownOK
<1>8. \A i, j \in DOMAIN messages : i < j =>
         /\ messages[i].id < messages[j].id
         /\ messages[i].sender = messages[j].sender =>
               messages[j].at - messages[i].at >= Chat!Wait(messages[i].sender)
  BY <1>1, <1>4 DEF HistoryOK, WaitsOK
<1>9. \A s, t \in Chat!Here : t \in DOMAIN badges[s] /\ badges[s][t] = grade[t]
  BY <1>2, <1>3 DEF GradesOK, Seen
<1>10. \A s \in Chat!Here : AccountOf[s] # NoAccount =>
          /\ grade[s] <= Chat!GradeOf(points[AccountOf[s]])
          /\ grade[s] >= Chat!GradeOf(arrivedWith[s])
  <2> SUFFICES ASSUME NEW s \in Chat!Here, AccountOf[s] # NoAccount
               PROVE  /\ grade[s] <= Chat!GradeOf(points[AccountOf[s]])
                      /\ grade[s] >= Chat!GradeOf(arrivedWith[s])
    OBVIOUS
  <2>1. Level(r[s]) <= g[s] /\ g[s] <= Level(q[AccountOf[s]]) /\ g[s] \in Nat
    BY <1>2, <1>3 DEF GradesOK, Ranks, Owns
  <2>2. r[s] \in Nat /\ s \in Talker
    BY <1>2, <1>3 DEF GradesOK, Present
  <2>3. Level(r[s]) \in Nat
    BY <2>2, Levels
  <2> QED
    BY <1>2, <2>1, <2>3 DEF Level
<1> QED
  BY <1>6, <1>7, <1>8, <1>9, <1>10 DEF Chat!ChatAgrees

-----------------------------------------------------------------------------
\* The map of a channel: tiles

LEMMA GroundFinite ==
    /\ World!Tile \subseteq Int \X Int
    /\ IsFiniteSet(World!Ground) /\ Cardinality(World!Ground) \in Nat
<1>1. IsFiniteSet(0 .. Width - 1) /\ IsFiniteSet(0 .. Height - 1)
  BY FS_Interval, WorldAssumption
<1>2. IsFiniteSet(World!Tile)
  BY <1>1, FS_Product DEF World!Tile
<1>3. IsFiniteSet(World!Ground)
  BY <1>2, FS_Subset DEF World!Ground
<1>4. World!Tile \subseteq Int \X Int
  BY WorldAssumption DEF World!Tile
<1> QED
  BY <1>3, <1>4, FS_CardinalityType

LEMMA ClampedTile ==
    ASSUME NEW t \in Int \X Int
    PROVE  /\ World!Clamped(t) \in World!Tile
           /\ t \in World!Tile => World!Clamped(t) = t
<1>1. PICK x \in Int, y \in Int : t = <<x, y>>
  OBVIOUS
<1>2. World!Within(x, Width) \in 0 .. Width - 1 /\ (x \in 0 .. Width - 1 => World!Within(x, Width) = x)
  BY WorldAssumption DEF World!Within
<1>3. World!Within(y, Height) \in 0 .. Height - 1 /\ (y \in 0 .. Height - 1 => World!Within(y, Height) = y)
  BY WorldAssumption DEF World!Within
<1>4. World!Clamped(t) = <<World!Within(x, Width), World!Within(y, Height)>>
  BY <1>1 DEF World!Clamped
<1>5. World!Clamped(t) \in World!Tile
  BY <1>2, <1>3, <1>4 DEF World!Tile
<1>6. ASSUME t \in World!Tile PROVE World!Clamped(t) = t
  <2>1. x \in 0 .. Width - 1 /\ y \in 0 .. Height - 1
    BY <1>1, <1>6 DEF World!Tile
  <2> QED
    BY <1>1, <1>2, <1>3, <1>4, <2>1
<1> QED
  BY <1>5, <1>6

\* A direction is a step along one axis.
LEMMA DirectionTiles ==
    ASSUME NEW t \in Int \X Int, NEW d \in World!Direction
    PROVE  /\ World!Delta[d] \in Int \X Int /\ World!Plus(t, World!Delta[d]) \in Int \X Int
           /\ World!Opposite[d] \in World!Direction
<1>1. World!Delta[d] \in Int \X Int /\ World!Opposite[d] \in World!Direction
  BY DEF World!Delta, World!Direction, World!Opposite
<1> QED
  BY <1>1 DEF World!Plus

LEMMA DistanceInt ==
    ASSUME NEW t \in Int \X Int, NEW u \in Int \X Int
    PROVE  World!Distance(t, u) \in Int
  BY DEF World!Distance, World!Apart

\* Whoever is nearer to a tile has fewer before him.
LEMMA RankGrows ==
    ASSUME NEW t \in Int \X Int, NEW u \in World!Ground, NEW v \in World!Ground,
           World!Nearer(t, u, v)
    PROVE  World!Rank(t, u) < World!Rank(t, v)
<1> DEFINE before(x) == {w \in World!Ground : World!Nearer(t, w, x)}
<1>1. \A x \in World!Ground : x \in Int \X Int /\ x[1] \in Int /\ x[2] \in Int /\ World!Distance(t, x) \in Int
  BY GroundFinite, DistanceInt DEF World!Ground
<1>2. \A x, y, z \in World!Ground :
         World!Nearer(t, x, y) /\ World!Nearer(t, y, z) => World!Nearer(t, x, z)
  BY <1>1 DEF World!Nearer
<1>3. ~World!Nearer(t, u, u)
  BY <1>1 DEF World!Nearer
<1>4. before(u) \subseteq before(v) /\ u \in before(v) /\ u \notin before(u)
  BY <1>2, <1>3
<1>5. IsFiniteSet(before(v)) /\ before(u) \in SUBSET before(v) /\ before(u) # before(v)
  <2>1. before(v) \in SUBSET World!Ground
    OBVIOUS
  <2>2. IsFiniteSet(before(v))
    BY <2>1, GroundFinite, FS_Subset
  <2> QED
    BY <2>2, <1>4
<1> HIDE DEF before
<1>6. IsFiniteSet(before(u)) /\ Cardinality(before(u)) <= Cardinality(before(v))
      /\ Cardinality(before(v)) # Cardinality(before(u))
  BY <1>5, FS_Subset
<1>7. Cardinality(before(u)) < Cardinality(before(v))
  <2>1. Cardinality(before(u)) \in Nat /\ Cardinality(before(v)) \in Nat
    BY <1>5, <1>6, FS_CardinalityType
  <2> QED
    BY <1>6, <2>1
<1> QED
  BY <1>7, SameCount DEF World!Rank, before

\* The nearest tiles are counted off one by one, so that each index below their number has one.
LEMMA NearbyGround ==
    ASSUME NEW t \in Int \X Int, NEW i \in Nat
    PROVE  IF i < Cardinality(World!Ground) THEN World!Nearby(t, i) \in World!Ground
                                            ELSE World!Nearby(t, i) = t
<1> DEFINE n == Cardinality(World!Ground)
           T == 0 .. n - 1
           f == [u \in World!Ground |-> World!Rank(t, u)]
<1>1. n \in Nat /\ IsFiniteSet(T) /\ Cardinality(T) = n
  <2>1. n \in Nat
    BY GroundFinite
  <2> HIDE DEF n
  <2>2. 0 \in Int /\ n - 1 \in Int
    BY <2>1
  <2>3. IsFiniteSet(T) /\ Cardinality(T) = IF 0 > n - 1 THEN 0 ELSE n - 1 - 0 + 1
    BY <2>2, FS_Interval
  <2>4. (IF 0 > n - 1 THEN 0 ELSE n - 1 - 0 + 1) = n
    BY <2>1
  <2> QED
    BY <2>1, <2>3, <2>4
<1>2. \A u, v \in World!Ground : u # v => World!Nearer(t, u, v) \/ World!Nearer(t, v, u)
  <2>1. \A x \in World!Ground : x \in Int \X Int /\ x[1] \in Int /\ x[2] \in Int /\ World!Distance(t, x) \in Int
    BY GroundFinite, DistanceInt DEF World!Ground
  <2>2. ASSUME NEW u \in World!Ground, NEW v \in World!Ground, u # v
        PROVE  World!Nearer(t, u, v) \/ World!Nearer(t, v, u)
    <3>1. u[1] # v[1] \/ u[2] # v[2]
      <4>1. PICK a \in Int, b \in Int : u = <<a, b>>
        BY <2>1
      <4>2. PICK c \in Int, d \in Int : v = <<c, d>>
        BY <2>1
      <4> QED
        BY <2>2, <4>1, <4>2
    <3> QED
      BY <2>1, <3>1 DEF World!Nearer
  <2> QED
    BY <2>2
<1>3. \A u \in World!Ground : World!Rank(t, u) \in T
  <2>1. SUFFICES ASSUME NEW u \in World!Ground PROVE World!Rank(t, u) \in T
    OBVIOUS
  <2> DEFINE B == {v \in World!Ground : World!Nearer(t, v, u)}
  <2>2. ~World!Nearer(t, u, u)
    <3>1. u \in Int \X Int /\ World!Distance(t, u) \in Int /\ u[1] \in Int /\ u[2] \in Int
      BY GroundFinite, DistanceInt DEF World!Ground
    <3> QED
      BY <3>1 DEF World!Nearer
  <2>3. B \in SUBSET World!Ground /\ B # World!Ground
    BY <2>2
  <2>4. World!Rank(t, u) = Cardinality(B)
    BY SameCount DEF World!Rank
  <2> HIDE DEF B
  <2>5. IsFiniteSet(B) /\ Cardinality(B) <= n /\ Cardinality(B) # n
    BY <2>3, GroundFinite, FS_Subset
  <2>6. Cardinality(B) \in Nat
    BY <2>5, FS_CardinalityType
  <2> QED
    BY <1>1, <2>4, <2>5, <2>6
<1>4. f \in Injection(World!Ground, T)
  <2>1. f \in [World!Ground -> T]
    BY <1>3
  <2>2. ASSUME NEW u \in World!Ground, NEW v \in World!Ground, f[u] = f[v] PROVE u = v
    <3>1. World!Rank(t, u) = World!Rank(t, v) /\ World!Rank(t, u) \in Int
      BY <1>1, <1>3, <2>2
    <3>2. ~World!Nearer(t, u, v) /\ ~World!Nearer(t, v, u)
      BY <3>1, RankGrows
    <3> QED
      BY <1>2, <3>2
  <2> HIDE DEF f
  <2> QED
    BY <2>1, <2>2 DEF Injection, IsInjective
<1>5. f \in Surjection(World!Ground, T)
  <2> HIDE DEF f, T
  <2> QED
    BY <1>1, <1>4, FS_Injection
<1>6. ASSUME i < n PROVE \E u \in World!Ground : World!Rank(t, u) = i
  <2>1. i \in T
    BY <1>1, <1>6
  <2>2. \E u \in World!Ground : f[u] = i
    <3> HIDE DEF f, T
    <3> QED
      BY <1>5, <2>1 DEF Surjection
  <2> QED
    BY <2>2
<1>7. CASE i < n
  <2>1. World!Nearby(t, i) = CHOOSE u \in World!Ground : World!Rank(t, u) = i
    BY <1>7, SameCount DEF World!Nearby
  <2>2. World!Nearby(t, i) \in World!Ground
    BY <1>6, <1>7, <2>1
  <2> QED
    BY <1>7, <2>2
<1>8. CASE ~(i < n)
  <2>1. World!Nearby(t, i) = t
    BY <1>8, SameCount DEF World!Nearby
  <2> QED
    BY <1>8, <2>1
<1> QED
  BY <1>7, <1>8

LEMMA CrossedGround ==
    ASSUME NEW t \in World!Tile, NEW d \in World!Direction, World!CanCross(t, d)
    PROVE  World!Plus(t, World!Delta[d]) \in World!Ground
  BY DEF World!CanCross

\* Where a step leads that is not refused
LEMMA TraversedGround ==
    ASSUME NEW t \in World!Tile, NEW step \in Int \X Int, World!CanTraverse(t, step)
    PROVE  World!Clamped(World!Plus(t, step)) \in World!Ground
<1>1. CASE \E d \in World!Direction : World!Delta[d] = step
  <2>1. PICK d \in World!Direction : World!Delta[d] = step /\ World!CanCross(t, d)
    BY <1>1 DEF World!CanTraverse
  <2>2. World!Plus(t, step) \in World!Ground
    BY <2>1, CrossedGround
  <2>3. World!Clamped(World!Plus(t, step)) = World!Plus(t, step)
    BY <2>2, GroundFinite, ClampedTile DEF World!Ground
  <2> QED
    BY <2>2, <2>3
<1>2. CASE ~(\E d \in World!Direction : World!Delta[d] = step)
  BY <1>2 DEF World!CanTraverse
<1> QED
  BY <1>1, <1>2

\* Of finitely many numbers, the least is the minimum.
LEMMA MinOf ==
    ASSUME NEW S \in SUBSET Int, IsFiniteSet(S), S # {}
    PROVE  World!Min(S) \in S
<1>1. \E m \in S : \A k \in S : m <= k
  <2> DEFINE R == {p \in Int \X Int : p[1] < p[2]}
  <2>1. \A a, b \in Int : <<a, b>> \in R <=> a < b
    OBVIOUS
  <2> HIDE DEF R
  <2>2. StrictOrder(S, R)
    BY <2>1 DEF StrictOrder
  <2>3. HasFirst(S, R)
    BY <2>2, OrderedFirst
  <2>4. PICK m \in S : \A k \in S : k = m \/ <<m, k>> \in R
    BY <2>3 DEF HasFirst
  <2>5. ASSUME NEW k \in S PROVE m <= k
    <3>1. m \in Int /\ k \in Int /\ (k = m \/ <<m, k>> \in R)
      BY <2>4
    <3> QED
      BY <2>1, <3>1
  <2> QED
    BY <2>5
<1> QED
  BY <1>1 DEF World!Min

\* Where a dummy is set up
LEMMA DummyTileIn ==
    ASSUME NEW ms, NEW w \in World!Walker
    PROVE  World!DummyTile(ms, w) \in World!Tile
<1> DEFINE front == World!Clamped(World!Plus(w.at, World!Delta[w.dir]))
           free == {i \in 0 .. 23 : /\ World!Nearby(front, i) # w.at
                                    /\ ~World!Occupied(ms, World!Nearby(front, i))}
<1>1. w.at \in World!Tile /\ w.dir \in World!Direction
  BY DEF World!Walker
<1>2. front \in World!Tile
  BY <1>1, GroundFinite, DirectionTiles, ClampedTile
<1>3. World!DummyTile(ms, w) =
         IF front \in World!Ground /\ ~World!Occupied(ms, front) THEN front
         ELSE IF free = {} THEN front ELSE World!Nearby(front, World!Min(free))
  BY DEF World!DummyTile
<1>4. free \in SUBSET (0 .. 23)
  OBVIOUS
<1> HIDE DEF free, front
<1>5. ASSUME free # {} PROVE World!Nearby(front, World!Min(free)) \in World!Tile
  <2>1. IsFiniteSet(0 .. 23) /\ free \in SUBSET Int
    <3>1. 0 \in Int /\ 23 \in Int
      OBVIOUS
    <3>2. IsFiniteSet(0 .. 23)
      BY <3>1, FS_Interval
    <3> QED
      BY <1>4, <3>2
  <2>2. IsFiniteSet(free)
    BY <1>4, <2>1, FS_Subset
  <2>3. World!Min(free) \in Nat
    <3>1. World!Min(free) \in free
      BY <1>5, <2>1, <2>2, MinOf
    <3>2. \A x \in 0 .. 23 : x \in Nat
      OBVIOUS
    <3>3. World!Min(free) \in 0 .. 23
      BY <1>4, <3>1
    <3> QED
      BY <3>2, <3>3
  <2>4. front \in Int \X Int
    BY <1>2, GroundFinite
  <2> QED
    BY <1>2, <2>3, <2>4, NearbyGround DEF World!Ground
<1> QED
  BY <1>2, <1>3, <1>5

-----------------------------------------------------------------------------
\* The map of a channel: what is kept, and what is shown

Seated(t) == {s \in Socket : t[s] # Nothing}
Of(o, s) == {m \in Dummy : o[m] # Nothing /\ o[m].owner = s}

\* Whoever walks stands on open ground.
Placed(t) ==
    /\ t \in [Socket -> World!Walker \union {Nothing}]
    /\ \A s \in Seated(t) : t[s].at \in World!Ground

\* Wild monsters stand on open ground, and each dummy is the only one of somebody here.
Stocked(o) ==
    /\ o \in [World!Id -> World!Monster \union {Nothing}]
    /\ \A m \in Wild : o[m] # Nothing => o[m].at \in World!Ground

OwnedOnce(t, o) ==
    \A s \in Socket : /\ \A m, n \in Of(o, s) : m = n
                      /\ t[s] = Nothing => Of(o, s) = {}

Frame(t, o) == [seats |-> t, monsters |-> o]
Shows(t, o, r) == \A s \in Seated(t) : r[s] = Frame(t, o)

WorldOK(t, o, r) == Placed(t) /\ Stocked(o) /\ OwnedOnce(t, o) /\ Shows(t, o, r)
WorldInv ==
    \E t, o, r : t = seats /\ o = monsters /\ r = screens /\ WorldOK(t, o, r)

\* What the room shows when it is told of P and M
Told(P, M, t, o, r) ==
    [v \in Socket |->
        IF t[v] = Nothing THEN World!Blank
        ELSE [seats |-> [s \in Socket |-> IF s \in P THEN t[s] ELSE r[v].seats[s]],
              monsters |-> [m \in World!Id |-> IF m \in M THEN o[m] ELSE r[v].monsters[m]]]]

LEMMA ToldShows ==
    ASSUME NEW t, NEW o, NEW r, WorldOK(t, o, r),
           NEW u, Placed(u), NEW q, Stocked(q), NEW P, NEW M,
           \A s \in Socket : s \notin P => u[s] = t[s],
           \A m \in World!Id : m \notin M => q[m] = o[m],
           Seated(u) \subseteq Seated(t)
    PROVE  Shows(u, q, Told(P, M, u, q, r))
<1>1. SUFFICES ASSUME NEW v \in Seated(u) PROVE Told(P, M, u, q, r)[v] = Frame(u, q)
  BY DEF Shows
<1>2. v \in Socket /\ v \in Seated(t) /\ u[v] # Nothing
  BY DEF Seated
<1>3. r[v] = Frame(t, o)
  BY <1>2 DEF WorldOK, Shows
<1>4. r[v].seats = t /\ r[v].monsters = o
  BY <1>3 DEF Frame
<1>5. [s \in Socket |-> IF s \in P THEN u[s] ELSE r[v].seats[s]] = u
  BY <1>4 DEF Placed
<1>6. [m \in World!Id |-> IF m \in M THEN q[m] ELSE r[v].monsters[m]] = q
  BY <1>4 DEF Stocked
<1>7. Told(P, M, u, q, r)[v] =
         [seats |-> [s \in Socket |-> IF s \in P THEN u[s] ELSE r[v].seats[s]],
          monsters |-> [m \in World!Id |-> IF m \in M THEN q[m] ELSE r[v].monsters[m]]]
  BY <1>2 DEF Told
<1> QED
  BY <1>5, <1>6, <1>7 DEF Frame

\* A player who is here stands somewhere, or goes.
LEMMA SeatKept ==
    ASSUME NEW t, NEW o, NEW r, WorldOK(t, o, r), NEW s \in Seated(t),
           NEW w \in World!Walker, w.at \in World!Ground
    PROVE  WorldOK([t EXCEPT ![s] = w], o, Told({s}, {}, [t EXCEPT ![s] = w], o, r))
<1>1. PICK u : u = [t EXCEPT ![s] = w]
  OBVIOUS
<1>2. s \in Socket /\ w # Nothing /\ DOMAIN t = Socket
  BY WorldAssumption DEF Seated, WorldOK, Placed
<1>3. DOMAIN u = Socket /\ u[s] = w /\ \A x \in Socket : x # s => u[x] = t[x]
  BY <1>1, <1>2
<1>4. Placed(u)
  <2>1. u \in [Socket -> World!Walker \union {Nothing}]
    BY <1>1 DEF WorldOK, Placed
  <2>2. \A x \in Seated(u) : u[x].at \in World!Ground
    BY <1>3 DEF WorldOK, Placed, Seated
  <2> QED
    BY <2>1, <2>2 DEF Placed
<1>5. Seated(u) = Seated(t)
  BY <1>2, <1>3 DEF Seated
<1>6. OwnedOnce(u, o)
  <2>1. OwnedOnce(t, o)
    BY DEF WorldOK
  <2>2. \A x \in Socket : u[x] = Nothing => t[x] = Nothing
    BY <1>2, <1>3
  <2> QED
    BY <2>1, <2>2 DEF OwnedOnce
<1>7. Stocked(o)
  BY DEF WorldOK
<1>8. Shows(u, o, Told({s}, {}, u, o, r))
  BY <1>3, <1>4, <1>5, <1>7, ToldShows
<1> QED
  BY <1>1, <1>4, <1>6, <1>7, <1>8 DEF WorldOK

LEMMA SeatLeft ==
    ASSUME NEW t, NEW o, NEW r, WorldOK(t, o, r), NEW s \in Seated(t),
           NEW q, q = [m \in World!Id |-> IF m \in Of(o, s) THEN Nothing ELSE o[m]]
    PROVE  WorldOK([t EXCEPT ![s] = Nothing], q,
                   Told({s}, Of(o, s), [t EXCEPT ![s] = Nothing], q, r))
<1>1. PICK u : u = [t EXCEPT ![s] = Nothing]
  OBVIOUS
<1>2. s \in Socket /\ DOMAIN t = Socket
  BY DEF Seated, WorldOK, Placed
<1>3. DOMAIN u = Socket /\ u[s] = Nothing /\ \A x \in Socket : x # s => u[x] = t[x]
  BY <1>1, <1>2
<1>4. Placed(u)
  <2>1. u \in [Socket -> World!Walker \union {Nothing}]
    BY <1>1 DEF WorldOK, Placed
  <2>2. \A x \in Seated(u) : u[x].at \in World!Ground
    BY <1>3 DEF WorldOK, Placed, Seated
  <2> QED
    BY <2>1, <2>2 DEF Placed
<1>5. Seated(u) \subseteq Seated(t)
  BY <1>3 DEF Seated
<1>6. \A m \in World!Id : m \notin Of(o, s) => q[m] = o[m]
  OBVIOUS
<1>7. Stocked(q)
  <2>1. q \in [World!Id -> World!Monster \union {Nothing}]
    BY DEF WorldOK, Stocked
  <2>2. \A m \in Wild : q[m] # Nothing => q[m].at \in World!Ground
    BY DEF WorldOK, Stocked, World!Id
  <2> QED
    BY <2>1, <2>2 DEF Stocked
<1>8. OwnedOnce(u, q)
  <2>1. \A x \in Socket : Of(q, x) \subseteq Of(o, x)
    BY DEF Of, World!Id
  <2>2. Of(q, s) = {}
    BY DEF Of, World!Id
  <2>3. OwnedOnce(t, o)
    BY DEF WorldOK
  <2> QED
    BY <1>3, <2>1, <2>2, <2>3 DEF OwnedOnce
<1>9. Shows(u, q, Told({s}, Of(o, s), u, q, r))
  BY <1>3, <1>4, <1>5, <1>6, <1>7, ToldShows
<1> QED
  BY <1>1, <1>4, <1>7, <1>8, <1>9 DEF WorldOK

\* The monsters change, and the room is told of all that did.
LEMMA StockKept ==
    ASSUME NEW t, NEW o, NEW r, WorldOK(t, o, r), NEW q, Stocked(q), OwnedOnce(t, q),
           NEW M, \A m \in World!Id : m \notin M => q[m] = o[m]
    PROVE  WorldOK(t, q, Told({}, M, t, q, r))
<1>1. Placed(t)
  BY DEF WorldOK
<1>2. Shows(t, q, Told({}, M, t, q, r))
  BY <1>1, ToldShows
<1> QED
  BY <1>1, <1>2 DEF WorldOK

LEMMA OfAreDummies ==
    ASSUME NEW o, NEW s
    PROVE  Of(o, s) \subseteq Dummy /\ Of(o, s) \subseteq World!Id
  BY DEF Of, World!Id

\* One monster becomes another that has its owner, or is gone.
LEMMA MonsterChanged ==
    ASSUME NEW t, NEW o, NEW r, WorldOK(t, o, r), NEW m \in World!Id, NEW w,
           \/ w = Nothing
           \/ /\ w \in World!Monster /\ o[m] # Nothing /\ w.owner = o[m].owner
              /\ m \in Wild => w.at \in World!Ground
           \/ m \in Wild /\ w \in World!Monster /\ w.at \in World!Ground
    PROVE  /\ Stocked([o EXCEPT ![m] = w]) /\ OwnedOnce(t, [o EXCEPT ![m] = w])
           /\ \A x \in World!Id : x # m => [o EXCEPT ![m] = w][x] = o[x]
<1>1. PICK q : q = [o EXCEPT ![m] = w]
  OBVIOUS
<1>2. DOMAIN o = World!Id /\ Wild \subseteq World!Id /\ Stocked(o) /\ OwnedOnce(t, o)
  BY DEF WorldOK, Stocked, World!Id
<1>3. DOMAIN q = World!Id /\ q[m] = w /\ \A x \in World!Id : x # m => q[x] = o[x]
  BY <1>1, <1>2
<1>4. Stocked(q)
  <2>1. q \in [World!Id -> World!Monster \union {Nothing}]
    BY <1>1, <1>2 DEF Stocked
  <2>2. \A x \in Wild : q[x] # Nothing => q[x].at \in World!Ground
    BY <1>2, <1>3 DEF Stocked
  <2> QED
    BY <2>1, <2>2 DEF Stocked
<1>5. ASSUME NEW s \in Socket PROVE Of(q, s) \subseteq Of(o, s)
  <2>1. SUFFICES ASSUME NEW x \in Of(q, s) PROVE x \in Of(o, s)
    OBVIOUS
  <2>2. x \in Dummy /\ q[x] # Nothing /\ q[x].owner = s /\ x \in World!Id
    BY DEF Of, World!Id
  <2>3. CASE x = m
    <3>1. m \notin Wild
      BY <2>2, <2>3, WorldAssumption
    <3> QED
      BY <1>3, <2>2, <2>3, <3>1 DEF Of
  <2>4. CASE x # m
    BY <1>3, <2>2, <2>4 DEF Of
  <2> QED
    BY <2>3, <2>4
<1>6. OwnedOnce(t, q)
  BY <1>2, <1>5 DEF OwnedOnce
<1> QED
  BY <1>1, <1>3, <1>4, <1>6

\* A dummy that somebody sets up replaces the one that was his.
LEMMA DummyKept ==
    ASSUME NEW t, NEW o, NEW r, WorldOK(t, o, r), NEW s \in Seated(t), NEW m \in Dummy,
           NEW p, p = [x \in World!Id |-> IF x \in Of(o, s) THEN Nothing ELSE o[x]],
           NEW w \in World!Monster, w.owner = s
    PROVE  WorldOK(t, [p EXCEPT ![m] = w], Told({}, Of(o, s) \union {m}, t, [p EXCEPT ![m] = w], r))
<1>1. PICK q : q = [p EXCEPT ![m] = w]
  OBVIOUS
<1>2. /\ Stocked(o) /\ OwnedOnce(t, o) /\ s \in Socket /\ t[s] # Nothing
      /\ m \in World!Id /\ m \notin Wild /\ Wild \subseteq World!Id
  BY WorldAssumption DEF WorldOK, World!Id, Seated
<1>3. /\ DOMAIN q = World!Id /\ q[m] = w
      /\ \A x \in World!Id : x # m => q[x] = IF x \in Of(o, s) THEN Nothing ELSE o[x]
  BY <1>1, <1>2
<1>4. Stocked(q)
  <2>1. q \in [World!Id -> World!Monster \union {Nothing}]
    <3>1. p \in [World!Id -> World!Monster \union {Nothing}]
      BY <1>2 DEF Stocked
    <3> QED
      BY <1>1, <3>1
  <2>2. \A x \in Wild : q[x] # Nothing => q[x] = o[x]
    BY <1>2, <1>3
  <2> QED
    BY <1>2, <2>1, <2>2 DEF Stocked
<1>5. \A x \in Socket : x # s => Of(q, x) \subseteq Of(o, x)
  BY <1>2, <1>3 DEF Of, World!Id
<1>6. Of(q, s) \subseteq {m}
  BY <1>2, <1>3 DEF Of, World!Id
<1>7. OwnedOnce(t, q)
  BY <1>2, <1>5, <1>6 DEF OwnedOnce
<1>8. \A x \in World!Id : x \notin Of(o, s) \union {m} => q[x] = o[x]
  BY <1>3
<1>9. WorldOK(t, q, Told({}, Of(o, s) \union {m}, t, q, r))
  BY <1>4, <1>7, <1>8, StockKept
<1> QED
  BY <1>1, <1>9

\* Whoever joins is shown everything, and everybody is shown him.
Joined(t, u, o, s, r) ==
    [v \in Socket |-> IF v = s THEN Frame(u, o)
                      ELSE IF v \in Seated(t) THEN [r[v] EXCEPT !.seats[s] = u[s]]
                      ELSE r[v]]

LEMMA JoinKept ==
    ASSUME NEW t, NEW o, NEW r, WorldOK(t, o, r), NEW s \in Socket, s \notin Seated(t),
           NEW w \in World!Walker, w.at \in World!Ground
    PROVE  WorldOK([t EXCEPT ![s] = w], o, Joined(t, [t EXCEPT ![s] = w], o, s, r))
<1>1. PICK u : u = [t EXCEPT ![s] = w]
  OBVIOUS
<1>2. w # Nothing /\ DOMAIN t = Socket /\ t[s] = Nothing
  BY WorldAssumption DEF Seated, WorldOK, Placed
<1>3. DOMAIN u = Socket /\ u[s] = w /\ \A x \in Socket : x # s => u[x] = t[x]
  BY <1>1, <1>2
<1>4. Placed(u)
  <2>1. u \in [Socket -> World!Walker \union {Nothing}]
    BY <1>1 DEF WorldOK, Placed
  <2>2. \A x \in Seated(u) : u[x].at \in World!Ground
    BY <1>3 DEF WorldOK, Placed, Seated
  <2> QED
    BY <2>1, <2>2 DEF Placed
<1>5. Stocked(o) /\ OwnedOnce(t, o) /\ Shows(t, o, r)
  BY DEF WorldOK
<1>6. OwnedOnce(u, o)
  <2>1. \A x \in Socket : u[x] = Nothing => t[x] = Nothing
    BY <1>2, <1>3
  <2> QED
    BY <1>5, <2>1 DEF OwnedOnce
<1>7. ASSUME NEW v \in Seated(u) PROVE Joined(t, u, o, s, r)[v] = Frame(u, o)
  <2>1. v \in Socket
    BY DEF Seated
  <2>2. CASE v = s
    BY <2>1, <2>2 DEF Joined
  <2>3. CASE v # s
    <3>1. v \in Seated(t)
      BY <1>3, <2>1, <2>3 DEF Seated
    <3>2. r[v] = Frame(t, o)
      BY <1>5, <3>1 DEF Shows
    <3>3. Joined(t, u, o, s, r)[v] = [r[v] EXCEPT !.seats[s] = u[s]]
      BY <2>1, <2>3, <3>1 DEF Joined
    <3>4. [Frame(t, o) EXCEPT !.seats[s] = w] = Frame([t EXCEPT ![s] = w], o)
      BY DEF Frame
    <3> QED
      BY <1>1, <1>3, <3>2, <3>3, <3>4
  <2> QED
    BY <2>2, <2>3
<1>8. Shows(u, o, Joined(t, u, o, s, r))
  BY <1>7 DEF Shows
<1> QED
  BY <1>1, <1>4, <1>5, <1>6, <1>8 DEF WorldOK

LEMMA WorldInit ==
    ASSUME World!Init
    PROVE  WorldInv
<1> DEFINE t == [s \in Socket |-> Nothing]
           o == [m \in World!Id |-> Nothing]
           r == [s \in Socket |-> World!Blank]
<1>1. t = seats /\ o = monsters /\ r = screens
  BY DEF World!Init
<1>2. Seated(t) = {}
  BY DEF Seated
<1>3. \A s \in Socket : Of(o, s) = {}
  BY DEF Of, World!Id
<1>4. Placed(t)
  <2>1. t \in [Socket -> World!Walker \union {Nothing}]
    OBVIOUS
  <2> QED
    BY <1>2, <2>1 DEF Placed
<1>5. Stocked(o)
  <2>1. o \in [World!Id -> World!Monster \union {Nothing}]
    OBVIOUS
  <2>2. \A m \in Wild : o[m] = Nothing
    BY DEF World!Id
  <2> QED
    BY <2>1, <2>2 DEF Stocked
<1> HIDE DEF t, o, r
<1>6. OwnedOnce(t, o) /\ Shows(t, o, r)
  BY <1>2, <1>3 DEF OwnedOnce, Shows
<1> QED
  BY <1>1, <1>4, <1>5, <1>6 DEF WorldInv, WorldOK

\* Where one appears, with fewer others here than there are open tiles
LEMMA Appears ==
    ASSUME NEW t, NEW s \in Socket, s \notin Seated(t)
    PROVE  World!Nearby(Center, Cardinality(Seated(t))) \in World!Ground
<1>1. Seated(t) \in SUBSET Socket /\ Seated(t) # Socket
  BY DEF Seated
<1>2. /\ IsFiniteSet(Seated(t)) /\ Cardinality(Seated(t)) <= Cardinality(Socket)
      /\ Cardinality(Seated(t)) # Cardinality(Socket)
  BY <1>1, WorldAssumption, FS_Subset
<1>3. Cardinality(Seated(t)) \in Nat /\ Cardinality(Socket) \in Nat
  BY <1>2, WorldAssumption, FS_CardinalityType
<1>4. Cardinality(World!Ground) \in Nat
  BY GroundFinite
<1>5. Cardinality(Seated(t)) < Cardinality(World!Ground)
  BY <1>2, <1>3, <1>4, WorldAssumption
<1>6. Center \in Int \X Int
  BY WorldAssumption
<1> QED
  BY <1>3, <1>5, <1>6, NearbyGround

LEMMA WorldNext ==
    ASSUME WorldInv, World!Next \/ UNCHANGED worldVars
    PROVE  WorldInv'
<1>1. PICK t, o, r : t = seats /\ o = monsters /\ r = screens /\ WorldOK(t, o, r)
  BY DEF WorldInv
<1>2. PICK u, q, r2 : u = seats' /\ q = monsters' /\ r2 = screens'
  OBVIOUS
<1> SUFFICES WorldOK(u, q, r2)
  BY <1>2 DEF WorldInv
<1>h. World!Here = Seated(t)
  BY <1>1 DEF World!Here, Seated
<1>o. \A s : World!OwnedBy(s) = Of(o, s)
  BY <1>1 DEF World!OwnedBy, Of
<1>t. Placed(t) /\ Stocked(o) /\ DOMAIN t = Socket /\ DOMAIN o = World!Id
  BY <1>1 DEF WorldOK, Placed, Stocked
<1>w. \A s \in Seated(t) : t[s] \in World!Walker /\ t[s].at \in World!Ground /\ s \in Socket
  BY <1>t DEF Placed, Seated
<1>g. World!Ground \subseteq World!Tile
  BY DEF World!Ground
<1>m. \A m \in World!Id : o[m] # Nothing => o[m] \in World!Monster
  BY <1>t DEF Stocked
<1>3. ASSUME NEW s \in Socket, World!Join(s) PROVE WorldOK(u, q, r2)
  <2> DEFINE w == [at |-> World!Nearby(Center, Cardinality(Seated(t))), dir |-> "down", jump |-> FALSE]
  <2>1. s \notin Seated(t)
    BY <1>3, <1>h DEF World!Join
  <2>2. w.at \in World!Ground
    BY <2>1, Appears
  <2>3. w \in World!Walker
    BY <2>2, <1>g DEF World!Walker, World!Direction
  <2>4. u = [t EXCEPT ![s] = w] /\ q = o
    BY <1>1, <1>2, <1>3, <1>h, SameCount DEF World!Join
  <2> HIDE DEF w
  <2>5. screens' = [v \in Socket |->
          IF v = s THEN [seats |-> seats', monsters |-> monsters]
          ELSE IF v \in World!Here THEN [screens[v] EXCEPT !.seats[s] = seats'[s]]
          ELSE screens[v]]
    BY <1>3 DEF World!Join
  <2>6. r2 = Joined(t, u, o, s, r)
    BY <1>1, <1>2, <1>h, <2>5 DEF Joined, Frame
  <2>7. WorldOK([t EXCEPT ![s] = w], o, Joined(t, [t EXCEPT ![s] = w], o, s, r))
    BY <1>1, <2>1, <2>2, <2>3, JoinKept
  <2> QED
    BY <2>4, <2>6, <2>7
<1>4. ASSUME NEW s \in Socket, World!Leave(s) PROVE WorldOK(u, q, r2)
  <2>1. s \in Seated(t)
    BY <1>4, <1>h DEF World!Leave
  <2>2. u = [t EXCEPT ![s] = Nothing]
    BY <1>1, <1>2, <1>4 DEF World!Leave
  <2>3. q = [m \in World!Id |-> IF m \in Of(o, s) THEN Nothing ELSE o[m]]
    BY <1>1, <1>2, <1>4, <1>o DEF World!Leave
  <2>4. r2 = Told({s}, Of(o, s), u, q, r)
    <3>1. World!Tells({s}, World!OwnedBy(s))
      BY <1>4 DEF World!Leave
    <3> QED
      BY <1>1, <1>2, <1>o, <3>1 DEF World!Tells, Told
  <2>5. WorldOK([t EXCEPT ![s] = Nothing], q, Told({s}, Of(o, s), [t EXCEPT ![s] = Nothing], q, r))
    BY <1>1, <2>1, <2>3, SeatLeft
  <2> QED
    BY <2>2, <2>4, <2>5
<1>5. ASSUME NEW s \in Seated(t), NEW w \in World!Walker, w.at \in World!Ground,
             seats' = [seats EXCEPT ![s] = w], UNCHANGED monsters, World!Tells({s}, {})
      PROVE  WorldOK(u, q, r2)
  <2>1. u = [t EXCEPT ![s] = w] /\ q = o
    BY <1>1, <1>2, <1>5
  <2>2. r2 = Told({s}, {}, u, q, r)
    BY <1>1, <1>2, <1>5 DEF World!Tells, Told
  <2>3. WorldOK([t EXCEPT ![s] = w], o, Told({s}, {}, [t EXCEPT ![s] = w], o, r))
    BY <1>1, <1>5, SeatKept
  <2> QED
    BY <2>1, <2>2, <2>3
<1>6. ASSUME NEW m \in PlayerSteps
      PROVE  m.step \in Int \X Int /\ m.dir \in World!Direction /\ m.jump \in BOOLEAN
  BY <1>6, WorldAssumption
<1>7. ASSUME NEW s \in Socket, NEW m \in PlayerSteps, World!Hop(s, m) PROVE WorldOK(u, q, r2)
  <2> DEFINE w == [t[s] EXCEPT !.jump = m.jump]
  <2>1. s \in Seated(t)
    BY <1>7, <1>h DEF World!Hop
  <2>2. w \in World!Walker /\ w.at \in World!Ground
    <3>1. t[s] \in World!Walker /\ t[s].at \in World!Ground
      BY <1>w, <2>1
    <3> QED
      BY <1>6, <3>1 DEF World!Walker
  <2>3. seats' = [seats EXCEPT ![s] = w]
    BY <1>1, <1>7 DEF World!Hop
  <2>4. UNCHANGED monsters /\ World!Tells({s}, {})
    BY <1>7 DEF World!Hop
  <2> HIDE DEF w
  <2> QED
    BY <1>5, <2>1, <2>2, <2>3, <2>4
<1>8. ASSUME NEW s \in Socket, NEW m \in PlayerSteps, World!Turn(s, m) PROVE WorldOK(u, q, r2)
  <2> DEFINE w == [t[s] EXCEPT !.dir = m.dir, !.jump = m.jump]
  <2>1. s \in Seated(t)
    BY <1>8, <1>h DEF World!Turn
  <2>2. w \in World!Walker /\ w.at \in World!Ground
    <3>1. t[s] \in World!Walker /\ t[s].at \in World!Ground
      BY <1>w, <2>1
    <3> QED
      BY <1>6, <3>1 DEF World!Walker
  <2>3. seats' = [seats EXCEPT ![s] = w]
    <3>1. seats' = [seats EXCEPT ![s].dir = m.dir, ![s].jump = m.jump]
      BY <1>8 DEF World!Turn
    <3> QED
      BY <1>1, <1>t, <1>w, <2>1, <3>1
  <2>4. UNCHANGED monsters /\ World!Tells({s}, {})
    BY <1>8 DEF World!Turn
  <2> HIDE DEF w
  <2> QED
    BY <1>5, <2>1, <2>2, <2>3, <2>4
<1>9. ASSUME NEW s \in Socket, NEW m \in PlayerSteps, World!Walk(s, m) PROVE WorldOK(u, q, r2)
  <2> DEFINE w == [at |-> World!Clamped(World!Plus(t[s].at, m.step)), dir |-> m.dir, jump |-> m.jump]
  <2>1. s \in Seated(t)
    BY <1>9, <1>h DEF World!Walk
  <2>2. World!CanTraverse(t[s].at, m.step)
    BY <1>1, <1>9 DEF World!Walk, World!Stays
  <2>3. World!Clamped(World!Plus(t[s].at, m.step)) \in World!Ground
    <3>1. t[s].at \in World!Tile
      BY <1>w, <1>g, <2>1
    <3> QED
      BY <1>6, <2>2, <3>1, TraversedGround
  <2>4. w \in World!Walker /\ w.at \in World!Ground
    BY <1>6, <1>g, <2>3 DEF World!Walker
  <2>5. seats' = [seats EXCEPT ![s] = w]
    BY <1>1, <1>9 DEF World!Walk
  <2>6. UNCHANGED monsters /\ World!Tells({s}, {})
    BY <1>9 DEF World!Walk
  <2> HIDE DEF w
  <2> QED
    BY <1>5, <2>1, <2>4, <2>5, <2>6
<1>10. ASSUME NEW m \in World!Id, NEW w,
              \/ w = Nothing
              \/ /\ w \in World!Monster /\ o[m] # Nothing /\ w.owner = o[m].owner
                 /\ m \in Wild => w.at \in World!Ground
              \/ m \in Wild /\ w \in World!Monster /\ w.at \in World!Ground,
              monsters' = [monsters EXCEPT ![m] = w], UNCHANGED seats,
              NEW M, \A x \in World!Id \ M : monsters'[x] = monsters[x], World!Tells({}, M)
       PROVE  WorldOK(u, q, r2)
  <2>1. q = [o EXCEPT ![m] = w] /\ u = t
    BY <1>1, <1>2, <1>10
  <2>2. r2 = Told({}, M, u, q, r)
    BY <1>1, <1>2, <1>10 DEF World!Tells, Told
  <2>3. Stocked([o EXCEPT ![m] = w]) /\ OwnedOnce(t, [o EXCEPT ![m] = w])
    BY <1>1, <1>10, MonsterChanged
  <2>4. Stocked(q) /\ OwnedOnce(t, q)
    BY <2>1, <2>3
  <2>5. \A x \in World!Id : x \notin M => q[x] = o[x]
    BY <1>1, <1>2, <1>10
  <2>6. WorldOK(t, q, Told({}, M, t, q, r))
    BY <1>1, <2>4, <2>5, StockKept
  <2> QED
    BY <2>1, <2>2, <2>6
<1>11. ASSUME NEW m \in World!Id, NEW w, monsters' = [monsters EXCEPT ![m] = w]
       PROVE  \A x \in World!Id \ {m} : monsters'[x] = monsters[x]
  BY <1>1, <1>t, <1>11
<1>12. ASSUME NEW s \in Socket, NEW m \in World!Id, World!Strike(s, m) PROVE WorldOK(u, q, r2)
  <2>1. monsters' = [monsters EXCEPT ![m] = Nothing] /\ UNCHANGED seats /\ World!Tells({}, {m})
    BY <1>12 DEF World!Strike
  <2> QED
    BY <1>10, <1>11, <2>1
<1>13. ASSUME NEW s \in Socket, NEW m \in World!Id, World!SpawnDummy(s, m) PROVE WorldOK(u, q, r2)
  <2>1. s \in Seated(t) /\ m \in Dummy
    BY <1>13, <1>h DEF World!SpawnDummy
  <2>2. PICK p : p = [x \in World!Id |-> IF x \in Of(o, s) THEN Nothing ELSE o[x]]
    OBVIOUS
  <2>3. [x \in World!Id |-> IF x \in World!OwnedBy(s) THEN Nothing ELSE monsters[x]] = p
    BY <1>1, <1>o, <2>2
  <2> DEFINE w == [owner |-> s, at |-> World!DummyTile(p, t[s]),
                   dir |-> World!Opposite[t[s].dir], hp |-> FullHp]
  <2>4. w \in World!Monster /\ w.owner = s
    <3>1. t[s] \in World!Walker /\ s \in Socket
      BY <1>w, <2>1
    <3>2. World!DummyTile(p, t[s]) \in World!Tile
      BY <3>1, DummyTileIn
    <3>3. World!Opposite[t[s].dir] \in World!Direction
      BY <3>1 DEF World!Walker, World!Opposite, World!Direction
    <3>4. FullHp \in 0 .. FullHp
      BY WorldAssumption
    <3> QED
      BY <3>1, <3>2, <3>3, <3>4 DEF World!Monster
  <2>5. q = [p EXCEPT ![m] = w] /\ u = t
    BY <1>1, <1>2, <1>13, <2>3 DEF World!SpawnDummy
  <2>6. World!Tells({}, World!OwnedBy(s) \union {m})
    BY <1>13 DEF World!SpawnDummy
  <2>7. r2 = Told({}, Of(o, s) \union {m}, u, q, r)
    BY <1>1, <1>2, <1>o, <2>6 DEF World!Tells, Told
  <2> HIDE DEF w
  <2>8. WorldOK(t, [p EXCEPT ![m] = w], Told({}, Of(o, s) \union {m}, t, [p EXCEPT ![m] = w], r))
    BY <1>1, <2>1, <2>2, <2>4, DummyKept
  <2> QED
    BY <2>5, <2>7, <2>8
<1>14. ASSUME NEW s \in Socket, NEW m \in World!Id, NEW reach, NEW damage \in {0, 1, FullHp},
              World!Damage(s, m, reach, damage)
       PROVE  WorldOK(u, q, r2)
  <2> DEFINE w == [o[m] EXCEPT !.hp = @ - damage]
  <2>1. o[m] # Nothing /\ m \in Dummy /\ damage < o[m].hp
    BY <1>1, <1>14 DEF World!Damage, World!Beats
  <2>2. w \in World!Monster /\ w.owner = o[m].owner
    <3>1. o[m] \in World!Monster
      BY <1>m, <2>1
    <3>2. o[m].hp \in 0 .. FullHp
      BY <3>1 DEF World!Monster
    <3>3. o[m].hp - damage \in 0 .. FullHp
      BY <2>1, <3>2, WorldAssumption
    <3> QED
      BY <3>1, <3>3 DEF World!Monster
  <2>3. m \notin Wild
    BY <2>1, WorldAssumption
  <2>4. monsters' = [monsters EXCEPT ![m] = w] /\ UNCHANGED seats /\ World!Tells({}, {m})
    BY <1>1, <1>14 DEF World!Damage
  <2> HIDE DEF w
  <2> QED
    BY <1>10, <1>11, <2>1, <2>2, <2>3, <2>4
<1>15. ASSUME NEW s \in Socket, NEW m \in World!Id, NEW reach, NEW damage,
              World!Kill(s, m, reach, damage)
       PROVE  WorldOK(u, q, r2)
  <2>1. monsters' = [monsters EXCEPT ![m] = Nothing] /\ UNCHANGED seats /\ World!Tells({}, {m})
    BY <1>15 DEF World!Kill
  <2> QED
    BY <1>10, <1>11, <2>1
<1>16. ASSUME World!MonsterLoop PROVE WorldOK(u, q, r2)
  <2> DEFINE M == {m \in World!Id : monsters'[m] # monsters[m]}
  <2>1. UNCHANGED seats /\ World!Tells({}, M)
    BY <1>16 DEF World!MonsterLoop
  <2>2. \A x \in World!Id \ M : monsters'[x] = monsters[x]
    OBVIOUS
  <2>3. PICK K : K = M
    OBVIOUS
  <2>4. UNCHANGED seats /\ World!Tells({}, K) /\ \A x \in World!Id \ K : monsters'[x] = monsters[x]
    BY <2>1, <2>2, <2>3
  <2> HIDE DEF M
  <2>5. ASSUME monsters' \in World!Refilled(monsters) \ {monsters} PROVE WorldOK(u, q, r2)
    <3>1. PICK m \in Wild, x \in World!Ground :
             monsters' = [monsters EXCEPT ![m] = [owner |-> NoSocket, at |-> x, dir |-> "down", hp |-> 0]]
      BY <2>5 DEF World!Refilled
    <3>2. PICK w : w = [owner |-> NoSocket, at |-> x, dir |-> "down", hp |-> 0]
      OBVIOUS
    <3>3. w \in World!Monster /\ w.at \in World!Ground
      BY <1>g, <3>2, WorldAssumption DEF World!Monster, World!Direction
    <3>4. m \in World!Id
      BY DEF World!Id
    <3>5. monsters' = [monsters EXCEPT ![m] = w]
      BY <3>1, <3>2
    <3> QED
      BY <1>10, <2>4, <3>3, <3>4, <3>5
  <2>6. ASSUME NEW m \in Wild \intersect World!Alive(monsters), NEW w \in World!Wanders(monsters[m]),
               monsters' = [monsters EXCEPT ![m] = w]
        PROVE  WorldOK(u, q, r2)
    <3>1. m \in World!Id /\ m \in Wild /\ o[m] # Nothing
      BY <1>1 DEF World!Alive
    <3>2. PICK b : b = o[m]
      OBVIOUS
    <3>3. b \in World!Monster /\ b.at \in World!Ground /\ b.at \in World!Tile
      BY <1>t, <1>m, <1>g, <3>1, <3>2 DEF Stocked
    <3>4. w \in World!Wanders(b)
      BY <1>1, <3>2
    <3>5. \/ \E d \in World!Direction : w = [b EXCEPT !.dir = d]
          \/ \E d \in World!Direction :
                World!CanCross(b.at, d) /\ w = [b EXCEPT !.at = World!Plus(b.at, World!Delta[d]), !.dir = d]
      BY <3>4 DEF World!Wanders
    <3>6. CASE \E d \in World!Direction : w = [b EXCEPT !.dir = d]
      <4>1. w \in World!Monster /\ w.at \in World!Ground
        BY <3>3, <3>6 DEF World!Monster
      <4> QED
        BY <1>10, <2>4, <2>6, <3>1, <4>1
    <3>7. CASE \E d \in World!Direction :
                  World!CanCross(b.at, d) /\ w = [b EXCEPT !.at = World!Plus(b.at, World!Delta[d]), !.dir = d]
      <4>1. PICK d \in World!Direction :
               World!CanCross(b.at, d) /\ w = [b EXCEPT !.at = World!Plus(b.at, World!Delta[d]), !.dir = d]
        BY <3>7
      <4>2. World!Plus(b.at, World!Delta[d]) \in World!Ground
        BY <3>3, <4>1, CrossedGround
      <4>3. w \in World!Monster /\ w.at \in World!Ground
        BY <1>g, <3>3, <4>1, <4>2 DEF World!Monster
      <4> QED
        BY <1>10, <2>4, <2>6, <3>1, <4>3
    <3> QED
      BY <3>5, <3>6, <3>7
  <2> QED
    BY <1>16, <2>5, <2>6 DEF World!MonsterLoop
<1>17. ASSUME World!Tick \/ UNCHANGED worldVars PROVE WorldOK(u, q, r2)
  <2>1. u = t /\ q = o /\ r2 = r
    BY <1>1, <1>2, <1>17 DEF World!Tick, worldVars
  <2> QED
    BY <1>1, <2>1
<1> QED
  BY <1>3, <1>4, <1>7, <1>8, <1>9, <1>12, <1>13, <1>14, <1>15, <1>16, <1>17 DEF World!Next

LEMMA WorldAgreesHolds == WorldInv => World!WorldAgrees
<1> SUFFICES ASSUME WorldInv PROVE World!WorldAgrees
  OBVIOUS
<1>1. PICK t, o, r : t = seats /\ o = monsters /\ r = screens /\ WorldOK(t, o, r)
  BY DEF WorldInv
<1>2. World!Here = Seated(t)
  BY <1>1 DEF World!Here, Seated
<1>3. \A s : World!OwnedBy(s) = Of(o, s)
  BY <1>1 DEF World!OwnedBy, Of
<1>4. \A s \in World!Here : screens[s] = [seats |-> seats, monsters |-> monsters]
  BY <1>1, <1>2 DEF WorldOK, Shows, Frame
<1>5. ASSUME NEW s \in Socket
      PROVE  World!Cardinality(World!OwnedBy(s)) <= IF s \in World!Here THEN 1 ELSE 0
  <2>1. /\ \A m, n \in Of(o, s) : m = n
        /\ t[s] = Nothing => Of(o, s) = {}
    BY <1>1 DEF WorldOK, OwnedOnce
  <2>2. CASE Of(o, s) = {}
    <3>1. Cardinality(Of(o, s)) = 0
      BY <2>2, FS_EmptySet
    <3> QED
      BY <1>3, <3>1, SameCount
  <2>3. CASE Of(o, s) # {}
    <3>1. PICK m \in Of(o, s) : Of(o, s) = {m}
      BY <2>1, <2>3
    <3>2. Cardinality(Of(o, s)) = 1
      BY <3>1, FS_Singleton
    <3>3. s \in World!Here
      BY <1>2, <2>1, <2>3 DEF Seated
    <3> QED
      BY <1>3, <3>2, <3>3, SameCount
  <2> QED
    BY <2>2, <2>3
<1>6. \A s \in World!Here : seats[s].at \in World!Ground
  BY <1>1, <1>2 DEF WorldOK, Placed
<1>7. \A m \in Wild \intersect World!Alive(monsters) : monsters[m].at \in World!Ground
  BY <1>1 DEF WorldOK, Stocked, World!Alive
<1> QED
  BY <1>4, <1>5, <1>6, <1>7 DEF World!WorldAgrees

-----------------------------------------------------------------------------
\* Clients show the map and the chat as the server has them, and a fire they were told of
\* lasts and has no neighbour, on any map, with any number of players, messages, monsters
\* and fires (ChannelService, ChannelGateway, CampfireStore).
THEOREM LiveAgrees == LiveSpec => []WorldAgrees
<1> DEFINE Inv == WorldInv /\ FiresInv /\ TalkInv /\ GradesInv
<1>1. LiveInit => Inv
  BY WorldInit, FiresInit, TalkInit, GradesInit DEF LiveInit
<1>2. TalkInv => said \in Nat
  BY DEF TalkInv, TalkOK, HistoryOK
<1>3. Inv /\ [LiveNext]_liveVars => Inv'
  <2> SUFFICES ASSUME Inv, [LiveNext]_liveVars PROVE Inv'
    OBVIOUS
  <2>1. WorldInv' /\ FiresInv'
    BY StepsApart, WorldNext, FiresNext
  <2>2. TalkInv' /\ GradesInv'
    BY <1>2, StepsApart, TalkNext, GradesNext
  <2> QED
    BY <2>1, <2>2
<1>4. Inv => WorldAgrees
  BY WorldAgreesHolds, FiresLastHolds, ChatAgreesHolds DEF WorldAgrees
<1> QED
  BY <1>1, <1>3, <1>4, PTL DEF LiveSpec

-----------------------------------------------------------------------------
\* The figures of an item

\* Instances count and cut as their users do.
LEMMA FiguresCut ==
    /\ \A S : Figures!Cardinality(S) = Cardinality(S)
    /\ \A S, n : Figures!Latest(S, n) = LatestOf(S, n) /\ Figures!Oldest(S, n) = OldestOf(S, n)
<1>1. \A S : Figures!Cardinality(S) = Cardinality(S)
  BY DEF Figures!Cardinality, Cardinality
<1> QED
  BY <1>1 DEF Figures!Latest, Figures!Oldest, LatestOf, OldestOf

\* The end of some places, or their beginning
EndOf(T, S) == T \subseteq S /\ \A n \in T, k \in S : k > n => k \in T

\* What is chosen of the end of some places is the end of what is chosen of all of them, and
\* so is the end of that.
LEMMA EndKept ==
    ASSUME NEW B \in SUBSET Int, IsFiniteSet(B), NEW m \in Nat, NEW limit \in Nat,
           NEW D \in SUBSET B
    PROVE  LET Q == LatestOf(B, m) \intersect D
           IN  /\ EndOf(Q, D) /\ Cardinality(Q) <= m
               /\ EndOf(LatestOf(Q, limit), D) /\ Cardinality(LatestOf(Q, limit)) <= limit
               /\ Cardinality(B) <= m => Q = D
<1> DEFINE Q == LatestOf(B, m) \intersect D
<1>1. LatestOf(B, m) \subseteq B
  BY DEF LatestOf
<1>2. EndOf(Q, D)
  <2>1. \A n \in LatestOf(B, m), k \in B : k > n => k \in LatestOf(B, m)
    BY CutKeeps
  <2> QED
    BY <2>1 DEF EndOf
<1>3. Q \in SUBSET B /\ Q \in SUBSET Int /\ IsFiniteSet(Q) /\ Cardinality(Q) \in Nat
  BY <1>1, FS_Subset, FS_CardinalityType
<1>4. Cardinality(Q) <= m
  <2>1. IsFiniteSet(LatestOf(B, m)) /\ Cardinality(LatestOf(B, m)) \in Nat
    BY <1>1, FS_Subset, FS_CardinalityType
  <2>2. Cardinality(Q) <= Cardinality(LatestOf(B, m))
    <3>1. Q \in SUBSET LatestOf(B, m)
      OBVIOUS
    <3> QED
      BY <2>1, <3>1, FS_Subset
  <2>3. Cardinality(B) \in Nat /\ Cardinality(LatestOf(B, m)) <= m
    <3>1. Cardinality(B) \in Nat
      BY FS_CardinalityType
    <3>2. Cardinality(LatestOf(B, m)) = IF Cardinality(B) <= m THEN Cardinality(B) ELSE m
      BY CutKeeps
    <3> QED
      BY <3>1, <3>2
  <2> QED
    BY <1>3, <2>1, <2>2, <2>3
<1>5. EndOf(LatestOf(Q, limit), D)
  <2>1. \A n \in LatestOf(Q, limit), k \in Q : k > n => k \in LatestOf(Q, limit)
    BY <1>3, CutKeeps
  <2>2. LatestOf(Q, limit) \subseteq Q
    BY DEF LatestOf
  <2> QED
    BY <1>2, <2>1, <2>2 DEF EndOf
<1>6. Cardinality(LatestOf(Q, limit)) <= limit
  <2>1. Cardinality(LatestOf(Q, limit)) = IF Cardinality(Q) <= limit THEN Cardinality(Q) ELSE limit
    BY <1>3, CutKeeps
  <2> QED
    BY <1>3, <2>1
<1>7. Cardinality(B) <= m => Q = D
  <2>1. Cardinality(B) <= m => LatestOf(B, m) = B
    BY CutKeeps
  <2> QED
    BY <2>1
<1> QED
  BY <1>2, <1>3, <1>4, <1>5, <1>6, <1>7

\* The deals on a page are the end of all deals that it could show.
LEMMA FiguresHold ==
    ASSUME IsFiniteSet(DOMAIN closed), DOMAIN closed \subseteq Int
    PROVE  Figures!FiguresAgree
<1>0. /\ Sample \in Nat /\ SummaryScan \in Nat /\ StatsScan \in Nat
      /\ ListLimit \in Nat /\ MaxPoints \in Nat
  BY LimitAssumption
<1> SUFFICES ASSUME NEW i \in Item
             PROVE  LET deals == Figures!Numeric(Figures!OfItem(i, Figures!Eligible))
                        stats == {Figures!MarketStats(S, i) : S \in {T \in SUBSET Item : i \in T}}
                    IN  /\ \A s \in stats \union {Figures!PriceStats(i), Figures!Summary(i),
                                                  Figures!ItemMarket(i)} :
                              s \subseteq deals /\ \A n \in s, k \in deals : k > n => k \in s
                        /\ \A s \in stats \union {Figures!PriceStats(i), Figures!Summary(i)} :
                              Cardinality(s) <= Sample
                        /\ Cardinality(Figures!ItemMarket(i)) <= ListLimit
                        /\ Cardinality(Figures!Eligible) <= SummaryScan
                              => Figures!Summary(i) = LatestOf(deals, Sample)
                        /\ \A from \in 1 .. Len(closed) + 1 :
                              LET curve == Figures!PriceHistory(i, from)
                                  window == {n \in deals : n >= from}
                              IN  /\ curve \subseteq window
                                  /\ \A n \in curve, k \in window : k < n => k \in curve
                                  /\ Cardinality(Figures!OfItem(i, Figures!Within(from)))
                                        <= MaxPoints => curve = window
  BY FiguresCut DEF Figures!FiguresAgree
<1> DEFINE E == Figures!Eligible
           O == Figures!OfItem(i, E)
           D == Figures!Numeric(O)
<1>1. E \in SUBSET DOMAIN closed /\ O \in SUBSET E /\ D \in SUBSET O
  BY DEF Figures!Eligible, Figures!OfItem, Figures!Numeric
<1>2. /\ IsFiniteSet(E) /\ IsFiniteSet(O) /\ IsFiniteSet(D)
      /\ E \in SUBSET Int /\ O \in SUBSET Int /\ D \in SUBSET Int
  <2>1. IsFiniteSet(E)
    BY <1>1, FS_Subset
  <2>2. IsFiniteSet(O)
    BY <1>1, <2>1, FS_Subset
  <2>3. IsFiniteSet(D)
    BY <1>1, <2>2, FS_Subset
  <2> QED
    BY <1>1, <2>1, <2>2, <2>3
<1>3. /\ Figures!PriceStats(i) = LatestOf(O, Sample) \intersect D
      /\ Figures!ItemMarket(i) = LatestOf(O, ListLimit) \intersect D
  <2>1. LatestOf(O, Sample) \subseteq O /\ LatestOf(O, ListLimit) \subseteq O
    BY DEF LatestOf
  <2> QED
    BY <2>1, FiguresCut DEF Figures!PriceStats, Figures!ItemMarket, Figures!Numeric
<1>4. Figures!Summary(i) = LatestOf(LatestOf(E, SummaryScan) \intersect D, Sample)
  <2>1. LatestOf(E, SummaryScan) \subseteq E
    BY DEF LatestOf
  <2>2. Figures!Numeric(Figures!OfItem(i, LatestOf(E, SummaryScan)))
          = LatestOf(E, SummaryScan) \intersect D
    BY <2>1 DEF Figures!Numeric, Figures!OfItem
  <2> QED
    BY <2>2, FiguresCut DEF Figures!Summary
<1>5. ASSUME NEW S \in {T \in SUBSET Item : i \in T}
      PROVE  /\ EndOf(Figures!MarketStats(S, i), D)
             /\ Cardinality(Figures!MarketStats(S, i)) <= Sample
  <2> DEFINE B == {n \in DOMAIN closed : closed[n].item \in S /\ closed[n].verified}
             C == LatestOf(B, StatsScan)
  <2>1. IsFiniteSet(B) /\ B \in SUBSET Int
    BY FS_Subset
  <2>2. D \in SUBSET B
    BY DEF Figures!Eligible, Figures!OfItem, Figures!Numeric, Figures!Counts
  <2>3. Figures!Numeric(Figures!OfItem(i, {n \in C : closed[n].plain})) = C \intersect D
    <3>1. C \subseteq B
      BY DEF LatestOf
    <3>2. \A n \in B : n \in D <=> closed[n].plain /\ closed[n].item = i /\ closed[n].price > 0
      BY DEF Figures!Eligible, Figures!OfItem, Figures!Numeric, Figures!Counts
    <3> HIDE DEF B, C, D
    <3> QED
      BY <3>1, <3>2 DEF Figures!OfItem, Figures!Numeric
  <2>4. Figures!MarketStats(S, i) = LatestOf(C \intersect D, Sample)
    BY <2>3, FiguresCut DEF Figures!MarketStats
  <2> HIDE DEF B, D
  <2>5. EndOf(LatestOf(LatestOf(B, StatsScan) \intersect D, Sample), D)
        /\ Cardinality(LatestOf(LatestOf(B, StatsScan) \intersect D, Sample)) <= Sample
    BY <1>0, <2>1, <2>2, EndKept
  <2> QED
    BY <2>4, <2>5
<1> HIDE DEF E, O, D
<1>6. /\ EndOf(Figures!PriceStats(i), D) /\ Cardinality(Figures!PriceStats(i)) <= Sample
      /\ EndOf(Figures!ItemMarket(i), D) /\ Cardinality(Figures!ItemMarket(i)) <= ListLimit
  <2>1. /\ EndOf(LatestOf(O, Sample) \intersect D, D)
        /\ Cardinality(LatestOf(O, Sample) \intersect D) <= Sample
    BY <1>0, <1>1, <1>2, EndKept
  <2>2. /\ EndOf(LatestOf(O, ListLimit) \intersect D, D)
        /\ Cardinality(LatestOf(O, ListLimit) \intersect D) <= ListLimit
    BY <1>0, <1>1, <1>2, EndKept
  <2> QED
    BY <1>3, <2>1, <2>2
<1>7. /\ EndOf(Figures!Summary(i), D) /\ Cardinality(Figures!Summary(i)) <= Sample
      /\ Cardinality(E) <= SummaryScan => Figures!Summary(i) = LatestOf(D, Sample)
  <2>1. D \in SUBSET E
    BY <1>1
  <2>2. LET Q == LatestOf(E, SummaryScan) \intersect D
        IN  /\ EndOf(LatestOf(Q, Sample), D) /\ Cardinality(LatestOf(Q, Sample)) <= Sample
            /\ Cardinality(E) <= SummaryScan => Q = D
    BY <1>0, <1>2, <2>1, EndKept
  <2> QED
    BY <1>4, <2>2
<1>9. ASSUME NEW from \in 1 .. Len(closed) + 1
      PROVE  LET curve == Figures!PriceHistory(i, from)
                 window == {n \in D : n >= from}
             IN  /\ curve \subseteq window
                 /\ \A n \in curve, k \in window : k < n => k \in curve
                 /\ Cardinality(Figures!OfItem(i, Figures!Within(from))) <= MaxPoints
                       => curve = window
  <2> DEFINE W == Figures!OfItem(i, Figures!Within(from))
             V == {n \in D : n >= from}
             C == OldestOf(W, MaxPoints)
  <2>1. W = {n \in O : n >= from}
    BY DEF Figures!OfItem, Figures!Within, O, E
  <2>2. W \in SUBSET O /\ W \in SUBSET Int /\ IsFiniteSet(W) /\ V \in SUBSET W
    BY <1>1, <1>2, <2>1, FS_Subset
  <2>3. C \subseteq W
    BY DEF OldestOf
  <2>4. Figures!PriceHistory(i, from) = C \intersect V
    <3>1. Figures!PriceHistory(i, from) = Figures!Numeric(C)
      BY FiguresCut DEF Figures!PriceHistory
    <3>2. \A n \in W : n \in V <=> closed[n].price > 0
      BY <2>1 DEF Figures!Numeric, D
    <3> HIDE DEF W, V, C
    <3> QED
      BY <2>3, <3>1, <3>2 DEF Figures!Numeric
  <2> HIDE DEF W, V
  <2>5. \A n \in C, k \in W : k < n => k \in C
    BY <1>0, <2>2, CutKeeps
  <2>6. Cardinality(W) <= MaxPoints => C = W
    BY <1>0, <2>2, CutKeeps
  <2> HIDE DEF C
  <2>7. /\ C \intersect V \subseteq V
        /\ \A n \in C \intersect V, k \in V : k < n => k \in C \intersect V
        /\ Cardinality(W) <= MaxPoints => C \intersect V = V
    BY <2>2, <2>5, <2>6
  <2> QED
    BY <2>4, <2>7 DEF W, V
<1>10. \A s \in {Figures!MarketStats(S, i) : S \in {T \in SUBSET Item : i \in T}}
                  \union {Figures!PriceStats(i), Figures!Summary(i), Figures!ItemMarket(i)} :
          EndOf(s, D)
  BY <1>5, <1>6, <1>7
<1>11. \A s \in {Figures!MarketStats(S, i) : S \in {T \in SUBSET Item : i \in T}}
                  \union {Figures!PriceStats(i), Figures!Summary(i)} :
          Cardinality(s) <= Sample
  BY <1>5, <1>6, <1>7
<1>12. /\ D = Figures!Numeric(Figures!OfItem(i, Figures!Eligible))
       /\ O = Figures!OfItem(i, Figures!Eligible) /\ E = Figures!Eligible
  BY DEF E, O, D
<1>13. \A s \in {Figures!MarketStats(S, i) : S \in {T \in SUBSET Item : i \in T}}
                  \union {Figures!PriceStats(i), Figures!Summary(i), Figures!ItemMarket(i)} :
          s \subseteq D /\ \A n \in s, k \in D : k > n => k \in s
  BY <1>10 DEF EndOf
<1> QED
  BY <1>6, <1>7, <1>9, <1>11, <1>12, <1>13

\* The pages of the market take their figures from the same deals, the latest ones (or, the
\* curve, the first ones of its window), for any items, prices, limits and windows
\* (getItemPriceStats,
\* getItemPriceSummaries, loadMarketStats, getItemMarket, getPriceHistory).
THEOREM LiveFiguresAgree == LiveSpec => []FiguresAgree
<1> DEFINE Inv == closed \in Seq(Deal)
<1>1. LiveInit => Inv
  BY DEF LiveInit, Figures!Init
<1>2. Inv /\ [LiveNext]_liveVars => Inv'
  <2>1. [LiveNext]_liveVars => Figures!Next \/ closed' = closed
    BY StepsApart
  <2>2. ASSUME Inv, NEW d \in Deal, Figures!Complete(d) PROVE Inv'
    BY <2>2 DEF Figures!Complete
  <2> QED
    BY <2>1, <2>2 DEF Figures!Next
<1>3. Inv => FiguresAgree
  <2> SUFFICES ASSUME Inv PROVE FiguresAgree
    OBVIOUS
  <2>1. Len(closed) \in Nat /\ DOMAIN closed = 1 .. Len(closed)
    OBVIOUS
  <2>2. IsFiniteSet(DOMAIN closed) /\ DOMAIN closed \subseteq Int
    BY <2>1, FS_Interval
  <2> QED
    BY <2>2, FiguresHold DEF FiguresAgree
<1> QED
  BY <1>1, <1>2, <1>3, PTL DEF LiveSpec

-----------------------------------------------------------------------------
\* The pages of the market

LEMMA PagesCount == \A S : Pages!Cardinality(S) = Cardinality(S)
  BY DEF Pages!Cardinality, Cardinality

\* Tuples of one length are in a strict order.
LEMMA LowerOrders ==
    ASSUME NEW s \in Seq(Int), NEW t \in Seq(Int), NEW u \in Seq(Int),
           Len(s) = Len(t), Len(t) = Len(u)
    PROVE  /\ s = t \/ Pages!Lower(s, t) \/ Pages!Lower(t, s)
           /\ ~ Pages!Lower(s, s)
           /\ Pages!Lower(s, t) /\ Pages!Lower(t, u) => Pages!Lower(s, u)
<1>1. Len(s) \in Nat /\ DOMAIN s = 1 .. Len(s) /\ DOMAIN t = 1 .. Len(s) /\ DOMAIN u = 1 .. Len(s)
  OBVIOUS
<1>2. \A n \in 1 .. Len(s) : s[n] \in Int /\ t[n] \in Int /\ u[n] \in Int
  BY <1>1
<1>3. ~ Pages!Lower(s, s)
  BY <1>1, <1>2 DEF Pages!Lower
<1>4. ASSUME s # t PROVE Pages!Lower(s, t) \/ Pages!Lower(t, s)
  <2> DEFINE Odd == {n \in 1 .. Len(s) : s[n] # t[n]}
  <2>1. Odd # {}
    <3> SUFFICES ASSUME \A n \in 1 .. Len(s) : s[n] = t[n] PROVE s = t
      BY <1>4
    <3>1. s = [n \in 1 .. Len(s) |-> s[n]] /\ t = [n \in 1 .. Len(s) |-> t[n]]
      BY <1>1
    <3> QED
      BY <3>1
  <2>2. Odd \in SUBSET Nat
    OBVIOUS
  <2>3. PICK n \in Odd : \A k \in Odd : n <= k
    <3> HIDE DEF Odd
    <3> QED
      BY <2>1, <2>2, LeastOf
  <2>4. \A k \in 1 .. n - 1 : k \in 1 .. Len(s) /\ k \notin Odd
    BY <1>1, <2>3
  <2>5. \A k \in 1 .. n - 1 : s[k] = t[k]
    BY <2>4
  <2>6. n \in 1 .. Len(s) /\ (s[n] < t[n] \/ t[n] < s[n])
    BY <1>2
  <2> QED
    BY <1>1, <2>5, <2>6 DEF Pages!Lower
<1>5. ASSUME Pages!Lower(s, t), Pages!Lower(t, u) PROVE Pages!Lower(s, u)
  <2>1. PICK n \in 1 .. Len(s) : s[n] < t[n] /\ \A k \in 1 .. n - 1 : s[k] = t[k]
    BY <1>1, <1>5 DEF Pages!Lower
  <2>2. PICK m \in 1 .. Len(s) : t[m] < u[m] /\ \A k \in 1 .. m - 1 : t[k] = u[k]
    BY <1>1, <1>5 DEF Pages!Lower
  <2>3. n \in Int /\ m \in Int
    OBVIOUS
  <2>4. CASE n <= m
    <3>1. \A k \in 1 .. n - 1 : k \in 1 .. m - 1
      BY <2>3, <2>4
    <3>2. s[n] < u[n]
      <4>1. CASE n = m
        BY <1>2, <2>1, <2>2, <4>1
      <4>2. CASE n # m
        <5>1. n \in 1 .. m - 1
          BY <2>3, <2>4, <4>2
        <5> QED
          BY <1>2, <2>1, <2>2, <5>1
      <4> QED
        BY <4>1, <4>2
    <3>3. \A k \in 1 .. n - 1 : s[k] = u[k]
      BY <2>1, <2>2, <3>1
    <3> QED
      BY <1>1, <3>2, <3>3 DEF Pages!Lower
  <2>5. CASE m < n
    <3>1. /\ \A k \in 1 .. m - 1 : k \in 1 .. n - 1
          /\ m \in 1 .. n - 1
      BY <2>3, <2>5
    <3>2. s[m] < u[m]
      BY <1>2, <2>1, <2>2, <3>1
    <3>3. \A k \in 1 .. m - 1 : s[k] = u[k]
      BY <2>1, <2>2, <3>1
    <3> QED
      BY <1>1, <3>2, <3>3 DEF Pages!Lower
  <2> QED
    BY <2>3, <2>4, <2>5
<1> QED
  BY <1>3, <1>4, <1>5

LEMMA Tuples ==
    /\ \A a, b \in Int : <<a, b>> \in Seq(Int) /\ Len(<<a, b>>) = 2 /\ <<a, b>>[2] = b
    /\ \A a, b, c \in Int :
          <<a, b, c>> \in Seq(Int) /\ Len(<<a, b, c>>) = 3 /\ <<a, b, c>>[3] = c
    /\ \A a, b, c, d \in Int :
          <<a, b, c, d>> \in Seq(Int) /\ Len(<<a, b, c, d>>) = 4 /\ <<a, b, c, d>>[4] = d
  OBVIOUS

\* So are things that have different ones.
ByKey(S, key) == {p \in S \X S : Pages!Lower(key[p[1]], key[p[2]])}

LEMMA KeysOrder ==
    ASSUME NEW S, NEW key, NEW n \in Nat,
           \A x \in S : key[x] \in Seq(Int) /\ Len(key[x]) = n,
           \A x, y \in S : key[x] = key[y] => x = y
    PROVE  StrictOrder(S, ByKey(S, key))
<1>1. \A x, y \in S : <<x, y>> \in ByKey(S, key) <=> Pages!Lower(key[x], key[y])
  BY DEF ByKey
<1>2. \A x, y \in S : x = y \/ Pages!Lower(key[x], key[y]) \/ Pages!Lower(key[y], key[x])
  BY LowerOrders
<1>3. \A x \in S : ~ Pages!Lower(key[x], key[x])
  BY LowerOrders
<1>4. \A x, y, z \in S : Pages!Lower(key[x], key[y]) /\ Pages!Lower(key[y], key[z])
                            => Pages!Lower(key[x], key[z])
  BY LowerOrders
<1> QED
  BY <1>1, <1>2, <1>3, <1>4 DEF StrictOrder

\* What the query and the service sort by
SortKey(b, byPrice, type) ==
    [x \in DOMAIN b |->
        IF byPrice THEN <<Pages!Group(b[x]), IF b[x].price > 0 THEN 0 ELSE 1,
                          IF type = "buy" THEN -b[x].price ELSE b[x].price, -x>>
        ELSE <<Pages!Group(b[x]), -x>>]
RankKey(b, byPrice, type) ==
    [x \in DOMAIN b |-> <<Pages!Group(b[x]), b[x].presence, Pages!Found(b, byPrice, type, x)>>]
Boards == Seq(Pages!ListingShape)

LEMMA FoundRank ==
    ASSUME NEW b \in Boards, NEW byPrice \in BOOLEAN, NEW type \in {"buy", "sell"}
    PROVE  LET sort == ByKey(DOMAIN b, SortKey(b, byPrice, type))
           IN  /\ StrictOrder(DOMAIN b, sort)
               /\ \A x \in DOMAIN b : Pages!Found(b, byPrice, type, x) = RankIn(DOMAIN b, sort, x)
<1> DEFINE D == DOMAIN b
           key == SortKey(b, byPrice, type)
           sort == ByKey(D, key)
<1>1. \A x \in D : /\ x \in Int /\ b[x].price \in Int /\ Pages!Group(b[x]) \in Int
  <2>1. \A x \in D : x \in Int /\ b[x] \in Pages!ListingShape
    BY DEF Boards
  <2> QED
    BY <2>1 DEF Pages!ListingShape, Pages!Group
<1>2. CASE byPrice = TRUE
  <2>1. \A x \in D : key[x] = <<Pages!Group(b[x]), IF b[x].price > 0 THEN 0 ELSE 1,
                                IF type = "buy" THEN -b[x].price ELSE b[x].price, -x>>
    BY <1>2 DEF SortKey
  <2> HIDE DEF key
  <2>2. \A x \in D : key[x] \in Seq(Int) /\ Len(key[x]) = 4 /\ key[x][4] = -x
    <3> SUFFICES ASSUME NEW x \in D
                 PROVE  key[x] \in Seq(Int) /\ Len(key[x]) = 4 /\ key[x][4] = -x
      OBVIOUS
    <3>1. /\ Pages!Group(b[x]) \in Int /\ (IF b[x].price > 0 THEN 0 ELSE 1) \in Int
          /\ (IF type = "buy" THEN -b[x].price ELSE b[x].price) \in Int /\ -x \in Int
      BY <1>1
    <3>2. PICK g \in Int, numbered \in Int, price \in Int, place \in Int :
             key[x] = <<g, numbered, price, place>> /\ place = -x
      BY <2>1, <3>1
    <3> QED
      BY <3>2, Tuples
  <2>3. \A x, y \in D : key[x] = key[y] => x = y
    BY <1>1, <2>2
  <2>4. StrictOrder(D, sort)
    BY <2>2, <2>3, KeysOrder
  <2>5. \A x \in D : Pages!Found(b, byPrice, type, x) = RankIn(D, sort, x)
    <3> SUFFICES ASSUME NEW x \in D PROVE Pages!Found(b, byPrice, type, x) = RankIn(D, sort, x)
      OBVIOUS
    <3>1. {y \in D : <<y, x>> \in sort} = {y \in D : Pages!Lower(key[y], key[x])}
      BY DEF ByKey
    <3>2. Pages!Found(b, byPrice, type, x) = Cardinality({y \in D : Pages!Lower(key[y], key[x])})
      BY <1>2, <2>1, PagesCount DEF Pages!Found, Pages!Before
    <3> QED
      BY <3>1, <3>2 DEF RankIn
  <2> QED
    BY <2>4, <2>5 DEF key
<1>3. CASE byPrice = FALSE
  <2>1. \A x \in D : key[x] = <<Pages!Group(b[x]), -x>>
    BY <1>3 DEF SortKey
  <2> HIDE DEF key
  <2>2. \A x \in D : key[x] \in Seq(Int) /\ Len(key[x]) = 2 /\ key[x][2] = -x
    <3> SUFFICES ASSUME NEW x \in D
                 PROVE  key[x] \in Seq(Int) /\ Len(key[x]) = 2 /\ key[x][2] = -x
      OBVIOUS
    <3>1. PICK g \in Int, place \in Int : key[x] = <<g, place>> /\ place = -x
      BY <1>1, <2>1
    <3> QED
      BY <3>1, Tuples
  <2>3. \A x, y \in D : key[x] = key[y] => x = y
    BY <1>1, <2>2
  <2>4. StrictOrder(D, sort)
    BY <2>2, <2>3, KeysOrder
  <2>5. \A x \in D : Pages!Found(b, byPrice, type, x) = RankIn(D, sort, x)
    <3> SUFFICES ASSUME NEW x \in D PROVE Pages!Found(b, byPrice, type, x) = RankIn(D, sort, x)
      OBVIOUS
    <3>1. {y \in D : <<y, x>> \in sort} = {y \in D : Pages!Lower(key[y], key[x])}
      BY DEF ByKey
    <3>2. Pages!Found(b, byPrice, type, x) = Cardinality({y \in D : Pages!Lower(key[y], key[x])})
      BY <1>3, <2>1, PagesCount DEF Pages!Found, Pages!Before
    <3> QED
      BY <3>1, <3>2 DEF RankIn
  <2> QED
    BY <2>4, <2>5 DEF key
<1> QED
  BY <1>2, <1>3

LEMMA ScanHolds ==
    ASSUME NEW b \in Boards, NEW byPrice \in BOOLEAN, NEW type \in {"buy", "sell"}
    PROVE  LET scan == Pages!Scanned(b, byPrice, type)
           IN  /\ scan \subseteq DOMAIN b /\ IsFiniteSet(scan)
               /\ Cardinality(scan) \in Nat /\ Cardinality(scan) <= Len(b)
               /\ \A x \in DOMAIN b \ scan, y \in scan :
                     Len(b) > ScanLimit /\ Pages!Group(b[y]) <= Pages!Group(b[x])
<1> DEFINE D == DOMAIN b
           scan == Pages!Scanned(b, byPrice, type)
           key == SortKey(b, byPrice, type)
           sort == ByKey(D, key)
           found(x) == Pages!Found(b, byPrice, type, x)
<1>1. D = 1 .. Len(b) /\ Len(b) \in Nat /\ IsFiniteSet(D) /\ Cardinality(D) = Len(b)
  <2>1. D = 1 .. Len(b) /\ Len(b) \in Nat
    BY DEF Boards
  <2>2. IsFiniteSet(1 .. Len(b)) /\ Cardinality(1 .. Len(b)) = Len(b)
    BY <2>1, OneTo
  <2> QED
    BY <2>1, <2>2
<1>2. scan = {x \in D : found(x) < ScanLimit} /\ ScanLimit \in Nat
  BY LimitAssumption DEF Pages!Scanned
<1>3. IsFiniteSet(scan) /\ Cardinality(scan) \in Nat /\ Cardinality(scan) <= Len(b)
  <2>1. scan \subseteq D
    BY <1>2
  <2> QED
    BY <1>1, <2>1, FS_Subset, FS_CardinalityType
<1>4. StrictOrder(D, sort) /\ \A x \in D : found(x) = RankIn(D, sort, x)
  BY FoundRank
<1>5. /\ \A x \in D : found(x) \in Nat /\ found(x) < Len(b)
      /\ \A x, y \in D : <<x, y>> \in sort <=> found(x) < found(y)
  <2> HIDE DEF sort, found
  <2> QED
    BY <1>1, <1>4, RankLess
<1>6. ASSUME NEW x \in D \ scan, NEW y \in scan
      PROVE  Len(b) > ScanLimit /\ Pages!Group(b[y]) <= Pages!Group(b[x])
  <2>1. x \in D /\ y \in D /\ found(y) < ScanLimit /\ ScanLimit <= found(x) /\ found(x) < Len(b)
    BY <1>1, <1>2, <1>5
  <2>2. <<y, x>> \in sort
    BY <1>2, <1>5, <2>1
  <2>3. Pages!Lower(key[y], key[x])
    BY <2>2 DEF ByKey
  <2>4. \A z \in D : key[z][1] = Pages!Group(b[z]) /\ Pages!Group(b[z]) \in Int
    BY DEF SortKey, Pages!Group
  <2>5. DOMAIN key[y] \subseteq Nat \ {0}
    BY <2>1 DEF SortKey
  <2> HIDE DEF key
  <2>6. PICK n \in DOMAIN key[y] : key[y][n] < key[x][n]
                                   /\ \A k \in 1 .. n - 1 : key[y][k] = key[x][k]
    BY <2>3 DEF Pages!Lower
  <2>7. n = 1 \/ 1 \in 1 .. n - 1
    BY <2>5, <2>6
  <2>8. key[y][1] < key[x][1] \/ key[y][1] = key[x][1]
    BY <2>6, <2>7
  <2>9. Len(b) > ScanLimit
    <3>1. found(x) \in Nat
      BY <1>5, <2>1
    <3> HIDE DEF found
    <3> QED
      BY <1>1, <1>2, <2>1, <3>1
  <2>10. Pages!Group(b[y]) < Pages!Group(b[x]) \/ Pages!Group(b[y]) = Pages!Group(b[x])
    BY <2>1, <2>4, <2>8
  <2> QED
    BY <2>9, <2>10 DEF Pages!Group
<1> QED
  BY <1>2, <1>3, <1>6

\* The places on the market are ranks.
LEMMA OrderedRank ==
    ASSUME NEW b \in Boards, NEW byPrice \in BOOLEAN, NEW type \in {"buy", "sell"}
    PROVE  LET scan == Pages!Scanned(b, byPrice, type)
           IN  \E R : /\ StrictOrder(scan, R)
                      /\ Pages!Ordered(b, byPrice, type) = [x \in scan |-> RankIn(scan, R, x)]
<1> DEFINE D == DOMAIN b
           scan == Pages!Scanned(b, byPrice, type)
           sort == ByKey(D, SortKey(b, byPrice, type))
           found(x) == Pages!Found(b, byPrice, type, x)
           rank == RankKey(b, byPrice, type)
<1>1. D = 1 .. Len(b) /\ IsFiniteSet(D)
  BY FS_Interval DEF Boards
<1>2. scan = {x \in D : found(x) < ScanLimit} /\ ScanLimit \in Nat
  BY LimitAssumption DEF Pages!Scanned
<1>3. StrictOrder(D, sort) /\ \A x \in D : found(x) = RankIn(D, sort, x)
  BY FoundRank
<1>4. /\ \A x \in D : found(x) \in Nat
      /\ \A x, y \in D : <<x, y>> \in sort <=> found(x) < found(y)
      /\ \A x, y \in D : found(x) = found(y) => x = y
  <2> HIDE DEF sort, found
  <2> QED
    BY <1>1, <1>3, RankLess
<1>5. CASE byPrice = TRUE
  <2>1. Pages!Ordered(b, byPrice, type) = [x \in scan |-> found(x)]
    BY <1>5 DEF Pages!Ordered
  <2> HIDE DEF sort, found
  <2>2. StrictOrder(scan, sort)
    BY <1>2, <1>3 DEF StrictOrder
  <2>3. \A x \in scan : {y \in D : <<y, x>> \in sort} = {y \in scan : <<y, x>> \in sort}
    <3>1. \A x \in scan, y \in D : <<y, x>> \in sort => y \in scan
      BY <1>2, <1>4
    <3> QED
      BY <1>2, <3>1
  <2>4. \A x \in scan : found(x) = RankIn(scan, sort, x)
    BY <1>2, <1>3, <2>3 DEF RankIn
  <2>5. Pages!Ordered(b, byPrice, type) = [x \in scan |-> RankIn(scan, sort, x)]
    BY <2>1, <2>4
  <2> QED
    BY <2>2, <2>5
<1>6. CASE byPrice = FALSE
  <2> DEFINE R == ByKey(scan, rank)
  <2>1. \A x \in scan : rank[x] = <<Pages!Group(b[x]), b[x].presence, found(x)>>
    BY <1>2 DEF RankKey
  <2>2. Pages!Ordered(b, byPrice, type)
           = [x \in scan |-> Cardinality({y \in scan : Pages!Lower(rank[y], rank[x])})]
    <3>1. Pages!Ordered(b, byPrice, type)
             = [x \in scan |-> Cardinality({y \in scan :
                  Pages!Lower(<<Pages!Group(b[y]), b[y].presence, found(y)>>,
                              <<Pages!Group(b[x]), b[x].presence, found(x)>>)})]
      BY <1>6, PagesCount DEF Pages!Ordered, Pages!Before
    <3> HIDE DEF rank, found, scan
    <3>2. \A x \in scan :
             {y \in scan : Pages!Lower(<<Pages!Group(b[y]), b[y].presence, found(y)>>,
                                       <<Pages!Group(b[x]), b[x].presence, found(x)>>)}
                = {y \in scan : Pages!Lower(rank[y], rank[x])}
      BY <2>1
    <3> QED
      BY <3>1, <3>2
  <2>3. \A x \in scan : {y \in scan : Pages!Lower(rank[y], rank[x])} = {y \in scan : <<y, x>> \in R}
    BY DEF ByKey
  <2>4. Pages!Ordered(b, byPrice, type) = [x \in scan |-> RankIn(scan, R, x)]
    <3> HIDE DEF R, rank, scan
    <3> QED
      BY <2>2, <2>3 DEF RankIn
  <2> HIDE DEF rank
  <2>5. \A x \in scan : rank[x] \in Seq(Int) /\ Len(rank[x]) = 3 /\ rank[x][3] = found(x)
    <3> SUFFICES ASSUME NEW x \in scan
                 PROVE  rank[x] \in Seq(Int) /\ Len(rank[x]) = 3 /\ rank[x][3] = found(x)
      OBVIOUS
    <3>1. x \in D /\ b[x] \in Pages!ListingShape
      BY <1>2 DEF Boards
    <3>2. Pages!Group(b[x]) \in Int /\ b[x].presence \in Int /\ found(x) \in Int
      BY <1>4, <3>1 DEF Pages!ListingShape, Pages!Group
    <3>3. PICK g \in Int, presence \in Int, place \in Int :
             rank[x] = <<g, presence, place>> /\ place = found(x)
      BY <2>1, <3>2
    <3> QED
      BY <3>3, Tuples
  <2>6. \A x, y \in scan : rank[x] = rank[y] => x = y
    BY <1>2, <1>4, <2>5
  <2>7. StrictOrder(scan, R)
    <3> HIDE DEF scan
    <3> QED
      BY <2>5, <2>6, KeysOrder
  <2> QED
    BY <2>4, <2>7
<1> QED
  BY <1>5, <1>6

\* A request leaves everything where it is.
LEMMA RequestMovesNothing ==
    ASSUME NEW b \in Boards, NEW byPrice \in BOOLEAN, NEW type \in {"buy", "sell"},
           NEW x \in DOMAIN b, b[x].status = "open"
    PROVE  Pages!Ordered([b EXCEPT ![x].status = "requested"], byPrice, type)
              = Pages!Ordered(b, byPrice, type)
<1> DEFINE c == [b EXCEPT ![x].status = "requested"]
           D == DOMAIN b
           found(d, y) == Pages!Found(d, byPrice, type, y)
<1>1. \A y \in D : b[y] \in Pages!ListingShape
  BY DEF Boards
<1>2. /\ c \in Boards /\ DOMAIN c = D
      /\ \A y \in D : /\ c[y].price = b[y].price /\ c[y].presence = b[y].presence
                      /\ Pages!Group(c[y]) = Pages!Group(b[y])
  <2>1. [b[x] EXCEPT !.status = "requested"] \in Pages!ListingShape
    BY <1>1 DEF Pages!ListingShape
  <2>2. c = [b EXCEPT ![x] = [b[x] EXCEPT !.status = "requested"]]
    OBVIOUS
  <2>3. c \in Boards /\ DOMAIN c = D
    BY <2>1, <2>2 DEF Boards
  <2>4. \A y \in D : IF y = x THEN c[y] = [b[x] EXCEPT !.status = "requested"] ELSE c[y] = b[y]
    BY <2>2
  <2>5. \A y \in D : c[y].price = b[y].price /\ c[y].presence = b[y].presence
                     /\ Pages!Group(c[y]) = Pages!Group(b[y])
    BY <1>1, <2>4 DEF Pages!ListingShape, Pages!Group
  <2> QED
    BY <2>3, <2>5
<1> HIDE DEF c
<1>3. SortKey(c, byPrice, type) = SortKey(b, byPrice, type)
  BY <1>2 DEF SortKey
<1>4. \A y \in D : found(c, y) = found(b, y)
  BY <1>2, <1>3, FoundRank
<1>5. Pages!Scanned(c, byPrice, type) = Pages!Scanned(b, byPrice, type)
  BY <1>2, <1>4 DEF Pages!Scanned
<1> DEFINE scan == Pages!Scanned(b, byPrice, type)
<1>6. scan \subseteq D
  BY DEF Pages!Scanned
<1> HIDE DEF scan
<1>7. \A y \in scan : <<Pages!Group(c[y]), c[y].presence, found(c, y)>>
                         = <<Pages!Group(b[y]), b[y].presence, found(b, y)>>
  BY <1>2, <1>4, <1>6
<1>8. /\ Pages!Ordered(c, byPrice, type)
            = [y \in scan |-> IF byPrice THEN found(c, y)
                 ELSE Cardinality({z \in scan :
                         Pages!Lower(<<Pages!Group(c[z]), c[z].presence, found(c, z)>>,
                                     <<Pages!Group(c[y]), c[y].presence, found(c, y)>>)})]
      /\ Pages!Ordered(b, byPrice, type)
            = [y \in scan |-> IF byPrice THEN found(b, y)
                 ELSE Cardinality({z \in scan :
                         Pages!Lower(<<Pages!Group(b[z]), b[z].presence, found(b, z)>>,
                                     <<Pages!Group(b[y]), b[y].presence, found(b, y)>>)})]
  BY <1>5, PagesCount DEF scan, Pages!Ordered, Pages!Before
<1> HIDE DEF found
<1>9. \A y \in scan :
         {z \in scan : Pages!Lower(<<Pages!Group(c[z]), c[z].presence, found(c, z)>>,
                                   <<Pages!Group(c[y]), c[y].presence, found(c, y)>>)}
            = {z \in scan : Pages!Lower(<<Pages!Group(b[z]), b[z].presence, found(b, z)>>,
                                        <<Pages!Group(b[y]), b[y].presence, found(b, y)>>)}
  BY <1>7
<1>10. \A y \in scan : found(c, y) = found(b, y)
  BY <1>4, <1>6
<1>11. Pages!Ordered(c, byPrice, type) = Pages!Ordered(b, byPrice, type)
  BY <1>8, <1>9, <1>10
<1> QED
  BY <1>11 DEF c

LEMMA BoardPages ==
    ASSUME NEW b \in Boards, NEW byPrice \in BOOLEAN, NEW type \in {"buy", "sell"},
           NEW size \in 1 .. Len(b)
    PROVE  LET order == Pages!Ordered(b, byPrice, type)
               Shown(n) == Pages!Page(b, byPrice, type, size, n)
           IN  /\ \A x \in DOMAIN order : \E n \in 1 .. Pages!TotalPages(b, size) :
                     \A k \in 1 .. Pages!TotalPages(b, size) : x \in Shown(k) <=> k = n
               /\ \A n \in 1 .. Pages!TotalPages(b, size) :
                     /\ Cardinality(Shown(n)) <= size
                     /\ n * size <= Cardinality(DOMAIN order) => Cardinality(Shown(n)) = size
<1> DEFINE order == Pages!Ordered(b, byPrice, type)
           scan == Pages!Scanned(b, byPrice, type)
           Shown(n) == Pages!Page(b, byPrice, type, size, n)
           total == Pages!TotalPages(b, size)
<1>1. /\ IsFiniteSet(scan) /\ Cardinality(scan) \in Nat /\ Cardinality(scan) <= Len(b)
  BY ScanHolds
<1>2. Len(b) \in Nat /\ size \in Nat \ {0} /\ size \in Int
  BY DEF Boards
<1>3. PICK R : StrictOrder(scan, R) /\ order = [x \in scan |-> RankIn(scan, R, x)]
  BY OrderedRank
<1>4. total \in Nat /\ Len(b) <= total * size
  <2>1. total = (Len(b) + size - 1) \div size
    BY <1>2 DEF Pages!TotalPages
  <2>2. Len(b) + size - 1 \in Nat
    BY <1>2
  <2>3. /\ total \in Nat
        /\ Len(b) + size - 1 < (total + 1) * size
    BY <1>2, <2>1, <2>2, DivCut
  <2>4. (total + 1) * size = total * size + size /\ total * size \in Int
    BY <1>2, <2>3, TimesOrder
  <2> QED
    BY <1>2, <2>3, <2>4
<1>5. \A n : Shown(n) = {x \in DOMAIN order : (n - 1) * size <= order[x] /\ order[x] < n * size}
  BY DEF Pages!Page
<1> HIDE DEF order, scan, total, Shown
<1>6. \A n : Shown(n) = {x \in scan : (n - 1) * size <= RankIn(scan, R, x)
                                      /\ RankIn(scan, R, x) < n * size}
  BY <1>3, <1>5
<1>7. DOMAIN order = scan
  BY <1>3
<1>8. ASSUME NEW x \in scan
      PROVE  \E n \in 1 .. total : \A k \in 1 .. total : x \in Shown(k) <=> k = n
  <2> DEFINE r == RankIn(scan, R, x)
  <2>1. r \in Nat /\ r < Cardinality(scan)
    BY <1>1, <1>3, RankLess
  <2> HIDE DEF r
  <2>2. total * size \in Int
    BY <1>2, <1>4, TimesOrder
  <2>3. r < total * size
    BY <1>1, <1>2, <1>4, <2>1, <2>2
  <2>4. \E n \in 1 .. total : \A k \in 1 .. total :
           ((k - 1) * size <= r /\ r < k * size) <=> k = n
    BY <1>2, <1>4, <2>1, <2>3, PageOfPlace
  <2>5. \A k : x \in Shown(k) <=> ((k - 1) * size <= r /\ r < k * size)
    BY <1>6 DEF r
  <2> QED
    BY <2>4, <2>5
<1>9. ASSUME NEW n \in 1 .. total
      PROVE  /\ Cardinality(Shown(n)) <= size
             /\ n * size <= Cardinality(scan) => Cardinality(Shown(n)) = size
  <2>1. n \in Nat \ {0}
    BY <1>4
  <2> QED
    BY <1>1, <1>2, <1>3, <1>6, <2>1, PagesCut
<1>10. /\ \A x \in DOMAIN order : \E n \in 1 .. total :
             \A k \in 1 .. total : x \in Shown(k) <=> k = n
       /\ \A n \in 1 .. total :
             /\ Cardinality(Shown(n)) <= size
             /\ n * size <= Cardinality(DOMAIN order) => Cardinality(Shown(n)) = size
  BY <1>7, <1>8, <1>9
<1> QED
  BY <1>10 DEF order, total, Shown

LEMMA BoardHolds ==
    ASSUME board \in Boards
    PROVE  Pages!PagesHold
<1> SUFFICES ASSUME NEW byPrice \in BOOLEAN, NEW type \in {"buy", "sell"}
             PROVE
        LET order == Pages!Ordered(board, byPrice, type)
        IN  /\ \A x \in DOMAIN board : board[x].status = "open" =>
                  Pages!Ordered([board EXCEPT ![x].status = "requested"], byPrice, type) = order
            /\ \A x \in DOMAIN board \ DOMAIN order, y \in DOMAIN order :
                  Len(board) > ScanLimit
                  /\ (board[x].status \in {"open", "requested"}
                        => board[y].status \in {"open", "requested"})
            /\ \A size \in 1 .. Len(board) :
                  LET Shown(n) == Pages!Page(board, byPrice, type, size, n)
                  IN  /\ \A x \in DOMAIN order : \E n \in 1 .. Pages!TotalPages(board, size) :
                            \A k \in 1 .. Pages!TotalPages(board, size) : x \in Shown(k) <=> k = n
                      /\ \A n \in 1 .. Pages!TotalPages(board, size) :
                            /\ Cardinality(Shown(n)) <= size
                            /\ n * size <= Cardinality(DOMAIN order)
                                 => Cardinality(Shown(n)) = size
  BY PagesCount DEF Pages!PagesHold
<1> DEFINE order == Pages!Ordered(board, byPrice, type)
           scan == Pages!Scanned(board, byPrice, type)
<1>1. \A x \in DOMAIN board : board[x].status = "open" =>
         Pages!Ordered([board EXCEPT ![x].status = "requested"], byPrice, type) = order
  BY RequestMovesNothing
<1>2. DOMAIN order = scan
  BY DEF Pages!Ordered
<1>3. ASSUME NEW x \in DOMAIN board \ scan, NEW y \in scan
      PROVE  Len(board) > ScanLimit
             /\ (board[x].status \in {"open", "requested"}
                   => board[y].status \in {"open", "requested"})
  <2>1. /\ Len(board) > ScanLimit /\ y \in DOMAIN board
        /\ Pages!Group(board[y]) <= Pages!Group(board[x])
    BY ScanHolds
  <2>2. board[x] \in Pages!ListingShape /\ board[y] \in Pages!ListingShape
    BY <2>1 DEF Boards
  <2>3. \A l \in Pages!ListingShape :
           Pages!Group(l) = IF l.status \in {"open", "requested"} THEN 0 ELSE 1
    BY DEF Pages!ListingShape, Pages!Group
  <2>4. board[x].status \in {"open", "requested"} => board[y].status \in {"open", "requested"}
    BY <2>1, <2>2, <2>3
  <2> QED
    BY <2>1, <2>4
<1>4. \A x \in DOMAIN board \ DOMAIN order, y \in DOMAIN order :
         Len(board) > ScanLimit
         /\ (board[x].status \in {"open", "requested"}
               => board[y].status \in {"open", "requested"})
  <2> HIDE DEF order, scan
  <2> QED
    BY <1>2, <1>3
<1> HIDE DEF order
<1>5. ASSUME NEW size \in 1 .. Len(board)
      PROVE  /\ \A x \in DOMAIN order : \E n \in 1 .. Pages!TotalPages(board, size) :
                   \A k \in 1 .. Pages!TotalPages(board, size) :
                      x \in Pages!Page(board, byPrice, type, size, k) <=> k = n
             /\ \A n \in 1 .. Pages!TotalPages(board, size) :
                   /\ Cardinality(Pages!Page(board, byPrice, type, size, n)) <= size
                   /\ n * size <= Cardinality(DOMAIN order)
                        => Cardinality(Pages!Page(board, byPrice, type, size, n)) = size
  BY BoardPages DEF order
<1>6. QED
  BY <1>1, <1>4, <1>5 DEF order

\* The market shows every listing on one page, in an order that no request changes, and no
\* limit of the scan loses what is still to be had for what is not: for any listings, limits
\* and sizes of pages (findListings).
THEOREM LivePagesHold == LiveSpec => []PagesHold
<1> DEFINE Inv == board \in Seq(Listing)
<1>1. LiveInit => Inv
  BY DEF LiveInit, Pages!Init
<1>2. Inv /\ [LiveNext]_liveVars => Inv'
  <2>1. [LiveNext]_liveVars => Pages!Next \/ board' = board
    BY StepsApart
  <2>2. ASSUME Inv, NEW l \in Listing, Pages!Post(l) PROVE Inv'
    BY <2>2 DEF Pages!Post
  <2> QED
    BY <2>1, <2>2 DEF Pages!Next
<1>3. Inv => PagesHold
  <2> SUFFICES ASSUME Inv PROVE PagesHold
    OBVIOUS
  <2>1. board \in Boards
    BY ShapeAssumption DEF Boards
  <2> QED
    BY <2>1, BoardHolds DEF PagesHold
<1> QED
  BY <1>1, <1>2, <1>3, PTL DEF LiveSpec

-----------------------------------------------------------------------------
\* The pages of the in-game market

SeenOK ==
    /\ quotes \in Seq([quote : Search!QuoteShape, at : Nat])
    /\ Len(quotes) <= MaxQuotes
    /\ today \in Nat /\ \A n \in DOMAIN quotes : quotes[n].at <= today
PriceOf(n) == quotes[n].quote.price

LEMMA SearchCut ==
    /\ \A S : Search!Cardinality(S) = Cardinality(S)
    /\ \A S, n : Search!Latest(S, n) = LatestOf(S, n)
<1>1. \A S : Search!Cardinality(S) = Cardinality(S)
  BY DEF Search!Cardinality, Cardinality
<1> QED
  BY <1>1 DEF Search!Latest, LatestOf

LEMMA SeenPlaces ==
    ASSUME SeenOK
    PROVE  /\ IsFiniteSet(DOMAIN quotes) /\ DOMAIN quotes \subseteq Int
           /\ Cardinality(DOMAIN quotes) = Len(quotes) /\ Len(quotes) \in Nat
           /\ \A n \in DOMAIN quotes : PriceOf(n) \in Nat
<1>1. DOMAIN quotes = 1 .. Len(quotes) /\ Len(quotes) \in Nat
  BY DEF SeenOK
<1>2. IsFiniteSet(1 .. Len(quotes)) /\ Cardinality(1 .. Len(quotes)) = Len(quotes)
  BY <1>1, OneTo
<1>3. \A n \in DOMAIN quotes : quotes[n] \in [quote : Search!QuoteShape, at : Nat]
  <2> DEFINE Q == [quote : Search!QuoteShape, at : Nat]
  <2>1. quotes \in Seq(Q)
    BY DEF SeenOK
  <2> HIDE DEF Q
  <2>2. \A n \in DOMAIN quotes : quotes[n] \in Q
    BY <2>1
  <2> QED
    BY <2>2 DEF Q
<1>4. \A n \in DOMAIN quotes : PriceOf(n) \in Nat
  BY <1>3 DEF PriceOf, Search!QuoteShape
<1> QED
  BY <1>1, <1>2, <1>4

CheaperIn(S) == {p \in S \X S : Search!Cheaper(p[1], p[2])}

\* The n-th price from the lowest on is one of them, and does not fall with n.
LEMMA PricesSorted ==
    ASSUME SeenOK, NEW S \in SUBSET DOMAIN quotes
    PROVE  /\ IsFiniteSet(S) /\ Cardinality(S) \in Nat
           /\ \A n \in 1 .. Cardinality(S) :
                 /\ Search!Sorted(S, n) \in S /\ Search!PriceAt(S, n) = PriceOf(Search!Sorted(S, n))
                 /\ Search!PriceAt(S, n) \in Nat
           /\ \A m, n \in 1 .. Cardinality(S) :
                 m <= n => Search!PriceAt(S, m) <= Search!PriceAt(S, n)
           /\ \A x \in S : Search!PriceAt(S, 1) <= PriceOf(x)
                           /\ PriceOf(x) <= Search!PriceAt(S, Cardinality(S))
<1> DEFINE R == CheaperIn(S)
           c == Cardinality(S)
           at(n) == Search!Sorted(S, n)
<1>1. IsFiniteSet(S) /\ c \in Nat /\ S \subseteq Int /\ \A n \in S : PriceOf(n) \in Nat
  BY SeenPlaces, FS_Subset, FS_CardinalityType
<1>2. \A x, y \in S : <<x, y>> \in R
                         <=> PriceOf(x) < PriceOf(y) \/ (PriceOf(x) = PriceOf(y) /\ x < y)
  BY DEF CheaperIn, Search!Cheaper, PriceOf
<1>3. StrictOrder(S, R)
  <2> HIDE DEF R
  <2>1. \A x \in S : x \in Int /\ PriceOf(x) \in Int
    BY <1>1
  <2> QED
    BY <1>2, <2>1 DEF StrictOrder
<1>4. ASSUME NEW n \in 1 .. c
      PROVE  at(n) \in S /\ RankIn(S, R, at(n)) = n - 1
  <2>1. n - 1 \in Nat /\ n - 1 < c
    BY <1>1
  <2>2. PICK x \in S : RankIn(S, R, x) = n - 1
    <3> HIDE DEF R, c
    <3> QED
      BY <1>1, <1>3, <2>1, RankTaken DEF c
  <2>3. \A y \in S : RankIn(S, R, y) = Cardinality({z \in S : Search!Cheaper(z, y)})
    <3>1. \A y \in S : {z \in S : <<z, y>> \in R} = {z \in S : Search!Cheaper(z, y)}
      BY DEF CheaperIn
    <3> QED
      BY <3>1 DEF RankIn
  <2>4. at(n) = CHOOSE y \in S : Cardinality({z \in S : Search!Cheaper(z, y)}) = n - 1
    BY SearchCut DEF Search!Sorted
  <2> QED
    BY <2>2, <2>3, <2>4
<1>5. \A n \in 1 .. c : Search!PriceAt(S, n) = PriceOf(at(n))
  BY DEF Search!PriceAt, PriceOf
<1>6. /\ \A x \in S : RankIn(S, R, x) \in Nat /\ RankIn(S, R, x) < c
      /\ \A x, y \in S : <<x, y>> \in R <=> RankIn(S, R, x) < RankIn(S, R, y)
      /\ \A x, y \in S : RankIn(S, R, x) = RankIn(S, R, y) => x = y
  <2> HIDE DEF R
  <2> QED
    BY <1>1, <1>3, RankLess
<1> HIDE DEF R, c, at
<1>a. \A x \in S : RankIn(S, R, x) \in Nat /\ RankIn(S, R, x) <= c - 1 /\ 0 <= RankIn(S, R, x)
                   /\ 1 \in 1 .. c /\ c \in 1 .. c
  BY <1>1, <1>6
<1>7. \A x, y \in S : RankIn(S, R, x) <= RankIn(S, R, y) => PriceOf(x) <= PriceOf(y)
  <2> SUFFICES ASSUME NEW x \in S, NEW y \in S, RankIn(S, R, x) <= RankIn(S, R, y)
               PROVE  PriceOf(x) <= PriceOf(y)
    OBVIOUS
  <2>1. CASE RankIn(S, R, x) = RankIn(S, R, y)
    <3>1. x = y
      BY <1>6, <2>1
    <3> QED
      BY <1>1, <3>1
  <2>2. CASE RankIn(S, R, x) < RankIn(S, R, y)
    <3>1. <<x, y>> \in R
      BY <1>6, <2>2
    <3>2. PriceOf(x) < PriceOf(y) \/ PriceOf(x) = PriceOf(y)
      BY <1>2, <3>1
    <3> QED
      BY <1>1, <3>2
  <2>3. RankIn(S, R, x) \in Int /\ RankIn(S, R, y) \in Int
    BY <1>a
  <2> QED
    BY <2>1, <2>2, <2>3
<1>8. \A m, n \in 1 .. c : m <= n => Search!PriceAt(S, m) <= Search!PriceAt(S, n)
  <2>1. \A m, n \in 1 .. c : m <= n => m - 1 <= n - 1
    BY <1>1
  <2> QED
    BY <1>4, <1>5, <1>7, <2>1
<1>9. \A x \in S : Search!PriceAt(S, 1) <= PriceOf(x) /\ PriceOf(x) <= Search!PriceAt(S, c)
  <2> SUFFICES ASSUME NEW x \in S
               PROVE  Search!PriceAt(S, 1) <= PriceOf(x) /\ PriceOf(x) <= Search!PriceAt(S, c)
    OBVIOUS
  <2>1. 1 \in 1 .. c /\ c \in 1 .. c
    BY <1>a
  <2>2. RankIn(S, R, at(1)) = 0 /\ RankIn(S, R, at(c)) = c - 1 /\ at(1) \in S /\ at(c) \in S
    BY <1>4, <2>1
  <2>3. 0 <= RankIn(S, R, x) /\ RankIn(S, R, x) <= c - 1
    BY <1>a
  <2> QED
    BY <1>5, <1>7, <2>1, <2>2, <2>3
<1>10. \A n \in 1 .. c : at(n) \in S /\ Search!PriceAt(S, n) = PriceOf(at(n))
                         /\ Search!PriceAt(S, n) \in Nat
  BY <1>1, <1>4, <1>5
<1> QED
  BY <1>1, <1>8, <1>9, <1>10 DEF c, at

\* The range of some prices contains their median.
LEMMA MedianWithin ==
    ASSUME SeenOK, NEW S \in SUBSET DOMAIN quotes, S # {}
    PROVE  /\ Search!PriceAt(S, 1) <= Search!Median(S)
           /\ Search!Median(S) <= Search!PriceAt(S, Cardinality(S))
           /\ Search!Median(S) \in Nat
           /\ Search!Stats(S).low <= Search!Stats(S).median
           /\ Search!Stats(S).median <= Search!Stats(S).high
<1> DEFINE c == Cardinality(S)
           price(n) == Search!PriceAt(S, n)
           half == c \div 2
           odd == c % 2 = 1
<1>1. IsFiniteSet(S) /\ c \in Nat \ {0}
  <2>1. IsFiniteSet(S) /\ c \in Nat
    BY PricesSorted
  <2> QED
    BY <2>1, FS_EmptySet
<1>2. /\ \A n \in 1 .. c : price(n) \in Nat
      /\ \A m, n \in 1 .. c : m <= n => price(m) <= price(n)
  BY PricesSorted
<1>3. /\ Search!Median(S) = IF odd THEN price(half + 1)
                            ELSE (price(half) + price(half + 1) + 1) \div 2
      /\ \A t : Search!Percentile(S, t) = price(((c - 1) * t + 5) \div 10 + 1)
  BY SearchCut DEF Search!Median, Search!Percentile
<1>4. /\ Search!Stats(S).median = Search!Median(S)
      /\ Search!Stats(S).low = IF c >= 5 THEN Search!Percentile(S, 1) ELSE price(1)
      /\ Search!Stats(S).high = IF c >= 5 THEN Search!Percentile(S, 9) ELSE price(c)
  BY SearchCut DEF Search!Stats
<1> HIDE DEF price
<1>5. /\ odd => half + 1 \in 1 .. c
      /\ ~ odd => half \in 1 .. c /\ half + 1 \in 1 .. c
  BY <1>1
<1> DEFINE lower == IF odd THEN half + 1 ELSE half
<1>6. /\ lower \in 1 .. c /\ half + 1 \in 1 .. c /\ lower <= half + 1
      /\ Search!Median(S) \in Nat
      /\ price(lower) <= Search!Median(S) /\ Search!Median(S) <= price(half + 1)
  <2>1. CASE odd
    <3>1. lower = half + 1 /\ half + 1 \in 1 .. c
      BY <1>5, <2>1
    <3>2. Search!Median(S) = price(half + 1) /\ price(half + 1) \in Nat
      BY <1>2, <1>3, <2>1, <3>1
    <3> QED
      BY <3>1, <3>2
  <2>2. CASE ~ odd
    <3>1. lower = half /\ half \in 1 .. c /\ half + 1 \in 1 .. c /\ half <= half + 1
      BY <1>1, <1>5, <2>2
    <3>2. /\ Search!Median(S) = (price(half) + price(half + 1) + 1) \div 2
          /\ price(half) \in Nat /\ price(half + 1) \in Nat /\ price(half) <= price(half + 1)
      BY <1>2, <1>3, <2>2, <3>1
    <3>3. \A a, b \in Nat : a <= b => /\ (a + b + 1) \div 2 \in Nat
                                      /\ a <= (a + b + 1) \div 2 /\ (a + b + 1) \div 2 <= b
      OBVIOUS
    <3> QED
      BY <3>1, <3>2, <3>3
  <2> QED
    BY <2>1, <2>2
<1> DEFINE first == ((c - 1) * 1 + 5) \div 10 + 1
           last == ((c - 1) * 9 + 5) \div 10 + 1
<1>7. c >= 5 => /\ first \in 1 .. c /\ last \in 1 .. c
                /\ first <= lower /\ half + 1 <= last
  BY <1>1
<1>8. 1 \in 1 .. c /\ c \in 1 .. c
  BY <1>1
<1> HIDE DEF lower, first, last, half
<1>9. \A n \in 1 .. c : price(1) <= price(n) /\ price(n) <= price(c)
  <2>1. \A n \in 1 .. c : 1 <= n /\ n <= c
    BY <1>1
  <2> QED
    BY <1>2, <1>8, <2>1
<1>10. \A a, b, m \in Nat : a <= b /\ b <= m => a <= m
  OBVIOUS
<1>11. price(1) <= Search!Median(S) /\ Search!Median(S) <= price(c)
  BY <1>2, <1>6, <1>8, <1>9, <1>10
<1>12. Search!Stats(S).low <= Search!Median(S) /\ Search!Median(S) <= Search!Stats(S).high
  <2>1. CASE c >= 5
    <3>1. Search!Stats(S).low = price(first) /\ Search!Stats(S).high = price(last)
      BY <1>3, <1>4, <2>1 DEF first, last
    <3>2. price(first) <= price(lower) /\ price(half + 1) <= price(last)
      BY <1>2, <1>6, <1>7, <2>1
    <3> QED
      BY <1>2, <1>6, <1>7, <1>10, <2>1, <3>1, <3>2
  <2>2. CASE ~ (c >= 5)
    BY <1>4, <1>11, <2>2
  <2> QED
    BY <2>1, <2>2
<1> QED
  BY <1>4, <1>6, <1>11, <1>12 DEF price

\* And so lie the medians of fewer.
LEMMA MedianOfFewer ==
    ASSUME SeenOK, NEW S \in SUBSET DOMAIN quotes, NEW T \in SUBSET S, T # {}
    PROVE  /\ Search!PriceAt(S, 1) <= Search!Median(T)
           /\ Search!Median(T) <= Search!PriceAt(S, Cardinality(S))
<1>1. T \in SUBSET DOMAIN quotes
  OBVIOUS
<1>2. IsFiniteSet(T) /\ Cardinality(T) \in Nat \ {0} /\ Cardinality(S) \in Nat \ {0}
  BY <1>1, PricesSorted, FS_EmptySet
<1>3. 1 \in 1 .. Cardinality(T) /\ Cardinality(T) \in 1 .. Cardinality(T)
      /\ 1 \in 1 .. Cardinality(S) /\ Cardinality(S) \in 1 .. Cardinality(S)
  BY <1>2
<1>4. PICK x \in T, y \in T : Search!PriceAt(T, 1) = PriceOf(x)
                              /\ Search!PriceAt(T, Cardinality(T)) = PriceOf(y)
  BY <1>1, <1>3, PricesSorted
<1>5. Search!PriceAt(S, 1) <= PriceOf(x) /\ PriceOf(y) <= Search!PriceAt(S, Cardinality(S))
  BY PricesSorted
<1>6. PriceOf(x) <= Search!Median(T) /\ Search!Median(T) <= PriceOf(y)
  BY <1>1, <1>4, MedianWithin
<1>7. /\ Search!PriceAt(S, 1) \in Nat /\ Search!PriceAt(S, Cardinality(S)) \in Nat
      /\ PriceOf(x) \in Nat /\ PriceOf(y) \in Nat /\ Search!Median(T) \in Nat
  BY <1>1, <1>3, PricesSorted, SeenPlaces, MedianWithin
<1> QED
  BY <1>5, <1>6, <1>7

\* Sums over sets: some function that fits the recursive definition
SumOf(I, f, W) ==
    W = [s \in SUBSET I |->
            IF s = {} THEN 0
            ELSE LET x == CHOOSE e \in s : TRUE IN Search!Both(f[x]) + W[s \ {x}]]

Sum(I, f) == (CHOOSE W : SumOf(I, f, W))[I]

LEMMA SumUnique ==
    ASSUME NEW I, IsFiniteSet(I), NEW f, NEW V, NEW W, SumOf(I, f, V), SumOf(I, f, W)
    PROVE  \A s \in SUBSET I : V[s] = W[s]
<1> DEFINE Odd == {s \in SUBSET I : V[s] # W[s]}
<1>1. SUFFICES ASSUME Odd # {} PROVE FALSE
  OBVIOUS
<1>2. Odd \subseteq FiniteSubsetsOf(I)
  BY FS_Subset DEF FiniteSubsetsOf
<1>3. PICK s \in Odd : \A t \in Odd : <<t, s>> \notin StrictSubsetOrdering(I)
  <2> HIDE DEF Odd
  <2> QED
    BY <1>1, <1>2, FS_StrictSubsetOrderingWellFounded, WFMin
<1>4. \A s1 \in SUBSET I :
         /\ V[s1] = IF s1 = {} THEN 0
                    ELSE Search!Both(f[CHOOSE e \in s1 : TRUE]) + V[s1 \ {CHOOSE e \in s1 : TRUE}]
         /\ W[s1] = IF s1 = {} THEN 0
                    ELSE Search!Both(f[CHOOSE e \in s1 : TRUE]) + W[s1 \ {CHOOSE e \in s1 : TRUE}]
  BY DEF SumOf
<1>5. s # {}
  BY <1>4
<1> DEFINE x == CHOOSE e \in s : TRUE
           t == s \ {x}
<1>6. x \in s
  BY <1>5
<1> HIDE DEF x
<1>7. t \in SUBSET I /\ t \subseteq s /\ t # s
  BY <1>6
<1>8. t \notin Odd
  BY <1>2, <1>3, <1>7, FS_Subset DEF StrictSubsetOrdering, FiniteSubsetsOf
<1>9. V[t] = W[t]
  BY <1>7, <1>8
<1>10. V[s] = Search!Both(f[x]) + V[t] /\ W[s] = Search!Both(f[x]) + W[t]
  BY <1>4, <1>5 DEF x
<1> QED
  BY <1>9, <1>10

\* The parts of a set add up to it.
LEMMA SumParts ==
    ASSUME NEW I, IsFiniteSet(I), NEW H, IsFiniteSet(H), NEW st \in [H -> I], NEW f,
           \A i \in I : Search!Both(f[i]) = Cardinality({n \in H : st[n] = i})
    PROVE  Sum(I, f) = Cardinality(H)
<1> DEFINE in(s) == {n \in H : st[n] \in s}
           V == [s \in SUBSET I |-> Cardinality(in(s))]
           pick(s) == CHOOSE e \in s : TRUE
<1>1. \A s : IsFiniteSet(in(s)) /\ Cardinality(in(s)) \in Nat
  BY FS_Subset, FS_CardinalityType
<1>2. Cardinality(in({})) = 0
  BY FS_EmptySet
<1>3. ASSUME NEW s \in SUBSET I, s # {}
      PROVE  Cardinality(in(s)) = Search!Both(f[pick(s)]) + V[s \ {pick(s)}]
  <2>1. pick(s) \in s
    BY <1>3
  <2> HIDE DEF pick
  <2> DEFINE here == {n \in H : st[n] = pick(s)}
             rest == in(s \ {pick(s)})
  <2>2. in(s) = here \union rest /\ here \intersect rest = {}
    BY <2>1
  <2>3. IsFiniteSet(here) /\ IsFiniteSet(rest)
        /\ Cardinality(here) \in Nat /\ Cardinality(rest) \in Nat
    BY FS_Subset, FS_CardinalityType
  <2>4. V[s \ {pick(s)}] = Cardinality(rest)
    OBVIOUS
  <2>5. Search!Both(f[pick(s)]) = Cardinality(here)
    BY <2>1
  <2> HIDE DEF here, rest, V, in
  <2>6. Cardinality(in(s)) = Cardinality(here) + Cardinality(rest)
    <3>1. Cardinality(here \intersect rest) = 0
      BY <2>2, FS_EmptySet
    <3>2. Cardinality(here \union rest)
             = Cardinality(here) + Cardinality(rest) - Cardinality(here \intersect rest)
      BY <2>3, FS_Union
    <3> QED
      BY <2>2, <2>3, <3>1, <3>2
  <2> QED
    BY <2>4, <2>5, <2>6
<1>4. SumOf(I, f, V)
  <2>1. \A s \in SUBSET I :
           Cardinality(in(s)) = IF s = {} THEN 0
                                ELSE Search!Both(f[pick(s)]) + V[s \ {pick(s)}]
    <3> HIDE DEF in, V, pick
    <3> QED
      BY <1>2, <1>3
  <2> DEFINE U == [s \in SUBSET I |->
                      IF s = {} THEN 0 ELSE Search!Both(f[pick(s)]) + V[s \ {pick(s)}]]
  <2>2. V = U
    <3>1. V = [s \in SUBSET I |-> Cardinality(in(s))]
      OBVIOUS
    <3> HIDE DEF V, in, pick
    <3> QED
      BY <2>1, <3>1
  <2> HIDE DEF V
  <2> QED
    BY <2>2 DEF SumOf
<1> DEFINE C == CHOOSE W : SumOf(I, f, W)
<1>5. SumOf(I, f, C)
  <2> HIDE DEF V
  <2> QED
    BY <1>4
<1>6. I \in SUBSET I
  OBVIOUS
<1>7. C[I] = V[I]
  <2> HIDE DEF V, C
  <2> QED
    BY <1>4, <1>5, <1>6, SumUnique
<1>8. in(I) = H
  OBVIOUS
<1>9. V[I] = Cardinality(H)
  BY <1>6, <1>8
<1> QED
  BY <1>7, <1>9 DEF Sum

\* Who wants to sell and who wants to buy are all.
LEMMA BothSides ==
    ASSUME SeenOK, NEW T \in SUBSET DOMAIN quotes
    PROVE  /\ Search!Stats(Search!OfSide(T, "sell")).count
                 + Search!Stats(Search!OfSide(T, "buy")).count = Cardinality(T)
           /\ \A s : Search!OfSide(T, s) \subseteq T
           /\ \A s : Search!Stats(Search!OfSide(T, s)).count
                        = Cardinality(Search!OfSide(T, s))
<1> DEFINE sell == Search!OfSide(T, "sell")
           buy == Search!OfSide(T, "buy")
<1>1. \A n \in DOMAIN quotes : quotes[n].quote.side \in {"sell", "buy"}
  <2> DEFINE Q == [quote : Search!QuoteShape, at : Nat]
  <2>1. quotes \in Seq(Q)
    BY DEF SeenOK
  <2> HIDE DEF Q
  <2>2. \A n \in DOMAIN quotes : quotes[n] \in Q
    BY <2>1
  <2> QED
    BY <2>2 DEF Q, Search!QuoteShape
<1>2. \A S : Search!Stats(S).count = Cardinality(S)
  <2>1. \A S : Search!Stats(S).count = IF S = {} THEN 0 ELSE Cardinality(S)
    BY SearchCut DEF Search!Stats
  <2> QED
    BY <2>1, FS_EmptySet
<1>3. sell \union buy = T /\ sell \intersect buy = {} /\ \A s : Search!OfSide(T, s) \subseteq T
  BY <1>1 DEF Search!OfSide
<1>4. IsFiniteSet(T)
  BY SeenPlaces, FS_Subset
<1>5. IsFiniteSet(sell) /\ IsFiniteSet(buy)
      /\ Cardinality(sell) \in Nat /\ Cardinality(buy) \in Nat
  BY <1>3, <1>4, FS_Subset, FS_CardinalityType
<1>6. Cardinality(T) = Cardinality(sell) + Cardinality(buy)
  <2> HIDE DEF sell, buy
  <2>1. Cardinality(sell \intersect buy) = 0
    BY <1>3, FS_EmptySet
  <2>2. Cardinality(sell \union buy)
           = Cardinality(sell) + Cardinality(buy) - Cardinality(sell \intersect buy)
    BY <1>5, FS_Union
  <2>3. Cardinality(sell \union buy) = Cardinality(T)
    BY <1>3
  <2> QED
    BY <1>5, <2>1, <2>2, <2>3
<1> QED
  BY <1>2, <1>3, <1>6

\* A quote of the period falls in one of its stretches.
LEMMA InStretch ==
    ASSUME SeenOK, NEW stretches \in Nat \ {0},
           NEW n \in DOMAIN quotes, quotes[n].at >= Search!Since
    PROVE  Search!StretchOf(n, stretches) \in 0 .. stretches - 1
<1> DEFINE ago == quotes[n].at - Search!Since
           i == (ago * stretches) \div Period
<1>1. quotes[n].at \in Nat /\ today \in Nat /\ Period \in Nat \ {0}
  <2> DEFINE Q == [quote : Search!QuoteShape, at : Nat]
  <2>1. quotes \in Seq(Q) /\ today \in Nat
    BY DEF SeenOK
  <2> HIDE DEF Q
  <2>2. quotes[n] \in Q
    BY <2>1
  <2> QED
    BY <2>1, <2>2, LimitAssumption DEF Q
<1>2. ago \in Nat
  BY <1>1 DEF Search!Since
<1>3. ago * stretches \in Nat
  <2> HIDE DEF ago
  <2> QED
    BY <1>2
<1>4. i \in Nat
  <2> DEFINE product == ago * stretches
  <2>1. product \in Nat
    BY <1>3
  <2> HIDE DEF product
  <2>2. product \div Period \in Nat
    BY <1>1, <2>1
  <2> QED
    BY <2>2 DEF product
<1>5. Search!StretchOf(n, stretches) = IF i > stretches - 1 THEN stretches - 1 ELSE i
  BY DEF Search!StretchOf
<1> HIDE DEF i
<1> QED
  BY <1>4, <1>5

LEMMA SearchMax ==
    ASSUME NEW S \in SUBSET Int, IsFiniteSet(S), S # {}
    PROVE  Search!Max(S) \in S
<1>1. Search!Max(S) = Chat!Max(S)
  BY DEF Search!Max, Chat!Max
<1> QED
  BY <1>1, MaxOf

LEMMA FoundPlaces ==
    ASSUME SeenOK, NEW currency, NEW side, NEW limit \in Nat, NEW item
    PROVE  LET F == Search!Found(currency, side)
               O == Search!OfItem(F, item)
               S == Search!Latest(F, limit)
           IN  /\ F \in SUBSET DOMAIN quotes /\ O \in SUBSET F /\ S \in SUBSET F
               /\ Search!OfItem(S, item) \in SUBSET O
               /\ IsFiniteSet(F) /\ IsFiniteSet(O) /\ IsFiniteSet(S)
               /\ Cardinality(F) \in Nat /\ Cardinality(O) \in Nat /\ Cardinality(S) \in Nat
               /\ Cardinality(O) <= MaxQuotes
               /\ \A n \in F : quotes[n].at >= Search!Since
               /\ Cardinality(F) <= limit => S = F
<1> DEFINE F == Search!Found(currency, side)
           O == Search!OfItem(F, item)
           S == Search!Latest(F, limit)
<1>1. F \in SUBSET DOMAIN quotes /\ \A n \in F : quotes[n].at >= Search!Since
  BY DEF Search!Found
<1>2. S = LatestOf(F, limit)
  BY SearchCut
<1> HIDE DEF F
<1>3. O \in SUBSET F /\ S \in SUBSET F /\ Search!OfItem(S, item) \in SUBSET O
  BY <1>2 DEF Search!OfItem, LatestOf
<1>4. IsFiniteSet(DOMAIN quotes) /\ Cardinality(DOMAIN quotes) = Len(quotes)
      /\ Len(quotes) \in Nat /\ DOMAIN quotes \subseteq Int
  BY SeenPlaces
<1> HIDE DEF O, S
<1>5. IsFiniteSet(F) /\ IsFiniteSet(O) /\ IsFiniteSet(S)
  BY <1>1, <1>3, <1>4, FS_Subset
<1>6. Cardinality(F) \in Nat /\ Cardinality(O) \in Nat /\ Cardinality(S) \in Nat
  BY <1>5, FS_CardinalityType
<1>7. Cardinality(O) <= MaxQuotes
  <2>1. O \in SUBSET DOMAIN quotes
    BY <1>1, <1>3
  <2>2. Cardinality(O) <= Cardinality(DOMAIN quotes)
    BY <1>4, <2>1, FS_Subset
  <2>3. Len(quotes) <= MaxQuotes /\ MaxQuotes \in Nat
    BY LimitAssumption DEF SeenOK
  <2> QED
    BY <1>4, <1>6, <2>2, <2>3
<1>8. Cardinality(F) <= limit => S = F
  <2>1. F \in SUBSET Int
    BY <1>1, <1>4
  <2> QED
    BY <1>2, <1>5, <2>1, CutKeeps
<1>9. /\ F \in SUBSET DOMAIN quotes /\ O \in SUBSET F /\ S \in SUBSET F
      /\ Search!OfItem(S, item) \in SUBSET O
      /\ IsFiniteSet(F) /\ IsFiniteSet(O) /\ IsFiniteSet(S)
      /\ Cardinality(F) \in Nat /\ Cardinality(O) \in Nat /\ Cardinality(S) \in Nat
      /\ Cardinality(O) <= MaxQuotes
      /\ \A n \in F : quotes[n].at >= Search!Since
      /\ Cardinality(F) <= limit => S = F
  BY <1>1, <1>3, <1>5, <1>6, <1>7, <1>8
<1> QED
  BY <1>9 DEF F, O, S

\* The curve counts every quote once.
LEMMA CurveCounts ==
    ASSUME SeenOK, NEW item, NEW currency, NEW side
    PROVE  LET curve == Search!History(item, currency, side)
               S == Search!Latest(Search!OfItem(Search!Found(currency, side), item), HistoryLimit)
           IN  Sum(DOMAIN curve, curve) = Cardinality(S)
<1> DEFINE F == Search!Found(currency, side)
           O == Search!OfItem(F, item)
           S == Search!Latest(O, HistoryLimit)
           I == 0 .. Stretches - 1
           curve == Search!History(item, currency, side)
           st == [n \in S |-> Search!StretchOf(n, Stretches)]
           here(i) == {n \in S : Search!StretchOf(n, Stretches) = i}
<1>1. Stretches \in Nat \ {0}
  BY LimitAssumption
<1>2. F \in SUBSET DOMAIN quotes /\ O \in SUBSET F /\ IsFiniteSet(O)
      /\ \A n \in F : quotes[n].at >= Search!Since
  <2>1. 0 \in Nat
    OBVIOUS
  <2> QED
    BY <2>1, FoundPlaces
<1>3. curve = [i \in I |-> [sell |-> Search!Stats(Search!OfSide(here(i), "sell")),
                            buy |-> Search!Stats(Search!OfSide(here(i), "buy"))]]
  BY DEF Search!History
<1>4. S \in SUBSET O
  BY SearchCut DEF LatestOf
<1> HIDE DEF F, O, S, curve
<1>5. IsFiniteSet(S) /\ S \in SUBSET DOMAIN quotes
  BY <1>2, <1>4, FS_Subset
<1>6. st \in [S -> I]
  <2>1. \A n \in S : Search!StretchOf(n, Stretches) \in I
    BY <1>1, <1>2, <1>4, <1>5, InStretch
  <2> QED
    BY <2>1
<1>7. IsFiniteSet(I)
  BY <1>1, FS_Interval
<1>8. \A i \in I : Search!Both(curve[i]) = Cardinality({n \in S : st[n] = i})
  <2> SUFFICES ASSUME NEW i \in I
               PROVE  Search!Both(curve[i]) = Cardinality({n \in S : st[n] = i})
    OBVIOUS
  <2>1. {n \in S : st[n] = i} = here(i)
    OBVIOUS
  <2>2. here(i) \in SUBSET DOMAIN quotes
    BY <1>5
  <2>3. curve[i].sell = Search!Stats(Search!OfSide(here(i), "sell"))
        /\ curve[i].buy = Search!Stats(Search!OfSide(here(i), "buy"))
    BY <1>3
  <2> HIDE DEF here, st
  <2>4. Search!Both(curve[i]) = Cardinality(here(i))
    BY <2>2, <2>3, BothSides DEF Search!Both
  <2> QED
    BY <2>1, <2>4
<1>9. DOMAIN curve = I
  BY <1>3
<1> HIDE DEF I, st
<1>10. /\ IsFiniteSet(DOMAIN curve) /\ st \in [S -> DOMAIN curve]
       /\ \A i \in DOMAIN curve : Search!Both(curve[i]) = Cardinality({n \in S : st[n] = i})
  BY <1>6, <1>7, <1>8, <1>9
<1>11. Sum(DOMAIN curve, curve) = Cardinality(S)
  BY <1>5, <1>10, SumParts
<1> QED
  BY <1>11 DEF curve, S, O, F

\* The table's items, and which stands above which: by the number of quotes, c, and then by
\* the last of them, m.
ItemsOf(S) == {quotes[n].quote.item : n \in S}
Above(I, c, m) == {p \in I \X I : \/ c[p[1]] > c[p[2]]
                                  \/ c[p[1]] = c[p[2]] /\ m[p[1]] > m[p[2]]}

LEMMA AboveOrders ==
    ASSUME NEW I, NEW c, NEW m,
           \A i \in I : c[i] \in Nat /\ m[i] \in Int,
           \A i, j \in I : m[i] = m[j] => i = j
    PROVE  StrictOrder(I, Above(I, c, m))
<1>1. \A i, j \in I : <<i, j>> \in Above(I, c, m)
                         <=> c[i] > c[j] \/ (c[i] = c[j] /\ m[i] > m[j])
  BY DEF Above
<1>2. \A i, j \in I : i = j \/ c[i] > c[j] \/ (c[i] = c[j] /\ m[i] > m[j])
                      \/ c[j] > c[i] \/ (c[j] = c[i] /\ m[j] > m[i])
  OBVIOUS
<1>3. \A i \in I : ~ (c[i] > c[i]) /\ ~ (m[i] > m[i])
  OBVIOUS
<1>4. \A i, j, k \in I :
         (c[i] > c[j] \/ (c[i] = c[j] /\ m[i] > m[j])) /\ (c[j] > c[k] \/ (c[j] = c[k] /\ m[j] > m[k]))
            => c[i] > c[k] \/ (c[i] = c[k] /\ m[i] > m[k])
  OBVIOUS
<1>5. \A i, j \in I : i = j \/ <<i, j>> \in Above(I, c, m) \/ <<j, i>> \in Above(I, c, m)
  BY <1>1, <1>2
<1>6. \A i \in I : <<i, i>> \notin Above(I, c, m)
  BY <1>1, <1>3
<1>7. \A i, j, k \in I : <<i, j>> \in Above(I, c, m) /\ <<j, k>> \in Above(I, c, m)
                            => <<i, k>> \in Above(I, c, m)
  BY <1>1, <1>4
<1> QED
  BY <1>5, <1>6, <1>7 DEF StrictOrder

Count(S) == [i \in ItemsOf(S) |-> Cardinality(Search!OfItem(S, i))]
LastOf(S) == [i \in ItemsOf(S) |-> Search!Max(Search!OfItem(S, i))]

Standing(S) == Above(ItemsOf(S), Count(S), LastOf(S))

LEMMA ItemsOrdered ==
    ASSUME SeenOK, NEW S \in SUBSET DOMAIN quotes
    PROVE  /\ IsFiniteSet(ItemsOf(S))
           /\ \A i \in ItemsOf(S) : Count(S)[i] \in Nat
           /\ StrictOrder(ItemsOf(S), Standing(S))
<1> DEFINE I == ItemsOf(S)
           c == Count(S)
           m == LastOf(S)
<1>1. IsFiniteSet(S) /\ S \in SUBSET Int
  BY SeenPlaces, FS_Subset
<1>2. IsFiniteSet(I)
  <2> DEFINE item == [n \in S |-> quotes[n].quote.item]
  <2>1. I = {item[n] : n \in S}
    BY DEF ItemsOf
  <2>2. item \in Surjection(S, I)
    BY <2>1 DEF Surjection
  <2> HIDE DEF item, I
  <2> QED
    BY <1>1, <2>2, FS_Surjection
<1>3. ASSUME NEW i \in I
      PROVE  /\ c[i] \in Nat /\ m[i] \in Int /\ m[i] \in S /\ quotes[m[i]].quote.item = i
             /\ c[i] = Cardinality(Search!OfItem(S, i))
             /\ m[i] = Search!Max(Search!OfItem(S, i))
  <2> DEFINE O == Search!OfItem(S, i)
  <2>1. O \in SUBSET S /\ O # {} /\ \A n \in O : quotes[n].quote.item = i
    BY DEF ItemsOf, Search!OfItem
  <2>2. c[i] = Cardinality(O) /\ m[i] = Search!Max(O)
    BY DEF Count, LastOf
  <2> HIDE DEF O
  <2>3. IsFiniteSet(O) /\ Cardinality(O) \in Nat /\ O \in SUBSET Int
    BY <1>1, <2>1, FS_Subset, FS_CardinalityType
  <2>4. Search!Max(O) \in O
    BY <2>1, <2>3, SearchMax
  <2>5. /\ c[i] \in Nat /\ m[i] \in Int /\ m[i] \in S /\ quotes[m[i]].quote.item = i
    BY <2>1, <2>2, <2>3, <2>4
  <2> QED
    BY <2>2, <2>5 DEF O
<1>4. \A i, j \in I : m[i] = m[j] => i = j
  <2> HIDE DEF I, m
  <2>1. \A i \in I : quotes[m[i]].quote.item = i
    BY <1>3
  <2> QED
    BY <2>1
<1>5. StrictOrder(I, Above(I, c, m))
  <2> HIDE DEF I, c, m
  <2>1. \A i \in I : c[i] \in Nat /\ m[i] \in Int
    BY <1>3
  <2> QED
    BY <1>4, <2>1, AboveOrders
<1> QED
  BY <1>2, <1>3, <1>5 DEF Standing

\* What the table is made of
Scan(currency, side) == Search!Latest(Search!Found(currency, side), OverviewLimit)

\* A row, of the quotes O
RowOf(O, row) ==
    /\ Search!Both(row) = Cardinality(O)
    /\ \E T, U \in SUBSET O : row.sell = Search!Stats(T) /\ row.buy = Search!Stats(U)
    /\ \A k \in DOMAIN row.spark : row.spark[k] # -1 =>
          \E T \in SUBSET O : T # {} /\ row.spark[k] = Search!Median(T)
PlaceOf(S, i) == RankIn(ItemsOf(S), Standing(S), i)

\* The rows of the table are the first in that order, each with the figures of its item.
LEMMA TableRows ==
    ASSUME SeenOK, NEW currency, NEW side, NEW limit \in Nat
    PROVE  /\ \A i : i \in DOMAIN Search!Overview(currency, side, limit)
                 <=> i \in ItemsOf(Scan(currency, side)) /\ PlaceOf(Scan(currency, side), i) < limit
           /\ \A i \in DOMAIN Search!Overview(currency, side, limit) :
                 RowOf(Search!OfItem(Scan(currency, side), i),
                       Search!Overview(currency, side, limit)[i])
<1> DEFINE table == Search!Overview(currency, side, limit)
           S == Search!Latest(Search!Found(currency, side), OverviewLimit)
           I == ItemsOf(S)
           order == Above(I, Count(S), LastOf(S))
           rows == {i \in I : RankIn(I, order, i) < limit}
           sell(i) == Search!OfSide(Search!OfItem(S, i), "sell")
           buy(i) == Search!OfSide(Search!OfItem(S, i), "buy")
           chosen(i) == IF side = "buy" \/ (side = "any" /\ sell(i) = {}) THEN buy(i) ELSE sell(i)
           here(i, k) == {n \in chosen(i) : Search!StretchOf(n, SparkStretches) = k}
<1>1. S \in SUBSET DOMAIN quotes
  <2>1. OverviewLimit \in Nat
    BY LimitAssumption
  <2>2. S \in SUBSET Search!Found(currency, side)
        /\ Search!Found(currency, side) \in SUBSET DOMAIN quotes
    BY <2>1, FoundPlaces
  <2> QED
    BY <2>2
<1>2. \A i \in I : RankIn(I, order, i)
         = Cardinality({j \in I :
              \/ Cardinality(Search!OfItem(S, j)) > Cardinality(Search!OfItem(S, i))
              \/ /\ Cardinality(Search!OfItem(S, j)) = Cardinality(Search!OfItem(S, i))
                 /\ Search!Max(Search!OfItem(S, j)) > Search!Max(Search!OfItem(S, i))})
  <2> DEFINE over(j, i) ==
               \/ Cardinality(Search!OfItem(S, j)) > Cardinality(Search!OfItem(S, i))
               \/ /\ Cardinality(Search!OfItem(S, j)) = Cardinality(Search!OfItem(S, i))
                  /\ Search!Max(Search!OfItem(S, j)) > Search!Max(Search!OfItem(S, i))
  <2>1. \A i, j \in I : <<j, i>> \in order <=> over(j, i)
    <3> HIDE DEF S
    <3> QED
      BY DEF Above, Count, LastOf
  <2> HIDE DEF order, over, I
  <2>2. \A i \in I : {j \in I : <<j, i>> \in order} = {j \in I : over(j, i)}
    BY <2>1
  <2> QED
    BY <2>2 DEF RankIn, over
<1>3. table = [i \in rows |->
                 [sell |-> Search!Stats(sell(i)), buy |-> Search!Stats(buy(i)),
                  spark |-> [k \in 0 .. SparkStretches - 1 |->
                               IF here(i, k) = {} THEN -1 ELSE Search!Median(here(i, k))]]]
  <2> DEFINE found == {i \in I : Cardinality({j \in I :
              \/ Cardinality(Search!OfItem(S, j)) > Cardinality(Search!OfItem(S, i))
              \/ /\ Cardinality(Search!OfItem(S, j)) = Cardinality(Search!OfItem(S, i))
                 /\ Search!Max(Search!OfItem(S, j)) > Search!Max(Search!OfItem(S, i))}) < limit}
  <2>1. table = [i \in found |->
                 [sell |-> Search!Stats(sell(i)), buy |-> Search!Stats(buy(i)),
                  spark |-> [k \in 0 .. SparkStretches - 1 |->
                               IF here(i, k) = {} THEN -1 ELSE Search!Median(here(i, k))]]]
    BY SearchCut DEF Search!Overview, ItemsOf
  <2>2. found = rows
    <3> HIDE DEF S, order
    <3> QED
      BY <1>2
  <2> QED
    BY <2>1, <2>2
<1>4. DOMAIN table = rows
  BY <1>3
<1> HIDE DEF table, S
<1>5. ASSUME NEW i \in rows
      PROVE  RowOf(Search!OfItem(S, i), table[i])
  <2> DEFINE O == Search!OfItem(S, i)
  <2>1. O \in SUBSET DOMAIN quotes
    BY <1>1 DEF Search!OfItem
  <2>2. table[i] = [sell |-> Search!Stats(sell(i)), buy |-> Search!Stats(buy(i)),
                    spark |-> [k \in 0 .. SparkStretches - 1 |->
                                 IF here(i, k) = {} THEN -1 ELSE Search!Median(here(i, k))]]
    BY <1>3
  <2>3. sell(i) \in SUBSET O /\ buy(i) \in SUBSET O /\ \A k : here(i, k) \in SUBSET O
    BY DEF Search!OfSide
  <2>4. Search!Stats(sell(i)).count + Search!Stats(buy(i)).count = Cardinality(O)
    <3> HIDE DEF O
    <3> QED
      BY <2>1, BothSides DEF O
  <2> HIDE DEF O, sell, buy, here
  <2>5. table[i].sell = Search!Stats(sell(i)) /\ table[i].buy = Search!Stats(buy(i))
        /\ table[i].spark = [k \in 0 .. SparkStretches - 1 |->
                                 IF here(i, k) = {} THEN -1 ELSE Search!Median(here(i, k))]
    BY <2>2
  <2>6. Search!Both(table[i]) = Cardinality(O)
    BY <2>4, <2>5 DEF Search!Both
  <2>7. \A k \in DOMAIN table[i].spark : table[i].spark[k] # -1 =>
           \E T \in SUBSET O : T # {} /\ table[i].spark[k] = Search!Median(T)
    BY <2>3, <2>5
  <2>8. \E T, U \in SUBSET O : table[i].sell = Search!Stats(T) /\ table[i].buy = Search!Stats(U)
    BY <2>3, <2>5
  <2> QED
    BY <2>6, <2>7, <2>8 DEF O, RowOf
<1>6. \A i \in DOMAIN table : RowOf(Search!OfItem(S, i), table[i])
  <2> HIDE DEF rows
  <2> QED
    BY <1>4, <1>5
<1>7. S = Scan(currency, side) /\ order = Standing(S)
  BY DEF S, Scan, Standing
<1>8. \A i : i \in rows <=> i \in I /\ RankIn(I, order, i) < limit
  OBVIOUS
<1>9. \A i : i \in DOMAIN table <=> i \in ItemsOf(S) /\ PlaceOf(S, i) < limit
  <2> HIDE DEF rows, order
  <2> QED
    BY <1>4, <1>7, <1>8 DEF PlaceOf
<1> HIDE DEF order
<1> QED
  BY <1>6, <1>7, <1>9 DEF table

\* What the three pages show of one item
LEMMA ItemAgrees ==
    ASSUME SeenOK, NEW currency, NEW side, NEW item,
           item \in DOMAIN Search!Overview(currency, side, MaxQuotes)
    PROVE  LET whole == Search!Overview(currency, side, MaxQuotes)
               scanned == Cardinality(Search!Found(currency, side)) <= OverviewLimit
               all == Search!QuotesOf(item, currency, side, MaxQuotes)
               curve == Search!History(item, currency, side)
               total == Sum(DOMAIN curve, curve)
           IN  /\ scanned => Search!Both(whole[item]) = Cardinality(all)
               /\ total = IF Cardinality(all) > HistoryLimit THEN HistoryLimit
                           ELSE Cardinality(all)
               /\ \A s \in {"sell", "buy"} :
                     LET stats == IF s = "sell" THEN whole[item].sell ELSE whole[item].buy
                     IN  stats.count > 0 => stats.low <= stats.median
                                            /\ stats.median <= stats.high
               /\ \A k \in DOMAIN whole[item].spark : whole[item].spark[k] # -1 =>
                     /\ whole[item].spark[k] >= Search!PriceAt(all, 1)
                     /\ whole[item].spark[k] <= Search!PriceAt(all, Cardinality(all))
<1> DEFINE whole == Search!Overview(currency, side, MaxQuotes)
           F == Search!Found(currency, side)
           S == Scan(currency, side)
           O == Search!OfItem(F, item)
           all == Search!QuotesOf(item, currency, side, MaxQuotes)
           curve == Search!History(item, currency, side)
           total == Sum(DOMAIN curve, curve)
<1>1. OverviewLimit \in Nat /\ HistoryLimit \in Nat /\ MaxQuotes \in Nat
  BY LimitAssumption
<1>2. /\ F \in SUBSET DOMAIN quotes /\ O \in SUBSET F /\ Search!OfItem(S, item) \in SUBSET O
      /\ IsFiniteSet(O) /\ Cardinality(O) \in Nat /\ Cardinality(O) <= MaxQuotes
      /\ Cardinality(F) <= OverviewLimit => S = F
  BY <1>1, FoundPlaces DEF Scan
<1>3. O \in SUBSET Int /\ O \in SUBSET DOMAIN quotes
  BY <1>2, SeenPlaces
<1>4. all = O
  <2>1. all = LatestOf(O, MaxQuotes)
    BY SearchCut DEF Search!QuotesOf
  <2> HIDE DEF O
  <2> QED
    BY <1>1, <1>2, <1>3, <2>1, CutKeeps
<1>5. RowOf(Search!OfItem(S, item), whole[item])
  <2> HIDE DEF S
  <2> QED
    BY <1>1, TableRows DEF S
<1>6. total = IF Cardinality(O) > HistoryLimit THEN HistoryLimit ELSE Cardinality(O)
  <2>1. total = Cardinality(LatestOf(O, HistoryLimit))
    BY CurveCounts, SearchCut
  <2> HIDE DEF O, total
  <2>2. Cardinality(LatestOf(O, HistoryLimit))
           = IF Cardinality(O) <= HistoryLimit THEN Cardinality(O) ELSE HistoryLimit
    BY <1>1, <1>2, <1>3, CutKeeps
  <2> QED
    BY <1>1, <1>2, <2>1, <2>2
<1> HIDE DEF whole, F, O, S, all, total
<1>7. Cardinality(F) <= OverviewLimit => Search!Both(whole[item]) = Cardinality(all)
  BY <1>2, <1>4, <1>5 DEF O, RowOf
<1>8. ASSUME NEW T \in SUBSET DOMAIN quotes, Search!Stats(T).count > 0
      PROVE  Search!Stats(T).low <= Search!Stats(T).median
             /\ Search!Stats(T).median <= Search!Stats(T).high
  <2>1. T # {}
    <3>1. T = {} => Search!Stats(T).count = 0
      BY DEF Search!Stats
    <3> QED
      BY <1>8, <3>1
  <2> QED
    BY <2>1, MedianWithin
<1>9. PICK T \in SUBSET DOMAIN quotes, U \in SUBSET DOMAIN quotes :
         whole[item].sell = Search!Stats(T) /\ whole[item].buy = Search!Stats(U)
  <2>1. PICK T \in SUBSET Search!OfItem(S, item), U \in SUBSET Search!OfItem(S, item) :
           whole[item].sell = Search!Stats(T) /\ whole[item].buy = Search!Stats(U)
    BY <1>5 DEF RowOf
  <2>2. T \in SUBSET DOMAIN quotes /\ U \in SUBSET DOMAIN quotes
    BY <1>2, <1>3, <2>1
  <2> QED
    BY <2>1, <2>2
<1>10. \A s \in {"sell", "buy"} :
          LET stats == IF s = "sell" THEN whole[item].sell ELSE whole[item].buy
          IN  stats.count > 0 => stats.low <= stats.median /\ stats.median <= stats.high
  BY <1>8, <1>9
<1>11. ASSUME NEW k \in DOMAIN whole[item].spark, whole[item].spark[k] # -1
       PROVE  /\ whole[item].spark[k] >= Search!PriceAt(all, 1)
              /\ whole[item].spark[k] <= Search!PriceAt(all, Cardinality(all))
  <2>1. PICK V \in SUBSET Search!OfItem(S, item) :
           V # {} /\ whole[item].spark[k] = Search!Median(V)
    BY <1>5, <1>11 DEF RowOf
  <2>2. V \in SUBSET O
    BY <1>2, <2>1
  <2>3. Search!PriceAt(O, 1) <= Search!Median(V)
        /\ Search!Median(V) <= Search!PriceAt(O, Cardinality(O))
    BY <1>3, <2>1, <2>2, MedianOfFewer
  <2> QED
    BY <1>4, <2>1, <2>3
<1>12. total = IF Cardinality(all) > HistoryLimit THEN HistoryLimit ELSE Cardinality(all)
  BY <1>4, <1>6
<1> QED
  BY <1>7, <1>10, <1>11, <1>12 DEF whole, F, all, total

\* What the table leaves out
LEMMA TableFirst ==
    ASSUME SeenOK, NEW currency, NEW side
    PROVE  LET table == Search!Overview(currency, side, 1)
               whole == Search!Overview(currency, side, MaxQuotes)
           IN  /\ \A in \in DOMAIN table, out \in DOMAIN whole \ DOMAIN table :
                     Search!Both(table[in]) >= Search!Both(whole[out])
               /\ Cardinality(DOMAIN table) <= 1
<1> DEFINE table == Search!Overview(currency, side, 1)
           whole == Search!Overview(currency, side, MaxQuotes)
           S == Scan(currency, side)
           I == ItemsOf(S)
           c == Count(S)
           R == Standing(S)
<1>1. OverviewLimit \in Nat /\ MaxQuotes \in Nat /\ 1 \in Nat
  BY LimitAssumption
<1>2. S \in SUBSET DOMAIN quotes
  <2>1. S \in SUBSET Search!Found(currency, side)
        /\ Search!Found(currency, side) \in SUBSET DOMAIN quotes
    BY <1>1, FoundPlaces DEF Scan
  <2> QED
    BY <2>1
<1>3. /\ \A i : i \in DOMAIN table <=> i \in I /\ RankIn(I, R, i) < 1
      /\ \A i : i \in DOMAIN whole <=> i \in I /\ RankIn(I, R, i) < MaxQuotes
      /\ \A i \in DOMAIN table : RowOf(Search!OfItem(S, i), table[i])
      /\ \A i \in DOMAIN whole : RowOf(Search!OfItem(S, i), whole[i])
  <2>1. /\ \A i : i \in DOMAIN table <=> i \in I /\ PlaceOf(S, i) < 1
        /\ \A i : i \in DOMAIN whole <=> i \in I /\ PlaceOf(S, i) < MaxQuotes
        /\ \A i \in DOMAIN table : RowOf(Search!OfItem(S, i), table[i])
        /\ \A i \in DOMAIN whole : RowOf(Search!OfItem(S, i), whole[i])
    BY <1>1, TableRows
  <2>2. \A i : PlaceOf(S, i) = RankIn(I, R, i)
    BY DEF PlaceOf
  <2> HIDE DEF table, whole, S, I, R
  <2> QED
    BY <2>1, <2>2
<1>a. /\ \A i \in DOMAIN table : Search!Both(table[i]) = Cardinality(Search!OfItem(S, i))
      /\ \A i \in DOMAIN whole : Search!Both(whole[i]) = Cardinality(Search!OfItem(S, i))
  BY <1>3 DEF RowOf
<1> HIDE DEF table, whole, S
<1>4. IsFiniteSet(I) /\ StrictOrder(I, R) /\ \A i \in I : c[i] \in Nat
  BY <1>2, ItemsOrdered
<1>5. \A i \in I : c[i] = Cardinality(Search!OfItem(S, i))
  BY DEF Count
<1>6. \A i, j \in I : <<i, j>> \in R => c[i] > c[j] \/ c[i] = c[j]
  BY DEF Standing, Above
<1> HIDE DEF I, c, R
<1>7. /\ \A i \in I : RankIn(I, R, i) \in Nat
      /\ \A i, j \in I : <<i, j>> \in R <=> RankIn(I, R, i) < RankIn(I, R, j)
      /\ \A i, j \in I : RankIn(I, R, i) = RankIn(I, R, j) => i = j
  BY <1>4, RankLess
<1>8. ASSUME NEW in \in DOMAIN table, NEW out \in DOMAIN whole \ DOMAIN table
      PROVE  Search!Both(table[in]) >= Search!Both(whole[out])
  <2>1. in \in I /\ out \in I /\ RankIn(I, R, in) < 1 /\ ~ (RankIn(I, R, out) < 1)
    BY <1>3
  <2>2. RankIn(I, R, in) < RankIn(I, R, out)
    BY <1>7, <2>1
  <2>3. c[in] > c[out] \/ c[in] = c[out]
    BY <1>6, <1>7, <2>1, <2>2
  <2>4. c[in] >= c[out]
    BY <1>4, <2>1, <2>3
  <2> QED
    BY <1>5, <1>a, <2>1, <2>4
<1>9. Cardinality(DOMAIN table) <= 1
  <2>1. \A i, j \in DOMAIN table : i = j
    <3>1. \A i \in DOMAIN table : i \in I /\ RankIn(I, R, i) = 0
      BY <1>3, <1>7
    <3> QED
      BY <1>7, <3>1
  <2>2. CASE DOMAIN table = {}
    <3>1. Cardinality(DOMAIN table) = 0
      BY <2>2, FS_EmptySet
    <3> QED
      BY <3>1
  <2>3. CASE DOMAIN table # {}
    <3>1. PICK i \in DOMAIN table : TRUE
      BY <2>3
    <3>2. DOMAIN table = {i}
      BY <2>1
    <3>3. Cardinality(DOMAIN table) = 1
      BY <3>2, FS_Singleton
    <3> QED
      BY <3>3
  <2> QED
    BY <2>2, <2>3
<1> QED
  BY <1>8, <1>9 DEF table, whole

LEMMA SearchAgrees == SeenOK => Search!PagesAgree
<1> SUFFICES ASSUME SeenOK,
                    NEW currency \in {"gold", "cash"}, NEW side \in {"sell", "buy", "any"}
             PROVE
        LET table == Search!Overview(currency, side, 1)
            whole == Search!Overview(currency, side, MaxQuotes)
            scanned == Search!Cardinality(Search!Found(currency, side)) <= OverviewLimit
        IN  /\ \A item \in DOMAIN whole :
                  LET all == Search!QuotesOf(item, currency, side, MaxQuotes)
                      curve == Search!History(item, currency, side)
                      total == Search!MapThenSumSet(LAMBDA i : Search!Both(curve[i]), DOMAIN curve)
                  IN  /\ scanned => Search!Both(whole[item]) = Search!Cardinality(all)
                      /\ total = IF Search!Cardinality(all) > HistoryLimit THEN HistoryLimit
                                  ELSE Search!Cardinality(all)
                      /\ \A s \in {"sell", "buy"} :
                            LET stats == IF s = "sell" THEN whole[item].sell ELSE whole[item].buy
                            IN  stats.count > 0 => stats.low <= stats.median
                                                   /\ stats.median <= stats.high
                      /\ \A k \in DOMAIN whole[item].spark : whole[item].spark[k] # -1 =>
                            /\ whole[item].spark[k] >= Search!PriceAt(all, 1)
                            /\ whole[item].spark[k] <= Search!PriceAt(all, Search!Cardinality(all))
            /\ \A in \in DOMAIN table, out \in DOMAIN whole \ DOMAIN table :
                  Search!Both(table[in]) >= Search!Both(whole[out])
            /\ Search!Cardinality(DOMAIN table) <= 1
  BY DEF Search!PagesAgree
<1> DEFINE table == Search!Overview(currency, side, 1)
           whole == Search!Overview(currency, side, MaxQuotes)
           scanned == Search!Cardinality(Search!Found(currency, side)) <= OverviewLimit
<1>1. ASSUME NEW item \in DOMAIN whole
      PROVE  LET all == Search!QuotesOf(item, currency, side, MaxQuotes)
                 curve == Search!History(item, currency, side)
                 total == Search!MapThenSumSet(LAMBDA i : Search!Both(curve[i]), DOMAIN curve)
             IN  /\ scanned => Search!Both(whole[item]) = Search!Cardinality(all)
                 /\ total = IF Search!Cardinality(all) > HistoryLimit THEN HistoryLimit
                             ELSE Search!Cardinality(all)
                 /\ \A s \in {"sell", "buy"} :
                       LET stats == IF s = "sell" THEN whole[item].sell ELSE whole[item].buy
                       IN  stats.count > 0 => stats.low <= stats.median
                                              /\ stats.median <= stats.high
                 /\ \A k \in DOMAIN whole[item].spark : whole[item].spark[k] # -1 =>
                       /\ whole[item].spark[k] >= Search!PriceAt(all, 1)
                       /\ whole[item].spark[k] <= Search!PriceAt(all, Search!Cardinality(all))
  <2> DEFINE all == Search!QuotesOf(item, currency, side, MaxQuotes)
             curve == Search!History(item, currency, side)
             total == Search!MapThenSumSet(LAMBDA i : Search!Both(curve[i]), DOMAIN curve)
  <2>1. total = Sum(DOMAIN curve, curve)
    <3> HIDE DEF curve
    <3> QED
      BY DEF Search!MapThenSumSet, Search!MapThenFoldSet, Sum, SumOf
  <2> HIDE DEF total
  <2> DEFINE row == whole[item]
             F == Search!Found(currency, side)
  <2>2. /\ Cardinality(F) <= OverviewLimit => Search!Both(row) = Cardinality(all)
        /\ Sum(DOMAIN curve, curve) = IF Cardinality(all) > HistoryLimit THEN HistoryLimit
                                      ELSE Cardinality(all)
        /\ \A s \in {"sell", "buy"} :
              LET stats == IF s = "sell" THEN row.sell ELSE row.buy
              IN  stats.count > 0 => stats.low <= stats.median /\ stats.median <= stats.high
        /\ \A k \in DOMAIN row.spark : row.spark[k] # -1 =>
              /\ row.spark[k] >= Search!PriceAt(all, 1)
              /\ row.spark[k] <= Search!PriceAt(all, Cardinality(all))
    BY ItemAgrees
  <2>3. Search!Cardinality(all) = Cardinality(all) /\ Search!Cardinality(F) = Cardinality(F)
    BY SearchCut
  <2> HIDE DEF all, curve, row, F
  <2>4. /\ Search!Cardinality(F) <= OverviewLimit => Search!Both(row) = Search!Cardinality(all)
        /\ total = IF Search!Cardinality(all) > HistoryLimit THEN HistoryLimit
                    ELSE Search!Cardinality(all)
        /\ \A s \in {"sell", "buy"} :
              LET stats == IF s = "sell" THEN row.sell ELSE row.buy
              IN  stats.count > 0 => stats.low <= stats.median /\ stats.median <= stats.high
        /\ \A k \in DOMAIN row.spark : row.spark[k] # -1 =>
              /\ row.spark[k] >= Search!PriceAt(all, 1)
              /\ row.spark[k] <= Search!PriceAt(all, Search!Cardinality(all))
    BY <2>1, <2>2, <2>3
  <2> QED
    BY <2>4 DEF all, curve, row, F, total
<1>2. /\ \A in \in DOMAIN table, out \in DOMAIN whole \ DOMAIN table :
            Search!Both(table[in]) >= Search!Both(whole[out])
      /\ Search!Cardinality(DOMAIN table) <= 1
  BY TableFirst, SearchCut
<1> QED
  BY <1>1, <1>2

\* The table of the market, the quotes of an item and its curve count the same quotes, and
\* their figures lie in the ranges they name: for any items, prices, limits and stretches
\* (getOverview, getQuotes, getHistory).
THEOREM LiveMarketPagesAgree == LiveSpec => []MarketPagesAgree
<1>1. LiveInit => SeenOK
  BY LimitAssumption DEF LiveInit, Search!Init, SeenOK
<1>2. SeenOK /\ [LiveNext]_liveVars => SeenOK'
  <2> SUFFICES ASSUME SeenOK, [LiveNext]_liveVars PROVE SeenOK'
    OBVIOUS
  <2> DEFINE Q == [quote : Search!QuoteShape, at : Nat]
  <2>1. Search!Next \/ UNCHANGED searchVars
    BY StepsApart
  <2>2. quotes \in Seq(Q) /\ Len(quotes) \in Nat /\ Len(quotes) <= MaxQuotes /\ MaxQuotes \in Nat
        /\ today \in Nat /\ \A n \in DOMAIN quotes : quotes[n].at <= today
    BY LimitAssumption DEF SeenOK
  <2>3. ASSUME NEW q \in Quote, Search!See(q) PROVE SeenOK'
    <3> DEFINE s == [quote |-> q, at |-> today]
    <3>1. q \in Search!QuoteShape
      BY ShapeAssumption
    <3>2. s \in Q /\ s.at <= today
      BY <2>2, <3>1
    <3>3. quotes' = Append(quotes, s) /\ today' = today /\ Len(quotes) < MaxQuotes
      BY <2>3 DEF Search!See
    <3> HIDE DEF s, Q
    <3>4. /\ quotes' \in Seq(Q) /\ Len(quotes') <= MaxQuotes /\ today' \in Nat
          /\ \A n \in DOMAIN quotes' : quotes'[n].at <= today'
      BY <2>2, <3>2, <3>3
    <3> QED
      BY <3>4 DEF SeenOK, Q
  <2>4. ASSUME Search!Pass PROVE SeenOK'
    <3>1. quotes' = quotes /\ today' = today + 1
      BY <2>4 DEF Search!Pass
    <3> HIDE DEF Q
    <3>2. \A n \in DOMAIN quotes : quotes[n].at \in Nat
      <4>1. \A n \in DOMAIN quotes : quotes[n] \in Q
        BY <2>2
      <4> QED
        BY <4>1 DEF Q
    <3>3. /\ quotes' \in Seq(Q) /\ Len(quotes') <= MaxQuotes /\ today' \in Nat
          /\ \A n \in DOMAIN quotes' : quotes'[n].at <= today'
      BY <2>2, <3>1, <3>2
    <3> QED
      BY <3>3 DEF SeenOK, Q
  <2>5. CASE UNCHANGED searchVars
    BY <2>5 DEF SeenOK, searchVars
  <2> QED
    BY <2>1, <2>3, <2>4, <2>5 DEF Search!Next
<1>3. SeenOK => MarketPagesAgree
  BY SearchAgrees DEF MarketPagesAgree
<1> QED
  BY <1>1, <1>2, <1>3, PTL DEF LiveSpec

-----------------------------------------------------------------------------
\* The search for a route

\* The layers of the reference definition, and the routes back: each is some function that
\* fits its recursive definition.
LayersOf(L, S, W) ==
    W = [n \in Nat |->
            IF n = 0 THEN S
            ELSE W[n - 1] \union {m \in Map : \E k \in W[n - 1] : <<k, m>> \in L}]
BackOf(S, p, B) ==
    B = [n \in DOMAIN p |-> IF n \in S THEN <<n>> ELSE Append(B[p[n]], n)]

\* A walk t along L from S to m
Walk(L, S, t, m) ==
    /\ t \in Seq(Map) /\ Len(t) > 0
    /\ t[1] \in S /\ t[Len(t)] = m
    /\ \A n \in 1 .. Len(t) - 1 : <<t[n], t[n + 1]>> \in L

\* The maps of a layer are reached over those of smaller ones: there is no first exception.
LEMMA LayersClosed ==
    ASSUME NEW L, NEW S, NEW W, LayersOf(L, S, W), NEW C, S \subseteq C,
           \A k \in C, m \in Map : <<k, m>> \in L => m \in C
    PROVE  \A n \in Nat : W[n] \subseteq C
<1> DEFINE Odd == {n \in Nat : ~ (W[n] \subseteq C)}
<1> SUFFICES ASSUME Odd # {} PROVE FALSE
  OBVIOUS
<1>1. PICK n \in Odd : \A k \in Odd : n <= k
  <2> Odd \in SUBSET Nat
    OBVIOUS
  <2> HIDE DEF Odd
  <2> QED
    BY LeastOf
<1>2. W[n] = IF n = 0 THEN S
             ELSE W[n - 1] \union {m \in Map : \E k \in W[n - 1] : <<k, m>> \in L}
  BY DEF LayersOf
<1>3. n # 0
  BY <1>2
<1>4. n - 1 \in Nat /\ W[n - 1] \subseteq C
  BY <1>1, <1>3
<1> QED
  BY <1>2, <1>3, <1>4

\* What was visited by the links p, with the route b[m] to each map m.
Tree(L, S, p, b) ==
    /\ S \subseteq DOMAIN p /\ DOMAIN p \subseteq Map
    /\ b \in [DOMAIN p -> Seq(Map)]
    /\ BackOf(S, p, b)
    /\ \A m \in DOMAIN p : m \notin S => p[m] \in DOMAIN p
    /\ \A m \in DOMAIN p : Walk(L, S, b[m], m)

\* The routes of a tree are the only ones.
LEMMA BackUnique ==
    ASSUME NEW L, NEW S, NEW p, NEW b, Tree(L, S, p, b), NEW B, BackOf(S, p, B)
    PROVE  B = b
<1> DEFINE Odd == {Len(b[n]) : n \in {x \in DOMAIN p : B[x] # b[x]}}
<1>1. /\ \A n \in DOMAIN p : B[n] = IF n \in S THEN <<n>> ELSE Append(B[p[n]], n)
      /\ B = [n \in DOMAIN p |-> B[n]]
  BY DEF BackOf
<1>2. /\ \A n \in DOMAIN p : b[n] = IF n \in S THEN <<n>> ELSE Append(b[p[n]], n)
      /\ b = [n \in DOMAIN p |-> b[n]]
  BY DEF BackOf, Tree
<1>3. \A n \in DOMAIN p : b[n] \in Seq(Map) /\ Len(b[n]) \in Nat
  BY DEF Tree
<1>4. ASSUME Odd # {} PROVE FALSE
  <2>1. Odd \in SUBSET Nat
    BY <1>3
  <2>2. PICK l \in Odd : \A k \in Odd : l <= k
    <3> HIDE DEF Odd
    <3> QED
      BY <1>4, <2>1, LeastOf
  <2>3. PICK n \in DOMAIN p : B[n] # b[n] /\ l = Len(b[n])
    OBVIOUS
  <2>4. n \notin S /\ p[n] \in DOMAIN p /\ b[n] = Append(b[p[n]], n) /\ B[n] = Append(B[p[n]], n)
    BY <1>1, <1>2, <2>3 DEF Tree
  <2>5. B[p[n]] # b[p[n]]
    BY <2>3, <2>4
  <2>6. Len(b[p[n]]) \in Odd
    BY <2>4, <2>5
  <2>7. Len(b[n]) = Len(b[p[n]]) + 1
    BY <1>3, <2>4
  <2> QED
    BY <1>3, <2>2, <2>3, <2>4, <2>6, <2>7
<1>5. \A n \in DOMAIN p : B[n] = b[n]
  BY <1>4
<1> QED
  BY <1>1, <1>2, <1>5

\* The maps of q wait, nearest first; the connections of a map that does not wait any more were
\* followed, and those of the first one to the maps in e.
Settled(L, q, e, p, b) ==
    /\ q \in Seq(Map) /\ \A i \in DOMAIN q : q[i] \in DOMAIN p
    /\ \A i, j \in DOMAIN q : i < j =>
          Len(b[q[i]]) <= Len(b[q[j]]) /\ Len(b[q[j]]) <= Len(b[q[i]]) + 1
    /\ q # << >> => \A m \in DOMAIN p : Len(b[m]) <= Len(b[q[1]]) + 1
    /\ \A m \in DOMAIN p, n \in Map :
          /\ <<m, n>> \in L
          /\ (\A i \in DOMAIN q : q[i] # m) \/ (q # << >> /\ m = q[1] /\ n \in e)
          => n \in DOMAIN p /\ Len(b[n]) <= Len(b[m]) + 1

\* Up to the first map that waits, the layers were visited, each map by a shortest route.
LEMMA NearVisited ==
    ASSUME NEW L, NEW S, NEW q, NEW e, NEW p, NEW b, Tree(L, S, p, b), Settled(L, q, e, p, b),
           q # << >>, NEW W, LayersOf(L, S, W)
    PROVE  \A k \in Nat : k < Len(b[q[1]]) =>
               \A m \in W[k] : m \in DOMAIN p /\ Len(b[m]) <= k + 1
<1> DEFINE Odd == {k \in Nat : k < Len(b[q[1]]) /\ \E m \in W[k] : ~ (m \in DOMAIN p /\ Len(b[m]) <= k + 1)}
<1> SUFFICES ASSUME Odd # {} PROVE FALSE
  OBVIOUS
<1>1. PICK k \in Odd : \A j \in Odd : k <= j
  <2> Odd \in SUBSET Nat
    OBVIOUS
  <2> HIDE DEF Odd
  <2> QED
    BY LeastOf
<1>2. PICK m \in W[k] : ~ (m \in DOMAIN p /\ Len(b[m]) <= k + 1)
  OBVIOUS
<1>3. W[k] = IF k = 0 THEN S
             ELSE W[k - 1] \union {x \in Map : \E y \in W[k - 1] : <<y, x>> \in L}
  BY DEF LayersOf
<1>4. \A x \in DOMAIN p : b[x] \in Seq(Map) /\ Len(b[x]) \in Nat
  BY DEF Tree
<1>5. k # 0
  <2> SUFFICES ASSUME k = 0 PROVE FALSE
    OBVIOUS
  <2>1. m \in S /\ m \in DOMAIN p
    BY <1>2, <1>3 DEF Tree
  <2>2. b[m] = <<m>>
    BY <2>1 DEF Tree, BackOf
  <2> QED
    BY <1>2, <2>1, <2>2
<1>6. 1 \in DOMAIN q /\ q[1] \in DOMAIN p
  BY DEF Settled
<1>7. k - 1 \in Nat /\ k - 1 < Len(b[q[1]]) /\ k - 1 \notin Odd
  BY <1>1, <1>4, <1>5, <1>6
<1>8. \A x \in W[k - 1] : x \in DOMAIN p /\ Len(b[x]) <= k
  BY <1>7
<1>9. m \notin W[k - 1]
  BY <1>2, <1>4, <1>8
<1>10. PICK y \in W[k - 1] : m \in Map /\ <<y, m>> \in L
  BY <1>3, <1>5, <1>9
<1>11. y \in DOMAIN p /\ Len(b[y]) < Len(b[q[1]])
  BY <1>1, <1>4, <1>6, <1>8, <1>10
<1>12. \A i \in DOMAIN q : q[i] # y
  <2> SUFFICES ASSUME NEW i \in DOMAIN q, q[i] = y PROVE FALSE
    OBVIOUS
  <2>1. i = 1 \/ 1 < i
    BY DEF Settled
  <2>2. Len(b[q[1]]) <= Len(b[q[i]])
    BY <1>4, <1>6, <2>1 DEF Settled
  <2> QED
    BY <1>4, <1>6, <1>11, <2>2
<1>13. m \in DOMAIN p /\ Len(b[m]) <= Len(b[y]) + 1
  BY <1>10, <1>11, <1>12 DEF Settled
<1> QED
  BY <1>1, <1>2, <1>4, <1>8, <1>10, <1>11, <1>13

\* f with n mapped to x
Mapped(f, n, x) == [m \in DOMAIN f \union {n} |-> IF m = n THEN x ELSE f[m]]

\* A walk goes on to a map that its last one leads to.
LEMMA WalkLonger ==
    ASSUME NEW L, NEW S, NEW t, NEW m, Walk(L, S, t, m), NEW n \in Map, <<m, n>> \in L
    PROVE  Walk(L, S, Append(t, n), n)
<1> DEFINE u == Append(t, n)
<1>1. t \in Seq(Map) /\ Len(t) \in Nat /\ Len(t) > 0
  BY DEF Walk
<1>2. /\ u \in Seq(Map) /\ Len(u) = Len(t) + 1 /\ u[Len(t) + 1] = n
      /\ \A i \in 1 .. Len(t) : u[i] = t[i]
  BY <1>1
<1>3. u[1] \in S /\ u[Len(u)] = n /\ u[Len(t)] = m
  BY <1>1, <1>2 DEF Walk
<1>4. ASSUME NEW i \in 1 .. Len(u) - 1 PROVE <<u[i], u[i + 1]>> \in L
  <2>1. CASE i = Len(t)
    BY <1>2, <1>3, <2>1
  <2>2. CASE i # Len(t)
    <3>1. i \in 1 .. Len(t) - 1 /\ i \in 1 .. Len(t) /\ i + 1 \in 1 .. Len(t)
      BY <1>1, <1>2, <2>2
    <3>2. u[i] = t[i] /\ u[i + 1] = t[i + 1] /\ <<t[i], t[i + 1]>> \in L
      BY <1>2, <3>1 DEF Walk
    <3> QED
      BY <3>2
  <2> QED
    BY <2>1, <2>2
<1>5. u \in Seq(Map) /\ Len(u) > 0
  BY <1>1, <1>2
<1> HIDE DEF u
<1>6. Walk(L, S, u, n)
  BY <1>3, <1>4, <1>5 DEF Walk
<1> QED
  BY <1>6 DEF u

\* The tree grows by a map that one of it leads to.
LEMMA TreeGrows ==
    ASSUME NEW L, NEW S, NEW p, NEW b, Tree(L, S, p, b), NEW h \in DOMAIN p,
           NEW n \in Map, n \notin DOMAIN p, <<h, n>> \in L
    PROVE  Tree(L, S, Mapped(p, n, h), Mapped(b, n, Append(b[h], n)))
<1> DEFINE p2 == Mapped(p, n, h)
           b2 == Mapped(b, n, Append(b[h], n))
<1>1. /\ DOMAIN b = DOMAIN p /\ \A m \in DOMAIN p : b[m] \in Seq(Map)
      /\ S \subseteq DOMAIN p /\ DOMAIN p \subseteq Map
  BY DEF Tree
<1>2. /\ DOMAIN p2 = DOMAIN p \union {n} /\ p2[n] = h /\ \A m \in DOMAIN p : p2[m] = p[m]
  BY DEF Mapped
<1>3. /\ DOMAIN b2 = DOMAIN p \union {n} /\ b2[n] = Append(b[h], n)
      /\ \A m \in DOMAIN p : b2[m] = b[m]
      /\ b2 = [m \in DOMAIN p \union {n} |-> b2[m]]
  BY <1>1 DEF Mapped
<1>4. Walk(L, S, Append(b[h], n), n)
  BY WalkLonger DEF Tree
<1> HIDE DEF p2, b2
<1>5. b2 \in [DOMAIN p2 -> Seq(Map)]
  <2>1. \A m \in DOMAIN p2 : b2[m] \in Seq(Map)
    BY <1>1, <1>2, <1>3, <1>4 DEF Walk
  <2> QED
    BY <1>2, <1>3, <2>1
<1>6. \A m \in DOMAIN p2 : m \notin S => p2[m] \in DOMAIN p2
  BY <1>2 DEF Tree
<1>7. \A m \in DOMAIN p2 : Walk(L, S, b2[m], m)
  BY <1>2, <1>3, <1>4 DEF Tree
<1>8. BackOf(S, p2, b2)
  <2>1. \A m \in DOMAIN p : b[m] = IF m \in S THEN <<m>> ELSE Append(b[p[m]], m)
    BY <1>1 DEF Tree, BackOf
  <2>2. \A m \in DOMAIN p2 : b2[m] = IF m \in S THEN <<m>> ELSE Append(b2[p2[m]], m)
    <3> SUFFICES ASSUME NEW m \in DOMAIN p2
                 PROVE  b2[m] = IF m \in S THEN <<m>> ELSE Append(b2[p2[m]], m)
      OBVIOUS
    <3>1. CASE m = n
      BY <1>1, <1>2, <1>3, <3>1
    <3>2. CASE m \in S
      BY <1>1, <1>3, <2>1, <3>2
    <3>3. CASE m \notin S /\ m # n
      <4>1. m \in DOMAIN p /\ p[m] \in DOMAIN p
        BY <1>2, <3>3 DEF Tree
      <4> QED
        BY <1>2, <1>3, <2>1, <3>3, <4>1
    <3> QED
      BY <3>1, <3>2, <3>3
  <2> QED
    BY <1>2, <1>3, <2>2 DEF BackOf
<1> QED
  BY <1>1, <1>2, <1>5, <1>6, <1>7, <1>8 DEF Tree, p2, b2

\* The new map waits behind the others.
LEMMA SettledGrows ==
    ASSUME NEW L, NEW S, NEW q, NEW e, NEW p, NEW b, Tree(L, S, p, b), Settled(L, q, e, p, b),
           q # << >>, NEW n \in Map, n \notin DOMAIN p
    PROVE  Settled(L, Append(q, n), e \union {n}, Mapped(p, n, q[1]), Mapped(b, n, Append(b[q[1]], n)))
<1> DEFINE h == q[1]
           p2 == Mapped(p, n, h)
           b2 == Mapped(b, n, Append(b[h], n))
           r == Append(q, n)
<1>1. /\ q \in Seq(Map) /\ Len(q) \in Nat /\ 1 \in DOMAIN q /\ h \in DOMAIN p
      /\ DOMAIN b = DOMAIN p /\ DOMAIN q = 1 .. Len(q)
  BY DEF Settled, Tree
<1>2. \A m \in DOMAIN p : b[m] \in Seq(Map) /\ Len(b[m]) \in Nat
  BY DEF Tree
<1>3. DOMAIN p2 = DOMAIN p \union {n}
  BY DEF Mapped
<1>4. /\ b2[n] = Append(b[h], n) /\ Len(b2[n]) = Len(b[h]) + 1
      /\ \A m \in DOMAIN p : b2[m] = b[m] /\ Len(b2[m]) = Len(b[m])
  BY <1>1, <1>2 DEF Mapped
<1>5. /\ r \in Seq(Map) /\ Len(r) = Len(q) + 1 /\ r[Len(q) + 1] = n /\ r[1] = h
      /\ \A i \in DOMAIN q : r[i] = q[i] /\ q[i] \in DOMAIN p
      /\ DOMAIN r = DOMAIN q \union {Len(q) + 1} /\ r # << >>
  BY <1>1 DEF Settled
<1>6. \A i \in DOMAIN q : Len(b[h]) <= Len(b[q[i]]) /\ Len(b[q[i]]) <= Len(b[h]) + 1
  <2> SUFFICES ASSUME NEW i \in DOMAIN q
               PROVE  Len(b[h]) <= Len(b[q[i]]) /\ Len(b[q[i]]) <= Len(b[h]) + 1
    OBVIOUS
  <2>1. i = 1 \/ 1 < i
    BY <1>1
  <2> QED
    BY <1>1, <1>2, <2>1 DEF Settled
<1>7. /\ \A i, j \in DOMAIN q : i < j =>
             Len(b[q[i]]) <= Len(b[q[j]]) /\ Len(b[q[j]]) <= Len(b[q[i]]) + 1
      /\ \A m \in DOMAIN p : Len(b[m]) <= Len(b[h]) + 1
      /\ \A m \in DOMAIN p, x \in Map :
            /\ <<m, x>> \in L
            /\ (\A i \in DOMAIN q : q[i] # m) \/ (m = h /\ x \in e)
            => x \in DOMAIN p /\ Len(b[x]) <= Len(b[m]) + 1
  BY DEF Settled
<1> HIDE DEF h, p2, b2, r
<1>8. \A i \in DOMAIN r : r[i] \in DOMAIN p2
  BY <1>3, <1>5
<1>9. \A i, j \in DOMAIN r : i < j =>
          Len(b2[r[i]]) <= Len(b2[r[j]]) /\ Len(b2[r[j]]) <= Len(b2[r[i]]) + 1
  <2> SUFFICES ASSUME NEW i \in DOMAIN r, NEW j \in DOMAIN r, i < j
               PROVE  Len(b2[r[i]]) <= Len(b2[r[j]]) /\ Len(b2[r[j]]) <= Len(b2[r[i]]) + 1
    OBVIOUS
  <2>1. i \in DOMAIN q /\ r[i] = q[i] /\ q[i] \in DOMAIN p
    BY <1>1, <1>5
  <2>2. CASE j \in DOMAIN q
    BY <1>4, <1>5, <1>7, <2>1, <2>2
  <2>3. CASE j = Len(q) + 1
    BY <1>1, <1>2, <1>4, <1>5, <1>6, <2>1, <2>3
  <2> QED
    BY <1>5, <2>2, <2>3
<1>10. \A m \in DOMAIN p2 : Len(b2[m]) <= Len(b2[r[1]]) + 1
  BY <1>1, <1>2, <1>3, <1>4, <1>5, <1>7
<1>11. ASSUME NEW m \in DOMAIN p2, NEW x \in Map, <<m, x>> \in L,
              (\A i \in DOMAIN r : r[i] # m) \/ (r # << >> /\ m = r[1] /\ x \in e \union {n})
       PROVE  x \in DOMAIN p2 /\ Len(b2[x]) <= Len(b2[m]) + 1
  <2>1. m \in DOMAIN p
    BY <1>1, <1>3, <1>5, <1>11
  <2>2. (\A i \in DOMAIN q : q[i] # m) \/ (m = h /\ x \in e \union {n})
    BY <1>5, <1>11
  <2>3. CASE x = n /\ m = h
    BY <1>1, <1>2, <1>3, <1>4, <2>3
  <2>4. CASE (\A i \in DOMAIN q : q[i] # m) \/ (m = h /\ x \in e)
    BY <1>3, <1>4, <1>7, <1>11, <2>1, <2>4
  <2> QED
    BY <2>2, <2>3, <2>4
<1>12. Settled(L, r, e \union {n}, p2, b2)
  BY <1>5, <1>8, <1>9, <1>10, <1>11 DEF Settled
<1> QED
  BY <1>12 DEF h, p2, b2, r

\* A map that was visited waits already, or did.
LEMMA SettledSkips ==
    ASSUME NEW L, NEW S, NEW q, NEW e, NEW p, NEW b, Tree(L, S, p, b), Settled(L, q, e, p, b),
           q # << >>, NEW n \in DOMAIN p
    PROVE  Settled(L, q, e \union {n}, p, b)
<1>1. q[1] \in DOMAIN p /\ Len(b[n]) <= Len(b[q[1]]) + 1
  BY DEF Settled
<1>2. ASSUME NEW m \in DOMAIN p, NEW x \in Map, <<m, x>> \in L,
             (\A i \in DOMAIN q : q[i] # m) \/ (q # << >> /\ m = q[1] /\ x \in e \union {n})
      PROVE  x \in DOMAIN p /\ Len(b[x]) <= Len(b[m]) + 1
  <2>1. CASE m = q[1] /\ x = n
    BY <1>1, <2>1
  <2>2. CASE ~ (m = q[1] /\ x = n)
    BY <1>2, <2>2 DEF Settled
  <2> QED
    BY <2>1, <2>2
<1> QED
  BY <1>2 DEF Settled

\* The first map has waited long enough.
LEMMA SettledGoesOn ==
    ASSUME NEW L, NEW S, NEW q, NEW e, NEW p, NEW b, Tree(L, S, p, b), Settled(L, q, e, p, b),
           q # << >>, \A n \in Map : <<q[1], n>> \in L => n \in e
    PROVE  Settled(L, Tail(q), {}, p, b)
<1> DEFINE r == Tail(q)
<1>1. q \in Seq(Map) /\ Len(q) \in Nat /\ Len(q) > 0 /\ DOMAIN q = 1 .. Len(q) /\ 1 \in DOMAIN q
  BY DEF Settled
<1>2. /\ r \in Seq(Map) /\ Len(r) = Len(q) - 1 /\ DOMAIN r = 1 .. Len(q) - 1
      /\ \A i \in DOMAIN r : r[i] = q[i + 1] /\ i + 1 \in DOMAIN q
  BY <1>1
<1>3. \A i \in DOMAIN r : r[i] \in DOMAIN p
  BY <1>2 DEF Settled
<1>4. \A m \in DOMAIN p : Len(b[m]) \in Nat
  BY DEF Tree
<1> HIDE DEF r
<1>5. ASSUME NEW i \in DOMAIN r, NEW j \in DOMAIN r, i < j
      PROVE  Len(b[r[i]]) <= Len(b[r[j]]) /\ Len(b[r[j]]) <= Len(b[r[i]]) + 1
  <2>1. i + 1 < j + 1
    BY <1>2, <1>5
  <2> QED
    BY <1>2, <2>1 DEF Settled
<1>6. ASSUME r # << >>, NEW m \in DOMAIN p PROVE Len(b[m]) <= Len(b[r[1]]) + 1
  <2>1. 1 \in DOMAIN r /\ r[1] = q[2] /\ 2 \in DOMAIN q
    BY <1>2, <1>6
  <2>2. Len(b[q[1]]) <= Len(b[q[2]]) /\ Len(b[m]) <= Len(b[q[1]]) + 1
    BY <1>1, <2>1 DEF Settled
  <2>3. q[1] \in DOMAIN p /\ q[2] \in DOMAIN p
    BY <1>1, <2>1 DEF Settled
  <2> QED
    BY <1>4, <2>1, <2>2, <2>3
<1>7. ASSUME NEW m \in DOMAIN p, NEW x \in Map, <<m, x>> \in L, \A i \in DOMAIN r : r[i] # m
      PROVE  x \in DOMAIN p /\ Len(b[x]) <= Len(b[m]) + 1
  <2>1. CASE m = q[1]
    BY <1>7, <2>1 DEF Settled
  <2>2. CASE m # q[1]
    <3>1. ASSUME NEW i \in DOMAIN q PROVE q[i] # m
      <4>1. CASE i = 1
        BY <2>2, <4>1
      <4>2. CASE i # 1
        <5>1. i - 1 \in DOMAIN r /\ r[i - 1] = q[i]
          BY <1>1, <1>2, <4>2
        <5> QED
          BY <1>7, <5>1
      <4> QED
        BY <4>1, <4>2
    <3> QED
      BY <1>7, <3>1 DEF Settled
  <2> QED
    BY <2>1, <2>2
<1>8. Settled(L, r, {}, p, b)
  BY <1>2, <1>3, <1>5, <1>6, <1>7 DEF Settled
<1> QED
  BY <1>8 DEF r

\* What is known of the answer r: no layer has a finish if it says so; otherwise it is a walk
\* to a finish, and no layer that is nearer has one.
Answered(L, S, F, r) ==
    /\ r = NoRoute =>
          \A W : LayersOf(L, S, W) => \A k \in Nat : W[k] \intersect F = {}
    /\ r # NoRoute =>
          /\ \E m \in F : Walk(L, S, r, m)
          /\ Len(r) = 1 \/ \A W : LayersOf(L, S, W) => W[Len(r) - 2] \intersect F = {}

\* The first route to a finish is a shortest one.
LEMMA FoundShortest ==
    ASSUME NEW L, NEW S, NEW F, NEW q, NEW e, NEW p, NEW b, Tree(L, S, p, b), Settled(L, q, e, p, b),
           q # << >>, DOMAIN p \intersect F = {}, NEW n \in Map, <<q[1], n>> \in L, n \in F
    PROVE  Answered(L, S, F, Append(b[q[1]], n))
<1> DEFINE t == b[q[1]]
           r == Append(t, n)
<1>1. q[1] \in DOMAIN p
  BY DEF Settled
<1>2. Walk(L, S, t, q[1]) /\ Walk(L, S, r, n)
  BY <1>1, WalkLonger DEF Tree
<1>3. t \in Seq(Map) /\ Len(t) \in Nat /\ Len(t) > 0 /\ Len(r) = Len(t) + 1 /\ r # NoRoute
  <2>1. t \in Seq(Map) /\ Len(t) > 0
    BY <1>2 DEF Walk
  <2> HIDE DEF t
  <2>2. r \in Seq(Map) /\ Len(r) = Len(t) + 1
    BY <2>1
  <2> QED
    BY <2>1, <2>2, RouteAssumption
<1>4. \A W : LayersOf(L, S, W) => W[Len(t) - 1] \intersect F = {}
  <2> SUFFICES ASSUME NEW W, LayersOf(L, S, W) PROVE W[Len(t) - 1] \intersect F = {}
    OBVIOUS
  <2>1. Len(t) - 1 \in Nat /\ Len(t) - 1 < Len(b[q[1]])
    BY <1>3
  <2>2. \A m \in W[Len(t) - 1] : m \in DOMAIN p
    BY <2>1, NearVisited
  <2> QED
    BY <2>2
<1>5. Len(r) - 2 = Len(t) - 1
  BY <1>3
<1> QED
  BY <1>2, <1>3, <1>4, <1>5 DEF Answered

\* When nothing waits any more, no finish can be reached.
LEMMA NoneReached ==
    ASSUME NEW L, NEW S, NEW F, NEW q, NEW e, NEW p, NEW b, Tree(L, S, p, b), Settled(L, q, e, p, b),
           q = << >>, DOMAIN p \intersect F = {}
    PROVE  Answered(L, S, F, NoRoute)
<1>1. \A k \in DOMAIN p, m \in Map : <<k, m>> \in L => m \in DOMAIN p
  BY DEF Settled
<1>2. S \subseteq DOMAIN p
  BY DEF Tree
<1>3. ASSUME NEW W, LayersOf(L, S, W), NEW k \in Nat PROVE W[k] \intersect F = {}
  <2>1. W[k] \subseteq DOMAIN p
    BY <1>1, <1>2, <1>3, LayersClosed
  <2> QED
    BY <2>1
<1> QED
  BY <1>3 DEF Answered

\* As long as there is no answer, no finish was visited.
RouteOK(L, S, F, q, e, p, r) ==
    /\ S \subseteq Map
    /\ r = << >> => \E b : Tree(L, S, p, b) /\ Settled(L, q, e, p, b) /\ DOMAIN p \intersect F = {}
    /\ r # << >> => Answered(L, S, F, r)

RouteInv ==
    \E L, S, F, q, e, p, r :
        /\ L = links /\ S = starts /\ F = finishes /\ q = queue /\ e = seen /\ p = previous
        /\ r = route
        /\ RouteOK(L, S, F, q, e, p, r)

\* All starts wait.
LEMMA AllWait ==
    ASSUME NEW S \in SUBSET Map, NEW q \in Route!Bijection(1 .. Route!Cardinality(S), S)
    PROVE  q \in Seq(Map) /\ {q[i] : i \in DOMAIN q} = S
<1> DEFINE D == 1 .. Cardinality(S)
<1>1. Cardinality(S) \in Nat
  BY RouteAssumption, FS_Subset, FS_CardinalityType
<1>2. Route!Cardinality(S) = Cardinality(S)
  BY DEF Route!Cardinality, Cardinality
<1>3. q \in [D -> S] /\ \A m \in S : \E i \in D : q[i] = m
  BY <1>2 DEF Route!Bijection, Route!Injection, Route!Surjection
<1>4. q \in Seq(Map)
  BY <1>1, <1>3
<1> QED
  BY <1>3, <1>4

\* The starts are a tree of routes without a step.
LEMMA TreeBegins ==
    ASSUME NEW L, NEW S \in SUBSET Map, NEW q \in Seq(Map), {q[i] : i \in DOMAIN q} = S
    PROVE  \E b : /\ Tree(L, S, [m \in S |-> m], b)
                  /\ Settled(L, q, {}, [m \in S |-> m], b)
<1> DEFINE p == [m \in S |-> m]
           b == [m \in S |-> <<m>>]
<1>1. DOMAIN p = S /\ DOMAIN b = S /\ \A m \in S : b[m] = <<m>> /\ Len(b[m]) = 1 /\ b[m] \in Seq(Map)
  OBVIOUS
<1>2. b = [m \in S |-> b[m]]
  OBVIOUS
<1> HIDE DEF p, b
<1>3. BackOf(S, p, b)
  BY <1>1, <1>2 DEF BackOf, b
<1>4. \A m \in S : Walk(L, S, b[m], m)
  BY <1>1 DEF Walk
<1>5. Tree(L, S, p, b)
  BY <1>1, <1>2, <1>3, <1>4 DEF Tree
<1>6. \A i \in DOMAIN q : q[i] \in S
  OBVIOUS
<1>7. \A m \in S : \E i \in DOMAIN q : q[i] = m
  OBVIOUS
<1>8. q # << >> => 1 \in DOMAIN q
  OBVIOUS
<1>9. Settled(L, q, {}, p, b)
  BY <1>1, <1>6, <1>7, <1>8 DEF Settled
<1> QED
  BY <1>5, <1>9 DEF p

LEMMA RouteInit == Route!Init => RouteInv
<1> SUFFICES ASSUME Route!Init PROVE RouteInv
  OBVIOUS
<1>1. PICK L, S, F, q, e, p, r :
         /\ L = links /\ S = starts /\ F = finishes /\ q = queue /\ e = seen /\ p = previous
         /\ r = route
  OBVIOUS
<1>2. /\ S \in SUBSET Map /\ q \in Route!Bijection(1 .. Route!Cardinality(S), S) /\ e = {}
      /\ p = [m \in S |-> m]
      /\ IF S \intersect F = {} THEN r = << >> ELSE \E m \in S \intersect F : r = <<m>>
  BY <1>1 DEF Route!Init, Route!Codes
<1>3. CASE r = << >>
  <2>1. S \intersect F = {}
    BY <1>2, <1>3
  <2>2. \E b : Tree(L, S, p, b) /\ Settled(L, q, e, p, b)
    BY <1>2, AllWait, TreeBegins
  <2>3. DOMAIN p = S
    BY <1>2
  <2> QED
    BY <1>1, <1>2, <1>3, <2>1, <2>2, <2>3 DEF RouteInv, RouteOK
<1>4. CASE r # << >>
  <2>1. PICK m \in S \intersect F : r = <<m>>
    BY <1>2, <1>4
  <2>2. r \in Seq(Map) /\ Len(r) = 1 /\ r[1] = m
    BY <1>2, <2>1
  <2>3. Walk(L, S, r, m)
    BY <2>1, <2>2 DEF Walk
  <2>4. Answered(L, S, F, r)
    BY <2>1, <2>2, <2>3, RouteAssumption DEF Answered
  <2> QED
    BY <1>1, <1>2, <1>4, <2>4 DEF RouteInv, RouteOK
<1> QED
  BY <1>3, <1>4

\* The functions that are defined recursively, as choices of one that fits.
LEMMA RestoredChosen ==
    ASSUME NEW m
    PROVE  Route!Restored(m) = (CHOOSE B : BackOf(starts, previous, B))[m]
  BY DEF Route!Restored, Route!Visited, BackOf

LEMMA WithinChosen == Route!Within = (CHOOSE W : LayersOf(links, starts, W))
  BY DEF Route!Within, LayersOf

\* The maps that a walk of n steps at most leads to are the layers.
LEMMA LayersExist ==
    ASSUME NEW L, NEW S \in SUBSET Map
    PROVE  \E W : LayersOf(L, S, W)
<1> DEFINE W == [n \in Nat |-> {m \in Map : \E t \in Seq(Map) : Walk(L, S, t, m) /\ Len(t) <= n + 1}]
<1>1. \A n \in Nat : \A m : m \in W[n] <=> m \in Map /\ \E t \in Seq(Map) : Walk(L, S, t, m) /\ Len(t) <= n + 1
  OBVIOUS
<1>2. W = [n \in Nat |-> W[n]]
  OBVIOUS
<1> HIDE DEF W
<1>3. W[0] = S
  <2>1. ASSUME NEW m \in W[0] PROVE m \in S
    <3>1. PICK t \in Seq(Map) : Walk(L, S, t, m) /\ Len(t) <= 0 + 1
      BY <1>1, <2>1
    <3>2. Len(t) > 0 /\ Len(t) \in Nat
      BY <3>1 DEF Walk
    <3>3. Len(t) = 1
      <4>1. Len(t) <= 1
        BY <3>1
      <4>2. \A l \in Nat : l > 0 /\ l <= 1 => l = 1
        OBVIOUS
      <4> QED
        BY <3>2, <4>1, <4>2
    <3> QED
      BY <3>1, <3>3 DEF Walk
  <2>2. ASSUME NEW m \in S PROVE m \in W[0]
    <3>1. <<m>> \in Seq(Map) /\ Len(<<m>>) = 1 /\ <<m>>[1] = m
      OBVIOUS
    <3>2. Walk(L, S, <<m>>, m)
      BY <3>1 DEF Walk
    <3>3. \E t \in Seq(Map) : Walk(L, S, t, m) /\ Len(t) <= 0 + 1
      <4>1. Len(<<m>>) <= 0 + 1
        BY <3>1
      <4> QED
        BY <3>1, <3>2, <4>1
    <3> QED
      BY <1>1, <3>3
  <2> QED
    BY <2>1, <2>2
<1>4. ASSUME NEW n \in Nat, n # 0
      PROVE  W[n] = W[n - 1] \union {m \in Map : \E k \in W[n - 1] : <<k, m>> \in L}
  <2>1. n - 1 \in Nat /\ n - 1 + 1 = n
    BY <1>4
  <2>2. ASSUME NEW m \in W[n], m \notin W[n - 1]
        PROVE  m \in Map /\ \E k \in W[n - 1] : <<k, m>> \in L
    <3>1. PICK t \in Seq(Map) : Walk(L, S, t, m) /\ Len(t) <= n + 1
      BY <1>1, <2>2
    <3>2. m \in Map
      BY <1>1, <2>2
    <3>3. Len(t) \in Nat /\ ~ (Len(t) <= n)
      BY <1>1, <2>1, <2>2, <3>1, <3>2
    <3>4. Len(t) = n + 1
      BY <3>1, <3>3
    <3> DEFINE u == SubSeq(t, 1, n)
               k == t[n]
    <3>5. /\ u \in Seq(Map) /\ Len(u) = n /\ \A i \in 1 .. n : u[i] = t[i]
          /\ 1 \in 1 .. n /\ n \in 1 .. n /\ n \in 1 .. Len(t) - 1 /\ k \in Map
      BY <1>4, <3>4
    <3>6. <<k, m>> \in L
      <4>1. <<t[n], t[n + 1]>> \in L /\ t[n + 1] = m
        BY <3>1, <3>4, <3>5 DEF Walk
      <4> QED
        BY <4>1
    <3>7. \A i \in 1 .. n - 1 : <<u[i], u[i + 1]>> \in L
      <4> SUFFICES ASSUME NEW i \in 1 .. n - 1 PROVE <<u[i], u[i + 1]>> \in L
        OBVIOUS
      <4>1. i \in 1 .. n /\ i + 1 \in 1 .. n /\ i \in 1 .. Len(t) - 1
        BY <1>4, <3>4
      <4>2. u[i] = t[i] /\ u[i + 1] = t[i + 1] /\ <<t[i], t[i + 1]>> \in L
        BY <3>1, <3>5, <4>1 DEF Walk
      <4> QED
        BY <4>2
    <3>8. u[1] \in S /\ u[n] = k
      BY <3>1, <3>5 DEF Walk
    <3> HIDE DEF u, k
    <3>9. Walk(L, S, u, k)
      BY <1>4, <3>5, <3>7, <3>8 DEF Walk
    <3>10. k \in W[n - 1]
      BY <1>1, <2>1, <3>5, <3>9
    <3> QED
      BY <3>2, <3>6, <3>10
  <2>3. ASSUME NEW m \in W[n - 1] PROVE m \in W[n]
    <3>1. PICK t \in Seq(Map) : Walk(L, S, t, m) /\ Len(t) <= n
      BY <1>1, <2>1, <2>3
    <3>2. m \in Map /\ Len(t) <= n + 1
      BY <1>1, <2>1, <2>3, <3>1
    <3> QED
      BY <1>1, <3>1, <3>2
  <2>4. ASSUME NEW m \in Map, NEW k \in W[n - 1], <<k, m>> \in L PROVE m \in W[n]
    <3>1. PICK t \in Seq(Map) : Walk(L, S, t, k) /\ Len(t) <= n
      BY <1>1, <2>1, <2>4
    <3>2. Walk(L, S, Append(t, m), m)
      BY <2>4, <3>1, WalkLonger
    <3>3. Append(t, m) \in Seq(Map) /\ Len(Append(t, m)) <= n + 1
      BY <3>1
    <3> QED
      BY <1>1, <3>2, <3>3
  <2> QED
    BY <2>2, <2>3, <2>4
<1>5. \A n \in Nat : W[n] = IF n = 0 THEN S
                            ELSE W[n - 1] \union {m \in Map : \E k \in W[n - 1] : <<k, m>> \in L}
  BY <1>3, <1>4
<1>6. LayersOf(L, S, W)
  BY <1>2, <1>5 DEF LayersOf
<1> QED
  BY <1>6

LEMMA RestoredIs ==
    ASSUME NEW b, BackOf(starts, previous, b),
           \A B : BackOf(starts, previous, B) => B = b, NEW m
    PROVE  Route!Restored(m) = b[m]
<1>1. BackOf(starts, previous, CHOOSE B : BackOf(starts, previous, B))
  OBVIOUS
<1> QED
  BY <1>1, RestoredChosen

LEMMA RouteNext == ASSUME RouteInv, Route!Next \/ UNCHANGED routeVars PROVE RouteInv'
<1>1. PICK L, S, F, q, e, p, r :
         /\ L = links /\ S = starts /\ F = finishes /\ q = queue /\ e = seen /\ p = previous
         /\ r = route
         /\ RouteOK(L, S, F, q, e, p, r)
  BY DEF RouteInv
<1>2. PICK q2, e2, p2, r2 : q2 = queue' /\ e2 = seen' /\ p2 = previous' /\ r2 = route'
  OBVIOUS
<1>3. /\ links' = L /\ starts' = S /\ finishes' = F
      /\ S \subseteq Map
  BY <1>1 DEF Route!Next, Route!Look, Route!Skip, Route!Advance, routeVars, RouteOK
<1> SUFFICES RouteOK(L, S, F, q2, e2, p2, r2)
  BY <1>2, <1>3 DEF RouteInv
<1>4. CASE UNCHANGED routeVars
  <2>1. q2 = q /\ e2 = e /\ p2 = p /\ r2 = r
    BY <1>1, <1>2, <1>4 DEF routeVars
  <2> QED
    BY <1>1, <2>1
<1>5. CASE Route!Next
  <2>1. r = << >> /\ q # << >>
    BY <1>1, <1>5 DEF Route!Next, Route!Look, Route!Skip, Route!Advance, Route!Searching
  <2>2. PICK b : Tree(L, S, p, b) /\ Settled(L, q, e, p, b) /\ DOMAIN p \intersect F = {}
    BY <1>1, <2>1 DEF RouteOK
  <2>3. Head(q) = q[1] /\ q[1] \in DOMAIN p /\ q \in Seq(Map) /\ DOMAIN p \subseteq Map
    BY <2>1, <2>2 DEF Settled, Tree
  <2>4. CASE \E n \in Map : Route!Look(n)
    <3>1. PICK n \in Map : Route!Look(n)
      BY <2>4
    <3>2. /\ <<q[1], n>> \in L /\ n \notin DOMAIN p
          /\ p2 = Mapped(p, n, q[1]) /\ e2 = e \union {n}
          /\ IF n \in F THEN r2 = Append(Route!Restored(q[1]), n) ELSE r2 = r /\ q2 = Append(q, n)
      BY <1>1, <1>2, <2>3, <3>1
         DEF Route!Look, Route!Unseen, Route!From, Route!Visited, Mapped
    <3>3. CASE n \in F
      <4>1. Route!Restored(q[1]) = b[q[1]]
        <5>1. BackOf(S, p, b) /\ \A B : BackOf(S, p, B) => B = b
          <6>1. BackOf(S, p, b)
            BY <2>2 DEF Tree
          <6> QED
            BY <2>2, <6>1, BackUnique
        <5> QED
          BY <1>1, <5>1, RestoredIs
      <4>2. Answered(L, S, F, r2)
        BY <2>1, <2>2, <3>2, <3>3, <4>1, FoundShortest
      <4>3. r2 # << >>
        <5>1. b[q[1]] \in Seq(Map)
          BY <2>2, <2>3 DEF Tree
        <5> QED
          BY <3>2, <3>3, <4>1, <5>1
      <4> QED
        BY <1>3, <4>2, <4>3 DEF RouteOK
    <3>4. CASE n \notin F
      <4> q2 = Append(q, n) /\ r2 = r
        BY <3>2, <3>4
      <4>1. Tree(L, S, p2, Mapped(b, n, Append(b[q[1]], n)))
        BY <2>2, <2>3, <3>2, TreeGrows
      <4>2. Settled(L, q2, e2, p2, Mapped(b, n, Append(b[q[1]], n)))
        BY <2>1, <2>2, <3>2, <3>4, SettledGrows
      <4>3. DOMAIN p2 \intersect F = {}
        BY <2>2, <3>2, <3>4 DEF Mapped
      <4> QED
        BY <1>3, <2>1, <3>2, <3>4, <4>1, <4>2, <4>3 DEF RouteOK
    <3> QED
      BY <3>3, <3>4
  <2>5. CASE \E n \in Map : Route!Skip(n)
    <3>1. PICK n \in Map : Route!Skip(n)
      BY <2>5
    <3>2. n \in DOMAIN p /\ q2 = q /\ p2 = p /\ r2 = r /\ e2 = e \union {n}
      BY <1>1, <1>2, <3>1 DEF Route!Skip, Route!Visited
    <3>3. Settled(L, q, e \union {n}, p, b)
      BY <2>1, <2>2, <3>2, SettledSkips
    <3> QED
      BY <1>3, <2>1, <2>2, <3>2, <3>3 DEF RouteOK
  <2>6. CASE Route!Advance
    <3>1. /\ q2 = Tail(q) /\ e2 = {} /\ p2 = p
          /\ r2 = IF Len(q) = 1 THEN NoRoute ELSE r
          /\ \A n \in Map : <<q[1], n>> \in L => n \in e
      BY <1>1, <1>2, <2>3, <2>6 DEF Route!Advance, Route!Unseen, Route!From
    <3>2. Settled(L, q2, e2, p, b)
      BY <2>1, <2>2, <3>1, SettledGoesOn
    <3>3. CASE Len(q) = 1
      <4>1. q2 = << >>
        BY <2>3, <3>1, <3>3
      <4>2. Answered(L, S, F, NoRoute)
        BY <2>2, <3>2, <4>1, NoneReached
      <4>3. NoRoute # << >>
        <5>1. << >> \in Seq(Map)
          OBVIOUS
        <5> QED
          BY <5>1, RouteAssumption
      <4> QED
        BY <1>3, <3>1, <3>3, <4>2, <4>3 DEF RouteOK
    <3>4. CASE Len(q) # 1
      BY <1>3, <2>1, <2>2, <3>1, <3>2, <3>4 DEF RouteOK
    <3> QED
      BY <3>3, <3>4
  <2> QED
    BY <1>5, <2>4, <2>5, <2>6 DEF Route!Next
<1> QED
  BY <1>4, <1>5

\* When nothing is asked, nothing waits.
LEMMA RouteEmpty ==
    ASSUME links = {}, starts = {}, finishes = {}, queue = << >>, seen = {}, previous = << >>,
           route = << >>
    PROVE  RouteInv
<1>1. PICK L, S, F, q, e, p, r :
         /\ L = links /\ S = starts /\ F = finishes /\ q = queue /\ e = seen /\ p = previous
         /\ r = route
  OBVIOUS
<1>2. S \in SUBSET Map /\ q \in Seq(Map) /\ {q[i] : i \in DOMAIN q} = S /\ e = {} /\ r = << >>
  BY <1>1
<1>3. p = [m \in S |-> m] /\ DOMAIN p \intersect F = {}
  BY <1>1
<1>4. \E b : Tree(L, S, p, b) /\ Settled(L, q, e, p, b)
  BY <1>2, <1>3, TreeBegins
<1>5. RouteOK(L, S, F, q, e, p, r)
  BY <1>2, <1>3, <1>4 DEF RouteOK
<1> QED
  BY <1>1, <1>5 DEF RouteInv

LEMMA ShortestRouteHolds == RouteInv => Route!ShortestRoute
<1> SUFFICES ASSUME RouteInv PROVE Route!ShortestRoute
  OBVIOUS
<1>1. PICK L, S, F, q, e, p, r :
         /\ L = links /\ S = starts /\ F = finishes /\ q = queue /\ e = seen /\ p = previous
         /\ r = route
         /\ RouteOK(L, S, F, q, e, p, r)
  BY DEF RouteInv
<1>2. LayersOf(L, S, Route!Within)
  <2>1. \E W : LayersOf(L, S, W)
    BY <1>1, LayersExist DEF RouteOK
  <2>2. LayersOf(L, S, CHOOSE W : LayersOf(L, S, W))
    BY <2>1
  <2>3. Route!Within = CHOOSE W : LayersOf(L, S, W)
    BY <1>1, WithinChosen
  <2> QED
    BY <2>2, <2>3
<1>3. ASSUME r = NoRoute PROVE Route!Within[Route!Cardinality(Map)] \intersect F = {}
  <2>1. NoRoute # << >>
    <3>1. << >> \in Seq(Map)
      OBVIOUS
    <3> QED
      BY <3>1, RouteAssumption
  <2>2. \A k \in Nat : Route!Within[k] \intersect F = {}
    BY <1>1, <1>2, <1>3, <2>1 DEF RouteOK, Answered
  <2>3. Cardinality(Map) \in Nat /\ Route!Cardinality(Map) = Cardinality(Map)
    BY RouteAssumption, FS_CardinalityType DEF Route!Cardinality, Cardinality
  <2> QED
    BY <2>2, <2>3
<1>4. ASSUME r \notin {NoRoute, << >>}
      PROVE  /\ r[1] \in S /\ r[Len(r)] \in F
             /\ \A n \in 1 .. Len(r) - 1 : <<r[n], r[n + 1]>> \in L
             /\ Len(r) = 1 \/ Route!Within[Len(r) - 2] \intersect F = {}
  <2>1. Answered(L, S, F, r) /\ r # NoRoute
    BY <1>1, <1>4 DEF RouteOK
  <2>2. PICK m \in F : Walk(L, S, r, m)
    BY <2>1 DEF Answered
  <2>3. Len(r) = 1 \/ Route!Within[Len(r) - 2] \intersect F = {}
    BY <1>2, <2>1 DEF Answered
  <2> QED
    BY <2>2, <2>3 DEF Walk
<1> QED
  BY <1>1, <1>3, <1>4 DEF Route!ShortestRoute

-----------------------------------------------------------------------------
\* A route that is found is a walk over connections from a start to a finish, and none is
\* shorter; it is only said that there is none if no finish can be reached: for any maps,
\* connections, groups and names, and in whatever order these are stored (findShortestRoute).
THEOREM LiveShortestRoute == LiveSpec => []ShortestRoute
<1>1. LiveInit => RouteInv
  <2> SUFFICES ASSUME LiveInit PROVE RouteInv
    OBVIOUS
  <2>1. \/ Route!Init
        \/ links = {} /\ starts = {} /\ finishes = {} /\ queue = << >> /\ seen = {}
           /\ previous = << >> /\ route = << >>
    BY DEF LiveInit
  <2> QED
    BY <2>1, RouteInit, RouteEmpty
<1>2. RouteInv /\ [LiveNext]_liveVars => RouteInv'
  BY StepsApart, RouteNext
<1>3. RouteInv => ShortestRoute
  BY ShortestRouteHolds DEF ShortestRoute
<1> QED
  BY <1>1, <1>2, <1>3, PTL DEF LiveSpec
=============================================================================
