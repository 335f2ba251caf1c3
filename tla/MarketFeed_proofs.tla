--------------------------- MODULE MarketFeed_proofs ---------------------------
(***************************************************************************)
(* What the quotes tell of the shouts, for any number of shouts, offers    *)
(* and overlapping calls, whichever of them stop and whenever new rules    *)
(* are deployed.  A call that is about to record its shouts has counted    *)
(* them, so the quotes must count those as well: that is what makes the    *)
(* invariant inductive.  And of all the calls that take a shout in, only   *)
(* the one that stored it hands it to the alerts.                          *)
(***************************************************************************)
EXTENDS MarketFeed, FiniteSetTheorems, TLAPS

\* The shouts that the quote of o must have counted: those recorded for v, and those that a
\* call is about to record.
Due(v, o) ==
    {m \in Shout :
        /\ o \in chat[m].offers
        /\ \/ [shout |-> m, version |-> v] \in recorded
           \/ v = version /\ \E c \in Call : job[c].pc = "record" /\ m \in job[c].batch}

Stored(m) == chat[m].stored

\* Only shouts that are stored, which are finitely many, are taken in.
StoredOnly ==
    /\ IsFiniteSet({m \in Shout : Stored(m)})
    /\ \A m \in Shout : ~Stored(m) => chat[m] = Unsaid
    /\ \A r \in recorded : Stored(r.shout)
    /\ \A c \in Call : \A m \in job[c].batch : Stored(m)

\* The quotes count, between their times, all that they must have counted.
DueCounted ==
    \A v \in Version, o \in Offer :
        /\ Cardinality(Due(v, o)) <= quotes[v][o].seen
        /\ \A m \in Due(v, o) :
              quotes[v][o].first <= chat[m].at /\ chat[m].at <= quotes[v][o].last

\* One call at most is to hand a shout to the alerts, and only if none has.
HandsOnce ==
    \A c \in Call, m \in Shout :
        job[c].notify /\ m \in job[c].batch =>
            /\ handed[m] = 0
            /\ \A d \in Call : job[d].notify /\ m \in job[d].batch => c = d

\* The inductive invariant.
IInv == TypeOK /\ StoredOnly /\ DueCounted /\ QuoteTimesReal /\ HandedOnce /\ HandsOnce

-----------------------------------------------------------------------------
\* The earliest and the latest of some times

\* Some interval from 0 is contained in all others.
LEMMA Least ==
    ASSUME NEW S \in SUBSET Nat, S # {}
    PROVE  \E m \in S : \A n \in S : m <= n
<1> DEFINE T == {0 .. n : n \in S}
<1>1. T \subseteq FiniteSubsetsOf(Nat) /\ T # {}
  <2>1. \A n \in S : IsFiniteSet(0 .. n) /\ 0 .. n \subseteq Nat
    BY FS_Interval
  <2> QED
    BY <2>1 DEF FiniteSubsetsOf
<1>2. PICK x \in T : \A y \in T : <<y, x>> \notin StrictSubsetOrdering(Nat)
  <2> HIDE DEF T
  <2> QED
    BY <1>1, FS_StrictSubsetOrderingWellFounded, WFMin
<1>3. PICK m \in S : x = 0 .. m
  OBVIOUS
<1>4. ASSUME NEW n \in S, ~ (m <= n) PROVE FALSE
  <2>1. 0 .. n \subseteq 0 .. m /\ m \in 0 .. m /\ m \notin 0 .. n
    BY <1>4
  <2>2. <<0 .. n, x>> \in StrictSubsetOrdering(Nat)
    BY <1>3, <2>1 DEF StrictSubsetOrdering
  <2> QED
    BY <1>2, <2>2
<1> QED
  BY <1>4

\* What is least when counted down from a bound is the greatest.
LEMMA Greatest ==
    ASSUME NEW N \in Nat, NEW S \in SUBSET (0 .. N), S # {}
    PROVE  \E m \in S : \A n \in S : n <= m
<1> DEFINE D == {N - n : n \in S}
<1>1. D \in SUBSET Nat /\ D # {}
  <2>1. \A n \in S : n \in 0 .. N /\ N - n \in Nat
    OBVIOUS
  <2> QED
    BY <2>1
<1>2. PICK d \in D : \A e \in D : d <= e
  <2> HIDE DEF D
  <2> QED
    BY <1>1, Least
<1>3. PICK m \in S : d = N - m
  OBVIOUS
<1>4. \A n \in S : n <= m
  <2>1. \A n \in S : N - m <= N - n
    BY <1>2, <1>3
  <2> QED
    BY <2>1
<1> QED
  BY <1>4

\* Earliest and Latest are what they are called.
LEMMA ExtremesOfTimes ==
    ASSUME NEW S \in SUBSET Time, S # {}
    PROVE  /\ Earliest(S) \in S /\ \A t \in S : Earliest(S) <= t
           /\ Latest(S) \in S /\ \A t \in S : t <= Latest(S)
<1>1. MaxTime \in Nat /\ S \in SUBSET Nat
  BY BoundAssumption DEF Time
<1>2. \E m \in S : \A n \in S : m <= n
  BY <1>1, Least
<1>3. \E m \in S : \A n \in S : n <= m
  BY <1>1, Greatest DEF Time
<1> QED
  BY <1>2, <1>3 DEF Earliest, Latest

-----------------------------------------------------------------------------
\* The upserts of a quote

\* A quote that counts `due`, and is upserted by the shouts `said`, counts both.
LEMMA CountedHolds ==
    ASSUME chat \in [Shout -> Message], NEW q \in Quote,
           NEW due \in SUBSET Shout, IsFiniteSet(due), Cardinality(due) <= q.seen,
           \A m \in due : q.first <= chat[m].at /\ chat[m].at <= q.last,
           NEW said \in SUBSET Shout, IsFiniteSet(said), said # {}
    PROVE  /\ Counted(q, said) \in Quote
           /\ Counted(q, said).seen > 0
           /\ Cardinality(due \union said) <= Counted(q, said).seen
           /\ \A m \in due \union said :
                 /\ Counted(q, said).first <= chat[m].at
                 /\ chat[m].at <= Counted(q, said).last
           /\ \A t \in {Counted(q, said).first, Counted(q, said).last} :
                 (\E m \in said : chat[m].at = t) \/ (q.seen > 0 /\ t \in {q.first, q.last})
<1> DEFINE times == {chat[m].at : m \in said}
                       \union (IF q.seen = 0 THEN {} ELSE {q.first, q.last})
           r == Counted(q, said)
<1>1. q.seen \in Nat /\ q.first \in Time /\ q.last \in Time
  BY DEF Quote
<1>2. \A m \in Shout : chat[m].at \in Time
  BY DEF Message
<1>3. times \in SUBSET Time /\ times # {}
  BY <1>1, <1>2
<1>4. r = [seen |-> q.seen + Cardinality(said), first |-> Earliest(times),
           last |-> Latest(times)]
  BY DEF Counted
<1>5. Cardinality(said) \in Nat /\ Cardinality(said) > 0 /\ Cardinality(due) \in Nat
  BY FS_CardinalityType, FS_EmptySet
<1>6. Cardinality(due \union said) <= Cardinality(due) + Cardinality(said)
  <2>1. /\ Cardinality(due \union said) =
              Cardinality(due) + Cardinality(said) - Cardinality(due \cap said)
        /\ IsFiniteSet(due \cap said)
    BY FS_Union, FS_Intersection
  <2>2. Cardinality(due \cap said) \in Nat
    BY <2>1, FS_CardinalityType
  <2> QED
    BY <1>5, <2>1, <2>2
<1>7. IsFiniteSet(due \union said) /\ Cardinality(due \union said) \in Nat
  BY FS_Union, FS_CardinalityType
<1>8. q.seen = 0 => due = {}
  <2>1. q.seen = 0 => Cardinality(due) = 0
    BY <1>5
  <2> QED
    BY <2>1, FS_EmptySet
<1> HIDE DEF times
<1>9. /\ Earliest(times) \in times /\ \A t \in times : Earliest(times) <= t
      /\ Latest(times) \in times /\ \A t \in times : t <= Latest(times)
  BY <1>3, ExtremesOfTimes
<1>10. r \in Quote /\ r.seen = q.seen + Cardinality(said)
       /\ r.first = Earliest(times) /\ r.last = Latest(times)
  <2>1. Earliest(times) \in Time /\ Latest(times) \in Time
    BY <1>3, <1>9
  <2> QED
    BY <1>1, <1>4, <1>5, <2>1 DEF Quote
<1> HIDE DEF r
<1>11. r.seen > 0 /\ Cardinality(due \union said) <= r.seen
  BY <1>1, <1>5, <1>6, <1>7, <1>10
<1>12. /\ \A m \in said : chat[m].at \in times
       /\ q.seen # 0 => q.first \in times /\ q.last \in times
       /\ \A t \in times : (\E m \in said : chat[m].at = t)
                              \/ (q.seen # 0 /\ t \in {q.first, q.last})
  BY Zenon DEF times
<1>13. \A m \in due \union said : r.first <= chat[m].at /\ chat[m].at <= r.last
  <2> SUFFICES ASSUME NEW m \in due \union said
               PROVE  r.first <= chat[m].at /\ chat[m].at <= r.last
    OBVIOUS
  <2>1. /\ r.first \in Int /\ r.last \in Int /\ chat[m].at \in Int
        /\ q.first \in Int /\ q.last \in Int
    BY <1>1, <1>2, <1>10, BoundAssumption DEF Quote, Time
  <2>2. CASE m \in said
    BY <1>9, <1>10, <1>12, <2>2
  <2>3. CASE m \in due
    <3>1. r.first <= q.first /\ q.last <= r.last
      BY <1>8, <1>9, <1>10, <1>12, <2>3
    <3> QED
      BY <2>1, <2>3, <3>1
  <2> QED
    BY <2>2, <2>3
<1>14. \A t \in {r.first, r.last} :
           (\E m \in said : chat[m].at = t) \/ (q.seen > 0 /\ t \in {q.first, q.last})
  BY <1>1, <1>9, <1>10, <1>12
<1> QED
  BY <1>10, <1>11, <1>13, <1>14 DEF r

-----------------------------------------------------------------------------
\* The invariant is kept by every step

\* What every step uses of the invariant.
LEMMA Known ==
    ASSUME IInv
    PROVE  /\ now \in Time /\ version \in Version
           /\ chat \in [Shout -> Message] /\ recorded \subseteq [shout : Shout, version : Version]
           /\ quotes \in [Version -> [Offer -> Quote]]
           /\ handed \in [Shout -> Nat] /\ job \in [Call -> Job]
           /\ \A c \in Call : job[c].pc = "idle" <=> job[c].batch = {}
           /\ \A c \in Call : job[c].batch \subseteq Shout
           /\ \A m \in Shout : chat[m].at \in Time /\ chat[m].offers \subseteq Offer
  BY DEF IInv, TypeOK, Job, Message

\* A handler that ended keeps nothing.
LEMMA IdleFits ==
    Idle \in Job /\ Idle.pc = "idle" /\ Idle.batch = {} /\ ~Idle.notify
  BY DEF Idle, Job

\* The shouts that a quote must count are stored, so there are finitely many.
LEMMA DueFinite ==
    ASSUME IInv, NEW v, NEW o
    PROVE  Due(v, o) \subseteq Shout /\ IsFiniteSet(Due(v, o))
<1>1. Due(v, o) \subseteq {m \in Shout : Stored(m)}
  BY DEF IInv, StoredOnly, Due
<1> QED
  BY <1>1, FS_Subset DEF IInv, StoredOnly

\* A step that writes no quote asks for no more to be counted, and leaves every shout that
\* has offers as it is.
LEMMA CountsKept ==
    ASSUME IInv, quotes' = quotes,
           \A m \in Shout : chat[m].offers # {} => chat'[m] = chat[m],
           \A v \in Version, o \in Offer : Due(v, o)' \subseteq Due(v, o)
    PROVE  DueCounted' /\ QuoteTimesReal'
<1>1. ASSUME NEW v \in Version, NEW o \in Offer
      PROVE  /\ Cardinality(Due(v, o)') <= quotes[v][o].seen
             /\ \A m \in Due(v, o)' :
                   quotes[v][o].first <= chat'[m].at /\ chat'[m].at <= quotes[v][o].last
  <2>1. /\ IsFiniteSet(Due(v, o)) /\ Cardinality(Due(v, o)) <= quotes[v][o].seen
        /\ \A m \in Due(v, o) :
              quotes[v][o].first <= chat[m].at /\ chat[m].at <= quotes[v][o].last
    BY DueFinite DEF IInv, DueCounted
  <2>2. Due(v, o)' \subseteq Due(v, o)
    OBVIOUS
  <2>3. \A m \in Due(v, o) : chat'[m] = chat[m]
    BY DEF Due
  <2> DEFINE due == Due(v, o)'
  <2>4. /\ Cardinality(due) <= Cardinality(Due(v, o))
        /\ Cardinality(due) \in Nat /\ Cardinality(Due(v, o)) \in Nat
    <3> HIDE DEF due
    <3> QED
      BY <2>1, <2>2, FS_Subset, FS_CardinalityType DEF due
  <2>5. quotes[v][o].seen \in Nat
    BY Known DEF Quote
  <2> QED
    BY <2>1, <2>2, <2>3, <2>4, <2>5
<1>2. QuoteTimesReal'
  <2> SUFFICES ASSUME NEW v \in Version, NEW o \in Offer, quotes[v][o].seen > 0
               PROVE  /\ \E m \in Shout : o \in chat'[m].offers
                                            /\ chat'[m].at = quotes[v][o].first
                      /\ \E m \in Shout : o \in chat'[m].offers
                                            /\ chat'[m].at = quotes[v][o].last
    BY DEF QuoteTimesReal
  <2>1. /\ \E m \in Shout : o \in chat[m].offers /\ chat[m].at = quotes[v][o].first
        /\ \E m \in Shout : o \in chat[m].offers /\ chat[m].at = quotes[v][o].last
    BY DEF IInv, QuoteTimesReal
  <2> QED
    BY <2>1
<1> QED
  BY <1>1, <1>2 DEF DueCounted

\* The bulk write of a call, all or part of it: what it applied may be asked for.
LEMMA CountsWritten ==
    ASSUME IInv, NEW c \in Call, NEW applied \in SUBSET Operations(job[c].batch),
           quotes' = QuotesAfter(applied), chat' = chat,
           \A v \in Version, o \in Offer : \A m \in Due(v, o)' :
               m \in Due(v, o) \/ (v = version /\ [shout |-> m, offer |-> o] \in applied)
    PROVE  quotes' \in [Version -> [Offer -> Quote]] /\ DueCounted' /\ QuoteTimesReal'
<1> DEFINE Said(o) == {m \in Shout : [shout |-> m, offer |-> o] \in applied}
<1>1. ASSUME NEW o \in Offer
      PROVE  /\ Said(o) \subseteq Shout /\ IsFiniteSet(Said(o))
             /\ \A m \in Said(o) : o \in chat[m].offers
  <2>1. \A m \in Said(o) : m \in job[c].batch /\ o \in chat[m].offers
    BY DEF Operations
  <2>2. Said(o) \subseteq {m \in Shout : Stored(m)}
    BY <2>1 DEF IInv, StoredOnly
  <2> QED
    BY <2>1, <2>2, FS_Subset DEF IInv, StoredOnly
<1>2. \A v \in Version, o \in Offer :
         quotes'[v][o] = IF v # version \/ Said(o) = {} THEN quotes[v][o]
                         ELSE Counted(quotes[v][o], Said(o))
  BY DEF QuotesAfter
<1>3. quotes' = [v \in Version |-> [o \in Offer |-> quotes'[v][o]]]
  BY DEF QuotesAfter
<1>4. \A v \in Version, o \in Offer :
         Due(v, o)' \subseteq Due(v, o) \union (IF v = version THEN Said(o) ELSE {})
  BY DEF Due
<1> HIDE DEF Said
<1>5. ASSUME NEW v \in Version, NEW o \in Offer
      PROVE  /\ quotes'[v][o] \in Quote
             /\ Cardinality(Due(v, o)') <= quotes'[v][o].seen
             /\ \A m \in Due(v, o)' :
                   quotes'[v][o].first <= chat[m].at /\ chat[m].at <= quotes'[v][o].last
             /\ quotes'[v][o].seen > 0 =>
                   \A t \in {quotes'[v][o].first, quotes'[v][o].last} :
                      \E m \in Shout : o \in chat[m].offers /\ chat[m].at = t
  <2> DEFINE q == quotes[v][o]
             due == Due(v, o)
             after == Due(v, o)'
  <2>1. /\ q \in Quote /\ due \in SUBSET Shout /\ IsFiniteSet(due)
        /\ Cardinality(due) <= q.seen
        /\ \A m \in due : q.first <= chat[m].at /\ chat[m].at <= q.last
        /\ q.seen > 0 => \A t \in {q.first, q.last} :
              \E m \in Shout : o \in chat[m].offers /\ chat[m].at = t
    BY Known, DueFinite DEF IInv, DueCounted, QuoteTimesReal
  <2>2. after \subseteq due \union (IF v = version THEN Said(o) ELSE {})
    BY <1>4
  <2>3. IsFiniteSet(due) /\ Cardinality(due) \in Nat /\ q.seen \in Nat
    BY <2>1, FS_CardinalityType DEF Quote
  <2> HIDE DEF due, after
  <2>4. CASE v # version \/ Said(o) = {}
    <3>1. after \subseteq due /\ quotes'[v][o] = q
      BY <1>2, <2>2, <2>4
    <3>2. Cardinality(after) <= Cardinality(due) /\ Cardinality(after) \in Nat
      BY <2>3, <3>1, FS_Subset, FS_CardinalityType
    <3> HIDE DEF q
    <3> QED
      BY <2>1, <2>3, <3>1, <3>2 DEF after
  <2>5. CASE ~(v # version \/ Said(o) = {})
    <3> DEFINE r == Counted(q, Said(o))
    <3>1. after \subseteq due \union Said(o) /\ quotes'[v][o] = r
      BY <1>2, <2>2, <2>5
    <3>2. /\ Said(o) \in SUBSET Shout /\ IsFiniteSet(Said(o)) /\ Said(o) # {}
          /\ \A m \in Said(o) : o \in chat[m].offers
      BY <1>1, <2>5
    <3> HIDE DEF q
    <3>3. /\ r \in Quote /\ r.seen > 0
          /\ Cardinality(due \union Said(o)) <= r.seen
          /\ \A m \in due \union Said(o) : r.first <= chat[m].at /\ chat[m].at <= r.last
          /\ \A t \in {r.first, r.last} :
                (\E m \in Said(o) : chat[m].at = t) \/ (q.seen > 0 /\ t \in {q.first, q.last})
      <4>1. chat \in [Shout -> Message]
        BY Known
      <4> QED
        BY <2>1, <3>2, <4>1, CountedHolds
    <3>4. /\ Cardinality(after) <= Cardinality(due \union Said(o))
          /\ Cardinality(after) \in Nat /\ Cardinality(due \union Said(o)) \in Nat
      <4>1. IsFiniteSet(due \union Said(o))
        BY <2>3, <3>2, FS_Union
      <4> QED
        BY <3>1, <4>1, FS_Subset, FS_CardinalityType
    <3> HIDE DEF r
    <3>5. Cardinality(after) <= r.seen
      BY <3>3, <3>4 DEF Quote
    <3>6. \A t \in {r.first, r.last} : \E m \in Shout : o \in chat[m].offers /\ chat[m].at = t
      BY <2>1, <3>2, <3>3
    <3> QED
      BY <3>1, <3>3, <3>5, <3>6 DEF after
  <2> QED
    BY <2>4, <2>5
<1>6. quotes' \in [Version -> [Offer -> Quote]]
  BY <1>3, <1>5
<1>7. DueCounted'
  BY <1>5 DEF DueCounted
<1>8. QuoteTimesReal'
  BY <1>5 DEF QuoteTimesReal
<1> QED
  BY <1>6, <1>7, <1>8

\* Each shout is handed over once, if a step hands over nothing and leaves to each call
\* nothing but shouts that it had.
LEMMA HandsKept ==
    ASSUME IInv, handed' = handed, recorded \subseteq recorded',
           \A d \in Call : /\ job'[d].batch \subseteq job[d].batch
                           /\ job'[d].batch # {} /\ job'[d].notify => job[d].notify
    PROVE  HandedOnce' /\ HandsOnce'
<1>1. HandedOnce'
  BY DEF IInv, HandedOnce
<1>2. HandsOnce'
  BY Known DEF IInv, HandsOnce
<1> QED
  BY <1>1, <1>2

\* The invariant of the next state.
LEMMA Assembled ==
    ASSUME TypeOK', StoredOnly', DueCounted', QuoteTimesReal', HandedOnce', HandsOnce'
    PROVE  IInv'
  BY DEF IInv

\* What is stored stays, if no shout is, and only shouts of a batch are recorded.
LEMMA StoredKept ==
    ASSUME IInv, chat' = chat,
           \A r \in recorded' : r \in recorded \/ \E d \in Call : r.shout \in job[d].batch,
           \A d \in Call : \A m \in job'[d].batch : chat[m].stored
    PROVE  StoredOnly'
  BY DEF IInv, StoredOnly, Stored

\* ChatFeedService.create: the shout is new, so no quote must count it and no call hands
\* it over.
LEMMA PostKeeps ==
    ASSUME IInv, NEW c \in Call, NEW m \in Shout, NEW offers \in SUBSET Offer,
           Post(c, m, offers)
    PROVE  IInv'
<1> DEFINE said == [stored |-> TRUE, offers |-> offers, at |-> now]
           j == [pc |-> "find", batch |-> {m}, notify |-> TRUE]
<1>1. /\ job[c] = Idle /\ ~chat[m].stored
      /\ chat' = [chat EXCEPT ![m] = said] /\ job' = [job EXCEPT ![c] = j]
      /\ UNCHANGED <<now, version, recorded, quotes, handed>>
  BY DEF Post
<1>2. said \in Message /\ said.stored
  BY Known DEF Message
<1>3. j \in Job /\ j.pc = "find" /\ j.batch = {m} /\ j.notify
  BY DEF Job
<1> HIDE DEF said, j
<1>4. chat[m] = Unsaid /\ chat[m].offers = {}
  BY <1>1 DEF IInv, StoredOnly, Stored, Unsaid
<1>5. TypeOK'
  <2>1. chat' \in [Shout -> Message] /\ job' \in [Call -> Job]
    BY <1>1, <1>2, <1>3, Known
  <2>2. \A d \in Call : job'[d].pc = "idle" <=> job'[d].batch = {}
    BY <1>1, <1>3, Known
  <2> QED
    BY <1>1, <2>1, <2>2, Known DEF TypeOK
<1>6. StoredOnly'
  <2>1. IsFiniteSet({x \in Shout : chat'[x].stored})
    <3>1. {x \in Shout : chat'[x].stored} = {x \in Shout : chat[x].stored} \union {m}
      BY <1>1, <1>2, Known
    <3>2. IsFiniteSet({x \in Shout : chat[x].stored})
      BY DEF IInv, StoredOnly, Stored
    <3> QED
      BY <3>1, <3>2, FS_AddElement
  <2>2. \A x \in Shout : ~chat'[x].stored => chat'[x] = Unsaid
    BY <1>1, <1>2, Known DEF IInv, StoredOnly, Stored
  <2>3. \A r \in recorded' : chat'[r.shout].stored
    BY <1>1, <1>2, Known DEF IInv, StoredOnly, Stored
  <2>4. \A d \in Call : \A x \in job'[d].batch : chat'[x].stored
    BY <1>1, <1>2, <1>3, Known DEF IInv, StoredOnly, Stored
  <2> QED
    BY <2>1, <2>2, <2>3, <2>4 DEF StoredOnly, Stored
<1>7. DueCounted' /\ QuoteTimesReal'
  <2>1. \A x \in Shout : chat[x].offers # {} => chat'[x] = chat[x]
    BY <1>1, <1>4, Known
  <2>2. \A v \in Version, o \in Offer : Due(v, o)' \subseteq Due(v, o)
    <3> SUFFICES ASSUME NEW v \in Version, NEW o \in Offer, NEW x \in Due(v, o)'
                 PROVE  x \in Due(v, o)
      OBVIOUS
    <3>1. /\ x \in Shout /\ o \in chat'[x].offers
          /\ \/ [shout |-> x, version |-> v] \in recorded
             \/ v = version /\ \E d \in Call : job'[d].pc = "record" /\ x \in job'[d].batch
      BY <1>1 DEF Due
    <3>2. x # m
      <4>1. [shout |-> m, version |-> v] \notin recorded
        BY <1>1 DEF IInv, StoredOnly, Stored
      <4>2. \A d \in Call : job'[d].pc = "record" => m \notin job'[d].batch
        BY <1>1, <1>3, Known DEF IInv, StoredOnly, Stored
      <4> QED
        BY <3>1, <4>1, <4>2
    <3>3. chat'[x] = chat[x]
      BY <1>1, <3>1, <3>2, Known
    <3>4. \A d \in Call : job'[d].pc = "record" => job'[d] = job[d]
      BY <1>1, <1>3, Known
    <3> QED
      BY <3>1, <3>3, <3>4 DEF Due
  <2> QED
    BY <1>1, <2>1, <2>2, CountsKept
<1>8. HandedOnce'
  BY <1>1 DEF IInv, HandedOnce
<1>9. HandsOnce'
  <2>1. handed[m] = 0
    <3>1. \A v \in Version : [shout |-> m, version |-> v] \notin recorded
      BY <1>1 DEF IInv, StoredOnly, Stored
    <3>2. handed[m] \in Nat /\ ~(handed[m] > 0)
      BY <3>1, Known DEF IInv, HandedOnce
    <3> QED
      BY <3>2
  <2>2. \A d \in Call : m \notin job[d].batch
    BY <1>1 DEF IInv, StoredOnly, Stored
  <2>3. ASSUME NEW d \in Call, NEW x \in Shout, job'[d].notify, x \in job'[d].batch
        PROVE  /\ handed'[x] = 0
               /\ \A e \in Call : job'[e].notify /\ x \in job'[e].batch => d = e
    <3>1. CASE x = m
      BY <1>1, <1>3, <2>1, <2>2, <2>3, <3>1, Known
    <3>2. CASE x # m
      BY <1>1, <1>3, <2>3, <3>2, Known DEF IInv, HandsOnce
    <3> QED
      BY <3>1, <3>2
  <2> QED
    BY <2>3 DEF HandsOnce
<1> QED
  BY <1>5, <1>6, <1>7, <1>8, <1>9, Assembled

\* The call c goes on to j, at an await that records nothing and with no more shouts
\* than were stored; if it is to hand them over, it was before.
LEMMA JobKeeps ==
    ASSUME IInv, NEW c \in Call, NEW j \in Job, job' = [job EXCEPT ![c] = j],
           j.pc # "record", j.pc = "idle" <=> j.batch = {},
           \A m \in j.batch : chat[m].stored,
           j.notify /\ j.batch # {} => job[c].notify /\ j.batch \subseteq job[c].batch,
           UNCHANGED <<now, version, chat, recorded, quotes, handed>>
    PROVE  IInv'
<1>1. TypeOK'
  BY Known DEF TypeOK
<1>2. StoredOnly'
  <2>1. \A d \in Call : \A m \in job'[d].batch : chat[m].stored
    BY Known DEF IInv, StoredOnly, Stored
  <2> QED
    BY <2>1, StoredKept
<1>3. DueCounted' /\ QuoteTimesReal'
  <2>1. \A d \in Call : job'[d].pc = "record" => job'[d] = job[d]
    BY Known
  <2>2. \A v \in Version, o \in Offer : Due(v, o)' \subseteq Due(v, o)
    BY <2>1 DEF Due
  <2> QED
    BY <2>2, CountsKept
<1>4. HandedOnce'
  BY DEF IInv, HandedOnce
<1>5. HandsOnce'
  BY Known DEF IInv, HandsOnce
<1> QED
  BY <1>1, <1>2, <1>3, <1>4, <1>5, Assembled

\* The backfill script takes stored shouts, none of which it hands over.
LEMMA BackfillKeeps ==
    ASSUME IInv, NEW c \in Call, NEW some \in SUBSET Shout, Backfill(c, some)
    PROVE  IInv'
<1> DEFINE j == [pc |-> "find", batch |-> some, notify |-> FALSE]
<1>1. /\ job' = [job EXCEPT ![c] = j] /\ some # {} /\ \A m \in some : chat[m].stored
      /\ UNCHANGED <<now, version, chat, recorded, quotes, handed>>
  BY DEF Backfill
<1>2. j \in Job /\ j.pc = "find" /\ j.batch = some /\ ~j.notify
  BY DEF Job
<1> HIDE DEF j
<1> QED
  BY <1>1, <1>2, JobKeeps

\* A call leaves out what is recorded for the current rules.
LEMMA FindPendingKeeps ==
    ASSUME IInv, NEW c \in Call, FindPending(c)
    PROVE  IInv'
<1> DEFINE pending == {m \in job[c].batch : [shout |-> m, version |-> version] \notin recorded}
           j == [job[c] EXCEPT !.pc = "write", !.batch = pending]
<1>1. /\ job' = [job EXCEPT ![c] = IF pending = {} THEN Idle ELSE j]
      /\ UNCHANGED <<now, version, chat, recorded, quotes, handed>>
  BY DEF FindPending
<1>2. job[c] \in Job /\ pending \subseteq job[c].batch
  BY Known
<1>3. /\ j \in Job /\ j.pc = "write" /\ j.batch = pending /\ j.notify = job[c].notify
      /\ j.notify => job[c].notify
  BY <1>2 DEF Job
<1>4. \A m \in pending : chat[m].stored
  BY <1>2 DEF IInv, StoredOnly, Stored
<1> HIDE DEF j, pending
<1>5. CASE pending = {}
  BY <1>1, <1>5, IdleFits, JobKeeps
<1>6. CASE pending # {}
  BY <1>1, <1>2, <1>3, <1>4, <1>6, JobKeeps
<1> QED
  BY <1>5, <1>6

\* A step of the call c that goes on to j, with its batch or with nothing.
LEMMA BatchKept ==
    ASSUME IInv, NEW c \in Call, NEW j \in Job, job' = [job EXCEPT ![c] = j],
           j = Idle \/ (j.pc = "record" /\ j.batch = job[c].batch /\ j.notify = job[c].notify
                          /\ j.batch # {}),
           UNCHANGED <<now, version, chat>>,
           recorded' \subseteq [shout : Shout, version : Version],
           \A r \in recorded' : r \in recorded \/ \E d \in Call : r.shout \in job[d].batch,
           quotes' \in [Version -> [Offer -> Quote]], handed' \in [Shout -> Nat]
    PROVE  /\ TypeOK' /\ StoredOnly'
           /\ \A d \in Call : /\ job'[d].batch \subseteq job[d].batch
                              /\ job'[d].batch # {} /\ job'[d].notify => job[d].notify
<1>1. TypeOK'
  BY Known, IdleFits DEF TypeOK
<1>2. \A d \in Call : /\ job'[d].batch \subseteq job[d].batch
                      /\ job'[d].batch # {} /\ job'[d].notify => job[d].notify
  BY Known, IdleFits
<1>3. StoredOnly'
  <2>1. \A d \in Call : \A m \in job'[d].batch : chat[m].stored
    BY <1>2 DEF IInv, StoredOnly, Stored
  <2> QED
    BY <2>1, StoredKept
<1> QED
  BY <1>1, <1>2, <1>3

\* A call that wrote its quotes is about to record its shouts: now they must be counted.
LEMMA WriteQuotesKeeps ==
    ASSUME IInv, NEW c \in Call, WriteQuotes(c)
    PROVE  IInv'
<1> DEFINE j == [job[c] EXCEPT !.pc = "record"]
           applied == Operations(job[c].batch)
<1>1. /\ job[c].pc = "write" /\ job' = [job EXCEPT ![c] = j]
      /\ quotes' = QuotesAfter(applied)
      /\ UNCHANGED <<now, version, chat, recorded, handed>>
  BY DEF WriteQuotes
<1>2. /\ j \in Job /\ j.pc = "record" /\ j.batch = job[c].batch /\ j.notify = job[c].notify
      /\ j.batch # {}
  <2>1. job[c] \in Job /\ job[c].batch # {}
    BY <1>1, Known
  <2> QED
    BY <2>1 DEF Job
<1> HIDE DEF j
<1>3. quotes' \in [Version -> [Offer -> Quote]] /\ DueCounted' /\ QuoteTimesReal'
  <2>1. ASSUME NEW v \in Version, NEW o \in Offer, NEW m \in Due(v, o)'
        PROVE  m \in Due(v, o) \/ (v = version /\ [shout |-> m, offer |-> o] \in applied)
    <3>1. /\ m \in Shout /\ o \in chat[m].offers
          /\ \/ [shout |-> m, version |-> v] \in recorded
             \/ v = version /\ \E d \in Call : job'[d].pc = "record" /\ m \in job'[d].batch
      BY <1>1 DEF Due
    <3>2. CASE v = version /\ m \in job[c].batch
      BY <3>1, <3>2 DEF Operations
    <3>3. CASE ~(v = version /\ m \in job[c].batch)
      <4>1. \A d \in Call : m \in job'[d].batch /\ v = version => job'[d] = job[d]
        BY <1>1, <1>2, <3>3, Known
      <4> QED
        BY <3>1, <4>1 DEF Due
    <3> QED
      BY <3>2, <3>3
  <2> HIDE DEF applied
  <2>2. applied \in SUBSET Operations(job[c].batch)
    BY DEF applied
  <2> QED
    BY <1>1, <2>1, <2>2, CountsWritten
<1>4. /\ TypeOK' /\ StoredOnly'
      /\ \A d \in Call : /\ job'[d].batch \subseteq job[d].batch
                         /\ job'[d].batch # {} /\ job'[d].notify => job[d].notify
  BY <1>1, <1>2, <1>3, Known, BatchKept
<1>5. HandedOnce' /\ HandsOnce'
  BY <1>1, <1>4, HandsKept
<1> QED
  BY <1>3, <1>4, <1>5, Assembled

\* The shouts of c are recorded; it alone hands them over.
LEMMA RecordKeeps ==
    ASSUME IInv, NEW c \in Call, Record(c)
    PROVE  IInv'
<1> DEFINE fresh == {m \in job[c].batch :
                       job[c].notify /\ chat[m].offers # {} /\ now - chat[m].at <= AlertMaxAge}
<1>1. /\ job[c].pc = "record" /\ job' = [job EXCEPT ![c] = Idle]
      /\ recorded' = recorded \union [shout : job[c].batch, version : {version}]
      /\ handed' = [m \in Shout |-> handed[m] + (IF m \in fresh THEN 1 ELSE 0)]
      /\ UNCHANGED <<now, version, chat, quotes>>
  BY DEF Record
<1>2. fresh \subseteq job[c].batch /\ (fresh # {} => job[c].notify)
  OBVIOUS
<1> HIDE DEF fresh
<1>3. /\ recorded' \subseteq [shout : Shout, version : Version] /\ recorded \subseteq recorded'
      /\ \A r \in recorded' : r \in recorded \/ \E d \in Call : r.shout \in job[d].batch
      /\ handed' \in [Shout -> Nat]
  BY <1>1, Known
<1>4. /\ TypeOK' /\ StoredOnly'
      /\ \A d \in Call : /\ job'[d].batch \subseteq job[d].batch
                         /\ job'[d].batch # {} /\ job'[d].notify => job[d].notify
  BY <1>1, <1>3, Known, IdleFits, BatchKept
<1>5. DueCounted' /\ QuoteTimesReal'
  <2>1. \A v \in Version, o \in Offer : Due(v, o)' \subseteq Due(v, o)
    <3> SUFFICES ASSUME NEW v \in Version, NEW o \in Offer, NEW m \in Due(v, o)'
                 PROVE  m \in Due(v, o)
      OBVIOUS
    <3>1. /\ m \in Shout /\ o \in chat[m].offers
          /\ \/ [shout |-> m, version |-> v] \in recorded'
             \/ v = version /\ \E d \in Call : job'[d].pc = "record" /\ m \in job'[d].batch
      BY <1>1 DEF Due
    <3>2. [shout |-> m, version |-> v] \in recorded' =>
             [shout |-> m, version |-> v] \in recorded \/ (v = version /\ m \in job[c].batch)
      BY <1>1
    <3>3. \A d \in Call : job'[d].pc = "record" => job'[d] = job[d]
      BY <1>1, IdleFits, Known
    <3> QED
      BY <1>1, <3>1, <3>2, <3>3 DEF Due
  <2> QED
    BY <1>1, <2>1, CountsKept
<1>6. \A m \in fresh : handed[m] = 0 /\ [shout |-> m, version |-> version] \in recorded'
  BY <1>1, <1>2, Known DEF IInv, HandsOnce
<1>7. HandedOnce'
  <2> SUFFICES ASSUME NEW m \in Shout, handed'[m] > 0
               PROVE  /\ handed'[m] = 1
                      /\ \E v \in Version : [shout |-> m, version |-> v] \in recorded'
    BY DEF HandedOnce
  <2>1. CASE m \in fresh
    <3>1. handed'[m] = 1
      <4>1. handed'[m] = handed[m] + (IF m \in fresh THEN 1 ELSE 0)
        BY <1>1
      <4>2. handed[m] = 0
        BY <1>6, <2>1
      <4> QED
        BY <2>1, <4>1, <4>2
    <3>2. version \in Version /\ [shout |-> m, version |-> version] \in recorded'
      BY <1>6, <2>1, Known
    <3> QED
      BY <3>1, <3>2
  <2>2. CASE m \notin fresh
    <3>1. handed'[m] = handed[m]
      BY <1>1, <2>2, Known
    <3> QED
      BY <1>3, <3>1 DEF IInv, HandedOnce
  <2> QED
    BY <2>1, <2>2
<1>8. HandsOnce'
  <2> SUFFICES ASSUME NEW d \in Call, NEW m \in Shout, job'[d].notify, m \in job'[d].batch
               PROVE  /\ handed'[m] = 0
                      /\ \A e \in Call : job'[e].notify /\ m \in job'[e].batch => d = e
    BY DEF HandsOnce
  <2>1. d # c /\ job'[d] = job[d]
    BY <1>1, IdleFits, Known
  <2>2. m \notin fresh /\ handed[m] = 0
    BY <1>2, <2>1 DEF IInv, HandsOnce
  <2>3. \A e \in Call : job'[e].notify /\ m \in job'[e].batch => d = e
    BY <1>1, <2>1, IdleFits, Known DEF IInv, HandsOnce
  <2> QED
    BY <1>1, <2>2, <2>3
<1> QED
  BY <1>4, <1>5, <1>7, <1>8, Assembled

\* A call stops: what was written stays counted, what was recorded was counted before.
LEMMA AbortKeeps ==
    ASSUME IInv, NEW c \in Call, Abort(c)
    PROVE  IInv'
<1>1. /\ job' = [job EXCEPT ![c] = Idle] /\ UNCHANGED <<now, version, chat, handed>>
      /\ \A d \in Call : job'[d].pc = "record" => job'[d] = job[d]
  BY IdleFits, Known DEF Abort
<1>2. CASE UNCHANGED <<recorded, quotes>>
  BY <1>1, <1>2, IdleFits, JobKeeps
<1>3. ASSUME job[c].pc = "write", NEW applied \in SUBSET Operations(job[c].batch),
             quotes' = QuotesAfter(applied), recorded' = recorded
      PROVE  IInv'
  <2>1. \A v \in Version, o \in Offer : Due(v, o)' \subseteq Due(v, o)
    BY <1>1, <1>3 DEF Due
  <2>2. quotes' \in [Version -> [Offer -> Quote]] /\ DueCounted' /\ QuoteTimesReal'
    BY <1>1, <1>3, <2>1, CountsWritten
  <2>3. /\ TypeOK' /\ StoredOnly'
        /\ \A d \in Call : /\ job'[d].batch \subseteq job[d].batch
                           /\ job'[d].batch # {} /\ job'[d].notify => job[d].notify
    BY <1>1, <1>3, <2>2, IdleFits, Known, BatchKept
  <2>4. HandedOnce' /\ HandsOnce'
    BY <1>1, <1>3, <2>3, HandsKept
  <2> QED
    BY <2>2, <2>3, <2>4, Assembled
<1>4. ASSUME job[c].pc = "record", NEW some \in SUBSET job[c].batch,
             recorded' = recorded \union [shout : some, version : {version}], quotes' = quotes
      PROVE  IInv'
  <2>1. /\ recorded' \subseteq [shout : Shout, version : Version]
        /\ recorded \subseteq recorded'
        /\ \A r \in recorded' : r \in recorded \/ \E d \in Call : r.shout \in job[d].batch
    BY <1>4, Known
  <2>2. /\ TypeOK' /\ StoredOnly'
        /\ \A d \in Call : /\ job'[d].batch \subseteq job[d].batch
                           /\ job'[d].batch # {} /\ job'[d].notify => job[d].notify
    BY <1>1, <1>4, <2>1, IdleFits, Known, BatchKept
  <2>3. \A v \in Version, o \in Offer : Due(v, o)' \subseteq Due(v, o)
    <3> SUFFICES ASSUME NEW v \in Version, NEW o \in Offer, NEW m \in Due(v, o)'
                 PROVE  m \in Due(v, o)
      OBVIOUS
    <3>1. /\ m \in Shout /\ o \in chat[m].offers
          /\ \/ [shout |-> m, version |-> v] \in recorded'
             \/ v = version /\ \E d \in Call : job'[d].pc = "record" /\ m \in job'[d].batch
      BY <1>1 DEF Due
    <3>2. [shout |-> m, version |-> v] \in recorded' =>
             [shout |-> m, version |-> v] \in recorded \/ (v = version /\ m \in job[c].batch)
      BY <1>4
    <3> QED
      BY <1>1, <1>4, <3>1, <3>2 DEF Due
  <2>4. DueCounted' /\ QuoteTimesReal'
    BY <1>1, <1>4, <2>3, CountsKept
  <2>5. HandedOnce' /\ HandsOnce'
    BY <1>1, <2>1, <2>2, HandsKept
  <2> QED
    BY <2>2, <2>4, <2>5, Assembled
<1> QED
  BY <1>2, <1>3, <1>4 DEF Abort

\* With new rules no call is left, and no quote of the new version must count anything.
LEMMA DeployKeeps ==
    ASSUME IInv, Deploy
    PROVE  IInv'
<1>1. /\ version' = version + 1 /\ version < MaxVersion /\ job' = [c \in Call |-> Idle]
      /\ UNCHANGED <<now, chat, recorded, quotes, handed>>
  BY DEF Deploy
<1>2. \A d \in Call : job'[d] = Idle
  BY <1>1
<1>3. TypeOK'
  <2>1. version' \in Version
    BY <1>1, Known, BoundAssumption DEF Version
  <2> QED
    BY <1>1, <1>2, <2>1, IdleFits, Known DEF TypeOK
<1>4. StoredOnly'
  BY <1>1, <1>2, IdleFits, StoredKept
<1>5. DueCounted' /\ QuoteTimesReal'
  <2>1. \A v \in Version, o \in Offer : Due(v, o)' \subseteq Due(v, o)
    BY <1>1, <1>2, IdleFits DEF Due
  <2> QED
    BY <1>1, <2>1, CountsKept
<1>6. HandedOnce' /\ HandsOnce'
  BY <1>1, <1>2, IdleFits, HandsKept
<1> QED
  BY <1>3, <1>4, <1>5, <1>6, Assembled

\* Time passes, or nothing happens.
LEMMA RestKeeps ==
    ASSUME IInv, now' \in Time, UNCHANGED <<version, chat, recorded, quotes, handed, job>>
    PROVE  IInv'
<1>1. TypeOK'
  BY Known DEF TypeOK
<1>2. StoredOnly'
  <2>1. \A d \in Call : \A m \in job'[d].batch : chat[m].stored
    BY DEF IInv, StoredOnly, Stored
  <2> QED
    BY <2>1, StoredKept
<1>3. DueCounted' /\ QuoteTimesReal'
  <2>1. \A v \in Version, o \in Offer : Due(v, o)' \subseteq Due(v, o)
    BY DEF Due
  <2> QED
    BY <2>1, CountsKept
<1>4. HandedOnce' /\ HandsOnce'
  BY HandsKept
<1> QED
  BY <1>1, <1>2, <1>3, <1>4, Assembled

\* No shout is stored, none is quoted, and no call runs.
LEMMA InitHolds == Init => IInv
<1> SUFFICES ASSUME Init PROVE IInv
  OBVIOUS
<1>1. TypeOK
  BY BoundAssumption, IdleFits
     DEF Init, TypeOK, Time, Version, Message, Unsaid, Quote, NoQuote
<1>2. StoredOnly
  <2>1. {m \in Shout : Stored(m)} = {}
    BY DEF Init, Stored, Unsaid
  <2> QED
    BY <2>1, FS_EmptySet, IdleFits DEF Init, StoredOnly
<1>3. DueCounted
  <2>1. \A v \in Version, o \in Offer : Due(v, o) = {}
    BY IdleFits DEF Init, Due
  <2>2. \A v \in Version, o \in Offer : quotes[v][o].seen = 0
    BY DEF Init, NoQuote
  <2> QED
    BY <2>1, <2>2, FS_EmptySet DEF DueCounted
<1>4. QuoteTimesReal
  BY DEF Init, QuoteTimesReal, NoQuote
<1>5. HandedOnce /\ HandsOnce
  BY IdleFits DEF Init, HandedOnce, HandsOnce
<1> QED
  BY <1>1, <1>2, <1>3, <1>4, <1>5 DEF IInv

\* Every step keeps the invariant.
LEMMA NextHolds == IInv /\ [Next]_vars => IInv'
<1> SUFFICES ASSUME IInv, [Next]_vars PROVE IInv'
  OBVIOUS
<1>1. ASSUME NEW c \in Call, NEW m \in Shout, NEW offers \in SUBSET Offer, Post(c, m, offers)
      PROVE  IInv'
  BY <1>1, PostKeeps
<1>2. ASSUME NEW c \in Call, NEW some \in SUBSET Shout, Backfill(c, some) PROVE IInv'
  BY <1>2, BackfillKeeps
<1>3. ASSUME NEW c \in Call, FindPending(c) \/ WriteQuotes(c) \/ Record(c) \/ Abort(c)
      PROVE  IInv'
  BY <1>3, FindPendingKeeps, WriteQuotesKeeps, RecordKeeps, AbortKeeps
<1>4. CASE Deploy
  BY <1>4, DeployKeeps
<1>5. CASE Tick
  <2>1. now' \in Time /\ UNCHANGED <<version, chat, recorded, quotes, handed, job>>
    BY <1>5, Known, BoundAssumption DEF Tick, Time
  <2> QED
    BY <2>1, RestKeeps
<1>6. CASE UNCHANGED vars
  <2>1. now' \in Time /\ UNCHANGED <<version, chat, recorded, quotes, handed, job>>
    BY <1>6, Known DEF vars
  <2> QED
    BY <2>1, RestKeeps
<1> QED
  BY <1>1, <1>2, <1>3, <1>4, <1>5, <1>6 DEF Next

\* So it always holds.
LEMMA Inductive == Spec => []IInv
  BY InitHolds, NextHolds, PTL DEF Spec

-----------------------------------------------------------------------------
\* Shouts, quotes and calls have their types, and a call that is suspended has shouts to
\* take in (game-market.service.ts).
THEOREM TypeCorrect == Spec => []TypeOK
<1>1. IInv => TypeOK
  BY DEF IInv
<1> QED
  BY <1>1, Inductive, PTL

\* A shout that ingestChats recorded for a version of the rules, and will therefore leave
\* out for ever, is counted in the quotes of that version, with its time in their range.
THEOREM RecordedIsCountedCorrect == Spec => []RecordedIsCounted
<1>1. IInv => RecordedIsCounted
  <2> SUFFICES ASSUME IInv, NEW v \in Version, NEW o \in Offer
               PROVE  LET q == quotes[v][o]
                          said == {m \in Shout : [shout |-> m, version |-> v] \in recorded
                                                   /\ o \in chat[m].offers}
                      IN  /\ Cardinality(said) <= q.seen
                          /\ \A m \in said : q.first <= chat[m].at /\ chat[m].at <= q.last
    BY DEF RecordedIsCounted
  <2> DEFINE q == quotes[v][o]
             said == {m \in Shout : [shout |-> m, version |-> v] \in recorded
                                      /\ o \in chat[m].offers}
  <2>1. said \subseteq Due(v, o)
    BY DEF Due
  <2>2. /\ IsFiniteSet(Due(v, o)) /\ Cardinality(Due(v, o)) <= q.seen
        /\ \A m \in Due(v, o) : q.first <= chat[m].at /\ chat[m].at <= q.last
    BY DueFinite DEF IInv, DueCounted
  <2>3. q.seen \in Nat
    BY Known DEF Quote
  <2> HIDE DEF q, said
  <2>4. /\ Cardinality(said) <= Cardinality(Due(v, o))
        /\ Cardinality(said) \in Nat /\ Cardinality(Due(v, o)) \in Nat
    BY <2>1, <2>2, FS_Subset, FS_CardinalityType
  <2>5. Cardinality(said) <= q.seen
    BY <2>2, <2>3, <2>4
  <2> QED
    BY <2>1, <2>2, <2>5 DEF q, said
<1> QED
  BY <1>1, Inductive, PTL

\* The $min and $max of the upserts date a quote by shouts that say it, whichever of them
\* were applied and in what order.
THEOREM QuoteTimesRealCorrect == Spec => []QuoteTimesReal
<1>1. IInv => QuoteTimesReal
  BY DEF IInv
<1> QED
  BY <1>1, Inductive, PTL

\* processNewQuotes is given the offers of a shout once at most, after they were counted:
\* the source id lets one call store the shout, and the backfill hands over nothing.
THEOREM HandedOnceCorrect == Spec => []HandedOnce
<1>1. IInv => HandedOnce
  BY DEF IInv
<1> QED
  BY <1>1, Inductive, PTL
=============================================================================
