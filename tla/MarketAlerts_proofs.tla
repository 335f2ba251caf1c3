-------------------------- MODULE MarketAlerts_proofs --------------------------
(***************************************************************************)
(* What MarketAlerts promises, for every number of sellers, rules, prices  *)
(* and overlapping calls and every cooldown.  The notice is what calls     *)
(* agree by: from its claim to its push a call holds the only notice of    *)
(* its alert, and nobody has pushed that alert yet.                        *)
(***************************************************************************)
EXTENDS MarketAlerts, FiniteSetTheorems, TLAPS

\* Of the alert x there is a notice among ns.
Remembered(x, ns) == \E n \in ns : n.rule = x.rule /\ n.quote = x.quote

\* A call that is about to push has stored the notice of its alert, which was not
\* pushed so far.
Held ==
    \A c \in Call : job[c].pc = "push" =>
        Remembered(job[c].item, notices) /\ pushes[job[c].item] = 0

\* No two calls are about to push the same alert.
Alone ==
    \A c, d \in Call :
        job[c].pc = "push" /\ job[d].pc = "push" /\ c # d => job[c].item # job[d].item

\* Whatever of the same rule and seller a call matched and is better than what it has yet
\* to send, the rule was notified of.
Settled(j, ns) ==
    \A k \in j.todo, b \in j.cands :
        b.rule = k.rule /\ b.quote.seller = k.quote.seller /\ Better(b.quote, k.quote)
            => Remembered(b, ns)
Beaten == \A c \in Call : Settled(job[c], notices)

\* What TypeOK says of one call, and that it has an alert in hand only while it sends it.
Fit(j) ==
    /\ j \in Job
    /\ j.pc \in {"cool", "claim", "push"} <=> j.todo # {}
    /\ j.pc \in {"claim", "push"} <=> j.item \in j.todo
    /\ j.pc \notin {"claim", "push"} => j.item = NoItem
Fitting == \A c \in Call : Fit(job[c])

IInv == TypeOK /\ Fitting /\ PushedOnce /\ Held /\ Alone /\ Beaten

-----------------------------------------------------------------------------
\* What becomes of one call

\* An alert is never taken for none.
LEMMA NoItemApart == NoItem \notin Candidate
  BY DEF NoItem, Candidate

\* A call that ended has its type and nothing to send.
LEMMA IdleFits == Fit(Idle) /\ (\A ns : Settled(Idle, ns)) /\ Idle.pc # "push"
  BY NoItemApart, TimeAssumption DEF Fit, Settled, Idle, Job, Time

\* One call changes, all others stay as they were.
LEMMA OneChanges ==
    ASSUME TypeOK, Fitting, NEW c \in Call, NEW j, Fit(j), Becomes(c, j)
    PROVE  /\ job' \in [Call -> Job]
           /\ job'[c] = j
           /\ \A d \in Call : d # c => job'[d] = job[d]
           /\ \A d \in Call : Fit(job'[d])
<1>1. job \in [Call -> Job] /\ \A d \in Call : Fit(job[d])
  BY DEF TypeOK, Fitting
<1>2. job' = [job EXCEPT ![c] = j] /\ j \in Job
  BY DEF Becomes, Fit
<1>3. job' \in [Call -> Job] /\ job'[c] = j /\ \A d \in Call : d # c => job'[d] = job[d]
  BY <1>1, <1>2
<1>4. \A d \in Call : Fit(job'[d])
  BY <1>1, <1>3
<1> QED
  BY <1>3, <1>4

\* A call goes on with what it has left, which is as settled as before.
LEMMA ProceedFits ==
    ASSUME IInv, NEW c \in Call, NEW k \in job[c].todo, Proceed(c, k)
    PROVE  \E j : Fit(j) /\ Settled(j, notices) /\ j.pc # "push" /\ Becomes(c, j)
<1>1. CASE job[c].todo = {k}
  BY <1>1, IdleFits DEF Proceed, Ends
<1>2. CASE job[c].todo # {k}
  <2> DEFINE j == [job[c] EXCEPT !.pc = "cool", !.todo = @ \ {k}, !.item = NoItem]
  <2>1. Becomes(c, j)
    BY <1>2 DEF Proceed
  <2>2. job[c] \in Job /\ Settled(job[c], notices)
    BY DEF IInv, TypeOK, Beaten
  <2>3. /\ j \in Job /\ j.pc = "cool" /\ j.item = NoItem
        /\ j.todo = job[c].todo \ {k} /\ j.cands = job[c].cands
    BY <2>2 DEF Job
  <2>4. j.todo # {} /\ NoItem \notin j.todo
    BY <1>2, <2>2, <2>3, NoItemApart DEF Job
  <2>5. Fit(j)
    BY <2>3, <2>4 DEF Fit
  <2>6. Settled(j, notices)
    BY <2>2, <2>3 DEF Settled
  <2> QED
    BY <2>1, <2>3, <2>5, <2>6
<1> QED
  BY <1>1, <1>2

-----------------------------------------------------------------------------
\* The invariant is kept by every step

\* A step that stores and pushes nothing, and does not lead to a push
LEMMA QuietKeeps ==
    ASSUME IInv, NEW c \in Call, NEW j, Fit(j), Settled(j, notices), j.pc # "push",
           Becomes(c, j), UNCHANGED <<now, notices, pushes>>
    PROVE  IInv'
<1>1. /\ job' \in [Call -> Job] /\ job'[c] = j
      /\ \A d \in Call : d # c => job'[d] = job[d]
      /\ \A d \in Call : Fit(job'[d])
  BY OneChanges DEF IInv
<1>2. \A k : Noticed(k)' = Noticed(k)
  BY DEF Noticed
<1>3. TypeOK'
  BY <1>1 DEF IInv, TypeOK, Fit
<1>4. PushedOnce' /\ Fitting'
  BY <1>1, <1>2 DEF IInv, PushedOnce, Fitting
<1>5. Held'
  BY <1>1, <1>2 DEF IInv, Held
<1>6. Alone'
  BY <1>1 DEF IInv, Alone
<1>7. Beaten'
  BY <1>1, <1>2 DEF IInv, Beaten, Settled
<1> QED
  BY <1>3, <1>4, <1>5, <1>6, <1>7 DEF IInv

LEMMA ProcessKeeps ==
    ASSUME IInv, NEW c \in Call, NEW s \in Seller, NEW prices \in SUBSET Price,
           Process(c, s, prices)
    PROVE  IInv'
<1> DEFINE j == [Idle EXCEPT !.pc = "rules", !.at = now,
                             !.offers = {[seller |-> s, price |-> p] : p \in prices}]
<1>1. Becomes(c, j) /\ UNCHANGED <<now, notices, pushes>>
  BY DEF Process
<1>2. Idle \in Job /\ Idle.todo = {} /\ Idle.item = NoItem
  BY IdleFits DEF Fit, Idle
<1>3. {[seller |-> s, price |-> p] : p \in prices} \in SUBSET Quote /\ now \in Time
  BY DEF Quote, IInv, TypeOK
<1>4. j \in Job /\ j.pc = "rules" /\ j.todo = {} /\ j.item = NoItem
  BY <1>2, <1>3 DEF Job
<1>5. Fit(j) /\ Settled(j, notices) /\ j.pc # "push"
  BY <1>4 DEF Fit, Settled
<1> QED
  BY <1>1, <1>5, QuietKeeps

LEMMA ReadRulesKeeps ==
    ASSUME IInv, NEW c \in Call, NEW limit, ReadRules(c, limit)
    PROVE  IInv'
<1> DEFINE cands == {k \in [rule : Rule, quote : job[c].offers] :
                         k.quote.price <= limit[k.rule]}
           j == [job[c] EXCEPT !.pc = "known", !.offers = {}, !.cands = cands]
<1>1. job[c] \in Job /\ Fit(job[c]) /\ job[c].pc = "rules" /\ UNCHANGED <<now, notices, pushes>>
  BY DEF IInv, Fitting, Fit, ReadRules
<1>2. CASE Ends(c)
  BY <1>1, <1>2, IdleFits, QuietKeeps DEF Ends
<1>3. CASE Becomes(c, j)
  <2>1. cands \in SUBSET Candidate
    BY <1>1 DEF Job, Candidate
  <2>2. job[c].todo = {} /\ job[c].item = NoItem
    BY <1>1 DEF Fit
  <2>3. j \in Job /\ j.pc = "known" /\ j.todo = {} /\ j.item = NoItem
    BY <1>1, <2>1, <2>2 DEF Job
  <2>4. Fit(j) /\ Settled(j, notices)
    BY <2>3 DEF Fit, Settled
  <2> QED
    BY <1>1, <1>3, <2>3, <2>4, QuietKeeps
<1> QED
  BY <1>2, <1>3 DEF ReadRules

LEMMA ReadNoticesKeeps ==
    ASSUME IInv, NEW c \in Call, ReadNotices(c)
    PROVE  IInv'
<1> DEFINE unseen == {k \in job[c].cands : ~Noticed(k)}
           best == {k \in unseen : ~\E b \in unseen :
                      /\ b.rule = k.rule /\ b.quote.seller = k.quote.seller
                      /\ Better(b.quote, k.quote)}
           j == [job[c] EXCEPT !.pc = "cool", !.todo = best]
<1>1. job[c] \in Job /\ Fit(job[c]) /\ job[c].pc = "known" /\ UNCHANGED <<now, notices, pushes>>
  BY DEF IInv, Fitting, Fit, ReadNotices
<1>2. CASE Ends(c)
  BY <1>1, <1>2, IdleFits, QuietKeeps DEF Ends
<1>3. CASE best # {} /\ Becomes(c, j)
  <2>1. best \subseteq job[c].cands /\ best \in SUBSET Candidate
    BY <1>1 DEF Job
  <2>2. job[c].item = NoItem /\ NoItem \notin best
    BY <1>1, <2>1, NoItemApart DEF Fit
  <2>3. /\ j \in Job /\ j.pc = "cool" /\ j.todo = best /\ j.item = NoItem
        /\ j.cands = job[c].cands
    BY <1>1, <2>1, <2>2 DEF Job
  <2>4. Fit(j)
    BY <1>3, <2>2, <2>3 DEF Fit
  <2>5. Settled(j, notices)
    <3> SUFFICES ASSUME NEW k \in best, NEW b \in job[c].cands, b.rule = k.rule,
                        b.quote.seller = k.quote.seller, Better(b.quote, k.quote)
                 PROVE  Remembered(b, notices)
      BY <2>3 DEF Settled
    <3>1. ~(b \in unseen)
      OBVIOUS
    <3> QED
      BY <3>1 DEF Noticed, Remembered
  <2> HIDE DEF j
  <2> QED
    BY <1>1, <1>3, <2>3, <2>4, <2>5, QuietKeeps
<1> QED
  BY <1>2, <1>3 DEF ReadNotices

LEMMA HeedCooldownKeeps ==
    ASSUME IInv, NEW c \in Call, NEW k \in Candidate, HeedCooldown(c, k)
    PROVE  IInv'
<1> DEFINE j == [job[c] EXCEPT !.pc = "claim", !.item = k]
<1>1. /\ job[c] \in Job /\ Fit(job[c]) /\ Settled(job[c], notices)
      /\ job[c].pc = "cool" /\ k \in job[c].todo /\ UNCHANGED <<now, notices, pushes>>
  BY DEF IInv, Fitting, Beaten, Fit, HeedCooldown
<1>2. CASE Proceed(c, k)
  BY <1>1, <1>2, ProceedFits, QuietKeeps
<1>3. CASE Becomes(c, j)
  <2>1. /\ j \in Job /\ j.pc = "claim" /\ j.item = k
        /\ j.todo = job[c].todo /\ j.cands = job[c].cands
    BY <1>1 DEF Job
  <2>2. Fit(j) /\ Settled(j, notices)
    BY <1>1, <2>1 DEF Fit, Settled
  <2> HIDE DEF j
  <2> QED
    BY <1>1, <1>3, <2>1, <2>2, QuietKeeps
<1> QED
  BY <1>2, <1>3 DEF HeedCooldown

\* The notice is stored: no other call holds one of the same alert, and nobody has
\* pushed it, since whoever did left a notice.
LEMMA StoredKeeps ==
    ASSUME IInv, NEW c \in Call, NEW k \in Candidate, NEW n \in Notice, NEW j,
           job[c].pc = "claim", job[c].item = k, ~Noticed(k),
           n.rule = k.rule, n.quote = k.quote,
           now' = now, pushes' = pushes, notices' = notices \union {n},
           j = [job[c] EXCEPT !.pc = "push"], Becomes(c, j)
    PROVE  IInv'
<1>1. job[c] \in Job /\ Fit(job[c]) /\ Settled(job[c], notices)
  BY DEF IInv, Fitting, Beaten, Fit
<1>2. /\ j \in Job /\ j.pc = "push" /\ j.item = k
      /\ j.todo = job[c].todo /\ j.cands = job[c].cands
  BY <1>1 DEF Job
<1>3. Fit(j)
  BY <1>1, <1>2 DEF Fit
<1>4. /\ job' \in [Call -> Job] /\ job'[c] = j
      /\ \A d \in Call : d # c => job'[d] = job[d]
      /\ \A d \in Call : Fit(job'[d])
  BY <1>3, OneChanges DEF IInv
<1>5. /\ Remembered(k, notices') /\ ~Remembered(k, notices)
      /\ \A x : Remembered(x, notices) => Remembered(x, notices')
  BY DEF Noticed, Remembered
<1>12. \A x : Noticed(x) = Remembered(x, notices) /\ Noticed(x)' = Remembered(x, notices')
  BY DEF Noticed, Remembered
<1>6. TypeOK' /\ Fitting'
  BY <1>4 DEF IInv, TypeOK, Fitting, Fit
<1>7. PushedOnce'
  BY <1>5, <1>12 DEF IInv, PushedOnce
<1>8. pushes[k] = 0
  BY DEF IInv, PushedOnce, TypeOK
<1>9. Held'
  <2> SUFFICES ASSUME NEW d \in Call, job'[d].pc = "push"
               PROVE  Remembered(job'[d].item, notices') /\ pushes'[job'[d].item] = 0
    BY DEF Held
  <2>1. CASE d = c
    BY <1>2, <1>4, <1>5, <1>8, <2>1
  <2>2. CASE d # c
    BY <1>4, <1>5, <2>2 DEF IInv, Held
  <2> QED
    BY <2>1, <2>2
<1>10. Alone'
  <2>1. \A d \in Call : d # c /\ job'[d].pc = "push" => job'[d].item # k
    BY <1>4, <1>5 DEF IInv, Held
  <2>2. Alone
    BY DEF IInv
  <2>3. \A a, d \in Call :
           job'[a].pc = "push" /\ job'[d].pc = "push" /\ a # d => job'[a].item # job'[d].item
    <3> SUFFICES ASSUME NEW a \in Call, NEW d \in Call, a # d,
                        job'[a].pc = "push", job'[d].pc = "push"
                 PROVE  job'[a].item # job'[d].item
      OBVIOUS
    <3>1. CASE a = c
      <4>1. job'[a].item = k /\ d # c
        BY <1>2, <1>4, <3>1
      <4> QED
        BY <2>1, <4>1
    <3>2. CASE d = c
      BY <1>2, <1>4, <2>1, <3>2
    <3>3. CASE a # c /\ d # c
      BY <1>4, <2>2, <3>3 DEF Alone
    <3> QED
      BY <3>1, <3>2, <3>3
  <2> QED
    BY <2>3 DEF Alone
<1>11. Beaten'
  <2> SUFFICES ASSUME NEW d \in Call PROVE Settled(job'[d], notices')
    BY DEF Beaten
  <2>1. Settled(job'[d], notices)
    <3>1. CASE d = c
      BY <1>1, <1>2, <1>4, <3>1 DEF Settled
    <3>2. CASE d # c
      BY <1>4, <3>2 DEF IInv, Beaten
    <3> QED
      BY <3>1, <3>2
  <2> QED
    BY <1>5, <2>1 DEF Settled
<1> QED
  BY <1>6, <1>7, <1>9, <1>10, <1>11 DEF IInv

LEMMA ClaimKeeps ==
    ASSUME IInv, NEW c \in Call, Claim(c)
    PROVE  IInv'
<1> DEFINE k == job[c].item
           n == [rule |-> k.rule, quote |-> k.quote, at |-> job[c].at]
<1>1. /\ job[c] \in Job /\ k \in job[c].todo /\ k \in Candidate
      /\ job[c].pc = "claim" /\ now' = now /\ pushes' = pushes
  BY NoItemApart DEF IInv, Fitting, Fit, Claim, Job
<1>2. CASE Proceed(c, k) /\ UNCHANGED notices
  BY <1>1, <1>2, ProceedFits, QuietKeeps
<1>3. CASE /\ ~Noticed(k) /\ notices' = notices \union {n}
           /\ Becomes(c, [job[c] EXCEPT !.pc = "push"])
  <2>1. n \in Notice
    BY <1>1 DEF Candidate, Notice, Job
  <2> QED
    BY <1>1, <1>3, <2>1, StoredKeeps
<1> QED
  BY <1>2, <1>3 DEF Claim

\* The push: of its alert, which nobody else is about to push.
LEMMA PushedKeeps ==
    ASSUME IInv, NEW c \in Call, NEW k \in Candidate, job[c].pc = "push", job[c].item = k,
           now' = now, notices' = notices,
           pushes' = [pushes EXCEPT ![k] = @ + 1] \/ pushes' = pushes,
           NEW j, Fit(j), Settled(j, notices), j.pc # "push", Becomes(c, j)
    PROVE  IInv'
<1>1. Remembered(k, notices) /\ pushes[k] = 0 /\ pushes \in [Candidate -> Nat]
  BY DEF IInv, Held, TypeOK
<1>2. /\ job' \in [Call -> Job] /\ job'[c] = j
      /\ \A d \in Call : d # c => job'[d] = job[d]
      /\ \A d \in Call : Fit(job'[d])
  BY OneChanges DEF IInv
<1>3. /\ pushes' \in [Candidate -> Nat] /\ pushes'[k] \in {0, 1}
      /\ \A x \in Candidate : x # k => pushes'[x] = pushes[x]
  BY <1>1
<1>4. \A x : Noticed(x) = Remembered(x, notices) /\ Noticed(x)' = Remembered(x, notices)
  BY DEF Noticed, Remembered
<1>5. TypeOK' /\ Fitting'
  BY <1>2, <1>3 DEF IInv, TypeOK, Fitting, Fit
<1>6. PushedOnce'
  <2> SUFFICES ASSUME NEW x \in Candidate, pushes'[x] > 0
               PROVE  pushes'[x] = 1 /\ Noticed(x)'
    BY DEF PushedOnce
  <2>1. CASE x = k
    BY <1>1, <1>3, <1>4, <2>1
  <2>2. CASE x # k
    BY <1>3, <1>4, <2>2 DEF IInv, PushedOnce
  <2> QED
    BY <2>1, <2>2
<1>7. Held'
  <2> SUFFICES ASSUME NEW d \in Call, job'[d].pc = "push"
               PROVE  Remembered(job'[d].item, notices') /\ pushes'[job'[d].item] = 0
    BY DEF Held
  <2>1. d # c /\ job'[d] = job[d]
    BY <1>2
  <2>2. job[d].item # k /\ job[d].item \in Candidate
    BY <2>1, NoItemApart DEF IInv, Alone, Fitting, Fit, Job
  <2> QED
    BY <1>3, <1>4, <2>1, <2>2 DEF IInv, Held
<1>8. Alone'
  BY <1>2 DEF IInv, Alone
<1>9. Beaten'
  <2> SUFFICES ASSUME NEW d \in Call PROVE Settled(job'[d], notices')
    BY DEF Beaten
  <2>1. Settled(job'[d], notices)
    BY <1>2 DEF IInv, Beaten
  <2> QED
    BY <1>4, <2>1 DEF Settled
<1> QED
  BY <1>5, <1>6, <1>7, <1>8, <1>9 DEF IInv

LEMMA PushKeeps ==
    ASSUME IInv, NEW c \in Call, Push(c)
    PROVE  IInv'
<1> DEFINE k == job[c].item
<1>1. /\ k \in job[c].todo /\ k \in Candidate /\ job[c].pc = "push"
      /\ now' = now /\ notices' = notices
      /\ pushes' = [pushes EXCEPT ![k] = @ + 1] \/ pushes' = pushes
  BY NoItemApart DEF IInv, Fitting, Fit, Push, Job
<1>2. PICK j : Fit(j) /\ Settled(j, notices) /\ j.pc # "push" /\ Becomes(c, j)
  BY <1>1, ProceedFits DEF Push
<1> QED
  BY <1>1, <1>2, PushedKeeps

LEMMA AbortKeeps ==
    ASSUME IInv, NEW c \in Call, Abort(c)
    PROVE  IInv'
  BY IdleFits, QuietKeeps DEF Abort, Ends

LEMMA TickKeeps ==
    ASSUME IInv, Tick \/ UNCHANGED vars
    PROVE  IInv'
<1>1. TypeOK' /\ UNCHANGED <<notices, pushes, job>>
  BY TimeAssumption DEF IInv, TypeOK, Tick, vars, Time
<1>2. \A x : Noticed(x)' = Noticed(x)
  BY <1>1 DEF Noticed
<1> QED
  BY <1>1, <1>2 DEF IInv, Fitting, PushedOnce, Held, Alone, Beaten, Settled

LEMMA InitHolds == Init => IInv
<1> SUFFICES ASSUME Init PROVE IInv
  OBVIOUS
<1>1. Fitting /\ Beaten /\ \A c \in Call : job[c] = Idle
  BY IdleFits DEF Init, Fitting, Beaten
<1>2. TypeOK
  BY <1>1, TimeAssumption DEF Init, TypeOK, Time, Fitting, Fit
<1>3. PushedOnce
  BY DEF Init, PushedOnce
<1>4. Held /\ Alone
  BY <1>1, IdleFits DEF Held, Alone
<1> QED
  BY <1>1, <1>2, <1>3, <1>4 DEF IInv

LEMMA NextHolds == IInv /\ [Next]_vars => IInv'
<1> SUFFICES ASSUME IInv, [Next]_vars PROVE IInv'
  OBVIOUS
<1>1. CASE \E c \in Call : \E s \in Seller, prices \in SUBSET Price : Process(c, s, prices)
  BY <1>1, ProcessKeeps
<1>2. CASE \E c \in Call : \E limit \in [Rule -> Price \union {0}] : ReadRules(c, limit)
  BY <1>2, ReadRulesKeeps
<1>3. CASE \E c \in Call : ReadNotices(c)
  BY <1>3, ReadNoticesKeeps
<1>4. CASE \E c \in Call : \E k \in Candidate : HeedCooldown(c, k)
  BY <1>4, HeedCooldownKeeps
<1>5. CASE \E c \in Call : Claim(c)
  BY <1>5, ClaimKeeps
<1>6. CASE \E c \in Call : Push(c)
  BY <1>6, PushKeeps
<1>7. CASE \E c \in Call : Abort(c)
  BY <1>7, AbortKeeps
<1>8. CASE Tick \/ UNCHANGED vars
  BY <1>8, TickKeeps
<1> QED
  BY <1>1, <1>2, <1>3, <1>4, <1>5, <1>6, <1>7, <1>8 DEF Next

LEMMA Inductive == Spec => []IInv
  BY InitHolds, NextHolds, PTL DEF Spec

-----------------------------------------------------------------------------
\* How many alerts fall into one cooldown

\* The notices that a rule got of a seller within the cooldown that ends at t, and the
\* calls that are about to add one.
Of(k, r, s) == k.rule = r /\ k.quote.seller = s
Within(at, t) == t - AlertCooldown < at /\ at <= t
SentTo(ns, r, s, t) == {n \in ns : Of(n, r, s) /\ Within(n.at, t)}
SendingTo(js, r, s, t) ==
    {c \in Call : js[c].pc = "claim" /\ Of(js[c].item, r, s) /\ Within(js[c].at, t)}

Few(ns, js, r, s, t) ==
    SentTo(ns, r, s, t) = {}
        \/ Cardinality(SentTo(ns, r, s, t)) + Cardinality(SendingTo(js, r, s, t)) <= Cardinality(Call)

\* The property, of notices that are finitely many.
Cooled == IsFiniteSet(notices) /\ \A r \in Rule, s \in Seller, t \in Time : Few(notices, job, r, s, t)

LEMMA CooledIsWithinOverlap == Cooled => CooldownWithinOverlap
  BY DEF Cooled, Few, SentTo, SendingTo, Of, Within, CooldownWithinOverlap

\* What is counted is finite.
LEMMA Counted ==
    ASSUME NEW ns, IsFiniteSet(ns), NEW js, NEW r, NEW s, NEW t
    PROVE  /\ IsFiniteSet(SentTo(ns, r, s, t)) /\ Cardinality(SentTo(ns, r, s, t)) \in Nat
           /\ IsFiniteSet(SendingTo(js, r, s, t)) /\ Cardinality(SendingTo(js, r, s, t)) \in Nat
           /\ Cardinality(SendingTo(js, r, s, t)) <= Cardinality(Call) /\ Cardinality(Call) \in Nat
<1>1. SentTo(ns, r, s, t) \subseteq ns /\ SendingTo(js, r, s, t) \subseteq Call
  BY DEF SentTo, SendingTo
<1> QED
  BY <1>1, FS_Subset, FS_CardinalityType, CallAssumption

\* Fewer calls that are about to send
LEMMA FewerSend ==
    ASSUME NEW ns, IsFiniteSet(ns), NEW js, NEW jt, NEW r, NEW s, NEW t, Few(ns, js, r, s, t),
           SendingTo(jt, r, s, t) \subseteq SendingTo(js, r, s, t)
    PROVE  Few(ns, jt, r, s, t)
<1>1. Cardinality(SendingTo(jt, r, s, t)) <= Cardinality(SendingTo(js, r, s, t))
  BY Counted, FS_Subset
<1> QED
  BY <1>1, Counted DEF Few

\* A step that stores nothing, after which the call c is not about to send, or after
\* which it is because it found no recent notice
LEMMA QuietCools ==
    ASSUME IInv, Cooled, NEW c \in Call, NEW j, Fit(j), Becomes(c, j), UNCHANGED notices,
           j.pc = "claim" => /\ j.item \in Candidate /\ j.at \in Time
                             /\ ~Recent(j.item, j.at)
    PROVE  Cooled'
<1>1. /\ job'[c] = j /\ \A d \in Call : d # c => job'[d] = job[d]
  BY OneChanges DEF IInv
<1> SUFFICES ASSUME NEW r \in Rule, NEW s \in Seller, NEW t \in Time
             PROVE  Few(notices, job', r, s, t)
  BY DEF Cooled
<1>2. Few(notices, job, r, s, t) /\ IsFiniteSet(notices)
  BY DEF Cooled
<1>3. CASE c \notin SendingTo(job', r, s, t)
  <2>1. SendingTo(job', r, s, t) \subseteq SendingTo(job, r, s, t)
    BY <1>1, <1>3 DEF SendingTo
  <2> QED
    BY <1>2, <2>1, FewerSend
<1>4. CASE c \in SendingTo(job', r, s, t)
  <2>1. j.pc = "claim" /\ Of(j.item, r, s) /\ Within(j.at, t) /\ j.at \in Time
    BY <1>1, <1>4 DEF SendingTo
  <2>2. ASSUME NEW n \in SentTo(notices, r, s, t) PROVE FALSE
    <3>1. n \in notices /\ Of(n, r, s) /\ Within(n.at, t) /\ n.at \in Time
      BY DEF SentTo, IInv, TypeOK, Notice
    <3>2. n.at > j.at - AlertCooldown
      BY <2>1, <3>1, TimeAssumption DEF Within, Time
    <3> QED
      BY <2>1, <3>1, <3>2 DEF Recent, Of
  <2> QED
    BY <2>2 DEF Few
<1> QED
  BY <1>3, <1>4

\* A notice is stored by a call that was about to.
LEMMA StoredCools ==
    ASSUME IInv, Cooled, NEW c \in Call, NEW n, NEW j, Fit(j), Becomes(c, j),
           notices' = notices \union {n}, j.pc = "push", job[c].pc = "claim",
           n.rule = job[c].item.rule, n.quote = job[c].item.quote, n.at = job[c].at
    PROVE  Cooled'
<1>1. /\ job'[c] = j /\ \A d \in Call : d # c => job'[d] = job[d]
  BY OneChanges DEF IInv
<1>2. IsFiniteSet(notices) /\ IsFiniteSet(notices')
  BY FS_AddElement DEF Cooled
<1> SUFFICES ASSUME NEW r \in Rule, NEW s \in Seller, NEW t \in Time
             PROVE  Few(notices', job', r, s, t)
  BY <1>2 DEF Cooled
<1> DEFINE sent == SentTo(notices, r, s, t)
           sending == SendingTo(job, r, s, t)
<1>3. Few(notices, job, r, s, t)
  BY DEF Cooled
<1>4. SendingTo(job', r, s, t) = sending \ {c}
  BY <1>1 DEF SendingTo
<1>5. CASE Of(n, r, s) /\ Within(n.at, t)
  <2>1. SentTo(notices', r, s, t) = sent \union {n} /\ c \in sending
    BY <1>5 DEF SentTo, SendingTo, Of
  <2>2. /\ Cardinality(SendingTo(job', r, s, t)) = Cardinality(sending) - 1
        /\ Cardinality(SentTo(notices', r, s, t)) <= Cardinality(sent) + 1
        /\ sent = {} => Cardinality(SentTo(notices', r, s, t)) = 1
    <3>1. IsFiniteSet(sent) /\ IsFiniteSet(sending) /\ Cardinality(sent) \in Nat
      BY <1>2, Counted
    <3> HIDE DEF sent, sending
    <3>2. Cardinality(SendingTo(job', r, s, t)) = Cardinality(sending) - 1
      BY <1>4, <2>1, <3>1, FS_RemoveElement
    <3>3. Cardinality(sent \union {n}) <= Cardinality(sent) + 1
      <4>1. Cardinality(sent \union {n}) = IF n \in sent THEN Cardinality(sent)
                                            ELSE Cardinality(sent) + 1
        BY <3>1, FS_AddElement
      <4> QED
        BY <3>1, <4>1
    <3>4. sent = {} => Cardinality(sent \union {n}) = 1
      BY FS_Singleton
    <3> QED
      BY <2>1, <3>2, <3>3, <3>4
  <2>3. /\ Cardinality(sent) \in Nat /\ Cardinality(sending) \in Nat /\ Cardinality(Call) \in Nat
        /\ Cardinality(sending) <= Cardinality(Call)
        /\ Cardinality(SentTo(notices', r, s, t)) \in Nat
    BY <1>2, Counted
  <2>4. sent = {} \/ Cardinality(sent) + Cardinality(sending) <= Cardinality(Call)
    BY <1>3 DEF Few
  <2>5. Cardinality(SentTo(notices', r, s, t)) + Cardinality(SendingTo(job', r, s, t))
           <= Cardinality(Call)
    <3> HIDE DEF sent, sending
    <3> QED
      BY <2>2, <2>3, <2>4
  <2> QED
    BY <2>5 DEF Few
<1>6. CASE ~(Of(n, r, s) /\ Within(n.at, t))
  <2>1. SentTo(notices', r, s, t) = sent
    BY <1>6 DEF SentTo
  <2>2. Few(notices, job', r, s, t)
    BY <1>2, <1>3, <1>4, FewerSend
  <2> QED
    BY <2>1, <2>2 DEF Few
<1> QED
  BY <1>5, <1>6

-----------------------------------------------------------------------------
\* Nobody is left out

\* Some number is the least.
LEMMA Least ==
    ASSUME NEW S \in SUBSET Nat, S # {}
    PROVE  \E m \in S : \A n \in S : m <= n
<1> DEFINE T == {0 .. n : n \in S}
<1>1. T \subseteq FiniteSubsetsOf(Nat) /\ T # {}
  <2>1. \A n \in S : IsFiniteSet(0 .. n) /\ 0 .. n \subseteq Nat
    BY FS_Interval
  <2> QED
    BY <2>1 DEF FiniteSubsetsOf
<1>2. PICK x \in T : \A y \in T : <<y, x>> \notin StrictSubsetOrdering(Nat)
  <2> HIDE DEF T
  <2> QED
    BY <1>1, FS_StrictSubsetOrderingWellFounded, WFMin
<1>3. PICK m \in S : x = 0 .. m
  OBVIOUS
<1>4. ASSUME NEW n \in S, ~ (m <= n) PROVE FALSE
  <2>1. 0 .. n \subseteq 0 .. m /\ m \in 0 .. m /\ m \notin 0 .. n
    BY <1>4
  <2>2. <<0 .. n, x>> \in StrictSubsetOrdering(Nat)
    BY <1>3, <2>1 DEF StrictSubsetOrdering
  <2> QED
    BY <1>2, <2>2
<1> QED
  BY <1>4

\* Of the offers of a seller, one is no worse than any other.
LEMMA BestOfSome ==
    ASSUME NEW S \in SUBSET Candidate, NEW k \in S
    PROVE  \E b \in S : /\ b.rule = k.rule /\ b.quote.seller = k.quote.seller
                        /\ \A x \in S : x.rule = k.rule /\ x.quote.seller = k.quote.seller
                                           => b.quote.price <= x.quote.price
<1> DEFINE alike == {x \in S : x.rule = k.rule /\ x.quote.seller = k.quote.seller}
           prices == {x.quote.price : x \in alike}
<1>1. prices \in SUBSET Nat /\ prices # {}
  <2>1. \A x \in alike : x.quote.price \in Nat
    BY PriceAssumption DEF Candidate, Quote
  <2>2. k \in alike
    OBVIOUS
  <2> HIDE DEF alike
  <2> QED
    BY <2>1, <2>2
<1>2. PICK m \in prices : \A n \in prices : m <= n
  <2> HIDE DEF prices
  <2> QED
    BY <1>1, Least
<1>3. PICK b \in alike : m = b.quote.price
  BY <1>2
<1>4. \A x \in alike : b.quote.price <= x.quote.price
  BY <1>2, <1>3
<1> QED
  BY <1>3, <1>4

\* An offer is answered when the rule was notified of its seller lately, or of an offer
\* of that seller that was no worse.
Answered(k, at, ns) ==
    \E n \in ns : /\ n.rule = k.rule /\ n.quote.seller = k.quote.seller
                  /\ n.quote.price <= k.quote.price \/ n.at > at - AlertCooldown

\* Every offer that a sending call matched is answered, or one no worse is still to send.
NoWorse(b, k) ==
    b.rule = k.rule /\ b.quote.seller = k.quote.seller /\ b.quote.price <= k.quote.price
Attended(j, ns) ==
    j.pc \in {"cool", "claim", "push"} =>
        \A k \in j.cands : Answered(k, j.at, ns) \/ \E b \in j.todo : NoWorse(b, k)
Attending == \A c \in Call : Attended(job[c], notices)

\* More notices answer more.
LEMMA AttendedStill ==
    ASSUME NEW ns, NEW nt, ns \subseteq nt, NEW j, Attended(j, ns)
    PROVE  Attended(j, nt)
  BY DEF Attended, Answered

\* A call becomes one that attends to all it matched.
LEMMA AttendingKept ==
    ASSUME IInv, Attending, NEW c \in Call, NEW j, Fit(j), Becomes(c, j),
           notices \subseteq notices', Attended(j, notices')
    PROVE  Attending'
<1>1. /\ job'[c] = j /\ \A d \in Call : d # c => job'[d] = job[d]
  BY OneChanges DEF IInv
<1>2. \A d \in Call : Attended(job'[d], notices')
  BY <1>1, AttendedStill DEF Attending
<1> QED
  BY <1>2 DEF Attending

\* What is answered by an offer answers all that are no better.
LEMMA AnsweredToo ==
    ASSUME NEW k \in Candidate, NEW b \in Candidate, NEW ns \in SUBSET Notice, NEW at \in Time,
           NoWorse(b, k), Answered(b, at, ns)
    PROVE  Answered(k, at, ns)
<1>1. PICK n \in ns : /\ n.rule = b.rule /\ n.quote.seller = b.quote.seller
                      /\ n.quote.price <= b.quote.price \/ n.at > at - AlertCooldown
  BY DEF Answered
<1>2. n.quote.price \in Nat /\ b.quote.price \in Nat /\ k.quote.price \in Nat
  BY PriceAssumption DEF Notice, Candidate, Quote
<1>3. n.quote.price <= b.quote.price => n.quote.price <= k.quote.price
  BY <1>2 DEF NoWorse
<1> QED
  BY <1>1, <1>3 DEF Answered, NoWorse

\* After an alert that is answered, what is left is still attended to, and if nothing is
\* left all is answered.
LEMMA ProceedAttends ==
    ASSUME IInv, Attending, NEW c \in Call, NEW k \in job[c].todo, Proceed(c, k),
           Answered(k, job[c].at, notices)
    PROVE  /\ \E j : Fit(j) /\ Becomes(c, j) /\ j.pc # "claim" /\ j.pc # "push"
                     /\ Attended(j, notices)
           /\ job'[c] = Idle => \A x \in job[c].cands : Answered(x, job[c].at, notices)
<1>1. /\ job[c] \in Job /\ Fit(job[c]) /\ Attended(job[c], notices) /\ notices \subseteq Notice
      /\ job \in [Call -> Job]
  BY DEF IInv, Fitting, TypeOK, Attending
<1>2. /\ job[c].pc \in {"cool", "claim", "push"} /\ job[c].todo \subseteq Candidate
      /\ job[c].cands \subseteq Candidate /\ job[c].at \in Time
  BY <1>1 DEF Fit, Job
<1>3. \A x \in job[c].cands :
         Answered(x, job[c].at, notices) \/ \E b \in job[c].todo \ {k} : NoWorse(b, x)
  <2> SUFFICES ASSUME NEW x \in job[c].cands, NEW b \in job[c].todo, NoWorse(b, x), b = k
               PROVE  Answered(x, job[c].at, notices)
    BY <1>1, <1>2 DEF Attended
  <2> QED
    BY <1>1, <1>2, AnsweredToo
<1>4. CASE job[c].todo = {k}
  <2>1. Becomes(c, Idle)
    BY <1>4 DEF Proceed, Ends
  <2>2. Fit(Idle) /\ Attended(Idle, notices) /\ Idle.pc # "claim" /\ Idle.pc # "push"
    BY IdleFits DEF Attended, Idle
  <2> QED
    BY <1>3, <1>4, <2>1, <2>2
<1>5. CASE job[c].todo # {k}
  <2> DEFINE j == [job[c] EXCEPT !.pc = "cool", !.todo = @ \ {k}, !.item = NoItem]
  <2>1. Becomes(c, j)
    BY <1>5 DEF Proceed
  <2>2. /\ j \in Job /\ j.pc = "cool" /\ j.item = NoItem /\ j.at = job[c].at
        /\ j.todo = job[c].todo \ {k} /\ j.cands = job[c].cands
    BY <1>1 DEF Job
  <2>3. j.todo # {} /\ NoItem \notin j.todo
    BY <1>2, <1>5, <2>2, NoItemApart
  <2> HIDE DEF j
  <2>4. Fit(j) /\ Attended(j, notices)
    BY <1>3, <2>2, <2>3 DEF Fit, Attended
  <2>5. job'[c] # Idle
    BY <1>1, <2>1, <2>2 DEF Becomes, Idle
  <2> QED
    BY <2>1, <2>2, <2>4, <2>5
<1> QED
  BY <1>4, <1>5
-----------------------------------------------------------------------------
\* Both are kept

\* The whole invariant.
JInv == IInv /\ Cooled /\ Attending

\* A call that has not matched yet, or no more, has nothing to attend to.
LEMMA QuietStart ==
    ASSUME JInv, NEW c \in Call, NEW j, Fit(j), Becomes(c, j), UNCHANGED notices,
           j.pc \in {"idle", "rules", "known"}
    PROVE  Cooled' /\ Attending'
  BY QuietCools, AttendingKept DEF JInv, Attended

LEMMA IdleKeeps ==
    ASSUME JInv, NEW c \in Call, Ends(c), UNCHANGED notices
    PROVE  Cooled' /\ Attending'
<1>1. Idle.pc = "idle"
  BY DEF Idle
<1> QED
  BY <1>1, IdleFits, QuietStart DEF Ends

LEMMA ProcessAttends ==
    ASSUME JInv, NEW c \in Call, NEW s \in Seller, NEW prices \in SUBSET Price,
           Process(c, s, prices)
    PROVE  Cooled' /\ Attending'
<1> DEFINE j == [Idle EXCEPT !.pc = "rules", !.at = now,
                             !.offers = {[seller |-> s, price |-> p] : p \in prices}]
<1>1. Becomes(c, j) /\ UNCHANGED notices
  BY DEF Process
<1>2. Idle \in Job /\ Idle.todo = {} /\ Idle.item = NoItem
  BY IdleFits DEF Fit, Idle
<1>3. {[seller |-> s, price |-> p] : p \in prices} \in SUBSET Quote /\ now \in Time
  BY DEF Quote, JInv, IInv, TypeOK
<1>4. j \in Job /\ j.pc = "rules" /\ j.todo = {} /\ j.item = NoItem
  BY <1>2, <1>3 DEF Job
<1> HIDE DEF j
<1>5. Fit(j)
  BY <1>4 DEF Fit
<1> QED
  BY <1>1, <1>4, <1>5, QuietStart

LEMMA ReadRulesAttends ==
    ASSUME JInv, NEW c \in Call, NEW limit, ReadRules(c, limit)
    PROVE  Cooled' /\ Attending'
<1> DEFINE cands == {k \in [rule : Rule, quote : job[c].offers] :
                         k.quote.price <= limit[k.rule]}
           j == [job[c] EXCEPT !.pc = "known", !.offers = {}, !.cands = cands]
<1>1. job[c] \in Job /\ Fit(job[c]) /\ job[c].pc = "rules" /\ UNCHANGED notices
  BY DEF JInv, IInv, Fitting, Fit, ReadRules
<1>2. CASE Ends(c)
  BY <1>1, <1>2, IdleKeeps
<1>3. CASE Becomes(c, j)
  <2>1. cands \in SUBSET Candidate
    BY <1>1 DEF Job, Candidate
  <2>2. job[c].todo = {} /\ job[c].item = NoItem
    BY <1>1 DEF Fit
  <2>3. j \in Job /\ j.pc = "known" /\ j.todo = {} /\ j.item = NoItem
    BY <1>1, <2>1, <2>2 DEF Job
  <2> HIDE DEF j
  <2>4. Fit(j)
    BY <2>3 DEF Fit
  <2> QED
    BY <1>1, <1>3, <2>3, <2>4, QuietStart
<1> QED
  BY <1>2, <1>3 DEF ReadRules

\* The best offers that a rule has not seen attend to all others, and there are some
\* unless all were seen.
LEMMA ReadNoticesAttends ==
    ASSUME JInv, NEW c \in Call, ReadNotices(c)
    PROVE  /\ Cooled' /\ Attending'
           /\ job'[c] = Idle => \A x \in job[c].cands : Answered(x, job[c].at, notices)
<1> DEFINE unseen == {k \in job[c].cands : ~Noticed(k)}
           best == {k \in unseen : ~\E b \in unseen :
                      /\ b.rule = k.rule /\ b.quote.seller = k.quote.seller
                      /\ Better(b.quote, k.quote)}
           j == [job[c] EXCEPT !.pc = "cool", !.todo = best]
<1>1. /\ job[c] \in Job /\ Fit(job[c]) /\ job[c].pc = "known" /\ UNCHANGED notices
      /\ job \in [Call -> Job] /\ notices \subseteq Notice
  BY DEF JInv, IInv, Fitting, Fit, TypeOK, ReadNotices
<1>2. job[c].cands \subseteq Candidate
  BY <1>1 DEF Job
<1>3. \A k \in unseen : \E b \in best : NoWorse(b, k)
  <2> TAKE k \in unseen
  <2>1. PICK b \in unseen :
           /\ b.rule = k.rule /\ b.quote.seller = k.quote.seller
           /\ \A x \in unseen : x.rule = k.rule /\ x.quote.seller = k.quote.seller
                                   => b.quote.price <= x.quote.price
    <3>1. unseen \in SUBSET Candidate
      BY <1>2
    <3> HIDE DEF unseen
    <3> QED
      BY <3>1, BestOfSome
  <2>2. \A x \in unseen : x.quote.price \in Nat
    BY <1>2, PriceAssumption DEF Candidate, Quote
  <2>3. b \in best
    <3> HIDE DEF unseen
    <3> QED
      BY <2>1, <2>2 DEF Better
  <2> QED
    BY <2>1, <2>3 DEF NoWorse
<1>4. \A k \in job[c].cands : k \notin unseen => Answered(k, job[c].at, notices)
  <2> SUFFICES ASSUME NEW k \in job[c].cands, NEW n \in notices,
                      n.rule = k.rule, n.quote = k.quote
               PROVE  Answered(k, job[c].at, notices)
    BY DEF Noticed
  <2>1. k.quote.price \in Nat
    BY <1>2, PriceAssumption DEF Candidate, Quote
  <2> QED
    BY <2>1 DEF Answered
<1>5. CASE best = {} /\ Ends(c)
  <2>1. unseen = {}
    <3> HIDE DEF unseen, best
    <3> QED
      BY <1>3, <1>5
  <2> HIDE DEF unseen, best
  <2> QED
    BY <1>1, <1>4, <1>5, <2>1, IdleKeeps
<1>6. CASE best # {} /\ Becomes(c, j)
  <2>1. best \subseteq job[c].cands /\ best \in SUBSET Candidate
    BY <1>1 DEF Job
  <2>2. job[c].item = NoItem /\ NoItem \notin best
    BY <1>1, <2>1, NoItemApart DEF Fit
  <2> HIDE DEF best
  <2>3. /\ j \in Job /\ j.pc = "cool" /\ j.todo = best /\ j.item = NoItem
        /\ j.cands = job[c].cands /\ j.at = job[c].at
    BY <1>1, <2>1, <2>2 DEF Job
  <2> HIDE DEF j, unseen
  <2>4. Fit(j) /\ Attended(j, notices)
    <3>1. Fit(j)
      BY <1>6, <2>2, <2>3 DEF Fit
    <3>2. Attended(j, notices)
      BY <1>3, <1>4, <2>3 DEF Attended
    <3> QED
      BY <3>1, <3>2
  <2>5. job'[c] # Idle
    BY <1>1, <1>6, <2>3 DEF Becomes, Idle
  <2>6. Cooled' /\ Attending'
    BY <1>1, <1>6, <2>3, <2>4, QuietCools, AttendingKept DEF JInv
  <2> QED
    BY <2>5, <2>6
<1> QED
  BY <1>5, <1>6 DEF ReadNotices

\* A call goes on after an alert that is answered.
LEMMA ProceedKeeps ==
    ASSUME JInv, NEW c \in Call, NEW k \in job[c].todo, Proceed(c, k), UNCHANGED notices,
           Answered(k, job[c].at, notices)
    PROVE  /\ Cooled' /\ Attending'
           /\ job'[c] = Idle => \A x \in job[c].cands : Answered(x, job[c].at, notices)
<1>1. PICK j : Fit(j) /\ Becomes(c, j) /\ j.pc # "claim" /\ j.pc # "push" /\ Attended(j, notices)
  BY ProceedAttends DEF JInv
<1>2. Cooled' /\ Attending'
  BY <1>1, QuietCools, AttendingKept DEF JInv
<1> QED
  BY <1>2, ProceedAttends DEF JInv

LEMMA HeedCooldownAttends ==
    ASSUME JInv, NEW c \in Call, NEW k \in Candidate, HeedCooldown(c, k)
    PROVE  /\ Cooled' /\ Attending'
           /\ job'[c] = Idle => \A x \in job[c].cands : Answered(x, job[c].at, notices)
<1> DEFINE j == [job[c] EXCEPT !.pc = "claim", !.item = k]
<1>1. /\ job[c] \in Job /\ Fit(job[c]) /\ Attended(job[c], notices)
      /\ job[c].pc = "cool" /\ k \in job[c].todo /\ UNCHANGED notices
      /\ job \in [Call -> Job]
  BY DEF JInv, IInv, TypeOK, Fitting, Attending, Fit, HeedCooldown
<1>2. CASE Recent(k, job[c].at) /\ Proceed(c, k)
  <2>1. Answered(k, job[c].at, notices)
    BY <1>2 DEF Recent, Answered
  <2> QED
    BY <1>1, <1>2, <2>1, ProceedKeeps
<1>3. CASE ~Recent(k, job[c].at) /\ Becomes(c, j)
  <2>1. /\ j \in Job /\ j.pc = "claim" /\ j.item = k /\ j.at = job[c].at /\ j.at \in Time
        /\ j.todo = job[c].todo /\ j.cands = job[c].cands
    BY <1>1 DEF Job
  <2> HIDE DEF j
  <2>2. Fit(j) /\ Attended(j, notices)
    BY <1>1, <2>1 DEF Fit, Attended
  <2>3. job'[c] # Idle
    BY <1>1, <1>3, <2>1 DEF Becomes, Idle
  <2>4. Cooled'
    BY <1>1, <1>3, <2>1, <2>2, QuietCools DEF JInv
  <2>5. Attending'
    BY <1>1, <1>3, <2>2, AttendingKept DEF JInv
  <2> QED
    BY <2>3, <2>4, <2>5
<1> QED
  BY <1>2, <1>3 DEF HeedCooldown

\* What is remembered is answered.
LEMMA RememberedIsAnswered ==
    ASSUME NEW k \in Candidate, Remembered(k, notices), NEW at
    PROVE  Answered(k, at, notices)
<1>1. k.quote.price \in Nat
  BY PriceAssumption DEF Candidate, Quote
<1> QED
  BY <1>1 DEF Remembered, Answered

LEMMA ClaimAttends ==
    ASSUME JInv, NEW c \in Call, Claim(c)
    PROVE  /\ Cooled' /\ Attending'
           /\ job'[c] = Idle => \A x \in job[c].cands : Answered(x, job[c].at, notices)
<1> DEFINE k == job[c].item
           n == [rule |-> k.rule, quote |-> k.quote, at |-> job[c].at]
           j == [job[c] EXCEPT !.pc = "push"]
<1>1. /\ job[c] \in Job /\ k \in job[c].todo /\ k \in Candidate /\ Attended(job[c], notices)
      /\ job[c].pc = "claim" /\ Fit(job[c]) /\ job \in [Call -> Job]
  BY NoItemApart DEF JInv, IInv, TypeOK, Fitting, Attending, Fit, Claim, Job
<1>2. CASE Noticed(k) /\ Proceed(c, k) /\ UNCHANGED notices
  <2>1. Answered(k, job[c].at, notices)
    BY <1>1, <1>2, RememberedIsAnswered DEF Noticed, Remembered
  <2> QED
    BY <1>1, <1>2, <2>1, ProceedKeeps
<1>3. CASE ~Noticed(k) /\ notices' = notices \union {n} /\ Becomes(c, j)
  <2>1. /\ j \in Job /\ j.pc = "push" /\ j.item = k /\ j.at = job[c].at
        /\ j.todo = job[c].todo /\ j.cands = job[c].cands
    BY <1>1 DEF Job
  <2> HIDE DEF j
  <2>2. Fit(j) /\ Attended(j, notices)
    BY <1>1, <2>1 DEF Fit, Attended
  <2>3. job'[c] # Idle
    BY <1>1, <1>3, <2>1 DEF Becomes, Idle
  <2>4. Cooled'
    <3>1. n.rule = job[c].item.rule /\ n.quote = job[c].item.quote /\ n.at = job[c].at
      OBVIOUS
    <3> HIDE DEF n
    <3> QED
      BY <1>1, <1>3, <2>1, <2>2, <3>1, StoredCools DEF JInv
  <2>5. notices \subseteq notices' /\ Attended(j, notices')
    BY <1>3, <2>2, AttendedStill
  <2>6. Attending'
    BY <1>3, <2>2, <2>5, AttendingKept DEF JInv
  <2> QED
    BY <2>3, <2>4, <2>6
<1> QED
  BY <1>2, <1>3 DEF Claim

LEMMA PushAttends ==
    ASSUME JInv, NEW c \in Call, Push(c)
    PROVE  /\ Cooled' /\ Attending'
           /\ job'[c] = Idle => \A x \in job[c].cands : Answered(x, job[c].at, notices)
<1> DEFINE k == job[c].item
<1>1. /\ k \in job[c].todo /\ k \in Candidate /\ job[c].pc = "push" /\ UNCHANGED notices
  BY NoItemApart DEF JInv, IInv, Fitting, Fit, Push, Job
<1>2. Answered(k, job[c].at, notices)
  BY <1>1, RememberedIsAnswered DEF JInv, IInv, Held
<1> QED
  BY <1>1, <1>2, ProceedKeeps DEF Push

LEMMA InitJInv == Init => JInv
<1> SUFFICES ASSUME Init PROVE JInv
  OBVIOUS
<1>1. notices = {} /\ \A c \in Call : job[c] = Idle
  BY DEF Init
<1>2. Cooled
  <2>1. IsFiniteSet(notices)
    BY <1>1, FS_EmptySet
  <2>2. \A r, s, t : SentTo(notices, r, s, t) = {}
    BY <1>1 DEF SentTo
  <2> QED
    BY <2>1, <2>2 DEF Cooled, Few
<1>3. Attending
  BY <1>1 DEF Attending, Attended, Idle
<1> QED
  BY <1>2, <1>3, InitHolds DEF JInv

LEMMA NextJInv == JInv /\ [Next]_vars => JInv'
<1> SUFFICES ASSUME JInv, [Next]_vars PROVE JInv'
  OBVIOUS
<1>1. IInv'
  BY NextHolds DEF JInv
<1>2. CASE \E c \in Call : \E s \in Seller, prices \in SUBSET Price : Process(c, s, prices)
  BY <1>1, <1>2, ProcessAttends DEF JInv
<1>3. CASE \E c \in Call : \E limit \in [Rule -> Price \union {0}] : ReadRules(c, limit)
  BY <1>1, <1>3, ReadRulesAttends DEF JInv
<1>4. CASE \E c \in Call : ReadNotices(c)
  BY <1>1, <1>4, ReadNoticesAttends DEF JInv
<1>5. CASE \E c \in Call : \E k \in Candidate : HeedCooldown(c, k)
  BY <1>1, <1>5, HeedCooldownAttends DEF JInv
<1>6. CASE \E c \in Call : Claim(c)
  BY <1>1, <1>6, ClaimAttends DEF JInv
<1>7. CASE \E c \in Call : Push(c)
  BY <1>1, <1>7, PushAttends DEF JInv
<1>8. CASE \E c \in Call : Abort(c)
  BY <1>1, <1>8, IdleKeeps DEF JInv, Abort
<1>9. CASE Tick \/ UNCHANGED vars
  <2>1. notices' = notices /\ job' = job
    BY <1>9 DEF Tick, vars
  <2>2. Cooled' /\ Attending'
    BY <2>1 DEF JInv, Cooled, Attending
  <2> QED
    BY <1>1, <2>2 DEF JInv
<1> QED
  BY <1>2, <1>3, <1>4, <1>5, <1>6, <1>7, <1>8, <1>9 DEF Next

LEMMA InductiveJ == Spec => []JInv
  BY InitJInv, NextJInv, PTL DEF Spec

-----------------------------------------------------------------------------
\* What the members are promised

\* Every notice and every suspended call has its type, whatever the instances of the
\* server interleave to.
THEOREM TypeCorrect == Spec => []TypeOK
<1>1. IInv => TypeOK
  BY DEF IInv
<1> QED
  BY <1>1, Inductive, PTL

\* A member is notified of a quote once per rule, however many calls of however many
\* instances take in the same quote at once, and only with a notice that remembers it
\* (the unique index of market_alert_notices and sendAlert).
THEOREM PushedOnceCorrect == Spec => []PushedOnce
<1>1. IInv => PushedOnce
  BY DEF IInv
<1> QED
  BY <1>1, Inductive, PTL

\* Of several offers of a seller that a call matched, the best one that the rule was not
\* notified of is sent (the order of processNewQuotes), also when others notify it of
\* other offers in between.
THEOREM BestOfferFirstCorrect == Spec => BestOfferFirst
<1> DEFINE Sent == \A c \in Call :
                      job[c].pc = "claim" /\ job'[c].pc = "push" =>
                         \A k \in job[c].cands :
                             /\ k.rule = job[c].item.rule
                             /\ k.quote.seller = job[c].item.quote.seller
                             /\ k.quote.price < job[c].item.quote.price
                             => Noticed(k)
<1>1. IInv => Sent
  BY DEF IInv, Fitting, Fit, Beaten, Settled, Better, Noticed, Remembered
<1>2. IInv => [Sent]_vars
  BY <1>1
<1> QED
  BY <1>2, Inductive, PTL DEF BestOfferFirst

\* However many instances of the server process quotes at once, no more alerts of a rule
\* and a seller fall into one cooldown than calls overlap (the read of the last notice in
\* sendAlert, which comes before the own one is stored).
THEOREM CooldownCorrect == Spec => []CooldownWithinOverlap
<1>1. JInv => CooldownWithinOverlap
  BY CooledIsWithinOverlap DEF JInv
<1> QED
  BY <1>1, InductiveJ, PTL

\* Whoever matched an offer is notified of it, or was of one of that seller that was no
\* worse, or of that seller within the cooldown: processNewQuotes drops nothing else.
THEOREM NobodyLeftOutCorrect == Spec => NobodyLeftOut
<1> DEFINE Done == \A c \in Call :
         LET sends == ReadNotices(c) \/ Claim(c) \/ Push(c)
                        \/ \E k \in Candidate : HeedCooldown(c, k)
         IN  sends /\ job'[c] = Idle =>
               \A k \in job[c].cands : \E n \in notices :
                   /\ n.rule = k.rule /\ n.quote.seller = k.quote.seller
                   /\ n.quote.price <= k.quote.price \/ n.at > job[c].at - AlertCooldown
<1>1. ASSUME JInv, NEW c \in Call, job'[c] = Idle,
             ReadNotices(c) \/ Claim(c) \/ Push(c) \/ \E k \in Candidate : HeedCooldown(c, k)
      PROVE  \A k \in job[c].cands : Answered(k, job[c].at, notices)
  BY <1>1, ReadNoticesAttends, ClaimAttends, PushAttends, HeedCooldownAttends
<1>2. JInv => Done
  BY <1>1 DEF Answered
<1>3. JInv => [Done]_vars
  BY <1>2
<1> QED
  BY <1>3, InductiveJ, PTL DEF NobodyLeftOut
=============================================================================
