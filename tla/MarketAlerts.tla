----------------------------- MODULE MarketAlerts ------------------------------
(***************************************************************************)
(* The alerts of the game market (market-alert.service.ts): the offers of  *)
(* a shout are held against the rules of the members, and a rule's owner   *)
(* gets one push for the best offer of each seller.  The instances of the  *)
(* server share the notices, which are unique by rule and fingerprint; a   *)
(* call reads them twice and stores its own between awaits, each a step.   *)
(*                                                                         *)
(* One item, sold for one currency: rules and quotes differ in the price;  *)
(* offers to buy are the same with the order of prices reversed.           *)
(* lastNotifiedAt, which only a screen shows, is left out.                 *)
(***************************************************************************)
EXTENDS Integers, FiniteSets, TLC

CONSTANTS
    Seller, Rule,
    Call,             \* overlapping calls of processNewQuotes
    Price,
    AlertCooldown,    \* ALERT_COOLDOWN_MS, in ticks
    MaxTime           \* the bound on the clock, below NOTICE_RETENTION_DAYS

ASSUME PriceAssumption == Price \subseteq Nat \ {0}
ASSUME TimeAssumption == AlertCooldown \in Nat \ {0} /\ MaxTime \in Nat
ASSUME CallAssumption == IsFiniteSet(Call)

VARIABLES
    now,
    notices,    \* market_alert_notices
    pushes,     \* how often a rule's owner was notified of a quote
    job         \* the calls, and the await at which each is suspended

vars == <<now, notices, pushes, job>>

-----------------------------------------------------------------------------
\* Documents

Time == 0 .. MaxTime

\* The fingerprint of a quote: who offers what for how much.
Quote == [seller : Seller, price : Price]

Better(p, q) == p.price < q.price

Candidate == [rule : Rule, quote : Quote]
NoItem == [none |-> TRUE]
Notice == [rule : Rule, quote : Quote, at : Time]

Noticed(c) == \E n \in notices : n.rule = c.rule /\ n.quote = c.quote

\* A bug: a notice of any seller starts the cooldown.
RecentOfAnyone(c, at) == \E n \in notices : n.rule = c.rule /\ n.at > at - AlertCooldown

\* The cooldown is one of the rule and the seller.
Recent(c, at) ==
    \E n \in notices :
        n.rule = c.rule /\ n.quote.seller = c.quote.seller /\ n.at > at - AlertCooldown

-----------------------------------------------------------------------------
\* processNewQuotes

\* offers: of the shout, until they are matched; at: Date.now() when that began; cands:
\* what the rules matched; todo: the alerts still to send; item: the one in
\* sendAlert, past its cooldown.
Job == [pc : {"idle", "rules", "known", "cool", "claim", "push"},
        offers : SUBSET Quote, at : Time, cands : SUBSET Candidate,
        todo : SUBSET Candidate, item : Candidate \union {NoItem}]

Idle == [pc |-> "idle", offers |-> {}, at |-> 0, cands |-> {}, todo |-> {}, item |-> NoItem]

Becomes(c, j) == job' = [job EXCEPT ![c] = j]
Ends(c) == Becomes(c, Idle)

\* The fresh offers of a shout, which has one seller.
Process(c, seller, prices) ==
    /\ job[c] = Idle /\ prices # {}
    /\ Becomes(c, [Idle EXCEPT !.pc = "rules", !.at = now,
                               !.offers = {[seller |-> seller, price |-> p] : p \in prices}])
    /\ UNCHANGED <<now, notices, pushes>>

\* A rule matches offers at its limit or below.  Its owner may change the limit,
\* switch the rule off (0) and delete it at any time, but it is read only once.
ReadRules(c, limit) ==
    LET cands == {k \in [rule : Rule, quote : job[c].offers] : k.quote.price <= limit[k.rule]}
    IN  /\ job[c].pc = "rules"
        /\ IF cands = {} THEN Ends(c)
           ELSE Becomes(c, [job[c] EXCEPT !.pc = "known", !.offers = {}, !.cands = cands])
        /\ UNCHANGED <<now, notices, pushes>>

\* A bug: of the offers that a rule has not seen, the dearest is sent.
ReadNoticesDearest(c) ==
    LET unseen == {k \in job[c].cands : ~Noticed(k)}
        best == {k \in unseen : ~\E b \in unseen :
                   /\ b.rule = k.rule /\ b.quote.seller = k.quote.seller
                   /\ Better(k.quote, b.quote)}
    IN  /\ job[c].pc = "known"
        /\ IF best = {} THEN Ends(c)
           ELSE Becomes(c, [job[c] EXCEPT !.pc = "cool", !.todo = best])
        /\ UNCHANGED <<now, notices, pushes>>

\* Of the offers that a rule has not seen, the best one of each seller.
ReadNotices(c) ==
    LET unseen == {k \in job[c].cands : ~Noticed(k)}
        best == {k \in unseen : ~\E b \in unseen :
                   /\ b.rule = k.rule /\ b.quote.seller = k.quote.seller
                   /\ Better(b.quote, k.quote)}
    IN  /\ job[c].pc = "known"
        /\ IF best = {} THEN Ends(c)
           ELSE Becomes(c, [job[c] EXCEPT !.pc = "cool", !.todo = best])
        /\ UNCHANGED <<now, notices, pushes>>

\* sendAlert, one candidate after the other.
Proceed(c, k) ==
    IF job[c].todo = {k} THEN Ends(c)
    ELSE Becomes(c, [job[c] EXCEPT !.pc = "cool", !.todo = @ \ {k}, !.item = NoItem])

\* A bug: nobody looks for a recent notice.
HeedNoCooldown(c, k) ==
    /\ job[c].pc = "cool" /\ k \in job[c].todo
    /\ Becomes(c, [job[c] EXCEPT !.pc = "claim", !.item = k])
    /\ UNCHANGED <<now, notices, pushes>>

HeedCooldown(c, k) ==
    /\ job[c].pc = "cool" /\ k \in job[c].todo
    /\ IF Recent(k, job[c].at) THEN Proceed(c, k)
       ELSE Becomes(c, [job[c] EXCEPT !.pc = "claim", !.item = k])
    /\ UNCHANGED <<now, notices, pushes>>

\* A bug: rule and fingerprint are not unique among the notices.
ClaimTwice(c) ==
    LET k == job[c].item
    IN  /\ job[c].pc = "claim"
        /\ notices' = notices \union {[rule |-> k.rule, quote |-> k.quote, at |-> job[c].at]}
        /\ Becomes(c, [job[c] EXCEPT !.pc = "push"])
        /\ UNCHANGED <<now, pushes>>

\* The notice is unique by rule and fingerprint: whoever stores it sends the alert.
Claim(c) ==
    LET k == job[c].item
    IN  /\ job[c].pc = "claim"
        /\ \/ /\ Noticed(k)
              /\ Proceed(c, k)
              /\ UNCHANGED notices
           \/ /\ ~Noticed(k)
              /\ notices' = notices \union
                    {[rule |-> k.rule, quote |-> k.quote, at |-> job[c].at]}
              /\ Becomes(c, [job[c] EXCEPT !.pc = "push"])
        /\ UNCHANGED <<now, pushes>>

\* The push service takes the alert, or fails, which is logged only.
Push(c) ==
    LET k == job[c].item
    IN  /\ job[c].pc = "push"
        /\ \/ pushes' = [pushes EXCEPT ![k] = @ + 1]
           \/ UNCHANGED pushes
        /\ Proceed(c, k)
        /\ UNCHANGED <<now, notices>>

\* A query is rejected, or the instance stops: what the call stored stays.
Abort(c) ==
    /\ job[c] # Idle
    /\ Ends(c)
    /\ UNCHANGED <<now, notices, pushes>>

Tick ==
    /\ now < MaxTime
    /\ now' = now + 1
    /\ UNCHANGED <<notices, pushes, job>>

Init ==
    /\ now = 0
    /\ notices = {}
    /\ pushes = [k \in Candidate |-> 0]
    /\ job = [c \in Call |-> Idle]

Next ==
    \/ \E c \in Call :
          \/ \E s \in Seller, prices \in SUBSET Price : Process(c, s, prices)
          \/ \E limit \in [Rule -> Price \union {0}] : ReadRules(c, limit)
          \/ ReadNotices(c)
          \/ \E k \in Candidate : HeedCooldown(c, k)
          \/ Claim(c) \/ Push(c) \/ Abort(c)
    \/ Tick

Spec == Init /\ [][Next]_vars

\* Sellers, rules and calls are alike: no code compares them but for equality.
Symmetry == Permutations(Seller) \union Permutations(Rule) \union Permutations(Call)

-----------------------------------------------------------------------------
\* Properties

\* Every notice and every suspended call has its type, and a call that sends has an
\* alert to send.
TypeOK ==
    /\ now \in Time
    /\ notices \subseteq Notice
    /\ pushes \in [Candidate -> Nat]
    /\ job \in [Call -> Job]
    /\ \A c \in Call :
          /\ job[c].pc \in {"cool", "claim", "push"} <=> job[c].todo # {}
          /\ job[c].pc \in {"claim", "push"} <=> job[c].item \in job[c].todo

\* A member is notified of a quote once per rule, whoever repeats it and however many
\* calls process it at the same time, and never without a notice that remembers it.
PushedOnce ==
    \A k \in Candidate : pushes[k] > 0 => pushes[k] = 1 /\ Noticed(k)

\* Overlapping calls pass the cooldown of a rule and a seller, since they look for a
\* recent notice before they store theirs, but no more alerts fall into one cooldown
\* than calls overlap.
CooldownWithinOverlap ==
    \A r \in Rule, s \in Seller, t \in Time :
        LET ofSeller(k) == k.rule = r /\ k.quote.seller = s
            within(at) == t - AlertCooldown < at /\ at <= t
            sent == {n \in notices : ofSeller(n) /\ within(n.at)}
            sending == {c \in Call :
                job[c].pc = "claim" /\ ofSeller(job[c].item) /\ within(job[c].at)}
        IN  sent = {} \/ Cardinality(sent) + Cardinality(sending) <= Cardinality(Call)

\* Of several offers of a seller that a call matched, the best one that the rule was
\* not notified of yet is sent.
BestOfferFirst ==
    [][\A c \in Call :
         job[c].pc = "claim" /\ job'[c].pc = "push" =>
            \A k \in job[c].cands :
                /\ k.rule = job[c].item.rule
                /\ k.quote.seller = job[c].item.quote.seller
                /\ k.quote.price < job[c].item.quote.price
                => Noticed(k)]_vars

\* A call that was not aborted ends only when, for every offer that a rule matched, the
\* rule was notified of that very seller a moment ago, or at some time of an offer of
\* that seller that was no worse: no other seller's alert suppresses it, and no call
\* that claimed the same alert first.
NobodyLeftOut ==
    [][\A c \in Call :
         LET sends == ReadNotices(c) \/ Claim(c) \/ Push(c)
                        \/ \E k \in Candidate : HeedCooldown(c, k)
         IN  sends /\ job'[c] = Idle =>
               \A k \in job[c].cands : \E n \in notices :
                   /\ n.rule = k.rule /\ n.quote.seller = k.quote.seller
                   /\ n.quote.price <= k.quote.price \/ n.at > job[c].at - AlertCooldown]_vars

\* A rule is not notified of one seller twice within the cooldown.
CooldownHeld ==
    \A m, n \in notices :
        m # n /\ m.rule = n.rule /\ m.quote.seller = n.quote.seller
            => m.at >= n.at + AlertCooldown \/ n.at >= m.at + AlertCooldown
=============================================================================
