----------------------------- MODULE TradeFigures -----------------------------
(***************************************************************************)
(* What an item was traded for, as the pages of the market show it         *)
(* (trade.service.ts).  Each page has a query of its own over the          *)
(* completed listings, newest first, cut at its own limit before or after  *)
(* listings without a numeric price are left out.  `closed` grows by one   *)
(* deal at a time.                                                         *)
(***************************************************************************)
EXTENDS Integers, Sequences, FiniteSets

CONSTANTS
    Item,
    Deal,         \* the completed listings that occur
    Sample,       \* PRICE_STATS_SAMPLE_LIMIT
    SummaryScan,  \* PRICE_SUMMARY_SCAN_LIMIT
    StatsScan,    \* LISTING_SCAN_LIMIT
    ListLimit,    \* MARKET_LIST_LIMIT
    MaxPoints,    \* PRICE_HISTORY_MAX_POINTS
    MaxDeals

VARIABLES
    closed   \* the completed listings in the order of closedAt

figuresVars == <<closed>>

-----------------------------------------------------------------------------
\* price is 0 where the seller wrote no number; plain: neither dyed nor transformed;
\* verified: neither side has ownerVerified or requesterVerified = false.
DealShape == [item : Item, price : Nat, plain : BOOLEAN, verified : BOOLEAN]

Counts(d) == d.plain /\ d.verified     \* MARKET_VERIFIED_FILTER, and no option

\* A deal goes by its place in `closed`.  A query sorts by closedAt, either way, and cuts.
Latest(S, limit) == {n \in S : Cardinality({k \in S : k > n}) < limit}
Oldest(S, limit) == {n \in S : Cardinality({k \in S : k < n}) < limit}

\* parseNumericPrice
Numeric(S) == {n \in S : closed[n].price > 0}
OfItem(i, S) == {n \in S : closed[n].item = i}

Eligible == {n \in DOMAIN closed : Counts(closed[n])}

\* A bug: the oldest deals are taken.
PriceStatsOldest(i) == Numeric(Oldest(OfItem(i, Eligible), Sample))

\* getItemPriceStats: cut first, then what has no number is left out
PriceStats(i) == Numeric(Latest(OfItem(i, Eligible), Sample))

\* getItemPriceSummaries and getMarketOverview: a scan over all items, grouped, and each
\* group cut.
Summary(i) == Latest(Numeric(OfItem(i, Latest(Eligible, SummaryScan))), Sample)

\* loadMarketStats, for a page that shows the items in S; a listing without options is
\* compared with deals without options.
MarketStats(S, i) ==
    LET scan == Latest({n \in DOMAIN closed : closed[n].item \in S /\ closed[n].verified},
                       StatsScan)
    IN  Latest(Numeric(OfItem(i, {n \in scan : closed[n].plain})), Sample)

\* getItemMarket: the completed side of the panel, whose average heeds the numbers only
ItemMarket(i) == Numeric(Latest(OfItem(i, Eligible), ListLimit))

\* getPriceHistory, for an item without options: of what was closed no earlier than `since`,
\* cut from the oldest on.  A time goes by the first place that it is not later than.
Within(since) == {n \in Eligible : n >= since}
PriceHistory(i, since) == Numeric(Oldest(OfItem(i, Within(since)), MaxPoints))

-----------------------------------------------------------------------------
\* completeListing, which no query above changes
Complete(d) ==
    /\ Len(closed) < MaxDeals
    /\ closed' = Append(closed, d)

Init == closed = << >>

Next == \E d \in Deal : Complete(d)

Spec == Init /\ [][Next]_figuresVars
-----------------------------------------------------------------------------
\* Properties

TypeOK == closed \in Seq(DealShape)

\* The figures of an item come from its most recent numeric deals wherever they are
\* shown, no more of them than the limit of the page: of two samples one goes further back,
\* and they never differ otherwise.  A summary has the whole sample as long as its scan is
\* not cut.  The curve of a window of time shows the deals of that window from its first on,
\* without a gap, and all of them as long as it is not cut itself: then it has whatever the
\* other pages show of that window.
FiguresAgree ==
    \A i \in Item :
        LET deals == Numeric(OfItem(i, Eligible))
            stats == {MarketStats(S, i) : S \in {T \in SUBSET Item : i \in T}}
        IN  /\ \A s \in stats \union {PriceStats(i), Summary(i), ItemMarket(i)} :
                  s \subseteq deals /\ \A n \in s, k \in deals : k > n => k \in s
            /\ \A s \in stats \union {PriceStats(i), Summary(i)} : Cardinality(s) <= Sample
            /\ Cardinality(ItemMarket(i)) <= ListLimit
            /\ Cardinality(Eligible) <= SummaryScan => Summary(i) = Latest(deals, Sample)
            /\ \A since \in 1 .. Len(closed) + 1 :
                  LET curve == PriceHistory(i, since)
                      window == {n \in deals : n >= since}
                  IN  /\ curve \subseteq window
                      /\ \A n \in curve, k \in window : k < n => k \in curve
                      /\ Cardinality(OfItem(i, Within(since))) <= MaxPoints => curve = window
=============================================================================
