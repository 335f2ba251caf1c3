----------------------------- MODULE MarketSearch -----------------------------
(***************************************************************************)
(* What the pages of the in-game market show of the stored quotes          *)
(* (getOverview, getQuotes and getHistory of game-market.service.ts): a    *)
(* table of items with their figures and a small curve, the quotes of one  *)
(* item, and its curve in stretches of time.  `quotes` grows in the order  *)
(* of lastSeenAt; the search by name and old parser versions are left out. *)
(***************************************************************************)
EXTENDS Integers, Sequences, FiniteSetsExt

CONSTANTS
    Quote,           \* the quotes that occur, apart from their time
    Stretches,       \* HISTORY_BUCKETS of the period
    SparkStretches,  \* the stretches of the small curve
    Period,          \* its length
    OverviewLimit, HistoryLimit,   \* OVERVIEW_SCAN_LIMIT, HISTORY_SCAN_LIMIT
    MaxQuotes

VARIABLES
    quotes,          \* the stored quotes: [quote, at]
    today            \* now

searchVars == <<quotes, today>>

QuoteShape == [item : Nat, side : {"sell", "buy"}, currency : {"gold", "cash"}, price : Nat,
               excluded : BOOLEAN]

-----------------------------------------------------------------------------
Since == today - Period

\* The query the three have in common; quotes of transformed items and of dear dyes are no
\* part of the prices in coins.
Found(currency, side) ==
    {n \in DOMAIN quotes :
        LET q == quotes[n].quote
        IN  /\ q.currency = currency /\ quotes[n].at >= Since
            /\ currency = "gold" => ~ q.excluded
            /\ side # "any" => q.side = side}
OfItem(S, item) == {n \in S : quotes[n].quote.item = item}
OfSide(S, side) == {n \in S : quotes[n].quote.side = side}

\* A limit keeps those seen last.
Latest(S, limit) == {n \in S : Cardinality({k \in S : k > n}) < limit}

\* getQuotes
QuotesOf(item, currency, side, limit) == Latest(OfItem(Found(currency, side), item), limit)

\* toStats, with median and percentile: from five prices on the lowest and the highest tenth
\* do not count for the range.  PriceAt is the n-th price from the lowest on.
Cheaper(x, y) == \/ quotes[x].quote.price < quotes[y].quote.price
                 \/ quotes[x].quote.price = quotes[y].quote.price /\ x < y
Sorted(S, n) == CHOOSE x \in S : Cardinality({y \in S : Cheaper(y, x)}) = n - 1
PriceAt(S, n) == quotes[Sorted(S, n)].quote.price
Median(S) ==
    LET half == Cardinality(S) \div 2
    IN  IF Cardinality(S) % 2 = 1 THEN PriceAt(S, half + 1)
        ELSE (PriceAt(S, half) + PriceAt(S, half + 1) + 1) \div 2
Percentile(S, tenths) == PriceAt(S, ((Cardinality(S) - 1) * tenths + 5) \div 10 + 1)

Stats(S) ==
    IF S = {} THEN [count |-> 0]
    ELSE [count |-> Cardinality(S), median |-> Median(S), latest |-> quotes[Max(S)].quote.price,
          low |-> IF Cardinality(S) >= 5 THEN Percentile(S, 1) ELSE PriceAt(S, 1),
          high |-> IF Cardinality(S) >= 5 THEN Percentile(S, 9)
                   ELSE PriceAt(S, Cardinality(S))]

\* A bug: what was seen right now falls behind the last stretch.
StretchUnclamped(n, stretches) == ((quotes[n].at - Since) * stretches) \div Period

\* The stretch of the period a quote falls in; the last one takes what was seen right now.
StretchOf(n, stretches) ==
    LET i == ((quotes[n].at - Since) * stretches) \div Period
    IN  IF i > stretches - 1 THEN stretches - 1 ELSE i

\* getHistory
History(item, currency, side) ==
    LET S == Latest(OfItem(Found(currency, side), item), HistoryLimit)
    IN  [i \in 0 .. Stretches - 1 |->
            LET here == {n \in S : StretchOf(n, Stretches) = i}
            IN  [sell |-> Stats(OfSide(here, "sell")), buy |-> Stats(OfSide(here, "buy"))]]

\* getOverview: the items with the most quotes, and of those the ones seen last
Overview(currency, side, limit) ==
    LET S == Latest(Found(currency, side), OverviewLimit)
        all == {quotes[n].quote.item : n \in S}
        Before(i, j) == \/ Cardinality(OfItem(S, i)) > Cardinality(OfItem(S, j))
                        \/ /\ Cardinality(OfItem(S, i)) = Cardinality(OfItem(S, j))
                           /\ Max(OfItem(S, i)) > Max(OfItem(S, j))
        rows == {i \in all : Cardinality({j \in all : Before(j, i)}) < limit}
    IN  [i \in rows |->
            LET sell == OfSide(OfItem(S, i), "sell")
                buy == OfSide(OfItem(S, i), "buy")
                shown == IF side = "buy" \/ (side = "any" /\ sell = {}) THEN buy ELSE sell
            IN  [sell |-> Stats(sell), buy |-> Stats(buy),
                 spark |-> [k \in 0 .. SparkStretches - 1 |->
                               LET here == {n \in shown : StretchOf(n, SparkStretches) = k}
                               IN  IF here = {} THEN -1 ELSE Median(here)]]]

-----------------------------------------------------------------------------
\* A quote is stored, or seen again, at the latest time (ingestChats); time goes on.
See(q) ==
    /\ Len(quotes) < MaxQuotes
    /\ quotes' = Append(quotes, [quote |-> q, at |-> today])
    /\ UNCHANGED today
Pass ==
    /\ today < Period + 1
    /\ today' = today + 1
    /\ UNCHANGED quotes

Init == quotes = << >> /\ today = 0
Next == Pass \/ \E q \in Quote : See(q)
Spec == Init /\ [][Next]_searchVars

-----------------------------------------------------------------------------
\* Properties

TypeOK ==
    /\ Quote \subseteq QuoteShape
    /\ \A n \in DOMAIN quotes : quotes[n].quote \in Quote /\ quotes[n].at <= today

Both(row) == row.sell.count + row.buy.count

\* The three pages tell one story: while no limit of a scan is passed, the table counts as
\* many quotes of an item as its own page lists and as its curve shows in all; past a limit
\* the curve still covers the quotes seen last.  The range contains the median, an item left
\* out of the table has no more quotes than one in it, and a curve's points lie between the
\* lowest and the highest price of all.
PagesAgree ==
    \A currency \in {"gold", "cash"}, side \in {"sell", "buy", "any"} :
        LET table == Overview(currency, side, 1)
            whole == Overview(currency, side, MaxQuotes)
            scanned == Cardinality(Found(currency, side)) <= OverviewLimit
        IN  /\ \A item \in DOMAIN whole :
                  LET all == QuotesOf(item, currency, side, MaxQuotes)
                      curve == History(item, currency, side)
                      points == MapThenSumSet(LAMBDA i : Both(curve[i]), DOMAIN curve)
                  IN  /\ scanned => Both(whole[item]) = Cardinality(all)
                      /\ points = IF Cardinality(all) > HistoryLimit THEN HistoryLimit
                                  ELSE Cardinality(all)
                      /\ \A s \in {"sell", "buy"} :
                            LET stats == IF s = "sell" THEN whole[item].sell ELSE whole[item].buy
                            IN  stats.count > 0 => stats.low <= stats.median
                                                   /\ stats.median <= stats.high
                      /\ \A k \in DOMAIN whole[item].spark : whole[item].spark[k] # -1 =>
                            /\ whole[item].spark[k] >= PriceAt(all, 1)
                            /\ whole[item].spark[k] <= PriceAt(all, Cardinality(all))
            /\ \A in \in DOMAIN table, out \in DOMAIN whole \ DOMAIN table :
                  Both(table[in]) >= Both(whole[out])
            /\ Cardinality(DOMAIN table) <= 1
=============================================================================
