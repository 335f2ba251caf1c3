----------------------------- MODULE MarketParser -----------------------------
(***************************************************************************)
(* How the prices are read out of a shout (game-market.parser.ts).  The    *)
(* text is a sequence of tokens: names of items, numbers with their unit,  *)
(* counts ("3 pieces"), marks of the side, separators, brackets, and the   *)
(* words that say how one pays or what an item looks like.  Which stretch  *)
(* of text is which token - the aliases, and the longest name first - is   *)
(* taken as done; so are numbers that are no price (percentages, extras).  *)
(***************************************************************************)
EXTENDS Integers, FiniteSetsExt, SequencesExt

CONSTANTS
    Catalog,     \* what is known of an item, by its token
    Prices,      \* numbers by their token: [tenths, unit]; unit is 0 where none is written
    Count,       \* counts by their token
    Dye,         \* dyes by their token: [length, premium, order], order being the place of
                 \* the dye in MARKET_DYE_ALIASES
    Short,       \* tokens that take no more than five characters with their spaces
    Alphabets    \* the sets of tokens that a shout is made of

VARIABLES
    message,     \* the shout, token by token
    words        \* the tokens it may still use

parserVars == <<message, words>>

-----------------------------------------------------------------------------
ItemShape == [wears : BOOLEAN,      \* its type is one that takes a dye
              base : BOOLEAN,       \* PREFERRED_TRANSFORM_BASES
              costume : BOOLEAN, branch : BOOLEAN,
              implicit : Nat]       \* implicitGoldMultiplier

IsItem(t) == t \in DOMAIN Catalog
IsPrice(t) == t \in DOMAIN Prices
At(m, Kind) == {i \in DOMAIN m : m[i] \in Kind}
Heads == {"[sell]", "[buy]", "[wanted]"}
LastOf(S) == IF S = {} THEN 0 ELSE Max(S)

\* findSide, of a stretch of the text; of the headers only the short one for what is wanted
\* is no mark itself.
Side(tokens) ==
    LET sell == tokens \intersect {"sell", "[sell]"} # {}
        buy == tokens \intersect {"buy", "[buy]"} # {}
    IN  IF sell = buy THEN "none" ELSE IF sell THEN "sell" ELSE "buy"

\* splitActionSections, then splitOutsideGrouping: a header begins a section, and outside of
\* brackets a separator ends one.  Brackets are counted from the last header.
Depth(m) ==
    [i \in 0 .. Len(m) |->
        FoldLeft(LAMBDA d, t : IF t = "(" THEN d + 1
                               ELSE IF t = ")" /\ d > 0 THEN d - 1
                               ELSE IF t \in Heads THEN 0 ELSE d,
                 0, SubSeq(m, 1, i))]
Cuts(m) == At(m, Heads) \union {i \in At(m, {"/"}) : Depth(m)[i] = 0}
Sections(m) == {s \in (DOMAIN m) \X (DOMAIN m) :
                   /\ s[1] <= s[2] /\ (s[1] .. s[2]) \intersect Cuts(m) = {}
                   /\ s[1] = 1 \/ s[1] - 1 \in Cuts(m)
                   /\ s[2] = Len(m) \/ s[2] + 1 \in Cuts(m)}

\* The side of a section: that of its header, else its own, else that of the whole shout
SideOf(m, s) ==
    LET head == LastOf({i \in At(m, Heads) : i < s[1]})
        own == Side(Range(SubSeq(m, s[1], s[2])))
    IN  IF head # 0 THEN IF m[head] = "[sell]" THEN "sell" ELSE "buy"
        ELSE IF own # "none" THEN own ELSE Side(Range(m))

-----------------------------------------------------------------------------
\* createLogicalOffers: an offer is an item, or a base that was given the looks of another
\* item, from its first token to its last.
Single(i) == [item |-> i, looks |-> 0, first |-> i, last |-> i]
Pair(m, i, j) == LET base == IF Catalog[m[i]].base THEN i ELSE j
                 IN  [item |-> base, looks |-> i + j - base, first |-> i, last |-> j]

Joined(m, i, j) == j = i + 1 \/ (j = i + 2 /\ m[i + 1] \in Short)

Offers(m, s) ==
    LET items == {i \in s[1] .. s[2] : IsItem(m[i])}
        i == Min(items)
        j == Max(items)
        oneBase == Cardinality({k \in items : Catalog[m[k]].base}) = 1
        marked == \E k \in s[1] .. s[2] : m[k] = "transform"
        before == {k \in s[1] .. i - 1 : TRUE}
    IN  IF marked
        THEN IF Cardinality(items) = 2 /\ oneBase THEN {Pair(m, i, j)} ELSE {}
        ELSE IF Cardinality(items) = 2 /\ oneBase /\ Joined(m, i, j) THEN {Pair(m, i, j)}
        ELSE IF Cardinality(items) = 1 /\ Catalog[m[i]].costume
                /\ LastOf({k \in before : m[k] = "("}) > LastOf({k \in before : m[k] = ")"})
             THEN {}
        ELSE {Single(k) : k \in items}

-----------------------------------------------------------------------------
\* parseSection, of an offer o among all the offers of a section s
NextStart(s, offers, o) == Min({q.first : q \in {r \in offers : r.first > o.last}} \union {s[2] + 1})

\* A bug: a price is looked for up to the end of the section.
PriceOfAnywhere(m, s, offers, o) ==
    LET prices == {i \in o.last + 1 .. s[2] : IsPrice(m[i])}
    IN  IF prices = {} THEN 0 ELSE Min(prices)

\* The first number after the offer and before the next one, or 0
PriceOf(m, s, offers, o) ==
    LET prices == {i \in o.last + 1 .. NextStart(s, offers, o) - 1 : IsPrice(m[i])}
    IN  IF prices = {} THEN 0 ELSE Min(prices)

\* Where the words begin that may be about an offer: after the price of the one before, or
\* after that one itself
ContextStart(m, s, offers, o) ==
    LET earlier == {q \in offers : q.last < o.first}
        prior == CHOOSE q \in earlier : \A r \in earlier : r.last <= q.last
    IN  IF earlier = {} THEN s[1]
        ELSE Max({PriceOf(m, s, offers, prior), prior.last}) + 1
Context(m, s, offers, o) == ContextStart(m, s, offers, o) .. NextStart(s, offers, o) - 1

\* findDye: the longest one in the context, of those the first in the order of the aliases
DyeOf(m, o, context) ==
    LET dyes == {i \in context : m[i] \in DOMAIN Dye}
        longest == {i \in dyes : \A k \in dyes : Dye[m[i]].length >= Dye[m[k]].length}
        first == {i \in longest : \A k \in longest : Dye[m[i]].order <= Dye[m[k]].order}
    IN  IF Catalog[m[o.item]].wears /\ dyes # {} THEN Min(first) ELSE 0

\* findQuantity
CountOf(m, s, offers, o) ==
    LET counts == {i \in o.item + 1 .. NextStart(s, offers, o) - 1 : m[i] \in DOMAIN Count}
    IN  IF counts = {} THEN 0 ELSE Min(counts)

Round(n, d) == (2 * n + d) \div (2 * d)

\* What is asked, at token p, in coins or in hard cash: words say so between the item and
\* the price or right after it, and a bare small number for the silver branch means cash.
IsCash(m, s, o, p, context) ==
    /\ "gold" \notin {m[i] : i \in context}
    /\ \/ \E i \in o.last + 1 .. p + 1 : i \in DOMAIN m /\ i <= s[2] /\ m[i] = "cash"
       \/ /\ Prices[m[p]].unit = 0 /\ Catalog[m[o.item]].branch
          /\ Prices[m[p]].tenths < 10000

\* toGoldPrice, and its like for cash
Amount(m, o, price, cash) ==
    LET unit == IF price.unit # 0 THEN (IF cash /\ price.unit # 1 THEN 10000 ELSE price.unit)
                ELSE IF cash THEN 10000 ELSE Catalog[m[o.item]].implicit
    IN  Round(price.tenths * unit, 10)

\* The quote of an offer with a price at p, a dye and a count (0: none), for a total
QuoteFor(m, s, offers, o, p, dye, c, cash, total) ==
    LET quantity == IF c = 0 THEN 1 ELSE Count[m[c]]
        each == \E i \in o.item + 1 .. NextStart(s, offers, o) - 1 : m[i] = "each"
        divided == quantity > 1 /\ c < p /\ ~ each
    IN  [side |-> SideOf(m, s), item |-> o.item, looks |-> o.looks, price |-> p, dye |-> dye,
         quantity |-> quantity, divided |-> divided, total |-> total,
         currency |-> IF cash THEN "cash" ELSE "gold",
         amount |-> IF divided THEN Round(total, quantity) ELSE total,
         excluded |-> o.looks # 0 \/ (dye # 0 /\ Dye[m[dye]].premium)]

QuoteAt(m, s, offers, o, p, context, cash) ==
    QuoteFor(m, s, offers, o, p, DyeOf(m, o, context), CountOf(m, s, offers, o), cash,
             Amount(m, o, Prices[m[p]], cash))
QuotesAt(m, s, offers) ==
    {LET p == PriceOf(m, s, offers, o)
         context == Context(m, s, offers, o)
     IN  QuoteAt(m, s, offers, o, p, context, IsCash(m, s, o, p, context)) :
         o \in {x \in offers : PriceOf(m, s, offers, x) # 0}}

\* parseCashInstrument: the rate of cash itself is a number from 0.1 to 10 without a unit, one
\* with a decimal point if there is any.
CashQuotes(m, s) ==
    LET rates == {i \in s[1] .. s[2] : /\ IsPrice(m[i]) /\ Prices[m[i]].unit = 0
                                       /\ Prices[m[i]].tenths \in 1 .. 100}
        pointed == {i \in rates : Prices[m[i]].tenths % 10 # 0}
        rate == IF pointed # {} THEN Min(pointed) ELSE Min(rates)
        counts == {i \in s[1] .. s[2] : m[i] \in DOMAIN Count}
    IN  IF rates = {} \/ ~ \E i \in s[1] .. s[2] : m[i] = "cash" THEN {}
        ELSE {[side |-> SideOf(m, s), item |-> 0, looks |-> 0, price |-> rate, dye |-> 0,
               quantity |-> IF counts = {} THEN 1 ELSE Count[m[Min(counts)]],
               divided |-> FALSE, total |-> Prices[m[rate]].tenths * 1000,
               currency |-> "cash", amount |-> Prices[m[rate]].tenths * 1000,
               excluded |-> FALSE]}

QuotesOf(m, s) ==
    IF SideOf(m, s) = "none" THEN {}
    ELSE IF \A i \in s[1] .. s[2] : ~ IsItem(m[i]) THEN CashQuotes(m, s)
    ELSE {q \in QuotesAt(m, s, Offers(m, s)) : q.amount > 0}

\* parseMarketMessage
Quotes(m) == UNION {QuotesOf(m, s) : s \in Sections(m)}

-----------------------------------------------------------------------------
Say(t) ==
    /\ t \in words
    /\ message' = Append(message, t)
    /\ words' = words \ {t}

Init == message = << >> /\ words \in Alphabets
Next == \E t \in words : Say(t)
Spec == Init /\ [][Next]_parserVars

-----------------------------------------------------------------------------
\* Properties

TypeOK ==
    /\ \A t \in DOMAIN Catalog : Catalog[t] \in ItemShape
    /\ words \subseteq UNION Alphabets
    /\ message \in Seq(UNION Alphabets)

\* The quote as it would stand in a text of its own that begins after the first n tokens
Shifted(q, n) == [q EXCEPT !.item = @ - n, !.price = @ - n,
                           !.looks = IF @ = 0 THEN 0 ELSE @ - n,
                           !.dye = IF @ = 0 THEN 0 ELSE @ - n]

\* Of all the quotes of a shout
ReadOnce(quotes) ==
    /\ \A q, r \in quotes :
          /\ q # r => q.price # r.price /\ (q.item = 0 \/ q.item # r.item)
          /\ q.item < r.item /\ r.item < q.price => q.looks = r.item \/ r.looks = q.item
          /\ q.dye # 0 /\ q.dye = r.dye /\ q.item < r.item => q.price < q.dye
    /\ \A q \in quotes : q.divided =>
          2 * (q.amount * q.quantity - q.total) \in - q.quantity .. q.quantity

\* Of the quotes of a section, and those of the section as a shout of its own
ReadAlone(s, quotes, alone, side) ==
    IF side # "none"
    THEN {Shifted(q, s[1] - 1) : q \in {x \in quotes : x.item # 0}} = {q \in alone : q.item # 0}
    ELSE Side(Range(message)) = "none" => quotes = {}

\* No number is the price of two items; it stands after its item with no other offer between
\* them; and a dye that stands before the price of an offer is not that of a later one.  A
\* section that says itself which side it is on is read as if it were the whole shout, and
\* a section that does not is read only if the shout names no more than one side.  A
\* bundle is not worth more or less than its total, but for rounding.
ReadAsWritten ==
    /\ ReadOnce(Quotes(message))
    /\ At(message, Heads) = {} =>
          \A s \in Sections(message) :
              LET alone == SubSeq(message, s[1], s[2])
              IN  ReadAlone(s, QuotesOf(message, s), Quotes(alone), Side(Range(alone)))
=============================================================================
