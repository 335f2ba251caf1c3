------------------------------ MODULE TradePages ------------------------------
(***************************************************************************)
(* In which order the market lists the listings, and how it cuts them into *)
(* pages (findListings of trade.service.ts).  The database sorts and cuts  *)
(* at a limit; the service then moves the listings of owners who are about *)
(* to the front of their group, and takes one page.  `board` grows by one  *)
(* listing at a time; filters by item are left out.                        *)
(***************************************************************************)
EXTENDS Integers, Sequences, FiniteSets

CONSTANTS
    Listing,     \* the listings that occur, apart from their time
    ScanLimit,   \* LISTING_SCAN_LIMIT
    MaxBoard

VARIABLES
    board        \* the listings in the order of createdAt

pagesVars == <<board>>

-----------------------------------------------------------------------------
\* price is 0 where the owner wrote no number; presence is resolvePresenceRank: 0 for an
\* owner who is on the site, 1 for one who is online in the game, 2 for others.
ListingShape == [status : {"open", "requested", "completed", "canceled"},
                 price : Nat, presence : 0 .. 2]

\* A bug: a listing with a request comes first, as it does among one's own trades.
GroupRequestedFirst(l) ==
    IF l.status \in {"completed", "canceled"} THEN 2 ELSE IF l.status = "open" THEN 1 ELSE 0

\* HOME_STATUS_GROUP, and statusGroup in the query
Group(l) == IF l.status \in {"completed", "canceled"} THEN 1 ELSE 0

\* Lexicographic order of tuples of numbers, and how many of S come before x in it
Lower(s, t) == \E n \in DOMAIN s : /\ s[n] < t[n]
                                   /\ \A k \in 1 .. n - 1 : s[k] = t[k]
Before(S, Key(_), x) == Cardinality({y \in S : Lower(Key(y), Key(x))})

\* The sort of the query: newest first in each group, and by price numbers before the
\* rest, the cheapest first or, for what people want to buy, the dearest.
Found(b, byPrice, type, x) ==
    LET Numbered(y) == IF b[y].price > 0 THEN 0 ELSE 1
        Price(y) == IF type = "buy" THEN -b[y].price ELSE b[y].price
        ByTime(y) == <<Group(b[y]), -y>>
        ByPrice(y) == <<Group(b[y]), Numbered(y), Price(y), -y>>
    IN  IF byPrice THEN Before(DOMAIN b, ByPrice, x) ELSE Before(DOMAIN b, ByTime, x)
Scanned(b, byPrice, type) == {x \in DOMAIN b : Found(b, byPrice, type, x) < ScanLimit}

\* Those whose owner is about come first in their group, unless the price decides: the
\* listings that were scanned, each with its place on the market.
Ordered(b, byPrice, type) ==
    LET scan == Scanned(b, byPrice, type)
        Rank(y) == <<Group(b[y]), b[y].presence, Found(b, byPrice, type, y)>>
    IN  [x \in scan |-> IF byPrice THEN Found(b, byPrice, type, x) ELSE Before(scan, Rank, x)]

Page(b, byPrice, type, size, page) ==
    LET order == Ordered(b, byPrice, type)
    IN  {x \in DOMAIN order : (page - 1) * size <= order[x] /\ order[x] < page * size}

TotalPages(b, size) == IF Len(b) = 0 THEN 1 ELSE (Len(b) + size - 1) \div size

-----------------------------------------------------------------------------
\* createListing
Post(l) ==
    /\ Len(board) < MaxBoard
    /\ board' = Append(board, l)

Init == board = << >>

Next == \E l \in Listing : Post(l)

Spec == Init /\ [][Next]_pagesVars
-----------------------------------------------------------------------------
\* Properties

TypeOK == board \in Seq(ListingShape)

\* A request does not raise or lower a listing on the pages, in either order.  Everybody
\* comes to every listing exactly once, page by page, no page being longer than it should
\* or ending early; and past the limit of the scan those that ended are lost before any that
\* is still to be had.
PagesHold ==
    \A byPrice \in BOOLEAN, type \in {"buy", "sell"} :
        LET order == Ordered(board, byPrice, type)
        IN  /\ \A x \in DOMAIN board : board[x].status = "open" =>
                  Ordered([board EXCEPT ![x].status = "requested"], byPrice, type) = order
            /\ \A x \in DOMAIN board \ DOMAIN order, y \in DOMAIN order :
                  Len(board) > ScanLimit
                  /\ (board[x].status \in {"open", "requested"}
                        => board[y].status \in {"open", "requested"})
            /\ \A size \in 1 .. Len(board) :
                  LET Shown(n) == Page(board, byPrice, type, size, n)
                  IN  /\ \A x \in DOMAIN order : \E n \in 1 .. TotalPages(board, size) :
                            \A k \in 1 .. TotalPages(board, size) : x \in Shown(k) <=> k = n
                      /\ \A n \in 1 .. TotalPages(board, size) :
                            /\ Cardinality(Shown(n)) <= size
                            /\ n * size <= Cardinality(DOMAIN order)
                                 => Cardinality(Shown(n)) = size
=============================================================================
