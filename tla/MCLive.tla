------------------------------- MODULE MCLive -------------------------------
(***************************************************************************)
(* What clients follow as it happens: the map of a channel, its campfires  *)
(* and its chat, the feed of shouts, the pages of the market of listings   *)
(* and of that of the game, and the search for a route.  They share no     *)
(* state: a behaviour takes place in the part that `part` names, and the   *)
(* others rest as they began.  MCWorldQueries adds catalogues, readers and *)
(* pictures.                                                               *)
(***************************************************************************)
EXTENDS Integers, Sequences, FiniteSets, TLC

CONSTANTS
    Open, Clearance, Lifetime, MaxFires, MaxTime,
    Width, Height, Blocked, Walls, Center, PlayerSteps,
    Socket, Dummy, Wild, NoSocket, Nothing, MoveTicks, RideTicks, MaxMonsters, SpellRange, FullHp,
    Talker, AccountOf, NoAccount, GradePoints,
    MaxHistory, MemberWait, GuestWait, MaxTalk, MaxSaid,
    Collector, PageSize, LivePage, MaxFeedTime, MaxShouts,
    Item, Deal, Sample, SummaryScan, StatsScan, ListLimit, MaxPoints, MaxDeals,
    Listing, ScanLimit, MaxBoard,
    Quote, Stretches, SparkStretches, Period, OverviewLimit, HistoryLimit, MaxQuotes,
    Map, Name, NameOf, MapPortals, Groups, NoRoute

VARIABLES
    part,
    clock, fires, file, announced,
    seats, cool, monsters, screens,
    talkTime, phase, saidAt, messages, said, shown, points, awards, grade, badges, arrivedWith,
    feedClock, nextId, adding, shouts, list, since, older, late,
    closed, board, quotes, today,
    links, starts, finishes, queue, seen, previous, route

Fires == INSTANCE Campfires
World == INSTANCE ChannelWorld WITH Steps <- PlayerSteps
Chat == INSTANCE ChannelChat WITH Socket <- Talker, MaxTime <- MaxTalk, time <- talkTime
Feed == INSTANCE ChatFeed WITH MaxTime <- MaxFeedTime, clock <- feedClock
Figures == INSTANCE TradeFigures
Pages == INSTANCE TradePages
Search == INSTANCE MarketSearch
Route == INSTANCE RouteSearch WITH Portals <- MapPortals

\* Tiles have coordinates, and times are lengths.
ASSUME FireAssumption ==
    Open \subseteq Int \X Int /\ Clearance \in Nat /\ Lifetime \in Nat

\* The map has tiles, as many of them open at least as players; what clients ask for is a
\* step and a direction; and nobody and no monster are none.
ASSUME WorldAssumption ==
    /\ Width \in Nat \ {0} /\ Height \in Nat \ {0} /\ FullHp \in Nat
    /\ Center \in Int \X Int
    /\ PlayerSteps \subseteq [step : Int \X Int, dir : World!Direction,
                              jump : BOOLEAN, riding : BOOLEAN]
    /\ IsFiniteSet(Socket) /\ Cardinality(Socket) <= Cardinality(World!Ground)
    /\ Wild \intersect Dummy = {}
    /\ Nothing \notin World!Walker /\ Nothing \notin World!Monster

\* The history holds something, waits are lengths of time, and the first grade is everybody's.
ASSUME ChatAssumption ==
    /\ MaxHistory \in Nat \ {0} /\ MaxTalk \in Nat \ {0}
    /\ MemberWait \in Nat /\ GuestWait \in Nat
    /\ GradePoints \in Seq(Nat) /\ GradePoints # << >> /\ GradePoints[1] = 0

\* Pages hold something.
ASSUME PageAssumption == PageSize \in Nat \ {0} /\ LivePage \in Nat \ {0}

\* The limits of the pages are numbers, and periods and curves hold something.
ASSUME LimitAssumption ==
    /\ {Sample, SummaryScan, StatsScan, ListLimit, MaxPoints, ScanLimit} \subseteq Nat
    /\ {OverviewLimit, HistoryLimit, MaxQuotes} \subseteq Nat
    /\ {Stretches, SparkStretches, Period} \subseteq Nat \ {0}

\* Listings and quotes have what theirs have.
ASSUME ShapeAssumption ==
    Listing \subseteq Pages!ListingShape /\ Quote \subseteq Search!QuoteShape

\* There are finitely many maps, and none is not a route of theirs.
ASSUME RouteAssumption == IsFiniteSet(Map) /\ NoRoute \notin Seq(Map)

\* What is checked: two rows of tiles, on which a fire keeps its neighbours free and there is
\* room for two.
SmallOpen == (0 .. 2) \X (0 .. 1)

\* A corridor of three tiles, the last of which is blocked, and two dummies' names: the
\* steps up and down, one of them by a rider who jumps.
SmallBlocked == {<<0, 2>>}
SmallCenter == <<0, 2>>
SmallSteps == {[step |-> <<0, -1>>, dir |-> "up", jump |-> FALSE, riding |-> FALSE],
               [step |-> <<0, 1>>, dir |-> "down", jump |-> TRUE, riding |-> TRUE]}

\* A member and a guest, and the points of two grades.
SmallAccounts == <<1, 0>>
SmallGrades == <<0, 2>>

\* The deals: two prices and none, one dyed, one not verified, one of another item.
Closed(item, price, plain, verified) ==
    [item |-> item, price |-> price, plain |-> plain, verified |-> verified]
SmallDeals ==
    {Closed(1, 0, TRUE, TRUE), Closed(1, 1, TRUE, TRUE), Closed(1, 2, TRUE, TRUE),
     Closed(1, 1, FALSE, TRUE), Closed(1, 2, TRUE, FALSE), Closed(2, 1, TRUE, TRUE)}

\* Listings of three fates
SmallListings == [status : {"open", "requested", "completed"}, price : {0, 1}, presence : {0, 2}]

\* An item asked for at two prices and one that is wanted
Asked(item, side, price) ==
    [item |-> item, side |-> side, currency |-> "gold", price |-> price, excluded |-> FALSE]
SmallQuotes == {Asked(1, "sell", 1), Asked(1, "sell", 4), Asked(2, "buy", 3)}

\* Five maps, two of which bear one name.
SmallNames == <<"a", "a", "b", "c", "d">>
SmallPortals == {<<1, 3>>, <<2, 4>>, <<3, 5>>, <<4, 3>>, <<3, 1>>, <<4, 5>>}
SmallGroups == {{}, {"a", "c"}, {"b", "c", "d"}}

fireVars == <<clock, fires, file, announced>>
worldVars == <<seats, cool, monsters, screens>>
chatVars == <<talkTime, phase, saidAt, messages, said, shown, points, awards, grade, badges,
              arrivedWith>>
feedVars == <<feedClock, nextId, adding, shouts, list, since, older, late>>
searchVars == <<quotes, today>>
routeVars == <<links, starts, finishes, queue, seen, previous, route>>

liveVars == <<part, clock, fires, file, announced, seats, cool, monsters, screens,
              talkTime, phase, saidAt, messages, said, shown, points, awards, grade, badges,
              arrivedWith, feedClock, nextId, adding, shouts, list, since, older, late,
              closed, board, quotes, today,
              links, starts, finishes, queue, seen, previous, route>>

\* A step in part p
LiveIn(p) ==
    /\ part = p
    /\ UNCHANGED part
    /\ p # "fires" => UNCHANGED fireVars
    /\ p # "world" => UNCHANGED worldVars
    /\ p # "chat" => UNCHANGED chatVars
    /\ p # "feed" => UNCHANGED feedVars
    /\ p # "figures" => UNCHANGED closed
    /\ p # "pages" => UNCHANGED board
    /\ p # "search" => UNCHANGED searchVars
    /\ p # "route" => UNCHANGED routeVars

LiveParts == {"fires", "world", "chat", "feed", "figures", "pages", "search", "route"}
LiveInit ==
    /\ Fires!Init /\ World!Init /\ Chat!Init /\ Feed!Init
    /\ Figures!Init /\ Pages!Init /\ Search!Init
    /\ \/ part = "route" /\ Route!Init
       \/ /\ part # "route"
          /\ links = {} /\ starts = {} /\ finishes = {}
          /\ queue = << >> /\ seen = {} /\ previous = << >> /\ route = << >>

LiveNext ==
    \/ LiveIn("fires") /\ Fires!Next
    \/ LiveIn("world") /\ World!Next
    \/ LiveIn("chat") /\ Chat!Next
    \/ LiveIn("feed") /\ Feed!Next
    \/ LiveIn("figures") /\ Figures!Next
    \/ LiveIn("pages") /\ Pages!Next
    \/ LiveIn("search") /\ Search!Next
    \/ LiveIn("route") /\ Route!Next

LiveSpec == LiveInit /\ [][LiveNext]_liveVars

\* Players are alike, and so are the dummies.
Symmetry == Permutations(Socket) \union Permutations(Dummy)

-----------------------------------------------------------------------------
\* Properties, each with its comment in the module of its part, and asked where it moves

\* Each of these parts keeps its state within its types and its limits.
LiveTypeOK ==
    /\ part = "fires" => Fires!TypeOK
    /\ part = "world" => World!TypeOK
    /\ part = "chat" => Chat!TypeOK
    /\ part = "feed" => Feed!TypeOK
    /\ part = "figures" => Figures!TypeOK
    /\ part = "pages" => Pages!TypeOK
    /\ part = "search" => Search!TypeOK
    /\ part = "route" => Route!TypeOK

\* Clients show the map and the chat as the server has them, and a fire that was announced
\* lasts and has no neighbour (ChannelService, ChannelGateway, CampfireStore).
WorldAgrees == /\ part = "world" => World!WorldAgrees
               /\ part = "fires" => Fires!FiresLast
               /\ part = "chat" => Chat!ChatAgrees

\* A client that polls and pages back misses no shout but late ones (findNewer, findOlder).
NothingSkipped == part = "feed" => Feed!NothingSkipped

\* All market pages take their figures from the latest deals (getItemPriceStats, ...).
FiguresAgree == part = "figures" => Figures!FiguresAgree

\* The pages of the market show every listing once, in an order that a request does not
\* change (findListings).
PagesHold == part = "pages" => Pages!PagesHold

\* The table of the market, an item's quotes and its curve count the same quotes
\* (getOverview, getQuotes, getHistory).
MarketPagesAgree == part = "search" => Search!PagesAgree

\* The route that is found is a shortest one (findShortestRoute).
ShortestRoute == part = "route" => Route!ShortestRoute
=============================================================================
