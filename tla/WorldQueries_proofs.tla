-------------------------- MODULE WorldQueries_proofs --------------------------
(***************************************************************************)
(* What the steps of MCLive keep they keep in MCWorldQueries, since its    *)
(* other parts leave those variables alone.  The catalogues say what the   *)
(* tables of their last whole import say: what is stored was made of some  *)
(* extract, and what a whole one wrote is still there.                     *)
(***************************************************************************)
EXTENDS MCWorldQueries, Live_proofs

\* With the queries beside it, what clients follow moves as it does without them.
LEMMA LiveRefined == Spec => LiveSpec
<1>1. Init => LiveInit
  BY DEF Init
<1>2. [Next]_vars => [LiveNext]_liveVars
  BY DEF Next, vars, In
<1> QED
  BY <1>1, <1>2, PTL DEF Spec, LiveSpec

\* A client that polls and pages back misses no shout of its span but late ones, for any
\* pages, collectors and times (findNewer, findOlder).
THEOREM NothingSkippedCorrect == Spec => []NothingSkipped
  BY LiveRefined, LiveSkipsNothing, PTL

\* Clients show the map and the chat as the server has them, and a fire they were told of
\* lasts and has no neighbour, on any map, with any number of players, messages, monsters
\* and fires (ChannelService, ChannelGateway, CampfireStore).
THEOREM WorldAgreesCorrect == Spec => []WorldAgrees
  BY LiveRefined, LiveAgrees, PTL

\* The pages of the market of listings take their figures from the same deals, for any items,
\* prices, limits and windows of time (getItemPriceStats, getItemMarket, getPriceHistory).
THEOREM FiguresAgreeCorrect == Spec => []FiguresAgree
  BY LiveRefined, LiveFiguresAgree, PTL

\* Every listing is on one page, in an order that no request changes, for any listings,
\* limits and sizes of pages (findListings).
THEOREM PagesHoldCorrect == Spec => []PagesHold
  BY LiveRefined, LivePagesHold, PTL

\* The table of the in-game market, the quotes of an item and its curve count the same
\* quotes, for any items, prices, limits and stretches (getOverview, getQuotes, getHistory).
THEOREM MarketPagesAgreeCorrect == Spec => []MarketPagesAgree
  BY LiveRefined, LiveMarketPagesAgree, PTL

\* A route that is found is a walk over connections from a start to a finish, and none is
\* shorter; it is only said that there is none if no finish can be reached: for any maps,
\* connections, groups and names, and in whatever order these are stored (findShortestRoute).
THEOREM ShortestRouteCorrect == Spec => []ShortestRoute
  BY LiveRefined, LiveShortestRoute, PTL

-----------------------------------------------------------------------------
\* Catalogues

\* Whoever turns the pages of a list comes to every row once, whatever sorts it.
LEMMA ListsShown ==
    ASSUME NEW key, IsFiniteSet(DOMAIN key), \A q \in DOMAIN key : q \in Int /\ key[q] \in Int
    PROVE  /\ OldWorld!Import!ShownOnce(key)
           /\ GuWorld!Import!ShownOnce(key)
           /\ Items!Import!ShownOnce(key)
<1>1. /\ \A S : OldWorld!Import!Cardinality(S) = Cardinality(S)
      /\ \A S : GuWorld!Import!Cardinality(S) = Cardinality(S)
      /\ \A S : Items!Import!Cardinality(S) = Cardinality(S)
  BY DEF OldWorld!Import!Cardinality, GuWorld!Import!Cardinality, Items!Import!Cardinality,
         Cardinality
<1>2. \A limit \in 1 .. Cardinality(DOMAIN key), r \in DOMAIN key :
         \E p \in 1 .. (Cardinality(DOMAIN key) + limit - 1) \div limit :
            PagesOfRow(key, r, limit) = {p}
  <2> SUFFICES ASSUME NEW limit \in 1 .. Cardinality(DOMAIN key), NEW r \in DOMAIN key
               PROVE  \E p \in 1 .. (Cardinality(DOMAIN key) + limit - 1) \div limit :
                         PagesOfRow(key, r, limit) = {p}
    OBVIOUS
  <2>1. Cardinality(DOMAIN key) \in Nat
    BY FS_CardinalityType
  <2>2. limit \in Nat \ {0}
    BY <2>1
  <2> QED
    BY <2>2, RowsOnce
<1>3. OldWorld!Import!ShownOnce(key)
  <2>1. \A r : OldWorld!Import!Ahead(key, r) = AheadOf(key, r)
    BY DEF OldWorld!Import!Ahead, AheadOf
  <2>2. \A r : {q \in DOMAIN key : r \in OldWorld!Import!Ahead(key, q)} = BehindOf(key, r)
    BY <2>1 DEF BehindOf
  <2>3. \A r, limit : OldWorld!Import!PagesOf(key, r, limit) = PagesOfRow(key, r, limit)
    BY <1>1, <2>1, <2>2 DEF OldWorld!Import!PagesOf, PagesOfRow
  <2>4. \A limit : \A r \in DOMAIN key :
           OldWorld!Import!TotalPages(key, limit) = (Cardinality(DOMAIN key) + limit - 1) \div limit
    BY <1>1 DEF OldWorld!Import!TotalPages
  <2> QED
    BY <1>1, <1>2, <2>3, <2>4 DEF OldWorld!Import!ShownOnce
<1>4. GuWorld!Import!ShownOnce(key)
  <2>1. \A r : GuWorld!Import!Ahead(key, r) = AheadOf(key, r)
    BY DEF GuWorld!Import!Ahead, AheadOf
  <2>2. \A r : {q \in DOMAIN key : r \in GuWorld!Import!Ahead(key, q)} = BehindOf(key, r)
    BY <2>1 DEF BehindOf
  <2>3. \A r, limit : GuWorld!Import!PagesOf(key, r, limit) = PagesOfRow(key, r, limit)
    BY <1>1, <2>1, <2>2 DEF GuWorld!Import!PagesOf, PagesOfRow
  <2>4. \A limit : \A r \in DOMAIN key :
           GuWorld!Import!TotalPages(key, limit) = (Cardinality(DOMAIN key) + limit - 1) \div limit
    BY <1>1 DEF GuWorld!Import!TotalPages
  <2> QED
    BY <1>1, <1>2, <2>3, <2>4 DEF GuWorld!Import!ShownOnce
<1>5. Items!Import!ShownOnce(key)
  <2>1. \A r : Items!Import!Ahead(key, r) = AheadOf(key, r)
    BY DEF Items!Import!Ahead, AheadOf
  <2>2. \A r : {q \in DOMAIN key : r \in Items!Import!Ahead(key, q)} = BehindOf(key, r)
    BY <2>1 DEF BehindOf
  <2>3. \A r, limit : Items!Import!PagesOf(key, r, limit) = PagesOfRow(key, r, limit)
    BY <1>1, <2>1, <2>2 DEF Items!Import!PagesOf, PagesOfRow
  <2>4. \A limit : \A r \in DOMAIN key :
           Items!Import!TotalPages(key, limit) = (Cardinality(DOMAIN key) + limit - 1) \div limit
    BY <1>1 DEF Items!Import!TotalPages
  <2> QED
    BY <1>1, <1>2, <2>3, <2>4 DEF Items!Import!ShownOnce
<1> QED
  BY <1>3, <1>4, <1>5

-----------------------------------------------------------------------------
\* The catalogue of the old world

OldNames == {"mob", "spell", "map"}
OldDocs == [x \in OldExtract |-> [n \in OldNames |-> OldWorld!Docs(x, n)]]
OldInv == ImportOK(OldNames, OldExtract, OldDocs, oldStore, oldImport, oldWhole)

GuNames == {"mob", "item", "skill", "shop"}
GuDocs == [x \in GuExtract |-> [n \in GuNames |-> GuWorld!Docs(x, n)]]
GuInv == ImportOK(GuNames, GuExtract, GuDocs, guStore, guImport, guWhole)

ItemNames == {"items"}
Accepted == {x \in ItemExtract : ~ Items!Refused(x)}
ItemDocs == [x \in Accepted |-> [n \in ItemNames |-> Items!Docs(x, n)]]
ItemInv == ImportOK(ItemNames, Accepted, ItemDocs, itemStore, itemImport, itemWhole)

LEMMA ImportNames ==
    /\ OldWorld!Import!Names = OldNames
    /\ GuWorld!Import!Names = GuNames
    /\ Items!Import!Names = ItemNames
<1>1. /\ DOMAIN <<"mob", "spell", "map">> = {1, 2, 3}
      /\ DOMAIN <<"mob", "item", "skill", "shop">> = {1, 2, 3, 4}
      /\ DOMAIN <<"items">> = {1}
  OBVIOUS
<1> QED
  BY <1>1 DEF OldWorld!Import!Names, GuWorld!Import!Names, Items!Import!Names,
              OldWorld!Import!Range, GuWorld!Import!Range, Items!Import!Range,
              OldNames, GuNames, ItemNames

LEMMA DocsNumbered ==
    /\ \A x \in OldExtract, n \in OldNames : DOMAIN OldDocs[x][n] \subseteq Int
    /\ \A x \in GuExtract, n \in GuNames : DOMAIN GuDocs[x][n] \subseteq Int
    /\ \A x \in Accepted, n \in ItemNames : DOMAIN ItemDocs[x][n] \subseteq Int
<1>1. ASSUME NEW x \in OldExtract, NEW n \in OldNames PROVE DOMAIN OldDocs[x][n] \subseteq Int
  <2>1. x.mobs \subseteq Int /\ x.spells \subseteq Int /\ x.maps \subseteq Int
    BY ExtractAssumption DEF OldWorld!ExtractShape
  <2> QED
    BY <2>1 DEF OldDocs, OldNames, OldWorld!Docs, OldWorld!MobDocs, OldWorld!SpellDocs,
                OldWorld!MapDocs
<1>2. ASSUME NEW x \in GuExtract, NEW n \in GuNames PROVE DOMAIN GuDocs[x][n] \subseteq Int
  <2>1. /\ DOMAIN x.mobs \subseteq Int /\ DOMAIN x.items \subseteq Int
        /\ DOMAIN x.skills \subseteq Int /\ DOMAIN x.shops \subseteq Int
    BY ExtractAssumption DEF GuWorld!WellFormed
  <2> QED
    BY <2>1 DEF GuDocs, GuNames, GuWorld!Docs, GuWorld!MobDocs, GuWorld!ItemDocs,
                GuWorld!SkillDocs, GuWorld!ShopDocs
<1>3. ASSUME NEW x \in Accepted, NEW n \in ItemNames PROVE DOMAIN ItemDocs[x][n] \subseteq Int
  <2>1. DOMAIN x.rows \subseteq Int
    BY ExtractAssumption DEF Accepted
  <2> QED
    BY <2>1 DEF ItemDocs, ItemNames, Items!Docs
<1> QED
  BY <1>1, <1>2, <1>3

LEMMA OldInit == OldWorld!Init => OldInv
<1>1. SUFFICES ASSUME OldWorld!Init PROVE OldInv
  OBVIOUS
<1>2. oldStore = [n \in OldNames |-> << >>] /\ oldImport = NoImport /\ oldWhole = NoImport
  BY <1>1, ImportNames DEF OldWorld!Init, OldWorld!Import!Init, OldWorld!Import!None, NoImport
<1>3. DOMAIN oldStore = OldNames /\ \A n \in OldNames : DOMAIN oldStore[n] = {}
  BY <1>2
<1> QED
  BY <1>2, <1>3 DEF OldInv, ImportOK

LEMMA OldNext ==
    ASSUME OldInv, OldWorld!Next \/ UNCHANGED oldVars PROVE OldInv'
<1> DEFINE step == ImportStep(OldNames, OldExtract, OldDocs, oldStore, oldImport, oldWhole,
                              oldStore', oldImport', oldWhole')
<1>1. ASSUME UNCHANGED oldVars PROVE step
  BY <1>1 DEF oldVars, ImportStep
<1>2. ASSUME \E x \in OldExtract : \E only : OldWorld!Import!Start(x, only)
                                          /\ only \in SUBSET OldNames PROVE step
  <2>1. PICK x \in OldExtract, only \in SUBSET OldNames : OldWorld!Import!Start(x, only)
    BY <1>2
  <2>2. \A n \in OldNames : OldDocs[x][n] = OldWorld!Docs(x, n)
    BY DEF OldDocs
  <2>3. [n \in OldNames |-> IF n \in only THEN DOMAIN OldWorld!Docs(x, n) ELSE {}]
           = [n \in OldNames |-> IF n \in only THEN DOMAIN OldDocs[x][n] ELSE {}]
    BY <2>2
  <2>4. Began(OldNames, OldExtract, OldDocs, oldStore, oldImport, oldStore', oldImport', oldWhole')
    BY <2>1, <2>3, ImportNames DEF OldWorld!Import!Start, OldWorld!Import!None, NoImport, Began
  <2> QED
    BY <2>4 DEF ImportStep
<1>3. ASSUME \E n \in OldNames : \E id \in oldImport.left[n] : OldWorld!Import!Write(n, id) PROVE step
  <2>1. PICK n \in OldNames : \E id \in oldImport.left[n] : OldWorld!Import!Write(n, id)
    BY <1>3
  <2>2. PICK id \in oldImport.left[n] : OldWorld!Import!Write(n, id)
    BY <2>1
  <2>3. oldImport # NoImport
    BY <2>2 DEF OldWorld!Import!Write, OldWorld!Import!None, NoImport
  <2>4. oldImport.from \in OldExtract
    BY <2>3 DEF OldInv, ImportOK
  <2>5. OldDocs[oldImport.from][n] = OldWorld!Docs(oldImport.from, n)
    BY <2>4 DEF OldDocs
  <2>6. Wrote(OldNames, OldDocs, oldStore, oldImport, oldWhole, oldStore', oldImport', oldWhole')
    BY <2>2, <2>3, <2>5 DEF OldWorld!Import!Write, Wrote
  <2> QED
    BY <2>6 DEF ImportStep
<1>4. ASSUME OldWorld!Import!Finish \/ OldWorld!Import!Stop PROVE step
  <2>1. Finished(OldNames, oldStore, oldImport, oldWhole, oldStore', oldImport', oldWhole')
    BY <1>4, ImportNames DEF OldWorld!Import!Finish, OldWorld!Import!Stop, OldWorld!Import!None, NoImport,
                             Finished
  <2> QED
    BY <2>1 DEF ImportStep
<1>5. OldWorld!Next \/ UNCHANGED oldVars
  OBVIOUS
<1>6. step
  BY <1>1, <1>2, <1>3, <1>4, <1>5, ImportNames DEF OldWorld!Next, OldWorld!Import!Next, OldNames
<1> HIDE DEF step
<1> QED
  BY <1>6, DocsNumbered, ImportKeeps DEF step, OldInv

LEMMA GuInit == GuWorld!Init => GuInv
<1>1. SUFFICES ASSUME GuWorld!Init PROVE GuInv
  OBVIOUS
<1>2. guStore = [n \in GuNames |-> << >>] /\ guImport = NoImport /\ guWhole = NoImport
  BY <1>1, ImportNames DEF GuWorld!Init, GuWorld!Import!Init, GuWorld!Import!None, NoImport
<1>3. DOMAIN guStore = GuNames /\ \A n \in GuNames : DOMAIN guStore[n] = {}
  BY <1>2
<1> QED
  BY <1>2, <1>3 DEF GuInv, ImportOK

LEMMA GuNext ==
    ASSUME GuInv, GuWorld!Next \/ UNCHANGED guVars PROVE GuInv'
<1> DEFINE step == ImportStep(GuNames, GuExtract, GuDocs, guStore, guImport, guWhole,
                              guStore', guImport', guWhole')
<1>1. ASSUME UNCHANGED guVars PROVE step
  BY <1>1 DEF guVars, ImportStep
<1>2. ASSUME \E x \in GuExtract : \E only : GuWorld!Import!Start(x, only)
                                          /\ only \in SUBSET GuNames PROVE step
  <2>1. PICK x \in GuExtract, only \in SUBSET GuNames : GuWorld!Import!Start(x, only)
    BY <1>2
  <2>2. \A n \in GuNames : GuDocs[x][n] = GuWorld!Docs(x, n)
    BY DEF GuDocs
  <2>3. [n \in GuNames |-> IF n \in only THEN DOMAIN GuWorld!Docs(x, n) ELSE {}]
           = [n \in GuNames |-> IF n \in only THEN DOMAIN GuDocs[x][n] ELSE {}]
    BY <2>2
  <2>4. Began(GuNames, GuExtract, GuDocs, guStore, guImport, guStore', guImport', guWhole')
    BY <2>1, <2>3, ImportNames DEF GuWorld!Import!Start, GuWorld!Import!None, NoImport, Began
  <2> QED
    BY <2>4 DEF ImportStep
<1>3. ASSUME \E n \in GuNames : \E id \in guImport.left[n] : GuWorld!Import!Write(n, id) PROVE step
  <2>1. PICK n \in GuNames : \E id \in guImport.left[n] : GuWorld!Import!Write(n, id)
    BY <1>3
  <2>2. PICK id \in guImport.left[n] : GuWorld!Import!Write(n, id)
    BY <2>1
  <2>3. guImport # NoImport
    BY <2>2 DEF GuWorld!Import!Write, GuWorld!Import!None, NoImport
  <2>4. guImport.from \in GuExtract
    BY <2>3 DEF GuInv, ImportOK
  <2>5. GuDocs[guImport.from][n] = GuWorld!Docs(guImport.from, n)
    BY <2>4 DEF GuDocs
  <2>6. Wrote(GuNames, GuDocs, guStore, guImport, guWhole, guStore', guImport', guWhole')
    BY <2>2, <2>3, <2>5 DEF GuWorld!Import!Write, Wrote
  <2> QED
    BY <2>6 DEF ImportStep
<1>4. ASSUME GuWorld!Import!Finish \/ GuWorld!Import!Stop PROVE step
  <2>1. Finished(GuNames, guStore, guImport, guWhole, guStore', guImport', guWhole')
    BY <1>4, ImportNames DEF GuWorld!Import!Finish, GuWorld!Import!Stop, GuWorld!Import!None, NoImport,
                             Finished
  <2> QED
    BY <2>1 DEF ImportStep
<1>5. GuWorld!Next \/ UNCHANGED guVars
  OBVIOUS
<1>6. step
  BY <1>1, <1>2, <1>3, <1>4, <1>5, ImportNames DEF GuWorld!Next, GuWorld!Import!Next, GuNames
<1> HIDE DEF step
<1> QED
  BY <1>6, DocsNumbered, ImportKeeps DEF step, GuInv

LEMMA ItemInit == Items!Init => ItemInv
<1>1. SUFFICES ASSUME Items!Init PROVE ItemInv
  OBVIOUS
<1>2. itemStore = [n \in ItemNames |-> << >>] /\ itemImport = NoImport /\ itemWhole = NoImport
  BY <1>1, ImportNames DEF Items!Init, Items!Import!Init, Items!Import!None, NoImport
<1>3. DOMAIN itemStore = ItemNames /\ \A n \in ItemNames : DOMAIN itemStore[n] = {}
  BY <1>2
<1> QED
  BY <1>2, <1>3 DEF ItemInv, ImportOK

LEMMA ItemNext ==
    ASSUME ItemInv, Items!Next \/ UNCHANGED itemVars PROVE ItemInv'
<1> DEFINE step == ImportStep(ItemNames, Accepted, ItemDocs, itemStore, itemImport, itemWhole,
                              itemStore', itemImport', itemWhole')
<1>1. ASSUME UNCHANGED itemVars PROVE step
  BY <1>1 DEF itemVars, ImportStep
<1>2. ASSUME \E x \in Accepted : \E only : Items!Import!Start(x, only)
                                          /\ only \in SUBSET ItemNames PROVE step
  <2>1. PICK x \in Accepted, only \in SUBSET ItemNames : Items!Import!Start(x, only)
    BY <1>2
  <2>2. \A n \in ItemNames : ItemDocs[x][n] = Items!Docs(x, n)
    BY DEF ItemDocs
  <2>3. [n \in ItemNames |-> IF n \in only THEN DOMAIN Items!Docs(x, n) ELSE {}]
           = [n \in ItemNames |-> IF n \in only THEN DOMAIN ItemDocs[x][n] ELSE {}]
    BY <2>2
  <2>4. Began(ItemNames, Accepted, ItemDocs, itemStore, itemImport, itemStore', itemImport', itemWhole')
    BY <2>1, <2>3, ImportNames DEF Items!Import!Start, Items!Import!None, NoImport, Began
  <2> QED
    BY <2>4 DEF ImportStep
<1>3. ASSUME \E n \in ItemNames : \E id \in itemImport.left[n] : Items!Import!Write(n, id) PROVE step
  <2>1. PICK n \in ItemNames : \E id \in itemImport.left[n] : Items!Import!Write(n, id)
    BY <1>3
  <2>2. PICK id \in itemImport.left[n] : Items!Import!Write(n, id)
    BY <2>1
  <2>3. itemImport # NoImport
    BY <2>2 DEF Items!Import!Write, Items!Import!None, NoImport
  <2>4. itemImport.from \in Accepted
    BY <2>3 DEF ItemInv, ImportOK
  <2>5. ItemDocs[itemImport.from][n] = Items!Docs(itemImport.from, n)
    BY <2>4 DEF ItemDocs
  <2>6. Wrote(ItemNames, ItemDocs, itemStore, itemImport, itemWhole, itemStore', itemImport', itemWhole')
    BY <2>2, <2>3, <2>5 DEF Items!Import!Write, Wrote
  <2> QED
    BY <2>6 DEF ImportStep
<1>4. ASSUME Items!Import!Finish \/ Items!Import!Stop PROVE step
  <2>1. Finished(ItemNames, itemStore, itemImport, itemWhole, itemStore', itemImport', itemWhole')
    BY <1>4, ImportNames DEF Items!Import!Finish, Items!Import!Stop, Items!Import!None, NoImport,
                             Finished
  <2> QED
    BY <2>1 DEF ImportStep
<1>5. Items!Next \/ UNCHANGED itemVars
  OBVIOUS
<1>6. step
  BY <1>1, <1>2, <1>3, <1>4, <1>5, ImportNames DEF Items!Next, Items!Import!Next, ItemNames, Accepted
<1> HIDE DEF step
<1> QED
  BY <1>6, DocsNumbered, ImportKeeps DEF step, ItemInv

RefsOf(x) == [q \in {r[1] : r \in x.refs} |-> (CHOOSE r \in x.refs : r[1] = q)[2]]

LEMMA SizeIsEnd ==
    ASSUME NEW x, NEW p PROVE OldWorld!SizeOf(x, p) = HopsEnd(RefsOf(x), p, Hops)
  BY DEF OldWorld!SizeOf, HopsEnd, HopsFrom, RefsOf

\* Maps that share their data have one size.
LEMMA SizesAgree ==
    ASSUME NEW x \in OldExtract, NEW r \in x.refs
    PROVE  OldWorld!SizeOf(x, r[1]) = OldWorld!SizeOf(x, r[2])
<1>1. /\ x.refs \subseteq OldPlace \X OldPlace /\ Hops \in Nat
      /\ \A q, s \in x.refs : q[1] = s[1] => q = s
  BY ExtractAssumption DEF OldWorld!ExtractShape
<1>2. PICK left \in [OldPlace -> 0 .. Hops + 1] : \A q \in x.refs : left[q[2]] < left[q[1]]
  BY ExtractAssumption
<1> DEFINE D == {q[1] : q \in x.refs}
           ref == RefsOf(x)
<1>3. DOMAIN ref = D /\ \A q \in x.refs : ref[q[1]] = q[2]
  <2>1. ASSUME NEW q \in x.refs PROVE ref[q[1]] = q[2]
    <3>1. q[1] \in D
      OBVIOUS
    <3>2. (CHOOSE s \in x.refs : s[1] = q[1]) = q
      BY <1>1
    <3> QED
      BY <3>1, <3>2 DEF RefsOf
  <2> QED
    BY <2>1 DEF RefsOf
<1>4. D \in SUBSET OldPlace
  BY <1>1
<1>5. ref \in [D -> OldPlace] /\ \A d \in D : left[ref[d]] < left[d]
  <2>1. ASSUME NEW d \in D PROVE ref[d] \in OldPlace /\ left[ref[d]] < left[d]
    <3>1. PICK q \in x.refs : d = q[1]
      OBVIOUS
    <3> QED
      BY <1>1, <1>2, <1>3, <3>1
  <2>2. ref = [d \in D |-> ref[d]]
    BY DEF RefsOf
  <2> QED
    BY <2>1, <2>2
<1>6. HopsEnd(ref, r[1], Hops) = HopsEnd(ref, ref[r[1]], Hops)
  <2>1. r[1] \in D
    OBVIOUS
  <2> HIDE DEF D, ref
  <2>2. Ending(OldPlace, D, ref, Hops)
    BY <1>1, <1>4, <1>5 DEF Ending
  <2> QED
    BY <2>1, <2>2, EndsMeet
<1> QED
  BY <1>3, <1>6, SizeIsEnd

\* What a document of each collection is
LEMMA OldStored ==
    ASSUME OldInv
    PROVE  /\ \A p \in DOMAIN OldWorld!maps : \E x \in OldExtract :
                 p \in DOMAIN OldWorld!MapDocs(x) /\ OldWorld!maps[p] = OldWorld!MapDocs(x)[p]
           /\ \A s \in DOMAIN OldWorld!spells : \E x \in OldExtract :
                 /\ s \in DOMAIN OldWorld!SpellDocs(x)
                 /\ OldWorld!spells[s] = OldWorld!SpellDocs(x)[s]
           /\ oldWhole # NoImport =>
                 /\ oldWhole \in OldExtract
                 /\ \A m \in DOMAIN OldWorld!MobDocs(oldWhole) :
                       /\ m \in DOMAIN OldWorld!mobs
                       /\ OldWorld!mobs[m] = OldWorld!MobDocs(oldWhole)[m]
                 /\ \A s \in DOMAIN OldWorld!SpellDocs(oldWhole) :
                       /\ s \in DOMAIN OldWorld!spells
                       /\ OldWorld!spells[s] = OldWorld!SpellDocs(oldWhole)[s]
                 /\ \A p \in DOMAIN OldWorld!MapDocs(oldWhole) :
                       /\ p \in DOMAIN OldWorld!maps
                       /\ OldWorld!maps[p] = OldWorld!MapDocs(oldWhole)[p]
<1>1. \A x \in OldExtract :
         /\ OldDocs[x]["mob"] = OldWorld!MobDocs(x)
         /\ OldDocs[x]["spell"] = OldWorld!SpellDocs(x)
         /\ OldDocs[x]["map"] = OldWorld!MapDocs(x)
  BY DEF OldDocs, OldNames, OldWorld!Docs
<1>2. \A n \in OldNames : \A id \in DOMAIN oldStore[n] :
         \E x \in OldExtract : id \in DOMAIN OldDocs[x][n] /\ oldStore[n][id] = OldDocs[x][n][id]
  BY DEF OldInv, ImportOK
<1>3. oldWhole # NoImport =>
         /\ oldWhole \in OldExtract
         /\ \A n \in OldNames : \A id \in DOMAIN OldDocs[oldWhole][n] :
               id \in DOMAIN oldStore[n] /\ oldStore[n][id] = OldDocs[oldWhole][n][id]
  <2> SUFFICES ASSUME oldWhole # NoImport,
                      NEW n \in OldNames, NEW id \in DOMAIN OldDocs[oldWhole][n]
               PROVE  id \in DOMAIN oldStore[n] /\ oldStore[n][id] = OldDocs[oldWhole][n][id]
    BY DEF OldInv, ImportOK
  <2>1. Written(OldNames, OldDocs, oldStore, oldWhole, [k \in OldNames |-> {}])
    BY DEF OldInv, ImportOK
  <2>2. id \notin [k \in OldNames |-> {}][n]
    OBVIOUS
  <2> QED
    BY <2>1, <2>2 DEF Written
<1>4. {"mob", "spell", "map"} = OldNames
  BY DEF OldNames
<1> QED
  BY <1>1, <1>2, <1>3, <1>4 DEF OldWorld!mobs, OldWorld!spells, OldWorld!maps

\* The three categories share out the spells that are shown.
LEMMA SpellsShared ==
    ASSUME OldInv, IsFiniteSet(DOMAIN OldWorld!spells)
    PROVE  OldWorld!SpellTotal
              = Cardinality(OldWorld!Category("learnable")) + Cardinality(OldWorld!Category("mob"))
                + Cardinality(OldWorld!Category("other"))
<1> DEFINE S == {s \in DOMAIN OldWorld!spells : ~ OldWorld!spells[s].internal}
           A == {s \in S : OldWorld!spells[s].jobs # {}}
           B == {s \in S : OldWorld!spells[s].mobOnly}
           C == {s \in S : OldWorld!spells[s].jobs = {} /\ ~ OldWorld!spells[s].mobOnly}
<1>1. \A s \in S : OldWorld!spells[s].mobOnly => OldWorld!spells[s].jobs = {}
  <2> SUFFICES ASSUME NEW s \in S, OldWorld!spells[s].mobOnly PROVE OldWorld!spells[s].jobs = {}
    OBVIOUS
  <2>1. PICK x \in OldExtract : /\ s \in DOMAIN OldWorld!SpellDocs(x)
                                /\ OldWorld!spells[s] = OldWorld!SpellDocs(x)[s]
    BY OldStored
  <2> DEFINE learn == {l \in x.learns : l[1] = s}
             casters == {m \in OldMob : <<m, s>> \in x.casts}
             level == IF learn = {} THEN 0 ELSE OldWorld!Min({l[3] : l \in learn})
             only == learn = {} /\ casters # {}
             within == s \in x.internal
  <2>2. OldWorld!SpellDocs(x)[s] = [jobs |-> {l[2] : l \in learn}, minLevel |-> level,
                                    mobs |-> casters, mobOnly |-> only, internal |-> within]
    BY <2>1, Zenon DEF OldWorld!SpellDocs
  <2>3. OldWorld!spells[s].jobs = {l[2] : l \in learn} /\ OldWorld!spells[s].mobOnly = only
    <3> HIDE DEF learn, only, within, casters, level
    <3> QED
      BY <2>1, <2>2
  <2>4. learn = {}
    BY <2>3, Zenon
  <2> QED
    BY <2>3, <2>4
<1>2. /\ A \intersect B = {} /\ (A \union B) \intersect C = {}
      /\ S = (A \union B) \union C
  BY <1>1
<1>3. /\ OldWorld!Category("learnable") = A /\ OldWorld!Category("mob") = B
      /\ OldWorld!Category("other") = C
  BY DEF OldWorld!Category
<1>4. OldWorld!SpellTotal = Cardinality(S)
  BY DEF OldWorld!SpellTotal, OldWorld!Quantify, OldWorld!Cardinality, Cardinality
<1>5. IsFiniteSet(A) /\ IsFiniteSet(B) /\ IsFiniteSet(A \union B) /\ IsFiniteSet(C)
  <2>1. /\ A \subseteq DOMAIN OldWorld!spells /\ B \subseteq DOMAIN OldWorld!spells
        /\ A \union B \subseteq DOMAIN OldWorld!spells /\ C \subseteq DOMAIN OldWorld!spells
    OBVIOUS
  <2> HIDE DEF A, B, C, S
  <2> QED
    BY <2>1, FS_Subset
<1> HIDE DEF A, B, C, S
<1>6. Cardinality(A \union B) = Cardinality(A) + Cardinality(B)
  <2>1. Cardinality(A \intersect B) = 0
    BY <1>2, FS_EmptySet
  <2>2. Cardinality(A \union B) = Cardinality(A) + Cardinality(B) - Cardinality(A \intersect B)
    BY <1>5, FS_Union
  <2>3. Cardinality(A) \in Nat /\ Cardinality(B) \in Nat
    BY <1>5, FS_CardinalityType
  <2> QED
    BY <2>1, <2>2, <2>3
<1>7. Cardinality((A \union B) \union C) = Cardinality(A \union B) + Cardinality(C)
  <2>1. Cardinality((A \union B) \intersect C) = 0
    BY <1>2, FS_EmptySet
  <2>2. Cardinality((A \union B) \union C)
          = Cardinality(A \union B) + Cardinality(C) - Cardinality((A \union B) \intersect C)
    BY <1>5, FS_Union
  <2>3. Cardinality(A \union B) \in Nat /\ Cardinality(C) \in Nat
    BY <1>5, FS_CardinalityType
  <2> QED
    BY <2>1, <2>2, <2>3
<1> QED
  BY <1>2, <1>3, <1>4, <1>6, <1>7

\* What is listed is finite, and sorted by numbers.
LEMMA OldKeys ==
    ASSUME OldInv
    PROVE  /\ IsFiniteSet(DOMAIN OldWorld!maps) /\ DOMAIN OldWorld!maps \subseteq Nat
           /\ \A p \in DOMAIN OldWorld!maps : OldWorld!ByMobs[p] \in Int
           /\ IsFiniteSet(DOMAIN OldWorld!spells) /\ DOMAIN OldWorld!spells \subseteq Nat
           /\ \A s \in DOMAIN OldWorld!spells : OldWorld!ByLevel[s] \in Int
<1>1. /\ OldMob \subseteq Nat /\ IsFiniteSet(OldMob)
      /\ OldSpell \subseteq Nat /\ IsFiniteSet(OldSpell)
      /\ OldPlace \subseteq Nat /\ IsFiniteSet(OldPlace)
  BY ExtractAssumption
<1>2. \A x \in OldExtract : /\ x.maps \subseteq OldPlace /\ x.spells \subseteq OldSpell
                            /\ x.learns \subseteq OldSpell \X {1, 2} \X Nat
  BY ExtractAssumption DEF OldWorld!ExtractShape
<1>3. ASSUME NEW p \in DOMAIN OldWorld!maps
      PROVE  p \in OldPlace /\ OldWorld!ByMobs[p] \in Int
  <2>1. PICK x \in OldExtract : /\ p \in DOMAIN OldWorld!MapDocs(x)
                                /\ OldWorld!maps[p] = OldWorld!MapDocs(x)[p]
    BY OldStored
  <2>2. p \in x.maps /\ OldWorld!maps[p].mobs \subseteq OldMob
    BY <2>1 DEF OldWorld!MapDocs
  <2>3. Cardinality(OldWorld!maps[p].mobs) \in Nat
    BY <1>1, <2>2, FS_Subset, FS_CardinalityType
  <2>4. OldWorld!ByMobs[p] = - Cardinality(OldWorld!maps[p].mobs)
    BY DEF OldWorld!ByMobs, OldWorld!Cardinality, Cardinality
  <2> QED
    BY <1>2, <2>2, <2>3, <2>4
<1>4. ASSUME NEW s \in DOMAIN OldWorld!spells
      PROVE  s \in OldSpell /\ OldWorld!ByLevel[s] \in Int
  <2>1. PICK x \in OldExtract : /\ s \in DOMAIN OldWorld!SpellDocs(x)
                                /\ OldWorld!spells[s] = OldWorld!SpellDocs(x)[s]
    BY OldStored
  <2> DEFINE learn == {l \in x.learns : l[1] = s}
             levels == {l[3] : l \in learn}
  <2>2. s \in x.spells
    BY <2>1 DEF OldWorld!SpellDocs
  <2>3. OldWorld!SpellDocs(x)[s].minLevel = IF learn = {} THEN 0 ELSE OldWorld!Min(levels)
    BY <2>1 DEF OldWorld!SpellDocs
  <2>4. ASSUME learn # {} PROVE OldWorld!Min(levels) \in Nat
    <3>1. levels \in SUBSET Nat
      BY <1>2
    <3>2. levels # {}
      BY <2>4
    <3> HIDE DEF levels
    <3>3. \E m \in levels : \A n \in levels : m <= n
      BY <3>1, <3>2, LeastOf
    <3>4. OldWorld!Min(levels) \in levels
      BY <3>3 DEF OldWorld!Min
    <3> QED
      BY <3>1, <3>4
  <2>5. OldWorld!ByLevel[s] = OldWorld!SpellDocs(x)[s].minLevel
    BY <2>1 DEF OldWorld!ByLevel
  <2> HIDE DEF learn, levels
  <2> QED
    BY <1>2, <2>2, <2>3, <2>4, <2>5
<1>5. DOMAIN OldWorld!maps \subseteq OldPlace /\ DOMAIN OldWorld!spells \subseteq OldSpell
  BY <1>3, <1>4
<1> QED
  BY <1>1, <1>3, <1>4, <1>5, FS_Subset

\* The fields of the documents
LEMMA OldFields ==
    ASSUME NEW x
    PROVE  /\ \A p \in x.maps :
                 /\ OldWorld!MapDocs(x)[p].mobs = {m \in OldMob : <<m, p>> \in x.spawns}
                 /\ OldWorld!MapDocs(x)[p].size = OldWorld!SizeOf(x, p)
                 /\ OldWorld!MapDocs(x)[p].disabled = (p \in x.disabled)
                 /\ OldWorld!MapDocs(x)[p].portals
                      = {q \in OldWorld!Live(x) : p \in OldWorld!Live(x) /\ <<p, q>> \in x.portals}
           /\ \A m \in x.mobs :
                 /\ OldWorld!MobDocs(x)[m].spells = {s \in OldSpell : <<m, s>> \in x.casts}
                 /\ OldWorld!MobDocs(x)[m].spawns = {p \in OldPlace : <<m, p>> \in x.spawns}
           /\ \A s \in x.spells \ x.unnamed :
                 OldWorld!SpellDocs(x)[s].mobs = {m \in OldMob : <<m, s>> \in x.casts}
<1>1. ASSUME NEW p \in x.maps
      PROVE  /\ OldWorld!MapDocs(x)[p].mobs = {m \in OldMob : <<m, p>> \in x.spawns}
             /\ OldWorld!MapDocs(x)[p].size = OldWorld!SizeOf(x, p)
             /\ OldWorld!MapDocs(x)[p].disabled = (p \in x.disabled)
             /\ OldWorld!MapDocs(x)[p].portals
                  = {q \in OldWorld!Live(x) : p \in OldWorld!Live(x) /\ <<p, q>> \in x.portals}
  BY DEF OldWorld!MapDocs
<1>2. ASSUME NEW m \in x.mobs
      PROVE  /\ OldWorld!MobDocs(x)[m].spells = {s \in OldSpell : <<m, s>> \in x.casts}
             /\ OldWorld!MobDocs(x)[m].spawns = {p \in OldPlace : <<m, p>> \in x.spawns}
  BY DEF OldWorld!MobDocs
<1>3. ASSUME NEW s \in x.spells \ x.unnamed
      PROVE  OldWorld!SpellDocs(x)[s].mobs = {m \in OldMob : <<m, s>> \in x.casts}
  BY DEF OldWorld!SpellDocs
<1> QED
  BY <1>1, <1>2, <1>3

\* A map is listed among those that lead to another, unless more of them do than are listed.
LEMMA ListedIncoming ==
    ASSUME OldInv, NEW q, NEW p \in OldWorld!LeadTo(q), NEW listed \in OldWorld!Incoming(q)
    PROVE  p \in listed \/ Cardinality(OldWorld!LeadTo(q)) > IncomingLimit
<1> DEFINE L == OldWorld!LeadTo(q)
           least == OldWorld!Min({Cardinality(L), IncomingLimit})
<1>1. IsFiniteSet(L) /\ Cardinality(L) \in Nat /\ IncomingLimit \in Nat
  <2>1. L \in SUBSET DOMAIN OldWorld!maps
    BY DEF OldWorld!LeadTo
  <2> QED
    BY <2>1, OldKeys, FS_Subset, FS_CardinalityType, ExtractAssumption
<1>2. listed \in SUBSET L /\ Cardinality(listed) = least
  BY DEF OldWorld!Incoming, OldWorld!kSubset, OldWorld!Cardinality, Cardinality
<1> HIDE DEF L
<1>3. Cardinality(L) <= IncomingLimit => least = Cardinality(L)
  <2> SUFFICES ASSUME Cardinality(L) <= IncomingLimit PROVE least = Cardinality(L)
    OBVIOUS
  <2>1. \A m \in {Cardinality(L), IncomingLimit} : Cardinality(L) <= m
    BY <1>1
  <2>2. /\ least \in {Cardinality(L), IncomingLimit}
        /\ \A m \in {Cardinality(L), IncomingLimit} : least <= m
    BY <2>1 DEF OldWorld!Min
  <2> QED
    BY <1>1, <2>2
<1> HIDE DEF least
<1>4. Cardinality(listed) = Cardinality(L) => listed = L
  BY <1>1, <1>2, FS_Subset
<1>5. Cardinality(L) <= IncomingLimit \/ Cardinality(L) > IncomingLimit
  BY <1>1
<1> QED
  BY <1>2, <1>3, <1>4, <1>5 DEF L

LEMMA OldAgrees == OldInv => OldWorld!CatalogueAgrees
<1> SUFFICES ASSUME OldInv PROVE OldWorld!CatalogueAgrees
  OBVIOUS
<1> DEFINE w == oldWhole
<1>1. OldWorld!Import!ShownOnce(OldWorld!ByMobs) /\ OldWorld!Import!ShownOnce(OldWorld!ByLevel)
  <2>1. /\ DOMAIN OldWorld!ByMobs = DOMAIN OldWorld!maps
        /\ DOMAIN OldWorld!ByLevel = DOMAIN OldWorld!spells
    BY DEF OldWorld!ByMobs, OldWorld!ByLevel
  <2> QED
    BY <2>1, OldKeys, ListsShown
<1>2. OldWorld!SpellTotal
         = Cardinality(OldWorld!Category("learnable")) + Cardinality(OldWorld!Category("mob"))
           + Cardinality(OldWorld!Category("other"))
  BY OldKeys, SpellsShared
<1>3. ASSUME w # NoImport
      PROVE  /\ w \in OldExtract
             /\ w.maps \subseteq OldPlace /\ w.mobs \subseteq OldMob /\ w.spells \subseteq OldSpell
             /\ \A m \in w.mobs : /\ m \in DOMAIN OldWorld!mobs
                                  /\ OldWorld!mobs[m] = OldWorld!MobDocs(w)[m]
             /\ \A s \in w.spells \ w.unnamed :
                   s \in DOMAIN OldWorld!spells /\ OldWorld!spells[s] = OldWorld!SpellDocs(w)[s]
             /\ \A p \in w.maps : /\ p \in DOMAIN OldWorld!maps
                                  /\ OldWorld!maps[p] = OldWorld!MapDocs(w)[p]
  <2>1. /\ DOMAIN OldWorld!MobDocs(w) = w.mobs
        /\ DOMAIN OldWorld!SpellDocs(w) = w.spells \ w.unnamed
        /\ DOMAIN OldWorld!MapDocs(w) = w.maps
    BY DEF OldWorld!MobDocs, OldWorld!SpellDocs, OldWorld!MapDocs
  <2>2. w \in OldExtract
    BY <1>3, OldStored
  <2>3. w.maps \subseteq OldPlace /\ w.mobs \subseteq OldMob /\ w.spells \subseteq OldSpell
    BY <2>2, ExtractAssumption DEF OldWorld!ExtractShape
  <2> QED
    BY <1>3, <2>1, <2>2, <2>3, OldStored
<1>4. ASSUME w # NoImport, NEW p \in w.maps
      PROVE  /\ \A m : m \in OldWorld!maps[p].mobs <=> m \in OldMob /\ <<m, p>> \in w.spawns
             /\ OldWorld!maps[p].size = OldWorld!SizeOf(w, p)
             /\ OldWorld!maps[p].disabled <=> p \in w.disabled
             /\ \A q : q \in OldWorld!maps[p].portals <=>
                          /\ q \in w.maps \ w.disabled /\ p \in w.maps \ w.disabled
                          /\ <<p, q>> \in w.portals
  <2>1. p \in DOMAIN OldWorld!maps /\ OldWorld!maps[p] = OldWorld!MapDocs(w)[p]
    BY <1>3, <1>4
  <2> HIDE DEF w
  <2>2. /\ OldWorld!maps[p].mobs = {m \in OldMob : <<m, p>> \in w.spawns}
        /\ OldWorld!maps[p].size = OldWorld!SizeOf(w, p)
        /\ OldWorld!maps[p].disabled = (p \in w.disabled)
        /\ OldWorld!maps[p].portals
             = {q \in OldWorld!Live(w) : p \in OldWorld!Live(w) /\ <<p, q>> \in w.portals}
    BY <1>4, <2>1, OldFields
  <2>3. OldWorld!Live(w) = w.maps \ w.disabled
    BY DEF OldWorld!Live
  <2> QED
    BY <2>2, <2>3
<1>5. ASSUME w # NoImport, NEW m \in w.mobs
      PROVE  /\ \A p : p \in OldWorld!mobs[m].spawns <=> p \in OldPlace /\ <<m, p>> \in w.spawns
             /\ \A s : s \in OldWorld!mobs[m].spells <=> s \in OldSpell /\ <<m, s>> \in w.casts
  BY <1>3, <1>5, OldFields
<1>6. ASSUME w # NoImport, NEW s \in w.spells \ w.unnamed
      PROVE  \A m : m \in OldWorld!spells[s].mobs <=> m \in OldMob /\ <<m, s>> \in w.casts
  <2>1. OldWorld!spells[s].mobs = {m \in OldMob : <<m, s>> \in w.casts}
    BY <1>3, <1>6, OldFields
  <2> QED
    BY <2>1
<1> HIDE DEF w
<1>7. ASSUME w # NoImport, NEW m \in w.mobs, NEW p \in w.maps
      PROVE  p \in OldWorld!mobs[m].spawns <=> m \in OldWorld!maps[p].mobs
  BY <1>3, <1>4, <1>5, <1>7
<1>8. ASSUME w # NoImport, NEW m \in w.mobs, NEW s \in w.spells \ w.unnamed
      PROVE  s \in OldWorld!mobs[m].spells <=> m \in OldWorld!spells[s].mobs
  BY <1>3, <1>5, <1>6, <1>8
<1>9. ASSUME w # NoImport, NEW p \in w.maps, NEW q \in OldWorld!maps[p].portals
      PROVE  /\ q \in DOMAIN OldWorld!maps /\ ~ OldWorld!maps[q].disabled
             /\ \A listed \in OldWorld!Incoming(q) :
                   p \in listed \/ Cardinality(OldWorld!LeadTo(q)) > IncomingLimit
  <2>1. q \in w.maps \ w.disabled /\ p \in w.maps \ w.disabled
    BY <1>4, <1>9
  <2>2. /\ q \in DOMAIN OldWorld!maps /\ ~ OldWorld!maps[q].disabled
        /\ p \in DOMAIN OldWorld!maps /\ ~ OldWorld!maps[p].disabled
    BY <1>3, <1>4, <1>9, <2>1
  <2>3. p \in OldWorld!LeadTo(q)
    BY <1>9, <2>2 DEF OldWorld!LeadTo
  <2> QED
    BY <2>2, <2>3, ListedIncoming
<1>10. ASSUME w # NoImport, NEW r \in w.refs, r \in w.maps \X w.maps
       PROVE  OldWorld!maps[r[1]].size = OldWorld!maps[r[2]].size
  <2>1. OldWorld!SizeOf(w, r[1]) = OldWorld!SizeOf(w, r[2])
    BY <1>3, <1>10, SizesAgree
  <2>2. r[1] \in w.maps /\ r[2] \in w.maps
    BY <1>10
  <2> QED
    BY <1>4, <1>10, <2>1, <2>2
<1>11. ASSUME w # NoImport, NEW p \in OldWorld!HasMob \intersect w.maps,
              NEW m \in OldWorld!maps[p].mobs \intersect w.mobs
       PROVE  m \in OldWorld!Spawned
  <2>1. p \in OldWorld!mobs[m].spawns
    BY <1>7, <1>11
  <2> QED
    BY <1>3, <1>11, <2>1 DEF OldWorld!Spawned
<1> QED
  BY <1>1, <1>2, <1>7, <1>8, <1>9, <1>10, <1>11
     DEF OldWorld!CatalogueAgrees, OldWorld!Import!None, NoImport, w, OldWorld!Cardinality,
         Cardinality

LEMMA NumbersRead ==
    \A v \in Items!Column :
        /\ Items!OptionalNumber(v) \in {-1, 0, 1}
        /\ Items!OptionalNumber(v) = 0 <=> v = "0"
        /\ Items!OptionalNumber(v) = 1 <=> v = "1"
<1>1. /\ Items!OptionalNumber("") = -1 /\ Items!OptionalNumber("0") = 0
      /\ Items!OptionalNumber("1") = 1 /\ Items!OptionalNumber("x") = -1
  BY DEF Items!OptionalNumber, Items!Missing
<1> DEFINE Read(v, n) == /\ n \in {-1, 0, 1}
                         /\ n = 0 <=> v = "0"
                         /\ n = 1 <=> v = "1"
<1>2. Read("", -1) /\ Read("0", 0) /\ Read("1", 1) /\ Read("x", -1)
  OBVIOUS
<1>3. \A v \in Items!Column : Read(v, Items!OptionalNumber(v))
  <2> HIDE DEF Read
  <2> QED
    BY <1>1, <1>2 DEF Items!Column
<1> QED
  BY <1>3

\* The fields of a document
LEMMA ItemFields ==
    ASSUME NEW x \in Accepted, NEW id \in DOMAIN x.rows
    PROVE  LET d == Items!ToDocument(x, id)
           IN  /\ id \in OldItem /\ x.rows[id] \in Items!Columns
               /\ d.type \in {0, 1} /\ (d.type = 1 <=> x.rows[id].type = "1")
               /\ d.requiredLevel \in {-1, 0, 1} /\ d.requiredJob \in {-1, 0, 1}
               /\ d.requiredJob = 0 <=> x.rows[id].job = "0"
               /\ d.requiredJob = 1 <=> x.rows[id].job = "1"
               /\ d.hasIcon = (id \in x.icons)
<1> DEFINE d == Items!ToDocument(x, id)
           r == x.rows[id]
<1>1. id \in OldItem /\ r \in Items!Columns
  BY ExtractAssumption DEF Accepted
<1>2. r.type \in Items!Column /\ r.level \in Items!Column /\ r.job \in Items!Column
  BY <1>1 DEF Items!Columns
<1>3. /\ d.type = IF Items!OptionalNumber(r.type) = -1 THEN 0 ELSE Items!OptionalNumber(r.type)
      /\ d.requiredLevel = Items!OptionalNumber(r.level)
      /\ d.requiredJob = Items!OptionalNumber(r.job)
      /\ d.hasIcon = (id \in x.icons)
  BY DEF Items!ToDocument, Items!Missing
<1> HIDE DEF d, r
<1>4. d.type \in {0, 1} /\ (d.type = 1 <=> r.type = "1")
  BY <1>2, <1>3, NumbersRead
<1>5. d.requiredLevel \in {-1, 0, 1} /\ d.requiredJob \in {-1, 0, 1}
  BY <1>2, <1>3, NumbersRead
<1>6. (d.requiredJob = 0 <=> r.job = "0") /\ (d.requiredJob = 1 <=> r.job = "1")
  BY <1>2, <1>3, NumbersRead
<1> QED
  BY <1>1, <1>3, <1>4, <1>5, <1>6 DEF d, r

LEMMA ItemStored ==
    ASSUME ItemInv
    PROVE  /\ \A id \in DOMAIN Items!items : \E x \in Accepted :
                 id \in DOMAIN x.rows /\ Items!items[id] = Items!ToDocument(x, id)
           /\ itemWhole # NoImport =>
                 /\ itemWhole \in Accepted
                 /\ \A id \in DOMAIN itemWhole.rows :
                       /\ id \in DOMAIN Items!items
                       /\ Items!items[id] = Items!ToDocument(itemWhole, id)
<1>1. \A x \in Accepted : /\ DOMAIN ItemDocs[x]["items"] = DOMAIN x.rows
                          /\ \A id \in DOMAIN x.rows :
                                ItemDocs[x]["items"][id] = Items!ToDocument(x, id)
  BY DEF ItemDocs, ItemNames, Items!Docs
<1>2. \A id \in DOMAIN itemStore["items"] : \E x \in Accepted :
         /\ id \in DOMAIN ItemDocs[x]["items"]
         /\ itemStore["items"][id] = ItemDocs[x]["items"][id]
  BY DEF ItemInv, ImportOK, ItemNames
<1>3. itemWhole # NoImport =>
         /\ itemWhole \in Accepted
         /\ \A id \in DOMAIN ItemDocs[itemWhole]["items"] :
               /\ id \in DOMAIN itemStore["items"]
               /\ itemStore["items"][id] = ItemDocs[itemWhole]["items"][id]
  <2> SUFFICES ASSUME itemWhole # NoImport,
                      NEW id \in DOMAIN ItemDocs[itemWhole]["items"]
               PROVE  /\ id \in DOMAIN itemStore["items"]
                      /\ itemStore["items"][id] = ItemDocs[itemWhole]["items"][id]
    BY DEF ItemInv, ImportOK
  <2>1. Written(ItemNames, ItemDocs, itemStore, itemWhole, [k \in ItemNames |-> {}])
    BY DEF ItemInv, ImportOK
  <2>2. "items" \in ItemNames /\ id \notin [k \in ItemNames |-> {}]["items"]
    BY DEF ItemNames
  <2> QED
    BY <2>1, <2>2 DEF Written
<1> QED
  BY <1>1, <1>2, <1>3 DEF Items!items

LEMMA ItemsAgree == ItemInv => Items!ItemsAsWritten
<1> SUFFICES ASSUME ItemInv PROVE Items!ItemsAsWritten
  OBVIOUS
<1> DEFINE S == DOMAIN Items!items
<1>1. \A i \in S : /\ i \in OldItem /\ Items!items[i].type \in {0, 1}
                   /\ Items!items[i].requiredLevel \in {-1, 0, 1}
  BY ItemStored, ItemFields
<1>2. S \subseteq Int /\ IsFiniteSet(S)
  <2>1. OldItem \subseteq Nat /\ IsFiniteSet(OldItem) /\ S \subseteq OldItem
    BY <1>1, ExtractAssumption
  <2> HIDE DEF S
  <2>2. S \subseteq Int
    BY <2>1
  <2> QED
    BY <2>1, <2>2, FS_Subset
<1>3. ASSUME itemWhole # NoImport, NEW id \in DOMAIN itemWhole.rows
      PROVE  /\ Items!items[id].hasIcon <=> id \in itemWhole.icons
             /\ id \in Items!Found(Items!Missing, 0) <=> itemWhole.rows[id].job = "0"
             /\ id \in Items!Found(Items!Missing, 1) <=> itemWhole.rows[id].job = "1"
             /\ itemWhole.rows[id].type = "1" <=> id \in Items!Found(1, Items!Missing)
  <2>1. itemWhole \in Accepted /\ id \in S /\ Items!items[id] = Items!ToDocument(itemWhole, id)
    BY <1>3, ItemStored
  <2>2. /\ Items!items[id].hasIcon = (id \in itemWhole.icons)
        /\ Items!items[id].requiredJob = 0 <=> itemWhole.rows[id].job = "0"
        /\ Items!items[id].requiredJob = 1 <=> itemWhole.rows[id].job = "1"
        /\ Items!items[id].type = 1 <=> itemWhole.rows[id].type = "1"
    BY <1>3, <2>1, ItemFields
  <2>3. /\ id \in Items!Found(Items!Missing, 0) <=> Items!items[id].requiredJob = 0
        /\ id \in Items!Found(Items!Missing, 1) <=> Items!items[id].requiredJob = 1
        /\ id \in Items!Found(1, Items!Missing) <=> Items!items[id].type = 1
    <3> DEFINE T == Items!items
    <3>1. id \in DOMAIN T
      BY <2>1
    <3> HIDE DEF T
    <3> QED
      BY <3>1 DEF Items!Found, Items!Missing, T
  <2>4. Items!items[id].hasIcon <=> id \in itemWhole.icons
    BY <2>2
  <2> QED
    BY <2>2, <2>3, <2>4
<1>4. Items!Total = Cardinality(Items!Found(0, Items!Missing))
                       + Cardinality(Items!Found(1, Items!Missing))
  <2> DEFINE A == Items!Found(0, Items!Missing)
             B == Items!Found(1, Items!Missing)
  <2>1. A = {i \in S : Items!items[i].type = 0} /\ B = {i \in S : Items!items[i].type = 1}
    BY DEF Items!Found, Items!Missing
  <2> HIDE DEF A, B
  <2>2. A \intersect B = {} /\ A \union B = S
    BY <1>1, <2>1
  <2>3. IsFiniteSet(A) /\ IsFiniteSet(B)
    BY <1>2, <2>2, FS_Subset
  <2>4. Cardinality(A \intersect B) = 0
    BY <2>2, FS_EmptySet
  <2>5. Cardinality(A \union B) = Cardinality(A) + Cardinality(B) - Cardinality(A \intersect B)
    BY <2>3, FS_Union
  <2>6. Cardinality(A) \in Nat /\ Cardinality(B) \in Nat
    BY <2>3, FS_CardinalityType
  <2>7. Items!Total = Cardinality(S)
    BY DEF Items!Total, Items!Cardinality, Cardinality
  <2> QED
    BY <2>2, <2>4, <2>5, <2>6, <2>7 DEF A, B
<1> DEFINE key == Items!ByLevel(S)
<1>5. DOMAIN key = S /\ \A i \in S : key[i] = Items!items[i].requiredLevel
  BY DEF Items!ByLevel
<1> HIDE DEF key
<1>6. Items!Import!ShownOnce(key)
  BY <1>1, <1>2, <1>5, ListsShown
<1>7. ASSUME NEW i \in Items!Found(Items!Missing, Items!Missing),
             NEW j \in Items!Found(Items!Missing, Items!Missing),
             Items!items[i].requiredLevel = Items!Missing,
             Items!items[j].requiredLevel # Items!Missing
      PROVE  i \in Items!Import!Ahead(key, j)
  <2>1. i \in S /\ j \in S
    BY DEF Items!Found
  <2>2. key[i] = -1 /\ key[j] \in {0, 1}
    BY <1>1, <1>5, <1>7, <2>1 DEF Items!Missing
  <2>3. key[i] < key[j]
    BY <2>2
  <2> QED
    BY <1>5, <2>1, <2>3 DEF Items!Import!Ahead
<1> QED
  BY <1>3, <1>4, <1>6, <1>7 DEF Items!ItemsAsWritten, Items!Import!None, NoImport, key,
        Items!Cardinality, Cardinality

\* The fields of the documents
LEMMA GuFields ==
    ASSUME NEW x
    PROVE  /\ DOMAIN GuWorld!MobDocs(x) = DOMAIN x.mobs
           /\ \A m \in DOMAIN x.mobs : GuWorld!MobDocs(x)[m] = x.mobs[m]
           /\ DOMAIN GuWorld!ItemDocs(x) = DOMAIN x.items
           /\ \A i \in DOMAIN x.items :
                 /\ GuWorld!ItemDocs(x)[i].price = x.items[i].price
                 /\ GuWorld!ItemDocs(x)[i].shopCount = GuWorld!ShopCount(x, i)
  BY DEF GuWorld!MobDocs, GuWorld!ItemDocs

Prices(x, s) ==
    [n \in DOMAIN x.shops[s] |->
        IF x.shops[s][n].item \in DOMAIN x.items
        THEN GuWorld!Percent(x.items[x.shops[s][n].item].price, x.shops[s][n].percent) ELSE 0]

\* d is what is made of shop s of x.
ShopOf(x, s, d) ==
    /\ DOMAIN d.items = DOMAIN x.shops[s]
    /\ \A n \in DOMAIN x.shops[s] :
          /\ d.items[n].item = x.shops[s][n].item
          /\ d.items[n].known = (x.shops[s][n].item \in DOMAIN x.items)
          /\ d.items[n].percent = x.shops[s][n].percent
          /\ d.items[n].price = Prices(x, s)[n]
    /\ d.itemCount = Len(x.shops[s])
    /\ d.missingCount
          = Len(x.shops[s])
            - Cardinality({n \in DOMAIN x.shops[s] : x.shops[s][n].item \in DOMAIN x.items})
    /\ d.totalPrice = GuWorld!Sum(Prices(x, s))

LEMMA ShopFields ==
    ASSUME NEW x, NEW s \in DOMAIN x.shops
    PROVE  ShopOf(x, s, GuWorld!ShopDocs(x)[s])
<1> DEFINE sells == x.shops[s]
           known == {n \in DOMAIN sells : sells[n].item \in DOMAIN x.items}
           prices == [n \in DOMAIN sells |->
                         IF n \in known
                         THEN GuWorld!Percent(x.items[sells[n].item].price, sells[n].percent)
                         ELSE 0]
           entries == [n \in DOMAIN sells |-> [item |-> sells[n].item, known |-> n \in known,
                                               percent |-> sells[n].percent, price |-> prices[n]]]
           missing == Len(sells) - GuWorld!Cardinality(known)
           d == GuWorld!ShopDocs(x)[s]
<1>1. d = [items |-> entries, itemCount |-> Len(sells), missingCount |-> missing,
           totalPrice |-> GuWorld!Sum(prices)]
  BY DEF GuWorld!ShopDocs
<1>2. prices = Prices(x, s)
  BY DEF Prices
<1>3. GuWorld!Cardinality(known) = Cardinality(known)
  BY DEF GuWorld!Cardinality, Cardinality
<1>4. /\ d.items = entries /\ d.itemCount = Len(sells) /\ d.missingCount = missing
      /\ d.totalPrice = GuWorld!Sum(prices)
  <2> DEFINE length == Len(sells)
             total == GuWorld!Sum(prices)
  <2>1. d = [items |-> entries, itemCount |-> length, missingCount |-> missing,
             totalPrice |-> total]
    BY <1>1, Zenon
  <2> HIDE DEF d, entries, length, missing, total
  <2>2. /\ d.items = entries /\ d.itemCount = length /\ d.missingCount = missing
        /\ d.totalPrice = total
    BY <2>1
  <2> QED
    BY <2>2, Zenon DEF length, total
<1>5. ASSUME NEW n \in DOMAIN sells
      PROVE  /\ entries[n].item = sells[n].item /\ entries[n].known = (n \in known)
             /\ entries[n].percent = sells[n].percent /\ entries[n].price = prices[n]
  OBVIOUS
<1>6. \A n \in DOMAIN sells : (n \in known) = (sells[n].item \in DOMAIN x.items)
  OBVIOUS
<1>7. DOMAIN entries = DOMAIN sells
  OBVIOUS
<1> HIDE DEF d, entries, prices
<1> QED
  BY <1>2, <1>3, <1>4, <1>5, <1>6, <1>7 DEF d, ShopOf

LEMMA GuStored ==
    ASSUME GuInv
    PROVE  /\ \A m \in DOMAIN GuWorld!mobs : \E x \in GuExtract :
                 m \in DOMAIN x.mobs /\ GuWorld!mobs[m] = x.mobs[m]
           /\ \A i \in DOMAIN GuWorld!items : \E x \in GuExtract :
                 i \in DOMAIN x.items /\ GuWorld!items[i] = GuWorld!ItemDocs(x)[i]
           /\ \A s \in DOMAIN GuWorld!shops : \E x \in GuExtract :
                 s \in DOMAIN x.shops /\ GuWorld!shops[s] = GuWorld!ShopDocs(x)[s]
           /\ guWhole # NoImport =>
                 /\ guWhole \in GuExtract
                 /\ \A i \in DOMAIN guWhole.items :
                       /\ i \in DOMAIN GuWorld!items
                       /\ GuWorld!items[i] = GuWorld!ItemDocs(guWhole)[i]
                 /\ \A s \in DOMAIN guWhole.shops :
                       /\ s \in DOMAIN GuWorld!shops
                       /\ GuWorld!shops[s] = GuWorld!ShopDocs(guWhole)[s]
<1>1. \A x \in GuExtract : /\ GuDocs[x]["mob"] = x.mobs
                           /\ GuDocs[x]["item"] = GuWorld!ItemDocs(x)
                           /\ GuDocs[x]["shop"] = GuWorld!ShopDocs(x)
  BY DEF GuDocs, GuNames, GuWorld!Docs, GuWorld!MobDocs
<1>2. \A n \in GuNames : \A id \in DOMAIN guStore[n] :
         \E x \in GuExtract : id \in DOMAIN GuDocs[x][n] /\ guStore[n][id] = GuDocs[x][n][id]
  BY DEF GuInv, ImportOK
<1>3. guWhole # NoImport =>
         /\ guWhole \in GuExtract
         /\ \A n \in GuNames : \A id \in DOMAIN GuDocs[guWhole][n] :
               id \in DOMAIN guStore[n] /\ guStore[n][id] = GuDocs[guWhole][n][id]
  <2> SUFFICES ASSUME guWhole # NoImport,
                      NEW n \in GuNames, NEW id \in DOMAIN GuDocs[guWhole][n]
               PROVE  id \in DOMAIN guStore[n] /\ guStore[n][id] = GuDocs[guWhole][n][id]
    BY DEF GuInv, ImportOK
  <2>1. Written(GuNames, GuDocs, guStore, guWhole, [k \in GuNames |-> {}])
    BY DEF GuInv, ImportOK
  <2>2. id \notin [k \in GuNames |-> {}][n]
    OBVIOUS
  <2> QED
    BY <2>1, <2>2 DEF Written
<1>4. /\ \A x : DOMAIN GuWorld!ItemDocs(x) = DOMAIN x.items
      /\ \A x : DOMAIN GuWorld!ShopDocs(x) = DOMAIN x.shops
  BY DEF GuWorld!ItemDocs, GuWorld!ShopDocs
<1>5. {"mob", "item", "skill", "shop"} = GuNames
  BY DEF GuNames
<1>6. ASSUME NEW m \in DOMAIN GuWorld!mobs
      PROVE  \E x \in GuExtract : m \in DOMAIN x.mobs /\ GuWorld!mobs[m] = x.mobs[m]
  <2>1. m \in DOMAIN guStore["mob"] /\ GuWorld!mobs[m] = guStore["mob"][m]
    BY DEF GuWorld!mobs
  <2>2. "mob" \in GuNames
    BY <1>5
  <2>3. PICK x \in GuExtract : /\ m \in DOMAIN GuDocs[x]["mob"]
                              /\ guStore["mob"][m] = GuDocs[x]["mob"][m]
    BY <1>2, <2>1, <2>2
  <2>4. GuDocs[x]["mob"] = x.mobs
    BY <1>1
  <2> QED
    BY <2>1, <2>3, <2>4
<1>7. ASSUME NEW i \in DOMAIN GuWorld!items
      PROVE  \E x \in GuExtract : i \in DOMAIN x.items /\ GuWorld!items[i] = GuWorld!ItemDocs(x)[i]
  <2>1. i \in DOMAIN guStore["item"] /\ GuWorld!items[i] = guStore["item"][i]
    BY DEF GuWorld!items
  <2>2. "item" \in GuNames
    BY <1>5
  <2>3. PICK x \in GuExtract : /\ i \in DOMAIN GuDocs[x]["item"]
                              /\ guStore["item"][i] = GuDocs[x]["item"][i]
    BY <1>2, <2>1, <2>2
  <2>4. GuDocs[x]["item"] = GuWorld!ItemDocs(x) /\ DOMAIN GuWorld!ItemDocs(x) = DOMAIN x.items
    BY <1>1, <1>4
  <2> QED
    BY <2>1, <2>3, <2>4
<1>8. ASSUME NEW s \in DOMAIN GuWorld!shops
      PROVE  \E x \in GuExtract : s \in DOMAIN x.shops /\ GuWorld!shops[s] = GuWorld!ShopDocs(x)[s]
  <2>1. s \in DOMAIN guStore["shop"] /\ GuWorld!shops[s] = guStore["shop"][s]
    BY DEF GuWorld!shops
  <2>2. "shop" \in GuNames
    BY <1>5
  <2>3. PICK x \in GuExtract : /\ s \in DOMAIN GuDocs[x]["shop"]
                              /\ guStore["shop"][s] = GuDocs[x]["shop"][s]
    BY <1>2, <2>1, <2>2
  <2>4. GuDocs[x]["shop"] = GuWorld!ShopDocs(x) /\ DOMAIN GuWorld!ShopDocs(x) = DOMAIN x.shops
    BY <1>1, <1>4
  <2> QED
    BY <2>1, <2>3, <2>4
<1>9. ASSUME guWhole # NoImport
      PROVE  /\ guWhole \in GuExtract
             /\ \A i \in DOMAIN guWhole.items :
                   /\ i \in DOMAIN GuWorld!items
                   /\ GuWorld!items[i] = GuWorld!ItemDocs(guWhole)[i]
             /\ \A s \in DOMAIN guWhole.shops :
                   /\ s \in DOMAIN GuWorld!shops
                   /\ GuWorld!shops[s] = GuWorld!ShopDocs(guWhole)[s]
  <2>1. "item" \in GuNames /\ "shop" \in GuNames
    BY <1>5
  <2>2. guWhole \in GuExtract
    BY <1>3, <1>9
  <2>3. /\ GuDocs[guWhole]["item"] = GuWorld!ItemDocs(guWhole)
        /\ GuDocs[guWhole]["shop"] = GuWorld!ShopDocs(guWhole)
    BY <1>1, <2>2
  <2>4. ASSUME NEW i \in DOMAIN guWhole.items
        PROVE  i \in DOMAIN GuWorld!items /\ GuWorld!items[i] = GuWorld!ItemDocs(guWhole)[i]
    <3>1. i \in DOMAIN GuDocs[guWhole]["item"]
      BY <1>4, <2>3
    <3>2. i \in DOMAIN guStore["item"] /\ guStore["item"][i] = GuDocs[guWhole]["item"][i]
      BY <1>3, <1>9, <2>1, <3>1
    <3> QED
      BY <2>3, <3>2 DEF GuWorld!items
  <2>5. ASSUME NEW s \in DOMAIN guWhole.shops
        PROVE  s \in DOMAIN GuWorld!shops /\ GuWorld!shops[s] = GuWorld!ShopDocs(guWhole)[s]
    <3>1. s \in DOMAIN GuDocs[guWhole]["shop"]
      BY <1>4, <2>3
    <3>2. s \in DOMAIN guStore["shop"] /\ guStore["shop"][s] = GuDocs[guWhole]["shop"][s]
      BY <1>3, <1>9, <2>1, <3>1
    <3> QED
      BY <2>3, <3>2 DEF GuWorld!shops
  <2> QED
    BY <2>2, <2>4, <2>5
<1> QED
  BY <1>6, <1>7, <1>8, <1>9

\* What an extract holds
LEMMA GuShapes ==
    ASSUME NEW x \in GuExtract
    PROVE  /\ DOMAIN x.mobs \subseteq GuMob
           /\ \A m \in DOMAIN x.mobs : x.mobs[m].hp \in Nat
           /\ DOMAIN x.items \subseteq GuItem
           /\ \A i \in DOMAIN x.items : x.items[i].price \in Nat
           /\ DOMAIN x.shops \subseteq GuShop
           /\ \A s \in DOMAIN x.shops : x.shops[s] \in Seq([item : GuItem, percent : Nat])
  BY ExtractAssumption DEF GuWorld!WellFormed

\* An item is sold in some place just if a shop has it.
LEMMA SoldSomewhere ==
    ASSUME NEW x \in GuExtract, NEW i
    PROVE  /\ GuWorld!ShopCount(x, i) \in Nat
           /\ GuWorld!ShopCount(x, i) > 0 <=>
                 \E s \in DOMAIN x.shops : \E n \in DOMAIN x.shops[s] : x.shops[s][n].item = i
<1> DEFINE Spots(s) == {<<s, n>> : n \in {k \in DOMAIN x.shops[s] : x.shops[s][k].item = i}}
           Parts == {Spots(s) : s \in DOMAIN x.shops}
           All == UNION Parts
<1>1. GuWorld!ShopCount(x, i) = Cardinality(All)
  BY DEF GuWorld!ShopCount, GuWorld!Cardinality, Cardinality
<1>2. ASSUME NEW s \in DOMAIN x.shops PROVE IsFiniteSet(Spots(s))
  <2> DEFINE N == {k \in DOMAIN x.shops[s] : x.shops[s][k].item = i}
  <2>1. x.shops[s] \in Seq([item : GuItem, percent : Nat])
    BY GuShapes
  <2>2. N \subseteq 1 .. Len(x.shops[s]) /\ Len(x.shops[s]) \in Nat
    BY <2>1
  <2>3. IsFiniteSet(N)
    BY <2>2, OneTo, FS_Subset
  <2> DEFINE f == [n \in N |-> <<s, n>>]
  <2>4. Spots(s) = {f[n] : n \in N}
    OBVIOUS
  <2> HIDE DEF N, Spots, f
  <2> QED
    BY <2>3, <2>4, ImageFinite
<1>3. IsFiniteSet(Parts)
  <2>1. IsFiniteSet(DOMAIN x.shops)
    BY GuShapes, ExtractAssumption, FS_Subset
  <2> DEFINE f == [s \in DOMAIN x.shops |-> Spots(s)]
  <2>2. Parts = {f[s] : s \in DOMAIN x.shops}
    OBVIOUS
  <2> HIDE DEF Parts, f
  <2> QED
    BY <2>1, <2>2, ImageFinite
<1>4. IsFiniteSet(All)
  <2>1. \A P \in Parts : IsFiniteSet(P)
    BY <1>2
  <2> HIDE DEF Parts
  <2> QED
    BY <1>3, <2>1, FS_UNION
<1>5. All # {} <=> \E s \in DOMAIN x.shops : \E n \in DOMAIN x.shops[s] : x.shops[s][n].item = i
  <2>1. ASSUME NEW s \in DOMAIN x.shops, NEW n \in DOMAIN x.shops[s], x.shops[s][n].item = i
        PROVE  All # {}
    <3>1. <<s, n>> \in Spots(s) /\ Spots(s) \in Parts
      BY <2>1
    <3> QED
      BY <3>1
  <2>2. ASSUME NEW e \in All
        PROVE  \E s \in DOMAIN x.shops : \E n \in DOMAIN x.shops[s] : x.shops[s][n].item = i
    <3>1. PICK s \in DOMAIN x.shops : e \in Spots(s)
      OBVIOUS
    <3> QED
      BY <3>1
  <2> HIDE DEF All
  <2> QED
    BY <2>1, <2>2
<1> HIDE DEF All
<1>6. Cardinality(All) \in Nat /\ (Cardinality(All) = 0 <=> All = {})
  BY <1>4, FS_CardinalityType, FS_EmptySet
<1> QED
  BY <1>1, <1>5, <1>6

\* The tiers share out the monsters.
LEMMA TierOfOne ==
    ASSUME GuInv, NEW m \in DOMAIN GuWorld!mobs
    PROVE  \E t \in DOMAIN TierFloors : \A u \in DOMAIN TierFloors : m \in GuWorld!Tier(u) <=> u = t
<1> DEFINE hp == GuWorld!mobs[m].hp
           n == Len(TierFloors)
           Reaches == {k \in Nat : k < n /\ TierFloors[n - k] <= hp}
<1>1. hp \in Nat
  BY GuStored, GuShapes
<1>2. /\ n \in Nat /\ n > 0 /\ DOMAIN TierFloors = 1 .. n
      /\ \A t \in 1 .. n : TierFloors[t] \in Nat
      /\ TierFloors[1] = 0
      /\ \A t, u \in 1 .. n : t < u => TierFloors[t] < TierFloors[u]
  BY ExtractAssumption
<1> HIDE DEF hp, n
<1>3. n - 1 \in Reaches
  <2>1. n - 1 \in Nat /\ n - 1 < n /\ n - (n - 1) = 1
    BY <1>2
  <2> QED
    BY <1>1, <1>2, <2>1
<1>4. PICK k \in Reaches : \A j \in Reaches : k <= j
  <2>1. Reaches \in SUBSET Nat /\ Reaches # {}
    BY <1>3
  <2> HIDE DEF Reaches
  <2> QED
    BY <2>1, LeastOf
<1> DEFINE t == n - k
<1>5. t \in 1 .. n /\ TierFloors[t] <= hp
  BY <1>2, <1>4
<1>6. \A u \in 1 .. n : TierFloors[u] <= hp => u <= t
  <2> SUFFICES ASSUME NEW u \in 1 .. n, TierFloors[u] <= hp PROVE u <= t
    OBVIOUS
  <2>1. n - u \in Nat /\ n - u < n /\ n - (n - u) = u
    BY <1>2
  <2>2. n - u \in Reaches
    BY <2>1
  <2>3. k <= n - u
    BY <1>4, <2>2
  <2> QED
    BY <1>2, <1>4, <2>3
<1>7. \A u \in 1 .. n : m \in GuWorld!Tier(u) <=>
         TierFloors[u] <= hp /\ (u < n => hp < TierFloors[u + 1])
  <2> SUFFICES ASSUME NEW u \in 1 .. n
               PROVE  m \in GuWorld!Tier(u) <=>
                         TierFloors[u] <= hp /\ (u < n => hp < TierFloors[u + 1])
    OBVIOUS
  <2>1. TierFloors[u] \in Nat
    BY <1>2
  <2> QED
    BY <1>1, <2>1 DEF GuWorld!Tier, hp, n
<1> HIDE DEF t
<1>8. ASSUME NEW u \in 1 .. n, m \in GuWorld!Tier(u) PROVE u = t
  <2>1. u <= t
    BY <1>6, <1>7, <1>8
  <2>2. ASSUME u < t PROVE FALSE
    <3>1. u < n /\ u + 1 \in 1 .. n
      BY <1>2, <1>5, <2>2
    <3>2. hp < TierFloors[u + 1]
      BY <1>7, <1>8, <3>1
    <3>3. TierFloors[u + 1] <= TierFloors[t]
      <4>1. u + 1 = t \/ u + 1 < t
        BY <1>5, <2>2
      <4> QED
        BY <1>2, <1>5, <3>1, <4>1
    <3> QED
      BY <1>1, <1>2, <1>5, <3>1, <3>2, <3>3
  <2> QED
    BY <1>2, <1>5, <2>1, <2>2
<1>9. m \in GuWorld!Tier(t)
  <2>1. ASSUME t < n PROVE hp < TierFloors[t + 1]
    <3>1. t + 1 \in 1 .. n /\ ~ (t + 1 <= t)
      BY <1>2, <1>5, <2>1
    <3>2. ~ (TierFloors[t + 1] <= hp) /\ TierFloors[t + 1] \in Nat
      BY <1>2, <1>6, <3>1
    <3> QED
      BY <1>1, <3>2
  <2> QED
    BY <1>5, <1>7, <2>1
<1> QED
  BY <1>2, <1>5, <1>8, <1>9

\* What is listed is finite, and sorted by numbers.
LEMMA GuKeys ==
    ASSUME GuInv
    PROVE  /\ GuWorld!Import!ShownOnce(GuWorld!ByHp) /\ GuWorld!Import!ShownOnce(GuWorld!ByPrice)
           /\ GuWorld!Import!ShownOnce(GuWorld!ByCount)
<1>1. /\ IsFiniteSet(GuMob) /\ \A m \in GuMob : m \in Int
      /\ IsFiniteSet(GuItem) /\ \A i \in GuItem : i \in Int
      /\ IsFiniteSet(GuShop) /\ \A s \in GuShop : s \in Int
  <2>1. /\ GuMob \subseteq Nat /\ IsFiniteSet(GuMob) /\ GuItem \subseteq Nat /\ IsFiniteSet(GuItem)
        /\ GuShop \subseteq Nat /\ IsFiniteSet(GuShop)
    BY ExtractAssumption
  <2> QED
    BY <2>1
<1>2. \A m \in DOMAIN GuWorld!mobs : m \in GuMob /\ GuWorld!mobs[m].hp \in Nat
  <2> SUFFICES ASSUME NEW m \in DOMAIN GuWorld!mobs PROVE m \in GuMob /\ GuWorld!mobs[m].hp \in Nat
    OBVIOUS
  <2>1. PICK x \in GuExtract : m \in DOMAIN x.mobs /\ GuWorld!mobs[m] = x.mobs[m]
    BY GuStored
  <2> QED
    BY <2>1, GuShapes
<1>3. \A i \in DOMAIN GuWorld!items : i \in GuItem /\ GuWorld!items[i].price \in Nat
  <2> SUFFICES ASSUME NEW i \in DOMAIN GuWorld!items
               PROVE  i \in GuItem /\ GuWorld!items[i].price \in Nat
    OBVIOUS
  <2>1. PICK x \in GuExtract : i \in DOMAIN x.items /\ GuWorld!items[i] = GuWorld!ItemDocs(x)[i]
    BY GuStored
  <2>2. GuWorld!ItemDocs(x)[i].price = x.items[i].price
    BY <2>1, GuFields
  <2>3. i \in GuItem /\ x.items[i].price \in Nat
    BY <2>1, GuShapes
  <2> QED
    BY <2>1, <2>2, <2>3
<1>4. \A s \in DOMAIN GuWorld!shops : s \in GuShop /\ GuWorld!shops[s].itemCount \in Nat
  <2> SUFFICES ASSUME NEW s \in DOMAIN GuWorld!shops
               PROVE  s \in GuShop /\ GuWorld!shops[s].itemCount \in Nat
    OBVIOUS
  <2>1. PICK x \in GuExtract : s \in DOMAIN x.shops /\ GuWorld!shops[s] = GuWorld!ShopDocs(x)[s]
    BY GuStored
  <2>2. x.shops[s] \in Seq([item : GuItem, percent : Nat]) /\ s \in GuShop
    BY <2>1, GuShapes
  <2>3. ShopOf(x, s, GuWorld!shops[s])
    BY <2>1, ShopFields
  <2>4. GuWorld!shops[s].itemCount = Len(x.shops[s])
    BY <2>3 DEF ShopOf
  <2> QED
    BY <2>2, <2>4
<1>5. GuWorld!Import!ShownOnce(GuWorld!ByHp)
  <2> DEFINE key == GuWorld!ByHp
  <2>1. DOMAIN key = DOMAIN GuWorld!mobs /\ \A m \in DOMAIN key : key[m] = - GuWorld!mobs[m].hp
    BY DEF GuWorld!ByHp
  <2> HIDE DEF key
  <2>2. DOMAIN key \subseteq GuMob /\ \A m \in DOMAIN key : m \in Int /\ key[m] \in Int
    <3> SUFFICES ASSUME NEW m \in DOMAIN key PROVE m \in GuMob /\ m \in Int /\ key[m] \in Int
      OBVIOUS
    <3>1. m \in GuMob /\ GuWorld!mobs[m].hp \in Nat
      BY <1>2, <2>1
    <3>2. key[m] = - GuWorld!mobs[m].hp
      BY <2>1
    <3>3. PICK h \in Nat : key[m] = - h
      BY <3>1, <3>2
    <3>4. key[m] \in Int
      BY <3>3
    <3>5. m \in Int
      BY <1>1, <3>1
    <3> QED
      BY <3>1, <3>4, <3>5
  <2>3. IsFiniteSet(DOMAIN key)
    BY <1>1, <2>2, FS_Subset
  <2> QED
    BY <2>2, <2>3, ListsShown DEF key
<1>6. GuWorld!Import!ShownOnce(GuWorld!ByPrice)
  <2> DEFINE key == GuWorld!ByPrice
  <2>1. DOMAIN key = DOMAIN GuWorld!items /\ \A i \in DOMAIN key : key[i] = - GuWorld!items[i].price
    BY DEF GuWorld!ByPrice
  <2> HIDE DEF key
  <2>2. DOMAIN key \subseteq GuItem /\ \A i \in DOMAIN key : i \in Int /\ key[i] \in Int
    <3> SUFFICES ASSUME NEW i \in DOMAIN key PROVE i \in GuItem /\ i \in Int /\ key[i] \in Int
      OBVIOUS
    <3>1. i \in GuItem /\ GuWorld!items[i].price \in Nat
      BY <1>3, <2>1
    <3>2. key[i] = - GuWorld!items[i].price
      BY <2>1
    <3>3. PICK h \in Nat : key[i] = - h
      BY <3>1, <3>2
    <3>4. key[i] \in Int
      BY <3>3
    <3>5. i \in Int
      BY <1>1, <3>1
    <3> QED
      BY <3>1, <3>4, <3>5
  <2>3. IsFiniteSet(DOMAIN key)
    BY <1>1, <2>2, FS_Subset
  <2> QED
    BY <2>2, <2>3, ListsShown DEF key
<1>7. GuWorld!Import!ShownOnce(GuWorld!ByCount)
  <2> DEFINE key == GuWorld!ByCount
  <2>1. DOMAIN key = DOMAIN GuWorld!shops
        /\ \A s \in DOMAIN key : key[s] = - GuWorld!shops[s].itemCount
    BY DEF GuWorld!ByCount
  <2> HIDE DEF key
  <2>2. DOMAIN key \subseteq GuShop /\ \A s \in DOMAIN key : s \in Int /\ key[s] \in Int
    <3> SUFFICES ASSUME NEW s \in DOMAIN key PROVE s \in GuShop /\ s \in Int /\ key[s] \in Int
      OBVIOUS
    <3>1. s \in GuShop /\ GuWorld!shops[s].itemCount \in Nat
      BY <1>4, <2>1
    <3>2. key[s] = - GuWorld!shops[s].itemCount
      BY <2>1
    <3>3. PICK h \in Nat : key[s] = - h
      BY <3>1, <3>2
    <3>4. key[s] \in Int
      BY <3>3
    <3>5. s \in Int
      BY <1>1, <3>1
    <3> QED
      BY <3>1, <3>4, <3>5
  <2>3. IsFiniteSet(DOMAIN key)
    BY <1>1, <2>2, FS_Subset
  <2> QED
    BY <2>2, <2>3, ListsShown DEF key
<1> QED
  BY <1>5, <1>6, <1>7

\* A shop where nothing is missing and nothing has a percentage asks the plain prices.
LEMMA PlainPrices ==
    ASSUME NEW x \in GuExtract, NEW s \in DOMAIN x.shops,
           \A n \in DOMAIN x.shops[s] : x.shops[s][n].percent = 100,
           GuWorld!ShopDocs(x)[s].missingCount = 0
    PROVE  /\ \A n \in DOMAIN x.shops[s] : x.shops[s][n].item \in DOMAIN x.items
           /\ Prices(x, s)
                = [n \in DOMAIN x.shops[s] |-> x.items[x.shops[s][n].item].price]
<1> DEFINE sells == x.shops[s]
           known == {n \in DOMAIN sells : sells[n].item \in DOMAIN x.items}
<1>1. sells \in Seq([item : GuItem, percent : Nat])
  BY GuShapes
<1>2. DOMAIN sells = 1 .. Len(sells) /\ Len(sells) \in Nat
  BY <1>1
<1>3. Len(sells) - Cardinality(known) = 0
  BY ShopFields DEF ShopOf
<1>4. known = DOMAIN sells
  <2> DEFINE I == 1 .. Len(sells)
  <2>1. known \in SUBSET I
    BY <1>2
  <2> HIDE DEF known, sells
  <2>2. IsFiniteSet(I) /\ Cardinality(I) = Len(sells)
    BY <1>2, OneTo
  <2> HIDE DEF I
  <2>3. IsFiniteSet(known)
    BY <2>1, <2>2, FS_Subset
  <2>4. Cardinality(known) \in Nat
    BY <2>3, FS_CardinalityType
  <2>5. Cardinality(I) = Cardinality(known)
    BY <1>2, <1>3, <2>2, <2>4
  <2>6. I = known
    BY <2>1, <2>2, <2>5, FS_Subset
  <2> QED
    BY <1>2, <2>6 DEF I
<1>5. \A n \in DOMAIN sells : sells[n].item \in DOMAIN x.items
  BY <1>4
<1>6. \A p \in Nat : GuWorld!Percent(p, 100) = p
  BY DEF GuWorld!Percent
<1>7. ASSUME NEW n \in DOMAIN sells
      PROVE  Prices(x, s)[n] = x.items[sells[n].item].price
  <2>1. Prices(x, s)[n] = GuWorld!Percent(x.items[sells[n].item].price, 100)
    BY <1>5 DEF Prices
  <2>2. x.items[sells[n].item].price \in Nat
    BY <1>5, GuShapes
  <2> QED
    BY <1>6, <2>1, <2>2
<1>8. Prices(x, s) = [n \in DOMAIN sells |-> Prices(x, s)[n]]
  BY DEF Prices
<1> QED
  BY <1>5, <1>7, <1>8

LEMMA GuAgrees == GuInv => GuWorld!CatalogueAgrees
<1> SUFFICES ASSUME GuInv PROVE GuWorld!CatalogueAgrees
  OBVIOUS
<1> DEFINE w == guWhole
<1>1. ASSUME w # NoImport
      PROVE  /\ w \in GuExtract
             /\ \A i \in DOMAIN w.items :
                   i \in DOMAIN GuWorld!items /\ GuWorld!items[i] = GuWorld!ItemDocs(w)[i]
             /\ \A s \in DOMAIN w.shops :
                   s \in DOMAIN GuWorld!shops /\ GuWorld!shops[s] = GuWorld!ShopDocs(w)[s]
  BY <1>1, GuStored
<1> HIDE DEF w
<1>2. ASSUME w # NoImport, NEW s \in DOMAIN w.shops
      PROVE  /\ s \in DOMAIN GuWorld!shops /\ ShopOf(w, s, GuWorld!shops[s])
             /\ GuWorld!shops[s].missingCount = GuWorld!ShopDocs(w)[s].missingCount
             /\ GuWorld!shops[s].totalPrice = GuWorld!Sum(Prices(w, s))
  <2>1. s \in DOMAIN GuWorld!shops /\ GuWorld!shops[s] = GuWorld!ShopDocs(w)[s]
    BY <1>1, <1>2
  <2>2. ShopOf(w, s, GuWorld!shops[s])
    BY <1>2, <2>1, ShopFields
  <2> QED
    BY <2>1, <2>2 DEF ShopOf
<1>3. ASSUME w # NoImport, NEW i \in DOMAIN w.items
      PROVE  i \in GuWorld!Sold <=> GuWorld!Selling(i) \intersect DOMAIN w.shops # {}
  <2>1. GuWorld!items[i].shopCount = GuWorld!ShopCount(w, i) /\ i \in DOMAIN GuWorld!items
    BY <1>1, <1>3, GuFields
  <2>2. i \in GuWorld!Sold <=> GuWorld!ShopCount(w, i) > 0
    BY <2>1 DEF GuWorld!Sold
  <2>3. ASSUME NEW s \in DOMAIN w.shops
        PROVE  s \in GuWorld!Selling(i) <=> \E n \in DOMAIN w.shops[s] : w.shops[s][n].item = i
    <3>1. s \in DOMAIN GuWorld!shops /\ ShopOf(w, s, GuWorld!shops[s])
      BY <1>2, <1>3, <2>3
    <3>2. /\ DOMAIN GuWorld!shops[s].items = DOMAIN w.shops[s]
          /\ \A n \in DOMAIN w.shops[s] :
                GuWorld!shops[s].items[n].item = w.shops[s][n].item
      BY <3>1 DEF ShopOf
    <3> QED
      BY <3>1, <3>2 DEF GuWorld!Selling
  <2>4. w \in GuExtract
    BY <1>1, <1>3
  <2>5. GuWorld!ShopCount(w, i) > 0 <=>
           \E s \in DOMAIN w.shops : \E n \in DOMAIN w.shops[s] : w.shops[s][n].item = i
    BY <2>4, SoldSomewhere
  <2> QED
    BY <2>2, <2>3, <2>5
<1>4. ASSUME w # NoImport, NEW s \in DOMAIN w.shops, NEW n \in DOMAIN GuWorld!shops[s].items
      PROVE  LET entry == GuWorld!shops[s].items[n]
             IN  IF entry.known
                 THEN entry.price = GuWorld!Percent(GuWorld!items[entry.item].price, entry.percent)
                 ELSE entry.item \notin DOMAIN w.items
  <2> DEFINE entry == GuWorld!shops[s].items[n]
             sold == w.shops[s][n]
  <2>1. n \in DOMAIN w.shops[s]
    BY <1>2, <1>4 DEF ShopOf
  <2>2. /\ entry.item = sold.item /\ entry.known = (sold.item \in DOMAIN w.items)
        /\ entry.percent = sold.percent /\ entry.price = Prices(w, s)[n]
    BY <1>2, <1>4, <2>1 DEF ShopOf
  <2>3. ASSUME sold.item \in DOMAIN w.items
        PROVE  entry.price = GuWorld!Percent(GuWorld!items[entry.item].price, entry.percent)
    <3>1. Prices(w, s)[n] = GuWorld!Percent(w.items[sold.item].price, sold.percent)
      BY <2>1, <2>3 DEF Prices
    <3>2. GuWorld!items[sold.item].price = w.items[sold.item].price
      <4>1. GuWorld!items[sold.item] = GuWorld!ItemDocs(w)[sold.item]
        BY <1>1, <1>4, <2>3
      <4>2. GuWorld!ItemDocs(w)[sold.item].price = w.items[sold.item].price
        BY <2>3, GuFields
      <4> QED
        BY <4>1, <4>2
    <3> QED
      BY <2>2, <3>1, <3>2
  <2> HIDE DEF entry, sold
  <2>4. entry.known <=> sold.item \in DOMAIN w.items
    BY <2>2
  <2>5. IF entry.known
        THEN entry.price = GuWorld!Percent(GuWorld!items[entry.item].price, entry.percent)
        ELSE entry.item \notin DOMAIN w.items
    BY <2>2, <2>3, <2>4
  <2> QED
    BY <2>5 DEF entry
<1>5. ASSUME w # NoImport, NEW s \in DOMAIN w.shops \ GuWorld!Marked,
             GuWorld!shops[s].missingCount = 0
      PROVE  GuWorld!shops[s].totalPrice
                = GuWorld!Sum([n \in DOMAIN GuWorld!shops[s].items |->
                                  GuWorld!items[GuWorld!shops[s].items[n].item].price])
  <2>1. \A n \in DOMAIN w.shops[s] : w.shops[s][n].percent = 100
    <3> SUFFICES ASSUME NEW n \in DOMAIN w.shops[s] PROVE w.shops[s][n].percent = 100
      OBVIOUS
    <3>1. s \in DOMAIN GuWorld!shops /\ ShopOf(w, s, GuWorld!shops[s])
      BY <1>2, <1>5
    <3>2. ~ \E k \in DOMAIN GuWorld!shops[s].items : GuWorld!shops[s].items[k].percent # 100
      BY <1>5, <3>1 DEF GuWorld!Marked
    <3> QED
      BY <3>1, <3>2 DEF ShopOf
  <2>2. w \in GuExtract /\ GuWorld!ShopDocs(w)[s].missingCount = 0
    BY <1>1, <1>2, <1>5
  <2>3. /\ \A n \in DOMAIN w.shops[s] : w.shops[s][n].item \in DOMAIN w.items
        /\ Prices(w, s) = [n \in DOMAIN w.shops[s] |-> w.items[w.shops[s][n].item].price]
    BY <2>1, <2>2, PlainPrices
  <2>4. \A n \in DOMAIN w.shops[s] :
           GuWorld!items[GuWorld!shops[s].items[n].item].price = w.items[w.shops[s][n].item].price
    <3> SUFFICES ASSUME NEW n \in DOMAIN w.shops[s]
                 PROVE  GuWorld!items[GuWorld!shops[s].items[n].item].price
                           = w.items[w.shops[s][n].item].price
      OBVIOUS
    <3> DEFINE i == w.shops[s][n].item
    <3>1. i \in DOMAIN w.items
      BY <2>3
    <3>2. GuWorld!shops[s].items[n].item = i
      BY <1>2, <1>5 DEF ShopOf
    <3> HIDE DEF i
    <3>3. GuWorld!items[i] = GuWorld!ItemDocs(w)[i]
      BY <1>1, <1>5, <3>1
    <3>4. GuWorld!ItemDocs(w)[i].price = w.items[i].price
      BY <3>1, GuFields
    <3> QED
      BY <3>2, <3>3, <3>4 DEF i
  <2>5. [n \in DOMAIN GuWorld!shops[s].items |->
            GuWorld!items[GuWorld!shops[s].items[n].item].price] = Prices(w, s)
    <3>1. DOMAIN GuWorld!shops[s].items = DOMAIN w.shops[s]
      BY <1>2, <1>5 DEF ShopOf
    <3> QED
      BY <2>3, <2>4, <3>1
  <2> QED
    BY <1>2, <1>5, <2>5
<1> QED
  BY <1>3, <1>4, <1>5, TierOfOne, GuKeys
     DEF GuWorld!CatalogueAgrees, GuWorld!Import!None, NoImport, w

\* Spawns and casts of the old world agree at both of their ends after an import that ran to
\* its end, portals do unless more maps lead to one than it lists, maps that share their data
\* have one size, and lists repeat and skip nothing, for any tables, any limit and any
\* imports before (import-old-baram-world.ts, OldBaramMapService).
THEOREM OldWorldCorrect == Spec => [](part = "old" => OldWorld!CatalogueAgrees)
<1>1. Init => OldInv
  BY OldInit DEF Init
<1>2. OldInv /\ [Next]_vars => OldInv'
  <2>1. [Next]_vars => OldWorld!Next \/ UNCHANGED oldVars
    BY DEF Next, In, vars, queryVars, oldVars
  <2> QED
    BY <2>1, OldNext
<1> QED
  BY <1>1, <1>2, OldAgrees, PTL DEF Spec

\* After such an import of the former world what is sold is found in a shop and costs what
\* its item and its percentage say; the tiers share out the monsters; and lists repeat and
\* skip nothing (import-gu-baram-world.ts, GuBaramWorldService).
THEOREM GuWorldCorrect == Spec => [](part = "gu" => GuWorld!CatalogueAgrees)
<1>1. Init => GuInv
  BY GuInit DEF Init
<1>2. GuInv /\ [Next]_vars => GuInv'
  <2>1. [Next]_vars => GuWorld!Next \/ UNCHANGED guVars
    BY DEF Next, In, vars, queryVars, guVars
  <2> QED
    BY <2>1, GuNext
<1> QED
  BY <1>1, <1>2, GuAgrees, PTL DEF Spec

\* After such an import of the items each has its icon and is found under the numbers that
\* its row has, and no other (import-old-baram-items.ts, OldBaramItemService).
THEOREM ItemsCorrect == Spec => [](part = "items" => Items!ItemsAsWritten)
<1>1. Init => ItemInv
  BY ItemInit DEF Init
<1>2. ItemInv /\ [Next]_vars => ItemInv'
  <2>1. [Next]_vars => Items!Next \/ UNCHANGED itemVars
    BY DEF Next, In, vars, queryVars, itemVars
  <2> QED
    BY <2>1, ItemNext
<1> QED
  BY <1>1, <1>2, ItemsAgree, PTL DEF Spec

\* So the catalogues of all three imports agree with their tables (the import scripts, and
\* the services of the catalogues).
THEOREM CataloguesAgreeCorrect == Spec => []CataloguesAgree
<1>1. /\ part = "old" => OldWorld!CatalogueAgrees
      /\ part = "gu" => GuWorld!CatalogueAgrees
      /\ part = "items" => Items!ItemsAsWritten
      => CataloguesAgree
  BY DEF CataloguesAgree
<1> QED
  BY <1>1, OldWorldCorrect, GuWorldCorrect, ItemsCorrect, PTL
=============================================================================
