\* The map, the chat, the feed, the queries and the catalogues, one at a time
SPECIFICATION Spec

CONSTANTS
    Open <- SmallOpen
    Clearance = 1
    Lifetime = 2
    MaxFires = 2
    MaxTime = 4

    Width = 1
    Height = 3
    Blocked <- SmallBlocked
    Walls = {}
    Center <- SmallCenter
    PlayerSteps <- SmallSteps
    Socket = {s1, s2}
    Dummy = {d1, d2}
    Wild = {w1}
    NoSocket = NoSocket
    Nothing = Nothing
    MoveTicks = 2
    RideTicks = 1
    MaxMonsters = 2
    SpellRange = 2
    FullHp = 2

    Talker = {1, 2}
    AccountOf <- SmallAccounts
    NoAccount = 0
    GradePoints <- SmallGrades
    MaxHistory = 2
    MemberWait = 1
    GuestWait = 2
    MaxTalk = 3
    MaxSaid = 3

    Collector = {c1, c2}
    PageSize = 1
    LivePage = 1
    MaxFeedTime = 2
    MaxShouts = 4

    Map = {1, 2, 3, 4, 5}
    NameOf <- SmallNames
    MapPortals <- SmallPortals
    Groups <- SmallGroups
    Name = {"a", "b", "d"}
    NoRoute = NoRoute

    Item = {1, 2}
    Deal <- SmallDeals
    Sample = 2
    SummaryScan = 4
    StatsScan = 3
    ListLimit = 1
    MaxPoints = 3
    MaxDeals = 5

    Listing <- SmallListings
    ScanLimit = 2
    MaxBoard = 3

    OldMob = {1, 2}
    OldSpell = {1, 2, 3}
    OldPlace = {1, 2, 3}
    OldExtract <- SmallOldExtracts
    Hops = 3
    IncomingLimit = 1
    GuMob = {1, 2}
    GuItem = {1, 2, 3}
    GuSkill = {1}
    GuShop = {1, 2}
    GuExtract <- SmallGuExtracts
    TierFloors <- SmallFloors
    OldItem = {1, 2, 3}
    ItemExtract <- SmallItemExtracts
    MaxImports = 2

    Quote <- SmallQuotes
    Stretches = 2
    SparkStretches = 3
    Period = 2
    OverviewLimit = 4
    HistoryLimit = 3
    MaxQuotes = 5

    MaxRefills = 2

    PictureLimit = 2
    WindowLimit = 1
    ColorCap = 6
    DyeTicks = 4
    MaxWrites = 3

INVARIANTS
    PartsTypeOK
    WorldAgrees
    NothingSkipped
    ShortestRoute
    FiguresAgree
    PagesHold
    CataloguesAgree
    ReadAsWritten
    MarketPagesAgree
    PicturesHold
SYMMETRY Symmetry
\* Shouts, messages, deals and listings are bounded, a search ends, and who left the chat
\* does not return.
CHECK_DEADLOCK FALSE
