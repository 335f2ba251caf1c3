\* Nine services, one at a time
SPECIFICATION ServicesSpec

CONSTANTS
    Handler = {h1, h2}
    Key = {k1, k2, k3}

    Requester = {r1}
    MessageLimit = 1
    PushThrottle = 1
    MaxFromOwner = 0
    MaxFromRequester = 3
    MaxNow = 1

    Nickname = {n1, n2}
    NoNickname = NoNickname
    NicknameInterval = 1

    TradeLimit = 2
    MaxDay = 2
    MaxCredits = 6

    Identity = {i1, i2}
    Price = {1}
    MaxRules = 1
    MaxIds = 4

    Rate = 1
    Burst = 2
    MaxKeys = 2
    MaxTime = 4
    MaxForgotten = 1

    Class = {l1, l2}
    NoClass = NoClass
    MaxUploads = 3

    Member = {b1, b2}
    Tab = {s1, s2}
    Endpoint = {p1}
    NoAccount = NoAccount

    Nobody = Nobody
    MaxLogins = 3

    Limit = 2
    MaxMillis = 1
    MaxLooks = 2

INVARIANTS
    UnreadBacked
    ThrottledUnlessOverlap
    HoldersWithinOverlap
    CreditsWithinOverlap
    RulesWithinOverlap
    RateHeld
    CommonNamesKept
    ImagesFresh
PROPERTIES
    ReadHidesOnlyLate
    LiveKept
    SessionsHold
SYMMETRY Symmetry
\* Rules, uploads and messages are bounded, and services may rest.
CHECK_DEADLOCK FALSE
