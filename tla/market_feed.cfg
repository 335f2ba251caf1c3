SPECIFICATION Spec
CONSTANTS
    Shout = {m1, m2}
    Offer = {o1, o2}
    Call = {c1, c2}
    AlertMaxAge = 0
    MaxTime = 1
    MaxVersion = 1
    MaxSeen = 2
SYMMETRY Symmetry
INVARIANTS
    RecordedIsCounted
    QuoteTimesReal
    HandedOnce
CHECK_DEADLOCK FALSE
