SPECIFICATION Spec
CONSTANTS
    Account = {a1, a2}
    Profile = {p1}
    Name = {n1, n2}
    Background = {b1, b2}
    Call = {c1, c2}
    NoProfile = NoProfile
    NoName = NoName
    ChallengeTtl = 0
    RecheckInterval = 1
    MaxTime = 1
    MaxChanges = 1
INVARIANT OneHolder
