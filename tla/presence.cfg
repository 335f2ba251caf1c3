SPECIFICATION Spec
CONSTANTS
    Socket = {s1, s2, s3}
    Account = {a1}
    Ip = {i1}
    NoSocket = NoSocket
    NoAccount = NoAccount
    NoIp = NoIp
    AfkTicks = 2
INVARIANTS
    MapsAgree
    NoGhosts
    ViewsAgree
PROPERTIES
    ScreenKept
    IdleGoesAway
