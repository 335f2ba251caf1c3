SPECIFICATION Spec
CONSTANTS
    Seller = {s1, s2}
    Rule = {r1}
    Call = {c1, c2}
    Price = {1, 2}
    AlertCooldown = 2
    MaxTime = 2
SYMMETRY Symmetry
INVARIANTS CooldownHeld
