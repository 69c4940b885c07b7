CONSTANTS
    w1 = w1
    w2 = w2
    w3 = w3
    n1 = n1
    n2 = n2
    Widgets = {w1, w2, w3}
    Names = {n1, n2}
    NoName = NoName
    SIZE_MAX = 4

SPECIFICATION Spec
SYMMETRY MCSymmetry

INVARIANTS
    IdentitiesHeld
    ScopesNest
