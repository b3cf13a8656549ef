SPECIFICATION Spec
CONSTANTS
    Clients = {c1, c2, c3}
    Callers = {x1}
    AtOnce = 2
    NoRow = NoRow
    None = None
SYMMETRY Symmetry
INVARIANT KeyPairMatches
CHECK_DEADLOCK FALSE
