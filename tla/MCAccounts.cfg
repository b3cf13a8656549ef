SPECIFICATION Spec
CONSTANTS
    Clients = {c1, c2, c3, c4}
    Callers = {x1, x2}
    AtOnce = 1
    NoRow = NoRow
    None = None
SYMMETRY Symmetry
INVARIANTS KeyPairMatches PasswordOpensKey AcknowledgedIsUsable
CHECK_DEADLOCK FALSE
