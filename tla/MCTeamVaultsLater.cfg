SPECIFICATION FairSpec
CONSTANTS
    o = o
    a = a
    m = m
    t1 = t1
    v1 = v1
    p = p
    q = q
    Users = {o, a}
    Teams = {t1}
    Vaults = {v1}
    Tabs = {p, q}
    None = None
    NoRow = NoRow
    Gone = Gone
    OwnerOf <- MCOwnerOf
    UserOf <- MCUserOf
PROPERTY
    KeysSharedLater
CHECK_DEADLOCK FALSE
