SPECIFICATION Spec
CONSTANTS
    o = o
    m = m
    t1 = t1
    t2 = t2
    v1 = v1
    p = p
    Users = {o, m}
    Teams = {t1, t2}
    Vaults = {v1}
    Tabs = {p}
    None = None
    NoRow = NoRow
    Gone = Gone
    OwnerOf <- MCOwnerOf
    UserOf <- MCUserOf
INVARIANT
    HoldersBelong
CHECK_DEADLOCK FALSE
