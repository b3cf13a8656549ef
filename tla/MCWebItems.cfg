SPECIFICATION Spec
CONSTANTS
    p = p
    t = t
    i1 = i1
    i2 = i2
    i3 = i3
    Ops = {o1}
    Vaults = {p, t}
    Items = {i1, i2, i3}
    Personal = {p}
    Home <- MCHome
    MaxVersion = 2
    MaxImport = 2
    Covered = TRUE
    Own = Own
    New = New
    Blank = Blank
    Gone = Gone
    None = None
INVARIANT ReadableInVault
PROPERTIES EditsFollowTheItem MoveKeepsItem
