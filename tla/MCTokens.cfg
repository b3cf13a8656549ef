SPECIFICATION MCSpec
CONSTANTS
    u1 = u1
    u2 = u2
    i1 = i1
    i2 = i2
    vp = vp
    vt = vt
    None = None
    Holders = {u1, u2}
    Requests = {h1, h2}
    Passkeys = {p1}
    challengeTTL = 1
    MaxPasskeyTime = 2
    MaxCount = 2
    Tokens = {d1, d2}
    MaxTokenTime = 1
    Keys = {k1, k2}
    keysTTL = 1
    Timeout = 1
    Overridden = FALSE
    MaxKeyTime = 3
    Users = {u1, u2}
    Visitors = {x1, x2}
    Links = {l1}
    Items = {i1, i2}
    TeamVaults = {vt}
    VaultOf <- MCVaultOf
    OwnerOf <- MCOwnerOf
    Hours = {1, 2}
    MaxTime = 3
    NoRow = NoRow
    Deleted = Deleted
    Nobody = Nobody
    Idle = Idle
INVARIANT
    RefusedRightly
PROPERTY
    ImplementsOneTimeSecret
    PasskeysAreCredentials
    TokensAreCredentials
    AcceptedRecently
SYMMETRY Symmetry
