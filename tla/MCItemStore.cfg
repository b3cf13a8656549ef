SPECIFICATION FairSpec
CONSTANTS
    u1 = u1
    u2 = u2
    v1 = v1
    v2 = v2
    i1 = i1
    Users = {u1, u2}
    Vaults = {v1, v2}
    Items = {i1}
    Data = {d1}
    Handlers = {h1, h2}
    Access <- MCAccess
    VaultOf <- MCVaultOf
    MaxVersion = 3
    NoRow = NoRow
    Deleted = Deleted
    NoRequest = NoRequest
INVARIANTS HistoryExact OutsidersChangeNothing AcknowledgedIsKept
PROPERTIES ImplementsItemLog EveryRequestAnswered
