SPECIFICATION Spec
CONSTANTS
    own = own
    team = team
    i1 = i1
    i2 = i2
    Handlers = {h1}
    Tabs = {t1}
    Vaults = {own, team}
    Personal = {own}
    Items = {i1, i2}
    Home <- MCHome
    Name = n
    MaxToken = 1
    MaxStage = 1
    MaxVersion = 3
    MaxOther = 2
    None = None
CHECK_DEADLOCK FALSE
INVARIANTS CacheIsOfItsVersion LoggedOutHoldsNothing SessionIsSaved
PROPERTIES UpdatesFollow SavedOnce
