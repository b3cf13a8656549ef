SPECIFICATION Spec
CONSTANTS
    own = own
    team = team
    i1 = i1
    i2 = i2
    Handlers = {h1, h2}
    Tabs = {t1, t2}
    Vaults = {own, team}
    Personal = {own}
    Items = {i1, i2}
    Home <- MCHome
    Name = n
    MaxToken = 1
    MaxStage = 2
    MaxVersion = 2
    MaxOther = 2
    None = None
CHECK_DEADLOCK FALSE
PROPERTY StagedSurvives
