SPECIFICATION Spec
CONSTANTS
    Tabs = {p}
    Plain = {"opened", "index"}
    MaxResets = 1
    MaxCalls = 2
    AutoLock = TRUE
    NoKeys = NoKeys
    None = None
PROPERTY ResetLosesNothing
