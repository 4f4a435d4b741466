SPECIFICATION LifecycleSpec
CONSTANTS
    Ids = {chat}
    Opaque = {}
    Callers = {c1}
    Limit = 1
    MaxGeneration = 3
    MaxEpoch = 1
    MaxRevision = 1
    MaxSwitches = 1
CHECK_DEADLOCK FALSE
INVARIANT HandlerStartsRegistered
