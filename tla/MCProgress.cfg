SPECIFICATION ProgressSpec
CONSTANTS
    Units = {u1, u2}
    ReversibleUnits = {u1}
    IrreversibleUnits = {u2}
    ProviderUnits = {u2}
    MaxGeneration = 3
    u1 = u1
    u2 = u2
    u3 = u3
    Switchers = {s1, s2}
    Terminals = {f1}
    WorkflowTools = {x1}
    PlanTools = {p1}
    Readers = {}
    Callbacks = {c1}
    NoThread = NoThread
    Workspaces = {w1}
    NoCatalog = NoCatalog
    NoGoal = NoGoal
    MaxVersion = 1
CHECK_DEADLOCK FALSE
PROPERTIES
    ExecutionEnds
    EveryCallReturns
