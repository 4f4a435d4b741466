SPECIFICATION FairAuthoritySpec
CONSTANTS
    Switchers = {s1}
    Terminals = {}
    WorkflowTools = {}
    PlanTools = {p1}
    Readers = {}
    Callbacks = {}
    NoThread = NoThread
    Workspaces = {w1}
    NoCatalog = NoCatalog
    NoGoal = NoGoal
    MaxVersion = 0
PROPERTIES
    EveryCallReturns
CHECK_DEADLOCK FALSE
