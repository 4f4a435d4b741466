SPECIFICATION ServicesSpec
CONSTANTS
    Ids = {chat, plan}
    Opaque = {plan}
    Callers = {c1, c2}
    Limit = 1
    MaxGeneration = 3
    MaxEpoch = 2
    MaxRevision = 2
    MaxSwitches = 2
    Executions = {c1, c2}
    TaskIds = {t1, t2}
    Stoppers = {s1}
    NoExecution = NoExecution
    PendingLimit = 1
    Streams = {c1, c2}
    Conversations = {k1}
    Closers = {d1}
    NoStream = NoStream
    MaxAttempts = 3
    Listers = {c1, c2}
    NoLister = NoLister
    HandlerLimit = 1
    MaxServed = 2
    MaxCalls = 3
    MaxRelease = 2
    MaxAsked = 2
    Replay <- ReplayOrder
    Upstream = Upstream
    Nothing = Nothing
    NoState = NoState
    MaxInterrupted = 2
    MaxConflicts = 2
    MaxBlocked = 1
    Editors = {c1, c2}
    Texts = {x1, x2}
    NoText = NoText
    Garbled = Garbled
    NoPending = NoPending
    MaxEdits = 3
    MaxServers = 2
    g1 = g1
    g2 = g2
    g3 = g3
SYMMETRY Interchangeable
CHECK_DEADLOCK FALSE
INVARIANTS
    ServicesTypeOK
    AuthorityFollowsRows
    BurnedStaysBurned
    BudgetMatchesGrants
    StopReachesItsProcess
    UnitOwnsItsRow
    ShutdownsAreComplete
    NoCircularWait
    ListIsCurrent
    NoWaiterIsLost
    ServerHasTheText
    UpdateIsAllOrNothing
    RunningCodeIsInstalled
    RewordsReachTheirCommits
