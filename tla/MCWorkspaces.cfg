SPECIFICATION WorkspacesSpec
CONSTANTS
    Units = {u1, u2, u3}
    ReversibleUnits = {u1}
    IrreversibleUnits = {u2}
    ProviderUnits = {u2}
    MaxGeneration = 3
    u1 = u1
    u2 = u2
    u3 = u3
    Switchers = {s1}
    Terminals = {f1}
    WorkflowTools = {x1}
    PlanTools = {p1}
    Readers = {r1}
    Callbacks = {c1}
    NoThread = NoThread
    Workspaces = {w1, w2}
    NoCatalog = NoCatalog
    NoGoal = NoGoal
    MaxVersion = 2
    Servers = {m1}
    Roots = {w1, w2}
    Connects = {n1, n2}
    Writers = {e1}
    Requests = {q1}
    Switcher = Switcher
    Closer = Closer
    Nobody = Nobody
    NoClient = NoClient
    MaxEndpoints = 2
    MaxLifecycle = 4
    SourceFiles = {y1}
    SourceRoots = {v1, v2}
    HomeRoot <- HomeOfFile
    FirstRoot = v1
    Indexers = {h1}
    MaxVersions = 2
    MaxIndexVersion = 2
    MaxMoves = 2
    y1 = y1
    v1 = v1
SYMMETRY Interchangeable
INVARIANTS
    WorkspacesTypeOK
    EffectIsAccountedFor
    ReceiptIsHonest
    SuccessIsWhole
    TerminalExcludesTools
    CatalogFollowsWorkspace
    NoToolChangeIsLost
    RunningServersAreAuthorized
    NoGhostSymbols
PROPERTIES
    OutcomeIsFinal
    ResultsAreCurrent
    ReadersWorkInOneWorkspace
