SPECIFICATION StorageSpec
CONSTANTS
    Ids = {a, b}
    Units = {u1}
    NoUnit = NoUnit
    NoRow = NoRow
    NoSnapshot = NoSnapshot
    MaxStream = 2
    MaxCheckpoints = 3
    MaxAttempt = 2
    MaxIncarnation = 3
    MeteredUnits = {m1, m2}
    ExternalUnits = {m1}
    Identities = {i1, i2}
    MaxChunks = 7
    Pages = {c1, c2}
    Paths = {f1}
    MaxSaves = 3
    MaxCrashes = 2
    MaxStuck = 1
    Edits = {c1, c2}
    Savers = {z1}
    Targets = {f1, f2}
    Orders <- EditOrders
    NoWriter = NoWriter
    MaxDeaths = 1
    Processes = {p1, p2, p3}
    NoProcess = NoProcess
    Nobody = Nobody
    f1 = f1
    f2 = f2
SYMMETRY Interchangeable
CHECK_DEADLOCK FALSE
INVARIANTS
    StorageTypeOK
    MemoryIsPublished
    EverySurvivorLoads
    AuthorityIsNeverInherited
    UsageIsExact
    ProjectionIsLedger
    LoadIsTheLoop
    NoWorkIsLost
    OneInstance
PROPERTIES
    EditsAreHonest
    ImplementsTable
    ReceiptsMoveOnce
