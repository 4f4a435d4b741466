SPECIFICATION LedgerSpec
CONSTANTS
    MeteredUnits = {u1, u2}
    ExternalUnits = {}
    Identities = {i1}
    MaxChunks = 8
    u1 = u1
    u2 = u2
    i1 = i1
INVARIANT AckedRowIsReadable
