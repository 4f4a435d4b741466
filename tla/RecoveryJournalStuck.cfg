SPECIFICATION JournalSpec
CONSTANTS
    Pages = {p1, p2}
    Paths = {f1}
    MaxSaves = 3
    MaxCrashes = 2
    MaxStuck = 0
CHECK_DEADLOCK FALSE
INVARIANT DecisionsCanBeCommitted
