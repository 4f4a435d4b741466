SPECIFICATION Spec
CONSTANTS
    Units = {u1}
    ReversibleUnits = {u1}
    IrreversibleUnits = {}
    ProviderUnits = {}
    MaxGeneration = 2
    u1 = u1
CHECK_DEADLOCK FALSE
INVARIANT UndoneIsNotSuccess
