SPECIFICATION Spec
CONSTANTS
    Units = {u1}
    ReversibleUnits = {}
    IrreversibleUnits = {u1}
    ProviderUnits = {u1}
    MaxGeneration = 2
    u1 = u1
CHECK_DEADLOCK FALSE
INVARIANT ProviderUnitsSucceed
