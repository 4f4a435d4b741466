SPECIFICATION ExtensionSpec
CONSTANTS
    MaxRelease = 3
    MaxAsked = 2
CHECK_DEADLOCK FALSE
PROPERTY ReenabledMayActivate
