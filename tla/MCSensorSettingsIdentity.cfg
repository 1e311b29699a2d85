SPECIFICATION SettingsSpec
CONSTANTS
    Types <- MCTypes
    Levels = {1, 2}
INVARIANTS
    AcceptedIsLoadable
CHECK_DEADLOCK FALSE
