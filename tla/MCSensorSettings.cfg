SPECIFICATION SettingsSpec
CONSTANTS
    Types <- MCTypes
    Levels = {1, 2}
INVARIANTS
    LoadableIsAccepted
CHECK_DEADLOCK FALSE
