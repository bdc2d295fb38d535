CONSTANTS
    None = None
    TimeoutTexts <- MCTimeouts
    PrefShapes <- MCAllShapes
    MaxPrefs = 1
    PrefNames <- MCAllNames

SPECIFICATION Spec

INVARIANT ParamsMatchSpec
CHECK_DEADLOCK FALSE
