CONSTANTS
    None = None
    TimeoutTexts <- MCTimeouts
    PrefShapes <- MCWriterShapes
    MaxPrefs = 2
    PrefNames <- MCNames

SPECIFICATION Spec

INVARIANT ParamsMatchSpec
CHECK_DEADLOCK FALSE
