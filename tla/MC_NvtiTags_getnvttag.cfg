CONSTANTS
    None = None
    MaxTagLen = 5

SPECIFICATION Spec

INVARIANT TagDecodersAgree
CHECK_DEADLOCK FALSE
