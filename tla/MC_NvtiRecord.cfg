CONSTANTS
    None = None
    TagAlphabet = {"a", "=", "|", "filename", "name"}
    MaxTagLen = 3
    MaxRefs = 2

SPECIFICATION Spec

INVARIANT MetadataMatchesSpec
INVARIANT RefsRoundTrip
CHECK_DEADLOCK FALSE
