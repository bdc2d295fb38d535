CONSTANTS
    None = None
    MaxTagLen = 5

SPECIFICATION Spec

INVARIANT ParseTagsMatchesGrammar
CHECK_DEADLOCK FALSE
