\* writeDouble of infinity: the streaming contexts print the string "inf",
\* the structured context holds the number.
CONSTANTS
    Names = {"a"}
    Scalars <- MCScalarsNonFinite
    MaxDepth = 1
    MaxItems = 1
SPECIFICATION Spec
INVARIANT PrintsStructured
CHECK_DEADLOCK FALSE
