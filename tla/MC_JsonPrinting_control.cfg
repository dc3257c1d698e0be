\* writeStringUtf8 of a string holding a control character (0x01): it is
\* copied into the JSON string unescaped.
CONSTANTS
    Names = {"a"}
    Scalars <- MCScalarsControl
    MaxDepth = 1
    MaxItems = 1
SPECIFICATION Spec
INVARIANT PrintsStructured
CHECK_DEADLOCK FALSE
