\* writeUnsignedInt on the string context: sprintf "%ui" prints "7i".
CONSTANTS
    Names = {"a"}
    Scalars <- MCScalarsUnsigned
    MaxDepth = 1
    MaxItems = 1
SPECIFICATION Spec
INVARIANT PrintsStructured
CHECK_DEADLOCK FALSE
