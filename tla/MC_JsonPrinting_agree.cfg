\* Objects and arrays nested two deep with two members or elements each,
\* every value written by one of the calls of MCScalars.
CONSTANTS
    Names = {"a", "b"}
    Scalars <- MCScalars
    MaxDepth = 2
    MaxItems = 2
SPECIFICATION Spec
INVARIANT TypeOK PrintsStructured
CHECK_DEADLOCK FALSE
