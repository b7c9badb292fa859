\* One call on files of every shape, against what a comment says of the loop at its end.
SPECIFICATION Spec
CONSTANTS
    Files <- AllFiles
    Node <- AllNodes
    Height <- TreeHeight
    Names = {"a", "b", "c", "d"}
    Value = {"x", "y", "z"}
    Keys <- JsonKeys
    UINT_MAX = 255
    MaxCalls = 1
INVARIANT ValuesLoaded
\* A process that went astray may end, and the bound on calls may be reached.
CHECK_DEADLOCK FALSE
