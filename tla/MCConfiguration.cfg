\* Two calls on files of every shape: flat, nested, with lists, with lists of objects.
SPECIFICATION Spec
CONSTANTS
    Files <- AllFiles
    Node <- AllNodes
    Height <- TreeHeight
    Names = {"a", "b", "c", "d"}
    Value = {"x", "y", "z"}
    Keys <- JsonKeys
    UINT_MAX = 255
    MaxCalls = 2
INVARIANTS TypeOK CountersPositive WalkRight ValuesKept AstrayOnlyWhere DeletedOnce
PROPERTIES WalkGoesOn ReadReturns
\* A process that went astray may end, and the bound on calls may be reached.
CHECK_DEADLOCK FALSE
