\* Every operation, boundary lengths, the real buffer size.
SPECIFICATION Spec
CONSTANTS
    MAX_MSG_DATA = 65535
    Values <- AnyValues
    HeapBytes = {0, 2}
    Tails = {0, 1}
    MaxPuts = 2
INVARIANTS TypeOK InBounds LengthIsEnd Synchronised RoundTrip NoSpuriousAbort RefusedOnlyWhenFull
PROPERTIES PrintReadsAll PrintReturns
\* A failed assertion ends the process.
CHECK_DEADLOCK FALSE
