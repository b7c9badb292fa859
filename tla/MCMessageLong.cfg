\* Longs read back as longs.
SPECIFICATION Spec
CONSTANTS
    MAX_MSG_DATA = 65535
    Values <- LongValues
    HeapBytes = {0}
    Tails = {0}
    MaxPuts = 2
INVARIANTS OnlyMisuseAborts
CHECK_DEADLOCK FALSE
