\* Strings of 127 and 128 characters.
SPECIFICATION Spec
CONSTANTS
    MAX_MSG_DATA = 65535
    Values <- NarrowValues
    HeapBytes = {0}
    Tails = {0}
    MaxPuts = 2
INVARIANTS OnlyMisuseAborts
CHECK_DEADLOCK FALSE
