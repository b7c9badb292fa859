\* A message with room for 14 bytes: full, nearly full and with room to spare.
SPECIFICATION Spec
CONSTANTS
    MAX_MSG_DATA = 40
    Values <- FaithfulValues
    HeapBytes = {0, 2}
    Tails = {0, 1}
    MaxPuts = 4
PROPERTIES ImplementsQueue
\* A failed assertion ends the process.
CHECK_DEADLOCK FALSE
