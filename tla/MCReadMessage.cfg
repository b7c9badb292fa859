\* Does nleft stay within the buffer?
SPECIFICATION Spec
CONSTANTS
    Lengths = {3, 5}
    Sizes = {6}
    LengthKnown = 4
    SIZE_MAX = 255
    MaxMessages = 2
    MaxReads = 2
INVARIANT LeftIsInBuffer
CHECK_DEADLOCK FALSE
