\* Messages shorter and longer than LengthKnown, buffers smaller, equal and larger.
SPECIFICATION Spec
CONSTANTS
    Lengths = {3, 5}
    Sizes = {0, 2, 3, 4, 6}
    LengthKnown = 4
    SIZE_MAX = 255
    MaxMessages = 3
    MaxReads = 3
INVARIANTS TypeOK SmallBufferRespected OnlyFragmentsReturned
PROPERTIES ReadMessageEnds
\* The end of the stream reached and no call left.
CHECK_DEADLOCK FALSE
