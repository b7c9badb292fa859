\* Calls of 0 to 3 bytes through a kernel buffer of 2.
SPECIFICATION Spec
CONSTANTS
    Sizes = {0, 2, 3}
    Capacity = 2
    MaxBytes = 7
INVARIANTS TypeOK InOrder NoGap ShortOnlyAtEnd AcceptedIsOnItsWay
PROPERTIES ImplementsPipe ReadnReturns WritenReturns
\* Both ends may be closed with nothing left to do.
CHECK_DEADLOCK FALSE
