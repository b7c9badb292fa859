SPECIFICATION Spec
CONSTANTS
    c1 = c1
    c2 = c2
    Connections <- MCConnections
    Nobody = Nobody
    MaxFd = 3
    MaxAccepts = 2
    MaxInterfaces = 2
SYMMETRY Symmetry
INVARIANT TypeOK
INVARIANT OwnSocket
INVARIANT NothingElseReleases
CHECK_DEADLOCK FALSE
