SPECIFICATION Spec
CONSTANTS
    c1 = c1
    c2 = c2
    Connections <- MCConnections
    Nobody = Nobody
    MaxFd = 2
    MaxAccepts = 1
    MaxInterfaces = 1
INVARIANT ConnectedToPeer
CHECK_DEADLOCK FALSE
