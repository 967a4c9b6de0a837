CONSTANTS
    c1 = c1
    c2 = c2
    f1 = f1
    f2 = f2
    WakeupChannel = WakeupChannel
    Conns <- MCConns
    Fds <- MCFds
    MaxRequests = 1
SPECIFICATION Spec
SYMMETRY MCSymmetry
CHECK_DEADLOCK FALSE
INVARIANT PollerMatches
INVARIANT DispatchedAlive
INVARIANT NoLostWakeup
INVARIANT JoinedClean
