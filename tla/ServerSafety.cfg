CONSTANTS
    c1 = c1
    c2 = c2
    w1 = w1
    w2 = w2
    NoConn = NoConn
    Clients <- MCClients
    Fds <- MCFds
    Workers <- MCWorkers
    MaxConnections = 1
    QueueSize = 1
    MaxRequests <- MCTwoEach
SPECIFICATION Spec
CHECK_DEADLOCK FALSE
SYMMETRY MCSymmetry
INVARIANT ConnectionsMapped
INVARIANT ResponsesInOrder
INVARIANT StopReleasesAll
