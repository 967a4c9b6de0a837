CONSTANTS
    c1 = c1
    c2 = c2
    w1 = w1
    w2 = w2
    NoConn = NoConn
    Clients <- MCClients
    Fds <- MCOneFd
    Workers <- MCWorkers
    MaxConnections = 1
    QueueSize = 1
    MaxRequests <- MCTwoAndOne
SPECIFICATION Spec
CHECK_DEADLOCK FALSE
PROPERTY RequestsAnswered
PROPERTY StopReturns
