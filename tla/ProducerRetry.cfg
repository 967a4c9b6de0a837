CONSTANTS
    t1 = t1
    t2 = t2
    Threads <- MCThreads
    NumPartitions = 2
    Target <- MCTarget
    SendRetries = 1
    MaxBatches <- MCBatches
SPECIFICATION ProducerSpec
INVARIANT AckedStored
INVARIANT FirstCopiesInOrder
CHECK_DEADLOCK FALSE
