CONSTANTS
    w1 = w1
    w2 = w2
    Torn = Torn
    Topics = {"orders"}
    Counts = {1, 2}
    Workers <- MCWorkers
    MaxPowerLoss = 1
    MaxRecords = 2
SPECIFICATION Spec
SYMMETRY MCSymmetry
INVARIANT AckedStored
INVARIANT AcknowledgedServed
INVARIANT MemoryIsPersisted
INVARIANT CommittedWithinLog
CHECK_DEADLOCK FALSE
