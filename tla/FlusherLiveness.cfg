CONSTANTS
    Partitions <- MCPartitions
    Broken = {}
SPECIFICATION Spec
CHECK_DEADLOCK FALSE
PROPERTY EveryAppendFlushed
PROPERTY CloseReturns
