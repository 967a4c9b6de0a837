CONSTANTS
    c1 = c1
    c2 = c2
    Consumers <- MCOneConsumer
    Topics <- MCTwoTopics
    NumPartitions = 1
    Sources <- MCMainAndRetry
    Losable <- Requests
    MaxRecords <- MCTwoAndCopy
    MaxMembers = 3
    MaxIncarnation = 4
    MaxFaults = 1
    MaxSwitches = 1
    MaxSeeks = 1
SPECIFICATION FairSpec
INVARIANT NothingSkipped
PROPERTY EveryRecordDelivered
CHECK_DEADLOCK FALSE
