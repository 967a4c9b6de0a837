CONSTANTS
    c1 = c1
    c2 = c2
    Consumers <- MCConsumers
    Topics <- MCTopics
    NumPartitions = 1
    Sources <- MCMain
    Losable <- MCGhosts
    MaxRecords <- MCOneRecord
    MaxMembers = 3
    MaxIncarnation = 1
    MaxFaults = 1
    MaxSwitches = 0
    MaxSeeks = 0
SPECIFICATION Spec
SYMMETRY MCSymmetry
INVARIANT NothingSkipped
INVARIANT AssignmentCurrent
CHECK_DEADLOCK FALSE
