CONSTANTS
    c1 = c1
    c2 = c2
    Clients <- MCClients
    Topics <- MCOneTopic
    PartitionCount <- MCOnePartitionCount
    IdRank <- MCIdRank
    SessionTimeout = 0
    MaxGeneration = 4
    MaxMembers = 2
    MaxTime = 1
    MaxIncarnation = 2
SPECIFICATION Spec
PROPERTY SilentMembersLeave
INVARIANT PartitionsDivided
INVARIANT ExclusiveInIncarnation
PROPERTY GenerationFences
