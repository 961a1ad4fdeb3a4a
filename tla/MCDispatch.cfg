SPECIFICATION MCSpec
CONSTANTS
    Ids = {1, 2, 3}
    Needs <- MCNeeds
    Capacity <- MCCapacity
    MaxFaults = 1
    MaximumHeadBypass = 2
    MaxQueue = 4
    MaxCpu = 4
    MaxMem = 3
    Capacities <- MCCapacities
    Usages <- MCUsages
    Queues <- CallQueues
INVARIANTS
    PassIsSound
    DispatchIsSound
PROPERTIES
    EveryRunLeavesQueue
