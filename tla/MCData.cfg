SPECIFICATION MCSpec
CONSTANTS
    Procs = {"a", "b"}
    Resolvers = {"b"}
    Groups = 2
    Worlds <- MCWorlds
    Documents <- MCDocuments
    MaxEdits = 1
    Replacing = TRUE
    Profiles = {"p"}
    Warmup <- MCWarmup
    Interval <- MCInterval
    Provides <- MCProvides
INVARIANTS
    LockServes
    FinalizeRecovers
    GraphIsSound
    FramesAreHonest
    ReadersAnswer
PROPERTIES
    OnlyOwnLocks
CHECK_DEADLOCK FALSE
