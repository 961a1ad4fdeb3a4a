SPECIFICATION MCSpec
CONSTANTS
    MaxRuns = 2
    MaxSeries = 1
    MaxReattached = 1
    MaxProgress = 1
    Outcomes = {"complete", "cancelled", "failed"}
    Pressure = TRUE
    Requests = {"small"}
    Daemons = {"d1", "d2"}
    Digests = {"x", "y"}
    MaximumHeadBypass = 1
INVARIANTS
    AttemptIsSound
    SeriesIsSound
    OutputOnlyAfterDispatch
PROPERTIES
    EndIsFinal
    LifecycleSpec
CHECK_DEADLOCK FALSE
