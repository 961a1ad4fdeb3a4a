SPECIFICATION FairRSpec
CONSTANTS
    MaxRuns = 1
    MaxSeries = 1
    MaxReattached = 1
    MaxProgress = 0
    Outcomes = {"complete", "failed", "cancelled"}
    Pressure = FALSE
    Requests = {"small"}
    Daemons = {"d1", "d2"}
    Digests = {"x"}
    MaximumHeadBypass = 0
    MaxCrashes = 1
    MaxErrors = 1
    MaxLaunches = 2
PROPERTIES
    ImplementsCatalog
    LaunchedOnce
    ActiveEnds
CHECK_DEADLOCK FALSE
