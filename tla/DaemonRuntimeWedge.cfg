SPECIFICATION FairRSpec
CONSTANTS
    MaxRuns = 1
    MaxSeries = 1
    MaxReattached = 1
    MaxProgress = 0
    Outcomes = {"complete", "failed", "cancelled"}
    Pressure = FALSE
    Requests = {"small"}
    Daemons = {"d1", "d2"}
    Digests = {"x"}
    MaximumHeadBypass = 0
    MaxCrashes = 0
    MaxErrors = 0
    MaxLaunches = 1
PROPERTIES
    TerminalManifestReconciled
CHECK_DEADLOCK FALSE
