SPECIFICATION RSpec
CONSTANTS
    MaxRuns = 2
    MaxSeries = 1
    MaxReattached = 1
    MaxProgress = 0
    Outcomes = {"complete", "failed", "cancelled"}
    Pressure = FALSE
    Requests = {"small"}
    Daemons = {"d1", "d2"}
    Digests = {"x"}
    MaximumHeadBypass = 0
    MaxCrashes = 1
    MaxErrors = 1
    MaxLaunches = 1
INVARIANTS
    RuntimeIsSound
CHECK_DEADLOCK FALSE
