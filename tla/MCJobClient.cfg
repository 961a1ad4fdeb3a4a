SPECIFICATION MCSpec
CONSTANTS
    Clients = {c1, c2}
    Commands = {"run", "wait", "events", "cancel", "rerun"}
    Page = 2
    MaxTries = 2
    MaxCrashes = 1
    MaxLog = 5
    Outcomes = {"complete", "cancelled", "interrupted"}
INVARIANTS
    ReadersAreTold
    CommandsHaveEffect
