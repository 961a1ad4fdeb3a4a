SPECIFICATION Spec
CONSTANTS
    Clients = {c1, c2}
    Commands = {"wait", "events", "cancel", "rerun"}
    Page = 2
    MaxTries = 1
    MaxCrashes = 1
    MaxLog = 4
    Outcomes = {"complete", "cancelled"}
PROPERTY CommandsEnd
