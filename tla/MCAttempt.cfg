SPECIFICATION MCSpec
CONSTANTS
    p1 = p1
    p2 = p2
    MaxSamples = 2
    MaxFaults = 3
    Instants <- MCInstants
    Requests <- MCRequests
    MaxBoundaries = 3
    Particles = {p1, p2}
    LastInstant = 3
    MaxBatch = 2
INVARIANTS
    ClosedIsHonest
    RowsTellLives
    BundleMirrorsRows
    PlanIsSound
    MacroIsSound
    RowsAreParticles
    PoliciesAreSound
    CutsAreSound
PROPERTIES
    WrittenStays
    CollisionsAdvance
CHECK_DEADLOCK FALSE
