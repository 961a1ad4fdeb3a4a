SPECIFICATION MCSpec
CONSTANTS
    Jobs = 4
    FrameBudget = 3
    Budget = 4
    Scratch = 1
    Cells = {"wide", "narrow"}
    Points = {"p1", "p2", "p3"}
    ColumnSize <- MCColumnSize
    CellOf <- MCCellOf
    Batches <- MCBatches
INVARIANTS
    CacheIsSound
    SourcesAreTold
    RoutesAgree
    StencilIsExact
    PointsAreTheirOwn
    FlowIsSampled
CHECK_DEADLOCK FALSE
