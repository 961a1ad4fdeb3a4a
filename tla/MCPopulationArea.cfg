SPECIFICATION Spec
INVARIANTS
    PolygonsByArea
CHECK_DEADLOCK FALSE
