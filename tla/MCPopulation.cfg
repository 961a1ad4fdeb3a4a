SPECIFICATION Spec
INVARIANTS
    FillIsSound
    BirthsAreSound
    MeshIsSound
CHECK_DEADLOCK FALSE
