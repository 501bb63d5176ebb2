SPECIFICATION Spec
CONSTANTS
    Volumes = {v1, v2}
    MaxAttempts = 2
SYMMETRY Symmetry
INVARIANTS
    TypeOK
    ReadsFromItsShadows
    NoSnapshotLeft
    ComponentAccounted
CHECK_DEADLOCK FALSE
