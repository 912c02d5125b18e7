SPECIFICATION Spec
CONSTANTS
    j1 = j1
    d1 = d1
    d2 = d2
    v1 = v1
    v2 = v2
    Jobs = {j1}
    Docs = {d1, d2}
    JobOf <- OneJob
    MaxAttempts = 1
    Verifiers = {v1, v2}
    ChunkSize = 1
    MaxSubmits = 2
    MayFail = TRUE
SYMMETRY Symmetric
CHECK_DEADLOCK FALSE
INVARIANTS
    TypeOK
    AcceptedWhole
    NoStaleRejection
    NothingLeftBehind
PROPERTIES
    DeletionIsFinal
