SPECIFICATION Spec
CONSTANTS
    j1 = j1
    d1 = d1
    d2 = d2
    w1 = w1
    w2 = w2
    Jobs = {j1}
    Docs = {d1, d2}
    JobOf <- OneJob
    Workers = {w1}
    MaxAttempts = 2
    EntryIds = {1, 2}
    MaxLen = 1
    RecoverLimit = 1
    MayFail = FALSE
SYMMETRY SymDocs
INVARIANTS
    JobStatusAgrees
