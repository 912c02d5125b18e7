\* Two edits at once: one of them is lost.
SPECIFICATION Spec
CONSTANTS
    r1 = r1
    r2 = r2
    t1 = t1
    t2 = t2
    c1 = c1
    Requests <- TwoEdits
    Threads <- Pool
    Candidates <- OneCandidate
    PlanIds = {1}
    MayFail = FALSE
SYMMETRY Interchange
INVARIANT AcceptedEditsHold
CHECK_DEADLOCK FALSE
