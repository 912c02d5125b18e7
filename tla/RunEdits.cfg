\* Two edits, sent at any time or patiently, over the pool of two threads.  The rule set is
\* copied from a run whose first rule was removed, so that ids and their count differ.
SPECIFICATION FairSpec
CONSTANTS
    r1 = r1
    r2 = r2
    t1 = t1
    t2 = t2
    c1 = c1
    Requests <- TwoEdits
    Threads <- Pool
    Candidates <- OneCandidate
    PlanIds = {2}
    MayFail = TRUE
INVARIANTS TypeOK QuietRunsAreSettled IdsAreUnique PatientEditsTakeEffect
PROPERTY RunSettles
CHECK_DEADLOCK FALSE
