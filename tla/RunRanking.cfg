\* Three candidates, two with the same profile text, and a shortlist of one.
SPECIFICATION Spec
CONSTANTS
    Number = 3
    TextOf <- TextsOfThree
    Requirements = {"false", "ask"}
    Criteria <- SomeCriteria
    Marks = {0, 6000}
    Members = 3
    UseEnsemble = TRUE
    Size = 1
    Margin = 500
INVARIANTS ExclusionsHaveEvidence EqualProfilesAreJudgedAlike MajorityPlaces EveryoneIsPlaced
CHECK_DEADLOCK FALSE
