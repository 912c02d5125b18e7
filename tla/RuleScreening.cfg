\* Tests of every kind and their combinations, on resumes that leave facts out.
SPECIFICATION Spec
CONSTANTS
    Profiles <- SomeProfiles
    RuleSets <- ScreeningRules
    Judges <- TwoJudges
    Complete <- Completions
INVARIANTS DecisionsStand OrderIsHarmless
CHECK_DEADLOCK FALSE
