\* Two requests for a folder of archives and documents, two threads, one restart.
SPECIFICATION FairSpec
CONSTANTS
    q1 = q1
    q2 = q2
    Requests = {q1, q2}
    Bucket <- Folder
    MaxBytes = 3
    Readings <- SomeReadings
    Answers <- SomeAnswers
    Short <- ShortWords
    Workers = 2
    MaxUnreadable = 1
    MaxRestarts = 1
INVARIANTS BatchHoldsItsDocuments AnonymizationIsExact ReadableIsNotGivenUp
PROPERTIES RunsSeeSettledBatches BatchSettles
CHECK_DEADLOCK FALSE
