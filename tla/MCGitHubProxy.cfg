SPECIFICATION FairSpec
CONSTANTS
    MaxResponse = 2
    MaxDrain = 1
    RequestTimeout = 4
    ClientTimeout = 5
INVARIANTS
    AnswerTellsWhatHappened
    WorkIsBounded
    LoggedOnce
PROPERTIES
    EveryCallEnds
CHECK_DEADLOCK FALSE
