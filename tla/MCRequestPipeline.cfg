\* Where a finished request stays is not a deadlock.
SPECIFICATION FairSpec
CONSTANTS
    Verifiers <- EveryVerifier
    OperationStatuses <- Statuses
INVARIANTS
    ProtectedFailsClosed
    RefusalMatchesCause
    CompleteAnswersAreWhole
    AccessLogTellsTheTruth
PROPERTY
    EveryRequestEnds
CHECK_DEADLOCK FALSE
