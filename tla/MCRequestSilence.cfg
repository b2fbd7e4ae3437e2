\* Where a finished request stays is not a deadlock.
SPECIFICATION Spec
CONSTANTS
    Verifiers <- EveryVerifier
    OperationStatuses <- Statuses
INVARIANT
    NoEmptyAnswerToWaitingClient
CHECK_DEADLOCK FALSE
