\* Where a finished request stays is not a deadlock.
SPECIFICATION Spec
CONSTANTS
    Verifiers <- EveryVerifier
    OperationStatuses <- Statuses
INVARIANT
    InvalidCredentialsAreNotOutages
CHECK_DEADLOCK FALSE
