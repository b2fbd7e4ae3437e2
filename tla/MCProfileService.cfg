\* A finished request stays where it is.
SPECIFICATION FairSpec
CONSTANTS
    Me = me
    Requests = {me, r2}
    Users = {u1}
    Fields = {f1}
    NoDoc = NoDoc
    Foreign = Foreign
    Faults = {"Unavailable", "Aborted"}
    MaxAttempts = 2
    Verifiers <- OneVerifier
INVARIANTS
    ClientIsToldTheTruth
PROPERTIES
    ImplementsPipeline
CHECK_DEADLOCK FALSE
