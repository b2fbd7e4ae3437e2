\* Refinement and liveness: two requests, failing and aborted calls.
CONSTANTS
    Requests = {r1, r2}
    Users = {u1}
    Fields = {f1, f2}
    NoDoc = NoDoc
    Foreign = Foreign
    Faults = {"Aborted", "Unavailable"}
    MaxAttempts = 2
    MaxResends = 0
    MaxClock = 0
SPECIFICATION FairSpec
PROPERTIES
    ImplementsRegistry
    EveryCallAnswered
