\* Two requests; calls fail with every code, writes are repeated.
CONSTANTS
    Requests = {r1, r2}
    Users = {u1}
    Fields = {f1}
    NoDoc = NoDoc
    Foreign = Foreign
    Faults = {"Aborted", "DeadlineExceeded", "Canceled", "Internal",
              "ResourceExhausted", "Unavailable"}
    MaxAttempts = 2
    MaxResends = 1
    MaxClock = 0
SPECIFICATION Spec
SYMMETRY RequestSymmetry
INVARIANTS
    TypeOK
    AnswersMatchHistory
    AuditMatchesAnswers
    OutagesAskToComeBack
    AppliedAtMostOnce
PROPERTIES
    SettledCallsAreInert
