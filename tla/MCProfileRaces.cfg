\* Three requests of one user race on a backend that does not fail, while
\* time passes or another program writes.
CONSTANTS
    Requests = {r1, r2, r3}
    Users = {u1}
    Fields = {f1, f2}
    NoDoc = NoDoc
    Foreign = Foreign
    Faults = {}
    MaxAttempts = 2
    MaxResends = 0
    MaxClock = 1
SPECIFICATION Spec
SYMMETRY RequestSymmetry
CONSTRAINT OnlyMutations
INVARIANTS
    NoLostUpdate
    OneWinnerPerLifetime
    AcknowledgedWriteIsStored
    TimestampsOrdered
PROPERTIES
    UpdatedAtNeverRegresses
    ForeignFieldsSurvive
