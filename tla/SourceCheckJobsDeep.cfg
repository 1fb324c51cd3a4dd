SPECIFICATION Spec
CONSTANTS
    Targets = {t1}
    Workers = {w1, w2}
    Slots = {1, 2, 3}
    Jobs <- MCJobs
    TargetOf <- MCTargetOf
    NoJob = NoJob
    NoLease = NoLease
    Limit = 1
    MaxAttempts = 2
    Lease = 2
    Cadence = 1
    BackoffBase = 1
    BackoffMax = 2
SYMMETRY Symmetry
INVARIANTS
    TypeOK
    OneActiveJob
    StatusAgrees
    AttemptsOvershoot
PROPERTIES
    ImplementsLedger
