SPECIFICATION TimelySpec
CONSTANTS
    Targets = {t1, t2}
    Workers = {w1, w2}
    Slots = {1, 2}
    NoJob = NoJob
    NoLease = NoLease
    Jobs <- MCJobs
    TargetOf <- MCTargetOf
    Limit = 2
    MaxAttempts = 1
    Lease = 2
    Cadence = 1
    BackoffBase = 1
    BackoffMax = 1
SYMMETRY Symmetry
INVARIANTS
    LeaseIsExclusive
    AttemptsWithinBudget
PROPERTIES
    DeadStaysDead
