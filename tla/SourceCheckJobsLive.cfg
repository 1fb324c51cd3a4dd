SPECIFICATION LiveSpec
CONSTANTS
    Targets = {t1}
    Workers = {w1, w2}
    Slots = {1, 2}
    NoJob = NoJob
    NoLease = NoLease
    Jobs <- MCJobs
    TargetOf <- MCTargetOf
    Limit = 1
    MaxAttempts = 2
    Lease = 1
    Cadence = 1
    BackoffBase = 1
    BackoffMax = 1
PROPERTIES
    EveryJobFinishes
    EveryTargetIsChecked
