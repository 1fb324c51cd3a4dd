SPECIFICATION LiveSpec
CONSTANTS
    Cands = {c1, c2}
    Locking = {c1}
    Blocking = {c1, c2}
    Procs = {p1, p2}
    NoCand = NoCand
    Limit = 2
    MaxDecisions = 2
INVARIANTS
    TypeOK
    AppliedExactlyOnce
    ApprovalStands
PROPERTIES
    ImplementsGate
    DecisionsAreFinal
    ClaimedIsSettled
