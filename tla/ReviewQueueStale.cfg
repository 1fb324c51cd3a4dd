SPECIFICATION Spec
CONSTANTS
    Cands = {c1}
    Locking = {c1}
    Blocking = {c1}
    Procs = {p1}
    NoCand = NoCand
    Limit = 1
    MaxDecisions = 2
INVARIANTS
    EvidenceCitesDecision
