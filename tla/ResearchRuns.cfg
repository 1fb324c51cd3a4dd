SPECIFICATION Spec
CONSTANTS
    t1 = t1
    Targets = {t1}
    Jobs = {j1, j2}
    TargetOf <- MCTargetOf
    Runs = {r1, r2, r3}
    TargetsFor <- MCTargetsFor
    Writes = {w1}
    Callers = {c1, c2}
SYMMETRY Symmetry
INVARIANTS
    TypeOK
    SucceededIsChecked
    ConfirmedOnce
    OverlapBoundsRuns
