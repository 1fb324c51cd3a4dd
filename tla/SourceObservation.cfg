SPECIFICATION LiveSpec
CONSTANTS
    d1 = d1
    d2 = d2
    Items = {d1}
    Plan <- OnePlan
    Partition <- Apart
    Shas = {s1, s2}
    NoSha = NoSha
    Procs = {p1, p2}
    NoProc = NoProc
    Readers = {p2}
    NoItem = NoItem
    MaxFailures = 1
INVARIANTS
    TypeOK
PROPERTIES
    ImplementsLog
    ItemsCatchUp
    HealthSettles
