SPECIFICATION LiveSpec
CONSTANTS
    d1 = d1
    d2 = d2
    Items = {d1, d2}
    Plan <- TwoPlan
    Partition <- Together
    Shas = {s1}
    NoSha = NoSha
    Procs = {p1, p2}
    NoProc = NoProc
    Readers = {p2}
    NoItem = NoItem
    MaxFailures = 1
PROPERTIES
    RerunsMakeUp
