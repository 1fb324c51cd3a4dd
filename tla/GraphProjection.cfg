SPECIFICATION LiveSpec
CONSTANTS
    Edges = {e1}
    Nodes = {n1}
    Procs = {p1, p2}
    Slots = {1, 2}
    Rows <- MCRows
    OpOf <- MCOpOf
    EdgeOf <- MCEdgeOf
    Ends <- MCEnds
    NoEdge = NoEdge
    NoRow = NoRow
    MaxVersion = 2
INVARIANTS
    TypeOK
    OneActiveRow
    Accounted
PROPERTIES
    Converges
