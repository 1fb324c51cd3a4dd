SPECIFICATION LiveSpec
CONSTANTS
    Edges = {e1}
    Origins = {o1, o2}
    Levels = {3, 4}
    MaxEvidence = 2
    Builders = {b1, b2}
    Reviews = {r1}
INVARIANTS
    TypeOK
    SupersededByItsOrigin
    PrimaryIsBest
    ListedIsCitable
    LevelIsHighest
PROPERTIES
    HandsOff
    ConflictStands
    ClaimsCatchUp
\* Once it is calm and no edge is claimable, the builds have nothing to do.
CHECK_DEADLOCK FALSE
