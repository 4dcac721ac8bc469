CONSTANTS
    p1 = p1
    p2 = p2
    Positions <- MCPositions
    Dir <- MCDir
    CloseAll = closeAll
    None = None
SPECIFICATION FairSpec
INVARIANTS
    DirectionRight
    ClosedIsGone
PROPERTIES
    KeepsBook
    GhostResolved
