CONSTANTS
    p1 = p1
    p2 = p2
    Positions <- MCPositions
    Dir <- MCDir
    CloseAll = closeAll
    None = None
SPECIFICATION Spec
INVARIANTS
    ReconciledIsGone
