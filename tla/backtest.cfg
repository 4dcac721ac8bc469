CONSTANTS
    None = None
    InitialCapital = 10
    Commission = 1
    Slippage = 1
    Bars <- MCBars
    Ids = {a, b}
    Qtys = {1}
    ExitIds = {x}
    Levels = {3}
    MaxBars = 3
    MaxOrders = 2
SYMMETRY BacktestSymmetry
SPECIFICATION Spec
INVARIANTS
    BacktestTypeOK
    ExitsHonoured
    FillsWithinBar
    FillsOnTime
    NoStaleExit
    TotalsAgree
CHECK_DEADLOCK FALSE
