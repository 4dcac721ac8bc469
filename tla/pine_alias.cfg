CONSTANTS
    MaxSeries = 4
    Trim = 1
    MaxLoop = 3
    QtyOverride = 5
    Inputs <- MCAlias
    Bars <- MCBars
SPECIFICATION Spec
INVARIANTS
    HistoryAligned
CHECK_DEADLOCK FALSE
