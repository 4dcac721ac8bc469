CONSTANTS
    MaxSeries = 4
    Trim = 1
    MaxLoop = 3
    QtyOverride = 5
    Inputs <- MCShared
    Bars <- MCBars
SPECIFICATION Spec
INVARIANTS
    IndicatorsRight
CHECK_DEADLOCK FALSE
