CONSTANTS
    MaxSeries = 4
    Trim = 1
    MaxLoop = 3
    QtyOverride = 5
    Inputs <- MCInputs
    Bars <- MCBars
SPECIFICATION Spec
INVARIANTS
    PineTypeOK
    LayoutBalanced
    RoundTrip
    HistoryAligned
    IndicatorsRight
PROPERTIES
    VarsBoundOnce
CHECK_DEADLOCK FALSE
