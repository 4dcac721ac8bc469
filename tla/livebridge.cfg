CONSTANTS
    None = None
    MaxOpen = 2
    ConnectLimit = 2
    ShortLimit = 2
    WarmupLimit = 4
SPECIFICATION FairSpec
INVARIANTS
    OnePositionUnlessFault
PROPERTIES
    CloseSignalObeyed
    CycleEnds
