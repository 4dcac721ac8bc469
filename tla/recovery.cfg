CONSTANTS
    Bots = {b1}
    Tasks = {t1, t2}
    Locks = {l1, l2}
    StartReqs = {}
    Stoppers = {billing, q1}
    Billing = billing
    Boot = boot
    None = None
    MaxRetries = 1
    MaxAttempts = 3
    MaxCrashes = 2
    AutoRestart = TRUE
SPECIFICATION Spec
INVARIANTS
    OneTaskPerBot
    RegisteredHasBridge
PROPERTIES
    NoFalseOrphan
SYMMETRY Symmetry
