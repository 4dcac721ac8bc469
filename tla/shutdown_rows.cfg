CONSTANTS
    Bots = {b1}
    Tasks = {t1, t2}
    Locks = {l1, l2}
    StartReqs = {s1}
    Stoppers = {q1}
    Billing = billing
    Boot = boot
    None = None
    MaxRetries = 0
    MaxAttempts = 1
    MaxCrashes = 1
    AutoRestart = FALSE
SPECIFICATION Spec
PROPERTIES ShutdownKeepsRows
