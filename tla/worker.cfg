CONSTANTS
    Bots = {b1}
    Runners = {r1, r2}
    Requests = {q1}
    None = None
    Modes = {"subprocess", "task"}
    MaxBots = 1
    MaxRetries = 1
    MaxFaults = 1
SPECIFICATION Spec
INVARIANTS LiveIsTracked StoppedMeansDead
PROPERTIES StopServed DeadRowResolved
CHECK_DEADLOCK FALSE
