CONSTANTS
    s1 = s1
    s2 = s2
    a1 = a1
    p1 = p1
    d1 = d1
    d2 = d2
    c1 = c1
    Starts = {}
    Setups = {}
    Payments = {p1}
    Checkouts = {c1}
    Deliveries = {d1, d2}
    CheckoutOf <- MCCheckoutOf
    Tick = tick
    None = None
    Opening = 4
    DeploymentFee = 1
    SetupFee = 2
    UsageCost = 1
    Credit = 2
    MinBalanceToStart = 3
    LowBalanceThreshold = 1
    Floor <- MCFloor
SPECIFICATION Spec
CHECK_DEADLOCK FALSE
INVARIANTS
    CreditedOnce
