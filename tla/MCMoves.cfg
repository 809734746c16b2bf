SPECIFICATION Spec
CONSTANTS
    TrimSpace <- MCTrimSpace
    Subjects = {1, 2}
    Keys <- MCKeys
    Cfg <- MCCfg
    Deliveries <- MCDeliveries
    Reconcilers = {r1}
    Handlers = {h1, h2}
    RetryDelay <- MCRetryDelay
    MaxRetries = 0
    Horizon = 1
SYMMETRY MCSymmetry
INVARIANTS
    NoLeakedLock
    NoWaitCycle
PROPERTY
    KeepsPromise
