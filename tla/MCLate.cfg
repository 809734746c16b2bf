SPECIFICATION LSpec
CONSTANTS
    TrimSpace <- MCTrimSpace
    Subjects = {1}
    Keys <- MCKeys
    Cfg <- MCCfg
    Deliveries <- MCDeliveries
    Reconcilers = {r1, r2}
    Handlers = {h1}
    RetryDelay <- MCRetryDelay
    MaxRetries = 1
    Horizon = 2
    MaxInFlight = 1
SYMMETRY MCSymmetry
INVARIANTS
    OnlyLateWritesHarm
