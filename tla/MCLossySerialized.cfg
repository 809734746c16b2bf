SPECIFICATION LossySpec
CONSTANTS
    TrimSpace <- MCTrimSpace
    Subjects = {1}
    Keys <- MCKeys
    Cfg <- MCCfg
    Deliveries <- MCDeliveries
    Reconcilers = {r1}
    Handlers = {h1}
    RetryDelay <- MCRetryDelay
    MaxRetries = 2
    Horizon = 3
INVARIANT
    Serialized
