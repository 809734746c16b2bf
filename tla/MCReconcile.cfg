SPECIFICATION Spec
CONSTANTS
    TrimSpace <- MCTrimSpace
    Subjects = {1}
    Keys <- MCKeys
    Cfg <- MCCfg
    Deliveries <- MCDeliveries
    Reconcilers = {r1, r2}
    Handlers = {h1}
    RetryDelay <- MCRetryDelay
    MaxRetries = 2
    Horizon = 3
SYMMETRY MCSymmetry
INVARIANTS
    TypeOK
    UpToDateConforms
    Serialized
    RemainingWorkIsThePlan
    RetryFollowsBackoff
    GaugesAgree
    Inductive
PROPERTY
    KeepsPromise
