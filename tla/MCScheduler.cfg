CONSTANTS
    h1 = h1
    Subjects = {1, 2}
    Handlers = {h1}
    Interval = 2
    Delays = {3}
    Ahead = 1
    MaxDeliveries = 2
    MaxIncidents = 1
SPECIFICATION Spec
INVARIANTS
    WakeNotLost
    PollBoundsDelay
PROPERTIES
    EventuallyCurrent
    LoopStops
