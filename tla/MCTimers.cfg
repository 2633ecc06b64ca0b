CONSTANTS
    Timers = {a, b, c}
    kMaxTimers = 2
SPECIFICATION Spec
CHECK_DEADLOCK FALSE
PROPERTIES
    KeepsPromise
    CancelReturns
    RefusedOnlyWhenFull
