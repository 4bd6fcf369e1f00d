SPECIFICATION Spec
CONSTANTS
    Drops = {1, 2}
    alice = alice
    revoked = revoked
    Recipients <- MCRecipients
    Active <- MCActive
    Capacity = 1
    Retention = 2
    TicksPerSecond = 2
    Window = 2
    MaxLatency = 1
    LastArrival = 1
    MaxClock = 4
    MaxFaults = 2
INVARIANT FailedDropNotListed
CHECK_DEADLOCK FALSE
