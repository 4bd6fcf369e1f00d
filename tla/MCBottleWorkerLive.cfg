SPECIFICATION FairSpec
CONSTANTS
    Drops = {1, 2}
    alice = alice
    revoked = revoked
    Recipients <- MCActive
    Active <- MCActive
    Capacity = 1
    Retention = 2
    TicksPerSecond = 1
    Window = 2
    MaxLatency = 1
    LastArrival = 3
    MaxClock = 5
    MaxFaults = 3
PROPERTIES DropSettles InboxDrains
CHECK_DEADLOCK FALSE
