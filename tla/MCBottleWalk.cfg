SPECIFICATION WalkSpec
CONSTANTS
    Drops = {1, 2, 3}
    alice = alice
    bob = bob
    tab = tab
    Recipients <- MCRecipients
    Active <- MCRecipients
    Views = {tab}
    PageSize = 1
    Capacity = 3
    Retention = 2
    TicksPerSecond = 2
    Window = 2
    MaxLatency = 1
    LastArrival = 0
    MaxClock = 2
    MaxFaults = 0
INVARIANTS WalkTypeOK WalkComplete NoBottleTwice
SYMMETRY MCSymmetry
CHECK_DEADLOCK FALSE
