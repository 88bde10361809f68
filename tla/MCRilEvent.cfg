SPECIFICATION FairSpec
CONSTANTS
    Vendor = {v1}
    Main = Main
    Loop = Loop
    Info = {i1, i2}
    CommandFd = {4}
    MaxFdEvents = 8
    MaxDelay = 1
    MaxCalls = 1
    MaxInputs = 2
    None = None
INVARIANTS
    TypeOK Covered ListsIntact CommandsFdCurrent
PROPERTIES
    ImplementsQueue CalledBack WakeReleased
CHECK_DEADLOCK FALSE
