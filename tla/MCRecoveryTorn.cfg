SPECIFICATION Spec
CONSTANTS
    CmdLine <- MCNoCmdLine
    Commands <- MCFactoryReset
    MaxCrashes = 2
    MaxFaults = 0
    TornWrites = TRUE
INVARIANT
    EraseAlwaysRestarts
