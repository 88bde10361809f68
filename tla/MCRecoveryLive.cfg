SPECIFICATION FairSpec
CONSTANTS
    CmdLine <- MCNoCmdLine
    Commands <- MCWork
    MaxCrashes = 2
    MaxFaults = 0
    TornWrites = FALSE
PROPERTIES
    RecoveryEnds
    WorkIsFinished
