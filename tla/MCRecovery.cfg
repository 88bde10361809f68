SPECIFICATION Spec
CONSTANTS
    CmdLine <- MCNoCmdLine
    Commands <- MCCommands
    MaxCrashes = 2
    MaxFaults = 1
    TornWrites = TRUE
INVARIANTS
    TypeOK
    RestartsWork
    FinishedIsClear
    NoUnaskedWipe
    IntentReported
