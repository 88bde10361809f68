SPECIFICATION Spec
CONSTANTS
    Scripts <- MCScripts
    IntOf <- MCIntOf
    Blocks = 4
    BlockSize = 2
    BadBlocks <- MCBadBlocks
    OldImage <- MCOldImage
    Image <- MCImage
    MaxFaults = 2
    MaxBadWrites = 2
    Jobs <- MCJobs
    Archive <- MCArchive
    OldDisk <- MCOldDisk
    Ram <- MCRam
    Props <- MCProps
    PropOf <- MCPropOf
    Comments <- MCComments
    Patches <- MCPatches
    Goal <- MCGoal
    Expected <- MCExpected
    PipeSize = 2
    MaxRestarts = 1
INVARIANTS
    TypeOK
    SuccessIsComplete
    Documented
    HeaderLast
PROPERTY
    Reinstalls
CHECK_DEADLOCK FALSE
