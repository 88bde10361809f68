SPECIFICATION FairSpec
CONSTANTS
    N = 3
    InPlace = {1}
    MtdSource = {2}
    MtdTarget = {2}
    Checked = {1}
    Asked = 2
    Size <- MCLiveSize
    Clutter = {package, log, bloat}
    Kept = {package}
    CacheBlocks = 6
    MaxCrashes = 2
    MaxFaults = 2
PROPERTY
    Completes
