SPECIFICATION Spec
CONSTANTS
    N = 1
    InPlace = {1}
    MtdSource = {1}
    MtdTarget = {1}
    Checked = {}
    Asked = 0
    Size <- MCOneSize
    Clutter = {package}
    Kept = {package}
    CacheBlocks = 6
    MaxCrashes = 1
    MaxFaults = 0
INVARIANT
    MtdRecoverable
