SPECIFICATION Spec
CONSTANTS
    N = 5
    InPlace <- MCInPlace
    MtdSource <- MCMtdSource
    MtdTarget <- MCMtdTarget
    Checked <- MCChecked
    Asked = 1
    Size <- MCSize
    Clutter = {package, log}
    Kept = {package}
    CacheBlocks = 5
    MaxCrashes = 2
    MaxFaults = 2
INVARIANTS
    TypeOK
    Recoverable
    SuccessIsReal
PROPERTY
    OnlyImproves
