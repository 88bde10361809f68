SPECIFICATION Spec
CONSTANTS
    Client = {c1, c2}
    Request = {r1}
    Fd = {f1, f2}
    Vendor = {v1, v2}
    Loop = Loop
    Other = Other
    None = None
    MaxNitz = 1
SYMMETRY MCSymmetry
INVARIANTS
    TypeOK AssertionsHold NoneInherited AnsweredOnce
PROPERTY
    FramesWhole
CHECK_DEADLOCK FALSE
