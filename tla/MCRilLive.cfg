SPECIFICATION FairSpec
CONSTANTS
    Client = {c1, c2}
    Request = {r1}
    Fd = {f1}
    Vendor = {v1}
    Loop = Loop
    Other = Other
    None = None
    MaxNitz = 0
PROPERTIES
    ListensAgain CallsReturn
CHECK_DEADLOCK FALSE
