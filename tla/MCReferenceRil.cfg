SPECIFICATION Spec
CONSTANTS
    Reader = {1, 2}
    HANDSHAKE_RETRY_COUNT = 2
    SETUP_COMMANDS = 1
    PDP_COMMANDS = 1
    Bounds <- MCBounds
INVARIANTS
    TypeOK TablesFit Conforms OneCompletion SimPolled ClosedIsUnavailable OwnAnswers
PROPERTIES
    HandlersReturn Reopens
