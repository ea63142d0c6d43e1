\* A text that fills the buffers.
SPECIFICATION Spec
CONSTANTS
    c1 = c1
    c2 = c2
    Clients = {c1}
    NoClient = NoClient
    Texts <- TwoLetters
    Leaving = {}
    Whole = TRUE
    BufferSize = 3
    ClientBuffer = 3
    Residue <- Memory
    MaxRequests = 2
    MaxCapsules = 3
CHECK_DEADLOCK FALSE
INVARIANTS
    ReplyGotAtOnce
