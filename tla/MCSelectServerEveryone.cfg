\* What the send loop says of everyone.
SPECIFICATION FairSpec
CONSTANTS
    c1 = c1
    c2 = c2
    c3 = c3
    Clients = {c1, c2}
    NoClient = NoClient
    Texts <- TwoLetters
    Leaving = {}
    Whole = TRUE
    ClientBuffer = 5
    BufferSize = 4
    Listener = 3
    MaxFd = 5
    Window = 3
    MaxRequests = 2
CHECK_DEADLOCK FALSE
PROPERTIES
    SentToEveryone
