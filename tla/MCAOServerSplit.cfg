\* TCP splits and joins messages, buffers are smaller than some, the client may
\* leave.
SPECIFICATION FairSpec
CONSTANTS
    c1 = c1
    c2 = c2
    Clients = {c1}
    NoClient = NoClient
    Texts <- TwoLetters
    Leaving = {c1}
    Whole = FALSE
    BufferSize = 3
    ClientBuffer = 3
    Residue <- Memory
    MaxRequests = 2
    MaxCapsules = 5
CHECK_DEADLOCK FALSE
INVARIANTS
    LettersInOrder
    NobodyForgotten
    DiesOfDeparture
PROPERTIES
    EveryRecvReturns
