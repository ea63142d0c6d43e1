\* Texts exceed the server's buffer, one client may leave, descriptors run out
\* and are reused: the server implements ChatRoom.
SPECIFICATION FairSpec
CONSTANTS
    c1 = c1
    c2 = c2
    c3 = c3
    Clients = {c1, c2, c3}
    NoClient = NoClient
    Texts <- OneLetter
    Leaving = {c1}
    Whole = TRUE
    ClientBuffer = 5
    BufferSize = 1
    Listener = 3
    MaxFd = 5
    Window = 100
    MaxRequests = 1
CHECK_DEADLOCK FALSE
INVARIANTS
    ReactorConsistent
    HandlersDoNotBlock
    IInv
PROPERTIES
    ImplementsRoom
    ImplementsFairRoom
    AcceptedRecvReturns
