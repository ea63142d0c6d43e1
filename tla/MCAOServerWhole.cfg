\* Whole messages, one client may leave: the server implements EchoService.
SPECIFICATION FairSpec
CONSTANTS
    c1 = c1
    c2 = c2
    Clients = {c1, c2}
    NoClient = NoClient
    Texts <- ShortTexts
    Leaving = {c2}
    Whole = TRUE
    BufferSize = 4
    ClientBuffer = 4
    Residue <- Memory
    MaxRequests = 2
    MaxCapsules = 2
CHECK_DEADLOCK FALSE
INVARIANTS
    ExclusiveCapsules
    IInv
PROPERTIES
    ImplementsEcho
    ImplementsFairEcho
