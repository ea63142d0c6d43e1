\* What Readme.md says of several clients.
SPECIFICATION Spec
CONSTANTS
    c1 = c1
    c2 = c2
    Clients = {c1, c2}
    NoClient = NoClient
    Texts <- OneLetter
    Leaving = {c1}
    Whole = TRUE
    BufferSize = 4
    ClientBuffer = 4
    Residue <- Memory
    MaxRequests = 2
    MaxCapsules = 4
CHECK_DEADLOCK FALSE
INVARIANTS
    ServerOutlivesClients
