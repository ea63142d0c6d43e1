\* Safety, refinement and progress: two producers and two consumers contend.
SPECIFICATION FairSpec
CONSTANTS
    p1 = p1
    p2 = p2
    c1 = c1
    c2 = c2
    Producers = {p1, p2}
    Consumers = {c1, c2}
    NoThread = NoThread
    MaxCalls = 2
INVARIANTS
    NoLostWakeup
    PopFindsNode
    WalkStaysInList
    ProducerOrder
    IInv
PROPERTIES
    GuardedWrites
    ImplementsFifo
    ImplementsFairFifo
    EveryMemberTaken
