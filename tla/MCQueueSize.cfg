\* What queue.hpp says of Size().
SPECIFICATION Spec
CONSTANTS
    p1 = p1
    p2 = p2
    c1 = c1
    c2 = c2
    Producers = {p1}
    Consumers = {c1}
    NoThread = NoThread
    MaxCalls = 2
INVARIANTS
    SizeIsLength
