\* Two threads, three calls each, two arguments.
SPECIFICATION Spec
CONSTANTS
    Threads = {t1, t2}
    Values = {v1, v2}
    Addresses = {a1, a2, a3}
    NULL = NULL
    Free = Free
    MaxCalls = 3
CHECK_DEADLOCK FALSE
INVARIANTS
    IInv
    SameSingleton
    ValidUntilDestroyed
