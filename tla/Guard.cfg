\* The test of testGuard.cpp with a third thread.
SPECIFICATION FairSpec
CONSTANTS
    N = 3
    Held = 5
    Apart = 2
    Nobody = Nobody
CHECK_DEADLOCK FALSE
INVARIANTS
    MutualExclusion
    IInv
PROPERTIES
    TestEnds
