\* The test of testGuard.cpp: two threads, 5 and 2 seconds.
SPECIFICATION Spec
CONSTANTS
    N = 2
    Held = 5
    Apart = 2
    Nobody = Nobody
CHECK_DEADLOCK FALSE
INVARIANTS
    FailureMeansBadGuard
