\* Two thread objects, one callback, a queue of two, a clock set back once.
SPECIFICATION Spec
CONSTANTS
    t1 = t1  t2 = t2  p1 = p1
    Threads <- TwoThreads
    Procs <- OneProc
    Capacity = 2
    Durations = {0, 1}
    Modulus = 2
    MaxFailures = 1
    MaxBack = 1
SYMMETRY Symmetry
CHECK_DEADLOCK FALSE
INVARIANTS StampsNearClock OneRenderer DiscontinuityFlagged CrashExplained
PROPERTIES FeedSpec CallbackSound
