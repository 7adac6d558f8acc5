\* One thread object, one callback, a queue of one; every call, frame and run makes progress.
SPECIFICATION FairSpec
CONSTANTS
    t1 = t1  t2 = t2  p1 = p1
    Threads <- OneThread
    Procs <- OneProc
    Capacity = 1
    Durations = {0, 1}
    Modulus = 2
    MaxFailures = 1
    MaxBack = 0
CHECK_DEADLOCK FALSE
PROPERTIES StopReturns FrameStored KeepsSending
