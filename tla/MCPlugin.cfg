\* Three calls of createDevice, on the main thread and the XPC queue.
SPECIFICATION Spec
CONSTANT MaxDevices = 3
CHECK_DEADLOCK FALSE
INVARIANTS PublishedAlive NoLeftovers NoDangling GetFits CrashExplained
PROPERTY StaysPublished
