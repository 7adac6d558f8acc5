\* Two camera applications, the device created once, two frames, one crash.
SPECIFICATION Spec
CONSTANTS
    Apps <- TwoApps
    MaxCreates = 1
    MaxFrames = 2
    MaxCrashes = 1
CHECK_DEADLOCK FALSE
INVARIANT WaitsServed
PROPERTIES TrueMeansSeen BroadcastSpec
