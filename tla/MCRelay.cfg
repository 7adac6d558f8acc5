\* Two camera applications, the device created twice, one crash.
SPECIFICATION Spec
CONSTANTS
    Apps <- TwoApps
    MaxCreates = 2
    MaxFrames = 0
    MaxCrashes = 1
CHECK_DEADLOCK FALSE
INVARIANT NoMissedDevice
