\* Two camera applications, the device created once, one frame, no crash.
SPECIFICATION FairSpec
CONSTANTS
    Apps <- TwoApps
    MaxCreates = 1
    MaxFrames = 1
    MaxCrashes = 0
CHECK_DEADLOCK FALSE
PROPERTIES HostReturns StartReturns
