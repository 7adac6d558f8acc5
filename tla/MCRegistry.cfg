\* One output plugin, two camera applications, the assistant crashes once.
SPECIFICATION FairSpec
CONSTANTS
    h1 = h1  a1 = a1  a2 = a2
    Hosts <- OneHost
    Apps <- TwoApps
    Timeout = 300
    MaxId = 3
    MaxIncarnation = 2
CHECK_DEADLOCK FALSE
INVARIANTS CallIsServed OneEntryPerPeer NoSharedPort RefusedOnlyAfterRace
PROPERTIES EraseOnlyByGrantee LostOnlyToStaleTwin OverwriteOnlyByOverlap TimeoutExplained CallReturns
