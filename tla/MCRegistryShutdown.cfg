\* assistant.cpp:123 against the code: does the assistant end once every peer is gone?
SPECIFICATION FairSpec
CONSTANTS
    h1 = h1  a1 = a1  a2 = a2
    Hosts <- OneHost
    Apps = {a1}
    Timeout = 300
    MaxId = 2
    MaxIncarnation = 0
CHECK_DEADLOCK FALSE
PROPERTY IdleShutdown
