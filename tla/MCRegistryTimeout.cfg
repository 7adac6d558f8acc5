\* assistant.cpp:123 against the code: does the timer end the assistant only when nobody is connected?
SPECIFICATION Spec
CONSTANTS
    h1 = h1  a1 = a1  a2 = a2
    Hosts <- OneHost
    Apps <- TwoApps
    Timeout = 300
    MaxId = 3
    MaxIncarnation = 0
CHECK_DEADLOCK FALSE
PROPERTY TimeoutOnlyWhenIdle
