\* Two outputs, any number of processes and logins.
SPECIFICATION Spec
CONSTANTS
    o1 = o1
    o2 = o2
    Outputs <- TwoOutputs
CHECK_DEADLOCK FALSE
INVARIANTS ServedWhileAlive PlistKept NotSilenced
PROPERTIES NeverUnloaded FirstDestroyCleans
