\* A plugin with up to three references and three messages on their way, and
\* two hosts.
SPECIFICATION FairSpec
CONSTANTS MaxRefs = 3  MaxMessages = 3  MaxLoops = 2
CHECK_DEADLOCK FALSE
INVARIANTS RemovedOnce EndExplained
PROPERTY Forgotten
