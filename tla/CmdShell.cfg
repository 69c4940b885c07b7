CONSTANTS
    Commands = {"text", "error", "cd", "exit"}
    d1 = d1
    d2 = d2
    Dirs = {d1, d2}
    InitDir = d1
    WaitForPrompt = TRUE
    Capacity = 2
    MaxText = 2
    MaxSends = 4

SPECIFICATION FairSpec
CHECK_DEADLOCK FALSE

INVARIANTS
    SessionInv
    InStep
    ReplyBelongs
    CloseEndsShell

PROPERTIES
    ReadsEnd
