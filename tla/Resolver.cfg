SPECIFICATION FairSpec
CONSTANTS
    Validators = {v1, v2}
    MaxParallel = 1
INVARIANTS
    IpsOfTheSet
    NobodyForgotten
PROPERTIES
    SetTakenUp
    AllResolved
\* The task ends when the process shuts down.
CHECK_DEADLOCK FALSE
