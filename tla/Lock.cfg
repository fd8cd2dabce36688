SPECIFICATION FairSpec
CONSTANTS
    i1 = i1
    i2 = i2
    Instance = {i1, i2}
    NoInstance = none
    PruneStart = TRUE
    Made = {"configmap", "pod"}
    LongLived = FALSE
INVARIANT TypeOK
INVARIANT OneLeaseholderServes
INVARIANT ExitLeavesOnlyMissed
PROPERTY LeftoversAreReaped
PROPERTY CandidateIsSettled
CHECK_DEADLOCK FALSE
