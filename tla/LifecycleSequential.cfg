SPECIFICATION Spec
CONSTANTS
    c1 = c1
    c2 = c2
    a1 = a1
    a2 = a2
    Container = {c1}
    Request = {r1, reaper}
    Reaper = reaper
    Alias = {a1, a2}
    NoContainer = none
    ServiceAliases <- TwoNames
    FileVolumes = {}
    Setup = {c1}
    Ports = {c1}
    Ops = {"start", "attach", "stop", "kill", "restart", "delete", "wait", "inspect", "reap"}
    MaxOps = 6
    MaxFaults = 0
    Overlap = FALSE
    PromptDeletion = TRUE
INVARIANT TypeOK
INVARIANT DeletedIsClean
INVARIANT RunningIsBacked
INVARIANT CompletedIsFinished
PROPERTY ImplementsService
CHECK_DEADLOCK FALSE
