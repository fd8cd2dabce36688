SPECIFICATION Spec
CONSTANTS
    c1 = c1
    c2 = c2
    a1 = a1
    a2 = a2
    Container = {c1}
    Request = {r1, reaper}
    Reaper = reaper
    Alias = {a1, a2}
    NoContainer = none
    ServiceAliases <- OwnName
    FileVolumes = {}
    Setup = {}
    Ports = {c1}
    Ops = {"start", "stop"}
    MaxOps = 3
    MaxFaults = 0
    Overlap = FALSE
    PromptDeletion = FALSE
INVARIANT RunningIsBacked
CHECK_DEADLOCK FALSE
