SPECIFICATION Spec
CONSTANTS
    c1 = c1
    c2 = c2
    a1 = a1
    a2 = a2
    Container = {c1, c2}
    Request = {r1, r2, reaper}
    Reaper = reaper
    Alias = {a1, a2}
    NoContainer = none
    ServiceAliases <- TwoNames
    FileVolumes = {}
    Setup = {}
    Ports = {c1, c2}
    Ops = {"start", "attach", "stop", "delete", "inspect"}
    MaxOps = 3
    MaxFaults = 1
    Overlap = FALSE
    PromptDeletion = FALSE
INVARIANT CreatorOwnsServices
CHECK_DEADLOCK FALSE
