SPECIFICATION FairSpec
CONSTANTS
    c1 = c1
    c2 = c2
    a1 = a1
    a2 = a2
    Container = {c1}
    Request = {r1, reaper}
    Reaper = reaper
    Alias = {a1, a2}
    NoContainer = none
    ServiceAliases <- OwnName
    FileVolumes = {c1}
    Setup = {c1}
    Ports = {c1}
    Ops = {"start", "attach", "stop", "restart", "wait", "reap"}
    MaxOps = 2
    MaxFaults = 1
    Overlap = TRUE
    PromptDeletion = FALSE
PROPERTY HangsOnlyOnChannels
PROPERTY AgedIsReaped
CHECK_DEADLOCK FALSE
