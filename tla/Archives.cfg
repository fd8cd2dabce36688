SPECIFICATION Spec
CONSTANTS
    a1 = a1
    a2 = a2
    a3 = a3
    a4 = a4
    f1 = f1
    f2 = f2
    Archive = {a1, a2, a3, a4}
    File = {f1, f2}
    Content <- MCContent
    Torn = {a4}
    Base <- MCBase
    Copier = {p}
    Runner = {s}
    NoArchive = NoArchive
    MaxOps = 6
    MaxFaults = 3
INVARIANT AcceptedIsThere
INVARIANT OnlyFailuresRefuseStart
CHECK_DEADLOCK FALSE
