SPECIFICATION Spec
CONSTANTS
    c1 = c1
    c2 = c2
    n1 = n1
    n2 = n2
    Container = {c1, c2}
    Name = {n1, n2}
    Request = {r1, r2}
    Exec = {e1}
    NoContainer = NoContainer
    NoName = NoName
    ExecArg = {n1, n2}
    MaxOps = 4
    LastPart <- MCLastPart
SYMMETRY MCSymmetry
INVARIANT ExecIsMeant
INVARIANT OnlyFailuresLeavePods
PROPERTY SerialRenameIsUnique
PROPERTY DeletedStaysDeleted
CHECK_DEADLOCK FALSE
