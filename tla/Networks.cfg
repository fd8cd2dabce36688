SPECIFICATION Spec
CONSTANTS
    bridge = bridge
    custom = custom
    n1 = n1
    n2 = n2
    n3 = n3
    NetId = {n1, n2, n3}
    Name = {bridge, custom}
    Predefined = {bridge}
    PreId <- DefaultIds
    NoNet = nonet
    NoName = noname
    Container = {c1}
    NoContainer = none
    Request = {r1, r2}
INVARIANT TypeOK
INVARIANT PredefinedResolvable
INVARIANT IndexIsSound
PROPERTY NameResolves
PROPERTY NoDangling
