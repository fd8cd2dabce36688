SPECIFICATION FairProxySpec
CONSTANTS
    e1 = e1
    e2 = e2
    p1 = p1
    f1 = f1
    MaxStarts = 2
    Exposed = {e1, e2}
    Local = {p1, p2}
    Ephemeral = {p2}
    HostPort <- MCHostPort
    Follower = {f1}
    Conn = {x1}
    Dialled = {e1}
    Channel <- MCChannel
    Handler = {h1}
    Sessions = FALSE
    Overlap = FALSE
    NoPort = NoPort
    Free = Free
    NoProxy = NoProxy
INVARIANT ProxyTypeOK
INVARIANT RunningIsServed
PROPERTY StopEndsAll
CHECK_DEADLOCK FALSE
