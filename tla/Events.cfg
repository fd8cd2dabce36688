SPECIFICATION FairSpec
CONSTANTS
    p1 = p1
    p2 = p2
    s1 = s1
    s2 = s2
    Publisher = {p1, p2}
    Subscriber = {s1, s2}
    NoSubscriber = none
    NoMsg = nomsg
    MaxEvents = 2
    MaxPair = 3
INVARIANT TypeOK
INVARIANT NoLostEvent
INVARIANT InOrder
PROPERTY PublishReturns
CHECK_DEADLOCK FALSE
