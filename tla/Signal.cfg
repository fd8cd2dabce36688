SPECIFICATION FairSpec
CONSTANTS
    Channel = {k1, k2}
    Handler = {h1}
    Sessions = TRUE
PROPERTY SerialIsSafe
PROPERTY SignalReturns
CHECK_DEADLOCK FALSE
