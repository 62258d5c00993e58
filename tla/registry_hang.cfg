CONSTANTS
    g1 = g1
    g2 = g2
    NoOne = NoOne
    Servers <- OneServer
    MAX_RESEND = 3
    TIME_KEEPSERVERS = 3
    Environments <- LossyRestart

SPECIFICATION FairSpec
PROPERTY WaitEnds
CHECK_DEADLOCK FALSE
