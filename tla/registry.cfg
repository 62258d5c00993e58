CONSTANTS
    g1 = g1
    g2 = g2
    NoOne = NoOne
    Servers <- TwoServers
    MAX_RESEND = 2
    TIME_KEEPSERVERS = 1
    Environments <- AlsoBrowsed
    Clicks <- OnceOrTwice

SPECIFICATION ListFairSpec
INVARIANTS TypeOK ConfirmedIsRead HeardIsListed ListedIsLive EverybodyIsShown
PROPERTIES ErasedOnlyIfSilent WaitEnds
CHECK_DEADLOCK FALSE
