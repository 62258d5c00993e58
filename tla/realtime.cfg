CONSTANTS
    c1 = c1
    c2 = c2
    NoOne = NoOne
    Clients <- Two
    NoPacket <- None
    CLOCKCOUNT = 2
    Environments <- Sessions

SPECIFICATION FairSpec
INVARIANTS TypeOK CartHasOneUser LoadsAreAsked StatusCatchesUp HandshakeIsSent
           OneClockSync SlotsAreOwned UpdatesFindAPlayer RosterIsRight UpdatesAreInputs
CHECK_DEADLOCK FALSE
PROPERTIES WindowCloses EverybodyGetsIn
