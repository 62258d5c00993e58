CONSTANTS
    c1 = c1
    c2 = c2
    NoOne = NoOne
    Clients <- Two
    NoPacket <- None
    CLOCKCOUNT = 2
    Environments <- Unordered

SPECIFICATION Spec
INVARIANT UpdatesAreInputs
CHECK_DEADLOCK FALSE
