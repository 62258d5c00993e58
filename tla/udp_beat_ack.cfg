CONSTANTS
    PACKET_MAXSEQNUM = 7
    ACK_BITS = 2
    INT_BITS = 4
    Peers <- Ends
    Lang <- MixedLang
    Resenders <- ServerOnly
    SendFlags <- WithBeats
    MAX_RESEND = 2
    RX_LIMIT = 3
    MaxMessages <- TwoDown
    MaxDeliveries = 2

SPECIFICATION Spec
INVARIANT AckedMeansReceived
CHECK_DEADLOCK FALSE
