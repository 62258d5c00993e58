CONSTANTS
    PACKET_MAXSEQNUM = 11
    ACK_BITS = 3
    INT_BITS = 6
    Peers <- Ends
    Lang <- MixedLang
    Resenders <- ServerOnly
    SendFlags <- ExplicitOnly
    MAX_RESEND = 3
    RX_LIMIT = 4
    MaxMessages <- FourDown
    MaxDeliveries = 5

SPECIFICATION Spec
INVARIANT AckedMeansReceived
CHECK_DEADLOCK FALSE
