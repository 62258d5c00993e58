CONSTANTS
    PACKET_MAXSEQNUM = 7
    ACK_BITS = 2
    INT_BITS = 4
    Peers <- Ends
    Lang <- MixedLang
    Resenders <- ServerOnly
    SendFlags <- GameTraffic
    MAX_RESEND = 2
    RX_LIMIT = 1
    MaxMessages <- TwoDownOneUp
    MaxDeliveries = 3

SPECIFICATION FairSpec
INVARIANTS TypeOK ReceivedIsAdvertised
PROPERTIES ImplementsChannel EventuallySettled
CHECK_DEADLOCK FALSE
