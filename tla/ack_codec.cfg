CONSTANTS
    PACKET_MAXSEQNUM = 65535
    ACK_BITS = 16
    INT_BITS = 32
    Acks <- BoundaryAcks
    Distances <- NearOnes
    Offsets <- AsksBehind

SPECIFICATION Spec
INVARIANTS ExactInWindow OrderFollowsDistance
