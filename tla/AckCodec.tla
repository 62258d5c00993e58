------------------------------ MODULE AckCodec ------------------------------
(***************************************************************************)
(* The ack fields from the packet that is built (SendPacket) to the packet *)
(* that is read (IsAcked), at either end of a connection.  A state is one  *)
(* question: a handler whose newest received number is ack and whose RX    *)
(* list holds the numbers at the given distances before it sends a packet, *)
(* and its peer asks whether that packet acknowledges number.              *)
(***************************************************************************)
EXTENDS SeqNum

CONSTANTS Acks,        \* newest numbers to try
          Distances,   \* how far before it the other RX entries may be
          Offsets      \* how far before it the number asked about may be

ASSUME AckCodecAssumption ==
    /\ Acks \subseteq SeqNums
    /\ Distances \subseteq 1..(Half - 1)
    /\ Offsets \subseteq SeqNums

VARIABLES builder,    \* language of the handler that sends
          reader,     \* language of the handler that receives
          ack,        \* its newest received number
          received,   \* the numbers in its RX list
          number      \* the number asked about

vars == <<builder, reader, ack, received, number>>

\* The number d before s.
Before(s, d) == IF d <= s THEN s - d ELSE s - d + PACKET_MAXSEQNUM + 1

Init ==
    /\ builder \in Languages
    /\ reader \in Languages
    /\ ack \in Acks
    /\ \E D \in SUBSET Distances : received = { Before(ack, d) : d \in D } \union {ack}
    /\ number \in { Before(ack, d) : d \in Offsets }

\* Asking changes nothing: the fields are those of a packet on the wire.
Ask == UNCHANGED vars

Spec == Init /\ [][Ask]_vars

Answer == IsAcked(reader, ack, AckBitfield(builder, ack, received), number)

-----------------------------------------------------------------------------
(* Properties *)

\* Within the width of the field the answer is exact, across rollover and
\* between the two languages, as long as nothing in the RX list is further back
\* than the width of an int.  (Sign extension only adds bits above the field.)
ExactInWindow ==
    /\ \A s \in received : SequenceDelta(ack, s) <= INT_BITS
    /\ SequenceDelta(ack, number) <= ACK_BITS
    => (Answer <=> number \in received)

\* The order of the numbers follows their distance around the circle, except
\* exactly half way round, where the two languages disagree.
OrderFollowsDistance ==
    SequenceDelta(ack, number) # Half
      => (Later(builder, ack, number)
            <=> SequenceDelta(ack, number) \in 1..(Half - 1))
=============================================================================
