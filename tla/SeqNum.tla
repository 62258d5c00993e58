------------------------------- MODULE SeqNum -------------------------------
(***************************************************************************)
(* Sequence numbers and acknowledgement fields of N64-NetLib packets.      *)
(*                                                                         *)
(* The same arithmetic is written twice in the repository: in Java         *)
(* (AbstractPacket.java, used by the master server and by every game       *)
(* server) and in C++ (packets.cpp, used by the client application).  The  *)
(* two differ in the signedness of the 16-bit fields, which is why several *)
(* operators take the language of the program that evaluates them.         *)
(*                                                                         *)
(* Sequence numbers are kept in their unsigned form 0..PACKET_MAXSEQNUM; a *)
(* bit field is the set of the positions of its 1 bits.                    *)
(***************************************************************************)
EXTENDS Integers

CONSTANTS PACKET_MAXSEQNUM,   \* largest sequence number (0xFFFF)
          ACK_BITS,           \* width of the ack bit field (a 16-bit short)
          INT_BITS            \* width of the int the shifts are made in (32)

ASSUME SeqNumAssumption ==
    /\ PACKET_MAXSEQNUM \in Nat
    /\ PACKET_MAXSEQNUM % 2 = 1
    /\ ACK_BITS \in Nat \ {0}
    /\ INT_BITS \in Nat \ {0}
    /\ ACK_BITS <= INT_BITS

Languages == {"java", "cpp"}
SeqNums   == 0..PACKET_MAXSEQNUM
Half      == (PACKET_MAXSEQNUM \div 2) + 1
Bits      == 0..(ACK_BITS - 1)

-----------------------------------------------------------------------------
(* Arithmetic modulo the sequence number space *)

\* Mutant: the comparison without the rollover.
NoRollover(s1, s2) == s1 > s2

\* TRUE when s1 is later than s2, allowing for rollover.
SequenceGreaterThan(s1, s2) ==
    \/ s1 > s2 /\ s1 - s2 <= Half
    \/ s1 < s2 /\ s2 - s1 > Half

SequenceIncrement(seq) == (seq + 1) % (PACKET_MAXSEQNUM + 1)

SequenceDelta(s1, s2) ==
    IF s1 - s2 < 0 THEN s1 - s2 + PACKET_MAXSEQNUM + 1 ELSE s1 - s2

\* The value a Java short holds for the unsigned number u.
AsShort(u) == IF u < Half THEN u ELSE u - (PACKET_MAXSEQNUM + 1)

\* The Java handler compares sign-extended shorts, the C++ one uint16_t.
Later(lang, s1, s2) ==
    IF lang = "java" THEN SequenceGreaterThan(AsShort(s1), AsShort(s2))
                     ELSE SequenceGreaterThan(s1, s2)

-----------------------------------------------------------------------------
(* The ack bit field *)

\* The bit that 1 << k sets in an int: the count is taken modulo the width.
\* Java defines it so; in C++ a larger count is undefined, and the shift
\* instructions of the machines the client is built for do the same.
ShiftedBit(k) == k % INT_BITS

\* Mutant: the bit of the distance itself, and not of the distance less one.
ShiftedField(lang, remote, seqs) ==
    { ShiftedBit(SequenceDelta(remote, s)) :
        s \in { t \in seqs : Later(lang, remote, t) } } \intersect Bits

\* Mutant: the comparison the wrong way round.
SwappedField(lang, remote, seqs) ==
    { ShiftedBit(SequenceDelta(remote, s) - 1) :
        s \in { t \in seqs : Later(lang, t, remote) } } \intersect Bits

\* The field built when a packet is sent: a bit for each received packet that
\* is older than the newest one, truncated to the width of the field.
AckBitfield(lang, remote, seqs) ==
    { ShiftedBit(SequenceDelta(remote, s) - 1) :
        s \in { t \in seqs : Later(lang, remote, t) } } \intersect Bits

\* The field as an int: a Java short is sign-extended, a uint16_t is not.
Promoted(lang, bitfield) ==
    IF lang = "java" /\ ACK_BITS - 1 \in bitfield
    THEN bitfield \union (ACK_BITS..(INT_BITS - 1))
    ELSE bitfield

\* Mutant: the reader forgets that bit 0 stands for the number before ack.
IsAckedShifted(lang, ack, bitfield, number) ==
    \/ ack = number
    \/ ShiftedBit(SequenceDelta(ack, number)) \in Promoted(lang, bitfield)

\* Whether a received packet with these fields acknowledges a number.
IsAcked(lang, ack, bitfield, number) ==
    \/ ack = number
    \/ ShiftedBit(SequenceDelta(ack, number) - 1) \in Promoted(lang, bitfield)
=============================================================================
