-------------------------- MODULE AckCodec_proofs --------------------------
(***************************************************************************)
(* The arithmetic of sequence numbers and ack fields, for every width of   *)
(* the fields: the order of the numbers is the order around the circle,    *)
(* and within its width the ack field is exact.                            *)
(***************************************************************************)
EXTENDS AckCodec, TLAPS

\* A number smaller than the modulus is its own remainder.
LEMMA SmallMod ==
    ASSUME NEW n \in Nat \ {0}, NEW k \in 0..(n - 1) PROVE k % n = k
  OBVIOUS

\* The numbers on either side of the sign bit of a short.
LEMMA HalfFacts ==
    /\ Half \in Nat \ {0}
    /\ PACKET_MAXSEQNUM + 1 = 2 * Half
  BY SeqNumAssumption DEF Half

\* The distance is a number of the space, 0 only between equal numbers, and
\* tells the numbers before s1 apart.
LEMMA DeltaFacts ==
    ASSUME NEW s1 \in SeqNums
    PROVE  /\ \A s \in SeqNums : SequenceDelta(s1, s) \in SeqNums
           /\ \A s \in SeqNums : SequenceDelta(s1, s) = 0 <=> s = s1
           /\ \A s, t \in SeqNums : SequenceDelta(s1, s) = SequenceDelta(s1, t) => s = t
  BY SeqNumAssumption DEF SeqNums, SequenceDelta

\* Going back d numbers and measuring the distance gives d.
LEMMA BeforeDelta ==
    ASSUME NEW s \in SeqNums, NEW d \in SeqNums
    PROVE  Before(s, d) \in SeqNums /\ SequenceDelta(s, Before(s, d)) = d
  BY SeqNumAssumption DEF SeqNums, SequenceDelta, Before

\* In either language, a number is later than another exactly when it is less
\* than half way round ahead of it (sequence_greaterthan, SequenceGreaterThan).
LEMMA LaterIsDistance ==
    ASSUME NEW lang \in Languages, NEW s1 \in SeqNums, NEW s2 \in SeqNums,
           SequenceDelta(s1, s2) # Half
    PROVE  Later(lang, s1, s2) <=> SequenceDelta(s1, s2) \in 1..(Half - 1)
<1>1. /\ Half \in Nat \ {0}
      /\ PACKET_MAXSEQNUM = 2 * Half - 1
      /\ s1 \in 0..(2 * Half - 1)
      /\ s2 \in 0..(2 * Half - 1)
  BY HalfFacts, SeqNumAssumption DEF SeqNums
<1> HIDE DEF Half
<1>2. CASE lang = "java"
  BY <1>1, <1>2 DEF Later, SequenceGreaterThan, SequenceDelta, AsShort
<1>3. CASE lang = "cpp"
  BY <1>1, <1>3 DEF Later, SequenceGreaterThan, SequenceDelta
<1> QED
  BY <1>2, <1>3 DEF Languages

\* What a state of the module is: a received list that ends with ack and looks
\* back less than half way round.
Asked ==
    /\ builder \in Languages /\ reader \in Languages
    /\ ack \in SeqNums /\ number \in SeqNums
    /\ received \subseteq SeqNums /\ ack \in received
    /\ \A s \in received : SequenceDelta(ack, s) \in 0..(Half - 1)

\* Every state asks a question of that form.
LEMMA AlwaysAsked == Spec => []Asked
<1>1. Init => Asked
  <2> SUFFICES ASSUME Init PROVE Asked
    OBVIOUS
  <2>1. /\ builder \in Languages /\ reader \in Languages
        /\ ack \in SeqNums
    BY AckCodecAssumption DEF Init
  <2>2. PICK D \in SUBSET Distances :
            received = { Before(ack, d) : d \in D } \union {ack}
    BY DEF Init
  <2>3. \A d \in D : d \in SeqNums /\ d \in 1..(Half - 1)
    BY AckCodecAssumption, HalfFacts, SeqNumAssumption DEF SeqNums
  <2>4. SequenceDelta(ack, ack) = 0
    BY <2>1, DeltaFacts
  <2>5. number \in SeqNums
    BY <2>1, AckCodecAssumption, BeforeDelta DEF Init
  <2>6. \A s \in received : s \in SeqNums /\ SequenceDelta(ack, s) \in 0..(Half - 1)
    BY <2>1, <2>2, <2>3, <2>4, BeforeDelta, HalfFacts
  <2> QED
    BY <2>1, <2>2, <2>5, <2>6 DEF Asked
<1>2. Asked /\ [Ask]_vars => Asked'
  BY DEF Asked, Ask, vars
<1> QED
  BY <1>1, <1>2, PTL DEF Spec

\* The order the handlers use is the order around the circle.
THEOREM OrderCorrect == Spec => []OrderFollowsDistance
<1>1. Asked => OrderFollowsDistance
  BY LaterIsDistance DEF Asked, OrderFollowsDistance
<1> QED
  BY <1>1, AlwaysAsked, PTL

\* The bits of the field are the distances of the other received numbers.
LEMMA FieldBits ==
    ASSUME Asked, \A s \in received : SequenceDelta(ack, s) <= INT_BITS
    PROVE  AckBitfield(builder, ack, received)
             = { SequenceDelta(ack, s) - 1 : s \in received \ {ack} } \intersect Bits
<1>1. \A s \in received : SequenceDelta(ack, s) # Half
  BY HalfFacts DEF Asked
<1>2. \A s \in received : Later(builder, ack, s) <=> s # ack
  <2> SUFFICES ASSUME NEW s \in received PROVE Later(builder, ack, s) <=> s # ack
    OBVIOUS
  <2>1. Later(builder, ack, s) <=> SequenceDelta(ack, s) \in 1..(Half - 1)
    BY <1>1, LaterIsDistance DEF Asked
  <2>2. SequenceDelta(ack, s) = 0 <=> s = ack
    BY DeltaFacts DEF Asked
  <2>3. SequenceDelta(ack, s) \in 0..(Half - 1)
    BY DEF Asked
  <2> QED
    BY <2>1, <2>2, <2>3, HalfFacts
<1>3. { t \in received : Later(builder, ack, t) } = received \ {ack}
  BY <1>2 DEF Asked
<1>4. \A s \in received \ {ack} :
        ShiftedBit(SequenceDelta(ack, s) - 1) = SequenceDelta(ack, s) - 1
  <2> SUFFICES ASSUME NEW s \in received \ {ack}
               PROVE  ShiftedBit(SequenceDelta(ack, s) - 1) = SequenceDelta(ack, s) - 1
    OBVIOUS
  <2>1. SequenceDelta(ack, s) \in Nat /\ SequenceDelta(ack, s) # 0
    BY DeltaFacts, SeqNumAssumption DEF Asked, SeqNums
  <2>2. SequenceDelta(ack, s) - 1 \in 0..(INT_BITS - 1)
    BY <2>1, SeqNumAssumption
  <2> QED
    BY <2>2, SmallMod, SeqNumAssumption DEF ShiftedBit
<1>5. { ShiftedBit(SequenceDelta(ack, s) - 1) : s \in received \ {ack} }
        = { SequenceDelta(ack, s) - 1 : s \in received \ {ack} }
  BY <1>4
<1> QED
  BY <1>3, <1>5 DEF AckBitfield

\* Within the width of the field, a packet acknowledges exactly what its sender
\* received, whichever languages the two ends are written in.
THEOREM ExactCorrect == Spec => []ExactInWindow
<1>1. Asked => ExactInWindow
  <2> SUFFICES ASSUME Asked,
                      \A s \in received : SequenceDelta(ack, s) <= INT_BITS,
                      SequenceDelta(ack, number) <= ACK_BITS
               PROVE  Answer <=> number \in received
    BY DEF ExactInWindow
  <2> DEFINE field == AckBitfield(builder, ack, received)
             bit   == SequenceDelta(ack, number) - 1
  <2>1. CASE number = ack
    BY <2>1 DEF Answer, IsAcked, Asked
  <2>2. CASE number # ack
    <3>1. SequenceDelta(ack, number) \in Nat /\ SequenceDelta(ack, number) # 0
      BY <2>2, DeltaFacts, SeqNumAssumption DEF Asked, SeqNums
    <3>2. bit \in 0..(INT_BITS - 1) /\ bit \in Bits
      BY <3>1, SeqNumAssumption DEF Bits
    <3>3. ShiftedBit(bit) = bit
      BY <3>2, SmallMod, SeqNumAssumption DEF ShiftedBit
    <3>4. bit \in Promoted(reader, field) <=> bit \in field
      BY <3>2, SeqNumAssumption DEF Promoted, Bits
    <3>5. bit \in field <=> \E s \in received \ {ack} : SequenceDelta(ack, s) - 1 = bit
      BY <3>2, FieldBits
    <3>6. \A s \in received \ {ack} : SequenceDelta(ack, s) - 1 = bit => s = number
      <4> SUFFICES ASSUME NEW s \in received \ {ack}, SequenceDelta(ack, s) - 1 = bit
                   PROVE  s = number
        OBVIOUS
      <4>1. SequenceDelta(ack, s) \in Int /\ SequenceDelta(ack, number) \in Int
        BY DeltaFacts DEF Asked, SeqNums
      <4>2. SequenceDelta(ack, s) = SequenceDelta(ack, number)
        BY <4>1
      <4> QED
        BY <4>2, DeltaFacts DEF Asked
    <3> HIDE DEF field, bit
    <3>7. Answer <=> bit \in field
      BY <2>2, <3>3, <3>4 DEF Answer, IsAcked, field, bit
    <3>8. bit \in field <=> number \in received
      BY <2>2, <3>5, <3>6 DEF bit
    <3> QED
      BY <3>7, <3>8
  <2> QED
    BY <2>1, <2>2
<1> QED
  BY <1>1, AlwaysAsked, PTL
=============================================================================
