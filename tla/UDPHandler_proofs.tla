------------------------- MODULE UDPHandler_proofs -------------------------
(***************************************************************************)
(* For every value of the constants: type correctness of the two connected *)
(* handlers; that every step of theirs is a step of MessageChannel; that   *)
(* what arrived is acknowledged; and when what is acknowledged arrived.    *)
(***************************************************************************)
EXTENDS UDPHandler, TLAPS

-----------------------------------------------------------------------------
(* Facts about the operators *)

\* The next sequence number is one (SequenceIncrement rolls over).
LEMMA IncrementType ==
    ASSUME NEW s \in SeqNums PROVE SequenceIncrement(s) \in SeqNums
  BY SeqNumAssumption DEF SeqNums, SequenceIncrement

\* The connection has exactly two ends, each the other's other end.
LEMMA OtherEnd ==
    ASSUME NEW p \in Peers
    PROVE  /\ Other(p) \in Peers
           /\ Other(p) # p
           /\ Other(Other(p)) = p
           /\ \A q \in Peers : q = p \/ q = Other(p)
<1>1. PICK a, b \in Peers : a # b /\ Peers = {a, b}
  BY UDPHandlerAssumption
<1>2. \E q \in Peers : q # p
  BY <1>1
<1>3. Other(p) \in Peers /\ Other(p) # p
  BY <1>2 DEF Other
<1>4. \E q \in Peers : q # Other(p)
  BY <1>3
<1>5. Other(Other(p)) \in Peers /\ Other(Other(p)) # Other(p)
  BY <1>4 DEF Other
<1> QED
  BY <1>1, <1>3, <1>5

\* The field that is built has only the bits of the field.
LEMMA StampedType ==
    ASSUME NEW p \in Peers, NEW msg \in Nat, NEW flags \in SUBSET Flags,
           NEW remote \in SeqNums, NEW rx, TypeOK
    PROVE  Stamped(p, msg, flags, remote, rx) \in Datagram
<1>1. AckBitfield(Lang[p], remote, SeqNumsOf(rx)) \in SUBSET Bits
  BY DEF AckBitfield
<1>2. localseqnum[p] \in SeqNums
  BY DEF TypeOK
<1> QED
  BY <1>1, <1>2 DEF Stamped, Datagram

\* Sending a datagram keeps the network well typed.
LEMMA NetGrows ==
    ASSUME NEW q \in Peers, NEW pkt \in Datagram, net \in [Peers -> SUBSET Datagram]
    PROVE  [net EXCEPT ![q] = @ \union {pkt}] \in [Peers -> SUBSET Datagram]
  OBVIOUS

\* Adding an entry to a sequence of bounded length, its first one making room.
LEMMA SlidingAppend ==
    ASSUME NEW S, NEW s \in Seq(S), NEW e \in S, NEW limit \in Nat,
           Len(s) <= limit + 1,
           NEW r, r = Append(IF Len(s) > limit THEN Tail(s) ELSE s, e)
    PROVE  /\ r \in Seq(S)
           /\ Len(r) \in 1..(limit + 1)
           /\ Len(s) > limit =>
                /\ Len(r) = Len(s)
                /\ \A i \in 1..(Len(s) - 1) : r[i] = s[i + 1]
           /\ Len(s) <= limit =>
                /\ Len(r) = Len(s) + 1
                /\ \A i \in 1..Len(s) : r[i] = s[i]
           /\ r[Len(r)] = e
<1>1. CASE Len(s) > limit
  <2>1. /\ Tail(s) \in Seq(S)
        /\ Len(Tail(s)) = Len(s) - 1
        /\ \A i \in 1..(Len(s) - 1) : Tail(s)[i] = s[i + 1]
    BY <1>1
  <2>2. /\ r \in Seq(S)
        /\ Len(r) = Len(s)
        /\ \A i \in 1..(Len(s) - 1) : r[i] = Tail(s)[i]
        /\ r[Len(s)] = e
    BY <1>1, <2>1
  <2>3. \A i \in 1..(Len(s) - 1) : r[i] = s[i + 1]
    BY <2>1, <2>2
  <2>4. Len(r) \in 1..(limit + 1)
    BY <1>1, <2>2
  <2>5. ~(Len(s) <= limit)
    BY <1>1
  <2> QED
    BY <2>2, <2>3, <2>4, <2>5
<1>2. CASE Len(s) <= limit
  BY <1>2
<1> QED
  BY <1>1, <1>2

-----------------------------------------------------------------------------
(* Type correctness *)

\* Whatever is received, the bookkeeping of a read has the types of the state.
LEMMA ReceiveTypes ==
    ASSUME TypeOK, NEW p \in Peers, NEW pkt \in net[p]
    PROVE  /\ pkt \in Datagram
           /\ NotAcked(p, pkt) \in SUBSET [pkt: Datagram, attempts: 1..(MAX_RESEND + 1)]
           /\ Newest(p, pkt.seqnum) \in SeqNums
           /\ Remember(acksleft_rx[p], pkt) \in Seq([msg: Nat, seqnum: SeqNums])
           /\ Len(Remember(acksleft_rx[p], pkt)) <= RX_LIMIT + 1
<1>1. pkt \in Datagram
  BY DEF TypeOK
<1>2. NotAcked(p, pkt) \in SUBSET [pkt: Datagram, attempts: 1..(MAX_RESEND + 1)]
  BY DEF TypeOK, NotAcked
<1>3. Newest(p, pkt.seqnum) \in SeqNums
  BY <1>1 DEF TypeOK, Newest, Datagram
<1>4. /\ acksleft_rx[p] \in Seq([msg: Nat, seqnum: SeqNums])
      /\ Len(acksleft_rx[p]) <= RX_LIMIT + 1
  BY DEF TypeOK
<1>5. [msg |-> pkt.msg, seqnum |-> pkt.seqnum] \in [msg: Nat, seqnum: SeqNums]
  BY <1>1 DEF Datagram
<1>6. /\ Remember(acksleft_rx[p], pkt) \in Seq([msg: Nat, seqnum: SeqNums])
      /\ Len(Remember(acksleft_rx[p], pkt)) \in 1..(RX_LIMIT + 1)
  BY <1>4, <1>5, SlidingAppend, UDPHandlerAssumption DEF Remember
<1>7. Len(Remember(acksleft_rx[p], pkt)) <= RX_LIMIT + 1
  BY <1>6, UDPHandlerAssumption
<1> QED
  BY <1>1, <1>2, <1>3, <1>6, <1>7

\* The types, the bound of the RX list and the bound of the attempts hold in
\* every reachable state (SendPacket and HandlePacketSequence preserve them).
THEOREM TypeCorrect == Spec => []TypeOK
<1>1. Init => TypeOK
  BY SeqNumAssumption, UDPHandlerAssumption DEF Init, TypeOK, SeqNums
<1>2. TypeOK /\ [Next]_vars => TypeOK'
  <2> SUFFICES ASSUME TypeOK, [Next]_vars PROVE TypeOK'
    OBVIOUS
  <2>1. ASSUME NEW p \in Peers, NEW flags \in SendFlags[p], SendReliable(p, flags)
        PROVE  TypeOK'
    <3> DEFINE pkt == Stamped(p, sent[p] + 1, flags, remoteseqnum[p], acksleft_rx[p])
    <3>1. pkt \in Datagram
      <4>1. sent[p] + 1 \in Nat /\ remoteseqnum[p] \in SeqNums
        BY DEF TypeOK
      <4>2. flags \in SUBSET Flags
        BY UDPHandlerAssumption DEF Flags
      <4> QED
        BY <4>1, <4>2, StampedType
    <3>2. [pkt |-> pkt, attempts |-> 1] \in [pkt: Datagram, attempts: 1..(MAX_RESEND + 1)]
      BY <3>1, UDPHandlerAssumption
    <3>3. SequenceIncrement(localseqnum[p]) \in SeqNums
      BY IncrementType DEF TypeOK
    <3>4. net' = [net EXCEPT ![Other(p)] = @ \union {pkt}]
      BY <2>1 DEF SendReliable
    <3>5. acksleft_tx' = [acksleft_tx EXCEPT ![p] = @ \union {[pkt |-> pkt, attempts |-> 1]}]
      BY <2>1 DEF SendReliable
    <3> HIDE DEF pkt
    <3>6. net' \in [Peers -> SUBSET Datagram]
      BY <3>1, <3>4 DEF TypeOK
    <3>7. acksleft_tx' \in [Peers -> SUBSET [pkt: Datagram, attempts: 1..(MAX_RESEND + 1)]]
      BY <3>2, <3>5 DEF TypeOK
    <3>8. localseqnum' \in [Peers -> SeqNums] /\ sent' \in [Peers -> Nat]
      BY <2>1, <3>3 DEF SendReliable, TypeOK
    <3>9. \A q \in Peers : \A t \in acksleft_tx'[q] : t.attempts > MAX_RESEND => timedout'[q]
      BY <2>1, <3>5, UDPHandlerAssumption DEF SendReliable, TypeOK
    <3> QED
      BY <2>1, <3>6, <3>7, <3>8, <3>9 DEF SendReliable, TypeOK
  <2>2. ASSUME NEW p \in Peers, NEW flags \in SendFlags[p], SendUnreliable(p, flags)
        PROVE  TypeOK'
    <3>1. Stamped(p, 0, flags, remoteseqnum[p], acksleft_rx[p]) \in Datagram
      BY StampedType, UDPHandlerAssumption DEF Flags, TypeOK
    <3> QED
      BY <2>2, <3>1 DEF SendUnreliable, TypeOK, handlers
  <2>3. ASSUME NEW p \in Peers, ReceiveDuplicate(p) PROVE TypeOK'
    <3>1. AckBeat(p, remoteseqnum[p], acksleft_rx[p]) \in Datagram
      BY StampedType DEF AckBeat, Flags, TypeOK
    <3>2. \/ net' = [net EXCEPT ![Other(p)] = @ \union {AckBeat(p, remoteseqnum[p], acksleft_rx[p])}]
          \/ net' = net
      BY <2>3 DEF ReceiveDuplicate
    <3>3. net' \in [Peers -> SUBSET Datagram]
      <4>1. net \in [Peers -> SUBSET Datagram]
        BY DEF TypeOK
      <4>2. [net EXCEPT ![Other(p)] = @ \union {AckBeat(p, remoteseqnum[p], acksleft_rx[p])}] \in [Peers -> SUBSET Datagram]
        BY <3>1, <4>1, NetGrows, OtherEnd
      <4> QED
        BY <3>2, <4>1, <4>2
    <3> QED
      BY <2>3, <3>3 DEF ReceiveDuplicate, TypeOK, handlers
  <2>4. ASSUME NEW p \in Peers, ReceiveNew(p) PROVE TypeOK'
    <3>1. PICK pkt \in net[p] : ReceiveNew(p)!2!(pkt)
      BY <2>4 DEF ReceiveNew
    <3> DEFINE remote == Newest(p, pkt.seqnum)
               rx     == IF IsReliable(pkt) THEN Remember(acksleft_rx[p], pkt)
                                            ELSE acksleft_rx[p]
    <3>2. /\ acksleft_tx' = [acksleft_tx EXCEPT ![p] = NotAcked(p, pkt)]
          /\ remoteseqnum' = [remoteseqnum EXCEPT ![p] = remote]
          /\ acksleft_rx' = [acksleft_rx EXCEPT ![p] = rx]
          /\ \/ net' = [net EXCEPT ![Other(p)] = @ \union {AckBeat(p, remote, rx)}]
             \/ net' = net
          /\ \/ delivered' = [delivered EXCEPT ![p] = Append(@, pkt.msg)]
             \/ delivered' = delivered
      BY <3>1
    <3>3. pkt \in Datagram /\ remote \in SeqNums
      BY ReceiveTypes
    <3>4. rx \in Seq([msg: Nat, seqnum: SeqNums]) /\ Len(rx) <= RX_LIMIT + 1
      BY ReceiveTypes DEF TypeOK
    <3>5. AckBeat(p, remote, rx) \in Datagram
      BY <3>3, StampedType DEF AckBeat, Flags
    <3>6. NotAcked(p, pkt) \in SUBSET [pkt: Datagram, attempts: 1..(MAX_RESEND + 1)]
      BY ReceiveTypes
    <3> HIDE DEF remote, rx
    <3>7. net' \in [Peers -> SUBSET Datagram]
      <4>1. net \in [Peers -> SUBSET Datagram]
        BY DEF TypeOK
      <4>2. [net EXCEPT ![Other(p)] = @ \union {AckBeat(p, remote, rx)}] \in [Peers -> SUBSET Datagram]
        BY <3>5, <4>1, NetGrows, OtherEnd
      <4> QED
        BY <3>2, <4>1, <4>2
    <3>8. delivered' \in [Peers -> Seq(Nat)]
      <4>1. pkt.msg \in Nat /\ delivered[p] \in Seq(Nat)
        BY <3>3 DEF Datagram, TypeOK
      <4>2. Append(delivered[p], pkt.msg) \in Seq(Nat)
        BY <4>1
      <4> QED
        BY <3>2, <4>2 DEF TypeOK
    <3>9. /\ acksleft_rx' \in [Peers -> Seq([msg: Nat, seqnum: SeqNums])]
          /\ \A q \in Peers : Len(acksleft_rx'[q]) <= RX_LIMIT + 1
      BY <3>2, <3>4 DEF TypeOK
    <3>10. /\ acksleft_tx' \in [Peers -> SUBSET [pkt: Datagram, attempts: 1..(MAX_RESEND + 1)]]
           /\ remoteseqnum' \in [Peers -> SeqNums]
      BY <3>2, <3>3, <3>6 DEF TypeOK
    <3>11. \A q \in Peers : \A t \in acksleft_tx'[q] : t.attempts > MAX_RESEND => timedout'[q]
      <4>1. \A t \in NotAcked(p, pkt) : t \in acksleft_tx[p]
        BY DEF NotAcked
      <4>2. timedout' = timedout
        BY <2>4 DEF ReceiveNew
      <4> QED
        BY <3>2, <4>1, <4>2 DEF TypeOK
    <3> QED
      BY <2>4, <3>7, <3>8, <3>9, <3>10, <3>11 DEF ReceiveNew, TypeOK
  <2>5. ASSUME NEW p \in Peers, ResendMissingPackets(p) PROVE TypeOK'
    <3>1. PICK due \in SUBSET acksleft_tx[p] : ResendMissingPackets(p)!3!(due)
      BY <2>5 DEF ResendMissingPackets
    <3> DEFINE reached == { t \in due : \A e \in Exhausted(due) : t.pkt.msg <= e.pkt.msg }
               again   == { [t EXCEPT !.attempts = @ + 1] : t \in reached }
    <3>2. /\ acksleft_tx' = [acksleft_tx EXCEPT ![p] = (@ \ reached) \union again]
          /\ net' = [net EXCEPT ![Other(p)] = @ \union { t.pkt : t \in reached \ Exhausted(due) }]
          /\ timedout' = [timedout EXCEPT ![p] = Exhausted(due) # {}]
      BY <3>1
    <3>3. \A t \in due : t \in [pkt: Datagram, attempts: 1..MAX_RESEND]
      BY <2>5, UDPHandlerAssumption, SMTT(20) DEF TypeOK, ResendMissingPackets
    <3>4. \A t \in reached : t \in due
      OBVIOUS
    <3>5. again \in SUBSET [pkt: Datagram, attempts: 1..(MAX_RESEND + 1)]
      BY <3>3, <3>4, UDPHandlerAssumption
    <3>6. { t.pkt : t \in reached \ Exhausted(due) } \in SUBSET Datagram
      BY <3>3, <3>4
    <3>7. \A t \in acksleft_tx[p] : t.attempts <= MAX_RESEND
      BY <2>5, UDPHandlerAssumption, SMTT(20) DEF TypeOK, ResendMissingPackets
    <3>8. \A t \in again : t.attempts > MAX_RESEND => Exhausted(due) # {}
      <4>1. ASSUME NEW t \in reached, t.attempts + 1 > MAX_RESEND
            PROVE  Exhausted(due) # {}
        <5>1. t \in due /\ t.attempts >= MAX_RESEND
          BY <3>3, <3>4, <4>1, UDPHandlerAssumption
        <5> QED
          BY <5>1 DEF Exhausted
      <4>2. \A t \in reached : [t EXCEPT !.attempts = @ + 1].attempts = t.attempts + 1
        BY <3>3, <3>4
      <4> QED
        BY <4>1, <4>2
    <3> HIDE DEF reached, again
    <3>9. /\ acksleft_tx' \in [Peers -> SUBSET [pkt: Datagram, attempts: 1..(MAX_RESEND + 1)]]
          /\ net' \in [Peers -> SUBSET Datagram]
          /\ timedout' \in [Peers -> BOOLEAN]
      BY <3>2, <3>5, <3>6, OtherEnd DEF TypeOK
    <3>10. \A q \in Peers : \A t \in acksleft_tx'[q] :
              t.attempts > MAX_RESEND => timedout'[q]
      <4> SUFFICES ASSUME NEW q \in Peers, NEW t \in acksleft_tx'[q],
                          t.attempts > MAX_RESEND
                   PROVE  timedout'[q]
        OBVIOUS
      <4>1. CASE q = p
        <5>1. acksleft_tx'[p] = (acksleft_tx[p] \ reached) \union again
          BY <3>2 DEF TypeOK
        <5>2. t \in again
          BY <3>7, <4>1, <5>1, UDPHandlerAssumption DEF TypeOK
        <5> QED
          BY <3>2, <3>8, <4>1, <5>2 DEF TypeOK
      <4>2. CASE q # p
        BY <3>2, <4>2 DEF TypeOK
      <4> QED
        BY <4>1, <4>2
    <3> QED
      BY <2>5, <3>9, <3>10 DEF ResendMissingPackets, TypeOK
  <2>6. CASE UNCHANGED vars
    BY <2>6 DEF vars, handlers, TypeOK
  <2> QED
    BY <2>1, <2>2, <2>3, <2>4, <2>5, <2>6 DEF Next
<1> QED
  BY <1>1, <1>2, PTL DEF Spec

-----------------------------------------------------------------------------
(* The inductive invariant behind the refinement *)

\* Reliable datagrams on their way to p were submitted by the other end, and
\* two of the same message carry the same sequence number.
NetInv ==
    \A p \in Peers : \A d \in net[p] : IsReliable(d) =>
        /\ d.msg \in 1..sent[Other(p)]
        /\ \A e \in net[p] : IsReliable(e) /\ e.msg = d.msg => e.seqnum = d.seqnum

\* A packet awaiting its ack is a reliable one that was sent.
TxInv ==
    \A p \in Peers : \A t \in acksleft_tx[p] :
        t.pkt \in net[Other(p)] /\ IsReliable(t.pkt)

\* The RX list is the end of the delivery history: all of it while there is
\* room, and otherwise its last RX_LIMIT + 1 messages.
RxInv ==
    \A p \in Peers :
        /\ Len(acksleft_rx[p]) <= Len(delivered[p])
        /\ Len(acksleft_rx[p]) <= RX_LIMIT => Len(acksleft_rx[p]) = Len(delivered[p])
        /\ \A i \in 1..Len(acksleft_rx[p]) :
              acksleft_rx[p][i].msg
                = delivered[p][Len(delivered[p]) - Len(acksleft_rx[p]) + i]

\* Each entry of the RX list comes from a datagram of the network.
RxFromNet ==
    \A p \in Peers : \A i \in 1..Len(acksleft_rx[p]) :
        \E d \in net[p] :
            /\ IsReliable(d)
            /\ d.msg = acksleft_rx[p][i].msg
            /\ d.seqnum = acksleft_rx[p][i].seqnum

HistoryInv == NetInv /\ TxInv /\ RxInv /\ RxFromNet

IInv == TypeOK /\ HistoryInv

\* What a step does to the network when it sends no new message: at most
\* unreliable datagrams are added.
SendsNoMessage ==
    \A q \in Peers :
        /\ net[q] \subseteq net'[q]
        /\ \A d \in net'[q] : IsReliable(d) => d \in net[q]

\* Adding one unreliable datagram sends no new message.
LEMMA UnreliableDatagram ==
    ASSUME NEW q \in Peers, NEW pkt, ~IsReliable(pkt), TypeOK,
           net' = [net EXCEPT ![q] = @ \union {pkt}] \/ net' = net
    PROVE  SendsNoMessage
<1>1. net \in [Peers -> SUBSET Datagram]
  BY DEF TypeOK
<1>2. ASSUME NEW p \in Peers
      PROVE  /\ net[p] \subseteq net'[p]
             /\ \A d \in net'[p] : IsReliable(d) => d \in net[p]
  <2>1. net'[p] = net[p] \/ net'[p] = net[p] \union {pkt}
    BY <1>1
  <2> QED
    BY <2>1
<1> QED
  BY <1>2 DEF SendsNoMessage

\* Then what is known of the network and of the packets awaiting acks remains.
LEMMA NoMessageKeepsNet ==
    ASSUME NetInv, SendsNoMessage, sent' = sent PROVE NetInv'
  BY OtherEnd DEF NetInv, SendsNoMessage

\* A handler that forgets packets awaiting acks keeps the rest.
LEMMA NoMessageKeepsTx ==
    ASSUME TxInv, SendsNoMessage, \A q \in Peers : acksleft_tx'[q] \subseteq acksleft_tx[q]
    PROVE  TxInv'
<1> SUFFICES ASSUME NEW q \in Peers, NEW t \in acksleft_tx'[q]
             PROVE  t.pkt \in net'[Other(q)] /\ IsReliable(t.pkt)
  BY DEF TxInv
<1>1. t.pkt \in net[Other(q)] /\ IsReliable(t.pkt)
  BY DEF TxInv
<1> QED
  BY <1>1, OtherEnd DEF SendsNoMessage

\* The RX lists are untouched and the network only grows.
LEMMA NoReceiptKeepsRx ==
    ASSUME RxInv, RxFromNet, acksleft_rx' = acksleft_rx, delivered' = delivered,
           \A q \in Peers : net[q] \subseteq net'[q]
    PROVE  RxInv' /\ RxFromNet'
<1>1. RxInv'
  BY DEF RxInv
<1>2. RxFromNet'
  <2> SUFFICES ASSUME NEW p \in Peers, NEW i \in 1..Len(acksleft_rx[p])
               PROVE  \E d \in net'[p] :
                        /\ IsReliable(d)
                        /\ d.msg = acksleft_rx[p][i].msg
                        /\ d.seqnum = acksleft_rx[p][i].seqnum
    BY DEF RxFromNet
  <2>1. PICK d \in net[p] :
            /\ IsReliable(d)
            /\ d.msg = acksleft_rx[p][i].msg
            /\ d.seqnum = acksleft_rx[p][i].seqnum
    BY DEF RxFromNet
  <2>2. d \in net'[p]
    OBVIOUS
  <2> QED
    BY <2>1, <2>2
<1> QED
  BY <1>1, <1>2

\* Submitting a message: its datagram is the first with its number.
LEMMA SendReliableKeeps ==
    ASSUME TypeOK, HistoryInv, NEW p \in Peers, NEW flags, SendReliable(p, flags)
    PROVE  HistoryInv'
<1> DEFINE pkt == Stamped(p, sent[p] + 1, flags, remoteseqnum[p], acksleft_rx[p])
<1>1. pkt.msg = sent[p] + 1 /\ IsReliable(pkt)
  BY DEF Stamped, IsReliable, SendReliable
<1>2. /\ net' = [net EXCEPT ![Other(p)] = @ \union {pkt}]
      /\ acksleft_tx' = [acksleft_tx EXCEPT ![p] = @ \union {[pkt |-> pkt, attempts |-> 1]}]
      /\ sent' = [sent EXCEPT ![p] = @ + 1]
      /\ acksleft_rx' = acksleft_rx /\ delivered' = delivered
  BY DEF SendReliable
<1> HIDE DEF pkt
<1>3. /\ net'[Other(p)] = net[Other(p)] \union {pkt}
      /\ net'[p] = net[p]
      /\ sent'[p] = sent[p] + 1
      /\ sent'[Other(p)] = sent[Other(p)]
      /\ sent[p] \in Nat
  BY <1>2, OtherEnd DEF TypeOK
<1>4. \A q \in Peers : net[q] \subseteq net'[q]
  BY <1>3, OtherEnd
<1>5. NetInv'
  <2>1. ASSUME NEW d \in net'[p], IsReliable(d)
        PROVE  /\ d.msg \in 1..sent'[Other(p)]
               /\ \A e \in net'[p] : IsReliable(e) /\ e.msg = d.msg => e.seqnum = d.seqnum
    BY <1>3, <2>1 DEF HistoryInv, NetInv
  <2>2. ASSUME NEW d \in net[Other(p)], IsReliable(d)
        PROVE  /\ d.msg \in 1..sent[p]
               /\ \A e \in net[Other(p)] : IsReliable(e) /\ e.msg = d.msg => e.seqnum = d.seqnum
    BY <2>2, OtherEnd DEF HistoryInv, NetInv
  <2>3. \A d \in net[Other(p)] : IsReliable(d) => d.msg # pkt.msg
    BY <1>1, <1>3, <2>2
  <2>4. ASSUME NEW d \in net'[Other(p)], IsReliable(d)
        PROVE  /\ d.msg \in 1..sent'[p]
               /\ \A e \in net'[Other(p)] : IsReliable(e) /\ e.msg = d.msg => e.seqnum = d.seqnum
    <3>1. CASE d = pkt
      BY <1>1, <1>3, <2>3, <3>1
    <3>2. CASE d \in net[Other(p)]
      <4>1. d.msg \in 1..sent'[p]
        BY <1>3, <2>2, <2>4, <3>2
      <4> QED
        BY <1>3, <2>2, <2>3, <2>4, <3>2, <4>1
    <3> QED
      BY <1>3, <3>1, <3>2
  <2> QED
    BY <2>1, <2>4, OtherEnd DEF NetInv
<1>6. TxInv'
  <2> SUFFICES ASSUME NEW q \in Peers, NEW t \in acksleft_tx'[q]
               PROVE  t.pkt \in net'[Other(q)] /\ IsReliable(t.pkt)
    BY DEF TxInv
  <2>1. CASE t \in acksleft_tx[q]
    BY <1>4, <2>1, OtherEnd DEF HistoryInv, TxInv
  <2>2. CASE t \notin acksleft_tx[q]
    <3>1. q = p /\ t.pkt = pkt
      BY <1>2, <2>2 DEF TypeOK
    <3> QED
      BY <1>1, <1>3, <3>1
  <2> QED
    BY <2>1, <2>2
<1>7. RxInv' /\ RxFromNet'
  BY <1>2, <1>4, NoReceiptKeepsRx DEF HistoryInv
<1> QED
  BY <1>5, <1>6, <1>7 DEF HistoryInv

\* Steps that send an unreliable datagram, or none, and read nothing.
LEMMA IdleKeeps ==
    ASSUME TypeOK, HistoryInv, SendsNoMessage,
           acksleft_tx' = acksleft_tx, acksleft_rx' = acksleft_rx,
           sent' = sent, delivered' = delivered
    PROVE  HistoryInv'
  BY NoMessageKeepsNet, NoMessageKeepsTx, NoReceiptKeepsRx DEF HistoryInv, SendsNoMessage

\* Sending a heartbeat.
LEMMA SendUnreliableKeeps ==
    ASSUME TypeOK, HistoryInv, NEW p \in Peers, NEW flags, SendUnreliable(p, flags)
    PROVE  HistoryInv'
<1> DEFINE pkt == Stamped(p, 0, flags, remoteseqnum[p], acksleft_rx[p])
<1>1. ~IsReliable(pkt)
  BY DEF SendUnreliable, Stamped, IsReliable
<1>2. net' = [net EXCEPT ![Other(p)] = @ \union {pkt}]
  BY DEF SendUnreliable
<1> HIDE DEF pkt
<1>3. SendsNoMessage
  BY <1>1, <1>2, UnreliableDatagram, OtherEnd
<1> QED
  BY <1>3, IdleKeeps DEF SendUnreliable, handlers

\* Ignoring a packet whose number is in the RX list.
LEMMA ReceiveDuplicateKeeps ==
    ASSUME TypeOK, HistoryInv, NEW p \in Peers, ReceiveDuplicate(p)
    PROVE  HistoryInv'
<1> DEFINE beat == AckBeat(p, remoteseqnum[p], acksleft_rx[p])
<1>1. ~IsReliable(beat)
  BY DEF AckBeat, Stamped, IsReliable
<1>2. net' = [net EXCEPT ![Other(p)] = @ \union {beat}] \/ net' = net
  BY DEF ReceiveDuplicate
<1> HIDE DEF beat
<1>3. SendsNoMessage
  BY <1>1, <1>2, UnreliableDatagram, OtherEnd
<1> QED
  BY <1>3, IdleKeeps DEF ReceiveDuplicate, handlers

\* Reading a packet that is not in the RX list.
LEMMA ReceiveNewKeeps ==
    ASSUME TypeOK, HistoryInv, NEW p \in Peers, ReceiveNew(p)
    PROVE  HistoryInv'
<1>1. PICK pkt \in net[p] : ReceiveNew(p)!2!(pkt)
  BY DEF ReceiveNew
<1> DEFINE remote == Newest(p, pkt.seqnum)
           rx     == IF IsReliable(pkt) THEN Remember(acksleft_rx[p], pkt)
                                        ELSE acksleft_rx[p]
<1>2. /\ acksleft_tx' = [acksleft_tx EXCEPT ![p] = NotAcked(p, pkt)]
      /\ acksleft_rx' = [acksleft_rx EXCEPT ![p] = rx]
      /\ \/ net' = [net EXCEPT ![Other(p)] = @ \union {AckBeat(p, remote, rx)}]
         \/ net' = net
      /\ delivered' = IF IsReliable(pkt)
                      THEN [delivered EXCEPT ![p] = Append(@, pkt.msg)] ELSE delivered
      /\ sent' = sent
  BY <1>1 DEF ReceiveNew
<1>3. ~IsReliable(AckBeat(p, remote, rx))
  BY DEF AckBeat, Stamped, IsReliable
<1> HIDE DEF remote
<1>4. SendsNoMessage
  BY <1>2, <1>3, UnreliableDatagram, OtherEnd
<1>5. NetInv' /\ TxInv'
  <2>1. NotAcked(p, pkt) \subseteq acksleft_tx[p]
    BY DEF NotAcked
  <2>2. \A q \in Peers : acksleft_tx'[q] \subseteq acksleft_tx[q]
    BY <1>2, <2>1 DEF TypeOK
  <2> QED
    BY <1>2, <1>4, <2>2, NoMessageKeepsNet, NoMessageKeepsTx DEF HistoryInv
<1>6. CASE ~IsReliable(pkt)
  <2>1. acksleft_rx' = acksleft_rx /\ delivered' = delivered
    BY <1>2, <1>6 DEF TypeOK
  <2> QED
    BY <1>4, <1>5, <2>1, NoReceiptKeepsRx DEF HistoryInv, SendsNoMessage
<1>7. CASE IsReliable(pkt)
  <2> DEFINE old == acksleft_rx[p]
             new == acksleft_rx'[p]
             n   == Len(delivered[p])
             e   == [msg |-> pkt.msg, seqnum |-> pkt.seqnum]
  <2>1. /\ new = Append(IF Len(old) > RX_LIMIT THEN Tail(old) ELSE old, e)
        /\ delivered'[p] = Append(delivered[p], pkt.msg)
        /\ \A q \in Peers : q # p => acksleft_rx'[q] = acksleft_rx[q] /\ delivered'[q] = delivered[q]
    BY <1>2, <1>7 DEF TypeOK, Remember
  <2>2. /\ old \in Seq([msg: Nat, seqnum: SeqNums])
        /\ Len(old) <= RX_LIMIT + 1
        /\ e \in [msg: Nat, seqnum: SeqNums]
        /\ RX_LIMIT \in Nat
        /\ n \in Nat
        /\ Len(old) \in Nat
        /\ pkt.msg \in Nat
        /\ delivered[p] \in Seq(Nat)
    BY ReceiveTypes, UDPHandlerAssumption, SMTT(20) DEF TypeOK, Datagram
  <2>3. /\ Len(new) \in 1..(RX_LIMIT + 1)
        /\ Len(old) > RX_LIMIT =>
              /\ Len(new) = Len(old)
              /\ \A i \in 1..(Len(old) - 1) : new[i] = old[i + 1]
        /\ Len(old) <= RX_LIMIT =>
              /\ Len(new) = Len(old) + 1
              /\ \A i \in 1..Len(old) : new[i] = old[i]
        /\ new[Len(new)] = e
    BY <2>1, <2>2, SlidingAppend
  <2>4. /\ Len(delivered'[p]) = n + 1
        /\ \A i \in 1..n : delivered'[p][i] = delivered[p][i]
        /\ delivered'[p][n + 1] = pkt.msg
    BY <2>1, <2>2
  <2>5. /\ Len(old) <= n
        /\ Len(old) <= RX_LIMIT => Len(old) = n
        /\ \A i \in 1..Len(old) : old[i].msg = delivered[p][n - Len(old) + i]
    BY DEF HistoryInv, RxInv
  <2> HIDE DEF old, new, n, e
  <2>6. /\ Len(new) <= n + 1
        /\ Len(new) <= RX_LIMIT => Len(new) = n + 1
    BY <2>2, <2>3, <2>5
  <2>7. \A i \in 1..Len(new) : \/ i = Len(new) /\ new[i] = e
                               \/ /\ i < Len(new)
                                  /\ \E j \in 1..Len(old) :
                                        /\ new[i] = old[j]
                                        /\ n - Len(old) + j = n + 1 - Len(new) + i
    <3> SUFFICES ASSUME NEW i \in 1..Len(new), i # Len(new)
                 PROVE  /\ i < Len(new)
                        /\ \E j \in 1..Len(old) :
                              /\ new[i] = old[j]
                              /\ n - Len(old) + j = n + 1 - Len(new) + i
      BY <2>3
    <3>0. Len(new) \in Nat /\ i \in Nat /\ i >= 1 /\ i < Len(new)
      BY <2>2, <2>3
    <3>1. CASE Len(old) > RX_LIMIT
      <4>1. /\ i \in 1..(Len(old) - 1)
            /\ i + 1 \in 1..Len(old)
            /\ n - Len(old) + (i + 1) = n + 1 - Len(new) + i
        <5>1. Len(new) = Len(old)
          BY <2>3, <3>1
        <5>2. n \in Nat /\ Len(old) \in Nat
          BY <2>2
        <5> QED
          BY <3>0, <5>1, <5>2
      <4> QED
        BY <2>3, <3>0, <3>1, <4>1
    <3>2. CASE Len(old) <= RX_LIMIT
      <4>1. /\ i \in 1..Len(old)
            /\ n - Len(old) + i = n + 1 - Len(new) + i
        <5>1. Len(new) = Len(old) + 1
          BY <2>3, <3>2
        <5>2. n \in Nat /\ Len(old) \in Nat
          BY <2>2
        <5> QED
          BY <3>0, <5>1, <5>2
      <4> QED
        BY <2>3, <3>0, <3>2, <4>1
    <3> QED
      BY <2>2, <3>1, <3>2
  <2>8. \A i \in 1..Len(new) : new[i].msg = delivered'[p][n + 1 - Len(new) + i]
    <3> SUFFICES ASSUME NEW i \in 1..Len(new)
                 PROVE  new[i].msg = delivered'[p][n + 1 - Len(new) + i]
      OBVIOUS
    <3>1. CASE i = Len(new) /\ new[i] = e
      <4>1. n + 1 - Len(new) + i = n + 1
        BY <2>2, <2>3, <3>1
      <4> QED
        BY <2>4, <3>1, <4>1 DEF e
    <3>2. CASE \E j \in 1..Len(old) : /\ new[i] = old[j]
                                      /\ n - Len(old) + j = n + 1 - Len(new) + i
      <4>1. PICK j \in 1..Len(old) : /\ new[i] = old[j]
                                     /\ n - Len(old) + j = n + 1 - Len(new) + i
        BY <3>2
      <4>2. n - Len(old) + j \in 1..n
        BY <2>2, <2>5
      <4> QED
        BY <2>4, <2>5, <4>1, <4>2
    <3> QED
      BY <2>7, <3>1, <3>2
  <2>9. RxInv'
    <3>1. ASSUME NEW q \in Peers, q # p
          PROVE  /\ Len(acksleft_rx'[q]) <= Len(delivered'[q])
                 /\ Len(acksleft_rx'[q]) <= RX_LIMIT => Len(acksleft_rx'[q]) = Len(delivered'[q])
                 /\ \A i \in 1..Len(acksleft_rx'[q]) :
                       acksleft_rx'[q][i].msg
                         = delivered'[q][Len(delivered'[q]) - Len(acksleft_rx'[q]) + i]
      BY <2>1, <3>1 DEF HistoryInv, RxInv
    <3>2. /\ Len(acksleft_rx'[p]) <= Len(delivered'[p])
          /\ Len(acksleft_rx'[p]) <= RX_LIMIT => Len(acksleft_rx'[p]) = Len(delivered'[p])
          /\ \A i \in 1..Len(acksleft_rx'[p]) :
                acksleft_rx'[p][i].msg
                  = delivered'[p][Len(delivered'[p]) - Len(acksleft_rx'[p]) + i]
      <4>1. \A i \in 1..Len(new) :
               new[i].msg = delivered'[p][Len(delivered'[p]) - Len(new) + i]
        <5> SUFFICES ASSUME NEW i \in 1..Len(new)
                     PROVE  new[i].msg = delivered'[p][Len(delivered'[p]) - Len(new) + i]
          OBVIOUS
        <5>1. Len(delivered'[p]) - Len(new) + i = n + 1 - Len(new) + i
          <6>1. Len(delivered'[p]) = n + 1
            BY <2>4
          <6>2. n \in Int /\ Len(new) \in Int
            BY <2>2, <2>3
          <6> QED
            BY <6>1, <6>2
        <5>2. new[i].msg = delivered'[p][n + 1 - Len(new) + i]
          BY <2>8
        <5> QED
          BY <5>1, <5>2
      <4>2. /\ Len(new) <= Len(delivered'[p])
            /\ Len(new) <= RX_LIMIT => Len(new) = Len(delivered'[p])
        BY <2>4, <2>6
      <4> QED
        BY <4>1, <4>2 DEF new
    <3> QED
      BY <3>1, <3>2 DEF RxInv
  <2>10. RxFromNet'
    <3> SUFFICES ASSUME NEW q \in Peers, NEW i \in 1..Len(acksleft_rx'[q])
                 PROVE  \E d \in net'[q] :
                          /\ IsReliable(d)
                          /\ d.msg = acksleft_rx'[q][i].msg
                          /\ d.seqnum = acksleft_rx'[q][i].seqnum
      BY DEF RxFromNet
    <3>1. \A d \in net[q] : d \in net'[q]
      BY <1>4 DEF SendsNoMessage
    <3>2. \A j \in 1..Len(acksleft_rx[q]) : \E d \in net[q] :
             /\ IsReliable(d)
             /\ d.msg = acksleft_rx[q][j].msg
             /\ d.seqnum = acksleft_rx[q][j].seqnum
      BY DEF HistoryInv, RxFromNet
    <3>3. CASE q # p
      BY <2>1, <3>1, <3>2, <3>3
    <3>4. CASE q = p
      <4>1. CASE new[i] = e
        BY <1>7, <3>1, <3>4, <4>1 DEF new, e
      <4>2. CASE \E j \in 1..Len(old) : new[i] = old[j]
        BY <3>1, <3>2, <3>4, <4>2 DEF new, old
      <4> QED
        BY <2>7, <3>4, <4>1, <4>2 DEF new
    <3> QED
      BY <3>3, <3>4
  <2> QED
    BY <1>5, <2>9, <2>10 DEF HistoryInv
<1> QED
  BY <1>6, <1>7

\* Resending changes only the attempts of packets already on the network.
LEMMA ResendKeeps ==
    ASSUME TypeOK, HistoryInv, NEW p \in Peers, ResendMissingPackets(p)
    PROVE  /\ HistoryInv'
           /\ \A q \in Peers : Pending(q)' = Pending(q)
<1>1. PICK due \in SUBSET acksleft_tx[p] : ResendMissingPackets(p)!3!(due)
  BY DEF ResendMissingPackets
<1> DEFINE reached == { t \in due : \A e \in Exhausted(due) : t.pkt.msg <= e.pkt.msg }
           again   == { [t EXCEPT !.attempts = @ + 1] : t \in reached }
           resent  == { t.pkt : t \in reached \ Exhausted(due) }
<1>2. /\ acksleft_tx' = [acksleft_tx EXCEPT ![p] = (@ \ reached) \union again]
      /\ net' = [net EXCEPT ![Other(p)] = @ \union resent]
      /\ sent' = sent /\ acksleft_rx' = acksleft_rx /\ delivered' = delivered
  BY <1>1 DEF ResendMissingPackets
<1>3. reached \subseteq acksleft_tx[p]
  OBVIOUS
<1>4. \A t \in acksleft_tx[p] : /\ t \in [pkt: Datagram, attempts: 1..(MAX_RESEND + 1)]
                               /\ t.pkt \in net[Other(p)]
                               /\ IsReliable(t.pkt)
  BY DEF TypeOK, HistoryInv, TxInv
<1>5. resent \subseteq net[Other(p)]
  BY <1>3, <1>4
<1>6. \A u \in again : \E t \in acksleft_tx[p] : t \in reached /\ u.pkt = t.pkt
  BY <1>3, <1>4
<1>7. \A t \in reached : \E u \in again : u.pkt = t.pkt
  <2> SUFFICES ASSUME NEW t \in reached PROVE \E u \in again : u.pkt = t.pkt
    OBVIOUS
  <2>1. t \in [pkt: Datagram, attempts: 1..(MAX_RESEND + 1)]
    BY <1>3, <1>4
  <2>2. [t EXCEPT !.attempts = @ + 1].pkt = t.pkt
    BY <2>1
  <2>3. [t EXCEPT !.attempts = @ + 1] \in again
    OBVIOUS
  <2> QED
    BY <2>2, <2>3
<1> HIDE DEF reached, again, resent
<1>8. net' = net
  BY <1>2, <1>5, OtherEnd DEF TypeOK
<1>9. acksleft_tx'[p] = (acksleft_tx[p] \ reached) \union again
  BY <1>2 DEF TypeOK
<1>10. \A q \in Peers : q # p => acksleft_tx'[q] = acksleft_tx[q]
  BY <1>2 DEF TypeOK
<1>11. NetInv' /\ RxInv' /\ RxFromNet'
  <2>1. SendsNoMessage
    BY <1>8 DEF SendsNoMessage
  <2> QED
    BY <1>2, <2>1, NoMessageKeepsNet, NoReceiptKeepsRx DEF HistoryInv, SendsNoMessage
<1>12. TxInv'
  <2> SUFFICES ASSUME NEW q \in Peers, NEW u \in acksleft_tx'[q]
               PROVE  u.pkt \in net'[Other(q)] /\ IsReliable(u.pkt)
    BY DEF TxInv
  <2>1. CASE q = p
    BY <1>4, <1>6, <1>8, <1>9, <2>1
  <2>2. CASE q # p
    BY <1>8, <1>10, <2>2 DEF HistoryInv, TxInv
  <2> QED
    BY <2>1, <2>2
<1>13. ASSUME NEW q \in Peers PROVE Pending(q)' = Pending(q)
  <2>1. CASE q = p
    <3>1. \A u \in acksleft_tx'[p] : \E t \in acksleft_tx[p] : u.pkt = t.pkt
      BY <1>6, <1>9
    <3>2. \A t \in acksleft_tx[p] : \E u \in acksleft_tx'[p] : u.pkt = t.pkt
      BY <1>7, <1>9
    <3>3. { u.pkt.msg : u \in acksleft_tx'[p] } = { t.pkt.msg : t \in acksleft_tx[p] }
      BY <3>1, <3>2
    <3> QED
      BY <2>1, <3>3 DEF Pending
  <2>2. CASE q # p
    BY <1>10, <2>2 DEF Pending
  <2> QED
    BY <2>1, <2>2
<1> QED
  BY <1>11, <1>12, <1>13 DEF HistoryInv

\* The histories and the lists agree in every reachable state.
THEOREM HistoryCorrect == Spec => []HistoryInv
<1>1. Init => HistoryInv
  BY UDPHandlerAssumption DEF Init, HistoryInv, NetInv, TxInv, RxInv, RxFromNet
<1>2. TypeOK /\ HistoryInv /\ [Next]_vars => HistoryInv'
  <2> SUFFICES ASSUME TypeOK, HistoryInv, [Next]_vars PROVE HistoryInv'
    OBVIOUS
  <2>1. ASSUME NEW p \in Peers, NEW flags \in SendFlags[p], SendReliable(p, flags)
        PROVE  HistoryInv'
    BY <2>1, SendReliableKeeps
  <2>2. ASSUME NEW p \in Peers, NEW flags \in SendFlags[p], SendUnreliable(p, flags)
        PROVE  HistoryInv'
    BY <2>2, SendUnreliableKeeps
  <2>3. ASSUME NEW p \in Peers, ReceiveDuplicate(p) PROVE HistoryInv'
    BY <2>3, ReceiveDuplicateKeeps
  <2>4. ASSUME NEW p \in Peers, ReceiveNew(p) PROVE HistoryInv'
    BY <2>4, ReceiveNewKeeps
  <2>5. ASSUME NEW p \in Peers, ResendMissingPackets(p) PROVE HistoryInv'
    BY <2>5, ResendKeeps
  <2>6. CASE UNCHANGED vars
    BY <2>6 DEF vars, handlers, HistoryInv, NetInv, TxInv, RxInv, RxFromNet
  <2> QED
    BY <2>1, <2>2, <2>3, <2>4, <2>5, <2>6 DEF Next
<1> QED
  BY <1>1, <1>2, TypeCorrect, PTL DEF Spec

-----------------------------------------------------------------------------
(* The refinement: every step of the handlers is a step of the channel *)

\* A list of the last k of n entries, all of them while k is at most limit,
\* holds the entry j if that is among the last limit + 1.
LEMMA SlidingIndex ==
    ASSUME NEW n \in Nat, NEW k \in Nat, NEW limit \in Nat, NEW j \in 1..n,
           k <= n, k <= limit => k = n, k <= limit + 1, j > n - (limit + 1)
    PROVE  j - n + k \in 1..k /\ n - k + (j - n + k) = j
<1>1. CASE k <= limit
  BY <1>1
<1>2. CASE k = limit + 1
  BY <1>2
<1> QED
  BY <1>1, <1>2

\* A reliable packet whose number is not in the RX list carries a message that
\* the other end submitted and that is not among the last RX_LIMIT + 1 handed
\* to p's program (the duplicate test of HandlePacketSequence).
LEMMA FreshMessage ==
    ASSUME TypeOK, HistoryInv, NEW p \in Peers, NEW pkt \in net[p],
           IsReliable(pkt), ~IsDuplicate(p, pkt)
    PROVE  /\ pkt.msg \in 1..sent[Other(p)]
           /\ pkt.msg \notin Channel!Recent(p)
<1>1. pkt.msg \in 1..sent[Other(p)]
  BY DEF HistoryInv, NetInv
<1>2. ASSUME NEW j \in DOMAIN delivered[p],
             j > Len(delivered[p]) - (RX_LIMIT + 1),
             delivered[p][j] = pkt.msg
      PROVE  FALSE
  <2> DEFINE i == j - Len(delivered[p]) + Len(acksleft_rx[p])
  <2>1. /\ Len(delivered[p]) \in Nat
        /\ Len(acksleft_rx[p]) \in Nat
        /\ RX_LIMIT \in Nat
        /\ j \in 1..Len(delivered[p])
    BY UDPHandlerAssumption DEF TypeOK
  <2>2. /\ Len(acksleft_rx[p]) <= Len(delivered[p])
        /\ Len(acksleft_rx[p]) <= RX_LIMIT => Len(acksleft_rx[p]) = Len(delivered[p])
        /\ Len(acksleft_rx[p]) <= RX_LIMIT + 1
    BY DEF HistoryInv, RxInv, TypeOK
  <2>3. i \in 1..Len(acksleft_rx[p]) /\ Len(delivered[p]) - Len(acksleft_rx[p]) + i = j
    <3> DEFINE long == Len(delivered[p])
               short == Len(acksleft_rx[p])
    <3>1. long \in Nat /\ short \in Nat /\ j \in 1..long
      BY <2>1
    <3>2. short <= long /\ (short <= RX_LIMIT => short = long) /\ short <= RX_LIMIT + 1
      BY <2>2
    <3>3. j > long - (RX_LIMIT + 1)
      BY <1>2
    <3> HIDE DEF long, short
    <3>4. j - long + short \in 1..short /\ long - short + (j - long + short) = j
      BY <2>1, <3>1, <3>2, <3>3, SlidingIndex
    <3> QED
      BY <3>4 DEF long, short
  <2> HIDE DEF i
  <2>4. acksleft_rx[p][i].msg = pkt.msg
    BY <1>2, <2>3 DEF HistoryInv, RxInv
  <2>5. PICK d \in net[p] : /\ IsReliable(d)
                            /\ d.msg = acksleft_rx[p][i].msg
                            /\ d.seqnum = acksleft_rx[p][i].seqnum
    BY <2>3 DEF HistoryInv, RxFromNet
  <2>6. d.seqnum = pkt.seqnum
    BY <2>4, <2>5 DEF HistoryInv, NetInv
  <2>7. i \in DOMAIN acksleft_rx[p]
    BY <2>3 DEF TypeOK
  <2>8. pkt.seqnum \in SeqNumsOf(acksleft_rx[p])
    BY <2>5, <2>6, <2>7 DEF SeqNumsOf
  <2> QED
    BY <2>8 DEF IsDuplicate
<1> QED
  BY <1>1, <1>2 DEF Channel!Recent

\* Shrinking the TX list of one handler settles messages of that handler.
LEMMA SettleStep ==
    ASSUME NEW p \in Peers, Pending(p)' \subseteq Pending(p),
           \A q \in Peers : q # p => Pending(q)' = Pending(q)
    PROVE  Channel!Settle(p)
<1> DEFINE old == [q \in Peers |-> Pending(q)]
           new == [q \in Peers |-> Pending(q)']
           rest == Pending(p)'
<1>1. rest \in SUBSET old[p]
  OBVIOUS
<1>2. new = [old EXCEPT ![p] = rest]
  OBVIOUS
<1> QED
  BY <1>1, <1>2 DEF Channel!Settle

\* A step that leaves the TX lists alone leaves the pending messages alone.
LEMMA SamePending ==
    ASSUME acksleft_tx' = acksleft_tx
    PROVE  [q \in Peers |-> Pending(q)]' = [q \in Peers |-> Pending(q)]
  BY DEF Pending

\* Sending a packet that wants no ack submits a message.
LEMMA SendReliableSubmits ==
    ASSUME TypeOK, NEW p \in Peers, NEW flags, SendReliable(p, flags)
    PROVE  Channel!Submit(p)
<1> DEFINE pkt == Stamped(p, sent[p] + 1, flags, remoteseqnum[p], acksleft_rx[p])
<1>1. pkt.msg = sent[p] + 1
  BY DEF Stamped
<1>2. acksleft_tx' = [acksleft_tx EXCEPT ![p] = @ \union {[pkt |-> pkt, attempts |-> 1]}]
  BY DEF SendReliable
<1> HIDE DEF pkt
<1>3. acksleft_tx'[p] = acksleft_tx[p] \union {[pkt |-> pkt, attempts |-> 1]}
  BY <1>2 DEF TypeOK
<1>4. Pending(p)' = Pending(p) \union {sent[p] + 1}
  <2> DEFINE e == [pkt |-> pkt, attempts |-> 1]
  <2>1. e.pkt.msg = sent[p] + 1
    BY <1>1
  <2> HIDE DEF e
  <2>2. { t.pkt.msg : t \in acksleft_tx'[p] }
          = { t.pkt.msg : t \in acksleft_tx[p] } \union {sent[p] + 1}
    BY <1>3, <2>1 DEF e
  <2> QED
    BY <2>2 DEF Pending
<1>5. \A q \in Peers : q # p => Pending(q)' = Pending(q)
  BY <1>2 DEF Pending, TypeOK
<1>6. [q \in Peers |-> Pending(q)]'
        = [[q \in Peers |-> Pending(q)] EXCEPT ![p] = @ \union {sent[p] + 1}]
  BY <1>4, <1>5
<1> QED
  BY <1>6 DEF SendReliable, Channel!Submit

\* Reading a packet that is not a duplicate delivers its message, if it has
\* one, and settles what its ack fields acknowledge.
LEMMA ReceiveNewDelivers ==
    ASSUME TypeOK, HistoryInv, NEW p \in Peers, ReceiveNew(p)
    PROVE  Channel!Deliver(p, Other(p)) \/ Channel!Acknowledge(p)
<1>1. PICK pkt \in net[p] : ReceiveNew(p)!2!(pkt)
  BY DEF ReceiveNew
<1>2. /\ ~IsDuplicate(p, pkt)
      /\ acksleft_tx' = [acksleft_tx EXCEPT ![p] = NotAcked(p, pkt)]
      /\ delivered' = IF IsReliable(pkt)
                      THEN [delivered EXCEPT ![p] = Append(@, pkt.msg)] ELSE delivered
      /\ ~timedout[p] /\ timedout' = timedout /\ sent' = sent
  BY <1>1 DEF ReceiveNew
<1>3. Channel!Settle(p)
  <2>1. acksleft_tx'[p] \subseteq acksleft_tx[p]
    BY <1>2 DEF NotAcked, TypeOK
  <2>2. Pending(p)' \subseteq Pending(p)
    BY <2>1 DEF Pending
  <2>3. \A q \in Peers : q # p => Pending(q)' = Pending(q)
    BY <1>2 DEF Pending, TypeOK
  <2> QED
    BY <2>2, <2>3, SettleStep
<1>4. CASE IsReliable(pkt)
  BY <1>2, <1>3, <1>4, FreshMessage DEF Channel!Deliver
<1>5. CASE ~IsReliable(pkt)
  BY <1>2, <1>3, <1>5 DEF Channel!Acknowledge
<1> QED
  BY <1>4, <1>5

\* Resending is invisible, unless the handler gives up.
LEMMA ResendGivesUp ==
    ASSUME TypeOK, HistoryInv, NEW p \in Peers, ResendMissingPackets(p)
    PROVE  Channel!GiveUp(p) \/ UNCHANGED Channel!vars
<1>1. PICK due \in SUBSET acksleft_tx[p] : ResendMissingPackets(p)!3!(due)
  BY DEF ResendMissingPackets
<1>2. /\ timedout' = [timedout EXCEPT ![p] = Exhausted(due) # {}]
      /\ sent' = sent /\ delivered' = delivered /\ ~timedout[p]
  BY <1>1 DEF ResendMissingPackets
<1>3. [q \in Peers |-> Pending(q)]' = [q \in Peers |-> Pending(q)]
  BY ResendKeeps
<1>4. CASE Exhausted(due) = {}
  <2>1. timedout' = timedout
    BY <1>2, <1>4 DEF TypeOK
  <2> QED
    BY <1>2, <1>3, <2>1 DEF Channel!vars
<1>5. CASE Exhausted(due) # {}
  <2>1. Pending(p) # {}
    BY <1>1, <1>5 DEF Pending, Exhausted
  <2> QED
    BY <1>2, <1>3, <1>5, <2>1 DEF Channel!GiveUp
<1> QED
  BY <1>4, <1>5

\* The two handlers implement the channel: whatever the network does, messages
\* come from the other end, and a redelivery is at least RX_LIMIT + 1 messages
\* after the one before it.
THEOREM Implements == Spec => ImplementsChannel
<1>1. Init => Channel!Init
  BY DEF Init, Channel!Init, Pending
<1>2. TypeOK /\ HistoryInv /\ [Next]_vars => [Channel!Next]_(Channel!vars)
  <2> SUFFICES ASSUME TypeOK, HistoryInv, [Next]_vars
               PROVE  Channel!Next \/ UNCHANGED Channel!vars
    OBVIOUS
  <2>1. ASSUME NEW p \in Peers, NEW flags \in SendFlags[p], SendReliable(p, flags)
        PROVE  Channel!Next
    BY <2>1, SendReliableSubmits DEF Channel!Next
  <2>2. ASSUME NEW p \in Peers, NEW flags \in SendFlags[p], SendUnreliable(p, flags)
        PROVE  UNCHANGED Channel!vars
    BY <2>2, SamePending DEF SendUnreliable, handlers, Channel!vars
  <2>3. ASSUME NEW p \in Peers, ReceiveDuplicate(p) PROVE UNCHANGED Channel!vars
    BY <2>3, SamePending DEF ReceiveDuplicate, handlers, Channel!vars
  <2>4. ASSUME NEW p \in Peers, ReceiveNew(p) PROVE Channel!Next
    <3>1. Other(p) \in Peers \ {p}
      BY OtherEnd
    <3> QED
      BY <2>4, <3>1, ReceiveNewDelivers DEF Channel!Next
  <2>5. ASSUME NEW p \in Peers, ResendMissingPackets(p)
        PROVE  Channel!Next \/ UNCHANGED Channel!vars
    BY <2>5, ResendGivesUp DEF Channel!Next
  <2>6. CASE UNCHANGED vars
    BY <2>6, SamePending DEF vars, handlers, Channel!vars
  <2> QED
    BY <2>1, <2>2, <2>3, <2>4, <2>5, <2>6 DEF Next
<1> QED
  BY <1>1, <1>2, TypeCorrect, HistoryCorrect, PTL DEF Spec, ImplementsChannel, Channel!Spec

-----------------------------------------------------------------------------
(* What an ack field says *)

\* A number smaller than the modulus is its own remainder.
LEMMA SmallMod ==
    ASSUME NEW n \in Nat \ {0}, NEW k \in 0..(n - 1) PROVE k % n = k
  OBVIOUS

\* The distance between two numbers of the space is one of them, and 0 only
\* between equal ones.
LEMMA DistanceType ==
    ASSUME NEW s1 \in SeqNums, NEW s2 \in SeqNums
    PROVE  /\ SequenceDelta(s1, s2) \in SeqNums
           /\ SequenceDelta(s1, s2) = 0 <=> s1 = s2
  BY SeqNumAssumption DEF SeqNums, SequenceDelta

\* A number that is a distance within the ack field away is an earlier one, in
\* either language.
LEMMA NearIsEarlier ==
    ASSUME NEW lang \in Languages, NEW s1 \in SeqNums, NEW s2 \in SeqNums,
           SequenceDelta(s1, s2) \in 1..ACK_BITS
    PROVE  Later(lang, s1, s2)
<1>1. /\ Half \in Nat
      /\ PACKET_MAXSEQNUM = 2 * Half - 1
      /\ s1 \in 0..(2 * Half - 1)
      /\ s2 \in 0..(2 * Half - 1)
      /\ SequenceDelta(s1, s2) \in 1..(Half - 1)
  BY SeqNumAssumption, UDPHandlerAssumption DEF SeqNums, Half
<1> HIDE DEF Half
<1>2. CASE lang = "java"
  BY <1>1, <1>2 DEF Later, SequenceGreaterThan, SequenceDelta, AsShort
<1>3. CASE lang = "cpp"
  BY <1>1, <1>3 DEF Later, SequenceGreaterThan, SequenceDelta
<1> QED
  BY <1>2, <1>3 DEF Languages

\* A received number within the width of the field has its bit set in the field
\* that is built, and the peer's code reads that bit, sign extension or not.
LEMMA NearIsAcked ==
    ASSUME NEW lang \in Languages, NEW reader \in Languages,
           NEW remote \in SeqNums, NEW seqs \in SUBSET SeqNums, NEW s \in seqs,
           SequenceDelta(remote, s) <= ACK_BITS
    PROVE  IsAcked(reader, remote, AckBitfield(lang, remote, seqs), s)
<1>1. CASE s = remote
  BY <1>1 DEF IsAcked
<1>2. CASE s # remote
  <2> DEFINE d     == SequenceDelta(remote, s)
             field == AckBitfield(lang, remote, seqs)
  <2>1. d \in SeqNums /\ d # 0
    BY <1>2, DistanceType
  <2>2. d \in 1..ACK_BITS
    BY <2>1, SeqNumAssumption DEF SeqNums
  <2>3. d - 1 \in Bits /\ d - 1 \in 0..(INT_BITS - 1)
    BY <2>2, SeqNumAssumption DEF Bits
  <2>4. ShiftedBit(d - 1) = d - 1
    BY <2>3, SmallMod, SeqNumAssumption DEF ShiftedBit
  <2>5. Later(lang, remote, s)
    BY <2>2, NearIsEarlier
  <2>6. ShiftedBit(d - 1) \in field
    BY <2>3, <2>4, <2>5 DEF AckBitfield
  <2>7. ShiftedBit(d - 1) \in Promoted(reader, field)
    BY <2>6 DEF Promoted
  <2> QED
    BY <2>7 DEF IsAcked
<1> QED
  BY <1>1, <1>2

\* The entries of a sequence.
LEMMA EntryType ==
    ASSUME NEW T, NEW list \in Seq(T) PROVE \A i \in DOMAIN list : list[i] \in T
  OBVIOUS

\* What arrived recently is acknowledged by the next packet that goes back, as
\* the peer's code decodes it (SetAckBitfield and IsAcked of both languages):
\* nothing that either handler does to its RX list or to its newest number makes
\* the field forget one.
THEOREM AdvertisedCorrect == Spec => []ReceivedIsAdvertised
<1>1. TypeOK => ReceivedIsAdvertised
  <2> SUFFICES ASSUME TypeOK, NEW p \in Peers, NEW seqnum \in SeqNumsOf(acksleft_rx[p]),
                      SequenceDelta(remoteseqnum[p], seqnum) <= ACK_BITS
               PROVE  LET beat == AckBeat(p, remoteseqnum[p], acksleft_rx[p])
                      IN  IsAcked(Lang[Other(p)], beat.ack, beat.ackbitfield, seqnum)
    BY DEF ReceivedIsAdvertised
  <2>1. /\ Lang[p] \in Languages
        /\ Lang[Other(p)] \in Languages
        /\ remoteseqnum[p] \in SeqNums
    BY OtherEnd, UDPHandlerAssumption DEF TypeOK
  <2>2. SeqNumsOf(acksleft_rx[p]) \in SUBSET SeqNums
    <3>1. acksleft_rx[p] \in Seq([msg: Nat, seqnum: SeqNums])
      BY DEF TypeOK
    <3>2. \A i \in DOMAIN acksleft_rx[p] : acksleft_rx[p][i] \in [msg: Nat, seqnum: SeqNums]
      BY <3>1, EntryType
    <3>3. \A i \in DOMAIN acksleft_rx[p] : acksleft_rx[p][i].seqnum \in SeqNums
      BY <3>2
    <3> QED
      BY <3>3 DEF SeqNumsOf
  <2>3. IsAcked(Lang[Other(p)], remoteseqnum[p],
                AckBitfield(Lang[p], remoteseqnum[p], SeqNumsOf(acksleft_rx[p])), seqnum)
    BY <2>1, <2>2, NearIsAcked
  <2> QED
    BY <2>3 DEF AckBeat, Stamped
<1> QED
  BY <1>1, TypeCorrect, PTL

-----------------------------------------------------------------------------
(* Acknowledged means received *)

\* A multiple of n less than n away from 0 is 0.
LEMMA SmallMultiple ==
    ASSUME NEW n \in Nat \ {0}, NEW j \in Int, NEW d \in Int,
           d = n * j, d < n, -n < d
    PROVE  d = 0
<1>1. CASE j >= 1
  <2>1. n * j = n + n * (j - 1)
    OBVIOUS
  <2>2. n * (j - 1) >= 0
    BY <1>1
  <2> QED
    BY <2>1, <2>2
<1>2. CASE j <= -1
  <2>1. n * j = n * (j + 1) - n
    OBVIOUS
  <2>2. n * (j + 1) <= 0
    BY <1>2
  <2> QED
    BY <2>1, <2>2
<1>3. CASE j = 0
  BY <1>3
<1> QED
  BY <1>1, <1>2, <1>3

\* Division with remainder.
LEMMA DivMod ==
    ASSUME NEW n \in Nat \ {0}, NEW m \in Int
    PROVE  m \div n \in Int /\ m % n \in 0..(n - 1) /\ m = n * (m \div n) + (m % n)
<1>1. m \div n \in Int
  OBVIOUS
<1>2. m % n \in 0..(n - 1)
  OBVIOUS
<1>3. m = n * (m \div n) + (m % n)
  OBVIOUS
<1> QED
  BY <1>1, <1>2, <1>3

\* The remainder of a number just below a multiple of n.
LEMMA BelowMultiple ==
    ASSUME NEW n \in Nat \ {0}, NEW m \in Nat, m % n = 0, NEW k \in 1..n
    PROVE  (m - k) % n = n - k
<1>1. PICK q \in Int : m = n * q
  <2>1. m = n * (m \div n) + (m % n) /\ m \div n \in Int
    BY DivMod
  <2> QED
    BY <2>1
<1>2. PICK d \in Int, r \in 0..(n - 1) : m - k = n * d + r /\ r = (m - k) % n
  <2>1. m - k \in Int
    OBVIOUS
  <2>2. /\ (m - k) \div n \in Int
        /\ (m - k) % n \in 0..(n - 1)
        /\ m - k = n * ((m - k) \div n) + ((m - k) % n)
    BY <2>1, DivMod
  <2> QED
    BY <2>2
<1>3. (n - k) - r = n * (d - q + 1)
  <2>1. n * (d - q + 1) = n * d - n * q + n
    OBVIOUS
  <2>2. n * d \in Int /\ n * q \in Int
    OBVIOUS
  <2>3. \A a, b \in Int : m = b /\ m - k = a + r => (n - k) - r = a - b + n
    BY <1>2
  <2> QED
    BY <1>1, <1>2, <2>1, <2>2, <2>3
<1>4. (n - k) - r = 0
  BY <1>3, SmallMultiple
<1> QED
  BY <1>2, <1>4

\* While the numbers are no larger than ACK_BITS, a packet acknowledges only its
\* own ack and the numbers its sender had received: neither the truncation of
\* the field, nor the sign extension, nor the wrap of the shift count can make it
\* acknowledge another.
LEMMA AckIsTrue ==
    ASSUME NEW lang \in Languages, NEW reader \in Languages,
           NEW r \in 0..ACK_BITS, NEW seqs \in SUBSET (0..r), NEW n \in 0..ACK_BITS,
           ACK_BITS < INT_BITS, (PACKET_MAXSEQNUM + 1) % INT_BITS = 0,
           IsAcked(reader, r, AckBitfield(lang, r, seqs), n)
    PROVE  n = r \/ n \in seqs
<1> DEFINE field == AckBitfield(lang, r, seqs)
           bit   == ShiftedBit(SequenceDelta(r, n) - 1)
<1>1. /\ ACK_BITS \in Nat /\ INT_BITS \in Nat \ {0}
      /\ PACKET_MAXSEQNUM \in Nat /\ ACK_BITS < PACKET_MAXSEQNUM
      /\ r \in Nat /\ n \in Nat
  BY SeqNumAssumption, UDPHandlerAssumption
<1>2. \A b \in field : \E s \in seqs : s \in Nat /\ s < r /\ b = r - s - 1
  <2> SUFFICES ASSUME NEW b \in field
               PROVE  \E s \in seqs : s \in Nat /\ s < r /\ b = r - s - 1
    OBVIOUS
  <2>1. PICK s \in seqs : Later(lang, r, s) /\ b = ShiftedBit(SequenceDelta(r, s) - 1)
    BY DEF AckBitfield
  <2>2. s # r
    BY <1>1, <2>1 DEF Later, SequenceGreaterThan, AsShort
  <2>3. s \in Nat /\ s < r
    BY <1>1, <2>2
  <2>4. SequenceDelta(r, s) = r - s
    BY <1>1, <2>3 DEF SequenceDelta
  <2>5. r - s - 1 \in 0..(INT_BITS - 1)
    BY <1>1, <2>3
  <2>6. (r - s - 1) % INT_BITS = r - s - 1
    BY <1>1, <2>5, SmallMod
  <2> QED
    BY <2>1, <2>3, <2>4, <2>6 DEF ShiftedBit
<1>3. n = r \/ bit \in Promoted(reader, field)
  BY DEF IsAcked
<1>4. bit \in Promoted(reader, field) =>
         \/ bit \in field
         \/ ACK_BITS - 1 \in field /\ bit >= ACK_BITS
  BY <1>1 DEF Promoted
<1> HIDE DEF field
<1>5. CASE n < r
  <2>1. SequenceDelta(r, n) = r - n
    BY <1>1, <1>5 DEF SequenceDelta
  <2>2. r - n - 1 \in 0..(INT_BITS - 1) /\ r - n - 1 < ACK_BITS
    BY <1>1, <1>5
  <2>3. bit = r - n - 1
    BY <1>1, <2>1, <2>2, SmallMod DEF ShiftedBit
  <2> HIDE DEF bit
  <2>4. bit \in field
    BY <1>1, <1>3, <1>4, <1>5, <2>2, <2>3
  <2>5. PICK s \in seqs : s \in Nat /\ s < r /\ bit = r - s - 1
    BY <1>2, <2>4
  <2>6. s = n
    BY <1>1, <2>3, <2>5
  <2> QED
    BY <2>5, <2>6
<1>6. CASE n > r
  <2>1. SequenceDelta(r, n) - 1 = (PACKET_MAXSEQNUM + 1) - (n - r + 1)
    BY <1>1, <1>6 DEF SequenceDelta
  <2>2. n - r + 1 \in 1..INT_BITS /\ PACKET_MAXSEQNUM + 1 \in Nat
    BY <1>1, <1>6
  <2>3. bit = INT_BITS - (n - r + 1)
    BY <1>1, <2>1, <2>2, BelowMultiple DEF ShiftedBit
  <2> HIDE DEF bit
  <2>4. ~(bit \in field)
    <3> SUFFICES ASSUME bit \in field PROVE FALSE
      OBVIOUS
    <3>1. PICK s \in seqs : s \in Nat /\ s < r /\ bit = r - s - 1
      BY <1>2
    <3> QED
      BY <1>1, <2>3, <3>1
  <2>5. ~(ACK_BITS - 1 \in field)
    <3> SUFFICES ASSUME ACK_BITS - 1 \in field PROVE FALSE
      OBVIOUS
    <3>1. PICK s \in seqs : s \in Nat /\ s < r /\ ACK_BITS - 1 = r - s - 1
      BY <1>2
    <3> QED
      BY <1>1, <1>6, <3>1
  <2> QED
    BY <1>1, <1>3, <1>4, <1>6, <2>4, <2>5
<1> QED
  BY <1>1, <1>5, <1>6

\* The conditions of run udp_explicit_ack: all that s sends is reliable, its peer
\* sends nothing but the acks it is asked for, and the sequence numbers are a
\* multiple of the width of an int, which is wider than the ack field.
OneSided(s) ==
    /\ \A flags \in SendFlags[s] : "UNRELIABLE" \notin flags
    /\ SendFlags[Other(s)] = {}
    /\ ACK_BITS < INT_BITS
    /\ (PACKET_MAXSEQNUM + 1) % INT_BITS = 0

\* p's program was handed message m.
HasRead(p, m) == \E i \in DOMAIN delivered[p] : delivered[p][i] = m

\* Nothing but ack packets comes back to s.
OnlyAcksCome(s) ==
    /\ sent[Other(s)] = 0
    /\ acksleft_rx[s] = <<>>
    /\ \A d \in net[s] : ~IsReliable(d) /\ ~WantsAck(d)
    /\ \A d \in net[Other(s)] : IsReliable(d)

\* The numbers have not rolled over: message m travels as number m - 1.
Numbered(s) ==
    /\ localseqnum[s] = sent[s]
    /\ \A d \in net[Other(s)] : d.msg = d.seqnum + 1

\* The newest number the peer of s knows is one it has read, and none in its RX
\* list is newer.
NewestIsRead(s) ==
    /\ acksleft_rx[Other(s)] = <<>> => remoteseqnum[Other(s)] = 0
    /\ acksleft_rx[Other(s)] # <<>> =>
          /\ remoteseqnum[Other(s)] + 1 \in 1..sent[s]
          /\ HasRead(Other(s), remoteseqnum[Other(s)] + 1)
    /\ \A i \in 1..Len(acksleft_rx[Other(s)]) :
          acksleft_rx[Other(s)][i].seqnum <= remoteseqnum[Other(s)]

\* Every packet on its way to s, however old, acknowledges only what was read.
AcksAreTrue(s) ==
    \A d \in net[s] : \A n \in 0..ACK_BITS :
        IsAcked(Lang[s], d.ack, d.ackbitfield, n) => HasRead(Other(s), n + 1)

SettledIsRead(s) ==
    \A m \in 1..sent[s] : m \in Pending(s) \/ HasRead(Other(s), m)

FirstMessages(s) == sent[s] <= ACK_BITS + 1

AckInv(s) ==
    /\ OnlyAcksCome(s)
    /\ FirstMessages(s) =>
          Numbered(s) /\ NewestIsRead(s) /\ AcksAreTrue(s) /\ SettledIsRead(s)

\* A step that reads nothing leaves what was read.
LEMMA SameRead ==
    ASSUME NEW p, delivered'[p] = delivered[p], NEW m
    PROVE  HasRead(p, m)' <=> HasRead(p, m)
  BY DEF HasRead

\* What the RX list of the peer of s holds was read, and is no newer than the
\* newest number.
LEMMA ListIsRead ==
    ASSUME TypeOK, HistoryInv, NEW s \in Peers, AckInv(s), FirstMessages(s),
           NEW x \in SeqNumsOf(acksleft_rx[Other(s)])
    PROVE  x \in 0..remoteseqnum[Other(s)] /\ HasRead(Other(s), x + 1)
<1> DEFINE c == Other(s)
           rx == acksleft_rx[c]
           n == Len(delivered[c])
<1>1. c \in Peers
  BY OtherEnd
<1>2. /\ rx \in Seq([msg: Nat, seqnum: SeqNums])
      /\ delivered[c] \in Seq(Nat)
      /\ remoteseqnum[c] \in SeqNums
  BY <1>1 DEF TypeOK
<1>3. PICK i \in 1..Len(rx) : x = rx[i].seqnum
  BY <1>2 DEF SeqNumsOf
<1>4. /\ Len(rx) <= n
      /\ rx[i].msg = delivered[c][n - Len(rx) + i]
  BY <1>1 DEF HistoryInv, RxInv
<1>5. PICK d \in net[c] : d.msg = rx[i].msg /\ d.seqnum = rx[i].seqnum
  BY <1>1 DEF HistoryInv, RxFromNet
<1>6. d.msg = d.seqnum + 1
  BY DEF AckInv, Numbered
<1>7. x <= remoteseqnum[c]
  BY <1>3 DEF AckInv, NewestIsRead
<1>8. rx[i] \in [msg: Nat, seqnum: SeqNums]
  <2>1. DOMAIN rx = 1..Len(rx)
    BY <1>2
  <2>2. \A j \in DOMAIN rx : rx[j] \in [msg: Nat, seqnum: SeqNums]
    BY <1>2, EntryType
  <2> QED
    BY <2>1, <2>2
<1>9. x \in Nat
  BY <1>3, <1>8, SeqNumAssumption DEF SeqNums
<1>10. n - Len(rx) + i \in 1..n
  <2>1. n \in Nat /\ Len(rx) \in Nat /\ i \in 1..Len(rx)
    BY <1>2
  <2>2. \A a, b \in Nat : \A j \in 1..b : b <= a => a - b + j \in 1..a
    OBVIOUS
  <2> HIDE DEF n, rx
  <2> QED
    BY <1>4, <2>1, <2>2
<1>11. HasRead(c, x + 1)
  <2>1. DOMAIN delivered[c] = 1..n
    BY <1>2
  <2>2. delivered[c][n - Len(rx) + i] = x + 1
    BY <1>3, <1>4, <1>5, <1>6
  <2> QED
    BY <1>10, <2>1, <2>2 DEF HasRead
<1> QED
  BY <1>2, <1>7, <1>9, <1>11, SeqNumAssumption DEF SeqNums

\* An ack packet sent by a handler that has read its newest number and all of
\* its RX list acknowledges nothing else.
LEMMA BeatIsTrue ==
    ASSUME NEW s \in Peers, OneSided(s), NEW r \in 0..ACK_BITS, NEW rx, NEW Read,
           r + 1 \in Read, \A x \in SeqNumsOf(rx) : x \in 0..r /\ x + 1 \in Read,
           NEW d, d = AckBeat(Other(s), r, rx), NEW n \in 0..ACK_BITS,
           IsAcked(Lang[s], d.ack, d.ackbitfield, n)
    PROVE  n + 1 \in Read
<1>1. Lang[s] \in Languages /\ Lang[Other(s)] \in Languages
  BY OtherEnd, UDPHandlerAssumption
<1>2. d.ack = r /\ d.ackbitfield = AckBitfield(Lang[Other(s)], r, SeqNumsOf(rx))
  BY DEF AckBeat, Stamped
<1>3. SeqNumsOf(rx) \in SUBSET (0..r)
  OBVIOUS
<1>4. n = r \/ n \in SeqNumsOf(rx)
  BY <1>1, <1>2, <1>3, AckIsTrue DEF OneSided
<1> QED
  BY <1>4

\* An ack packet is unreliable and asks for nothing.
LEMMA BeatFlags ==
    ASSUME NEW p, NEW r, NEW rx
    PROVE  ~IsReliable(AckBeat(p, r, rx)) /\ ~WantsAck(AckBeat(p, r, rx))
  BY DEF AckBeat, Stamped, IsReliable, WantsAck

\* SendPacket of a reliable packet: it carries the next number, and its message
\* is pending.
LEMMA SendReliableKeepsAcks ==
    ASSUME TypeOK, NEW s \in Peers, OneSided(s), AckInv(s),
           NEW flags, SendReliable(s, flags)
    PROVE  AckInv(s)'
<1> DEFINE c   == Other(s)
           pkt == Stamped(s, sent[s] + 1, flags, remoteseqnum[s], acksleft_rx[s])
<1>1. c \in Peers /\ c # s
  BY OtherEnd
<1>2. /\ net'[c] = net[c] \union {pkt}
      /\ net'[s] = net[s]
      /\ sent'[s] = sent[s] + 1
      /\ sent'[c] = sent[c]
      /\ acksleft_tx'[s] = acksleft_tx[s] \union {[pkt |-> pkt, attempts |-> 1]}
      /\ localseqnum'[s] = SequenceIncrement(localseqnum[s])
      /\ acksleft_rx' = acksleft_rx
      /\ remoteseqnum' = remoteseqnum
      /\ delivered' = delivered
  BY <1>1 DEF SendReliable, TypeOK
<1>3. /\ pkt.msg = sent[s] + 1
      /\ pkt.seqnum = localseqnum[s]
      /\ IsReliable(pkt)
  BY DEF Stamped, IsReliable, SendReliable
<1>4. sent[s] \in Nat
  BY DEF TypeOK
<1> HIDE DEF c, pkt
<1>5. OnlyAcksCome(s)'
  BY <1>2, <1>3 DEF AckInv, OnlyAcksCome, c
<1>6. ASSUME FirstMessages(s)'
      PROVE  Numbered(s)' /\ NewestIsRead(s)' /\ AcksAreTrue(s)' /\ SettledIsRead(s)'
  <2>1. sent[s] \in 0..ACK_BITS
    BY <1>2, <1>4, <1>6, SeqNumAssumption DEF FirstMessages
  <2>2. Numbered(s) /\ NewestIsRead(s) /\ AcksAreTrue(s) /\ SettledIsRead(s)
    BY <2>1, SeqNumAssumption DEF AckInv, FirstMessages
  <2>3. Numbered(s)'
    <3>1. localseqnum[s] = sent[s]
      BY <2>2 DEF Numbered
    <3>2. sent[s] + 1 \in 0..((PACKET_MAXSEQNUM + 1) - 1) /\ PACKET_MAXSEQNUM + 1 \in Nat \ {0}
      BY <2>1, SeqNumAssumption, UDPHandlerAssumption
    <3>3. SequenceIncrement(sent[s]) = sent[s] + 1
      BY <3>2, SmallMod DEF SequenceIncrement
    <3>4. localseqnum'[s] = sent'[s]
      BY <1>2, <3>1, <3>3
    <3>5. \A d \in net[c] : d.msg = d.seqnum + 1
      BY <2>2 DEF Numbered, c
    <3>6. pkt.msg = pkt.seqnum + 1
      BY <1>3, <3>1
    <3>7. \A d \in net'[c] : d.msg = d.seqnum + 1
      BY <1>2, <3>5, <3>6
    <3> QED
      BY <3>4, <3>7 DEF Numbered, c
  <2>4. \A m : HasRead(c, m)' <=> HasRead(c, m)
    BY <1>2, SameRead
  <2>5. NewestIsRead(s)'
    <3>1. acksleft_rx[c] = <<>> => remoteseqnum[c] = 0
      BY <2>2 DEF NewestIsRead, c
    <3>2. acksleft_rx[c] # <<>> => /\ remoteseqnum[c] + 1 \in 1..sent[s]
                                   /\ HasRead(c, remoteseqnum[c] + 1)
      BY <2>2 DEF NewestIsRead, c
    <3>3. \A i \in 1..Len(acksleft_rx[c]) : acksleft_rx[c][i].seqnum <= remoteseqnum[c]
      BY <2>2 DEF NewestIsRead, c
    <3>4. remoteseqnum[c] + 1 \in 1..sent[s] => remoteseqnum[c] + 1 \in 1..sent'[s]
      BY <1>2, <1>4
    <3> QED
      BY <1>2, <2>4, <3>1, <3>2, <3>3, <3>4 DEF NewestIsRead, c
  <2>6. AcksAreTrue(s)'
    BY <1>2, <2>2, <2>4 DEF AcksAreTrue, c
  <2>7. SettledIsRead(s)'
    <3>1. Pending(s)' = Pending(s) \union {sent[s] + 1}
      <4> DEFINE new == [pkt |-> pkt, attempts |-> 1]
      <4>1. new.pkt.msg = sent[s] + 1
        BY <1>3
      <4>2. acksleft_tx'[s] = acksleft_tx[s] \union {new}
        BY <1>2
      <4> HIDE DEF new
      <4> QED
        BY <4>1, <4>2 DEF Pending
    <3>2. \A m \in 1..sent'[s] : m = sent[s] + 1 \/ m \in 1..sent[s]
      BY <1>2, <1>4
    <3>3. \A m \in 1..sent[s] : m \in Pending(s) \/ HasRead(c, m)
      BY <2>2 DEF SettledIsRead, c
    <3> QED
      BY <2>4, <3>1, <3>2, <3>3 DEF SettledIsRead, c
  <2> QED
    BY <2>3, <2>5, <2>6, <2>7
<1> QED
  BY <1>5, <1>6 DEF AckInv

\* A read of the peer of s that the RX list already has: the ack it may send
\* speaks of what was read before.
LEMMA DuplicateKeepsAcks ==
    ASSUME TypeOK, HistoryInv, NEW s \in Peers, OneSided(s), AckInv(s),
           ReceiveDuplicate(Other(s))
    PROVE  AckInv(s)'
<1> DEFINE c    == Other(s)
           beat == AckBeat(c, remoteseqnum[c], acksleft_rx[c])
<1>1. c \in Peers /\ c # s /\ Other(c) = s
  BY OtherEnd
<1>2. /\ net'[c] = net[c]
      /\ net'[s] = net[s] \/ net'[s] = net[s] \union {beat}
      /\ UNCHANGED <<localseqnum, remoteseqnum, acksleft_rx, acksleft_tx, sent, delivered>>
  <2>1. \/ net' = net
        \/ net' = [net EXCEPT ![Other(c)] = @ \union {beat}]
    BY DEF ReceiveDuplicate
  <2>2. UNCHANGED <<localseqnum, remoteseqnum, acksleft_rx, acksleft_tx, sent, delivered>>
    BY DEF ReceiveDuplicate, handlers
  <2> HIDE DEF beat
  <2>3. /\ net'[c] = net[c]
        /\ net'[s] = net[s] \/ net'[s] = net[s] \union {beat}
    BY <1>1, <2>1 DEF TypeOK
  <2> QED
    BY <2>2, <2>3
<1>3. ~IsReliable(beat) /\ ~WantsAck(beat)
  BY BeatFlags
<1>4. acksleft_rx[c] # <<>>
  <2>1. PICK pkt \in net[c] : pkt.seqnum \in SeqNumsOf(acksleft_rx[c])
    BY DEF ReceiveDuplicate, IsDuplicate
  <2> QED
    BY <2>1 DEF SeqNumsOf
<1>5. OnlyAcksCome(s)'
  <2> HIDE DEF c, beat
  <2>1. \A d \in net'[s] : ~IsReliable(d) /\ ~WantsAck(d)
    BY <1>2, <1>3 DEF AckInv, OnlyAcksCome
  <2>2. \A d \in net'[c] : IsReliable(d)
    BY <1>2 DEF AckInv, OnlyAcksCome, c
  <2> QED
    BY <1>2, <2>1, <2>2 DEF AckInv, OnlyAcksCome, c
<1>6. ASSUME FirstMessages(s)'
      PROVE  Numbered(s)' /\ NewestIsRead(s)' /\ AcksAreTrue(s)' /\ SettledIsRead(s)'
  <2>1. FirstMessages(s)
    BY <1>2, <1>6 DEF FirstMessages
  <2>2. Numbered(s) /\ NewestIsRead(s) /\ AcksAreTrue(s) /\ SettledIsRead(s)
    BY <2>1 DEF AckInv
  <2>3. \A m : HasRead(c, m)' <=> HasRead(c, m)
    BY <1>2, SameRead
  <2>4. Numbered(s)'
    BY <1>2, <2>2 DEF Numbered, c
  <2>5. NewestIsRead(s)'
    BY <1>2, <2>2, <2>3 DEF NewestIsRead, c
  <2>6. SettledIsRead(s)'
    <3>1. Pending(s)' = Pending(s)
      BY <1>2 DEF Pending
    <3> QED
      BY <1>2, <2>2, <2>3, <3>1 DEF SettledIsRead, c
  <2>7. ASSUME NEW n \in 0..ACK_BITS, IsAcked(Lang[s], beat.ack, beat.ackbitfield, n)
        PROVE  HasRead(c, n + 1)
    <3> DEFINE Read == { m \in Nat : HasRead(c, m) }
               r    == remoteseqnum[c]
    <3>1. r + 1 \in 1..sent[s] /\ HasRead(c, r + 1)
      BY <1>4, <2>2 DEF NewestIsRead, c
    <3>2. r \in 0..ACK_BITS
      <4>1. r \in SeqNums /\ sent[s] \in Nat
        BY <1>1 DEF TypeOK
      <4> QED
        BY <2>1, <3>1, <4>1, SeqNumAssumption DEF FirstMessages, SeqNums
    <3>3. \A x \in SeqNumsOf(acksleft_rx[c]) : x \in 0..r /\ HasRead(c, x + 1)
      BY <2>1, ListIsRead
    <3>4. r + 1 \in Read /\ \A x \in SeqNumsOf(acksleft_rx[c]) : x \in 0..r /\ x + 1 \in Read
      BY <3>1, <3>2, <3>3
    <3> HIDE DEF Read, r
    <3>5. beat = AckBeat(Other(s), r, acksleft_rx[c])
      BY DEF r, beat, c
    <3>6. n + 1 \in Read
      BY <2>7, <3>2, <3>4, <3>5, BeatIsTrue
    <3> QED
      BY <3>6 DEF Read
  <2>8. AcksAreTrue(s)'
    <3>1. \A d \in net[s] : \A n \in 0..ACK_BITS :
             IsAcked(Lang[s], d.ack, d.ackbitfield, n) => HasRead(c, n + 1)
      BY <2>2 DEF AcksAreTrue, c
    <3> HIDE DEF c, beat
    <3>2. \A d \in net'[s] : \A n \in 0..ACK_BITS :
             IsAcked(Lang[s], d.ack, d.ackbitfield, n) => HasRead(c, n + 1)
      BY <1>2, <2>7, <3>1
    <3> QED
      BY <2>3, <3>2 DEF AcksAreTrue, c
  <2> QED
    BY <2>4, <2>5, <2>6, <2>8
<1> QED
  BY <1>5, <1>6 DEF AckInv

\* A read of s: it is an ack packet, and what it settles was read.
LEMMA SettlingKeepsAcks ==
    ASSUME TypeOK, HistoryInv, NEW s \in Peers, OneSided(s), AckInv(s), ReceiveNew(s)
    PROVE  AckInv(s)'
<1> DEFINE c == Other(s)
<1>1. c \in Peers /\ c # s
  BY OtherEnd
<1>2. PICK pkt \in net[s] : ReceiveNew(s)!2!(pkt)
  BY DEF ReceiveNew
<1>3. ~IsReliable(pkt) /\ ~WantsAck(pkt)
  BY DEF AckInv, OnlyAcksCome
<1>4. /\ acksleft_tx'[s] = NotAcked(s, pkt)
      /\ remoteseqnum'[c] = remoteseqnum[c]
      /\ acksleft_rx' = acksleft_rx
      /\ UNCHANGED <<localseqnum, net, sent, delivered>>
  BY <1>1, <1>2, <1>3 DEF ReceiveNew, TypeOK
<1>5. OnlyAcksCome(s)'
  BY <1>4 DEF AckInv, OnlyAcksCome
<1>6. ASSUME FirstMessages(s)'
      PROVE  Numbered(s)' /\ NewestIsRead(s)' /\ AcksAreTrue(s)' /\ SettledIsRead(s)'
  <2>1. FirstMessages(s)
    BY <1>4, <1>6 DEF FirstMessages
  <2>2. Numbered(s) /\ NewestIsRead(s) /\ AcksAreTrue(s) /\ SettledIsRead(s)
    BY <2>1 DEF AckInv
  <2>3. \A m : HasRead(c, m)' <=> HasRead(c, m)
    BY <1>4, SameRead
  <2>4. Numbered(s)' /\ AcksAreTrue(s)'
    BY <1>4, <2>2, <2>3 DEF Numbered, AcksAreTrue, c
  <2>5. NewestIsRead(s)'
    BY <1>4, <2>2, <2>3 DEF NewestIsRead, c
  <2>6. ASSUME NEW t \in acksleft_tx[s], t \notin acksleft_tx'[s]
        PROVE  HasRead(c, t.pkt.msg)
    <3>1. IsAcked(Lang[s], pkt.ack, pkt.ackbitfield, t.pkt.seqnum)
      BY <1>4, <2>6 DEF NotAcked
    <3>2. /\ t.pkt \in net[c]
          /\ t.pkt.msg \in 1..sent[s]
      BY OtherEnd DEF HistoryInv, TxInv, NetInv
    <3>3. t.pkt.msg = t.pkt.seqnum + 1 /\ t.pkt.seqnum \in Nat
      <4>1. t.pkt \in Datagram
        BY <1>1, <3>2 DEF TypeOK
      <4> QED
        BY <2>2, <3>2, <4>1, SeqNumAssumption DEF Numbered, Datagram, SeqNums
    <3>4. t.pkt.seqnum \in 0..ACK_BITS
      <4>1. sent[s] \in Nat
        BY DEF TypeOK
      <4> QED
        BY <2>1, <3>2, <3>3, <4>1, SeqNumAssumption DEF FirstMessages
    <3> QED
      BY <2>2, <3>1, <3>3, <3>4 DEF AcksAreTrue
  <2>7. SettledIsRead(s)'
    <3> SUFFICES ASSUME NEW m \in 1..sent[s], m \notin Pending(s)'
                 PROVE  HasRead(c, m)
      BY <1>4, <2>3 DEF SettledIsRead, c
    <3>1. CASE m \in Pending(s)
      <4>1. PICK t \in acksleft_tx[s] : t.pkt.msg = m
        BY <3>1 DEF Pending
      <4>2. t \notin acksleft_tx'[s]
        BY <4>1 DEF Pending
      <4> QED
        BY <2>6, <4>1, <4>2
    <3>2. CASE m \notin Pending(s)
      BY <2>2, <3>2 DEF SettledIsRead
    <3> QED
      BY <3>1, <3>2
  <2> QED
    BY <2>4, <2>5, <2>7
<1> QED
  BY <1>5, <1>6 DEF AckInv

\* Among the first numbers of a connection the later one is the larger one.
LEMMA SmallLater ==
    ASSUME NEW lang \in Languages, NEW a \in 0..ACK_BITS, NEW b \in 0..ACK_BITS
    PROVE  Later(lang, a, b) <=> a > b
<1>1. /\ Half \in Nat
      /\ PACKET_MAXSEQNUM = 2 * Half - 1
      /\ a \in 0..(Half - 1)
      /\ b \in 0..(Half - 1)
  BY SeqNumAssumption, UDPHandlerAssumption DEF Half
<1> HIDE DEF Half
<1> QED
  BY <1>1 DEF Languages, Later, SequenceGreaterThan, AsShort

\* Remembering a packet adds its number to the RX list and no other.
LEMMA RememberNumbers ==
    ASSUME NEW rx \in Seq([msg: Nat, seqnum: SeqNums]), Len(rx) <= RX_LIMIT + 1,
           NEW pkt, pkt.msg \in Nat, pkt.seqnum \in SeqNums,
           NEW new, new = Remember(rx, pkt)
    PROVE  /\ new \in Seq([msg: Nat, seqnum: SeqNums])
           /\ new # <<>>
           /\ \A i \in 1..Len(new) : new[i].seqnum \in SeqNumsOf(rx) \union {pkt.seqnum}
<1> DEFINE e == [msg |-> pkt.msg, seqnum |-> pkt.seqnum]
<1>1. e \in [msg: Nat, seqnum: SeqNums] /\ e.seqnum = pkt.seqnum
  OBVIOUS
<1>2. new = Append(IF Len(rx) > RX_LIMIT THEN Tail(rx) ELSE rx, e)
  BY DEF Remember
<1> HIDE DEF e
<1>3. /\ new \in Seq([msg: Nat, seqnum: SeqNums])
      /\ Len(new) \in 1..(RX_LIMIT + 1)
      /\ Len(rx) > RX_LIMIT =>
           /\ Len(new) = Len(rx)
           /\ \A i \in 1..(Len(rx) - 1) : new[i] = rx[i + 1]
      /\ Len(rx) <= RX_LIMIT =>
           /\ Len(new) = Len(rx) + 1
           /\ \A i \in 1..Len(rx) : new[i] = rx[i]
      /\ new[Len(new)] = e
  BY <1>1, <1>2, SlidingAppend, UDPHandlerAssumption
<1>4. \A i \in 1..Len(rx) : rx[i].seqnum \in SeqNumsOf(rx)
  BY DEF SeqNumsOf
<1>5. Len(rx) \in Nat /\ RX_LIMIT \in Nat
  BY UDPHandlerAssumption
<1>6. ASSUME NEW i \in 1..Len(new), i # Len(new)
      PROVE  new[i].seqnum \in SeqNumsOf(rx)
  <2>1. CASE Len(rx) > RX_LIMIT
    <3>1. i \in 1..(Len(rx) - 1) /\ i + 1 \in 1..Len(rx)
      BY <1>3, <1>5, <1>6, <2>1
    <3>2. new[i] = rx[i + 1]
      BY <1>3, <2>1, <3>1
    <3> QED
      BY <1>4, <3>1, <3>2
  <2>2. CASE Len(rx) <= RX_LIMIT
    <3>1. i \in 1..Len(rx)
      BY <1>3, <1>5, <1>6, <2>2
    <3>2. new[i] = rx[i]
      BY <1>3, <2>2, <3>1
    <3> QED
      BY <1>4, <3>1, <3>2
  <2> QED
    BY <1>5, <2>1, <2>2
<1>7. new # <<>>
  BY <1>3
<1> QED
  BY <1>1, <1>3, <1>6, <1>7

\* A read of the peer of s: it gets a message, and the ack packet it may send
\* speaks of that one and of what was read before.
LEMMA ReadingKeepsAcks ==
    ASSUME TypeOK, HistoryInv, NEW s \in Peers, OneSided(s), AckInv(s),
           ReceiveNew(Other(s))
    PROVE  AckInv(s)'
<1> DEFINE c == Other(s)
<1>1. c \in Peers /\ c # s /\ Other(c) = s
  BY OtherEnd
<1>2. PICK pkt \in net[c] : ReceiveNew(c)!2!(pkt)
  BY DEF ReceiveNew
<1> DEFINE q == pkt.seqnum
<1>0. PICK remote, rx : remote = Newest(c, q) /\ rx = Remember(acksleft_rx[c], pkt)
  OBVIOUS
<1> DEFINE beat == AckBeat(c, remote, rx)
<1>3. IsReliable(pkt)
  BY DEF AckInv, OnlyAcksCome
<1>4. /\ remoteseqnum'[c] = remote
      /\ acksleft_rx'[c] = rx
      /\ acksleft_rx'[s] = acksleft_rx[s]
      /\ acksleft_tx'[s] = acksleft_tx[s]
      /\ delivered'[c] = Append(delivered[c], pkt.msg)
      /\ net'[c] = net[c]
      /\ net'[s] = net[s] \/ net'[s] = net[s] \union {beat}
      /\ UNCHANGED <<localseqnum, sent>>
  <2>1. /\ remoteseqnum' = [remoteseqnum EXCEPT ![c] = remote]
        /\ acksleft_rx' = [acksleft_rx EXCEPT ![c] = rx]
        /\ acksleft_tx' = [acksleft_tx EXCEPT ![c] = NotAcked(c, pkt)]
        /\ delivered' = [delivered EXCEPT ![c] = Append(@, pkt.msg)]
        /\ net' = net \/ net' = [net EXCEPT ![Other(c)] = @ \union {beat}]
        /\ UNCHANGED <<localseqnum, sent>>
    BY <1>0, <1>2, <1>3 DEF ReceiveNew
  <2> HIDE DEF c, beat
  <2> QED
    BY <1>1, <2>1 DEF TypeOK
<1>5. ~IsReliable(beat) /\ ~WantsAck(beat)
  BY BeatFlags
<1>6. OnlyAcksCome(s)'
  <2> HIDE DEF c, beat
  <2>1. \A d \in net'[s] : ~IsReliable(d) /\ ~WantsAck(d)
    BY <1>4, <1>5 DEF AckInv, OnlyAcksCome
  <2>2. \A d \in net'[c] : IsReliable(d)
    BY <1>4 DEF AckInv, OnlyAcksCome, c
  <2> QED
    BY <1>4, <2>1, <2>2 DEF AckInv, OnlyAcksCome, c
<1>7. ASSUME FirstMessages(s)'
      PROVE  Numbered(s)' /\ NewestIsRead(s)' /\ AcksAreTrue(s)' /\ SettledIsRead(s)'
  <2>1. FirstMessages(s)
    BY <1>4, <1>7 DEF FirstMessages
  <2>2. Numbered(s) /\ NewestIsRead(s) /\ AcksAreTrue(s) /\ SettledIsRead(s)
    BY <2>1 DEF AckInv
  <2>3. /\ pkt \in Datagram
        /\ acksleft_rx[c] \in Seq([msg: Nat, seqnum: SeqNums])
        /\ Len(acksleft_rx[c]) <= RX_LIMIT + 1
        /\ delivered[c] \in Seq(Nat)
        /\ remoteseqnum[c] \in Nat
        /\ sent[s] \in Nat
        /\ Lang[c] \in Languages
    BY <1>1, SeqNumAssumption, UDPHandlerAssumption DEF TypeOK, SeqNums
  <2>4. /\ pkt.msg = q + 1
        /\ pkt.msg \in 1..sent[s]
        /\ q \in SeqNums
        /\ q \in Nat
        /\ pkt.msg \in Nat
    <3>1. pkt.msg = q + 1
      BY <2>2 DEF Numbered
    <3>2. pkt.msg \in 1..sent[s]
      BY <1>1, <1>3 DEF HistoryInv, NetInv
    <3>3. q \in SeqNums /\ pkt.msg \in Nat
      BY <2>3 DEF Datagram
    <3> QED
      BY <3>1, <3>2, <3>3, SeqNumAssumption DEF SeqNums
  <2>5. q \in 0..ACK_BITS
    BY <2>1, <2>3, <2>4, SeqNumAssumption DEF FirstMessages
  <2>6. remoteseqnum[c] \in 0..ACK_BITS
    <3>1. CASE acksleft_rx[c] = <<>>
      BY <2>2, <3>1, SeqNumAssumption DEF NewestIsRead, c
    <3>2. CASE acksleft_rx[c] # <<>>
      <4>1. remoteseqnum[c] + 1 \in 1..sent[s]
        BY <2>2, <3>2 DEF NewestIsRead, c
      <4> QED
        BY <2>1, <2>3, <4>1, SeqNumAssumption DEF FirstMessages
    <3> QED
      BY <3>1, <3>2
  <2>7. /\ remote = q \/ remote = remoteseqnum[c]
        /\ remote \in 0..ACK_BITS
        /\ q <= remote
        /\ remoteseqnum[c] <= remote
    <3>1. Later(Lang[c], q, remoteseqnum[c]) <=> q > remoteseqnum[c]
      BY <2>3, <2>5, <2>6, SmallLater
    <3>2. q \in Int /\ remoteseqnum[c] \in Int
      BY <2>3, <2>4
    <3> QED
      BY <1>0, <2>5, <2>6, <3>1, <3>2 DEF Newest
  <2>8. /\ rx # <<>>
        /\ rx \in Seq([msg: Nat, seqnum: SeqNums])
        /\ \A i \in 1..Len(rx) : rx[i].seqnum \in SeqNumsOf(acksleft_rx[c]) \union {q}
    BY <1>0, <2>3, <2>4, RememberNumbers
  <2>9. /\ \A m : HasRead(c, m) => HasRead(c, m)'
        /\ HasRead(c, q + 1)'
    <3>1. /\ DOMAIN delivered'[c] = 1..(Len(delivered[c]) + 1)
          /\ DOMAIN delivered[c] = 1..Len(delivered[c])
          /\ Len(delivered[c]) \in Nat
          /\ \A i \in 1..Len(delivered[c]) : delivered'[c][i] = delivered[c][i]
          /\ delivered'[c][Len(delivered[c]) + 1] = pkt.msg
      BY <1>4, <2>3, <2>4
    <3>2. Len(delivered[c]) + 1 \in DOMAIN delivered'[c]
      BY <3>1
    <3>3. \A i \in DOMAIN delivered[c] : i \in DOMAIN delivered'[c]
      BY <3>1
    <3> QED
      BY <2>4, <3>1, <3>2, <3>3 DEF HasRead
  <2>10. \A x \in SeqNumsOf(acksleft_rx[c]) :
            x \in 0..remoteseqnum[c] /\ HasRead(c, x + 1)
    BY <2>1, ListIsRead
  <2>11. remote + 1 \in 1..sent[s] /\ HasRead(c, remote + 1)'
    <3>1. CASE remote = q
      BY <2>4, <2>9, <3>1
    <3>2. CASE remote # q
      <4>1. remote = remoteseqnum[c]
        BY <2>7, <3>2
      <4>2. acksleft_rx[c] # <<>>
        <5> SUFFICES ASSUME acksleft_rx[c] = <<>> PROVE FALSE
          OBVIOUS
        <5>1. remoteseqnum[c] = 0
          BY <2>2 DEF NewestIsRead, c
        <5> QED
          BY <2>4, <2>7, <3>2, <4>1, <5>1
      <4>3. remoteseqnum[c] + 1 \in 1..sent[s] /\ HasRead(c, remoteseqnum[c] + 1)
        BY <2>2, <4>2 DEF NewestIsRead, c
      <4> QED
        BY <2>9, <4>1, <4>3
    <3> QED
      BY <3>1, <3>2
  <2>12. \A i \in 1..Len(rx) : rx[i].seqnum \in 0..remote /\ HasRead(c, rx[i].seqnum + 1)'
    <3> SUFFICES ASSUME NEW i \in 1..Len(rx)
                 PROVE  rx[i].seqnum \in 0..remote /\ HasRead(c, rx[i].seqnum + 1)'
      OBVIOUS
    <3>1. CASE rx[i].seqnum = q
      BY <2>4, <2>7, <2>9, <3>1
    <3>2. CASE rx[i].seqnum \in SeqNumsOf(acksleft_rx[c])
      <4>1. rx[i].seqnum \in 0..remoteseqnum[c] /\ HasRead(c, rx[i].seqnum + 1)
        BY <2>10, <3>2
      <4>2. rx[i].seqnum \in 0..remote
        BY <2>3, <2>7, <4>1
      <4> QED
        BY <2>9, <4>1, <4>2
    <3> QED
      BY <2>8, <3>1, <3>2
  <2>13. Numbered(s)'
    BY <1>4, <2>2 DEF Numbered, c
  <2>14. NewestIsRead(s)'
    <3>1. \A i \in 1..Len(rx) : rx[i].seqnum <= remote
      BY <2>7, <2>12
    <3> QED
      BY <1>4, <2>8, <2>11, <3>1 DEF NewestIsRead, c
  <2>15. SettledIsRead(s)'
    <3>1. Pending(s)' = Pending(s)
      BY <1>4 DEF Pending
    <3>2. \A m \in 1..sent[s] : m \in Pending(s) \/ HasRead(c, m)
      BY <2>2 DEF SettledIsRead, c
    <3> QED
      BY <1>4, <2>9, <3>1, <3>2 DEF SettledIsRead, c
  <2>16. ASSUME NEW n \in 0..ACK_BITS, IsAcked(Lang[s], beat.ack, beat.ackbitfield, n)
         PROVE  HasRead(c, n + 1)'
    <3> DEFINE Read == { m \in Nat : HasRead(c, m)' }
    <3>1. remote + 1 \in Read
      BY <2>7, <2>11
    <3>2. \A x \in SeqNumsOf(rx) : x \in 0..remote /\ x + 1 \in Read
      <4> SUFFICES ASSUME NEW x \in SeqNumsOf(rx)
                   PROVE  x \in 0..remote /\ x + 1 \in Read
        OBVIOUS
      <4>1. PICK i \in 1..Len(rx) : x = rx[i].seqnum
        BY <2>8 DEF SeqNumsOf
      <4>2. x \in 0..remote /\ HasRead(c, x + 1)'
        BY <2>12, <4>1
      <4> QED
        BY <2>7, <4>2
    <3> HIDE DEF Read
    <3>3. beat = AckBeat(Other(s), remote, rx)
      BY DEF beat, c
    <3> HIDE DEF beat
    <3>4. n + 1 \in Read
      BY <2>7, <2>16, <3>1, <3>2, <3>3, BeatIsTrue
    <3> QED
      BY <3>4 DEF Read
  <2>17. AcksAreTrue(s)'
    <3>1. \A d \in net[s] : \A n \in 0..ACK_BITS :
             IsAcked(Lang[s], d.ack, d.ackbitfield, n) => HasRead(c, n + 1)'
      BY <2>2, <2>9 DEF AcksAreTrue, c
    <3> HIDE DEF c, beat
    <3>2. \A d \in net'[s] : \A n \in 0..ACK_BITS :
             IsAcked(Lang[s], d.ack, d.ackbitfield, n) => HasRead(c, n + 1)'
      BY <1>4, <2>16, <3>1
    <3> QED
      BY <3>2 DEF AcksAreTrue, c
  <2> QED
    BY <2>13, <2>14, <2>15, <2>17
<1> QED
  BY <1>6, <1>7 DEF AckInv

\* Resending repeats datagrams of the network and changes no pending message.
LEMMA ResendingKeepsAcks ==
    ASSUME TypeOK, HistoryInv, NEW s \in Peers, AckInv(s), ResendMissingPackets(s)
    PROVE  AckInv(s)'
<1> DEFINE c == Other(s)
<1>1. c \in Peers /\ c # s
  BY OtherEnd
<1>2. PICK due \in SUBSET acksleft_tx[s] : ResendMissingPackets(s)!3!(due)
  BY DEF ResendMissingPackets
<1> DEFINE again == { t.pkt : t \in { t \in due : \A e \in Exhausted(due) : t.pkt.msg <= e.pkt.msg } \ Exhausted(due) }
<1>3. net' = [net EXCEPT ![c] = @ \union again]
  BY <1>2
<1>4. again \subseteq net[c]
  BY DEF HistoryInv, TxInv
<1> HIDE DEF again
<1>5. net' = net
  <2>1. net'[c] = net[c] /\ \A p \in Peers : p # c => net'[p] = net[p]
    BY <1>1, <1>3, <1>4 DEF TypeOK
  <2> QED
    BY <1>3, <2>1 DEF TypeOK
<1>6. /\ UNCHANGED <<localseqnum, remoteseqnum, acksleft_rx, sent, delivered>>
      /\ Pending(s)' = Pending(s)
  BY ResendKeeps DEF ResendMissingPackets
<1>7. \A m : HasRead(c, m)' <=> HasRead(c, m)
  BY <1>6, SameRead
<1>8. OnlyAcksCome(s)'
  BY <1>5, <1>6 DEF AckInv, OnlyAcksCome
<1>9. FirstMessages(s)' => FirstMessages(s)
  BY <1>6 DEF FirstMessages
<1>10. Numbered(s) => Numbered(s)'
  BY <1>5, <1>6 DEF Numbered
<1>11. NewestIsRead(s) => NewestIsRead(s)'
  BY <1>6, <1>7 DEF NewestIsRead, c
<1>12. AcksAreTrue(s) => AcksAreTrue(s)'
  BY <1>5, <1>7 DEF AcksAreTrue, c
<1>13. SettledIsRead(s) => SettledIsRead(s)'
  BY <1>6, <1>7 DEF SettledIsRead, c
<1> QED
  BY <1>8, <1>9, <1>10, <1>11, <1>12, <1>13 DEF AckInv

\* A sender whose packets are all reliable, and whose peer sends nothing but the
\* acks it is asked for, forgets a message only when the peer's program was
\* handed it: as long as it submitted no more messages than the ack field and
\* the ack can name (HandlePacketSequence, "remove all which were acknowledged").
\* Beyond those, the sign extension of a Java short may acknowledge a number that
\* the peer has not received.
THEOREM AckedCorrect ==
    ASSUME NEW s \in Peers, OneSided(s)
    PROVE  Spec => [](sent[s] <= ACK_BITS + 1 => AckedMeansReceived)
<1> DEFINE c == Other(s)
<1>1. c \in Peers /\ c # s /\ Other(c) = s /\ \A p \in Peers : p = s \/ p = c
  BY OtherEnd
<1>2. Init => AckInv(s)
  <2> SUFFICES ASSUME Init PROVE AckInv(s)
    OBVIOUS
  <2>1. /\ sent[s] = 0 /\ sent[c] = 0
        /\ localseqnum[s] = 0 /\ remoteseqnum[c] = 0
        /\ acksleft_rx[s] = <<>> /\ acksleft_rx[c] = <<>>
        /\ net[s] = {} /\ net[c] = {}
    BY <1>1 DEF Init
  <2>2. OnlyAcksCome(s)
    BY <2>1 DEF OnlyAcksCome, c
  <2>3. Numbered(s) /\ NewestIsRead(s) /\ AcksAreTrue(s)
    BY <2>1 DEF Numbered, NewestIsRead, AcksAreTrue, c
  <2>4. SettledIsRead(s)
    BY <2>1 DEF SettledIsRead
  <2> QED
    BY <2>2, <2>3, <2>4 DEF AckInv
<1>3. TypeOK /\ HistoryInv /\ AckInv(s) /\ [Next]_vars => AckInv(s)'
  <2> SUFFICES ASSUME TypeOK, HistoryInv, AckInv(s), [Next]_vars PROVE AckInv(s)'
    OBVIOUS
  <2>1. ASSUME NEW p \in Peers, NEW flags \in SendFlags[p], SendReliable(p, flags)
        PROVE  AckInv(s)'
    <3>1. p = s
      BY <1>1 DEF OneSided
    <3> QED
      BY <2>1, <3>1, SendReliableKeepsAcks
  <2>2. ASSUME NEW p \in Peers, NEW flags \in SendFlags[p], SendUnreliable(p, flags)
        PROVE  AckInv(s)'
    BY <1>1, <2>2 DEF OneSided, SendUnreliable
  <2>3. ASSUME NEW p \in Peers, ReceiveDuplicate(p) PROVE AckInv(s)'
    <3>1. CASE p = s
      <4>1. PICK pkt \in net[s] : pkt.seqnum \in SeqNumsOf(acksleft_rx[s])
        BY <2>3, <3>1 DEF ReceiveDuplicate, IsDuplicate
      <4> QED
        BY <4>1 DEF SeqNumsOf, AckInv, OnlyAcksCome
    <3>2. CASE p = c
      BY <2>3, <3>2, DuplicateKeepsAcks
    <3> QED
      BY <1>1, <3>1, <3>2
  <2>4. ASSUME NEW p \in Peers, ReceiveNew(p) PROVE AckInv(s)'
    <3>1. CASE p = s
      BY <2>4, <3>1, SettlingKeepsAcks
    <3>2. CASE p = c
      BY <2>4, <3>2, ReadingKeepsAcks
    <3> QED
      BY <1>1, <3>1, <3>2
  <2>5. ASSUME NEW p \in Peers, ResendMissingPackets(p) PROVE AckInv(s)'
    <3>1. CASE p = s
      BY <2>5, <3>1, ResendingKeepsAcks
    <3>2. CASE p = c
      <4>1. PICK t \in acksleft_tx[c] : TRUE
        BY <2>5, <3>2 DEF ResendMissingPackets
      <4>2. t.pkt \in net[s] /\ IsReliable(t.pkt)
        BY <1>1, <4>1 DEF HistoryInv, TxInv
      <4> QED
        BY <4>2 DEF AckInv, OnlyAcksCome
    <3> QED
      BY <1>1, <3>1, <3>2
  <2>6. CASE UNCHANGED vars
    <3>1. \A m : HasRead(c, m)' <=> HasRead(c, m)
      BY <2>6, SameRead DEF vars
    <3> QED
      BY <2>6, <3>1 DEF vars, handlers, AckInv, OnlyAcksCome, FirstMessages, Numbered,
         NewestIsRead, AcksAreTrue, SettledIsRead, Pending, c
  <2> QED
    BY <2>1, <2>2, <2>3, <2>4, <2>5, <2>6 DEF Next
<1>4. AckInv(s) => (sent[s] <= ACK_BITS + 1 => AckedMeansReceived)
  <2> SUFFICES ASSUME AckInv(s), sent[s] <= ACK_BITS + 1,
                      NEW p \in Peers, NEW m \in 1..sent[p], m \notin Pending(p)
               PROVE  HasRead(Other(p), m)
    BY DEF AckedMeansReceived, HasRead
  <2>1. CASE p = s
    BY <2>1 DEF AckInv, FirstMessages, SettledIsRead
  <2>2. CASE p = c
    BY <2>2 DEF AckInv, OnlyAcksCome
  <2> QED
    BY <1>1, <2>1, <2>2
<1> QED
  BY <1>2, <1>3, <1>4, TypeCorrect, HistoryCorrect, PTL DEF Spec
=============================================================================
