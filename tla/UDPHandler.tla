----------------------------- MODULE UDPHandler -----------------------------
(***************************************************************************)
(* Two connected UDP handlers of N64-NetLib: UDPHandler.java at the server *)
(* end, UDPHandler of packets.cpp at the client end, each with its own     *)
(* reading of the ack fields (Lang), over a network that loses, delays,    *)
(* duplicates and reorders datagrams.                                      *)
(*                                                                         *)
(* The network towards a peer is the set of all datagrams ever sent to it. *)
(* Receiving does not remove one: a datagram that is never received is     *)
(* lost, one received twice is duplicated, one received late is reordered. *)
(* A retransmission repeats the datagram bit for bit (the header is set on *)
(* the first attempt only), so it adds nothing to the set.                 *)
(*                                                                         *)
(* A reliable packet carries in msg the number of the message it was       *)
(* created for: 1 for the first one its sender submitted, and so on.  It   *)
(* stands for the payload, which the handler never looks at.  Unreliable   *)
(* packets (heartbeats and ack packets) have msg = 0.                      *)
(*                                                                         *)
(* acksleft_tx is a list in the order of submission, that is of msg: it is *)
(* kept as a set and walked in that order.                                 *)
(*                                                                         *)
(* The clock is not modelled: which unacknowledged packets were last sent  *)
(* more than TIME_RESEND ms ago is chosen freely when they are resent.     *)
(***************************************************************************)
EXTENDS SeqNum, Sequences

CONSTANTS Peers,          \* the two ends of the connection
          Lang,           \* Lang[p]: the language of p's handler
          Resenders,      \* the peers whose loop calls ResendMissingPackets
          SendFlags,      \* SendFlags[p]: the sets of flags p sends with
          MAX_RESEND,     \* sends of a packet before giving up (5)
          RX_LIMIT,       \* size of the RX list above which it is trimmed (17)
          MaxMessages,    \* MaxMessages[p]: bound on p's reliable messages
          MaxDeliveries   \* bound on the messages a peer's program is handed

ASSUME UDPHandlerAssumption ==
    /\ \E p, q \in Peers : p # q /\ Peers = {p, q}
    /\ Lang \in [Peers -> Languages]
    /\ Resenders \subseteq Peers
    /\ SendFlags \in [Peers -> SUBSET SUBSET {"UNRELIABLE", "EXPLICITACK"}]
    /\ MAX_RESEND \in Nat \ {0}
    /\ RX_LIMIT \in Nat
    /\ MaxMessages \in [Peers -> Nat]
    /\ MaxDeliveries \in Nat
    /\ 2 * ACK_BITS < PACKET_MAXSEQNUM

VARIABLES localseqnum, remoteseqnum, acksleft_rx, acksleft_tx,
          timedout,       \* p's loop ended with a ClientTimeoutException
          net,            \* net[p]: every datagram ever sent to p
          sent,           \* history: how many reliable messages p submitted
          delivered       \* history: reliable messages returned to p's program

handlers == <<localseqnum, remoteseqnum, acksleft_rx, acksleft_tx, timedout>>
vars     == <<handlers, net, sent, delivered>>

Flags    == {"UNRELIABLE", "EXPLICITACK"}
Datagram == [msg: Nat, seqnum: SeqNums, ack: SeqNums,
             ackbitfield: SUBSET Bits, flags: SUBSET Flags]

\* The peer at the other end of p's connection.
Other(p) == CHOOSE q \in Peers : q # p

IsReliable(pkt)     == "UNRELIABLE" \notin pkt.flags
WantsAck(pkt)       == "EXPLICITACK" \in pkt.flags
SeqNumsOf(pkts)     == { pkts[i].seqnum : i \in DOMAIN pkts }
Pending(p)          == { t.pkt.msg : t \in acksleft_tx[p] }

\* A packet as SendPacket fills it in on its first attempt, when p's newest
\* received number is remote and its RX list is rx.
Stamped(p, msg, flags, remote, rx) ==
    [msg |-> msg, seqnum |-> localseqnum[p], ack |-> remote,
     ackbitfield |-> AckBitfield(Lang[p], remote, SeqNumsOf(rx)),
     flags |-> flags]

\* The ack packet a read sends back: new S64Packet("ACK"), NetLibPacket(0).
AckBeat(p, remote, rx) == Stamped(p, 0, {"UNRELIABLE"}, remote, rx)

Init ==
    /\ localseqnum  = [p \in Peers |-> 0]
    /\ remoteseqnum = [p \in Peers |-> 0]
    /\ acksleft_rx  = [p \in Peers |-> <<>>]
    /\ acksleft_tx  = [p \in Peers |-> {}]
    /\ timedout     = [p \in Peers |-> FALSE]
    /\ net          = [p \in Peers |-> {}]
    /\ sent         = [p \in Peers |-> 0]
    /\ delivered    = [p \in Peers |-> <<>>]

-----------------------------------------------------------------------------
(* SendPacket of a packet just created by p's program *)

SendReliable(p, flags) ==
    LET pkt == Stamped(p, sent[p] + 1, flags, remoteseqnum[p], acksleft_rx[p])
    IN  /\ ~timedout[p]
        /\ "UNRELIABLE" \notin flags
        /\ sent[p] < MaxMessages[p]
        /\ net' = [net EXCEPT ![Other(p)] = @ \union {pkt}]
        /\ acksleft_tx' = [acksleft_tx EXCEPT ![p] = @ \union {[pkt |-> pkt, attempts |-> 1]}]
        /\ localseqnum' = [localseqnum EXCEPT ![p] = SequenceIncrement(@)]
        /\ sent' = [sent EXCEPT ![p] = @ + 1]
        /\ UNCHANGED <<remoteseqnum, acksleft_rx, timedout, delivered>>

\* An unreliable packet carries the number the next reliable one will carry.
SendUnreliable(p, flags) ==
    /\ ~timedout[p]
    /\ "UNRELIABLE" \in flags
    /\ net' = [net EXCEPT ![Other(p)] =
                 @ \union {Stamped(p, 0, flags, remoteseqnum[p], acksleft_rx[p])}]
    /\ UNCHANGED <<handlers, sent, delivered>>

-----------------------------------------------------------------------------
(* ReadS64Packet and ReadNetLibPacket: HandlePacketSequence on a datagram *)

IsDuplicate(p, pkt) == pkt.seqnum \in SeqNumsOf(acksleft_rx[p])

\* The number is in the RX list: nothing of the packet is used.  The Java
\* handler always answers, the C++ one only when an explicit ack is wanted.
ReceiveDuplicate(p) ==
    /\ ~timedout[p]
    /\ \E pkt \in net[p] :
          /\ IsDuplicate(p, pkt)
          /\ net' = IF Lang[p] = "java" \/ WantsAck(pkt)
                    THEN [net EXCEPT ![Other(p)] =
                            @ \union {AckBeat(p, remoteseqnum[p], acksleft_rx[p])}]
                    ELSE net
    /\ UNCHANGED <<handlers, sent, delivered>>

NotAcked(p, pkt) ==
    { t \in acksleft_tx[p] : ~IsAcked(Lang[p], pkt.ack, pkt.ackbitfield, t.pkt.seqnum) }

Newest(p, seqnum) ==
    IF Later(Lang[p], seqnum, remoteseqnum[p]) THEN seqnum ELSE remoteseqnum[p]

\* Mutant: the list is trimmed one packet too early.
RememberLess(rx, pkt) ==
    Append(IF Len(rx) >= RX_LIMIT THEN Tail(rx) ELSE rx,
           [msg |-> pkt.msg, seqnum |-> pkt.seqnum])

\* The RX list with a packet added at the end, the oldest one making room.
Remember(rx, pkt) ==
    Append(IF Len(rx) > RX_LIMIT THEN Tail(rx) ELSE rx,
           [msg |-> pkt.msg, seqnum |-> pkt.seqnum])

ReceiveNew(p) ==
    /\ ~timedout[p]
    /\ \E pkt \in net[p] :
          LET remote == Newest(p, pkt.seqnum)
              rx     == IF IsReliable(pkt) THEN Remember(acksleft_rx[p], pkt)
                                           ELSE acksleft_rx[p]
          IN  /\ ~IsDuplicate(p, pkt)
              /\ IsReliable(pkt) => Len(delivered[p]) < MaxDeliveries
              /\ acksleft_tx' = [acksleft_tx EXCEPT ![p] = NotAcked(p, pkt)]
              /\ remoteseqnum' = [remoteseqnum EXCEPT ![p] = remote]
              /\ acksleft_rx' = [acksleft_rx EXCEPT ![p] = rx]
              /\ net' = IF WantsAck(pkt)
                        THEN [net EXCEPT ![Other(p)] = @ \union {AckBeat(p, remote, rx)}]
                        ELSE net
              /\ delivered' = IF IsReliable(pkt)
                              THEN [delivered EXCEPT ![p] = Append(@, pkt.msg)]
                              ELSE delivered
    /\ UNCHANGED <<localseqnum, timedout, sent>>

-----------------------------------------------------------------------------
(* ResendMissingPackets *)

\* The list is walked in order.  Each packet that is due is sent again, unless
\* it already was sent MAX_RESEND times: then the walk ends with a
\* ClientTimeoutException, the packets behind it keep their attempts, and the
\* owner's loop ends.
Exhausted(due) == { t \in due : t.attempts >= MAX_RESEND }

\* Mutant: resending does not count the attempt (no UpdateSendAttempt).
ResendUncounted(p) ==
    /\ p \in Resenders
    /\ ~timedout[p]
    /\ \E due \in SUBSET acksleft_tx[p] :
          /\ due # {}
          /\ net' = [net EXCEPT ![Other(p)] = @ \union { t.pkt : t \in due \ Exhausted(due) }]
          /\ timedout' = [timedout EXCEPT ![p] = Exhausted(due) # {}]
    /\ UNCHANGED <<localseqnum, remoteseqnum, acksleft_rx, acksleft_tx, sent, delivered>>

\* Mutant: a packet sent too often is not sent again, but nothing is thrown.
ResendSilently(p) ==
    /\ p \in Resenders
    /\ ~timedout[p]
    /\ \E due \in SUBSET acksleft_tx[p] :
          /\ due # {}
          /\ acksleft_tx' = [acksleft_tx EXCEPT ![p] =
                (@ \ due) \union { [t EXCEPT !.attempts = @ + 1] : t \in due }]
          /\ net' = [net EXCEPT ![Other(p)] = @ \union { t.pkt : t \in due \ Exhausted(due) }]
          /\ UNCHANGED timedout
    /\ UNCHANGED <<localseqnum, remoteseqnum, acksleft_rx, sent, delivered>>

ResendMissingPackets(p) ==
    /\ p \in Resenders
    /\ ~timedout[p]
    /\ \E due \in SUBSET acksleft_tx[p] :
          LET reached == { t \in due : \A e \in Exhausted(due) : t.pkt.msg <= e.pkt.msg }
          IN  /\ due # {}
              /\ acksleft_tx' = [acksleft_tx EXCEPT ![p] =
                    (@ \ reached) \union { [t EXCEPT !.attempts = @ + 1] : t \in reached }]
              /\ net' = [net EXCEPT ![Other(p)] =
                    @ \union { t.pkt : t \in reached \ Exhausted(due) }]
              /\ timedout' = [timedout EXCEPT ![p] = Exhausted(due) # {}]
    /\ UNCHANGED <<localseqnum, remoteseqnum, acksleft_rx, sent, delivered>>

-----------------------------------------------------------------------------

Next ==
    \E p \in Peers :
        \/ \E flags \in SendFlags[p] : SendReliable(p, flags)
        \/ \E flags \in SendFlags[p] : SendUnreliable(p, flags)
        \/ ReceiveDuplicate(p)
        \/ ReceiveNew(p)
        \/ ResendMissingPackets(p)

Spec == Init /\ [][Next]_vars

\* A resender's loop polls its socket without blocking and calls
\* ResendMissingPackets whenever there is nothing to read; a packet that stays
\* unacknowledged becomes due again after every send.
FairSpec == Spec /\ \A p \in Peers : WF_vars(ResendMissingPackets(p))

-----------------------------------------------------------------------------
(* Properties *)

\* Types, and two bounds of the code: the RX list never holds more than
\* RX_LIMIT + 1 packets, and no packet is attempted more than MAX_RESEND times
\* unless that attempt ended the sender's loop.
TypeOK ==
    /\ localseqnum  \in [Peers -> SeqNums]
    /\ remoteseqnum \in [Peers -> SeqNums]
    /\ acksleft_rx  \in [Peers -> Seq([msg: Nat, seqnum: SeqNums])]
    /\ acksleft_tx  \in [Peers -> SUBSET [pkt: Datagram, attempts: 1..(MAX_RESEND + 1)]]
    /\ timedout     \in [Peers -> BOOLEAN]
    /\ net          \in [Peers -> SUBSET Datagram]
    /\ sent         \in [Peers -> Nat]
    /\ delivered    \in [Peers -> Seq(Nat)]
    /\ \A p \in Peers :
          /\ Len(acksleft_rx[p]) <= RX_LIMIT + 1
          /\ \A t \in acksleft_tx[p] : t.attempts > MAX_RESEND => timedout[p]

\* The abstract channel the two handlers implement: RX_LIMIT + 1 remembered
\* numbers are what keeps redeliveries apart, and the TX list is what a sender
\* does not know to have arrived.
Channel == INSTANCE MessageChannel WITH
              Window  <- RX_LIMIT + 1,
              pending <- [p \in Peers |-> Pending(p)],
              closed  <- timedout

\* Duplicate suppression, forged or unsent messages, and settling: every step of
\* the handlers is a step of the channel.
ImplementsChannel == Channel!Spec

\* A message leaves the TX list only when the peer's program was handed it
\* (UDPHandler.java:138, "remove all which were acknowledged in the one we
\* received").  The code guarantees it only under the conditions of run
\* udp_explicit_ack.
AckedMeansReceived ==
    \A p \in Peers : \A m \in 1..sent[p] :
        \/ m \in Pending(p)
        \/ \E i \in DOMAIN delivered[Other(p)] : delivered[Other(p)][i] = m

\* Whatever p received no more than ACK_BITS before its newest number is
\* acknowledged by the next packet p sends, as the peer's code decodes it: a
\* sender does not retransmit what recently arrived.
ReceivedIsAdvertised ==
    \A p \in Peers : \A seqnum \in SeqNumsOf(acksleft_rx[p]) :
        LET beat == AckBeat(p, remoteseqnum[p], acksleft_rx[p])
        IN  SequenceDelta(remoteseqnum[p], seqnum) <= ACK_BITS
              => IsAcked(Lang[Other(p)], beat.ack, beat.ackbitfield, seqnum)

\* No message of a resender stays pending for ever: it is acknowledged, or the
\* resender's loop ends with a timeout.
EventuallySettled ==
    \A p \in Resenders : \A m \in 1..MaxMessages[p] :
        m \in Pending(p) ~> (m \notin Pending(p) \/ timedout[p])
=============================================================================
