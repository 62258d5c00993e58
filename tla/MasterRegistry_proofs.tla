----------------------- MODULE MasterRegistry_proofs -----------------------
(***************************************************************************)
(* What the registry keeps, for any game servers and environments: type    *)
(* correctness; in a prompt environment, that WaitAck is satisfied only by *)
(* the acknowledgement of what was sent last, that nobody is erased who    *)
(* was heard of, and that who was heard of is listed.                      *)
(***************************************************************************)
EXTENDS MasterRegistry, SequenceFacts

-----------------------------------------------------------------------------
(* The inductive invariants *)

\* The main loop has a packet of a game server in hand whenever it serves one.
MainTyped ==
    /\ main.client # NoOne => main.client \in Servers /\ main.pkt \in Packets
    /\ main.pc = "receive" => main.client = NoOne

\* Who waits has sent a packet.
WaitsForPacket == \A g \in Servers : InWaitAck(g) => localseqnum[g] \in Nat \ {0}

TypeInv == TypeOK /\ MainTyped /\ WaitsForPacket

\* The sweep has no reason to remove h.
Fresh(h) == servertable[h] = NoEntry \/ ~Expired(h)

\* A server that a thread is busy with was heard of just now, and an entry
\* nobody is busy with is as old as the last packet of its server.
TableOf(g) ==
    /\ servertable[g] <= heard[g] /\ heard[g] <= clock
    /\ thread[g].pc # "none" => heard[g] = clock /\ Fresh(g)
    /\ thread[g].pc = "none" /\ servertable[g] # NoEntry => servertable[g] = heard[g]
    /\ thread[g].pc = "leaving" /\ servertable[g] # NoEntry => servertable[g] = clock

\* The sweep leaves nothing expired behind.
SweepOf(g) ==
    /\ main.pc = "remove" /\ main.dead = g =>
         servertable[g] # NoEntry /\ Expired(g) /\ g \notin main.todo
    /\ main.pc # "receive" =>
         IF g \in main.todo THEN servertable[g] # NoEntry
                            ELSE main.pc = "sweep" \/ main.dead # g => Fresh(g)

TableInv == env.prompt => \A g \in Servers : TableOf(g) /\ SweepOf(g)

\* How often a reply of a type is on a line: not at all, or at most once.
None(line, type) == \A i \in DOMAIN line : line[i].type # type
Once(line, type) == \A i, j \in DOMAIN line : line[i].type = type /\ line[j].type = type => i = j

\* A packet of g is on its way to a thread.
Asks(g) == toMaster[g] # <<>> \/ main.client = g \/ thread[g].pc = "poll"

\* At most one packet of g is on its way, or else at most one reply of each type,
\* the second of which is only sent once nothing of the kind is left.
OneToken(g) ==
    /\ Len(toMaster[g]) <= 1
    /\ toMaster[g] # <<>> => main.client # g
    /\ toMaster[g] # <<>> \/ main.client = g => thread[g].pc = "none"
    /\ IF thread[g].pc = "poll" THEN Len(thread[g].queue) = 1 ELSE thread[g].queue = <<>>
    /\ Asks(g) => toServer[g] = <<>> /\ msgqueue[g] = <<>>
    /\ thread[g].pc = "HEARTBEAT" =>
         None(toServer[g], "REGISTER") /\ None(msgqueue[g], "REGISTER")
    /\ \A type \in {"ACK", "REGISTER"} :
         /\ Once(toServer[g], type) /\ Once(msgqueue[g], type)
         /\ None(toServer[g], type) \/ None(msgqueue[g], type)

\* All that is on its way when g does not wait is a request to register, at the
\* top of the loop.
AtRest(g) ==
    ~InWaitAck(g) =>
        /\ Settled(g) /\ None(msgqueue[g], "ACK")
        /\ pc[g] # "top" => msgqueue[g] = <<>>

Newest(g) == localseqnum[g] - 1

\* All packets on a line have a number, all replies are to the packet of a number,
\* all packets are of a type.
Numbered(line, n)  == \A i \in DOMAIN line : line[i].seqnum = n
Answering(line, n) == \A i \in DOMAIN line : line[i].ack = n
AllOf(line, type)  == \A i \in DOMAIN line : line[i].type = type

\* Whatever is on its way is the packet that was sent last, or a reply to it, and
\* that packet was read if there is a reply.
TokenIsNewest(g) ==
    /\ Numbered(toMaster[g], Newest(g)) /\ Numbered(thread[g].queue, Newest(g))
    /\ main.client = g => main.pkt.seqnum = Newest(g)
    /\ thread[g].pc = "HEARTBEAT" => thread[g].seqnum = Newest(g)
    /\ Answering(toServer[g], Newest(g)) /\ Answering(msgqueue[g], Newest(g))
    /\ toServer[g] # <<>> \/ msgqueue[g] # <<>> \/ thread[g].pc = "HEARTBEAT"
         => Newest(g) \in read[g]

\* While g registers, it is a REGISTER packet that is dealt with.
OnlyRegister(g) ==
    pc[g] = "registering" =>
        /\ AllOf(toMaster[g], "REGISTER") /\ AllOf(thread[g].queue, "REGISTER")
        /\ main.client = g => main.pkt.type = "REGISTER"
        /\ thread[g].pc \notin {"HEARTBEAT", "update"}
        /\ None(toServer[g], "REGISTER") /\ None(msgqueue[g], "REGISTER")
        /\ \A i \in DOMAIN acksleft_tx[g] :
              acksleft_tx[g][i].pkt.seqnum = Newest(g) => acksleft_tx[g][i].pkt.type = "REGISTER"

\* Nothing but the packet sent last can be sent again: a packet that was given up
\* is at the head of the list, and keeps ResendMissingPackets from all others.
Old(tx, n) == \A i \in DOMAIN tx : tx[i].pkt.seqnum < n
Stuck(tx)  == tx = <<>> \/ tx[1].attempts >= MAX_RESEND

OneUnspent(g) ==
    LET tx == acksleft_tx[g]
    IN  \/ /\ Old(tx, localseqnum[g]) /\ Stuck(tx)
           /\ \A i \in DOMAIN tx : i # Len(tx) => tx[i].pkt.seqnum < Newest(g)
        \/ InWaitAck(g) /\ Len(tx) = 1 /\ tx[1].pkt.seqnum = Newest(g)

TokenInv(g) ==
    /\ OneToken(g) /\ AtRest(g) /\ TokenIsNewest(g) /\ OnlyRegister(g) /\ OneUnspent(g)
    /\ confirmed[g] \subseteq read[g]

ConfirmInv == env.prompt => \A g \in Servers : TokenInv(g)

\* The master server was told of g, and knows nothing.
Missed(g) ==
    /\ up /\ heard[g] > booted /\ clock - heard[g] <= TIME_KEEPSERVERS
    /\ servertable[g] = NoEntry /\ ~unasked[g]

\* Then a thread is about to find out, g registers, or the request to is with it.
MissedIsAsked(g) ==
    Missed(g) => \/ thread[g].pc \in {"poll", "REGISTER", "HEARTBEAT"}
                 \/ pc[g] = "registering"
                 \/ /\ pc[g] \in {"beating", "top"}
                    /\ ~(None(toServer[g], "REGISTER") /\ None(msgqueue[g], "REGISTER"))

\* A registration is acknowledged before it is carried out, but only just.
AckedIsListed(g) ==
    pc[g] = "registering" /\ (toServer[g] # <<>> \/ msgqueue[g] # <<>>)
        => thread[g].pc = "REGISTER" \/ ~Missed(g)

ListedOf(g) == MissedIsAsked(g) /\ AckedIsListed(g)

ListedInv == env.prompt => \A g \in Servers : ListedOf(g)

-----------------------------------------------------------------------------
(* Facts about the TX list *)

\* A reply leaves the TX list as it is, or takes the packet it acknowledges.
LEMMA NotAckedFacts ==
    ASSUME TypeOK, NEW g \in Servers, NEW reply \in Replies
    PROVE  /\ NotAcked(g, reply) \in Seq(Entries)
           /\ \/ /\ NotAcked(g, reply) = acksleft_tx[g]
                 /\ \A i \in DOMAIN acksleft_tx[g] : acksleft_tx[g][i].pkt.seqnum # reply.ack
              \/ \E i \in DOMAIN acksleft_tx[g] :
                    /\ acksleft_tx[g][i].pkt.seqnum = reply.ack
                    /\ NotAcked(g, reply) = RemoveAt(acksleft_tx[g], i)
<1> DEFINE tx == acksleft_tx[g]
           acked == { i \in DOMAIN tx : tx[i].pkt.seqnum = reply.ack }
<1>1. tx \in Seq(Entries)
  BY DEF TypeOK, Entries, Packets
<1>2. CASE acked = {}
  BY <1>1, <1>2 DEF NotAcked
<1>3. CASE acked # {}
  <2> DEFINE k == CHOOSE i \in acked : TRUE
  <2>1. k \in acked
    BY <1>3
  <2>2. NotAcked(g, reply) = RemoveAt(tx, k)
    BY <1>3 DEF NotAcked
  <2> QED
    BY <1>1, <2>1, <2>2, RemoveAtFacts
<1> QED
  BY <1>2, <1>3

\* What ResendMissingPackets sends, and makes of the TX list, when it gets to the
\* n-th packet.
Again(tx, n)  == [i \in 1..n |-> tx[i].pkt]
Resent(tx, n) ==
    [i \in DOMAIN tx |-> IF i <= n THEN [tx[i] EXCEPT !.attempts = @ + 1] ELSE tx[i]]

LEMMA ResendFacts ==
    ASSUME NEW tx \in Seq(Entries), NEW n \in 0..Len(tx), 1..n \intersect Spent(tx) = {}
    PROVE  Again(tx, n) \in Seq(Packets) /\ Resent(tx, n) \in Seq(Entries)
<1>1. ASSUME NEW i \in 1..Len(tx)
      PROVE  tx[i] \in Entries
  OBVIOUS
<1>2. ASSUME NEW i \in 1..Len(tx), i <= n
      PROVE  [tx[i] EXCEPT !.attempts = @ + 1] \in Entries
  <2>1. i \notin Spent(tx)
    BY <1>2
  <2>2. tx[i].attempts + 1 \in 1..MAX_RESEND
    BY <1>1, <2>1, MasterRegistryAssumption DEF Spent, Entries
  <2> QED
    BY <1>1, <2>2 DEF Entries
<1>3. \A i \in 1..n : tx[i].pkt \in Packets
  BY <1>1 DEF Entries
<1>4. Again(tx, n) \in Seq(Packets)
  BY <1>3 DEF Again
<1>5. DOMAIN tx = 1..Len(tx)
  OBVIOUS
<1>6. \A i \in 1..Len(tx) : (IF i <= n THEN [tx[i] EXCEPT !.attempts = @ + 1] ELSE tx[i]) \in Entries
  BY <1>1, <1>2
<1>7. Resent(tx, n) \in [1..Len(tx) -> Entries]
  BY <1>5, <1>6 DEF Resent
<1> QED
  BY <1>4, <1>7

-----------------------------------------------------------------------------
(* Type correctness *)

\* A flag of a game server that is set anew is still a flag.
LEMMA FlagSet ==
    ASSUME NEW f \in [Servers -> BOOLEAN], NEW g \in Servers, NEW b
    PROVE  [f EXCEPT ![g] = @ \/ b] \in [Servers -> BOOLEAN]
  BY Zenon

\* ... and the same as before if there was no reason to set it.
LEMMA FlagStays ==
    ASSUME NEW f \in [Servers -> BOOLEAN], NEW g \in Servers, NEW b, ~b
    PROVE  [f EXCEPT ![g] = @ \/ b][g] = f[g]
  BY Zenon

\* There being no thread is one state of a thread, and a thread may be anywhere.
LEMMA ThreadFacts ==
    /\ NoThread \in Threads
    /\ \A t \in Threads : \A p \in {"none", "poll", "REGISTER", "HEARTBEAT", "update", "leaving"} :
         [t EXCEPT !.pc = p] \in Threads
<1>1. <<>> \in Seq(Packets)
  OBVIOUS
<1>2. NoThread \in Threads
  BY <1>1 DEF NoThread, Threads
<1> QED
  BY <1>2 DEF Threads

\* The types of the game servers' part.
LEMMA GameServerTypes ==
    ASSUME TypeInv, NEW g \in Servers, GameServer(g)
    PROVE  TypeInv'
<1> USE DEF Packets, Replies, Entries
<1>1. ASSUME NEW type \in {"REGISTER", "HEARTBEAT"}, NEW tx \in Seq(Entries), Send(g, type, tx)
      PROVE  /\ toMaster' \in [Servers -> Seq(Packets)]
             /\ acksleft_tx' \in [Servers -> Seq(Entries)]
             /\ localseqnum' \in [Servers -> Nat]
             /\ pc' \in [Servers -> {"top", "registering", "beating", "asleep", "awake", "stopped"}]
             /\ WaitsForPacket'
  <2> DEFINE pkt == [type |-> type, seqnum |-> localseqnum[g]]
             entry == [pkt |-> pkt, attempts |-> 1]
  <2>1. pkt \in Packets
    BY DEF TypeInv, TypeOK, Packets
  <2>2. entry \in Entries
    BY <2>1, MasterRegistryAssumption DEF Entries
  <2>3. /\ toMaster' = [toMaster EXCEPT ![g] = Append(@, pkt)]
        /\ acksleft_tx' = [acksleft_tx EXCEPT ![g] = Append(tx, entry)]
        /\ localseqnum' = [localseqnum EXCEPT ![g] = @ + 1]
        /\ pc' = [pc EXCEPT ![g] = IF type = "REGISTER" THEN "registering" ELSE "beating"]
    BY <1>1 DEF Send
  <2> HIDE DEF pkt, entry
  <2>4. Append(toMaster[g], pkt) \in Seq(Packets) /\ Append(tx, entry) \in Seq(Entries)
    BY <2>1, <2>2 DEF TypeInv, TypeOK
  <2>5. /\ toMaster' \in [Servers -> Seq(Packets)]
        /\ acksleft_tx' \in [Servers -> Seq(Entries)]
    BY <2>3, <2>4 DEF TypeInv, TypeOK
  <2>6. /\ localseqnum' \in [Servers -> Nat]
        /\ pc' \in [Servers -> {"top", "registering", "beating", "asleep", "awake", "stopped"}]
    BY <2>3, SMTT(20) DEF TypeInv, TypeOK
  <2>7. WaitsForPacket'
    <3>1. localseqnum'[g] \in Nat \ {0}
      BY <2>3 DEF TypeInv, TypeOK
    <3>2. \A h \in Servers : h # g => localseqnum'[h] = localseqnum[h] /\ pc'[h] = pc[h]
      BY <2>3 DEF TypeInv, TypeOK
    <3> QED
      BY <3>1, <3>2 DEF TypeInv, WaitsForPacket, InWaitAck
  <2> QED
    BY <2>5, <2>6, <2>7
<1>2. CASE RegisterFirst(g)
  <2>1. msgqueue' \in [Servers -> Seq(Replies)]
    BY <1>2 DEF RegisterFirst, TypeInv, TypeOK
  <2>2. acksleft_tx[g] \in Seq(Entries)
    BY DEF TypeInv, TypeOK
  <2> QED
    BY <1>1, <1>2, <2>1, <2>2
       DEF RegisterFirst, TypeInv, TypeOK, MainTyped, master, world, history
<1>3. ASSUME msgqueue[g] # <<>>
      PROVE  /\ Head(msgqueue[g]) \in Replies
             /\ NotAcked(g, Head(msgqueue[g])) \in Seq(Entries)
             /\ [msgqueue EXCEPT ![g] = Tail(@)] \in [Servers -> Seq(Replies)]
  <2>1. msgqueue[g] \in Seq(Replies)
    BY DEF TypeInv, TypeOK
  <2>2. Head(msgqueue[g]) \in Replies /\ Tail(msgqueue[g]) \in Seq(Replies)
    BY <1>3, <2>1, TailFacts
  <2> QED
    BY <2>2, NotAckedFacts DEF TypeInv, TypeOK
<1>4. CASE RegisterAgain(g)
  BY <1>1, <1>3, <1>4 DEF RegisterAgain, TypeInv, TypeOK, MainTyped, master, world, history
<1>5. CASE NothingAsked(g)
  <2>1. msgqueue' \in [Servers -> Seq(Replies)] /\ acksleft_tx' \in [Servers -> Seq(Entries)]
    <3>1. CASE msgqueue[g] = <<>>
      BY <1>5, <3>1 DEF NothingAsked, TypeInv, TypeOK
    <3>2. CASE msgqueue[g] # <<>>
      <4>1. /\ acksleft_tx' = [acksleft_tx EXCEPT ![g] = NotAcked(g, Head(msgqueue[g]))]
            /\ msgqueue' = [msgqueue EXCEPT ![g] = Tail(@)]
        BY <1>5, <3>2 DEF NothingAsked
      <4> QED
        BY <1>3, <3>2, <4>1 DEF TypeInv, TypeOK
    <3> QED
      BY <3>1, <3>2
  <2>2. pc' \in [Servers -> {"top", "registering", "beating", "asleep", "awake", "stopped"}]
    BY <1>5 DEF NothingAsked, TypeInv, TypeOK
  <2> QED
    BY <1>5, <2>1, <2>2
       DEF NothingAsked, TypeInv, TypeOK, MainTyped, WaitsForPacket, InWaitAck, network, master, world, history
<1>6. CASE Heartbeat(g)
  <2>1. acksleft_tx[g] \in Seq(Entries)
    BY DEF TypeInv, TypeOK
  <2> QED
    BY <1>1, <1>6, <2>1 DEF Heartbeat, TypeInv, TypeOK, MainTyped, master, world, history
<1>7. CASE ReadReply(g)
  <2>1. msgqueue' \in [Servers -> Seq(Replies)] /\ acksleft_tx' \in [Servers -> Seq(Entries)]
    BY <1>3, <1>7 DEF ReadReply, TypeInv, TypeOK
  <2>2. /\ pc' \in [Servers -> {"top", "registering", "beating", "asleep", "awake", "stopped"}]
        /\ firsttime' \in [Servers -> BOOLEAN]
    BY <1>7 DEF ReadReply, AfterWait, TypeInv, TypeOK
  <2>4. confirmed' \in [Servers -> SUBSET Nat]
    <3>1. localseqnum[g] - 1 \in Nat
      BY <1>7 DEF ReadReply, TypeInv, WaitsForPacket
    <3> QED
      <4>1. \/ confirmed' = confirmed
            \/ confirmed' = [confirmed EXCEPT ![g] = @ \union {localseqnum[g] - 1}]
        BY <1>7 DEF ReadReply
      <4>2. confirmed[g] \union {localseqnum[g] - 1} \in SUBSET Nat
        BY <3>1 DEF TypeInv, TypeOK
      <4> QED
        BY <4>1, <4>2 DEF TypeInv, TypeOK
  <2>3. unasked' \in [Servers -> BOOLEAN]
    BY <1>7, FlagSet DEF ReadReply, TypeInv, TypeOK
  <2> QED
    BY <1>7, <2>1, <2>2, <2>3, <2>4, ZenonT(40)
       DEF ReadReply, AfterWait, TypeInv, TypeOK, MainTyped, WaitsForPacket, InWaitAck, network, master, world
<1>8. CASE Resend(g)
  <2>1. PICK n \in 0..Len(acksleft_tx[g]) :
          /\ 1..n \intersect Spent(acksleft_tx[g]) = {}
          /\ toMaster' = [toMaster EXCEPT ![g] = toMaster[g] \o Again(acksleft_tx[g], n)]
          /\ acksleft_tx' = [acksleft_tx EXCEPT ![g] = Resent(acksleft_tx[g], n)]
    BY <1>8 DEF Resend, Again, Resent
  <2>2. acksleft_tx[g] \in Seq(Entries) /\ toMaster[g] \in Seq(Packets)
    BY DEF TypeInv, TypeOK
  <2>3. Again(acksleft_tx[g], n) \in Seq(Packets) /\ Resent(acksleft_tx[g], n) \in Seq(Entries)
    BY <2>1, <2>2, ResendFacts
  <2>4. toMaster[g] \o Again(acksleft_tx[g], n) \in Seq(Packets)
    BY <2>2, <2>3
  <2>5. toMaster' \in [Servers -> Seq(Packets)] /\ acksleft_tx' \in [Servers -> Seq(Entries)]
    BY <2>1, <2>3, <2>4 DEF TypeInv, TypeOK
  <2>6. /\ pc' \in [Servers -> {"top", "registering", "beating", "asleep", "awake", "stopped"}]
        /\ firsttime' \in [Servers -> BOOLEAN]
    <3>1. \/ pc' = pc /\ firsttime' = firsttime
          \/ /\ pc' = [pc EXCEPT ![g] = IF firsttime[g] THEN "stopped" ELSE AfterWait(g)]
             /\ firsttime' = [firsttime EXCEPT ![g] = FALSE]
      BY <1>8 DEF Resend
    <3> QED
      BY <3>1 DEF AfterWait, TypeInv, TypeOK
  <2>7. unasked' \in [Servers -> BOOLEAN]
    <3>1. \/ unasked' = unasked
          \/ unasked' = [unasked EXCEPT ![g] = @ \/ pc[g] = "registering"]
      BY <1>8 DEF Resend
    <3> QED
      BY <3>1, FlagSet DEF TypeInv, TypeOK
  <2> QED
    BY <1>8, <2>5, <2>6, <2>7, ZenonT(40) DEF Resend, TypeInv, TypeOK, MainTyped,
           WaitsForPacket, InWaitAck, master, world
<1>9. CASE ReceiveReply(g)
  <2>1. PICK i \in Ready(toServer[g]) :
          /\ toServer' = [toServer EXCEPT ![g] = RemoveAt(@, i)]
          /\ msgqueue' = [msgqueue EXCEPT ![g] = Append(@, toServer[g][i])]
    BY <1>9 DEF ReceiveReply
  <2>2. i \in DOMAIN toServer[g] /\ toServer[g] \in Seq(Replies) /\ msgqueue[g] \in Seq(Replies)
    BY DEF Ready, TypeInv, TypeOK
  <2>3. /\ RemoveAt(toServer[g], i) \in Seq(Replies)
        /\ Append(msgqueue[g], toServer[g][i]) \in Seq(Replies)
    <3>1. RemoveAt(toServer[g], i) \in Seq(Replies)
      BY <2>2, RemoveAtFacts
    <3>2. toServer[g][i] \in Replies
      BY <2>2, RemoveAtFacts
    <3> QED
      BY <2>2, <3>1, <3>2, AppendFacts
  <2>4. toServer' \in [Servers -> Seq(Replies)] /\ msgqueue' \in [Servers -> Seq(Replies)]
    BY <2>1, <2>3 DEF TypeInv, TypeOK
  <2> QED
    BY <1>9, <2>4 DEF ReceiveReply, handler, TypeInv, TypeOK, MainTyped, WaitsForPacket, InWaitAck, master, world, history
<1> QED
  BY <1>2, <1>4, <1>5, <1>6, <1>7, <1>8, <1>9 DEF GameServer

\* The types of the master server's part: its main loop ...
LEMMA MainLoopTypes ==
    ASSUME TypeInv, MainLoop \/ ReceiveOther
    PROVE  TypeInv'
<1>1. ASSUME NEW g \in Servers, Receive(g) PROVE TypeInv'
  <2>1. PICK i \in Ready(toMaster[g]) :
          /\ toMaster' = [toMaster EXCEPT ![g] = RemoveAt(@, i)]
          /\ main' = [Waiting EXCEPT !.pc = "sweep", !.client = g,
                                     !.pkt = toMaster[g][i], !.todo = Registered]
    BY <1>1 DEF Receive
  <2>2. i \in DOMAIN toMaster[g] /\ toMaster[g] \in Seq(Packets)
    BY DEF Ready, TypeInv, TypeOK
  <2>3. RemoveAt(toMaster[g], i) \in Seq(Packets) /\ toMaster[g][i] \in Packets
    BY <2>2, RemoveAtFacts
  <2>4. toMaster' \in [Servers -> Seq(Packets)]
    BY <2>1, <2>3 DEF TypeInv, TypeOK
  <2>5. /\ main' \in [pc: {"receive", "sweep", "remove"}, client: Servers \union {NoOne},
                      pkt: [type: {"REGISTER", "HEARTBEAT", "LIST"}, seqnum: Nat],
                      todo: SUBSET Servers, dead: Servers \union {NoOne}]
        /\ MainTyped'
    BY <2>1, <2>3 DEF Waiting, Registered, Packets, MainTyped
  <2> QED
    BY <1>1, <2>4, <2>5
       DEF Receive, TypeInv, TypeOK, WaitsForPacket, InWaitAck, gameserver, handler, world, history
<1>2. ASSUME ReceiveOther PROVE TypeInv'
  BY <1>2 DEF ReceiveOther, Waiting, Registered, TypeInv, TypeOK, MainTyped, WaitsForPacket,
              InWaitAck, gameserver, handler, network, world, history
<1>3. ASSUME NEW h \in Servers, CheckServer(h) PROVE TypeInv'
  BY <1>3 DEF CheckServer, TypeInv, TypeOK, MainTyped, WaitsForPacket, InWaitAck,
              gameserver, handler, network, world, history
<1>4. ASSUME RemoveServer PROVE TypeInv'
  BY <1>4 DEF RemoveServer, NoEntry, TypeInv, TypeOK, MainTyped, WaitsForPacket, InWaitAck,
              gameserver, handler, network, world, history
<1>5. ASSUME Dispatch PROVE TypeInv'
  <2>1. main' \in [pc: {"receive", "sweep", "remove"}, client: Servers \union {NoOne},
                   pkt: [type: {"REGISTER", "HEARTBEAT", "LIST"}, seqnum: Nat],
                   todo: SUBSET Servers, dead: Servers \union {NoOne}] /\ MainTyped'
    BY <1>5 DEF Dispatch, Waiting, MainTyped
  <2>2. CASE main.client = NoOne
    BY <1>5, <2>1, <2>2 DEF Dispatch, TypeInv, TypeOK, WaitsForPacket, InWaitAck,
                            gameserver, handler, network, world
  <2>3. CASE main.client # NoOne
    <3>1. PICK g \in Servers : g = main.client /\ main.pkt \in Packets
      BY <2>3 DEF TypeInv, MainTyped
    <3>2. thread[g] \in Threads /\ thread[g].queue \in Seq(Packets)
      BY DEF TypeInv, TypeOK, Threads
    <3>3. Append(thread[g].queue, main.pkt) \in Seq(Packets)
      BY <3>1, <3>2, AppendFacts
    <3>4. /\ heard' = [heard EXCEPT ![g] = clock]
          /\ thread' = [thread EXCEPT ![g].pc = IF @ = "none" THEN "poll" ELSE @,
                                      ![g].queue = Append(@, main.pkt)]
      BY <1>5, <2>3, <3>1 DEF Dispatch
    <3>5. thread \in [Servers -> Threads]
      BY DEF TypeInv, TypeOK
    <3>6. thread' \in [Servers -> Threads]
      BY <3>3, <3>4, <3>5, ZenonT(40) DEF Threads
    <3>7. heard' \in [Servers -> Nat]
      BY <3>4 DEF TypeInv, TypeOK
    <3> QED
      BY <1>5, <2>1, <3>6, <3>7
         DEF Dispatch, TypeInv, TypeOK, WaitsForPacket, InWaitAck,
             gameserver, handler, network, world
  <2> QED
    BY <2>2, <2>3
<1> QED
  BY <1>1, <1>2, <1>3, <1>4, <1>5 DEF MainLoop

\* ... and its threads.
LEMMA ThreadTypes ==
    ASSUME TypeInv, NEW g \in Servers, Thread(g)
    PROVE  TypeInv'
<1>1. ASSUME NEW type \in {"ACK", "REGISTER"}, NEW ack \in Nat, Reply(g, type, ack)
      PROVE  toServer' \in [Servers -> Seq(Replies)]
  <2>1. [type |-> type, ack |-> ack] \in Replies
    BY DEF Replies
  <2>2. Append(toServer[g], [type |-> type, ack |-> ack]) \in Seq(Replies)
    BY <2>1, AppendFacts DEF TypeInv, TypeOK
  <2> QED
    BY <1>1, <2>2 DEF Reply, TypeInv, TypeOK
<1>2. CASE ReadPacket(g)
  <2>1. thread[g].queue \in Seq(Packets)
    BY DEF TypeInv, TypeOK, Threads
  <2>2. Head(thread[g].queue) \in Packets /\ Tail(thread[g].queue) \in Seq(Packets)
    BY <1>2, <2>1, TailFacts DEF ReadPacket
  <2> DEFINE pkt == Head(thread[g].queue)
  <2>3. /\ Reply(g, "ACK", pkt.seqnum)
        /\ read' = [read EXCEPT ![g] = @ \union {pkt.seqnum}]
        /\ thread' = [thread EXCEPT ![g] =
              [pc |-> pkt.type, queue |-> Tail(@.queue), seqnum |-> pkt.seqnum]]
    BY <1>2 DEF ReadPacket
  <2> HIDE DEF pkt
  <2>4. pkt.seqnum \in Nat /\ pkt.type \in {"REGISTER", "HEARTBEAT"}
    BY <2>2 DEF pkt, Packets
  <2>5. toServer' \in [Servers -> Seq(Replies)]
    BY <1>1, <2>3, <2>4
  <2>6. read[g] \union {pkt.seqnum} \in SUBSET Nat
    BY <2>4 DEF TypeInv, TypeOK
  <2>7. read' \in [Servers -> SUBSET Nat]
    BY <2>3, <2>6 DEF TypeInv, TypeOK
  <2>8. thread' \in [Servers -> Threads]
    BY <2>2, <2>3, <2>4 DEF Threads, TypeInv, TypeOK
  <2> QED
    BY <1>2, <2>5, <2>7, <2>8 DEF ReadPacket, TypeInv, TypeOK, MainTyped, WaitsForPacket, InWaitAck,
                                  gameserver, handler, world
<1>3. CASE RegisterServer(g)
  <2>1. thread' \in [Servers -> Threads]
    BY <1>3, ThreadFacts DEF RegisterServer, TypeInv, TypeOK
  <2>2. servertable' \in [Servers -> Nat]
    BY <1>3 DEF RegisterServer, TypeInv, TypeOK
  <2>3. unasked' \in [Servers -> BOOLEAN]
    BY <1>3 DEF RegisterServer, TypeInv, TypeOK
  <2> QED
    BY <1>3, <2>1, <2>2, <2>3
       DEF RegisterServer, TypeInv, TypeOK, MainTyped, WaitsForPacket, InWaitAck,
           gameserver, handler, network, world
<1>4. CASE LookupServer(g)
  <2>1. toServer' \in [Servers -> Seq(Replies)]
    BY <1>1, <1>4 DEF LookupServer, Threads, TypeInv, TypeOK
  <2>2. thread' \in [Servers -> Threads]
    <3>1. PICK p \in {"leaving", "update"} : thread' = [thread EXCEPT ![g].pc = p]
      BY <1>4 DEF LookupServer
    <3>2. thread \in [Servers -> Threads]
      BY DEF TypeInv, TypeOK
    <3>3. [thread[g] EXCEPT !.pc = p] \in Threads
      BY <3>2, ThreadFacts
    <3> QED
      BY <3>1, <3>2, <3>3
  <2> QED
    BY <1>4, <2>1, <2>2
       DEF LookupServer, TypeInv, TypeOK, MainTyped, WaitsForPacket, InWaitAck,
           gameserver, handler, world, history
<1>5. CASE UpdateServer(g)
  <2>1. thread' \in [Servers -> Threads]
    BY <1>5, ThreadFacts DEF UpdateServer, TypeInv, TypeOK
  <2>2. servertable' \in [Servers -> Nat]
    BY <1>5 DEF UpdateServer, TypeInv, TypeOK
  <2> QED
    BY <1>5, <2>1, <2>2
       DEF UpdateServer, TypeInv, TypeOK, MainTyped, WaitsForPacket, InWaitAck,
           gameserver, handler, network, world, history
<1>6. CASE Exit(g)
  <2>1. thread' \in [Servers -> Threads]
    BY <1>6, ThreadFacts DEF Exit, TypeInv, TypeOK
  <2> QED
    BY <1>6, <2>1
       DEF Exit, TypeInv, TypeOK, MainTyped, WaitsForPacket, InWaitAck,
           gameserver, handler, network, world, history
<1> QED
  BY <1>2, <1>3, <1>4, <1>5, <1>6 DEF Thread

\* The types of the network, and of the world.
LEMMA WorldTypes ==
    ASSUME TypeInv, (\E g \in Servers : Lose(g)) \/ Crash \/ Boot \/ Tick
    PROVE  TypeInv'
<1>1. ASSUME NEW g \in Servers, Lose(g) PROVE TypeInv'
  <2>1. toMaster[g] \in Seq(Packets) /\ toServer[g] \in Seq(Replies)
    BY DEF TypeInv, TypeOK
  <2>2. /\ \A i \in DOMAIN toMaster[g] : RemoveAt(toMaster[g], i) \in Seq(Packets)
        /\ \A i \in DOMAIN toServer[g] : RemoveAt(toServer[g], i) \in Seq(Replies)
    BY <2>1, RemoveAtFacts
  <2>3. \/ env' = env
        \/ env.losses > 0 /\ env' = [env EXCEPT !.losses = @ - 1]
    <3>1. CASE toMaster' = toMaster
      BY <1>1, <3>1 DEF Lose
    <3> QED
      BY <1>1 DEF Lose
  <2>4. env' \in [servers: SUBSET Servers, prompt: BOOLEAN, reorders: BOOLEAN,
                  losses: Nat, crashes: Nat, clock: Nat]
    <3>1. env \in [servers: SUBSET Servers, prompt: BOOLEAN, reorders: BOOLEAN,
                   losses: Nat, crashes: Nat, clock: Nat]
      BY DEF TypeInv, TypeOK
    <3> QED
      BY <2>3, <3>1
  <2>5. \/ toMaster' = toMaster
        \/ \E i \in DOMAIN toMaster[g] : toMaster' = [toMaster EXCEPT ![g] = RemoveAt(@, i)]
    BY <1>1, Zenon DEF Lose
  <2>6. \/ toServer' = toServer
        \/ \E i \in DOMAIN toServer[g] : toServer' = [toServer EXCEPT ![g] = RemoveAt(@, i)]
    BY <1>1, Zenon DEF Lose
  <2>7. toMaster' \in [Servers -> Seq(Packets)]
    <3>1. toMaster \in [Servers -> Seq(Packets)]
      BY DEF TypeInv, TypeOK
    <3> QED
      BY <2>2, <2>5, <3>1
  <2>8. toServer' \in [Servers -> Seq(Replies)]
    <3>1. toServer \in [Servers -> Seq(Replies)]
      BY DEF TypeInv, TypeOK
    <3> QED
      BY <2>2, <2>6, <3>1
  <2>9. unasked' \in [Servers -> BOOLEAN]
    BY <1>1, FlagSet DEF Lose, TypeInv, TypeOK
  <2> QED
    BY <1>1, <2>4, <2>7, <2>8, <2>9
       DEF Lose, TypeInv, TypeOK, MainTyped, WaitsForPacket, InWaitAck, gameserver, handler, master
<1>2. ASSUME Crash PROVE TypeInv'
  <2>1. thread' \in [Servers -> Threads]
    BY <1>2, ThreadFacts DEF Crash
  <2>2. servertable' \in [Servers -> Nat]
    BY <1>2 DEF Crash, NoEntry
  <2>3. env.crashes > 0 /\ env' = [env EXCEPT !.crashes = @ - 1]
    BY <1>2 DEF Crash
  <2>4. env' \in [servers: SUBSET Servers, prompt: BOOLEAN, reorders: BOOLEAN,
                  losses: Nat, crashes: Nat, clock: Nat]
    <3>1. env \in [servers: SUBSET Servers, prompt: BOOLEAN, reorders: BOOLEAN,
                   losses: Nat, crashes: Nat, clock: Nat]
      BY DEF TypeInv, TypeOK
    <3> QED
      BY <2>3, <3>1
  <2> QED
    BY <1>2, <2>1, <2>2, <2>4
       DEF Crash, Waiting, TypeInv, TypeOK, MainTyped, WaitsForPacket, InWaitAck,
           gameserver, handler, network, history
<1>3. ASSUME Boot PROVE TypeInv'
  BY <1>3 DEF Boot, TypeInv, TypeOK, MainTyped, WaitsForPacket, InWaitAck,
              gameserver, handler, network, history
<1>4. ASSUME Tick PROVE TypeInv'
  BY <1>4 DEF Tick, TypeInv, TypeOK, MainTyped, WaitsForPacket, InWaitAck,
              handler, network, master, history
<1> QED
  BY <1>1, <1>2, <1>3, <1>4

\* The types hold, and nothing is sent more than MAX_RESEND times
\* (MasterConnectionThread, UDPHandler.ResendMissingPackets).
LEMMA TypeStep == TypeInv /\ [Next]_vars => TypeInv'
<1>1. ASSUME TypeInv, UNCHANGED vars PROVE TypeInv'
  BY <1>1 DEF vars, gameserver, handler, network, master, world, history,
              TypeInv, TypeOK, MainTyped, WaitsForPacket, InWaitAck
<1> QED
  BY <1>1, GameServerTypes, MainLoopTypes, ThreadTypes, WorldTypes DEF Next

LEMMA TypeInit == Init => TypeInv
<1> SUFFICES ASSUME Init PROVE TypeInv
  OBVIOUS
<1>1. env \in [servers: SUBSET Servers, prompt: BOOLEAN, reorders: BOOLEAN,
               losses: Nat, crashes: Nat, clock: Nat]
  BY MasterRegistryAssumption DEF Init
<1>2. thread \in [Servers -> Threads]
  BY ThreadFacts DEF Init
<1>3. main \in [pc: {"receive", "sweep", "remove"}, client: Servers \union {NoOne},
                pkt: [type: {"REGISTER", "HEARTBEAT", "LIST"}, seqnum: Nat],
                todo: SUBSET Servers, dead: Servers \union {NoOne}]
      /\ MainTyped
  BY DEF Init, Waiting, MainTyped
<1>4. /\ acksleft_tx \in [Servers -> Seq(Entries)] /\ msgqueue \in [Servers -> Seq(Replies)]
      /\ toMaster \in [Servers -> Seq(Packets)] /\ toServer \in [Servers -> Seq(Replies)]
  BY DEF Init
<1>5. /\ pc \in [Servers -> {"top", "registering", "beating", "asleep", "awake", "stopped"}]
      /\ WaitsForPacket
  BY DEF Init, WaitsForPacket, InWaitAck
<1> QED
  BY <1>1, <1>2, <1>3, <1>4, <1>5 DEF Init, NoEntry, TypeInv, TypeOK

THEOREM RegistryTypes == Spec => []TypeOK
<1>1. TypeInv => TypeOK
  BY DEF TypeInv
<1> QED
  BY <1>1, TypeInit, TypeStep, PTL DEF Spec

-----------------------------------------------------------------------------
(* The server table *)

\* What the table's invariant needs of the types.
TableTypes ==
    /\ servertable \in [Servers -> Nat] /\ heard \in [Servers -> Nat] /\ clock \in Nat
    /\ thread \in [Servers -> Threads]
    /\ main.pc \in {"receive", "sweep", "remove"} /\ main.todo \in SUBSET Servers
    /\ DOMAIN main = {"pc", "client", "pkt", "todo", "dead"}
    /\ TIME_KEEPSERVERS \in Nat

LEMMA TableTypesHold == TypeInv => TableTypes
  BY MasterRegistryAssumption DEF TypeInv, TypeOK, TableTypes

\* Whether the environment is prompt is settled from the start.
LEMMA PromptKept == TypeInv /\ [Next]_vars => env'.prompt = env.prompt
<1> SUFFICES ASSUME TypeInv, [Next]_vars PROVE env'.prompt = env.prompt
  OBVIOUS
<1>1. \/ env' = env
      \/ env' = [env EXCEPT !.losses = @ - 1]
      \/ env' = [env EXCEPT !.crashes = @ - 1]
  <2>1. ASSUME NEW g \in Servers, GameServer(g) PROVE env' = env
    BY <2>1 DEF GameServer, RegisterFirst, RegisterAgain, NothingAsked, Heartbeat, ReadReply,
                Resend, ReceiveReply, world
  <2>2. ASSUME NEW g \in Servers, Thread(g) PROVE env' = env
    BY <2>2 DEF Thread, ReadPacket, RegisterServer, LookupServer, UpdateServer, Exit, world
  <2>3. ASSUME NEW g \in Servers, Lose(g)
        PROVE  env' = env \/ env' = [env EXCEPT !.losses = @ - 1]
    BY <2>3 DEF Lose
  <2>4. ASSUME MainLoop \/ ReceiveOther PROVE env' = env
    BY <2>4 DEF MainLoop, ReceiveOther, Receive, CheckServer, RemoveServer, Dispatch, world
  <2>5. Crash => env' = [env EXCEPT !.crashes = @ - 1]
    BY DEF Crash
  <2>6. Boot \/ Tick \/ UNCHANGED vars => env' = env
    BY DEF Boot, Tick, vars, world
  <2> QED
    BY <2>1, <2>2, <2>3, <2>4, <2>5, <2>6 DEF Next
<1> QED
  BY <1>1 DEF TypeInv, TypeOK

\* A step of a game server or of the network leaves the table alone.
LEMMA TableAlone ==
    ASSUME TableInv, env'.prompt = env.prompt,
           UNCHANGED <<main, thread, servertable, heard, clock>>
    PROVE  TableInv'
  BY DEF TableInv, TableOf, SweepOf, Fresh, Expired

\* A step of the main loop.
LEMMA TableMain ==
    ASSUME TableTypes, env.prompt, TableInv, NEW h \in Servers, MainLoop \/ ReceiveOther
    PROVE  TableOf(h)' /\ SweepOf(h)'
<1> USE DEF TableTypes, TableInv, TableOf, SweepOf, Fresh, Expired, NoEntry
<1>1. ASSUME NEW g \in Servers, Receive(g) PROVE TableOf(h)' /\ SweepOf(h)'
  BY <1>1 DEF Receive, Waiting, Registered, world, history
<1>2. ASSUME ReceiveOther PROVE TableOf(h)' /\ SweepOf(h)'
  BY <1>2 DEF ReceiveOther, Waiting, Registered, world, history
<1>3. ASSUME NEW g \in Servers, CheckServer(g) PROVE TableOf(h)' /\ SweepOf(h)'
  BY <1>3 DEF CheckServer, world, history
<1>4. ASSUME RemoveServer PROVE TableOf(h)' /\ SweepOf(h)'
  <2>1. /\ main.pc = "remove" /\ main'.pc = "sweep" /\ main'.todo = main.todo
        /\ UNCHANGED <<thread, heard, clock>>
        /\ servertable' = [servertable EXCEPT ![main.dead] = 0]
    BY <1>4 DEF RemoveServer, world, history
  <2>2. CASE h = main.dead
    BY <2>1, <2>2
  <2>3. CASE h # main.dead
    BY <2>1, <2>3
  <2> QED
    BY <2>2, <2>3
<1>5. ASSUME Dispatch PROVE TableOf(h)' /\ SweepOf(h)'
  BY <1>5 DEF Dispatch, Waiting, Threads, world
<1> QED
  BY <1>1, <1>2, <1>3, <1>4, <1>5 DEF MainLoop

\* A step of a thread of the master server.
LEMMA TableThread ==
    ASSUME TableTypes, env.prompt, TableInv, NEW h \in Servers, NEW g \in Servers, Thread(g)
    PROVE  TableOf(h)' /\ SweepOf(h)'
<1> USE DEF TableTypes, TableInv, TableOf, SweepOf, Fresh, Expired, NoEntry
<1>1. CASE ReadPacket(g)
  <2>1. thread[g].queue \in Seq(Packets) /\ thread[g].queue # <<>>
    BY <1>1 DEF ReadPacket, Threads
  <2>2. Head(thread[g].queue).type \in {"REGISTER", "HEARTBEAT"}
    <3>1. Head(thread[g].queue) \in Packets
      BY <2>1, TailFacts
    <3> QED
      BY <3>1 DEF Packets
  <2>3. /\ thread[g].pc = "poll" /\ UNCHANGED <<main, servertable, heard, clock>>
        /\ \E q, n : thread' = [thread EXCEPT ![g] =
                         [pc |-> Head(thread[g].queue).type, queue |-> q, seqnum |-> n]]
    BY <1>1 DEF ReadPacket, world
  <2> QED
    BY <2>2, <2>3
<1>2. CASE RegisterServer(g)
  BY <1>2 DEF RegisterServer, Threads, world
<1>3. CASE LookupServer(g)
  <2>1. /\ thread[g].pc = "HEARTBEAT" /\ UNCHANGED <<main, servertable, heard, clock>>
        /\ thread' = [thread EXCEPT ![g].pc =
              IF servertable[g] = 0 THEN "leaving" ELSE "update"]
    BY <1>3 DEF LookupServer, world, history
  <2> QED
    BY <2>1 DEF Threads
<1>4. CASE UpdateServer(g)
  BY <1>4 DEF UpdateServer, Threads, world, history
<1>5. CASE Exit(g)
  BY <1>5 DEF Exit, NoThread, Threads, world, history
<1> QED
  BY <1>1, <1>2, <1>3, <1>4, <1>5 DEF Thread

\* A step of the world.
LEMMA TableWorld ==
    ASSUME TableTypes, env.prompt, TableInv, NEW h \in Servers, Crash \/ Tick
    PROVE  TableOf(h)' /\ SweepOf(h)'
<1> USE DEF TableTypes, TableInv, TableOf, SweepOf, Fresh, Expired, NoEntry
<1>1. CASE Crash
  BY <1>1 DEF Crash, Waiting, NoThread, history
<1>2. CASE Tick
  BY <1>2 DEF Tick, Quiet, Settled, master, history
<1> QED
  BY <1>1, <1>2

LEMMA TableStep ==
    ASSUME TypeInv, TableInv, [Next]_vars
    PROVE  TableInv'
<1>1. env'.prompt = env.prompt
  BY PromptKept
<1>2. TableTypes
  BY TableTypesHold
<1>3. ASSUME NEW g \in Servers, GameServer(g) \/ Lose(g) PROVE TableInv'
  <2>1. UNCHANGED <<main, thread, servertable, heard, clock>>
    <3>1. CASE GameServer(g)
      BY <3>1 DEF GameServer, RegisterFirst, RegisterAgain, NothingAsked, Heartbeat, ReadReply,
                  Resend, ReceiveReply, master, world, history
    <3>2. CASE Lose(g)
      BY <3>2 DEF Lose, master
    <3> QED
      BY <1>3, <3>1, <3>2
  <2> QED
    BY <1>1, <2>1, TableAlone
<1>4. ASSUME Boot \/ UNCHANGED vars PROVE TableInv'
  <2>1. UNCHANGED <<main, thread, servertable, heard, clock>>
    BY <1>4 DEF Boot, vars, master, world, history
  <2> QED
    BY <1>1, <2>1, TableAlone
<1>5. ASSUME NEW h \in Servers, env.prompt,
             \/ MainLoop \/ ReceiveOther \/ Crash \/ Tick
             \/ \E g \in Servers : Thread(g)
      PROVE  TableOf(h)' /\ SweepOf(h)'
  BY <1>2, <1>5, TableMain, TableThread, TableWorld
<1>6. ASSUME \/ MainLoop \/ ReceiveOther \/ Crash \/ Tick
             \/ \E g \in Servers : Thread(g)
      PROVE  TableInv'
  BY <1>1, <1>5, <1>6 DEF TableInv
<1> QED
  BY <1>3, <1>4, <1>6 DEF Next

LEMMA TableInit == Init => TableInv
  BY DEF Init, TableInv, TableOf, SweepOf, Fresh, NoThread, NoEntry, Waiting

\* Nobody is erased who was heard of lately: the sweep removes an entry that is
\* expired, which no thread is about to update then (MasterServer.java:92-99,
\* HandleServerHeartbeat).
LEMMA ErasedStep ==
    ASSUME TypeInv, TableInv, [Next]_vars, NEW g \in Servers,
           servertable[g] # NoEntry, servertable'[g] = NoEntry, up', env.prompt
    PROVE  clock - heard[g] > TIME_KEEPSERVERS
<1>1. TableTypes
  BY TableTypesHold
<1>2. servertable' # servertable
  OBVIOUS
<1>3. ASSUME NEW h \in Servers, RegisterServer(h) \/ UpdateServer(h) PROVE FALSE
  <2>1. clock # 0
    BY <1>1 DEF TableTypes, TableInv, TableOf, NoEntry
  <2>2. \A k \in Servers : servertable'[k] = servertable[k] \/ servertable'[k] = clock
    BY <1>1, <1>3 DEF RegisterServer, UpdateServer, TableTypes
  <2> QED
    BY <2>1, <2>2 DEF NoEntry
<1>4. RemoveServer
  <2>1. ASSUME NEW h \in Servers, GameServer(h) PROVE UNCHANGED servertable
    BY <2>1 DEF GameServer, RegisterFirst, RegisterAgain, NothingAsked, Heartbeat, ReadReply,
                Resend, ReceiveReply, master
  <2>2. ASSUME NEW h \in Servers, Thread(h), ~RegisterServer(h), ~UpdateServer(h)
        PROVE  UNCHANGED servertable
    BY <2>2 DEF Thread, ReadPacket, LookupServer, Exit
  <2>3. ASSUME NEW h \in Servers, Lose(h) PROVE UNCHANGED servertable
    BY <2>3 DEF Lose, master
  <2>4. ASSUME MainLoop \/ ReceiveOther, ~RemoveServer PROVE UNCHANGED servertable
    BY <2>4 DEF MainLoop, Receive, CheckServer, Dispatch, ReceiveOther
  <2>5. Crash => ~up'
    BY DEF Crash
  <2>6. Boot \/ Tick \/ UNCHANGED vars => UNCHANGED servertable
    BY DEF Boot, Tick, vars, master
  <2> QED
    BY <1>2, <1>3, <2>1, <2>2, <2>3, <2>4, <2>5, <2>6 DEF Next
<1>5. main.pc = "remove" /\ main.dead = g
  BY <1>1, <1>4 DEF RemoveServer, TableTypes
<1>6. Expired(g) /\ thread[g].pc = "none" /\ servertable[g] = heard[g]
  BY <1>1, <1>5 DEF TableTypes, TableInv, TableOf, SweepOf, Fresh, Expired
<1> QED
  BY <1>6 DEF Expired

\* "If the master server does not receive a heartbeat packet after that time
\* elapses, the server is erased": in a prompt environment only then.
THEOREM RegistryErases == Spec => ErasedOnlyIfSilent
<1>1. Init => TypeInv /\ TableInv
  BY TypeInit, TableInit
<1>2. TypeInv /\ TableInv /\ [Next]_vars => (TypeInv /\ TableInv)'
  BY TypeStep, TableStep
<1>3. TypeInv /\ TableInv /\ [Next]_vars =>
        [\A g \in Servers : servertable[g] # NoEntry /\ servertable'[g] = NoEntry /\ up' /\ env.prompt
            => clock - heard[g] > TIME_KEEPSERVERS]_vars
  BY ErasedStep
<1> QED
  BY <1>1, <1>2, <1>3, PTL DEF Spec, ErasedOnlyIfSilent

-----------------------------------------------------------------------------
(* What happens on a line *)

\* Nothing is on an empty line.
LEMMA EmptyLine ==
    /\ \A type : None(<<>>, type) /\ Once(<<>>, type) /\ AllOf(<<>>, type)
    /\ \A n : Numbered(<<>>, n) /\ Answering(<<>>, n)
  BY DEF None, Once, AllOf, Numbered, Answering

\* What holds of all that is on a line holds of all that is left of it, and a reply
\* of which there was one is not there when it is taken.
LEMMA LineShrinks ==
    ASSUME NEW S, NEW s \in Seq(S), NEW i \in DOMAIN s
    PROVE  /\ \A type : /\ None(s, type) => None(RemoveAt(s, i), type)
                        /\ Once(s, type) => Once(RemoveAt(s, i), type)
                        /\ AllOf(s, type) => AllOf(RemoveAt(s, i), type)
                        /\ Once(s, type) /\ s[i].type = type => None(RemoveAt(s, i), type)
           /\ \A n : /\ Numbered(s, n) => Numbered(RemoveAt(s, i), n)
                     /\ Answering(s, n) => Answering(RemoveAt(s, i), n)
<1> DEFINE r == RemoveAt(s, i)
<1>1. ASSUME NEW j \in DOMAIN r
      PROVE  IF j < i THEN j \in DOMAIN s /\ r[j] = s[j] ELSE j + 1 \in DOMAIN s /\ r[j] = s[j + 1]
  BY RemoveAtFacts
<1>2. DOMAIN r \in SUBSET Int /\ i \in Int
  BY RemoveAtFacts
<1> HIDE DEF r
<1>3. ASSUME NEW j \in DOMAIN r
      PROVE  \E k \in DOMAIN s : k # i /\ r[j] = s[k] /\ k = IF j < i THEN j ELSE j + 1
  BY <1>1, <1>2
<1>4. ASSUME NEW type, None(s, type) PROVE None(r, type)
  BY <1>3, <1>4 DEF None
<1>5. ASSUME NEW type, AllOf(s, type) PROVE AllOf(r, type)
  BY <1>3, <1>5 DEF AllOf
<1>6. ASSUME NEW type, Once(s, type) PROVE Once(r, type)
  <2> SUFFICES ASSUME NEW j \in DOMAIN r, NEW l \in DOMAIN r, r[j].type = type, r[l].type = type
               PROVE  j = l
    BY DEF Once
  <2>1. PICK k \in DOMAIN s : r[j] = s[k] /\ k = IF j < i THEN j ELSE j + 1
    BY <1>3
  <2>2. PICK m \in DOMAIN s : r[l] = s[m] /\ m = IF l < i THEN l ELSE l + 1
    BY <1>3
  <2>3. k = m
    BY <1>6, <2>1, <2>2 DEF Once
  <2> QED
    BY <1>2, <2>1, <2>2, <2>3
<1>7. ASSUME NEW type, Once(s, type), s[i].type = type PROVE None(r, type)
  BY <1>3, <1>7 DEF Once, None
<1>8. ASSUME NEW n, Numbered(s, n) PROVE Numbered(r, n)
  BY <1>3, <1>8 DEF Numbered
<1>9. ASSUME NEW n, Answering(s, n) PROVE Answering(r, n)
  BY <1>3, <1>9 DEF Answering
<1> QED
  BY <1>4, <1>5, <1>6, <1>7, <1>8, <1>9 DEF r

\* Taking the head of a line is taking the first of it.
LEMMA TailRemoves ==
    ASSUME NEW S, NEW s \in Seq(S), s # <<>>
    PROVE  Tail(s) = RemoveAt(s, 1) /\ Head(s) = s[1] /\ 1 \in DOMAIN s
<1>1. 1 \in DOMAIN s /\ Head(s) = s[1]
  BY TailFacts
<1>2. /\ RemoveAt(s, 1) \in Seq(S) /\ Len(RemoveAt(s, 1)) = Len(s) - 1
      /\ \A j \in DOMAIN RemoveAt(s, 1) : j >= 1 /\ RemoveAt(s, 1)[j] = s[j + 1]
  BY <1>1, RemoveAtFacts
<1>3. /\ Tail(s) \in Seq(S) /\ Len(Tail(s)) = Len(s) - 1
      /\ \A j \in DOMAIN Tail(s) : Tail(s)[j] = s[j + 1]
  BY TailFacts
<1> DEFINE r == RemoveAt(s, 1)
           t == Tail(s)
<1> HIDE DEF r, t
<1>4. r = t
  BY <1>2, <1>3 DEF r, t
<1> QED
  BY <1>1, <1>4 DEF r, t

\* What is added to a line changes nothing but that it is there.
LEMMA LineGrows ==
    ASSUME NEW S, NEW s \in Seq(S), NEW e \in S
    PROVE  /\ \A type : /\ None(s, type) /\ e.type # type => None(Append(s, e), type)
                        /\ Once(s, type) /\ e.type # type => Once(Append(s, e), type)
                        /\ None(s, type) => Once(Append(s, e), type)
                        /\ AllOf(s, type) /\ e.type = type => AllOf(Append(s, e), type)
           /\ \A n : /\ Numbered(s, n) /\ e.seqnum = n => Numbered(Append(s, e), n)
                     /\ Answering(s, n) /\ e.ack = n => Answering(Append(s, e), n)
           /\ Append(s, e) # <<>>
<1> DEFINE r == Append(s, e)
<1>1. ASSUME NEW j \in DOMAIN r
      PROVE  \/ j \in DOMAIN s /\ r[j] = s[j]
             \/ j = Len(s) + 1 /\ r[j] = e
  <2>1. DOMAIN s = 1..Len(s) /\ Len(s) \in Nat
    OBVIOUS
  <2>2. j \in DOMAIN s \/ j = Len(s) + 1
    BY <2>1, AppendFacts
  <2>3. r[Len(s) + 1] = e /\ \A i \in DOMAIN s : r[i] = s[i]
    BY AppendFacts
  <2> HIDE DEF r
  <2> QED
    BY <2>2, <2>3
<1>2. r # <<>>
  <2>1. Len(r) = Len(s) + 1 /\ Len(s) \in Nat
    BY AppendFacts
  <2>2. Len(<<>>) = 0
    OBVIOUS
  <2> HIDE DEF r
  <2> QED
    BY <2>1, <2>2
<1> HIDE DEF r
<1>3. ASSUME NEW type, None(s, type), e.type # type PROVE None(r, type)
  BY <1>1, <1>3 DEF None
<1>4. ASSUME NEW type, Once(s, type), e.type # type PROVE Once(r, type)
  BY <1>1, <1>4 DEF Once
<1>5. ASSUME NEW type, None(s, type) PROVE Once(r, type)
  BY <1>1, <1>5 DEF None, Once
<1>6. ASSUME NEW type, AllOf(s, type), e.type = type PROVE AllOf(r, type)
  BY <1>1, <1>6 DEF AllOf
<1>7. ASSUME NEW n, Numbered(s, n), e.seqnum = n PROVE Numbered(r, n)
  BY <1>1, <1>7 DEF Numbered
<1>8. ASSUME NEW n, Answering(s, n), e.ack = n PROVE Answering(r, n)
  BY <1>1, <1>8 DEF Answering
<1> QED
  BY <1>2, <1>3, <1>4, <1>5, <1>6, <1>7, <1>8 DEF r

\* Of two types of replies, at most one of the one and none of the other: one reply.
LEMMA LoneReply ==
    ASSUME NEW s \in Seq(Replies), s # <<>>,
           \/ None(s, "ACK") /\ Once(s, "REGISTER")
           \/ None(s, "REGISTER") /\ Once(s, "ACK")
    PROVE  Tail(s) = <<>>
<1>1. \A i \in DOMAIN s : s[i].type \in {"ACK", "REGISTER"}
  <2>1. \A i \in DOMAIN s : s[i] \in Replies
    OBVIOUS
  <2> QED
    BY <2>1 DEF Replies
<1>2. \A i, j \in DOMAIN s : i = j
  BY <1>1 DEF None, Once
<1>3. Len(s) = 1
  <2>1. 1 \in DOMAIN s /\ Len(s) \in DOMAIN s
    OBVIOUS
  <2> QED
    BY <1>2, <2>1
<1>4. Tail(s) \in Seq(Replies) /\ Len(Tail(s)) = 0
  BY <1>3, TailFacts
<1> DEFINE t == Tail(s)
<1> HIDE DEF t
<1>5. t \in Seq(Replies) /\ Len(t) = 0
  BY <1>4 DEF t
<1>6. t = <<>>
  BY <1>5
<1> QED
  BY <1>6 DEF t

-----------------------------------------------------------------------------
(* What is on its way *)

\* What the invariant needs of the types of g's state.
TokenTypes(g) ==
    /\ pc[g] \in {"top", "registering", "beating", "asleep", "awake", "stopped"}
    /\ localseqnum[g] \in Nat /\ acksleft_tx[g] \in Seq(Entries)
    /\ toMaster[g] \in Seq(Packets) /\ toServer[g] \in Seq(Replies) /\ msgqueue[g] \in Seq(Replies)
    /\ thread[g] \in Threads /\ thread[g].queue \in Seq(Packets)
    /\ main.client = g => main.pkt \in Packets
    /\ main.pc = "receive" => main.client # g

LEMMA TokenTypesHold ==
    ASSUME TypeInv, NEW g \in Servers
    PROVE  TokenTypes(g)
<1>1. /\ pc[g] \in {"top", "registering", "beating", "asleep", "awake", "stopped"}
      /\ localseqnum[g] \in Nat /\ acksleft_tx[g] \in Seq(Entries)
      /\ toMaster[g] \in Seq(Packets) /\ toServer[g] \in Seq(Replies)
      /\ msgqueue[g] \in Seq(Replies) /\ thread[g] \in Threads
  BY DEF TypeInv, TypeOK
<1>2. thread[g].queue \in Seq(Packets)
  BY <1>1 DEF Threads
<1>3. /\ main.client = g => main.pkt \in Packets
      /\ main.pc = "receive" => main.client # g
  BY MasterRegistryAssumption DEF TypeInv, MainTyped
<1> QED
  BY <1>1, <1>2, <1>3 DEF TokenTypes

\* The functions have the game servers as their domain.
Domains ==
    /\ DOMAIN pc = Servers /\ DOMAIN localseqnum = Servers /\ DOMAIN acksleft_tx = Servers
    /\ DOMAIN msgqueue = Servers /\ DOMAIN toMaster = Servers /\ DOMAIN toServer = Servers
    /\ DOMAIN thread = Servers /\ DOMAIN read = Servers /\ DOMAIN confirmed = Servers
    /\ \A g \in Servers : DOMAIN thread[g] = {"pc", "queue", "seqnum"}
    /\ DOMAIN main = {"pc", "client", "pkt", "todo", "dead"}

LEMMA DomainsHold == TypeInv => Domains
  BY DEF TypeInv, TypeOK, Threads, Domains

\* A step changes nothing that the invariant says of g.
MainSame(g) == (main'.client = g) = (main.client = g) /\ (main.client = g => main'.pkt = main.pkt)

Same(g) ==
    /\ pc'[g] = pc[g] /\ localseqnum'[g] = localseqnum[g] /\ acksleft_tx'[g] = acksleft_tx[g]
    /\ msgqueue'[g] = msgqueue[g] /\ toMaster'[g] = toMaster[g] /\ toServer'[g] = toServer[g]
    /\ thread'[g] = thread[g] /\ read'[g] = read[g] /\ confirmed'[g] = confirmed[g]
    /\ MainSame(g)

LEMMA SameKeeps ==
    ASSUME NEW g \in Servers, TokenInv(g), Same(g)
    PROVE  TokenInv(g)'
<1>1. OneToken(g)'
  BY DEF Same, MainSame, TokenInv, OneToken, Asks, None, Once
<1>2. AtRest(g)'
  BY DEF Same, MainSame, TokenInv, AtRest, InWaitAck, Settled, None
<1>3. TokenIsNewest(g)'
  BY DEF Same, MainSame, TokenInv, TokenIsNewest, Newest, Numbered, Answering
<1>4. OnlyRegister(g)'
  BY DEF Same, MainSame, TokenInv, OnlyRegister, Newest, None, AllOf
<1>5. OneUnspent(g)'
  BY DEF Same, MainSame, TokenInv, OneUnspent, InWaitAck, Newest, Old, Stuck
<1> QED
  BY <1>1, <1>2, <1>3, <1>4, <1>5 DEF Same, TokenInv

\* What a step of one server, its thread or its datagrams does, does not concern others.
LEMMA OthersSame ==
    ASSUME Domains, NEW g \in Servers, NEW h \in Servers, h # g,
           GameServer(g) \/ Thread(g) \/ Lose(g)
    PROVE  Same(h)
<1> USE DEF Same, MainSame, Domains
<1>1. CASE RegisterFirst(g) \/ RegisterAgain(g) \/ NothingAsked(g) \/ Heartbeat(g)
  BY <1>1 DEF RegisterFirst, RegisterAgain, NothingAsked, Heartbeat, Send,
              network, master, history
<1>2. CASE ReadReply(g) \/ Resend(g) \/ ReceiveReply(g)
  BY <1>2 DEF ReadReply, Resend, ReceiveReply, handler, network, master, history
<1>3. CASE Thread(g)
  BY <1>3 DEF Thread, ReadPacket, RegisterServer, LookupServer, UpdateServer, Exit, Reply,
              gameserver, handler, network, history
<1>4. CASE Lose(g)
  BY <1>4 DEF Lose, gameserver, handler, master
<1> QED
  BY <1>1, <1>2, <1>3, <1>4 DEF GameServer

\* What a reply leaves of the TX list: packets that were sent before, and stuck.
LEMMA AckedTx ==
    ASSUME TypeInv, NEW g \in Servers, NEW reply \in Replies,
           OneUnspent(g), reply.ack = Newest(g)
    PROVE  Old(NotAcked(g, reply), Newest(g)) /\ Stuck(NotAcked(g, reply))
<1> DEFINE tx == acksleft_tx[g]
           r  == NotAcked(g, reply)
<1>1. tx \in Seq(Entries) /\ localseqnum[g] \in Nat
  BY TokenTypesHold DEF TokenTypes
<1>2. \A i \in DOMAIN tx : tx[i].pkt.seqnum \in Nat
  <2>1. \A i \in DOMAIN tx : tx[i] \in Entries
    BY <1>1
  <2> QED
    BY <2>1 DEF Entries, Packets
<1>3. CASE r = tx /\ \A i \in DOMAIN tx : tx[i].pkt.seqnum # reply.ack
  <2>1. tx # <<>> /\ Len(tx) = 1 => 1 \in DOMAIN tx
    BY <1>1
  <2>2. Old(tx, localseqnum[g]) /\ Stuck(tx)
    BY <1>1, <1>3, <2>1 DEF OneUnspent
  <2> QED
    BY <1>1, <1>2, <1>3, <2>2 DEF Old, Newest
<1>4. ASSUME NEW i \in DOMAIN tx, tx[i].pkt.seqnum = reply.ack, r = RemoveAt(tx, i)
      PROVE  Old(r, Newest(g)) /\ Stuck(r)
  <2>1. i = Len(tx)
    <3>1. i # Len(tx) => ~(tx[i].pkt.seqnum < Newest(g))
      BY <1>1, <1>2, <1>4 DEF Newest
    <3>2. Len(tx) = 1 => i = 1
      BY <1>1
    <3> QED
      BY <3>1, <3>2 DEF OneUnspent
  <2>2. /\ r \in Seq(Entries) /\ Len(r) = Len(tx) - 1
        /\ \A j \in DOMAIN r : j \in DOMAIN tx /\ j # Len(tx) /\ r[j] = tx[j]
    BY <1>1, <1>4, <2>1, RemoveAtFacts
  <2> QED
    BY <1>1, <1>2, <2>2 DEF OneUnspent, Old, Stuck, Newest
<1> QED
  BY <1>3, <1>4, NotAckedFacts DEF TypeInv

\* A new packet is sent when nothing is on its way.
LEMMA SendToken ==
    ASSUME NEW g \in Servers, TokenTypes(g), Domains, TokenInv(g),
           NEW type \in {"REGISTER", "HEARTBEAT"}, NEW tx \in Seq(Entries), Send(g, type, tx),
           ~InWaitAck(g), msgqueue'[g] = <<>>,
           Old(tx, localseqnum[g]), Stuck(tx),
           UNCHANGED <<toServer, main, thread, read, confirmed>>
    PROVE  TokenInv(g)'
<1> DEFINE pkt == [type |-> type, seqnum |-> localseqnum[g]]
           entry == [pkt |-> pkt, attempts |-> 1]
<1>1. /\ toMaster'[g] = Append(toMaster[g], pkt) /\ acksleft_tx'[g] = Append(tx, entry)
      /\ localseqnum'[g] = localseqnum[g] + 1 /\ Newest(g)' = localseqnum[g]
      /\ pc'[g] = IF type = "REGISTER" THEN "registering" ELSE "beating"
  <2>1. /\ toMaster'[g] = Append(toMaster[g], pkt) /\ acksleft_tx'[g] = Append(tx, entry)
        /\ localseqnum'[g] = localseqnum[g] + 1
        /\ pc'[g] = IF type = "REGISTER" THEN "registering" ELSE "beating"
    BY DEF Send, Domains
  <2>2. Newest(g)' = localseqnum[g]
    BY <2>1 DEF TokenTypes, Newest
  <2> QED
    BY <2>1, <2>2
<1>2. pkt.seqnum = Newest(g)' /\ pkt.type = type
  BY <1>1
<1>3. pkt \in Packets /\ entry \in Entries
  BY MasterRegistryAssumption DEF TokenTypes, Packets, Entries
<1>4. /\ toMaster[g] = <<>> /\ toServer[g] = <<>> /\ main.client # g /\ thread[g].pc = "none"
      /\ thread[g].queue = <<>>
  BY DEF TokenInv, AtRest, Settled, OneToken
<1>5. toMaster'[g] = <<pkt>> /\ Len(toMaster'[g]) = 1
  BY <1>1, <1>4
<1>6. /\ toMaster'[g] # <<>> /\ Numbered(toMaster'[g], Newest(g)')
      /\ type = "REGISTER" => AllOf(toMaster'[g], "REGISTER")
  <2>1. \A i \in DOMAIN toMaster'[g] : toMaster'[g][i] = pkt
    BY <1>5
  <2>2. toMaster'[g] # <<>>
    BY <1>5
  <2> QED
    BY <1>2, <2>1, <2>2 DEF Numbered, AllOf
<1>7. InWaitAck(g)'
  BY <1>1 DEF InWaitAck
<1>8. /\ Len(acksleft_tx'[g]) = Len(tx) + 1 /\ acksleft_tx'[g][Len(tx) + 1] = entry
      /\ DOMAIN acksleft_tx'[g] = 1..(Len(tx) + 1) /\ \A i \in DOMAIN tx : acksleft_tx'[g][i] = tx[i]
      /\ DOMAIN tx = 1..Len(tx) /\ Len(tx) \in Nat
  BY <1>1, <1>3, AppendFacts
<1>9. entry.pkt.seqnum = Newest(g)' /\ entry.pkt.type = type
  BY <1>2
<1> HIDE DEF pkt, entry
<1>10. \A i \in DOMAIN acksleft_tx'[g] :
         \/ i \in DOMAIN tx /\ acksleft_tx'[g][i] = tx[i] /\ tx[i].pkt.seqnum < Newest(g)'
         \/ i = Len(tx) + 1 /\ acksleft_tx'[g][i] = entry
  BY <1>1, <1>8 DEF Old
<1>11. OneToken(g)'
  BY <1>1, <1>4, <1>5, EmptyLine DEF OneToken, Asks
<1>12. AtRest(g)'
  BY <1>7 DEF AtRest
<1>13. TokenIsNewest(g)'
  BY <1>4, <1>6, EmptyLine DEF TokenIsNewest
<1>14. OnlyRegister(g)'
  <2> SUFFICES ASSUME type = "REGISTER" PROVE OnlyRegister(g)'
    BY <1>1 DEF OnlyRegister
  <2>1. \A i \in DOMAIN tx : tx[i].pkt.seqnum # Newest(g)'
    <3>1. \A i \in DOMAIN tx : tx[i].pkt.seqnum \in Nat
      <4>1. \A i \in DOMAIN tx : tx[i] \in Entries
        OBVIOUS
      <4> QED
        BY <4>1 DEF Entries, Packets
    <3> QED
      BY <1>1, <3>1 DEF Old, TokenTypes
  <2>2. \A i \in DOMAIN acksleft_tx'[g] :
          acksleft_tx'[g][i].pkt.seqnum = Newest(g)' => acksleft_tx'[g][i].pkt.type = "REGISTER"
    BY <1>9, <1>10, <2>1
  <2> QED
    BY <1>4, <1>6, <2>2, EmptyLine DEF OnlyRegister
<1>15. OneUnspent(g)'
  <2>1. CASE tx = <<>>
    <3>1. Len(acksleft_tx'[g]) = 1 /\ acksleft_tx'[g][1] = entry
      BY <1>8, <2>1
    <3> QED
      BY <1>7, <1>9, <3>1 DEF OneUnspent
  <2>2. CASE tx # <<>>
    <3>1. 1 \in DOMAIN tx
      BY <2>2
    <3>2. Stuck(acksleft_tx'[g])
      BY <1>8, <2>2, <3>1 DEF Stuck
    <3>3. Old(acksleft_tx'[g], localseqnum'[g])
      <4>1. \A i \in DOMAIN tx : tx[i] \in Entries
        OBVIOUS
      <4>2. \A i \in DOMAIN tx : tx[i].pkt.seqnum \in Nat
        BY <4>1 DEF Entries, Packets
      <4> QED
        BY <1>1, <1>9, <1>10, <4>2 DEF Old, TokenTypes
    <3>4. \A i \in DOMAIN acksleft_tx'[g] :
            i # Len(acksleft_tx'[g]) => acksleft_tx'[g][i].pkt.seqnum < Newest(g)'
      BY <1>8, <1>10
    <3> QED
      BY <3>2, <3>3, <3>4 DEF OneUnspent
  <2> QED
    BY <2>1, <2>2
<1>16. confirmed'[g] \subseteq read'[g]
  BY DEF TokenInv
<1> QED
  BY <1>11, <1>12, <1>13, <1>14, <1>15, <1>16 DEF TokenInv

\* At rest there is at most one reply, a request to register, and all that is in the
\* TX list was given up.
LEMMA RestFacts ==
    ASSUME NEW g \in Servers, TokenTypes(g), TokenInv(g), ~InWaitAck(g)
    PROVE  /\ Old(acksleft_tx[g], localseqnum[g]) /\ Stuck(acksleft_tx[g])
           /\ msgqueue[g] # <<>> =>
                /\ Tail(msgqueue[g]) = <<>>
                /\ Head(msgqueue[g]) \in Replies /\ Head(msgqueue[g]).ack = Newest(g)
                /\ Head(msgqueue[g]).type = "REGISTER"
<1>1. Old(acksleft_tx[g], localseqnum[g]) /\ Stuck(acksleft_tx[g])
  BY DEF TokenInv, OneUnspent
<1> SUFFICES ASSUME msgqueue[g] # <<>>
             PROVE  /\ Tail(msgqueue[g]) = <<>>
                    /\ Head(msgqueue[g]) \in Replies /\ Head(msgqueue[g]).ack = Newest(g)
                    /\ Head(msgqueue[g]).type = "REGISTER"
  BY <1>1
<1>2. msgqueue[g] \in Seq(Replies)
  BY DEF TokenTypes
<1>3. None(msgqueue[g], "ACK") /\ Once(msgqueue[g], "REGISTER")
  BY DEF TokenInv, AtRest, OneToken
<1>4. Tail(msgqueue[g]) = <<>>
  BY <1>2, <1>3, LoneReply
<1>5. Head(msgqueue[g]) \in Replies /\ Head(msgqueue[g]) = msgqueue[g][1] /\ 1 \in DOMAIN msgqueue[g]
  BY <1>2, TailFacts
<1>6. Head(msgqueue[g]).ack = Newest(g)
  BY <1>5 DEF TokenInv, TokenIsNewest, Answering
<1>7. Head(msgqueue[g]).type = "REGISTER"
  BY <1>3, <1>5 DEF None, Replies
<1> QED
  BY <1>4, <1>5, <1>6, <1>7

\* What is old is older than the next packet too.
LEMMA OldStays ==
    ASSUME NEW g \in Servers, TokenTypes(g), NEW tx \in Seq(Entries), Old(tx, Newest(g))
    PROVE  Old(tx, localseqnum[g])
<1>1. \A i \in DOMAIN tx : tx[i] \in Entries
  OBVIOUS
<1>2. \A i \in DOMAIN tx : tx[i].pkt.seqnum \in Nat
  BY <1>1 DEF Entries, Packets
<1> QED
  BY <1>2 DEF Old, Newest, TokenTypes

\* The steps of the game server's thread at the top of its loop, and the heartbeat.
LEMMA TokenTop ==
    ASSUME TypeInv, NEW g \in Servers, TokenInv(g),
           RegisterFirst(g) \/ RegisterAgain(g) \/ NothingAsked(g) \/ Heartbeat(g)
    PROVE  TokenInv(g)'
<1>1. TokenTypes(g) /\ Domains
  BY TokenTypesHold, DomainsHold
<1>2. ~InWaitAck(g)
  BY DEF RegisterFirst, RegisterAgain, NothingAsked, Heartbeat, InWaitAck
<1>3. acksleft_tx[g] \in Seq(Entries)
  BY <1>1 DEF TokenTypes
<1>4. CASE RegisterFirst(g)
  <2>1. msgqueue'[g] = <<>>
    BY <1>1, <1>2, <1>4, RestFacts DEF RegisterFirst, Domains
  <2>2. Send(g, "REGISTER", acksleft_tx[g]) /\ UNCHANGED <<toServer, main, thread, read, confirmed>>
    BY <1>4 DEF RegisterFirst, master, history
  <2> QED
    BY <1>1, <1>2, <1>3, <2>1, <2>2, RestFacts, SendToken
<1>5. CASE Heartbeat(g)
  <2>1. msgqueue'[g] = <<>>
    BY <1>2, <1>5 DEF Heartbeat, TokenInv, AtRest
  <2>2. Send(g, "HEARTBEAT", acksleft_tx[g]) /\ UNCHANGED <<toServer, main, thread, read, confirmed>>
    BY <1>5 DEF Heartbeat, master, history
  <2> QED
    BY <1>1, <1>2, <1>3, <2>1, <2>2, RestFacts, SendToken
<1>6. CASE RegisterAgain(g)
  <2> DEFINE tx == NotAcked(g, Head(msgqueue[g]))
  <2>1. msgqueue[g] # <<>> /\ msgqueue'[g] = Tail(msgqueue[g])
    BY <1>1, <1>6 DEF RegisterAgain, Domains
  <2>2. /\ Tail(msgqueue[g]) = <<>> /\ Head(msgqueue[g]) \in Replies
        /\ Head(msgqueue[g]).ack = Newest(g)
    BY <1>1, <1>2, <2>1, RestFacts
  <2>3. tx \in Seq(Entries)
    BY <2>2, NotAckedFacts DEF TypeInv
  <2>4. Old(tx, Newest(g)) /\ Stuck(tx)
    BY <2>2, AckedTx DEF TokenInv
  <2>5. Send(g, "REGISTER", tx) /\ UNCHANGED <<toServer, main, thread, read, confirmed>>
    BY <1>6 DEF RegisterAgain, master, history
  <2> HIDE DEF tx
  <2> QED
    BY <1>1, <1>2, <2>1, <2>2, <2>3, <2>4, <2>5, OldStays, SendToken
<1>7. CASE NothingAsked(g)
  <2>1. msgqueue[g] = <<>>
    BY <1>1, <1>2, <1>7, RestFacts DEF NothingAsked
  <2>2. /\ pc'[g] = "asleep" /\ acksleft_tx'[g] = acksleft_tx[g] /\ msgqueue'[g] = <<>>
        /\ UNCHANGED <<localseqnum, toMaster, toServer, main, thread, read, confirmed>>
    BY <1>1, <1>7, <2>1 DEF NothingAsked, Domains, network, master, history
  <2>3. OneToken(g)'
    BY <2>1, <2>2, EmptyLine DEF TokenInv, OneToken, Asks
  <2>4. AtRest(g)'
    BY <1>2, <2>2, EmptyLine DEF TokenInv, AtRest, Settled
  <2>5. TokenIsNewest(g)'
    BY <2>1, <2>2 DEF TokenInv, TokenIsNewest, Newest
  <2>6. OnlyRegister(g)'
    BY <2>2 DEF OnlyRegister
  <2>7. OneUnspent(g)'
    BY <1>2, <2>2 DEF TokenInv, OneUnspent, Newest
  <2> QED
    BY <2>2, <2>3, <2>4, <2>5, <2>6, <2>7 DEF TokenInv
<1> QED
  BY <1>4, <1>5, <1>6, <1>7

\* The game server's main loop passes a reply on.
LEMMA TokenReceiveReply ==
    ASSUME NEW g \in Servers, TokenTypes(g), Domains, TokenInv(g), ReceiveReply(g)
    PROVE  TokenInv(g)'
<1> DEFINE a == toServer[g]
           b == msgqueue[g]
<1>1. PICK i \in DOMAIN a : toServer'[g] = RemoveAt(a, i) /\ msgqueue'[g] = Append(b, a[i])
  BY DEF ReceiveReply, Ready, Domains
<1>2. /\ pc'[g] = pc[g] /\ localseqnum'[g] = localseqnum[g] /\ acksleft_tx'[g] = acksleft_tx[g]
      /\ UNCHANGED <<toMaster, main, thread, read, confirmed>>
  BY DEF ReceiveReply, handler, master, history
<1>3. a \in Seq(Replies) /\ b \in Seq(Replies) /\ a[i] \in Replies /\ a # <<>>
  <2>1. a \in Seq(Replies) /\ b \in Seq(Replies)
    BY DEF TokenTypes
  <2> QED
    BY <2>1, RemoveAtFacts
<1>4. InWaitAck(g)
  BY <1>3 DEF TokenInv, AtRest, Settled
<1>5. ~Asks(g)
  BY <1>3 DEF TokenInv, OneToken
<1> HIDE DEF a, b
<1>6. \A type : /\ None(a, type) => None(RemoveAt(a, i), type)
                /\ Once(a, type) => Once(RemoveAt(a, i), type)
                /\ Once(a, type) /\ a[i].type = type => None(RemoveAt(a, i), type)
                /\ None(b, type) /\ a[i].type # type => None(Append(b, a[i]), type)
                /\ Once(b, type) /\ a[i].type # type => Once(Append(b, a[i]), type)
                /\ None(b, type) => Once(Append(b, a[i]), type)
                /\ None(a, type) => a[i].type # type
  <2>1. \A type : None(a, type) => a[i].type # type
    BY DEF None
  <2> QED
    BY <1>3, <2>1, LineShrinks, LineGrows
<1>7. OneToken(g)'
  <2>1. \A type \in {"ACK", "REGISTER"} :
          /\ Once(RemoveAt(a, i), type) /\ Once(Append(b, a[i]), type)
          /\ None(RemoveAt(a, i), type) \/ None(Append(b, a[i]), type)
    BY <1>6 DEF TokenInv, OneToken, a, b
  <2>2. thread[g].pc = "HEARTBEAT" =>
          None(RemoveAt(a, i), "REGISTER") /\ None(Append(b, a[i]), "REGISTER")
    BY <1>6 DEF TokenInv, OneToken, a, b
  <2>3. ~Asks(g)'
    BY <1>2, <1>5 DEF Asks
  <2> QED
    BY <1>1, <1>2, <2>1, <2>2, <2>3 DEF TokenInv, OneToken
<1>8. AtRest(g)'
  BY <1>2, <1>4 DEF AtRest, InWaitAck
<1>9. TokenIsNewest(g)'
  <2>1. Answering(a, Newest(g)) /\ Answering(b, Newest(g)) /\ Newest(g) \in read[g]
    BY <1>3 DEF TokenInv, TokenIsNewest, a, b
  <2>2. Answering(RemoveAt(a, i), Newest(g)) /\ Answering(Append(b, a[i]), Newest(g))
    <3>1. a[i].ack = Newest(g)
      BY <2>1 DEF Answering
    <3> QED
      BY <1>3, <2>1, <3>1, LineShrinks, LineGrows
  <2>3. Newest(g)' = Newest(g)
    BY <1>2 DEF Newest
  <2> QED
    BY <1>1, <1>2, <2>1, <2>2, <2>3 DEF TokenInv, TokenIsNewest
<1>10. OnlyRegister(g)'
  <2>1. pc[g] = "registering" =>
          None(RemoveAt(a, i), "REGISTER") /\ None(Append(b, a[i]), "REGISTER")
    BY <1>6 DEF TokenInv, OnlyRegister, a, b
  <2> QED
    BY <1>1, <1>2, <2>1 DEF TokenInv, OnlyRegister, Newest
<1>11. OneUnspent(g)'
  BY <1>2 DEF TokenInv, OneUnspent, Newest, InWaitAck
<1> QED
  BY <1>2, <1>7, <1>8, <1>9, <1>10, <1>11 DEF TokenInv

\* WaitAck reads a reply.
LEMMA TokenReadReply ==
    ASSUME TypeInv, NEW g \in Servers, env.prompt, TokenInv(g), ReadReply(g)
    PROVE  TokenInv(g)'
<1> DEFINE b == msgqueue[g]
           reply == Head(b)
<1>1. TokenTypes(g) /\ Domains
  BY TokenTypesHold, DomainsHold
<1>2. b \in Seq(Replies) /\ b # <<>>
  BY <1>1 DEF TokenTypes, ReadReply
<1>3. reply \in Replies /\ reply = b[1] /\ 1 \in DOMAIN b /\ Tail(b) = RemoveAt(b, 1)
  BY <1>2, TailFacts, TailRemoves
<1>4. reply.ack = Newest(g) /\ Newest(g) \in read[g] /\ Answering(b, Newest(g))
  BY <1>2, <1>3 DEF TokenInv, TokenIsNewest, Answering
<1>5. /\ msgqueue'[g] = Tail(b) /\ acksleft_tx'[g] = NotAcked(g, reply)
      /\ UNCHANGED <<localseqnum, toMaster, toServer, main, thread, read>>
  BY <1>1 DEF ReadReply, Domains, network, master
<1>6. \/ reply.type = "ACK" /\ pc'[g] = AfterWait(g) /\ confirmed'[g] = confirmed[g] \union {Newest(g)}
      \/ reply.type = "REGISTER" /\ pc'[g] = pc[g] /\ confirmed'[g] = confirmed[g]
  <2>1. reply.type \in {"ACK", "REGISTER"}
    BY <1>3 DEF Replies
  <2> QED
    BY <1>1, <2>1 DEF ReadReply, Domains, Newest
<1>7. InWaitAck(g) /\ Settled(g)
  BY DEF ReadReply, Paused
<1>8. Old(NotAcked(g, reply), localseqnum[g]) /\ Old(NotAcked(g, reply), Newest(g))
      /\ Stuck(NotAcked(g, reply))
  BY <1>1, <1>3, <1>4, AckedTx, OldStays, NotAckedFacts DEF TokenInv, TypeInv
<1> HIDE DEF b, reply
<1>9. \A type : /\ None(b, type) => None(Tail(b), type)
                /\ Once(b, type) => Once(Tail(b), type)
                /\ Once(b, type) /\ reply.type = type => None(Tail(b), type)
  BY <1>2, <1>3, LineShrinks
<1>10. Answering(Tail(b), Newest(g))
  BY <1>2, <1>3, <1>4, LineShrinks
<1>11. OneToken(g)'
  <2>1. \A type \in {"ACK", "REGISTER"} :
          /\ Once(toServer[g], type) /\ Once(Tail(b), type)
          /\ None(toServer[g], type) \/ None(Tail(b), type)
    BY <1>9 DEF TokenInv, OneToken, b
  <2>2. ~Asks(g)'
    BY <1>5, <1>7 DEF Asks, Settled
  <2> QED
    BY <1>5, <1>7, <2>1, <2>2 DEF TokenInv, OneToken, Settled
<1>12. AtRest(g)'
  <2> SUFFICES ASSUME ~InWaitAck(g)'
               PROVE  /\ Settled(g)' /\ None(msgqueue'[g], "ACK")
                      /\ pc'[g] # "top" => msgqueue'[g] = <<>>
    BY DEF AtRest
  <2>1. reply.type = "ACK"
    BY <1>6, <1>7 DEF InWaitAck
  <2>2. None(Tail(b), "ACK")
    BY <1>9, <2>1 DEF TokenInv, OneToken, b
  <2>3. ASSUME pc'[g] # "top" PROVE Tail(b) = <<>>
    <3>1. pc[g] = "registering"
      BY <1>6, <1>7, <2>1, <2>3 DEF AfterWait, InWaitAck
    <3>2. None(b, "REGISTER") /\ Once(b, "ACK")
      BY <3>1 DEF TokenInv, OnlyRegister, OneToken, b
    <3> QED
      BY <1>2, <3>2, LoneReply
  <2> QED
    BY <1>5, <1>7, <2>2, <2>3 DEF Settled
<1>13. TokenIsNewest(g)'
  BY <1>4, <1>5, <1>10 DEF TokenInv, TokenIsNewest, Newest
<1>14. OnlyRegister(g)'
  <2>1. pc'[g] = "registering" => pc[g] = "registering"
    BY <1>6 DEF AfterWait
  <2>2. pc[g] = "registering" => None(Tail(b), "REGISTER")
    BY <1>9 DEF TokenInv, OnlyRegister, b
  <2>3. \A i \in DOMAIN acksleft_tx'[g] : acksleft_tx'[g][i].pkt.seqnum # Newest(g)'
    <3>1. acksleft_tx'[g] \in Seq(Entries)
      BY <1>3, <1>5, NotAckedFacts DEF TypeInv
    <3>2. \A i \in DOMAIN acksleft_tx'[g] : acksleft_tx'[g][i] \in Entries
      BY <3>1
    <3>3. \A i \in DOMAIN acksleft_tx'[g] : acksleft_tx'[g][i].pkt.seqnum \in Nat
      BY <3>2 DEF Entries, Packets
    <3> QED
      BY <1>1, <1>5, <1>8, <3>3 DEF Old, Newest, TokenTypes
  <2> QED
    BY <1>5, <2>1, <2>2, <2>3 DEF TokenInv, OnlyRegister
<1>15. OneUnspent(g)'
  BY <1>5, <1>8 DEF OneUnspent, Old, Newest
<1>16. confirmed'[g] \subseteq read'[g]
  BY <1>4, <1>5, <1>6 DEF TokenInv
<1> QED
  BY <1>11, <1>12, <1>13, <1>14, <1>15, <1>16 DEF TokenInv

\* WaitAck sends again, or gives up.
LEMMA TokenResend ==
    ASSUME TypeInv, NEW g \in Servers, env.prompt, TokenInv(g), Resend(g)
    PROVE  TokenInv(g)'
<1> DEFINE tx == acksleft_tx[g]
<1>1. TokenTypes(g) /\ Domains
  BY TokenTypesHold, DomainsHold
<1>2. PICK n \in 0..Len(tx) :
        /\ 1..n \intersect Spent(tx) = {} /\ (n = Len(tx) \/ n + 1 \in Spent(tx))
        /\ toMaster'[g] = toMaster[g] \o Again(tx, n) /\ acksleft_tx'[g] = Resent(tx, n)
  BY <1>1 DEF Resend, Again, Resent, Domains
<1>3. /\ tx \in Seq(Entries) /\ tx # <<>> /\ Len(tx) \in Nat /\ 1 \in DOMAIN tx
      /\ DOMAIN tx = 1..Len(tx)
  BY <1>1 DEF TokenTypes, Resend
<1>4. \A i \in DOMAIN tx : tx[i] \in Entries /\ tx[i].pkt \in Packets /\ tx[i].attempts \in Nat
  <2>1. \A i \in DOMAIN tx : tx[i] \in Entries
    BY <1>3
  <2> QED
    BY <2>1 DEF Entries
<1>5. /\ msgqueue'[g] = <<>> /\ msgqueue[g] = <<>> /\ InWaitAck(g) /\ Settled(g)
      /\ UNCHANGED <<localseqnum, toServer, main, thread, read, confirmed>>
  BY <1>1 DEF Resend, Paused, Domains, master
<1>6. /\ toMaster[g] = <<>> /\ toServer[g] = <<>> /\ main.client # g /\ thread[g].pc = "none"
      /\ thread[g].queue = <<>>
  BY <1>5 DEF Settled, TokenInv, OneToken
<1>7. Newest(g)' = Newest(g)
  BY <1>5 DEF Newest
<1>8. DOMAIN acksleft_tx'[g] = DOMAIN tx /\ Len(acksleft_tx'[g]) = Len(tx)
      /\ \A i \in DOMAIN tx : /\ acksleft_tx'[g][i].pkt = tx[i].pkt
                              /\ acksleft_tx'[g][i].attempts >= tx[i].attempts
  <2>1. Resent(tx, n) \in Seq(Entries)
    BY <1>2, <1>3, ResendFacts
  <2>2. DOMAIN Resent(tx, n) = DOMAIN tx
    BY DEF Resent
  <2>3. Len(Resent(tx, n)) = Len(tx)
    BY <1>3, <2>1, <2>2
  <2>4. ASSUME NEW i \in DOMAIN tx
        PROVE  Resent(tx, n)[i].pkt = tx[i].pkt /\ Resent(tx, n)[i].attempts >= tx[i].attempts
    <3>1. Resent(tx, n)[i] = IF i <= n THEN [tx[i] EXCEPT !.attempts = @ + 1] ELSE tx[i]
      BY DEF Resent
    <3>2. [tx[i] EXCEPT !.attempts = @ + 1].pkt = tx[i].pkt
          /\ [tx[i] EXCEPT !.attempts = @ + 1].attempts = tx[i].attempts + 1
      BY <1>4 DEF Entries
    <3> QED
      BY <1>4, <3>1, <3>2
  <2> QED
    BY <1>2, <2>2, <2>3, <2>4
<1> HIDE DEF tx
<1>9. pc'[g] = "registering" => pc[g] = "registering"
  BY <1>1 DEF Resend, AfterWait, Domains
\* If the packet at the head was given up, nothing is sent; else it is sent, alone.
<1>10. \/ toMaster'[g] = <<>> /\ Stuck(tx)
       \/ /\ toMaster'[g] = <<tx[1].pkt>> /\ Len(tx) = 1 /\ tx[1].pkt.seqnum = Newest(g)
          /\ InWaitAck(g)'
  <2>1. CASE Stuck(tx)
    <3>1. 1 \in Spent(tx)
      BY <1>3, <2>1 DEF Stuck, Spent
    <3>2. n = 0
      <4>1. 1 \notin 1..n
        BY <1>2, <3>1
      <4>2. n \in Nat
        BY <1>3
      <4> QED
        BY <4>1, <4>2
    <3>3. Again(tx, n) = <<>>
      BY <3>2 DEF Again
    <3>4. <<>> \o <<>> = <<>>
      OBVIOUS
    <3> QED
      BY <1>2, <1>6, <2>1, <3>3, <3>4
  <2>2. CASE ~Stuck(tx)
    <3>1. Len(tx) = 1 /\ tx[1].pkt.seqnum = Newest(g)
      BY <2>2 DEF TokenInv, OneUnspent, tx
    <3>2. Spent(tx) = {}
      BY <1>3, <2>2, <3>1 DEF Stuck, Spent
    <3>3. n = 1
      BY <1>2, <3>1, <3>2
    <3>4. Again(tx, n) = <<tx[1].pkt>>
      BY <3>3 DEF Again
    <3>5. <<>> \o <<tx[1].pkt>> = <<tx[1].pkt>>
      OBVIOUS
    <3>6. pc' = pc
      BY <3>2 DEF Resend, tx
    <3> QED
      BY <1>2, <1>5, <1>6, <3>1, <3>4, <3>5, <3>6 DEF InWaitAck
  <2> QED
    BY <2>1, <2>2
<1>11. ~Stuck(tx) => toMaster'[g] = <<tx[1].pkt>>
  BY <1>3, <1>10
<1>12. OneToken(g)'
  <2>1. Len(toMaster'[g]) <= 1
    <3>1. CASE toMaster'[g] = <<>>
      BY <3>1
    <3>2. CASE toMaster'[g] = <<tx[1].pkt>>
      BY <3>2
    <3> QED
      BY <1>10, <3>1, <3>2
  <2>2. toServer'[g] = <<>> /\ msgqueue'[g] = <<>>
    BY <1>5, <1>6
  <2>3. main'.client # g /\ thread'[g].pc = "none" /\ thread'[g].queue = <<>>
    BY <1>5, <1>6
  <2> QED
    BY <2>1, <2>2, <2>3, EmptyLine DEF OneToken
<1>13. AtRest(g)'
  <2>1. ~InWaitAck(g)' => toMaster'[g] = <<>>
    BY <1>10
  <2> QED
    BY <1>5, <1>6, <2>1, EmptyLine DEF AtRest, Settled
<1>14. \A i \in DOMAIN toMaster'[g] :
         toMaster'[g][i] = tx[1].pkt /\ tx[1].pkt.seqnum = Newest(g)
  BY <1>10
<1>15. TokenIsNewest(g)'
  BY <1>5, <1>6, <1>7, <1>14, EmptyLine DEF TokenIsNewest, Numbered
<1>16. OnlyRegister(g)'
  BY <1>3, <1>5, <1>6, <1>7, <1>8, <1>9, <1>14, EmptyLine
     DEF TokenInv, OnlyRegister, AllOf, tx
<1>17. OneUnspent(g)'
  <2>1. CASE /\ Old(tx, localseqnum[g]) /\ Stuck(tx)
             /\ \A i \in DOMAIN tx : i # Len(tx) => tx[i].pkt.seqnum < Newest(g)
    <3>1. acksleft_tx'[g][1].attempts >= MAX_RESEND
      <4>1. tx[1].attempts >= MAX_RESEND /\ acksleft_tx'[g][1].attempts >= tx[1].attempts
        BY <1>3, <1>8, <2>1 DEF Stuck
      <4>2. acksleft_tx'[g][1].attempts \in Int
        <5>1. Resent(tx, n)[1] = tx[1] \/ Resent(tx, n)[1] = [tx[1] EXCEPT !.attempts = @ + 1]
          BY <1>3 DEF Resent
        <5> QED
          BY <1>2, <1>3, <1>4, <5>1 DEF Entries, tx
      <4> QED
        BY <1>3, <1>4, <4>1, <4>2, MasterRegistryAssumption
    <3> QED
      BY <1>5, <1>7, <1>8, <2>1, <3>1 DEF OneUnspent, Old, Stuck
  <2>2. CASE ~Stuck(tx)
    BY <1>3, <1>7, <1>8, <1>10, <2>2 DEF OneUnspent
  <2>3. CASE Stuck(tx) /\ Len(tx) = 1 /\ tx[1].pkt.seqnum = Newest(g)
    <3>1. Old(tx, localseqnum[g])
      BY <1>1, <1>3, <2>3 DEF Old, Newest, TokenTypes
    <3> QED
      BY <1>3, <2>1, <2>3, <3>1
  <2> QED
    BY <2>1, <2>2, <2>3 DEF TokenInv, OneUnspent, tx
<1> QED
  BY <1>5, <1>12, <1>13, <1>15, <1>16, <1>17 DEF TokenInv

\* A packet arrives at the master server.
LEMMA TokenReceive ==
    ASSUME NEW g \in Servers, TokenTypes(g), Domains, TokenInv(g), Receive(g)
    PROVE  TokenInv(g)'
<1> DEFINE a == toMaster[g]
<1>1. PICK i \in DOMAIN a :
        toMaster'[g] = RemoveAt(a, i) /\ main'.client = g /\ main'.pkt = a[i]
  BY DEF Receive, Ready, Waiting, Domains
<1>2. UNCHANGED <<pc, localseqnum, acksleft_tx, msgqueue, toServer, thread, read, confirmed>>
  BY DEF Receive, gameserver, handler, history
<1>3. a \in Seq(Packets)
  BY DEF TokenTypes
<1>4. a # <<>>
  BY <1>1, <1>3
<1>5. /\ Len(a) <= 1 /\ toServer[g] = <<>> /\ msgqueue[g] = <<>>
      /\ thread[g].pc = "none" /\ thread[g].queue = <<>> /\ InWaitAck(g)
  BY <1>4 DEF TokenInv, OneToken, Asks, AtRest, Settled
<1>6. toMaster'[g] = <<>>
  <2>1. RemoveAt(a, i) \in Seq(Packets) /\ Len(RemoveAt(a, i)) = Len(a) - 1
    BY <1>3, RemoveAtFacts
  <2>2. Len(a) = 1
    BY <1>3, <1>4, <1>5, LoneElement
  <2>3. RemoveAt(a, i) = <<>>
    BY <2>1, <2>2, NoElements
  <2> QED
    BY <1>1, <2>3
<1>7. OneToken(g)'
  BY <1>2, <1>5, <1>6, EmptyLine DEF OneToken
<1>8. AtRest(g)'
  BY <1>2, <1>5 DEF AtRest, InWaitAck
<1>9. TokenIsNewest(g)'
  <2>1. main'.pkt.seqnum = Newest(g)
    BY <1>1 DEF TokenInv, TokenIsNewest, Numbered
  <2> QED
    BY <1>2, <1>5, <1>6, <2>1, EmptyLine DEF TokenIsNewest, Newest
<1>10. OnlyRegister(g)'
  <2>1. pc[g] = "registering" => main'.pkt.type = "REGISTER"
    BY <1>1 DEF TokenInv, OnlyRegister, AllOf
  <2> QED
    BY <1>2, <1>6, <2>1, EmptyLine DEF TokenInv, OnlyRegister, Newest
<1>11. OneUnspent(g)'
  BY <1>2 DEF TokenInv, OneUnspent, InWaitAck, Newest
<1> QED
  BY <1>2, <1>7, <1>8, <1>9, <1>10, <1>11 DEF TokenInv

\* The packet goes to g's thread, which there is none of.
LEMMA TokenDispatch ==
    ASSUME NEW g \in Servers, TokenTypes(g), Domains, TokenInv(g), Dispatch,
           main.client = g, NoOne \notin Servers
    PROVE  TokenInv(g)'
<1>1. /\ thread[g].pc = "none" /\ thread[g].queue = <<>> /\ toMaster[g] = <<>>
      /\ toServer[g] = <<>> /\ msgqueue[g] = <<>>
  BY DEF TokenInv, OneToken, Asks
<1>2. InWaitAck(g)
  BY DEF TokenInv, AtRest, Settled
<1>3. thread'[g].pc = "poll" /\ thread'[g].queue = Append(<<>>, main.pkt)
  BY <1>1 DEF Dispatch, Domains
<1>4. main'.client # g
  BY DEF Dispatch, Waiting
<1>5. UNCHANGED <<pc, localseqnum, acksleft_tx, msgqueue, toMaster, toServer, read, confirmed>>
  BY DEF Dispatch, gameserver, handler, network, history
<1>6. thread'[g].queue = <<main.pkt>>
  BY <1>3
<1>7. Len(thread'[g].queue) = 1 /\ \A i \in DOMAIN thread'[g].queue : thread'[g].queue[i] = main.pkt
  BY <1>6
<1>8. OneToken(g)'
  BY <1>1, <1>3, <1>4, <1>5, <1>7, EmptyLine DEF OneToken
<1>9. AtRest(g)'
  BY <1>2, <1>5 DEF AtRest, InWaitAck
<1>10. TokenIsNewest(g)'
  BY <1>1, <1>3, <1>4, <1>5, <1>7, EmptyLine DEF TokenInv, TokenIsNewest, Newest, Numbered
<1>11. OnlyRegister(g)'
  BY <1>1, <1>3, <1>4, <1>5, <1>7, EmptyLine DEF TokenInv, OnlyRegister, Newest, AllOf
<1>12. OneUnspent(g)'
  BY <1>5 DEF TokenInv, OneUnspent, InWaitAck, Newest
<1> QED
  BY <1>5, <1>8, <1>9, <1>10, <1>11, <1>12 DEF TokenInv

\* The thread reads the packet and acknowledges it.
LEMMA TokenReadPacket ==
    ASSUME NEW g \in Servers, TokenTypes(g), Domains, TokenInv(g), ReadPacket(g)
    PROVE  TokenInv(g)'
<1> DEFINE q == thread[g].queue
           pkt == Head(q)
           ack == [type |-> "ACK", ack |-> pkt.seqnum]
<1>1. /\ thread[g].pc = "poll" /\ q # <<>> /\ toServer'[g] = Append(toServer[g], ack)
      /\ read'[g] = read[g] \union {pkt.seqnum}
      /\ thread'[g] = [pc |-> pkt.type, queue |-> Tail(q), seqnum |-> pkt.seqnum]
  BY DEF ReadPacket, Reply, Domains
<1>2. UNCHANGED <<pc, localseqnum, acksleft_tx, msgqueue, toMaster, main, confirmed>>
  BY DEF ReadPacket, gameserver, handler
<1>3. q \in Seq(Packets) /\ Len(q) = 1
  BY <1>1 DEF TokenTypes, TokenInv, OneToken
<1>4. pkt \in Packets /\ pkt = q[1] /\ 1 \in DOMAIN q
  BY <1>1, <1>3, TailFacts
<1>5. Tail(q) = <<>>
  <2>1. Tail(q) \in Seq(Packets) /\ Len(Tail(q)) = 0
    BY <1>1, <1>3, TailFacts
  <2> DEFINE t == Tail(q)
  <2>2. t \in Seq(Packets) /\ Len(t) = 0
    BY <2>1
  <2> HIDE DEF t
  <2>3. t = <<>>
    BY <2>2
  <2> QED
    BY <2>3 DEF t
<1>6. /\ pkt.seqnum = Newest(g) /\ pkt.type \in {"REGISTER", "HEARTBEAT"}
      /\ pc[g] = "registering" => pkt.type = "REGISTER"
  BY <1>4 DEF TokenInv, TokenIsNewest, OnlyRegister, Numbered, AllOf, Packets
<1>7. /\ toMaster[g] = <<>> /\ main.client # g /\ toServer[g] = <<>> /\ msgqueue[g] = <<>>
  BY <1>1 DEF TokenInv, OneToken, Asks
<1>8. InWaitAck(g)
  BY <1>1 DEF TokenInv, AtRest, Settled
<1> HIDE DEF q, pkt
<1>9. toServer'[g] = <<ack>>
  BY <1>1, <1>7
<1>10. toServer'[g] # <<>> /\ \A i, j \in DOMAIN toServer'[g] : i = j /\ toServer'[g][i] = ack
  BY <1>9
<1>11. ack.type = "ACK" /\ ack.ack = pkt.seqnum
  OBVIOUS
<1> HIDE DEF ack
<1>12. \A type : Once(toServer'[g], type)
  BY <1>10 DEF Once
<1>13. None(toServer'[g], "REGISTER") /\ Answering(toServer'[g], Newest(g))
  BY <1>6, <1>10, <1>11 DEF None, Answering
<1>14. thread'[g].pc = pkt.type /\ thread'[g].queue = <<>> /\ thread'[g].seqnum = pkt.seqnum
  BY <1>1, <1>5
<1>15. OneToken(g)'
  BY <1>2, <1>6, <1>7, <1>12, <1>13, <1>14, EmptyLine DEF OneToken, Asks
<1>16. AtRest(g)'
  BY <1>2, <1>8 DEF AtRest, InWaitAck
<1>17. TokenIsNewest(g)'
  BY <1>1, <1>2, <1>6, <1>7, <1>13, <1>14, EmptyLine DEF TokenIsNewest, Newest
<1>18. OnlyRegister(g)'
  BY <1>2, <1>6, <1>7, <1>13, <1>14, EmptyLine DEF TokenInv, OnlyRegister, Newest
<1>19. OneUnspent(g)'
  BY <1>2 DEF TokenInv, OneUnspent, InWaitAck, Newest
<1> QED
  BY <1>1, <1>2, <1>15, <1>16, <1>17, <1>18, <1>19 DEF TokenInv

\* The thread goes on, without a word to the game server.
LEMMA TokenSilent ==
    ASSUME NEW g \in Servers, Domains, TokenInv(g),
           \/ RegisterServer(g) \/ UpdateServer(g) \/ Exit(g)
           \/ LookupServer(g) /\ servertable[g] # NoEntry
    PROVE  TokenInv(g)'
<1>1. UNCHANGED <<pc, localseqnum, acksleft_tx, msgqueue, toMaster, toServer, main, read, confirmed>>
  BY DEF RegisterServer, UpdateServer, Exit, LookupServer, gameserver, handler, network, history
<1>2. /\ thread[g].pc \notin {"poll", "none"} /\ thread'[g].queue = <<>>
      /\ thread'[g].pc \notin {"poll", "HEARTBEAT"}
      /\ thread'[g].pc = "update" => thread[g].pc = "HEARTBEAT"
  BY DEF RegisterServer, UpdateServer, Exit, LookupServer, NoThread, Domains, TokenInv, OneToken
<1>3. toMaster[g] = <<>> /\ main.client # g /\ InWaitAck(g)
  BY <1>2 DEF TokenInv, OneToken, AtRest, Settled
<1>4. OneToken(g)'
  BY <1>1, <1>2, <1>3 DEF TokenInv, OneToken, Asks
<1>5. AtRest(g)'
  BY <1>1, <1>3 DEF AtRest, InWaitAck
<1>6. TokenIsNewest(g)'
  BY <1>1, <1>2, EmptyLine DEF TokenInv, TokenIsNewest, Newest
<1>7. OnlyRegister(g)'
  BY <1>1, <1>2, EmptyLine DEF TokenInv, OnlyRegister, Newest
<1>8. OneUnspent(g)'
  BY <1>1 DEF TokenInv, OneUnspent, InWaitAck, Newest
<1> QED
  BY <1>1, <1>4, <1>5, <1>6, <1>7, <1>8 DEF TokenInv

\* The thread asks the game server to register.
LEMMA TokenLookup ==
    ASSUME NEW g \in Servers, TokenTypes(g), Domains, TokenInv(g),
           LookupServer(g), servertable[g] = NoEntry
    PROVE  TokenInv(g)'
<1> DEFINE reply == [type |-> "REGISTER", ack |-> thread[g].seqnum]
           a == toServer[g]
<1>1. /\ UNCHANGED <<pc, localseqnum, acksleft_tx, msgqueue, toMaster, main, read, confirmed>>
      /\ thread[g].pc = "HEARTBEAT" /\ toServer'[g] = Append(a, reply)
      /\ thread'[g].pc = "leaving" /\ thread'[g].queue = thread[g].queue
  BY DEF LookupServer, Reply, Domains, gameserver, handler, history
<1>2. /\ toMaster[g] = <<>> /\ main.client # g /\ InWaitAck(g) /\ thread[g].queue = <<>>
      /\ pc[g] # "registering"
  BY <1>1 DEF TokenInv, OneToken, AtRest, Settled, OnlyRegister
<1>3. a \in Seq(Replies) /\ reply \in Replies /\ reply.type = "REGISTER"
  BY DEF TokenTypes, Threads, Replies
<1>4. reply.ack = Newest(g) /\ Newest(g) \in read[g]
  BY <1>1 DEF TokenInv, TokenIsNewest
<1> HIDE DEF reply, a
<1>5. \A type : /\ None(a, type) /\ reply.type # type => None(Append(a, reply), type)
                /\ Once(a, type) /\ reply.type # type => Once(Append(a, reply), type)
                /\ None(a, type) => Once(Append(a, reply), type)
  BY <1>3, LineGrows
<1>6. Answering(a, Newest(g)) => Answering(Append(a, reply), Newest(g))
  BY <1>3, <1>4, LineGrows
<1>7. OneToken(g)'
  <2>1. /\ None(a, "REGISTER") /\ None(msgqueue[g], "REGISTER")
        /\ Once(a, "ACK") /\ (None(a, "ACK") \/ None(msgqueue[g], "ACK"))
        /\ Once(msgqueue[g], "ACK") /\ Once(msgqueue[g], "REGISTER")
    BY <1>1 DEF TokenInv, OneToken, a
  <2>2. Once(Append(a, reply), "REGISTER") /\ Once(Append(a, reply), "ACK")
    BY <1>3, <1>5, <2>1
  <2>3. None(Append(a, reply), "ACK") \/ None(msgqueue[g], "ACK")
    BY <1>3, <1>5, <2>1
  <2> QED
    BY <1>1, <1>2, <2>1, <2>2, <2>3 DEF OneToken, Asks
<1>8. AtRest(g)'
  BY <1>1, <1>2 DEF AtRest, InWaitAck
<1>9. TokenIsNewest(g)'
  BY <1>1, <1>4, <1>6 DEF TokenInv, TokenIsNewest, Newest, a
<1>10. OnlyRegister(g)'
  BY <1>1, <1>2 DEF OnlyRegister
<1>11. OneUnspent(g)'
  BY <1>1 DEF TokenInv, OneUnspent, InWaitAck, Newest
<1> QED
  BY <1>1, <1>7, <1>8, <1>9, <1>10, <1>11 DEF TokenInv

\* A datagram is lost.
LEMMA TokenLose ==
    ASSUME NEW g \in Servers, TokenTypes(g), Domains, TokenInv(g), Lose(g)
    PROVE  TokenInv(g)'
<1> DEFINE a == toServer[g]
           b == toMaster[g]
<1>1. UNCHANGED <<pc, localseqnum, acksleft_tx, msgqueue, main, thread, read, confirmed>>
  BY DEF Lose, gameserver, handler, master
<1>2. a \in Seq(Replies) /\ b \in Seq(Packets)
  BY DEF TokenTypes
<1>3. ASSUME NEW i \in DOMAIN b, toMaster'[g] = RemoveAt(b, i), toServer' = toServer
      PROVE  TokenInv(g)'
  <2>1. InWaitAck(g) /\ Asks(g) /\ Len(b) = 1
    <3>1. b # <<>> /\ Len(b) <= 1
      BY <1>2, <1>3 DEF TokenInv, OneToken
    <3>2. Len(b) = 1
      BY <1>2, <3>1, LoneElement
    <3> QED
      BY <3>1, <3>2 DEF TokenInv, AtRest, Settled, Asks
  <2>2. toMaster'[g] = <<>>
    <3>1. RemoveAt(b, i) \in Seq(Packets) /\ Len(RemoveAt(b, i)) = Len(b) - 1
      BY <1>2, <1>3, RemoveAtFacts
    <3> QED
      BY <1>3, <2>1, <3>1, NoElements
  <2>3. OneToken(g)'
    BY <1>1, <1>3, <2>1, <2>2, EmptyLine DEF TokenInv, OneToken, Asks
  <2>4. AtRest(g)'
    BY <1>1, <2>1 DEF AtRest, InWaitAck
  <2>5. TokenIsNewest(g)'
    BY <1>1, <1>3, <2>2, EmptyLine DEF TokenInv, TokenIsNewest, Newest
  <2>6. OnlyRegister(g)'
    BY <1>1, <1>3, <2>2, EmptyLine DEF TokenInv, OnlyRegister, Newest
  <2>7. OneUnspent(g)'
    BY <1>1 DEF TokenInv, OneUnspent, InWaitAck, Newest
  <2> QED
    BY <1>1, <2>3, <2>4, <2>5, <2>6, <2>7 DEF TokenInv
<1>4. ASSUME NEW i \in DOMAIN a, toServer'[g] = RemoveAt(a, i), toMaster' = toMaster
      PROVE  TokenInv(g)'
  <2>1. a # <<>>
    BY <1>2, <1>4
  <2>2. InWaitAck(g) /\ ~Asks(g)
    BY <2>1 DEF TokenInv, OneToken, AtRest, Settled
  <2>3. /\ \A type : /\ None(a, type) => None(toServer'[g], type)
                     /\ Once(a, type) => Once(toServer'[g], type)
        /\ Answering(a, Newest(g)) => Answering(toServer'[g], Newest(g))
    BY <1>2, <1>4, LineShrinks
  <2>4. OneToken(g)'
    BY <1>1, <1>4, <2>2, <2>3 DEF TokenInv, OneToken, Asks
  <2>5. AtRest(g)'
    BY <1>1, <2>2 DEF AtRest, InWaitAck
  <2>6. TokenIsNewest(g)'
    BY <1>1, <1>4, <2>1, <2>3 DEF TokenInv, TokenIsNewest, Newest
  <2>7. OnlyRegister(g)'
    BY <1>1, <1>4, <2>3 DEF TokenInv, OnlyRegister, Newest
  <2>8. OneUnspent(g)'
    BY <1>1 DEF TokenInv, OneUnspent, InWaitAck, Newest
  <2> QED
    BY <1>1, <2>4, <2>5, <2>6, <2>7, <2>8 DEF TokenInv
<1> QED
  BY <1>3, <1>4 DEF Lose, Domains

\* What the main loop does, other than with a packet of g's.
LEMMA MainSameKeeps ==
    ASSUME NEW g \in Servers, TokenTypes(g), Domains, NoOne \notin Servers,
           \/ \E h \in Servers \ {g} : Receive(h)
           \/ \E h \in Servers : CheckServer(h)
           \/ ReceiveOther \/ RemoveServer
           \/ Dispatch /\ main.client # g
    PROVE  Same(g)
<1>1. UNCHANGED <<pc, localseqnum, acksleft_tx, msgqueue, toServer, read, confirmed>>
  BY DEF Receive, CheckServer, ReceiveOther, RemoveServer, Dispatch,
         gameserver, handler, network, history
<1>2. toMaster'[g] = toMaster[g] /\ thread'[g] = thread[g]
  BY DEF Receive, CheckServer, ReceiveOther, RemoveServer, Dispatch, network, Domains
<1>3. MainSame(g)
  <2>1. CASE \E h \in Servers \ {g} : Receive(h)
    BY <2>1 DEF Receive, Waiting, MainSame, TokenTypes
  <2>2. CASE ReceiveOther
    BY <2>2 DEF ReceiveOther, Waiting, MainSame, TokenTypes
  <2>3. CASE RemoveServer \/ \E h \in Servers : CheckServer(h)
    <3>1. main'.client = main.client /\ main'.pkt = main.pkt
      BY <2>3 DEF RemoveServer, CheckServer, Domains
    <3> QED
      BY <3>1 DEF MainSame
  <2>4. CASE Dispatch /\ main.client # g
    BY <2>4 DEF Dispatch, Waiting, MainSame
  <2> QED
    BY <2>1, <2>2, <2>3, <2>4
<1> QED
  BY <1>1, <1>2, <1>3 DEF Same

\* The master server stops, and a heartbeat interval goes by.
LEMMA TokenWorld ==
    ASSUME NEW g \in Servers, Domains, TokenInv(g), NoOne \notin Servers, Crash \/ Boot \/ Tick
    PROVE  TokenInv(g)'
<1>1. CASE Boot
  <2>1. Same(g)
    BY <1>1 DEF Boot, gameserver, handler, network, history, Same, MainSame
  <2> QED
    BY <2>1, SameKeeps
<1>2. CASE Crash
  <2>1. /\ UNCHANGED <<pc, localseqnum, acksleft_tx, msgqueue, toMaster, toServer, read, confirmed>>
        /\ thread'[g].pc = "none" /\ thread'[g].queue = <<>> /\ main'.client # g
    BY <1>2 DEF Crash, NoThread, Waiting, gameserver, handler, network, history
  <2>2. OneToken(g)'
    BY <2>1 DEF TokenInv, OneToken, Asks
  <2>3. AtRest(g)'
    BY <2>1 DEF TokenInv, AtRest, InWaitAck, Settled
  <2>4. TokenIsNewest(g)'
    BY <2>1, EmptyLine DEF TokenInv, TokenIsNewest, Newest
  <2>5. OnlyRegister(g)'
    BY <2>1, EmptyLine DEF TokenInv, OnlyRegister, Newest
  <2>6. OneUnspent(g)'
    BY <2>1 DEF TokenInv, OneUnspent, InWaitAck, Newest
  <2> QED
    BY <2>1, <2>2, <2>3, <2>4, <2>5, <2>6 DEF TokenInv
<1>3. CASE Tick
  <2>1. /\ UNCHANGED <<localseqnum, acksleft_tx, msgqueue, network, main, thread, read, confirmed>>
        /\ pc'[g] = IF pc[g] = "asleep" THEN "awake" ELSE pc[g]
    BY <1>3 DEF Tick, handler, master, history
  <2>2. OneToken(g)'
    BY <2>1 DEF TokenInv, OneToken, Asks, network
  <2>3. AtRest(g)'
    BY <2>1 DEF TokenInv, AtRest, InWaitAck, Settled, network
  <2>4. TokenIsNewest(g)'
    BY <2>1 DEF TokenInv, TokenIsNewest, Newest, network
  <2>5. OnlyRegister(g)'
    BY <2>1 DEF TokenInv, OnlyRegister, Newest, network
  <2>6. OneUnspent(g)'
    BY <2>1 DEF TokenInv, OneUnspent, InWaitAck, Newest
  <2> QED
    BY <2>1, <2>2, <2>3, <2>4, <2>5, <2>6 DEF TokenInv
<1> QED
  BY <1>1, <1>2, <1>3

\* All steps of g, its thread and its datagrams.
LEMMA TokenOwn ==
    ASSUME TypeInv, NEW g \in Servers, env.prompt, TokenInv(g),
           GameServer(g) \/ Thread(g) \/ Lose(g)
    PROVE  TokenInv(g)'
<1>1. TokenTypes(g) /\ Domains
  BY TokenTypesHold, DomainsHold
<1>2. CASE GameServer(g)
  BY <1>1, <1>2, TokenTop, TokenReadReply, TokenResend, TokenReceiveReply DEF GameServer
<1>3. CASE Thread(g)
  BY <1>1, <1>3, TokenReadPacket, TokenSilent, TokenLookup DEF Thread
<1>4. CASE Lose(g)
  BY <1>1, <1>4, TokenLose
<1> QED
  BY <1>2, <1>3, <1>4

\* A step of the registry, for each game server.
LEMMA TokenStep ==
    ASSUME TypeInv, NEW g \in Servers, env.prompt, TokenInv(g), [Next]_vars
    PROVE  TokenInv(g)'
<1>1. TokenTypes(g) /\ Domains /\ NoOne \notin Servers
  BY TokenTypesHold, DomainsHold, MasterRegistryAssumption
<1>2. ASSUME NEW h \in Servers, GameServer(h) \/ Thread(h) \/ Lose(h)
      PROVE  TokenInv(g)'
  BY <1>1, <1>2, TokenOwn, OthersSame, SameKeeps
<1>3. ASSUME MainLoop \/ ReceiveOther
      PROVE  TokenInv(g)'
  <2>1. CASE Receive(g)
    BY <1>1, <2>1, TokenReceive
  <2>2. CASE Dispatch /\ main.client = g
    BY <1>1, <2>2, TokenDispatch
  <2>3. CASE ~Receive(g) /\ ~(Dispatch /\ main.client = g)
    <3>1. \/ \E h \in Servers \ {g} : Receive(h)
          \/ \E h \in Servers : CheckServer(h)
          \/ ReceiveOther \/ RemoveServer
          \/ Dispatch /\ main.client # g
      BY <1>3, <2>3 DEF MainLoop
    <3> QED
      BY <1>1, <3>1, MainSameKeeps, SameKeeps
  <2> QED
    BY <2>1, <2>2, <2>3
<1>4. CASE Crash \/ Boot \/ Tick
  BY <1>1, <1>4, TokenWorld
<1>5. CASE UNCHANGED vars
  <2>1. Same(g)
    BY <1>5 DEF vars, gameserver, handler, network, master, history, Same, MainSame
  <2> QED
    BY <2>1, SameKeeps
<1> QED
  BY <1>2, <1>3, <1>4, <1>5 DEF Next

LEMMA ConfirmStep ==
    ASSUME TypeInv, ConfirmInv, [Next]_vars
    PROVE  ConfirmInv'
<1>1. env'.prompt = env.prompt
  BY PromptKept
<1>2. ASSUME env.prompt, NEW g \in Servers PROVE TokenInv(g)'
  BY <1>2, TokenStep DEF ConfirmInv
<1> QED
  BY <1>1, <1>2 DEF ConfirmInv

LEMMA ConfirmInit == Init => ConfirmInv
<1> SUFFICES ASSUME Init, NEW g \in Servers PROVE TokenInv(g)
  BY DEF ConfirmInv
<1>1. /\ pc[g] \in {"top", "stopped"} /\ localseqnum[g] = 0 /\ acksleft_tx[g] = <<>>
      /\ msgqueue[g] = <<>> /\ toMaster[g] = <<>> /\ toServer[g] = <<>>
      /\ thread[g].pc = "none" /\ thread[g].queue = <<>> /\ main.client # g
      /\ confirmed[g] = {}
  BY MasterRegistryAssumption DEF Init, NoThread, Waiting
<1>2. OneToken(g)
  BY <1>1, EmptyLine DEF OneToken, Asks
<1>3. AtRest(g)
  BY <1>1, EmptyLine DEF AtRest, Settled
<1>4. TokenIsNewest(g)
  BY <1>1, EmptyLine DEF TokenIsNewest
<1>5. OnlyRegister(g)
  BY <1>1, EmptyLine DEF OnlyRegister
<1>6. OneUnspent(g)
  BY <1>1 DEF OneUnspent, Old, Stuck
<1> QED
  BY <1>1, <1>2, <1>3, <1>4, <1>5, <1>6 DEF TokenInv

\* "Wait for an acknowledgement packet from the master server": in a prompt
\* environment the game server leaves WaitAck by the acknowledgement of a packet only
\* if the master server read that packet (MasterConnectionThread.java:110-124).
THEOREM RegistryConfirms == Spec => []ConfirmedIsRead
<1>1. Init => TypeInv /\ ConfirmInv
  BY TypeInit, ConfirmInit
<1>2. TypeInv /\ ConfirmInv /\ [Next]_vars => (TypeInv /\ ConfirmInv)'
  BY TypeStep, ConfirmStep
<1>3. ConfirmInv => ConfirmedIsRead
  BY DEF ConfirmInv, TokenInv, ConfirmedIsRead
<1> QED
  BY <1>1, <1>2, <1>3, PTL DEF Spec

-----------------------------------------------------------------------------
(* Who was heard of is listed *)

\* What is not a reply of a type does not hide one, where it is taken or added.
LEMMA RequestStays ==
    ASSUME NEW S, NEW s \in Seq(S), NEW type
    PROVE  /\ \A i \in DOMAIN s : None(RemoveAt(s, i), type) /\ s[i].type # type => None(s, type)
           /\ \A e \in S : None(Append(s, e), type) => None(s, type) /\ e.type # type
<1>1. ASSUME NEW i \in DOMAIN s, None(RemoveAt(s, i), type), s[i].type # type
      PROVE  None(s, type)
  <2> SUFFICES ASSUME NEW k \in DOMAIN s PROVE s[k].type # type
    BY DEF None
  <2>1. /\ RemoveAt(s, i) \in Seq(S) /\ Len(RemoveAt(s, i)) = Len(s) - 1
        /\ \A j \in DOMAIN RemoveAt(s, i) :
             RemoveAt(s, i)[j] = IF j < i THEN s[j] ELSE s[j + 1]
    BY RemoveAtFacts
  <2> DEFINE r == RemoveAt(s, i)
  <2> HIDE DEF r
  <2>2. r \in Seq(S) /\ Len(r) = Len(s) - 1
    BY <2>1 DEF r
  <2>3. DOMAIN r = 1..(Len(s) - 1) /\ DOMAIN s = 1..Len(s) /\ Len(s) \in Nat
    BY <2>2
  <2>4. CASE k < i
    <3>1. k \in DOMAIN r
      BY <2>3, <2>4
    <3> QED
      BY <1>1, <2>1, <2>4, <3>1 DEF None, r
  <2>5. CASE k > i
    <3>1. k - 1 \in DOMAIN r /\ ~(k - 1 < i) /\ (k - 1) + 1 = k
      BY <2>3, <2>5
    <3>2. r[k - 1] = s[k]
      BY <2>1, <3>1 DEF r
    <3> QED
      BY <1>1, <3>1, <3>2 DEF None, r
  <2> QED
    BY <1>1, <2>3, <2>4, <2>5
<1>2. ASSUME NEW e \in S, None(Append(s, e), type)
      PROVE  None(s, type) /\ e.type # type
  <2>1. /\ DOMAIN Append(s, e) = 1..(Len(s) + 1) /\ DOMAIN s = 1..Len(s) /\ Len(s) \in Nat
        /\ Append(s, e)[Len(s) + 1] = e /\ \A i \in DOMAIN s : Append(s, e)[i] = s[i]
    BY AppendFacts
  <2> QED
    BY <1>2, <2>1 DEF None
<1> QED
  BY <1>1, <1>2

\* What the invariant needs of the types.
ListedTypes(g) ==
    /\ servertable \in [Servers -> Nat] /\ heard \in [Servers -> Nat]
    /\ clock \in Nat /\ booted \in Nat /\ unasked \in [Servers -> BOOLEAN]
    /\ DOMAIN env = {"servers", "prompt", "reorders", "losses", "crashes", "clock"}
    /\ heard[g] <= clock /\ servertable[g] <= clock /\ TIME_KEEPSERVERS \in Nat

\* What is assumed of a step.
Listing(g) ==
    /\ env.prompt /\ TokenTypes(g) /\ Domains /\ ListedTypes(g)
    /\ TokenInv(g) /\ TableOf(g) /\ ListedOf(g)

LEMMA ListingHolds ==
    ASSUME TypeInv, TableInv, ConfirmInv, ListedInv, env.prompt, NEW g \in Servers
    PROVE  Listing(g)
<1>1. TokenTypes(g) /\ Domains /\ TokenInv(g) /\ TableOf(g) /\ ListedOf(g)
  BY TokenTypesHold, DomainsHold DEF ConfirmInv, TableInv, ListedInv
<1>2. /\ servertable \in [Servers -> Nat] /\ heard \in [Servers -> Nat]
      /\ clock \in Nat /\ booted \in Nat /\ unasked \in [Servers -> BOOLEAN]
      /\ DOMAIN env = {"servers", "prompt", "reorders", "losses", "crashes", "clock"}
  BY DEF TypeInv, TypeOK
<1>3. heard[g] <= clock /\ servertable[g] <= clock
  BY <1>1, <1>2 DEF TableOf
<1>4. ListedTypes(g)
  BY <1>2, <1>3, MasterRegistryAssumption DEF ListedTypes
<1> QED
  BY <1>1, <1>4 DEF Listing

\* A step changes nothing the invariant says of g.
ListedSame(g) ==
    /\ pc'[g] = pc[g] /\ toServer'[g] = toServer[g] /\ msgqueue'[g] = msgqueue[g]
    /\ thread'[g].pc = thread[g].pc /\ servertable'[g] = servertable[g]
    /\ heard'[g] = heard[g] /\ unasked'[g] = unasked[g]
    /\ up' = up /\ clock' = clock /\ booted' = booted

LEMMA ListedSameKeeps ==
    ASSUME NEW g \in Servers, ListedOf(g), ListedSame(g)
    PROVE  ListedOf(g)'
  BY DEF ListedSame, ListedOf, MissedIsAsked, AckedIsListed, Missed, None

\* A game server of which nothing is expected.
LEMMA NotMissedKeeps ==
    ASSUME NEW g \in Servers, ~Missed(g)'
    PROVE  ListedOf(g)'
  BY DEF ListedOf, MissedIsAsked, AckedIsListed

\* The game server begins to register.
LEMMA ListedRegister ==
    ASSUME NEW g \in Servers, Listing(g), RegisterFirst(g) \/ RegisterAgain(g)
    PROVE  ListedOf(g)'
<1>1. ~InWaitAck(g) /\ pc'[g] = "registering" /\ toServer' = toServer
  BY DEF RegisterFirst, RegisterAgain, Send, InWaitAck, Listing, Domains
<1>2. toServer[g] = <<>>
  BY <1>1 DEF Listing, TokenInv, AtRest, Settled
<1>3. msgqueue'[g] = <<>>
  BY <1>1, RestFacts DEF RegisterFirst, RegisterAgain, Listing, Domains
<1> QED
  BY <1>1, <1>2, <1>3 DEF ListedOf, MissedIsAsked, AckedIsListed

\* The game server sends a heartbeat, or nothing.
LEMMA ListedTop ==
    ASSUME NEW g \in Servers, Listing(g), NothingAsked(g) \/ Heartbeat(g)
    PROVE  ListedOf(g)'
<1>1. ~InWaitAck(g) /\ UNCHANGED <<servertable, heard, up, thread, clock, booted, unasked>>
  BY DEF NothingAsked, Heartbeat, InWaitAck, master, world, history
<1>2. toServer[g] = <<>> /\ thread[g].pc = "none"
  BY <1>1 DEF Listing, TokenInv, AtRest, Settled
<1>3. msgqueue[g] = <<>>
  <2>1. CASE NothingAsked(g)
    BY <1>1, <2>1, RestFacts DEF NothingAsked, Listing
  <2>2. CASE Heartbeat(g)
    BY <1>1, <2>2 DEF Heartbeat, Listing, TokenInv, AtRest
  <2> QED
    BY <2>1, <2>2
<1>4. pc[g] \in {"top", "awake"}
  BY DEF NothingAsked, Heartbeat
<1>5. ~Missed(g)
  BY <1>2, <1>3, <1>4, EmptyLine DEF Listing, ListedOf, MissedIsAsked
<1>6. ~Missed(g)'
  BY <1>1, <1>5 DEF Missed
<1> QED
  BY <1>6, NotMissedKeeps

\* WaitAck reads a reply: of two that there are, the acknowledgement comes first, or
\* the request is thrown away.
LEMMA ListedReadReply ==
    ASSUME NEW g \in Servers, Listing(g), ReadReply(g)
    PROVE  ListedOf(g)'
<1> DEFINE b == msgqueue[g]
           reply == Head(b)
<1>1. b \in Seq(Replies) /\ b # <<>> /\ InWaitAck(g) /\ Settled(g)
  BY DEF ReadReply, Listing, TokenTypes, Paused
<1>2. reply \in Replies /\ reply = b[1] /\ 1 \in DOMAIN b /\ Tail(b) = RemoveAt(b, 1)
  BY <1>1, TailFacts, TailRemoves
<1>3. /\ UNCHANGED <<toServer, servertable, heard, up, thread, clock, booted>>
      /\ msgqueue'[g] = Tail(b)
      /\ unasked' = [unasked EXCEPT ![g] = @ \/ reply.type = "REGISTER"]
  BY DEF ReadReply, Listing, Domains, network, master, world
<1>4. CASE reply.type = "REGISTER"
  <2>1. unasked'[g]
    BY <1>3, <1>4 DEF Listing, ListedTypes
  <2> QED
    BY <2>1, NotMissedKeeps DEF Missed
<1>5. CASE reply.type = "ACK"
  <2>1. unasked'[g] = unasked[g] /\ pc'[g] = AfterWait(g)
    <3>1. unasked'[g] = unasked[g]
      BY <1>3, <1>5, FlagStays DEF Listing, ListedTypes
    <3>2. pc' = [pc EXCEPT ![g] = AfterWait(g)]
      BY <1>5 DEF ReadReply
    <3> QED
      BY <3>1, <3>2 DEF Listing, Domains
  <2>2. thread[g].pc = "none" /\ toServer[g] = <<>>
    BY <1>1 DEF Settled
  <2>3. Missed(g)' => Missed(g)
    BY <1>3, <2>1 DEF Missed
  <2>4. CASE pc[g] = "registering"
    <3>1. ~Missed(g)
      BY <1>1, <2>2, <2>4 DEF Listing, ListedOf, AckedIsListed
    <3> QED
      BY <2>3, <3>1, NotMissedKeeps
  <2>5. CASE pc[g] = "beating"
    <3>1. pc'[g] = "top"
      BY <2>1, <2>5 DEF AfterWait
    <3>2. Missed(g) => ~None(b, "REGISTER")
      BY <2>2, <2>5, EmptyLine DEF Listing, ListedOf, MissedIsAsked
    <3>3. ~None(b, "REGISTER") => ~None(Tail(b), "REGISTER")
      BY <1>1, <1>2, <1>5, RequestStays
    <3> QED
      BY <1>3, <2>3, <3>1, <3>2, <3>3 DEF ListedOf, MissedIsAsked, AckedIsListed
  <2> QED
    BY <1>1, <2>4, <2>5 DEF InWaitAck
<1> QED
  BY <1>2, <1>4, <1>5 DEF Replies

\* WaitAck sends again, or gives up.
LEMMA ListedResend ==
    ASSUME NEW g \in Servers, Listing(g), Resend(g)
    PROVE  ListedOf(g)'
<1>1. /\ UNCHANGED <<toServer, msgqueue, servertable, heard, up, thread, clock, booted>>
      /\ msgqueue[g] = <<>> /\ InWaitAck(g) /\ Settled(g)
  BY DEF Resend, Listing, Paused, master, world
<1>2. CASE UNCHANGED <<pc, unasked>>
  BY <1>1, <1>2, ListedSameKeeps DEF Listing, ListedSame
<1>3. CASE /\ unasked' = [unasked EXCEPT ![g] = @ \/ pc[g] = "registering"]
           /\ pc'[g] # "registering"
  <2>1. CASE pc[g] = "registering"
    <3>1. unasked'[g]
      BY <1>3, <2>1 DEF Listing, ListedTypes
    <3> QED
      BY <3>1, NotMissedKeeps DEF Missed
  <2>2. CASE pc[g] = "beating"
    <3>1. ~Missed(g)
      BY <1>1, <2>2, EmptyLine DEF Listing, ListedOf, MissedIsAsked, Settled
    <3>2. unasked'[g] = unasked[g]
      BY <1>3, <2>2, FlagStays DEF Listing, ListedTypes
    <3>3. ~Missed(g)'
      BY <1>1, <3>1, <3>2 DEF Missed
    <3> QED
      BY <3>3, NotMissedKeeps
  <2> QED
    BY <1>1, <2>1, <2>2 DEF InWaitAck
<1> QED
  BY <1>2, <1>3 DEF Resend, Listing, Domains, AfterWait

\* The game server's main loop passes a reply on.
LEMMA ListedReceiveReply ==
    ASSUME NEW g \in Servers, Listing(g), ReceiveReply(g)
    PROVE  ListedOf(g)'
<1> DEFINE a == toServer[g]
           b == msgqueue[g]
<1>1. PICK i \in DOMAIN a : toServer'[g] = RemoveAt(a, i) /\ msgqueue'[g] = Append(b, a[i])
  BY DEF ReceiveReply, Ready, Listing, Domains
<1>2. UNCHANGED <<pc, servertable, heard, up, thread, clock, booted, unasked>>
  BY DEF ReceiveReply, master, world, history
<1>3. a \in Seq(Replies) /\ b \in Seq(Replies)
  BY DEF Listing, TokenTypes
<1>4. a # <<>> /\ a[i] \in Replies
  BY <1>1, <1>3
<1>5. /\ None(RemoveAt(a, i), "REGISTER") /\ a[i].type # "REGISTER" => None(a, "REGISTER")
      /\ None(Append(b, a[i]), "REGISTER") => None(b, "REGISTER") /\ a[i].type # "REGISTER"
  BY <1>3, <1>4, RequestStays
<1>6. Missed(g)' = Missed(g)
  BY <1>2 DEF Missed
<1> HIDE DEF a, b
<1>7. None(toServer'[g], "REGISTER") /\ None(msgqueue'[g], "REGISTER")
        => None(a, "REGISTER") /\ None(b, "REGISTER")
  BY <1>1, <1>5
<1>8. MissedIsAsked(g)'
  BY <1>2, <1>6, <1>7 DEF Listing, ListedOf, MissedIsAsked, a, b
<1>9. AckedIsListed(g)'
  BY <1>2, <1>4, <1>6 DEF Listing, ListedOf, AckedIsListed, a
<1> QED
  BY <1>8, <1>9 DEF ListedOf

\* The thread that was started for g's packet deals with it.
LEMMA ListedThread ==
    ASSUME NEW g \in Servers, Listing(g), Thread(g)
    PROVE  ListedOf(g)'
<1>1. UNCHANGED <<pc, msgqueue, heard, up, clock, booted>>
  BY DEF Thread, ReadPacket, RegisterServer, LookupServer, UpdateServer, Exit,
         gameserver, world, history
<1>2. CASE ReadPacket(g)
  <2>1. thread[g].queue \in Seq(Packets) /\ thread[g].queue # <<>>
    BY <1>2 DEF ReadPacket, Listing, TokenTypes
  <2>2. Head(thread[g].queue) \in Packets /\ Head(thread[g].queue) = thread[g].queue[1]
        /\ 1 \in DOMAIN thread[g].queue
    BY <2>1, TailFacts
  <2>3. /\ Head(thread[g].queue).type \in {"REGISTER", "HEARTBEAT"}
        /\ pc[g] = "registering" => Head(thread[g].queue).type = "REGISTER"
    BY <2>2 DEF Packets, Listing, TokenInv, OnlyRegister, AllOf
  <2>4. thread'[g].pc = Head(thread[g].queue).type
    BY <1>2 DEF ReadPacket, Listing, Domains
  <2> QED
    BY <1>1, <2>3, <2>4 DEF ListedOf, MissedIsAsked, AckedIsListed
<1>3. CASE RegisterServer(g)
  <2>1. servertable'[g] = clock
    BY <1>3 DEF RegisterServer, Listing, ListedTypes
  <2>2. ~Missed(g)'
    BY <1>1, <2>1 DEF Missed, NoEntry, Listing, ListedTypes
  <2> QED
    BY <2>2, NotMissedKeeps
<1>4. CASE LookupServer(g) /\ servertable[g] # NoEntry
  <2>1. servertable' = servertable
    BY <1>4 DEF LookupServer
  <2> QED
    BY <1>4, <2>1, NotMissedKeeps DEF Missed
<1>5. CASE LookupServer(g) /\ servertable[g] = NoEntry
  <2> DEFINE reply == [type |-> "REGISTER", ack |-> thread[g].seqnum]
  <2>1. thread[g].pc = "HEARTBEAT" /\ toServer'[g] = Append(toServer[g], reply)
    BY <1>5 DEF LookupServer, Reply, Listing, Domains
  <2>2. pc[g] = "beating"
    BY <2>1 DEF Listing, TokenInv, AtRest, Settled, InWaitAck, OnlyRegister
  <2>3. toServer[g] \in Seq(Replies) /\ reply \in Replies /\ reply.type = "REGISTER"
    BY DEF Listing, TokenTypes, Threads, Replies
  <2>4. ~None(toServer'[g], "REGISTER")
    BY <2>1, <2>3, RequestStays
  <2> QED
    BY <1>1, <2>2, <2>4 DEF ListedOf, MissedIsAsked, AckedIsListed
<1>6. CASE UpdateServer(g) /\ servertable[g] # NoEntry
  <2>1. servertable'[g] = clock
    BY <1>6 DEF UpdateServer, Listing, ListedTypes
  <2>2. ~Missed(g)'
    BY <1>1, <1>6, <2>1 DEF Missed, NoEntry, Listing, ListedTypes
  <2> QED
    BY <2>2, NotMissedKeeps
<1>7. CASE UpdateServer(g) /\ servertable[g] = NoEntry
  <2>1. /\ thread[g].pc = "update" /\ thread'[g].pc = "leaving"
        /\ UNCHANGED <<toServer, unasked>> /\ servertable'[g] = servertable[g]
    BY <1>7 DEF UpdateServer, Listing, ListedTypes, Domains, network, history
  <2>2. pc[g] # "registering"
    BY <2>1 DEF Listing, TokenInv, OnlyRegister
  <2> QED
    BY <1>1, <2>1, <2>2 DEF Listing, ListedOf, MissedIsAsked, AckedIsListed, Missed
<1>8. CASE Exit(g)
  <2>1. /\ thread[g].pc = "leaving" /\ thread'[g].pc = "none"
        /\ UNCHANGED <<toServer, unasked, servertable>>
    BY <1>8 DEF Exit, NoThread, Listing, Domains, network, history
  <2> QED
    BY <1>1, <2>1 DEF Listing, ListedOf, MissedIsAsked, AckedIsListed, Missed
<1> QED
  BY <1>2, <1>3, <1>4, <1>5, <1>6, <1>7, <1>8 DEF Thread

\* A datagram is lost.
LEMMA ListedLose ==
    ASSUME NEW g \in Servers, Listing(g), Lose(g)
    PROVE  ListedOf(g)'
<1> DEFINE a == toServer[g]
<1>1. UNCHANGED <<pc, msgqueue, thread, servertable, heard, up, clock, booted>>
  BY DEF Lose, gameserver, master
<1>2. CASE UNCHANGED <<toServer, unasked>>
  BY <1>1, <1>2, ListedSameKeeps DEF Listing, ListedSame
<1>3. ASSUME NEW i \in DOMAIN a, toServer'[g] = RemoveAt(a, i),
             unasked' = [unasked EXCEPT ![g] = @ \/ a[i].type = "REGISTER"]
      PROVE  ListedOf(g)'
  <2>1. a \in Seq(Replies) /\ a # <<>>
    <3>1. a \in Seq(Replies)
      BY DEF Listing, TokenTypes
    <3> QED
      BY <1>3, <3>1
  <2>2. CASE a[i].type = "REGISTER"
    <3>1. unasked'[g]
      BY <1>3, <2>2 DEF Listing, ListedTypes
    <3> QED
      BY <3>1, NotMissedKeeps DEF Missed
  <2>3. CASE a[i].type # "REGISTER"
    <3>1. unasked'[g] = unasked[g]
      BY <1>3, <2>3, FlagStays DEF Listing, ListedTypes
    <3>2. Missed(g)' = Missed(g)
      BY <1>1, <3>1 DEF Missed
    <3>3. None(toServer'[g], "REGISTER") => None(a, "REGISTER")
      BY <1>3, <2>1, <2>3, RequestStays
    <3> QED
      BY <1>1, <2>1, <3>2, <3>3 DEF Listing, ListedOf, MissedIsAsked, AckedIsListed
  <2> QED
    BY <2>2, <2>3
<1> QED
  BY <1>2, <1>3 DEF Lose, Listing, Domains

\* What happens to others does not concern g.
LEMMA ListedOthers ==
    ASSUME NEW g \in Servers, Listing(g), NEW h \in Servers, h # g,
           GameServer(h) \/ Thread(h) \/ Lose(h)
    PROVE  ListedOf(g)'
<1>1. Same(g)
  BY OthersSame DEF Listing
<1>2. up' = up /\ clock' = clock /\ booted' = booted
  BY DEF GameServer, RegisterFirst, RegisterAgain, NothingAsked, Heartbeat, ReadReply, Resend,
         ReceiveReply, Thread, ReadPacket, RegisterServer, LookupServer, UpdateServer, Exit, Lose,
         master, world
<1>3. /\ servertable'[g] = servertable[g] /\ heard'[g] = heard[g]
      /\ unasked'[g] = unasked[g]
  <2>1. CASE GameServer(h)
    BY <2>1 DEF GameServer, RegisterFirst, RegisterAgain, NothingAsked, Heartbeat, ReadReply,
                Resend, ReceiveReply, master, history, Listing, ListedTypes
  <2>2. CASE Thread(h)
    BY <2>2 DEF Thread, ReadPacket, RegisterServer, LookupServer, UpdateServer, Exit,
                history, Listing, ListedTypes
  <2>3. CASE Lose(h)
    BY <2>3 DEF Lose, master, Listing, ListedTypes
  <2> QED
    BY <2>1, <2>2, <2>3
<1>4. ListedSame(g)
  BY <1>1, <1>2, <1>3 DEF Same, ListedSame
<1> QED
  BY <1>4, ListedSameKeeps DEF Listing

\* The main loop: a packet of g's goes to its thread, and g is removed if it is silent.
LEMMA ListedMain ==
    ASSUME NEW g \in Servers, Listing(g), SweepOf(g), NoOne \notin Servers,
           MainLoop \/ ReceiveOther
    PROVE  ListedOf(g)'
<1>1. UNCHANGED <<pc, msgqueue, toServer, up, clock, booted, unasked>>
  BY DEF MainLoop, ReceiveOther, Receive, CheckServer, RemoveServer, Dispatch,
         gameserver, network, world, history
<1>2. CASE Dispatch /\ main.client = g
  <2>1. toServer[g] = <<>> /\ msgqueue[g] = <<>> /\ thread[g].pc = "none"
    BY <1>2 DEF Listing, TokenInv, OneToken, Asks
  <2>2. thread'[g].pc = "poll"
    BY <1>2, <2>1 DEF Dispatch, Listing, Domains
  <2> QED
    BY <1>1, <2>1, <2>2 DEF ListedOf, MissedIsAsked, AckedIsListed
<1>3. CASE RemoveServer /\ main.dead = g
  <2>1. Expired(g) /\ thread[g].pc = "none" /\ servertable[g] = heard[g] /\ heard' = heard
    BY <1>3 DEF RemoveServer, SweepOf, Listing, TableOf, Fresh, history
  <2>2. ~Missed(g)'
    BY <1>1, <2>1 DEF Missed, Expired, Listing, ListedTypes
  <2> QED
    BY <2>2, NotMissedKeeps
<1>4. CASE ~(Dispatch /\ main.client = g) /\ ~(RemoveServer /\ main.dead = g)
  <2>1. servertable'[g] = servertable[g] /\ heard'[g] = heard[g] /\ thread'[g].pc = thread[g].pc
    BY <1>4 DEF MainLoop, ReceiveOther, Receive, CheckServer, RemoveServer, Dispatch,
                history, Listing, ListedTypes, Domains
  <2> QED
    BY <1>1, <2>1, ListedSameKeeps DEF ListedSame, Listing
<1> QED
  BY <1>2, <1>3, <1>4

\* The master server stops or starts, or a heartbeat interval goes by.
LEMMA ListedWorld ==
    ASSUME NEW g \in Servers, Listing(g), Crash \/ Boot \/ Tick
    PROVE  ListedOf(g)'
<1>1. CASE Crash
  BY <1>1, NotMissedKeeps DEF Crash, Missed
<1>2. CASE Boot
  <2>1. booted' = clock /\ heard' = heard
    BY <1>2 DEF Boot, history
  <2>2. ~Missed(g)'
    BY <2>1 DEF Missed, Listing, ListedTypes
  <2> QED
    BY <2>2, NotMissedKeeps
<1>3. CASE Tick
  <2>1. /\ Settled(g) /\ (pc[g] \in {"asleep", "stopped"} \/ Hangs(g))
        /\ clock' = clock + 1 /\ pc'[g] = IF pc[g] = "asleep" THEN "awake" ELSE pc[g]
        /\ UNCHANGED <<toServer, msgqueue, thread, servertable, heard, up, booted, unasked>>
    BY <1>3 DEF Tick, Quiet, network, master, history, Listing
  <2>2. toServer[g] = <<>> /\ thread[g].pc = "none"
    BY <2>1 DEF Settled
  <2>3. Missed(g)' => Missed(g)
    BY <2>1 DEF Missed, Listing, ListedTypes
  <2>4. pc[g] # "registering" => ~Missed(g)
    BY <2>1, <2>2, EmptyLine DEF Hangs, InWaitAck, Listing, ListedOf, MissedIsAsked
  <2>5. pc[g] = "registering" => toServer'[g] = <<>> /\ msgqueue'[g] = <<>>
    BY <2>1, <2>2 DEF Hangs
  <2> QED
    BY <2>1, <2>3, <2>4, <2>5 DEF ListedOf, MissedIsAsked, AckedIsListed
<1> QED
  BY <1>1, <1>2, <1>3

LEMMA ListedStep ==
    ASSUME TypeInv, TableInv, ConfirmInv, ListedInv, [Next]_vars
    PROVE  ListedInv'
<1>1. env'.prompt = env.prompt
  BY PromptKept
<1>2. ASSUME env.prompt, NEW g \in Servers PROVE ListedOf(g)'
  <2>1. Listing(g) /\ SweepOf(g) /\ NoOne \notin Servers
    BY <1>2, ListingHolds, MasterRegistryAssumption DEF TableInv
  <2>2. ASSUME NEW h \in Servers, GameServer(h) \/ Thread(h) \/ Lose(h)
        PROVE  ListedOf(g)'
    <3>1. CASE h # g
      BY <2>1, <2>2, <3>1, ListedOthers
    <3>2. CASE h = g
      BY <2>1, <2>2, <3>2, ListedRegister, ListedTop, ListedReadReply, ListedResend,
         ListedReceiveReply, ListedThread, ListedLose DEF GameServer
    <3> QED
      BY <3>1, <3>2
  <2>3. CASE MainLoop \/ ReceiveOther
    BY <2>1, <2>3, ListedMain
  <2>4. CASE Crash \/ Boot \/ Tick
    BY <2>1, <2>4, ListedWorld
  <2>5. CASE UNCHANGED vars
    <3>1. ListedSame(g)
      BY <2>5 DEF vars, gameserver, network, master, world, history, ListedSame
    <3> QED
      BY <2>1, <3>1, ListedSameKeeps DEF Listing
  <2> QED
    BY <2>2, <2>3, <2>4, <2>5 DEF Next
<1> QED
  BY <1>1, <1>2 DEF ListedInv

LEMMA ListedInit == Init => ListedInv
  BY DEF Init, ListedInv, ListedOf, MissedIsAsked, AckedIsListed, Missed

\* The four invariants together.
RegistryInv == TypeInv /\ TableInv /\ ConfirmInv /\ ListedInv

LEMMA RegistryInit == Init => RegistryInv
  BY TypeInit, TableInit, ConfirmInit, ListedInit DEF RegistryInv

LEMMA RegistryInvStep == RegistryInv /\ [Next]_vars => RegistryInv'
  BY TypeStep, TableStep, ConfirmStep, ListedStep DEF RegistryInv

\* Whoever sleeps and was heard of is not missed, if nothing is in flight.
LEMMA ListedIsHeard == ListedInv => HeardIsListed
  BY DEF ListedInv, ListedOf, MissedIsAsked, Missed, HeardIsListed, Quiet, Settled

\* A game server that was heard of since the master server came up, and lately, is in
\* the table again whenever it sleeps and nothing is in flight, unless the request to
\* register went by it or it gave up (MasterConnectionThread.java, HandleServerHeartbeat).
THEOREM RegistryLists == Spec => []HeardIsListed
<1>1. Init => RegistryInv
  BY RegistryInit
<1>2. RegistryInv /\ [Next]_vars => RegistryInv'
  BY RegistryInvStep
<1>3. RegistryInv => HeardIsListed
  BY ListedIsHeard DEF RegistryInv
<1> QED
  BY <1>1, <1>2, <1>3, PTL DEF Spec

=============================================================================
