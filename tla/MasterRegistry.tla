--------------------------- MODULE MasterRegistry ---------------------------
(***************************************************************************)
(* The master server's registry of game servers: the thread of each game   *)
(* server that registers it and keeps it registered                        *)
(* (MasterConnectionThread.java, the same in every example), and at the    *)
(* master server the main loop, which forgets servers that are silent for  *)
(* TIME_KEEPSERVERS (MasterServer.java), and a ClientConnectionThread for  *)
(* the packets of each game server.                                        *)
(*                                                                         *)
(* The UDP handlers appear as far as they matter here.  A thread of the    *)
(* master server makes a new handler and reads one packet with it, so its  *)
(* replies, which are unreliable, acknowledge exactly that packet, no bit  *)
(* of the field is ever set, and no packet is a duplicate.  Sequence       *)
(* numbers stay below the half way mark.                                   *)
(*                                                                         *)
(* The unit of time is TIME_HEARTBEAT.  What may happen to datagrams and   *)
(* to the master server is given by an environment: which game servers     *)
(* there are, how many datagrams are lost while the master server is up    *)
(* and how often it stops, whether datagrams overtake each other, how long *)
(* it is watched, and whether the network and the master server are        *)
(* prompt, that is, deal with whatever is in flight within TIME_RESEND,    *)
(* the pause the game server makes before it looks for a reply.            *)
(***************************************************************************)
EXTENDS Integers, SequencesExt, FiniteSets

CONSTANTS Servers,            \* the game servers, by UDP address
          NoOne,
          MAX_RESEND,         \* sends of a packet before giving up (5)
          TIME_KEEPSERVERS,   \* heartbeat intervals a server is kept (3)
          Environments        \* the environments looked at

ASSUME MasterRegistryAssumption ==
    /\ NoOne \notin Servers
    /\ MAX_RESEND \in Nat \ {0} /\ TIME_KEEPSERVERS \in Nat
    /\ Environments \subseteq [servers: SUBSET Servers, prompt: BOOLEAN, reorders: BOOLEAN,
                               losses: Nat, crashes: Nat, clock: Nat]

VARIABLES pc,            \* where g's MasterConnectionThread is
          firsttime,
          localseqnum, acksleft_tx,     \* of its UDP handler
          msgqueue,      \* replies g's main loop passed to it
          toMaster,      \* datagrams from g
          toServer,      \* datagrams to g
          up,            \* whether the master server is running
          main,          \* its main loop
          thread,        \* thread[g]: its ClientConnectionThread for g
          servertable,
          env,           \* what is left of the environment's losses and crashes
          clock,
          booted,        \* history: when the master server last came up
          heard,         \* history: when g's last packet was received
          read,          \* history: numbers of g's packets that were read
          confirmed,     \* history: numbers WaitAck was satisfied with
          unasked        \* history: since g last registered, a request to do it went by g, or
                         \* it gave up doing it

handler   == <<localseqnum, acksleft_tx>>
gameserver == <<pc, firsttime, handler, msgqueue>>
master    == <<up, main, thread, servertable>>
network   == <<toMaster, toServer>>
world     == <<env, clock, booted>>
history   == <<heard, read, confirmed, unasked>>
vars      == <<gameserver, network, master, world, history>>

\* An entry stands for its last interaction time; the clock starts at 1.
NoEntry  == 0
NoThread == [pc |-> "none", queue |-> <<>>, seqnum |-> 0]
Waiting  == [pc |-> "receive", client |-> NoOne, pkt |-> [type |-> "LIST", seqnum |-> 0],
             todo |-> {}, dead |-> NoOne]

Init ==
    /\ env \in Environments
    /\ pc = [g \in Servers |-> IF g \in env.servers THEN "top" ELSE "stopped"]
    /\ firsttime = [g \in Servers |-> TRUE]
    /\ localseqnum = [g \in Servers |-> 0]
    /\ acksleft_tx = [g \in Servers |-> <<>>]
    /\ msgqueue = [g \in Servers |-> <<>>]
    /\ toMaster = [g \in Servers |-> <<>>]
    /\ toServer = [g \in Servers |-> <<>>]
    /\ up = TRUE
    /\ main = Waiting
    /\ thread = [g \in Servers |-> NoThread]
    /\ servertable = [g \in Servers |-> NoEntry]
    /\ clock = 1 /\ booted = 0
    /\ heard = [g \in Servers |-> 0]
    /\ read = [g \in Servers |-> {}]
    /\ confirmed = [g \in Servers |-> {}]
    /\ unasked = [g \in Servers |-> FALSE]

\* Nothing of g's is in flight, and the master server is not busy with it.
Settled(g) ==
    toMaster[g] = <<>> /\ toServer[g] = <<>> /\ main.client # g /\ thread[g].pc = "none"

Quiet == main.pc = "receive" /\ \A g \in Servers : Settled(g)

\* The positions a datagram may be received from.
Ready(line) == IF env.reorders THEN DOMAIN line ELSE DOMAIN line \intersect {1}

-----------------------------------------------------------------------------
(* The game server: MasterConnectionThread *)

\* Mutant of Send: FLAG_RELIABLE is forgotten, and the TX list with it.
SendUnreliably(g, type, tx) ==
    /\ toMaster' = [toMaster EXCEPT ![g] = Append(@, [type |-> type, seqnum |-> localseqnum[g]])]
    /\ acksleft_tx' = [acksleft_tx EXCEPT ![g] = tx]
    /\ localseqnum' = [localseqnum EXCEPT ![g] = @ + 1]
    /\ pc' = [pc EXCEPT ![g] = IF type = "REGISTER" THEN "registering" ELSE "beating"]

\* SendPacket of a new packet, reliable and with EXPLICITACK, and WaitAck begins.
\* (The packet is added to tx, what is left of the TX list.)
Send(g, type, tx) ==
    LET pkt == [type |-> type, seqnum |-> localseqnum[g]]
    IN  /\ toMaster' = [toMaster EXCEPT ![g] = Append(@, pkt)]
        /\ acksleft_tx' = [acksleft_tx EXCEPT ![g] = Append(tx, [pkt |-> pkt, attempts |-> 1])]
        /\ localseqnum' = [localseqnum EXCEPT ![g] = @ + 1]
        /\ pc' = [pc EXCEPT ![g] = IF type = "REGISTER" THEN "registering" ELSE "beating"]

\* What a reply leaves of the TX list: all but the packet it is the ack of.
NotAcked(g, reply) ==
    LET tx    == acksleft_tx[g]
        acked == { i \in DOMAIN tx : tx[i].pkt.seqnum = reply.ack }
    IN  IF acked = {} THEN tx ELSE RemoveAt(tx, CHOOSE i \in acked : TRUE)

\* The top of the loop: the first registration.
RegisterFirst(g) ==
    /\ pc[g] = "top" /\ firsttime[g]
    /\ msgqueue' = [msgqueue EXCEPT ![g] = IF @ = <<>> THEN @ ELSE Tail(@)]
    /\ Send(g, "REGISTER", acksleft_tx[g])
    /\ UNCHANGED <<firsttime, toServer, master, world, history>>

\* The top of the loop: the master server asked for a registration.
RegisterAgain(g) ==
    /\ pc[g] = "top" /\ ~firsttime[g]
    /\ msgqueue[g] # <<>> /\ Head(msgqueue[g]).type = "REGISTER"
    /\ msgqueue' = [msgqueue EXCEPT ![g] = Tail(@)]
    /\ Send(g, "REGISTER", NotAcked(g, Head(msgqueue[g])))
    /\ UNCHANGED <<firsttime, toServer, master, world, history>>

\* The top of the loop: no reply, or one that asks for nothing.
NothingAsked(g) ==
    /\ pc[g] = "top" /\ ~firsttime[g]
    /\ IF msgqueue[g] = <<>>
       THEN UNCHANGED <<msgqueue, acksleft_tx>>
       ELSE /\ Head(msgqueue[g]).type # "REGISTER"
            /\ acksleft_tx' = [acksleft_tx EXCEPT ![g] = NotAcked(g, Head(msgqueue[g]))]
            /\ msgqueue' = [msgqueue EXCEPT ![g] = Tail(@)]
    /\ pc' = [pc EXCEPT ![g] = "asleep"]
    /\ UNCHANGED <<firsttime, localseqnum, network, master, world, history>>

Heartbeat(g) ==
    /\ pc[g] = "awake"
    /\ Send(g, "HEARTBEAT", acksleft_tx[g])
    /\ UNCHANGED <<firsttime, msgqueue, toServer, master, world, history>>

InWaitAck(g) == pc[g] \in {"registering", "beating"}

\* Where the thread is when WaitAck returns.
AfterWait(g) == IF pc[g] = "registering" THEN "asleep" ELSE "top"

\* Mutant of Paused: WaitAck does not pause.
NotPaused(g) == TRUE

\* The pause of WaitAck is over, which a prompt network has used to settle.
Paused(g) == env.prompt => Settled(g)

\* Mutant of Spent: one send too many.
SpentLate(tx) == { i \in DOMAIN tx : tx[i].attempts > MAX_RESEND }

\* The packets of a TX list that may not be sent again.
Spent(tx) == { i \in DOMAIN tx : tx[i].attempts >= MAX_RESEND }

\* WaitAck, after a pause: a reply is read.  Only one of type ACK ends the wait,
\* whatever packet it is the ack of.
ReadReply(g) ==
    LET reply == Head(msgqueue[g])
    IN  /\ InWaitAck(g) /\ msgqueue[g] # <<>>
        /\ Paused(g)
        /\ msgqueue' = [msgqueue EXCEPT ![g] = Tail(@)]
        /\ acksleft_tx' = [acksleft_tx EXCEPT ![g] = NotAcked(g, reply)]
        /\ IF reply.type = "ACK"
           THEN /\ pc' = [pc EXCEPT ![g] = AfterWait(g)]
                /\ firsttime' = [firsttime EXCEPT ![g] = FALSE]
                /\ confirmed' = [confirmed EXCEPT ![g] = @ \union {localseqnum[g] - 1}]
           ELSE UNCHANGED <<pc, firsttime, confirmed>>
        /\ unasked' = [unasked EXCEPT ![g] = @ \/ reply.type = "REGISTER"]
    /\ UNCHANGED <<localseqnum, network, master, world, heard, read>>

\* WaitAck, after a pause: no reply, and ResendMissingPackets walks the TX list
\* up to the first packet that was sent too often.  That one makes WaitAck throw,
\* which the loop survives, except when it is the first registration.
Resend(g) ==
    LET tx == acksleft_tx[g]
    IN  /\ InWaitAck(g) /\ msgqueue[g] = <<>> /\ tx # <<>>
        /\ Paused(g)
        /\ \E n \in 0..Len(tx) :
              /\ 1..n \intersect Spent(tx) = {}
              /\ n = Len(tx) \/ n + 1 \in Spent(tx)
              /\ toMaster' = [toMaster EXCEPT ![g] = @ \o [i \in 1..n |-> tx[i].pkt]]
              /\ acksleft_tx' = [acksleft_tx EXCEPT ![g] =
                    [i \in DOMAIN tx |-> IF i <= n THEN [tx[i] EXCEPT !.attempts = @ + 1] ELSE tx[i]]]
        /\ IF Spent(tx) = {}
           THEN UNCHANGED <<pc, firsttime, unasked>>
           ELSE /\ pc' = [pc EXCEPT ![g] = IF firsttime[g] THEN "stopped" ELSE AfterWait(g)]
                /\ firsttime' = [firsttime EXCEPT ![g] = FALSE]
                /\ unasked' = [unasked EXCEPT ![g] = @ \/ pc[g] = "registering"]
    /\ UNCHANGED <<localseqnum, msgqueue, toServer, master, world, heard, read, confirmed>>

\* The game server's main loop passes on what comes from the master's address.
ReceiveReply(g) ==
    /\ \E i \in Ready(toServer[g]) :
          /\ toServer' = [toServer EXCEPT ![g] = RemoveAt(@, i)]
          /\ msgqueue' = [msgqueue EXCEPT ![g] = Append(@, toServer[g][i])]
    /\ UNCHANGED <<pc, firsttime, handler, toMaster, master, world, history>>

-----------------------------------------------------------------------------
(* The master server: the main loop *)

\* The entry is older than a server is kept.
Expired(h) == clock - servertable[h] > TIME_KEEPSERVERS

Registered == { h \in Servers : servertable[h] # NoEntry }

\* A packet arrives, and the sweep of the server table begins.
Receive(g) ==
    /\ up /\ main.pc = "receive"
    /\ \E i \in Ready(toMaster[g]) :
          /\ toMaster' = [toMaster EXCEPT ![g] = RemoveAt(@, i)]
          /\ main' = [Waiting EXCEPT !.pc = "sweep", !.client = g,
                                     !.pkt = toMaster[g][i], !.todo = Registered]
    /\ UNCHANGED <<gameserver, toServer, up, thread, servertable, world, history>>

\* A packet of a client that is no game server, such as a LIST.
ReceiveOther ==
    /\ up /\ main.pc = "receive"
    /\ Registered # {}
    /\ main' = [Waiting EXCEPT !.pc = "sweep", !.todo = Registered]
    /\ UNCHANGED <<gameserver, network, up, thread, servertable, world, history>>

\* The sweep looks at an entry.
CheckServer(h) ==
    /\ main.pc = "sweep" /\ h \in main.todo
    /\ main' = [main EXCEPT !.todo = @ \ {h},
                            !.pc = IF Expired(h) THEN "remove" ELSE "sweep",
                            !.dead = IF Expired(h) THEN h ELSE NoOne]
    /\ UNCHANGED <<gameserver, network, up, thread, servertable, world, history>>

\* it_s.remove(): by key, whatever entry there is now.
RemoveServer ==
    /\ main.pc = "remove"
    /\ servertable' = [servertable EXCEPT ![main.dead] = NoEntry]
    /\ main' = [main EXCEPT !.pc = "sweep", !.dead = NoOne]
    /\ UNCHANGED <<gameserver, network, up, thread, world, history>>

\* The packet goes to the client's thread; a dead one is replaced first.
Dispatch ==
    LET g == main.client
    IN  /\ main.pc = "sweep" /\ main.todo = {}
        /\ main' = Waiting
        /\ IF g = NoOne
           THEN UNCHANGED <<thread, heard>>
           ELSE /\ heard' = [heard EXCEPT ![g] = clock]
                /\ thread' = [thread EXCEPT ![g].pc = IF @ = "none" THEN "poll" ELSE @,
                                            ![g].queue = Append(@, main.pkt)]
    /\ UNCHANGED <<gameserver, network, up, servertable, world, read, confirmed, unasked>>

-----------------------------------------------------------------------------
(* The master server: ClientConnectionThread *)

Reply(g, type, ack) ==
    toServer' = [toServer EXCEPT ![g] = Append(@, [type |-> type, ack |-> ack])]

\* ReadS64Packet acknowledges the packet before it is handled.
ReadPacket(g) ==
    /\ thread[g].pc = "poll" /\ thread[g].queue # <<>>
    /\ LET pkt == Head(thread[g].queue)
       IN  /\ Reply(g, "ACK", pkt.seqnum)
           /\ read' = [read EXCEPT ![g] = @ \union {pkt.seqnum}]
           /\ thread' = [thread EXCEPT ![g] =
                 [pc |-> pkt.type, queue |-> Tail(@.queue), seqnum |-> pkt.seqnum]]
    /\ UNCHANGED <<gameserver, toMaster, up, main, servertable, world, heard, confirmed, unasked>>

\* A new N64Server is stored, in place of the one there was.
RegisterServer(g) ==
    /\ thread[g].pc = "REGISTER"
    /\ servertable' = [servertable EXCEPT ![g] = clock]
    /\ thread' = [thread EXCEPT ![g].pc = "leaving"]
    /\ unasked' = [unasked EXCEPT ![g] = FALSE]
    /\ UNCHANGED <<gameserver, network, up, main, world, heard, read, confirmed>>

\* Mutant of LookupServer: the heartbeat of an unknown server is ignored.
LookupSilently(g) ==
    /\ thread[g].pc = "HEARTBEAT"
    /\ thread' = [thread EXCEPT ![g].pc = IF servertable[g] = NoEntry THEN "leaving" ELSE "update"]
    /\ UNCHANGED <<gameserver, network, up, main, servertable, world, history>>

\* HandleServerHeartbeat: the server is looked up, and asked to register if it
\* is not there ...
LookupServer(g) ==
    /\ thread[g].pc = "HEARTBEAT"
    /\ IF servertable[g] = NoEntry
       THEN /\ Reply(g, "REGISTER", thread[g].seqnum)
            /\ thread' = [thread EXCEPT ![g].pc = "leaving"]
       ELSE /\ toServer' = toServer
            /\ thread' = [thread EXCEPT ![g].pc = "update"]
    /\ UNCHANGED <<gameserver, toMaster, up, main, servertable, world, history>>

\* Mutant of UpdateServer: the time of the heartbeat is not recorded.
UpdateNothing(g) ==
    /\ thread[g].pc = "update"
    /\ thread' = [thread EXCEPT ![g].pc = "leaving"]
    /\ UNCHANGED <<gameserver, network, up, main, servertable, world, history>>

\* ... and otherwise the N64Server that was found is updated.  Only this thread
\* could have replaced it, but the sweep may have removed it from the table.
UpdateServer(g) ==
    /\ thread[g].pc = "update"
    /\ servertable' = [servertable EXCEPT ![g] = IF @ = NoEntry THEN @ ELSE clock]
    /\ thread' = [thread EXCEPT ![g].pc = "leaving"]
    /\ UNCHANGED <<gameserver, network, up, main, world, history>>

\* The thread has left its loop and dies, with what is left in its queue.
Exit(g) ==
    /\ thread[g].pc = "leaving"
    /\ thread' = [thread EXCEPT ![g] = NoThread]
    /\ UNCHANGED <<gameserver, network, up, main, servertable, world, history>>

-----------------------------------------------------------------------------
(* The environment *)

\* A datagram is lost; one that a master server that is down is sent is, always.
Lose(g) ==
    /\ \/ \E i \in DOMAIN toMaster[g] :
             /\ toMaster' = [toMaster EXCEPT ![g] = RemoveAt(@, i)]
             /\ IF up THEN env.losses > 0 /\ env' = [env EXCEPT !.losses = @ - 1]
                      ELSE env' = env
             /\ UNCHANGED <<toServer, unasked>>
       \/ \E i \in DOMAIN toServer[g] :
             /\ toServer' = [toServer EXCEPT ![g] = RemoveAt(@, i)]
             /\ env.losses > 0 /\ env' = [env EXCEPT !.losses = @ - 1]
             /\ unasked' = [unasked EXCEPT ![g] = @ \/ toServer[g][i].type = "REGISTER"]
             /\ toMaster' = toMaster
    /\ UNCHANGED <<gameserver, master, clock, booted, heard, read, confirmed>>

\* The master server stops: the table was only in memory.
Crash ==
    /\ up /\ env.crashes > 0
    /\ up' = FALSE
    /\ env' = [env EXCEPT !.crashes = @ - 1]
    /\ main' = Waiting
    /\ thread' = [g \in Servers |-> NoThread]
    /\ servertable' = [g \in Servers |-> NoEntry]
    /\ UNCHANGED <<gameserver, network, clock, booted, history>>

Boot ==
    /\ ~up
    /\ up' = TRUE
    /\ booted' = clock
    /\ UNCHANGED <<gameserver, network, main, thread, servertable, env, clock, history>>

\* WaitAck has nothing left to wait for, and waits.
Hangs(g) == InWaitAck(g) /\ msgqueue[g] = <<>> /\ acksleft_tx[g] = <<>>

\* A heartbeat interval goes by.  A prompt network leaves no time for it while
\* anything else is going on.
Tick ==
    /\ clock < env.clock
    /\ env.prompt => Quiet /\ \A g \in Servers : pc[g] \in {"asleep", "stopped"} \/ Hangs(g)
    /\ clock' = clock + 1
    /\ pc' = [g \in Servers |-> IF pc[g] = "asleep" THEN "awake" ELSE pc[g]]
    /\ UNCHANGED <<firsttime, handler, msgqueue, network, master, env, booted, history>>

-----------------------------------------------------------------------------

GameServer(g) == RegisterFirst(g) \/ RegisterAgain(g) \/ NothingAsked(g) \/ Heartbeat(g)
                   \/ ReadReply(g) \/ Resend(g) \/ ReceiveReply(g)
Thread(g)     == ReadPacket(g) \/ RegisterServer(g) \/ LookupServer(g) \/ UpdateServer(g) \/ Exit(g)
MainLoop      == \/ \E g \in Servers : Receive(g) \/ CheckServer(g)
                 \/ RemoveServer \/ Dispatch

Next ==
    \/ \E g \in Servers : GameServer(g) \/ Thread(g) \/ Lose(g)
    \/ MainLoop
    \/ ReceiveOther
    \/ Crash \/ Boot \/ Tick

Spec == Init /\ [][Next]_vars

\* Threads run, and a datagram that is not lost arrives.  The socket of the
\* master server is a queue: other clients do not keep a packet out for ever.
FairSpec ==
    /\ Spec
    /\ WF_vars(MainLoop)
    /\ \A g \in Servers :
          /\ WF_vars(GameServer(g)) /\ WF_vars(Thread(g))
          /\ SF_vars(Receive(g))
          /\ WF_vars(~up /\ Lose(g))

-----------------------------------------------------------------------------
(* Properties *)

Packets == [type: {"REGISTER", "HEARTBEAT"}, seqnum: Nat]
Replies == [type: {"ACK", "REGISTER"}, ack: Nat]
Entries == [pkt: Packets, attempts: 1..MAX_RESEND]
Threads == [pc: {"none", "poll", "REGISTER", "HEARTBEAT", "update", "leaving"},
            queue: Seq(Packets), seqnum: Nat]

\* Types, and: no packet is sent more than MAX_RESEND times.
TypeOK ==
    /\ pc \in [Servers -> {"top", "registering", "beating", "asleep", "awake", "stopped"}]
    /\ firsttime \in [Servers -> BOOLEAN]
    /\ localseqnum \in [Servers -> Nat]
    /\ acksleft_tx \in [Servers -> Seq(Entries)]
    /\ msgqueue \in [Servers -> Seq(Replies)]
    /\ toMaster \in [Servers -> Seq(Packets)]
    /\ toServer \in [Servers -> Seq(Replies)]
    /\ up \in BOOLEAN
    /\ main \in [pc: {"receive", "sweep", "remove"}, client: Servers \union {NoOne},
                 pkt: [type: {"REGISTER", "HEARTBEAT", "LIST"}, seqnum: Nat],
                 todo: SUBSET Servers, dead: Servers \union {NoOne}]
    /\ thread \in [Servers -> Threads]
    /\ servertable \in [Servers -> Nat]
    /\ env \in [servers: SUBSET Servers, prompt: BOOLEAN, reorders: BOOLEAN,
                losses: Nat, crashes: Nat, clock: Nat]
    /\ clock \in Nat /\ booted \in Nat
    /\ heard \in [Servers -> Nat]
    /\ read \in [Servers -> SUBSET Nat]
    /\ confirmed \in [Servers -> SUBSET Nat]
    /\ unasked \in [Servers -> BOOLEAN]

\* "Wait for an acknowledgement packet from the master server"
\* (MasterConnectionThread.java:110): in a prompt environment WaitAck returns
\* only if the master server read the packet that was sent last.
ConfirmedIsRead == env.prompt => \A g \in Servers : confirmed[g] \subseteq read[g]

\* In spite of lost datagrams, of packets sent again and of restarts that empty
\* the table, a game server that was heard of lately, and since the restart, is in
\* the table whenever it sleeps and nothing is in flight, unless the request to register again was itself lost, or read by
\* WaitAck, which throws it away, or given up after MAX_RESEND sends.
HeardIsListed ==
    env.prompt /\ up /\ Quiet
      => \A g \in { h \in Servers : pc[h] = "asleep" /\ ~unasked[h] } :
            heard[g] > booted /\ clock - heard[g] <= TIME_KEEPSERVERS
              => servertable[g] # NoEntry

\* "If the master server does not receive a heartbeat packet after that time
\* elapses, the server is erased from its database" (Master Server/README.md:5):
\* in a prompt environment a server that was heard of in that time is not.
ErasedOnlyIfSilent ==
    [][\A g \in Servers : servertable[g] # NoEntry /\ servertable'[g] = NoEntry /\ up' /\ env.prompt
          => clock - heard[g] > TIME_KEEPSERVERS]_vars

\* "Keep sending until we got an ACK from the master server"
\* (MasterConnectionThread.java:121): WaitAck ends, one way or the other.
WaitEnds == \A g \in Servers : InWaitAck(g) ~> ~InWaitAck(g)
=============================================================================
