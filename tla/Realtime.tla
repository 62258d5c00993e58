------------------------------ MODULE Realtime ------------------------------
(***************************************************************************)
(* The Realtime example from end to end: the program on each client's N64  *)
(* (Examples/Realtime/Client) over the N64's library, the client's window  *)
(* that passes its packets on, and the server's client threads and game    *)
(* thread (Examples/Realtime/Server).                                      *)
(*                                                                         *)
(* A client connects, synchronises its clock with CLOCKCOUNT requests, is  *)
(* given a slot of the room and told who is there.  Then it sends inputs,  *)
(* each with its time, two in a packet; the game thread applies those      *)
(* newer than the last it applied and tells everyone.                      *)
(*                                                                         *)
(* The network is the UDP handlers' (module UDPHandler), here without loss *)
(* and instantaneous, so that what it delays is in the queues at its ends; *)
(* in an environment that is not ordered a thread reads its packets in any *)
(* order.  Left out: objects and physics, relayed packets between clients  *)
(* (no client sends any), I/O errors.  A client has one address, and one   *)
(* thread at a time.                                                       *)
(*                                                                         *)
(* An environment says which clients there are and how many slots, whether *)
(* their windows still have to load the ROM, how often the things in Rare  *)
(* may happen, and whether packets stay in order.                          *)
(***************************************************************************)
EXTENDS ClientWindow

CONSTANTS NoOne, CLOCKCOUNT, Environments

Rare == {"click", "close", "unplug", "jump", "silence", "retry", "beat", "input", "leave"}

ASSUME RealtimeAssumption ==
    /\ NoOne \notin Clients
    /\ CLOCKCOUNT \in Nat \ {0}
    /\ Environments \subseteq [clients: SUBSET Clients, slots: Nat \ {0}, fresh: BOOLEAN,
                               may: [Rare -> Nat], ordered: BOOLEAN]

VARIABLES stage, conn, clocks, clocksent, clnumber,  \* of each N64's program
          calling,      \* calling[c]: what it is in netlib_sendtoserver for
          roster,       \* roster[c]: numbers of the players c's N64 knows
          time,         \* time[c]: the time of its last input
          thread,       \* thread[c]: where the server's thread for c is
          player,       \* player[c]: the number that thread's Player has or is to get, or 0
          msgqueue,     \* msgqueue[c]: packets for the thread
          mailbox,      \* mailbox[c]: the messages of its Player
          slots,        \* Game.players: slots[i] is who has number i
          lastupdate,   \* lastupdate[i]: of the Player with number i
          ghosts,       \* history: numbers c was told of although their Players were
                        \* leaving, or had no number yet, when c was introduced
          messages,     \* Game.messages
          news,         \* the game thread has something to tell
          env, used     \* used[r]: how often r happened

program == <<stage, conn, clocks, clocksent, clnumber, calling, roster, time>>
room    == <<slots, lastupdate, ghosts>>
threads == <<thread, player, msgqueue, mailbox>>
game    == <<messages, news>>
server  == <<room, threads, game>>
vars    == <<netlib, window, program, server, env, used>>

Slots  == 1..env.slots
Future == 2 * env.may["input"] + 1   \* later than any input

Packet(type, n, times) == [type |-> type, n |-> n, times |-> times]
Plain(type)            == Packet(type, 0, <<>>)

\* One more of something rare.
Use(r)  == used[r] < env.may[r] /\ used' = [used EXCEPT ![r] = @ + 1]
Freely  == UNCHANGED used

ProgramInit ==
    /\ stage = [c \in Clients |-> IF env.fresh THEN "off" ELSE "start"]
    /\ conn = [c \in Clients |-> "unconnected"]
    /\ clocks = [c \in Clients |-> 0]
    /\ clocksent = [c \in Clients |-> FALSE]
    /\ clnumber = [c \in Clients |-> 0]
    /\ calling = [c \in Clients |-> ""]
    /\ roster = [c \in Clients |-> {}]
    /\ time = [c \in Clients |-> 0]

ServerInit ==
    /\ thread = [c \in Clients |-> "none"]
    /\ player = [c \in Clients |-> 0]
    /\ msgqueue = [c \in Clients |-> <<>>]
    /\ mailbox = [c \in Clients |-> <<>>]
    /\ slots = [i \in Slots |-> NoOne]
    /\ lastupdate = [i \in Slots |-> 0]
    /\ ghosts = [c \in Clients |-> {}]
    /\ messages = <<>>
    /\ news = FALSE

\* Where a ROM does not have to be loaded, it has been, and was just started.
Started ==
    /\ device = [c \in Clients |-> "loop"]
    /\ rompath = [c \in Clients |-> FALSE]
    /\ upload = [c \in Clients |-> "none"]
    /\ loaded = [c \in Clients |-> TRUE]
    /\ input = [c \in Clients |-> <<>>]
    /\ toN64 = [c \in Clients |-> <<>>]
    /\ toServer = [c \in Clients |-> <<>>]
    /\ relay = [c \in Clients |-> TRUE]
    /\ status = [c \in Clients |-> "IDLE"]
    /\ events = [c \in Clients |-> <<>>]
    /\ closing = [c \in Clients |-> FALSE]
    /\ asked = [c \in Clients |-> 1]
    /\ uploads = [c \in Clients |-> 1]

Init ==
    /\ env \in Environments
    /\ used = [r \in Rare |-> 0]
    /\ NetLibInit
    /\ IF env.fresh THEN WindowInit ELSE Started
    /\ ProgramInit
    /\ ServerInit

-----------------------------------------------------------------------------
(* The N64's program *)

\* The user starts the ROM that was loaded.
Boot(c) ==
    /\ loaded[c] /\ stage[c] = "off"
    /\ stage' = [stage EXCEPT ![c] = "start"]
    /\ clnumber' = [clnumber EXCEPT ![c] = 0]
    /\ roster' = [roster EXCEPT ![c] = {}]
    /\ calling' = [calling EXCEPT ![c] = ""]
    /\ NetLibStarts(c)
    /\ Freely
    /\ UNCHANGED <<usb, wire, lost, window, conn, clocks, clocksent, time, server, env>>

\* The program sends a packet of its own; what follows the call is in PollEnds.
Call(c, pkt) ==
    /\ SendToServer(c, pkt)
    /\ calling' = [calling EXCEPT ![c] = pkt.type]

\* stage_init_init.
InitStage(c) ==
    /\ stage' = [stage EXCEPT ![c] = "init"]
    /\ conn' = [conn EXCEPT ![c] = "unconnected"]
    /\ clocks' = [clocks EXCEPT ![c] = 0]
    /\ clocksent' = [clocksent EXCEPT ![c] = FALSE]
    /\ Call(c, Plain("CLIENTCONNECT"))
    /\ UNCHANGED <<window, clnumber, roster, time, server, env>>

\* The program begins, ...
EnterInit(c) ==
    /\ c \in env.clients
    /\ stage[c] = "start"
    /\ InitStage(c)
    /\ Freely

\* ... or its user, who is told of a lost connection, presses A.
Retry(c) ==
    /\ stage[c] = "disconnected"
    /\ InitStage(c)
    /\ Use("retry")

\* stage_init_update: a clock request, unless one is under way, ...
RequestClock(c) ==
    /\ stage[c] = "init" /\ conn[c] = "syncing"
    /\ clocks[c] # CLOCKCOUNT /\ ~clocksent[c]
    /\ Call(c, Plain("CLOCKSYNC"))
    /\ Freely
    /\ UNCHANGED <<window, stage, conn, clocks, clocksent, clnumber, roster, time, server, env>>

\* Mutant of DoneSync: one answer too many is waited for.
DoneSyncLate(c) ==
    /\ stage[c] = "init" /\ conn[c] = "syncing"
    /\ clocks[c] = CLOCKCOUNT + 1
    /\ Call(c, Plain("DONESYNC"))
    /\ Freely
    /\ UNCHANGED <<window, stage, conn, clocks, clocksent, clnumber, roster, time, server, env>>

\* ... and once there are enough answers, the clock was set.  To the next poll the time
\* of the last packet is then one of the old clock: on a server that is five seconds
\* older than the N64 it takes the connection for lost, although nothing is.
DoneSync(c) ==
    /\ stage[c] = "init" /\ conn[c] = "syncing"
    /\ clocks[c] = CLOCKCOUNT
    /\ Call(c, Plain("DONESYNC"))
    /\ \/ Freely /\ UNCHANGED stage
       \/ Use("jump") /\ stage' = [stage EXCEPT ![c] = "disconnected"]
    /\ UNCHANGED <<window, conn, clocks, clocksent, clnumber, roster, time, server, env>>

\* stage_game_update: the inputs since the last time are sent.
SendInputs(c) ==
    /\ stage[c] = "game"
    /\ Use("input")
    /\ Call(c, Packet("CLIENTINPUT", 0, <<time[c] + 1, time[c] + 2>>))
    /\ time' = [time EXCEPT ![c] = @ + 2]
    /\ UNCHANGED <<window, stage, conn, clocks, clocksent, clnumber, roster, server, env>>

\* A poll reads a packet and calls its callback.  (Number 0, of a Player that has none
\* yet, is an entry before the first of global_players; what else it overwrites is left out.)
Callback(c) ==
    /\ stage[c] \in {"init", "game", "disconnected"}
    /\ LET pkt == Head(usb[c])
       IN /\ ReadPacket(c, IF pkt.type = "ACKBEAT" THEN Plain("ACKBEAT") ELSE NoPacket)
          /\ conn' = [conn EXCEPT ![c] = IF pkt.type = "CLIENTCONNECT" THEN "syncing" ELSE @]
          /\ clocksent' = [clocksent EXCEPT ![c] = @ /\ pkt.type # "CLOCKSYNC"]
          /\ clocks' = [clocks EXCEPT ![c] = IF pkt.type = "CLOCKSYNC" THEN @ + 1 ELSE @]
          /\ stage' = [stage EXCEPT ![c] = IF pkt.type = "CLIENTINFO" THEN "game" ELSE @]
          /\ clnumber' = [clnumber EXCEPT ![c] = IF pkt.type = "CLIENTINFO" THEN pkt.n ELSE @]
          /\ roster' = [roster EXCEPT ![c] =
                CASE pkt.type \in {"CLIENTINFO", "PLAYERINFO"} -> @ \union {pkt.n}
                  [] pkt.type = "PLAYERDISCONNECT"             -> @ \ {pkt.n}
                  [] OTHER                                     -> @]
    /\ Freely
    /\ UNCHANGED <<window, calling, time, server, env>>

\* A poll ends.  When it was the program's own call that began it, the program
\* goes on: a clock request is under way now, or the handshake is over.
PollEnds(c) ==
    /\ stage[c] # "off"
    /\ EndPoll(c)
    /\ LET done == IF polls[c] = 1 THEN calling[c] ELSE ""
       IN /\ clocksent' = [clocksent EXCEPT ![c] = @ \/ done = "CLOCKSYNC"]
          /\ conn' = [conn EXCEPT ![c] = IF done = "DONESYNC" THEN "plyinfo" ELSE @]
          /\ calling' = [calling EXCEPT ![c] = IF polls[c] = 1 THEN "" ELSE @]
    /\ Freely
    /\ UNCHANGED <<window, stage, clocks, clnumber, roster, time, server, env>>

\* Nothing was received for five seconds: the N64 leaves the game.
LoseServer(c) ==
    /\ stage[c] \in {"init", "game"} /\ polls[c] = 0
    /\ Use("silence")
    /\ stage' = [stage EXCEPT ![c] = "disconnected"]
    /\ clnumber' = [clnumber EXCEPT ![c] = 0]
    /\ roster' = [roster EXCEPT ![c] = {}]
    /\ UNCHANGED <<netlib, window, conn, clocks, clocksent, calling, time, server, env>>

N64(c) ==
    \/ EnterInit(c) \/ RequestClock(c) \/ DoneSync(c)
    \/ Callback(c) \/ PollEnds(c)

-----------------------------------------------------------------------------
(* The windows *)

Others == <<program, server, env>>

\* A ROM is uploaded: the program that ran is gone, with what it had written.
Upload(c) ==
    /\ StartUpload(c)
    /\ stage' = [stage EXCEPT ![c] = "off"]
    /\ wire' = [wire EXCEPT ![c] = <<>>]
    /\ Freely
    /\ UNCHANGED <<buffer, sendafterpoll, polls, usb, lost, conn, clocks, clocksent, clnumber,
                   calling, roster, time, server, env>>

\* A ROM can be cancelled at any time, perhaps too late; it fails otherwise when the
\* cart is unplugged.
UploadThread(c) ==
    /\ \/ SendROM(c, "complete") /\ Freely
       \/ device[c] = "upload" /\ SendROM(c, "failed") /\ Use("unplug")
       \/ device[c] # "upload" /\ SendROM(c, "failed") /\ Freely
       \/ UploadEnds(c) /\ Freely
    /\ UNCHANGED <<netlib, Others>>

\* What the device thread does by itself.
DeviceThread(c) ==
    \/ Upload(c)
    \/ /\ \/ FindCart(c) \/ LeaveLoop(c) \/ DeviceEnds(c) \/ UploadOver(c)
          \/ InterruptUpload(c) \/ JoinUpload(c) \/ HandleMainInput(c)
       /\ Freely /\ UNCHANGED <<netlib, Others>>
    \/ /\ ReceiveUSB(c) \/ SendUSB(c)
       /\ Freely /\ UNCHANGED Others

Unplug(c) == Use("unplug") /\ LoseCart(c) /\ UNCHANGED <<netlib, Others>>

Interface(c) ==
    /\ \/ c \in env.clients /\ BeginWorking(c)
       \/ ThreadEvent(c) \/ RelayStops(c)
    /\ Freely /\ UNCHANGED <<netlib, Others>>

User(c) ==
    /\ \/ Use("click") /\ Click(c)
       \/ Use("close") /\ Close(c)
    /\ UNCHANGED <<netlib, Others>>

\* The server connection thread sends what the N64 sent.  The server's main loop
\* gives it to the client's thread, and a client without one gets one.
RelayUp(c) ==
    /\ relay[c] /\ toServer[c] # <<>>
    /\ toServer' = [toServer EXCEPT ![c] = Tail(@)]
    /\ msgqueue' = Post(msgqueue, c, Head(toServer[c]))
    /\ thread' = [thread EXCEPT ![c] = IF @ = "none" THEN "unconnected" ELSE @]
    /\ Freely
    /\ UNCHANGED <<netlib, device, rompath, upload, loaded, input, toN64, relay, status, events,
                   closing, asked, uploads, program, room, player, mailbox, game, env>>

\* The thread of a client sends to its N64, by way of the window if it listens.
Send(c, pkts) ==
    /\ toN64' = [toN64 EXCEPT ![c] = IF relay[c] THEN @ \o pkts ELSE @]
    /\ UNCHANGED <<netlib, device, rompath, upload, loaded, input, toServer, relay, status,
                   events, closing, asked, uploads, program, env>>

-----------------------------------------------------------------------------
(* The server's threads *)

Without(s, k) == SubSeq(s, 1, k - 1) \o SubSeq(s, k + 1, Len(s))

\* Where in its queue the thread of c finds its next packet: first, if they stay in order.
Places(c) == { k \in 1..Len(msgqueue[c]) : env.ordered => k = 1 }

\* It takes packet pkt.
Takes(c, pkt) ==
    \E k \in Places(c) :
        /\ msgqueue[c][k] = pkt
        /\ msgqueue' = [msgqueue EXCEPT ![c] = Without(@, k)]

\* Nobody is inside ConnectPlayer, which holds the game's lock.
Unlocked == \A d \in Clients : thread[d] # "taking"

\* CanConnectPlayer asks whether a slot is free: the handshake begins, or not.
HandleConnect(c) ==
    /\ thread[c] = "unconnected" /\ Unlocked
    /\ Takes(c, Plain("CLIENTCONNECT"))
    /\ \/ /\ \E i \in Slots : slots[i] = NoOne
          /\ thread' = [thread EXCEPT ![c] = "connecting"]
          /\ Send(c, <<Plain("CLIENTCONNECT")>>)
       \/ /\ \A i \in Slots : slots[i] # NoOne
          /\ Send(c, <<Plain("SERVERFULL")>>)
          /\ UNCHANGED thread
    /\ Freely
    /\ UNCHANGED <<room, player, mailbox, game>>

\* The time of the game is what a clock request asks for.
HandleSync(c) ==
    /\ thread[c] = "connecting"
    /\ Takes(c, Plain("CLOCKSYNC"))
    /\ Send(c, <<Plain("CLOCKSYNC")>>)
    /\ Freely
    /\ UNCHANGED <<room, thread, player, mailbox, game>>

\* Mutant of HandleDone: without the lock, two threads find the same slot free.
HandleDoneUnlocked(c) ==
    /\ thread[c] = "connecting"
    /\ Takes(c, Plain("DONESYNC"))
    /\ \E i \in Slots :
          /\ slots[i] # NoOne => thread[slots[i]] = "taking"
          /\ slots' = [slots EXCEPT ![i] = c]
          /\ lastupdate' = [lastupdate EXCEPT ![i] = 0]
          /\ player' = [player EXCEPT ![c] = i]
    /\ thread' = [thread EXCEPT ![c] = "taking"]
    /\ Freely
    /\ UNCHANGED <<netlib, window, program, ghosts, mailbox, game, env>>

\* ConnectPlayer puts a Player into the first free slot.  If there is none any more, a
\* null pointer ends the handling of the packet, and that is all.
HandleDone(c) ==
    /\ thread[c] = "connecting" /\ Unlocked
    /\ Takes(c, Plain("DONESYNC"))
    /\ \/ \E i \in Slots :
            /\ slots[i] = NoOne /\ \A j \in 1..(i - 1) : slots[j] # NoOne
            /\ slots' = [slots EXCEPT ![i] = c]
            /\ lastupdate' = [lastupdate EXCEPT ![i] = 0]
            /\ player' = [player EXCEPT ![c] = i]
            /\ thread' = [thread EXCEPT ![c] = "taking"]
       \/ /\ \A i \in Slots : slots[i] # NoOne
          /\ UNCHANGED <<slots, lastupdate, thread, player>>
    /\ Freely
    /\ UNCHANGED <<netlib, window, program, ghosts, mailbox, game, env>>

\* Everybody can see the Player there before SetNumber gives it its number.
SetNumber(c) ==
    /\ thread[c] = "taking"
    /\ thread' = [thread EXCEPT ![c] = "joining"]
    /\ Freely
    /\ UNCHANGED <<netlib, window, program, room, player, msgqueue, mailbox, game, env>>

\* GetNumber of the Player of c.
Number(c) == IF thread[c] = "taking" THEN 0 ELSE player[c]

OtherPlayers(c) == { i \in Slots : slots[i] \notin {NoOne, c} }

\* What is in the mailboxes when pkt is sent to every player except c.
Tell(c, pkt) ==
    [d \in Clients |-> IF \E i \in OtherPlayers(c) : slots[i] = d
                         THEN Append(mailbox[d], pkt) ELSE mailbox[d]]

\* A list of the elements of a set of numbers, in their order.
InOrder(S) == { s \in [1..Cardinality(S) -> S] : \A j, k \in DOMAIN s : j < k => s[j] < s[k] }

\* What is left in the mailbox of a client that joins: who else is there, in the
\* order of the slots.
Introductions(c) ==
    { [k \in DOMAIN s |-> Packet("PLAYERINFO", Number(slots[s[k]]), <<>>)] :
         s \in InOrder(OtherPlayers(c)) }

\* Of them, those who are leaving, and who have no number yet.
GhostsFor(c) ==
    { Number(slots[i]) : i \in { j \in OtherPlayers(c) : thread[slots[j]] \in {"taking", "leaving"} } }

\* Mutant of Introduce: the others are not told.
IntroduceOneWay(c) ==
    /\ thread[c] = "joining"
    /\ thread' = [thread EXCEPT ![c] = "connected"]
    /\ Send(c, <<Packet("CLIENTINFO", player[c], <<>>)>>)
    /\ \E info \in Introductions(c) : mailbox' = [mailbox EXCEPT ![c] = @ \o info]
    /\ ghosts' = [ghosts EXCEPT ![c] = GhostsFor(c)]
    /\ Freely
    /\ UNCHANGED <<slots, lastupdate, player, msgqueue, game>>

\* The client is told its number; the others are to be told of it, and it of them,
\* after what was left in its mailbox meanwhile.  It has joined.
Introduce(c) ==
    /\ thread[c] = "joining"
    /\ thread' = [thread EXCEPT ![c] = "connected"]
    /\ Send(c, <<Packet("CLIENTINFO", player[c], <<>>)>>)
    /\ \E info \in Introductions(c) :
          mailbox' = [Tell(c, Packet("PLAYERINFO", player[c], <<>>)) EXCEPT ![c] = @ \o info]
    /\ ghosts' = [ghosts EXCEPT ![c] = GhostsFor(c)]
    /\ Freely
    /\ UNCHANGED <<slots, lastupdate, player, msgqueue, game>>

\* A packet that the handshake does not expect ends the thread, which had no slot.
HandleUnexpected(c) ==
    /\ \E k \in Places(c) :
          \/ /\ thread[c] = "unconnected"
             /\ msgqueue[c][k].type \notin {"ACKBEAT", "CLIENTCONNECT"}
          \/ /\ thread[c] = "connecting"
             /\ msgqueue[c][k].type \notin {"ACKBEAT", "CLOCKSYNC", "DONESYNC"}
    /\ thread' = [thread EXCEPT ![c] = "none"]
    /\ msgqueue' = [msgqueue EXCEPT ![c] = <<>>]
    /\ Freely
    /\ UNCHANGED <<netlib, window, program, room, player, mailbox, game, env>>

\* A heartbeat's answer means nothing, nor does to the game what is not an input.
HandleNothing(c) ==
    /\ thread[c] \in {"unconnected", "connecting", "connected"}
    /\ \E k \in Places(c) :
          /\ \/ msgqueue[c][k].type = "ACKBEAT"
             \/ thread[c] = "connected" /\ msgqueue[c][k].type # "CLIENTINPUT"
          /\ msgqueue' = [msgqueue EXCEPT ![c] = Without(@, k)]
    /\ Freely
    /\ UNCHANGED <<netlib, window, program, room, thread, player, mailbox, game, env>>

\* Mutant of HandleInput: the sender is counted from zero.
HandleInputFromZero(c) ==
    /\ thread[c] = "connected"
    /\ \E k \in Places(c) :
          /\ msgqueue[c][k].type = "CLIENTINPUT"
          /\ messages' = Append(messages, [sender |-> player[c] - 1, times |-> msgqueue[c][k].times])
          /\ msgqueue' = [msgqueue EXCEPT ![c] = Without(@, k)]
    /\ Freely
    /\ UNCHANGED <<netlib, window, program, room, thread, player, mailbox, news, env>>

\* An input of a player is for the game thread, under the player's number.
HandleInput(c) ==
    /\ thread[c] = "connected"
    /\ \E k \in Places(c) :
          /\ msgqueue[c][k].type = "CLIENTINPUT"
          /\ messages' = Append(messages, [sender |-> player[c], times |-> msgqueue[c][k].times])
          /\ msgqueue' = [msgqueue EXCEPT ![c] = Without(@, k)]
    /\ Freely
    /\ UNCHANGED <<netlib, window, program, room, thread, player, mailbox, news, env>>

\* What others left in the Player's queue is sent.
SendMessages(c) ==
    /\ thread[c] = "connected" /\ mailbox[c] # <<>>
    /\ mailbox' = [mailbox EXCEPT ![c] = <<>>]
    /\ Send(c, mailbox[c])
    /\ Freely
    /\ UNCHANGED <<room, thread, player, msgqueue, game>>

\* Mutant of SendHeartbeat: to whoever has a thread.
SendHeartbeatToAll(c) ==
    /\ thread[c] # "none" /\ msgqueue[c] = <<>>
    /\ Use("beat")
    /\ Send(c, <<Plain("ACKBEAT")>>)
    /\ UNCHANGED <<room, threads, game>>

\* The client was silent for a while.
SendHeartbeat(c) ==
    /\ thread[c] = "connected" /\ msgqueue[c] = <<>>
    /\ Use("beat")
    /\ Send(c, <<Plain("ACKBEAT")>>)
    /\ UNCHANGED <<room, threads, game>>

\* The client does not acknowledge what it is sent.  If it has joined, the others
\* are told; if not, the thread just ends.
TimeOut(c) ==
    /\ thread[c] \in {"unconnected", "connecting", "connected"}
    /\ Use("leave")
    /\ \/ /\ thread[c] = "connected"
          /\ thread' = [thread EXCEPT ![c] = "leaving"]
          /\ mailbox' = Tell(c, Packet("PLAYERDISCONNECT", player[c], <<>>))
          /\ UNCHANGED msgqueue
       \/ /\ thread[c] # "connected"
          /\ thread' = [thread EXCEPT ![c] = "none"]
          /\ msgqueue' = [msgqueue EXCEPT ![c] = <<>>]
          /\ UNCHANGED mailbox
    /\ UNCHANGED <<netlib, window, program, room, player, game, env>>

\* DisconnectPlayer frees the slot, and the thread ends with its queue.
DisconnectPlayer(c) ==
    /\ thread[c] = "leaving" /\ Unlocked
    /\ slots' = [slots EXCEPT ![player[c]] = NoOne]
    /\ thread' = [thread EXCEPT ![c] = "none"]
    /\ player' = [player EXCEPT ![c] = 0]
    /\ msgqueue' = [msgqueue EXCEPT ![c] = <<>>]
    /\ mailbox' = [mailbox EXCEPT ![c] = <<>>]
    /\ Freely
    /\ UNCHANGED <<netlib, window, program, lastupdate, ghosts, game, env>>

ServerThread(c) ==
    \/ HandleConnect(c) \/ HandleSync(c) \/ HandleDone(c) \/ SetNumber(c) \/ Introduce(c)
    \/ HandleUnexpected(c) \/ HandleNothing(c) \/ HandleInput(c)
    \/ SendMessages(c) \/ DisconnectPlayer(c)

-----------------------------------------------------------------------------
(* The game thread *)

\* The time of the last update after a packet of two inputs.  An old input's time is
\* read but not what follows it, so that the next time is read from the wrong bytes:
\* from the first input's step and stick, which make a time later than any other.
AfterInputs(last, times) == IF last < times[1] THEN times[2] ELSE Future

\* Mutant of DoUpdate: the players are counted from zero, their numbers from one.
DoUpdateNext ==
    /\ messages # <<>>
    /\ LET i == Head(messages).sender + 1
       IN lastupdate' = IF i \notin Slots THEN lastupdate
                        ELSE [lastupdate EXCEPT ![i] = AfterInputs(@, Head(messages).times)]
    /\ messages' = Tail(messages)
    /\ news' = TRUE
    /\ Freely
    /\ UNCHANGED <<netlib, window, program, slots, ghosts, threads, env>>

\* do_update takes a packet of a player who is still there.
DoUpdate ==
    /\ messages # <<>>
    /\ LET i == Head(messages).sender
       IN lastupdate' = IF slots[i] = NoOne THEN lastupdate
                        ELSE [lastupdate EXCEPT ![i] = AfterInputs(@, Head(messages).times)]
    /\ messages' = Tail(messages)
    /\ news' = TRUE
    /\ Freely
    /\ UNCHANGED <<netlib, window, program, slots, ghosts, threads, env>>

\* Mutant of SendUpdates: the game thread sends by itself, past the Player's thread.
SendUpdatesAtOnce ==
    /\ messages = <<>> /\ news
    /\ toN64' = [c \in Clients |->
          IF relay[c] /\ \E i \in Slots : slots[i] = c
            THEN Append(toN64[c], Packet("PLAYERUPDATE", 0, <<>>)) ELSE toN64[c]]
    /\ news' = FALSE
    /\ Freely
    /\ UNCHANGED <<netlib, device, rompath, upload, loaded, input, toServer, relay, status, events,
                   closing, asked, uploads, program, room, threads, messages, env>>

\* send_updates tells each player what happened and the time of its last input.
\* (Rounds in which nothing happened are left out.)
SendUpdates ==
    /\ messages = <<>> /\ news
    /\ mailbox' = [c \in Clients |->
          IF \E i \in Slots : slots[i] = c
            THEN Append(mailbox[c],
                        Packet("PLAYERUPDATE", lastupdate[CHOOSE i \in Slots : slots[i] = c], <<>>))
            ELSE mailbox[c]]
    /\ news' = FALSE
    /\ Freely
    /\ UNCHANGED <<netlib, window, program, room, thread, player, msgqueue, messages, env>>

GameThread == DoUpdate \/ SendUpdates

-----------------------------------------------------------------------------
Next ==
    \/ \E c \in Clients :
          \/ N64(c) \/ Boot(c) \/ SendInputs(c) \/ LoseServer(c) \/ Retry(c)
          \/ Interface(c) \/ DeviceThread(c) \/ UploadThread(c) \/ RelayUp(c)
          \/ Unplug(c) \/ User(c)
          \/ ServerThread(c) \/ SendHeartbeat(c) \/ TimeOut(c)
    \/ GameThread

Spec == Init /\ [][Next]_vars

\* Programs and threads run, and a ROM that was loaded is started.  Users, the cart
\* and silence do as they please, and an upload may get stuck (clientwindow.cpp:628).
FairSpec ==
    /\ Spec
    /\ \A c \in Clients :
          /\ WF_vars(N64(c)) /\ WF_vars(Boot(c))
          /\ WF_vars(Interface(c)) /\ WF_vars(DeviceThread(c))
          /\ WF_vars(RelayUp(c)) /\ WF_vars(ServerThread(c))
    /\ WF_vars(GameThread)

-----------------------------------------------------------------------------
(* Properties *)

UpTypes   == {"CLIENTCONNECT", "CLOCKSYNC", "DONESYNC", "ACKBEAT"}
DownTypes == {"CLIENTCONNECT", "SERVERFULL", "CLOCKSYNC", "CLIENTINFO", "PLAYERINFO",
              "PLAYERDISCONNECT", "PLAYERUPDATE", "ACKBEAT"}
Times     == Nat \X Nat
Upward    == [type: UpTypes, n: {0}, times: {<<>>}] \union [type: {"CLIENTINPUT"}, n: {0}, times: Times]
Downward  == [type: DownTypes, n: Nat, times: {<<>>}]
Inputs    == [sender: Slots, times: Times]

\* Types.
TypeOK ==
    /\ buffer \in [Clients -> Upward \union {NoPacket}]
    /\ sendafterpoll \in [Clients -> BOOLEAN]
    /\ polls \in [Clients -> Nat]
    /\ usb \in [Clients -> Seq(Downward)]
    /\ wire \in [Clients -> Seq(Upward)]
    /\ \A c \in Clients : sendafterpoll[c] => buffer[c] \in Upward
    /\ lost \in [Clients -> SUBSET Upward]
    /\ device \in [Clients -> {"none", "starting", "loop", "upload", "joining", "dying", "dead"}]
    /\ rompath \in [Clients -> BOOLEAN] /\ loaded \in [Clients -> BOOLEAN]
    /\ upload \in [Clients -> {"none", "sending", "complete", "sent", "failed"}]
    /\ input \in [Clients -> Seq({"LOADROM", "CANCELLOAD"})]
    /\ toN64 \in [Clients -> Seq(Downward)]
    /\ toServer \in [Clients -> Seq(Upward)]
    /\ relay \in [Clients -> BOOLEAN] /\ closing \in [Clients -> BOOLEAN]
    /\ status \in [Clients -> {"IDLE", "UPLOADING", "DEAD"}]
    /\ events \in [Clients -> Seq({"IDLE", "UPLOADING", "DEAD"})]
    /\ asked \in [Clients -> Nat] /\ uploads \in [Clients -> Nat]
    /\ stage \in [Clients -> {"off", "start", "init", "game", "disconnected"}]
    /\ conn \in [Clients -> {"unconnected", "syncing", "plyinfo"}]
    /\ clocks \in [Clients -> Nat] /\ clocksent \in [Clients -> BOOLEAN]
    /\ calling \in [Clients -> UpTypes \union {"CLIENTINPUT", ""}]
    /\ clnumber \in [Clients -> Nat] /\ time \in [Clients -> Nat]
    /\ roster \in [Clients -> SUBSET Nat]
    /\ thread \in [Clients -> {"none", "unconnected", "connecting", "taking", "joining", "connected",
                           "leaving"}]
    /\ player \in [Clients -> Slots \union {0}]
    /\ msgqueue \in [Clients -> Seq(Upward)]
    /\ mailbox \in [Clients -> Seq(Downward)]
    /\ slots \in [Slots -> Clients \union {NoOne}]
    /\ lastupdate \in [Slots -> Nat]
    /\ ghosts \in [Clients -> SUBSET Nat]
    /\ messages \in Seq(Inputs)
    /\ news \in BOOLEAN
    /\ env \in [clients: SUBSET Clients, slots: Nat \ {0}, fresh: BOOLEAN, may: [Rare -> Nat],
                ordered: BOOLEAN]
    /\ used \in [Rare -> Nat]

\* While a ROM is being sent the device thread waits for it and does not use the
\* cart itself, whatever is cancelled, unplugged or closed (clientwindow.cpp:628).
CartHasOneUser == \A c \in Clients : upload[c] \in Uploading => device[c] \in {"upload", "joining"}

\* Each request to load the ROM causes at most one transfer: what was cancelled, or
\* asked for while a transfer ran, does not start another by itself (line 627).
LoadsAreAsked == \A c \in Clients : uploads[c] <= asked[c]

\* When the events have been handled, the interface shows what the device thread is
\* doing, across threads that died and were replaced: the button then does what it says.
StatusCatchesUp == \A c \in Clients : events[c] = <<>> /\ ~closing[c] => status[c] = Reported(c)

\* No upload gets stuck.
UploadsEnd(c) == []<>(upload[c] \notin Uploading)

\* A window that is closed gets rid of its threads, unless an upload gets stuck: "TODO:
\* 64Drive upload can get stuck, causing this thread join to freeze the server browser"
\* (clientwindow.cpp:628) is the one thing that keeps it open.
WindowCloses ==
    \A c \in Clients : UploadsEnd(c) => (closing[c] ~> ~relay[c] /\ device[c] = "dead")

\* The N64's program was loaded once, and did not lose the server or try again.
FirstTry(c) == used["silence"] = 0 /\ used["retry"] = 0 /\ uploads[c] <= 1

\* The packets of the handshake are never lost in the N64's one write buffer: nothing
\* that makes it answer is sent before the handshake is over.
HandshakeIsSent ==
    \A c \in Clients : FirstTry(c) =>
        \A pkt \in lost[c] : pkt.type \notin {"CLIENTCONNECT", "CLOCKSYNC", "DONESYNC"}

\* How many packets of a type are in a queue.
Count(queue, type) == Cardinality({ k \in 1..Len(queue) : queue[k].type = type })

\* At most one clock request is under way or being answered, from the write buffer
\* through both queues of the window to the server and back: each answer is measured
\* against its own request, and none is counted that global_latencytests has no place for.
OneClockSync ==
    \A c \in Clients : FirstTry(c) =>
        /\ clocks[c] <= CLOCKCOUNT
        /\ (IF sendafterpoll[c] /\ buffer[c].type = "CLOCKSYNC" THEN 1 ELSE 0)
           + Count(wire[c], "CLOCKSYNC") + Count(toServer[c], "CLOCKSYNC")
           + Count(msgqueue[c], "CLOCKSYNC") + Count(toN64[c], "CLOCKSYNC")
           + Count(usb[c], "CLOCKSYNC")
                <= (IF clocksent[c] \/ calling[c] = "CLOCKSYNC" THEN 1 ELSE 0)

\* A slot belongs to exactly one thread that joined and did not end, whatever the
\* order in which clients connect, join, time out and are freed.
SlotsAreOwned ==
    /\ \A i \in Slots : slots[i] # NoOne =>
          player[slots[i]] = i /\ thread[slots[i]] \in {"taking", "joining", "connected", "leaving"}
    /\ \A c \in Clients : thread[c] \in {"taking", "joining", "connected", "leaving"} =>
          player[c] \in Slots /\ slots[player[c]] = c

\* An N64 reads updates only once it has its number, by which it finds itself among
\* the players (packets.c:323), although the game thread may write to a Player before
\* the Player's own thread has told the client anything.  (After a cart was unplugged, a
\* new device thread throws away what waits for an N64 that still runs.)
UpdatesFindAPlayer ==
    env.ordered /\ used["unplug"] = 0 => \A c \in Clients : FirstTry(c) /\ usb[c] # <<>> =>
        (Head(usb[c]).type = "PLAYERUPDATE" => clnumber[c] # 0)

\* Nobody is joining or leaving, and everything that was sent has been read.
Settled == \A c \in Clients :
    /\ thread[c] \notin {"taking", "joining", "leaving"}
    /\ mailbox[c] = <<>> /\ toN64[c] = <<>> /\ usb[c] = <<>>

\* Once the server has settled, a player's N64 knows its own number and every player who
\* is there, in whatever order threads joined and left; and it knows nobody else, but
\* those who were leaving, or had no number yet, at the very moment it was introduced
\* (ClientConnectionThread.java:213 takes no lock), unless its cart was unplugged.
RosterIsRight ==
    env.ordered /\ used["unplug"] = 0 /\ Settled =>
        \A c \in Clients :
            FirstTry(c) /\ relay[c] /\ thread[c] = "connected" /\ stage[c] = "game" =>
                LET present == { i \in Slots : slots[i] # NoOne }
                IN  /\ clnumber[c] = player[c]
                    /\ present \subseteq roster[c]
                    /\ roster[c] \subseteq present \union ghosts[c]

\* "If this is a new input, apply it" (Game.java:123): what the server takes for the
\* time of a player's last input is a time at which its N64 made one.
UpdatesAreInputs ==
    \A i \in Slots : slots[i] # NoOne => lastupdate[i] <= time[slots[i]]

\* Where nothing goes wrong and there is a slot for everybody, everybody gets in, on a
\* server of any age.
EverybodyGetsIn ==
    \A c \in Clients : UploadsEnd(c) =>
        ((/\ c \in env.clients /\ env.ordered /\ Cardinality(env.clients) <= env.slots
          /\ \A r \in Rare \ {"beat", "input", "jump"} : env.may[r] = 0) ~> stage[c] = "game")
=============================================================================
