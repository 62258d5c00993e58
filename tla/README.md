# N64-NetLib: specifications and proofs

N64-NetLib lets Nintendo 64 programs play over the network. The N64 talks USB
to a PC; the *client application* (C++, `Client App/`) forwards packets between
the N64 and a *game server* (Java, `Examples/*/Server/`); a *master server*
(Java, `Master Server/`) lists the game servers and hands out their ROMs. PC
programs talk UDP, with sequence numbers, acknowledgements and resending in a
small *UDP handler* that exists once in Java and once in C++.

This directory holds TLA+ modules for the parts of that system where order,
loss and concurrency matter, TLC configurations that check them on small
instances, and theorems that TLAPS checks for all values of the constants.
`PROJECT.json` is the machine-readable index: components, runs, mutants, the
source lines behind each definition, hazards, findings and theorems.

    tlc -config udp_game_traffic.cfg MCUDPHandler.tla     # a run
    tlapm UDPHandler_proofs.tla                           # the proofs of a module

## 1. Inventory

For each component: the state it keeps, what it does, how it interacts, what is
hard about it, what makes it correct.

### Packet layer: numbers and ack fields (`AbstractPacket.java`, `packets.cpp`)
* State: none; 16-bit sequence numbers, a 16-bit ack and a 16-bit field.
* Operations: compare with rollover, increment, distance, build the field
  (`SendPacket`), read it (`IsAcked`).
* Hard: rollover at 0xFFFF; Java's shorts are signed, C++'s are not; shifts of a
  32-bit int by any count.
* Correct: the order follows the distance; what one language writes the other
  reads.

### Packet layer: UDP handlers (`UDPHandler.java`, `packets.cpp`)
* State: `localseqnum`, `remoteseqnum`, the RX list of the last 18 numbers, the
  TX list of unacknowledged packets with their attempts.
* Operations: `SendPacket`, `ReadS64Packet`/`ReadNetLibPacket` (both through
  `HandlePacketSequence`), `ResendMissingPackets`.
* Interactions: with the peer, by datagrams; with the thread that owns it, by
  calls and by `ClientTimeoutException`.
* Hard: datagrams are lost, repeated and overtaken; acknowledgement is indirect;
  lists have limits.
* Correct: no message twice, none lost unnoticed, none invented; every reliable
  message is acknowledged or its sender gives up.

### ROM download (`serverbrowser.cpp`, `romdownloader.cpp`, `ClientConnectionThread.java`, `MasterServer.java`)
* State: the dialog, the finder thread's input queue and path, the current
  `FileDownload`; a thread with a queue per client, the table of ROMs, the
  `ServerSocket` on the one TCP port.
* Operations: request, cancel, start; reply, connect, read pieces, dump; dispatch,
  look up, bind, open, accept, send, close.
* Hard: two threads and a dialog per client, a thread per client on the server,
  one port; cancellation at any moment; files that change; lost datagrams.
* Correct: one transfer at a time, the right file under the right name, the port
  given back.

### Server registry (`MasterConnectionThread.java`, `MasterServer.java`, `ClientConnectionThread.java`, `N64Server.java`)
* State: in the game server the thread's position, its handler and message
  queue; in the master server the table of servers with the time of their last
  interaction, and the client threads.
* Operations: register, heartbeat, wait for the ACK and resend; sweep, dispatch,
  register, look up, update; stop and restart.
* Hard: the table is in memory only; three threads read and write an entry;
  requests, replies and ACKs are lost or reordered; the wait can only end with
  an ACK.
* Correct: live servers are listed, silent ones erased, and waits end.

### Server list and discovery (`serverbrowser.cpp`, `ClientConnectionThread.java`, game servers' `main`)
* State: the list shown, the finder thread and its message queue, its table of outstanding
  pings, events for the window; at the master server a thread that iterates over the table.
* Operations: `LIST` / `SERVER` / `DONELISTING`, `DISCOVER` and its answer, `Refresh`, `Join`.
* Hard: a refresh while the thread works; answers and events of an earlier one; the table
  changes during the iteration; silent servers are only removed when something arrives.
* Correct: nobody who went silent is listed, everybody else is shown.

### Client window (`clientwindow.cpp`)
* State: three global message queues, the server's handler, the device status.
* Operations: connect, upload a ROM, poll the USB port, forward in both directions.
* Hard: four threads; the upload has a loop of its own over the same queue and
  clears the path afterwards (line 627); the button follows a status that is
  reported asynchronously (line 287); a device thread that died is replaced by a click.
* Correct: one user of the cart at a time, a transfer for a request and no other,
  the button says what it does, everything stops when the window is closed, unless an upload is stuck.

### N64 library (`netlib.c`)
* State: one write buffer, client number, callbacks, timeout of the connection.
* Operations: start/write/send, broadcast, poll with callbacks.
* Hard: a callback that sends polls again, inside the poll; one buffer; the
  masks of `netlib_send` and `netlib_broadcast` count players differently.
* Correct: what a program sends is written, once.

### Tic Tac Toe server (`Examples/Tic Tac Toe/Server/`)
* State: the boards, `movecount`, `forcedboard`; the game's state, `turn`, the
  players, the ready flags, its queue; a thread per client.
* Operations: connect, ready, move, disconnect; the game thread's phases.
* Hard: no lock between the game thread and the client threads; a player leaves
  between two reads of `players` or `turn`.
* Correct: a game always has a legal move or is over, the winner stays, players
  alternate, slots are not lost.
* The N64 programs decide what is sent: a ready flag, and a move in the board they believe forced.

### Realtime example (`Examples/Realtime/Server/`, `Examples/Realtime/Client/`)
* State: on the N64 the stage, the handshake's state and clock requests, its number
  and the players it knows; on the server the 32 slots, the queue of the game, a
  queue of messages per Player and of packets per client thread.
* Operations: connect, synchronise clocks, join and be introduced, send inputs,
  apply them and tell everybody, time out, leave, retry.
* Hard: the room is asked for at the beginning of the handshake (`CanConnectPlayer`,
  line 189) and entered at its end, unchecked (`ConnectPlayer`, line 209); the game thread
  writes to a Player that its own thread has not introduced yet; loops over the
  players without a lock; packets that overtake each other; everything the N64 says
  goes through one buffer, one cable and a window that may be uploading.
* Correct: slots are owned by one thread each, everybody gets in, all know who is
  there, an input is applied once.

### Hello World
Answers one packet; its registration thread is that of the registry.

### Left out for good
SHA-256, asio, `usb.c`/`debug.c` (vendored), the flashcart library (only its
header is here), windows and renderers, the N64 clients' drawing and floating
point, `LaggedPacketTask` (a debugging aid that is off).

## 2. Plan

Most important first; each step is checked before the next one starts.

| | Modules | What | State |
|---|---|---|---|
| 1 | `SeqNum`, `AckCodec` | numbers and ack fields; their proofs | done |
| 2 | `MessageChannel`, `UDPHandler` | the abstract channel and the handlers that implement it; proofs | done |
| 3 | `RomDownload` | downloads, both ends; proofs | done |
| 4 | `MasterRegistry` | registration, expiry, restart; proofs | done |
| 5 | `UltimateBoard`, `GameRoom` | Tic Tac Toe: the rules as operators, the game thread and the client threads that share `players`, `turn` and `state`; proofs | done |
| 6 | `NetLib` | the N64 library's polling, sending and callbacks | done |
| 7 | `ClientWindow` | device, upload and server threads over their queues | done |
| 8 | `Realtime` | the Realtime example, both ends, over the two above; proofs | done |
| 9 | `ServerList` | the browser's list, over the registry; proofs | done |

Compositions: `UDPHandler` composes two handlers and a network and is the
component under the others; these use what it guarantees in a reduced form
(unreliable replies in `MasterRegistry`, unreliable requests in `RomDownload`).
`ServerList` extends `MasterRegistry`: it adds the browser and the thread that answers it to the same
main loop and table. `GameRoom` composes the game thread, the clients' threads, their N64s and the board.
`Realtime` composes the N64's program and library (`NetLib`), the window (`ClientWindow`)
and the server: `ClientWindow` extends `NetLib`, whose cable it reads, and `Realtime` both.

Abstract specification: `MessageChannel`, of two handlers. For the rooms of the game servers, two or more
seats that are taken and left, the invariants `SeatsAreOwned` and `SlotsAreOwned` say as much.

Runs: one run per component that holds, and one for a disagreement worth
keeping. The library and the window have no run of their own: `realtime` checks
them under the program and the server that use them.

Every safety invariant of the passing runs is stated by a theorem, a few under a condition that the
theorem states (section 5). What is left to the runs is what the conditions leave out, and liveness.

## 3. Modules and code

**`SeqNum`** has the arithmetic of both languages as operators. Numbers are kept
unsigned; `AsShort` is the value a Java short holds, `Later(lang, ...)` compares
as that language does; a bit field is the set of its 1 bits; `Promoted` is the
sign extension of a Java short in `IsAcked`, and `ShiftedBit` the shift count
modulo 32. The widths are constants.

**`AckCodec`** asks one question per state: a handler whose RX list holds some
numbers builds a packet, its peer decodes it. All pairs of languages.

**`UDPHandler`** has two handlers, `Peers`, and a network that is the set of all
datagrams ever sent to a peer: not receiving one is loss, receiving it twice
duplication. One action per entry point: `SendReliable`, `SendUnreliable`
(`SendPacket`), `ReceiveDuplicate`, `ReceiveNew` (the two outcomes of
`HandlePacketSequence`, each with the ack packet it sends), and
`ResendMissingPackets` with the packets that happen to be due. Only Java loops
resend (`Resenders`): the client application's server thread never does.
`MessageChannel` is what the handlers promise: messages with no numbers and no
acknowledgements; `pending` is the TX list and `closed` is `timedout`. `sent` and
`delivered` are history variables.

**`RomDownload`** follows a download from the dialog to the file. Client:
`RequestDownload`, `PostRequest`, `Cancel`, `Join` (the user interface), and
`HandleMainInput`, `HandleReply`, `FileDownload` (the finder thread). Server:
`Dispatch` (the main loop) and `Poll`, `Lookup`, `Bind`, `Open`, `Accept`,
`SendChunk`, `Finish`, `Exit` (a client's thread: where another thread may come
between, there is a step). `Collect` is the garbage collector closing a
`ServerSocket` that an exception left behind. A ROM is its hash and the path it is
saved at; a piece stands for a chunk of a file. An iteration of its loop is `ReadChunk`, where a read that asks for too much may get it (`over`).

**`MasterRegistry`** has the registration thread of each game server and the three
kinds of threads in the master server that touch the table. `WaitAck`'s loop is
`ReadReply` and `Resend`; the sweep of the table before each dispatch is
`Receive`, `CheckServer`, `RemoveServer`, `Dispatch`, step by step; the client
thread looks an entry up (`LookupServer`) and updates the object it found
(`UpdateServer`), which may have been removed meanwhile. `env` says what may go wrong,
and which game servers there are.

**`ServerList`** has the browser's window (`Refresh`, `Join`, `ThreadEvent`), which waits while `finder` is
"stopping", the finder thread (`HandleMainInput`, `ReadPacket_Finder`, `FinderEnds`), the master's thread for
it and the game servers' answers. A new finder thread has a new socket, so `NewSession` forgets all that was on its way
to the last one; `posted` and `events`, the two queues between the window and its threads, outlive it. `ListServers` sends
one packet for each entry: the iterator of a `ConcurrentHashMap` has read the next entry before it is asked for it
(`lister.ahead`), and meets later changes or not. The request goes through the sweep like any other packet
(`ReceiveList`, then `CheckServer` and `RemoveServer` of the registry, then `DispatchList`, where the main loop looks whether the client's thread is still alive and makes another or leaves the request in its queue).

**`UltimateBoard`** has the rules as pure operators over constant `Cells` and `Lines`. A board's winner is
the first line with a single owner, else whoever it was before; `Play` and `Refuse` are the two outcomes of
`BoardLarge.MakeMove`, and both may count.

**`GameRoom`** has a program counter for `Game.run`, with a step wherever a client's thread can make a difference:
between the send and the assignment of `ChangePlayerTurn` (`TellTurn`, `AssignTurn`), before a field that may
have become null is used (`PrintTurn`, `NotifyMove`), at each look at the state (`CheckState`). `dead` is the
thread after a null pointer. A client's thread connects, relays, and leaves in up to four steps (`Leave`, `LookAtState`, `ClearTurn`,
`EndGame`), which the lock keeps apart from other connections only. An N64's `view` is what its callbacks have
stored; `Callback` handles one packet, and `ChangeStage` is the main thread, which enters the stage that a callback asked for, maybe
only after callbacks for more packets of the same poll.
`turn` holds a Player object, and `number` is its number: the code compares both. Three variables are history. `clean`:
the game started when nothing of an earlier one was on its way, both N64s were in the lobby, and nobody had left since both were ready.
`caught`: since both were ready, a disconnection was under way while the game thread was not asleep in its loop (it was on
its way through `Exposed`, or looked at the state before the disconnection was over). `hasty`: the clients whose N64 read TURN, MOVE or DONE of the game before it
entered the game's stage, which forgets them.

**`NetLib`** has the library's write buffer and polls as helpers of the programs' actions:
`SendToServer` (`netlib_start` to `netlib_sendtoserver`), `ReadPacket` (one round of the
loop in `netlib_poll`, with the packet its callback sends, which begins a poll inside the
poll), `EndPoll` (the write). `usb` and `wire` are the two directions of the cable. `lost` is
history: packets whose place in the buffer another one took.

**`ClientWindow`** follows the threads of a window. The interface: `BeginWorking`, `Click`,
`ThreadEvent`, `Close`, `RelayStops`. The device thread: `FindCart`, `LoseCart`,
`StartUpload`, `UploadOver`, `InterruptUpload`, `JoinUpload`, `ReceiveUSB`, `SendUSB`,
`HandleMainInput`, `LeaveLoop`, `DeviceEnds`; `SendROM` is what the upload thread comes to.
`TestDestroy` is true for the device thread once the server connection thread has been
waited for, in the order of the destructor. `asked` and `uploads` are history.

**`Realtime`** adds the N64's program (`EnterInit`, `RequestClock`, `DoneSync`, `SendInputs`,
`Callback`, `PollEnds`, `LoseServer`), the way through the window (`RelayUp`, `Send`), the
server's thread for a client (one action per packet and state of `HandleNetLibPackets`;
`SendMessages`, `SendHeartbeat`, `TimeOut`, `DisconnectPlayer`) and the game thread (`DoUpdate`,
`SendUpdates`). What a call of `netlib_sendtoserver` does after it returns happens in `PollEnds`,
because the call polls and its callbacks run first; `calling` remembers it. Joining is three steps,
`HandleDone` (the slot), `SetNumber` (both under the lock, which `thread[c] = "taking"` stands for) and `Introduce` (the announcements), and leaving is two,
since the game thread and others come in between: they see a Player as soon as it is in its slot, with number 0 until `SetNumber`.
`ghosts[c]` is history: the numbers `c` was told of although their Players were leaving, or had none yet, when `c` was introduced.
`DoneSync` has the clock's jump: the console's clock was just set to the server's, and on a server five seconds older than the N64 the poll of that very call takes
the connection for lost (`stage_init.c:236`, `netlib.c:423`). A client knows its number by
CLIENTINFO, which is sent at once; what `SendPlayerInfoPacket` says waits in the queue of the Player it is
for, after whatever the game thread wrote there.

## 4. Runs

| Run | Result | Shows |
|---|---|---|
| `ack_codec` | holds | `ExactInWindow`, `OrderFollowsDistance` at the real widths |
| `udp_game_traffic` | holds | `TypeOK`, `ReceivedIsAdvertised`, `ImplementsChannel`, `EventuallySettled` |
| `udp_explicit_ack` | holds | `AckedMeansReceived`, when every packet is an `EXPLICITACK` |
| `udp_beat_ack` | violated | `AckedMeansReceived`, when heartbeats are in between |
| `rom_downloads` | holds | `TypeOK`, `OneTransfer`, `PiecesAccounted`, `FirstRomRight`, `PortReleased` |
| `rom_crosstalk` | violated | `RightRom`, with two users at once |
| `registry` | holds | `TypeOK`, `ConfirmedIsRead`, `HeardIsListed`, `ErasedOnlyIfSilent`, `WaitEnds`; and of the browser, `ListedIsLive`, `EverybodyIsShown` |
| `registry_hang` | violated | `WaitEnds`, after a restart and one lost ACK |
| `game_room` | holds | `TypeOK`, `SeatsAreOwned`, `CountsFinished`, `TurnCanBePlayed`, `GameGoesOn`, `TieIsComplete`, `BackToLobby` |
| `game_newcomer` | violated | `SeatsAlternate`, when a seat changes hands between two games |
| `realtime` | holds | `TypeOK`, `CartHasOneUser`, `LoadsAreAsked`, `StatusCatchesUp`, `WindowCloses`, `HandshakeIsSent`, `OneClockSync`, `SlotsAreOwned`, `UpdatesFindAPlayer`, `RosterIsRight`, `UpdatesAreInputs`, `EverybodyGetsIn` |
| `realtime_reorder` | violated | `UpdatesAreInputs`, when two packets of inputs arrive in the wrong order |

**Bounds and why they are enough.**
* `ack_codec`: the real widths (0xFFFF, 16 bits, 32 bits). The newest number, the
  numbers received and the number asked about are taken around every boundary:
  rollover, sign bit, ends of the field and of the int, half way round.
* `udp_*`: numbers 0..7 (0..11 for `udp_explicit_ack`), a field of 2 (3) bits, an
  int twice as wide, an RX list of 2 (5): scaled down together, so that list, field
  and int all overflow within a few messages. Two or four reliable messages down,
  one up; redelivery is bounded by `MaxDeliveries`. `MAX_RESEND` is 2 or 3 of 5: one
  retry and the give-up. `Implements` is proved for all values, rollover included.
* `rom_*`: two browsers, two ROMs of one and two pieces (a file has a first, a
  last and, between two pieces, a middle). `Users` holds four environments: two
  users who may cancel; one user who cancels and asks again; a folder that
  changes twice with lost datagrams; a change between check and open. More
  requests per user at once take longer and found nothing else.
* `registry`: two game servers, `MAX_RESEND` 2, a keep time of one interval. Up to two
  lost datagrams over four intervals (enough to give a packet up and be erased);
  one restart over three; a slow and disorderly network for the first
  registrations. Losses stay at `MAX_RESEND` because of the third remark in section 6.
  Nobody browses in these three. In three more somebody does, at any moment: one press with two servers
  that register at the same time; two presses (a refresh in the middle of the first list, or
  somebody who joins) with one server and a lost datagram; one press with one server that loses two, gives up and
  goes silent until it is erased. Two presses with two servers are 1.4 million states more and show nothing new.
* `game_*`: boards of two cells, large and small, with the line of both: a small board is won or
  tied in two moves and a game lasts at most four, with free and forced moves, wins and ties.
  `Rooms` holds three environments: two players with two presses of the button each (a change of mind, or a second game) and
  packets that may take longer than a pause of the game thread; three players with one press (so a seat changes hands) and quick packets;
  two players in any interleaving, not prompt. In all three an N64 may read several packets before it enters a stage, and a player may leave at any
  moment the game thread sleeps (in the last one: at any moment). `Newcomer` needs two presses of one player, one for each game.
* `realtime`: two clock requests of the program's `CLOCKCOUNT` of them (a first and a next one;
  `OneClockSync` would break at the second). What happens rarely is counted in `used` and bounded by the environment's `may`.
  `Sessions` holds six environments: one window with a click, an unplugged cart and its closing, in any order, from
  before the first upload to after the last; one with two clicks, each of which may cancel or ask again; two players and a
  packet of two inputs, on a server that is older than the N64 or not; two players of whom one leaves at any moment, with two slots, and two who leave and come back with
  one slot (so a slot is asked for while it is free and taken when it is wanted); one player with two packets of inputs, a silence, a heartbeat, a retry and a departure.
  In the last four the ROM is loaded already. `Unordered` has one player with two packets of inputs.

CHECK_DEADLOCK is off where users stop, messages run out or the clock reaches its bound.
`ack_codec` has stuttering steps only, and needs no deadlock switch.

**Fairness.** `udp_game_traffic`: weak fairness of `ResendMissingPackets` for resenders.
Their loops poll without blocking (`ClientConnectionThread.java:86-103`) and call it
whenever the queue is empty; nothing is assumed of the network. `rom_downloads`: weak
fairness of each finder thread, dispatch, and server thread; none of users, losses
or the garbage collector. `registry`: weak fairness of every thread, strong fairness of
`Receive(g)` because a socket's buffer is a queue which other clients cannot overtake
for ever, and what is sent to a server that is down disappears; none of the browser, whose properties
are of what is so when nothing is on its way. `game_room`: weak fairness of the game thread, of a
client's thread in a disconnection and of an N64's callbacks and stages (all are loops that sleep or poll); none of users.
`realtime`: weak fairness of the N64's program (its frame callback polls and updates), of a program that was loaded and is waiting to be
booted, of the interface's events, of the device and server connection threads, of each server thread and of the game
thread (loops that sleep or poll); none of users, of the cart, or of silence, heartbeats and inputs. None is assumed of the upload thread either:
the source says that an upload "can get stuck, causing this thread join to freeze the server browser" (`clientwindow.cpp:628`), and in the model it can
(`UploadThread` need never happen). `WindowCloses` and `EverybodyGetsIn` have the premise `UploadsEnd` instead, which is their only one about the cart.

**Conditions in the properties.** `FirstRomRight` is about the first download of one
user with nobody else around; without that, `rom_crosstalk`. `ConfirmedIsRead`, `HeardIsListed`
and `ErasedOnlyIfSilent` are about *prompt* environments, where datagrams are dealt with within the
`TIME_RESEND` pause; `HeardIsListed` leaves out servers whose request to register again was lost or
thrown away by `WaitAck`. `ListedIsLive` is about prompt environments too, `EverybodyIsShown` about
servers that were registered when the thread started and stayed so, and lists of which no packet was lost. `ExactInWindow` is about numbers within the field. In `GameRoom`, `GameGoesOn` and `BackToLobby` are about every environment, and
every interleaving. They except the one thing that breaks them: a disconnection that is `caught` with the game thread at work. Such a disconnection may leave a null pointer (section 6, 7) or
have its ENDED_DISCONNECT overwritten, in the code as in the model; what is claimed is that no other does. `TurnCanBePlayed` and `TieIsComplete`
are about *prompt* rooms, which is an assumption about time and not about the code: what the game thread does between two sleeps takes no time, nor does a disconnection, and nobody comes
in the second before a game starts or while one is on. Players leave a prompt room whenever the game thread sleeps, also in that second. Without it they do not hold (section 6, 8). `CountsFinished`, `TurnCanBePlayed` and `TieIsComplete` are
about games that started `clean`; a room's first game always does unless somebody left in the second before it, and a later one unless a move or a packet outlived the one before. Of other games none of the three
is true: TLC finds `TurnCanBePlayed` violated without that condition in the environment of `game_newcomer` (section 6, 9). `TurnCanBePlayed` excepts the players in `hasty`, who did read their
turn, too early (section 6, 10): it says that nothing else makes a player wait.

In `Realtime`, the N64's first try of a program that was loaded once (`FirstTry`) is what `HandshakeIsSent`, `OneClockSync`, `UpdatesFindAPlayer`
and `RosterIsRight` are about: a second try, or a second upload, meets a server that still takes the client for connected (section 6, 12). The last two are
also about consoles that are not unplugged, since that clears what the window still had for the N64 (`clientwindow.cpp:500`). `RosterIsRight` allows
an N64 to know, besides everybody who is there, its `ghosts`: who was leaving, or had no number yet, in the instant in which it was introduced (section 6, 13). Nothing is assumed of who joins and
leaves when. It and `UpdatesFindAPlayer` are about packets that stay
in order, which the UDP handlers do not promise. `EverybodyGetsIn` is about environments with a slot for everybody where nothing rare but heartbeats, inputs and the clock's jump happens.
What else happens in a retry, or when packets are out of order, is in the model and has no property.

## 5. Proofs

`UDPHandler_proofs` proves, from `SeqNumAssumption` and `UDPHandlerAssumption` alone:
* `TypeCorrect`: `Spec => []TypeOK`, one step per action.
* `HistoryCorrect`: `Spec => []HistoryInv`. `TypeOK` is not enough for the refinement: a delivery in
  `MessageChannel` must be of a message that was sent and not among the recent ones, and
  the handler knows only numbers. `HistoryInv` ties the two together: every datagram carries a message
  its sender has submitted (`NetInv`, `TxInv`), and the RX list is the tail of what was delivered, with the numbers
  of those messages (`RxInv`, `RxFromNet`). `IInv == TypeOK /\ HistoryInv` is inductive.
* `Implements`: `Spec => ImplementsChannel`. Each action is mapped: a send submits, a new packet
  delivers or acknowledges, a resend gives up or stutters, the rest stutters. The key lemma is
  `FreshMessage`: a number that is not in the RX list is a message not among the last `RX_LIMIT + 1`, because equal
  messages have equal numbers, across rollover too.
* `AdvertisedCorrect`: `Spec => []ReceivedIsAdvertised`, for any widths with 2 `ACK_BITS` < `PACKET_MAXSEQNUM` (16 and 65535 in the
  code). Nothing but types is needed of the state; the argument is arithmetic: a number within the field is earlier in both
  languages (`NearIsEarlier`), has a bit that truncation and shift keep, and sign extension only adds bits (`NearIsAcked`).
* `AckedCorrect`: `AckedMeansReceived`, for the first `ACK_BITS + 1` messages of a sender `s` with `OneSided(s)`: all it sends is
  reliable, its peer sends only the acks it is asked for, an int is wider than the field and divides the
  number space. Each condition is needed: the run `udp_beat_ack` and remarks 1 and 2 of section 6 are
  what happens otherwise. The network still loses, repeats and reorders, and both languages are covered. `AckInv` says that
  message m travels as number m - 1 (`Numbered`), that the newest number and all of the RX list of the peer were read
  (`NewestIsRead`), and that every packet under way to `s`, however old, acknowledges only what was read (`AcksAreTrue`);
  that a reader takes nothing else from a field, also beyond its ends, is `AckIsTrue`.

`AckCodec_proofs` proves `OrderCorrect` and `ExactCorrect` from `SeqNumAssumption` and
`AckCodecAssumption`: order is distance for any odd largest number, and inside the field what was
written is what is read, for any widths, both languages.

`Realtime_proofs` proves ten invariants of `Realtime`'s `Spec`, for any clients, slots, budgets and orders.
* `CartHasOneUserTheorem`, `LoadsAreAskedTheorem`, `StatusCatchesUpTheorem`, from one inductive invariant, `WindowInv`. Only `work`, eight of the window's variables, matters:
  `WindowSteps` shows that every step of the system is one of fourteen of a window or leaves `work` alone, and `Elsewhere` that it leaves the other windows alone. `LoadsAreAsked` is not
  inductive: `LoadsAccounted` also counts the transfer that will start because the path is set (`Pending`), unless the device thread is in its upload, which
  forgets the path, and the one whose LOADROM is still in the queue (`Posted`). Nor is `StatusCatchesUp`: `LastEventIsRight` says that the last event on its way, if
  there is one, reports what the device thread does now.
* `SlotsAreOwnedTheorem`, from `SlotTypes` and `RealtimeAssumption` (nobody is no client): `SlotSteps` reduces the system's steps to three kinds, in which a thread gets a slot, gives it back, or goes on.
  `SlotsAreOwned` is inductive with it because it relates both directions: who has a slot is the thread that has its number.
* `RealtimeTypes`, from `TypeInv`, which adds `SlotsAreOwned`: a player's thread knows the number it puts in its packets because its slot is its own.
* `HandshakeIsSentTheorem` and `OneClockSyncTheorem`, from `HandshakeInv`. While a client is at its first try (`FirstTry`), at most one packet of
  each kind that the handshake waits for is anywhere between the library's buffer and its callbacks (`OneAtATime`; `Traffic` counts them over
  the buffer, the cable, the window's queues, the network and back), and where the program is says which (`Progress`). A callback can only take the buffer from the program if it
  answers something, and what it answers is sent to players only (`Mailboxes`), who have said DONESYNC (`Over`). So whatever
  is in the buffer during the handshake is what the program put there (`OwnCall`). One lemma per kind of step shows what it does to the traffic of one client; `Quiet` and `Unmoved` are the steps of the others.
* `UpdatesFindAPlayerTheorem` and `RosterIsRightTheorem`, from `RosterInv`. What an N64 knows lags behind the room by three queues: the Player's mailbox, the window's
  packets and the USB port. So the invariant is about what it will know when it has read them, one after the other (`AfterReading`, `Known`, `Belief`), and every step
  between two queues leaves that as it is. For a player whose thread has introduced it, it is the room as it will be when those who join have said so and those who leave have (`Roster`).
  What is in the mailbox of a client that is still joining names nobody who is not there (`NewMail`); its number is the first thing of its
  own that it is sent (`NumberComesFirst`, `OwnNumber`), which is why an update finds it. `Windows` says which device threads still can throw packets away: on a first try none does after a player was sent something, unless its cart was
  unplugged. Nothing is assumed of who joins or leaves at the same time: whom an N64 knows too many of are its `ghosts`, which are fixed when it is introduced.
* `UpdatesAreInputsTheorem`: `Spec => [](env.ordered /\ used["leave"] = 0 => UpdatesAreInputs)`, from `InputsInv`. The five places where an input can wait (the library's buffer, the cable, the
  window's queue, the thread's and the game thread's) are put in a row (`Line`): the times of all inputs in it rise, and are later than the last one applied and no later than the N64's last (`InLine`).
  A step passes a packet on, which leaves the row as it is (`PassedOn`), throws some away (`Within`), puts a later one at the end (`LaterInput`) or applies the first (`HeadIsNew`). The condition is needed: `realtime_reorder` shows
  what a packet out of order does, and an input of a player who left may be taken for one of the next player with its number (section 6, 14).

`RomDownload_proofs`, for any clients, ROMs and environments:
* `DownloadTypes`: a type of this module holds a bound, that a thread sends no more than it read; `TypeInv` adds that whatever a thread is busy with is a ROM of the server (`RomsAreNamed`).
* `OneTransferTheorem`: `Spec => []OneTransfer`. `OneTransfer` is
  not inductive; `PortInv` is. Its `PortIsHeld` says that the thread between `bind` and `close` is the one that listens, so that there
  is only one; `OpenIsSent`, that an open connection belongs to the client whose connection that thread accepted; `Shapes`, that
  records keep their fields. `PortSteps` reduces the system's steps to the few that touch the port.
* `DownloadAccounts`: `Spec => []PiecesAccounted`, from `TypeInv`, `PortInv` and `PiecesInv`: a client in the backlog has nothing yet, and for one that is connected what it has, what is in its connection and what its thread has left are
  together what the thread read when it opened the file (`AccountOf`). It needs `PortInv`, since a thread counts for the client it accepted only because there is
  one at a time.
* `DownloadIsRight`: `Spec => []FirstRomRight`. `FirstInv` follows the ROM of the one user who asks through every queue, thread, connection and file, and
  says that everybody else is as in the beginning (`Unused`).

`MasterRegistry_proofs`, for any game servers and environments:
* `RegistryTypes`, from `TypeInv`: who waits has sent something (`WaitsForPacket`), and the main loop has a packet where it serves one.
* `RegistryErases`: `Spec => ErasedOnlyIfSilent`, an action property, from `TableInv`: an entry no thread is busy with is as old as the last packet of its server (`TableOf`), and
  the sweep leaves nothing expired behind (`SweepOf`).
* `RegistryConfirms`: `Spec => []ConfirmedIsRead`, from `ConfirmInv`. In a prompt environment at most one packet of a server is on its way, or
  else at most one reply of each type (`OneToken`), and it belongs to the packet sent last (`TokenIsNewest`). That needs to know which packets can be
  sent again: none but the last, because a packet that was given up stays at the head of the TX list and keeps all others from being resent (`OneUnspent`; remark 3 of section 6 is what makes it true).
* `RegistryLists`: `Spec => []HeardIsListed`, from all three and `ListedInv`: a server that the master should know and does not is about to be found out, or registers, or has the request to in its
  queue (`MissedIsAsked`).

`ServerList_proofs`, over the same:
* `BrowsedRegistryHolds`, `BrowsedRegistryErases`: the registry's promises, of the specification with the browser. `StepIsBrowsing` shows that a step of it is one of the
  registry or changes of the registry only what the main loop has in hand (`Browsing`); the invariants above survive it.
* `ListedAreLive`: `ListSpec => []ListedIsLive`, from `LiveInv`: the sweep that the request for the list itself causes leaves nothing expired, and in a prompt environment nothing expires while the list is sent.
* `EverybodyShown`: `ListSpec => []EverybodyIsShown`, from `ShownInv`: a server that stays registered is always somewhere on the way
  from the request to the row (`Underway`), whatever is refreshed meanwhile.

`GameRoom_proofs`:
* `SeatsAreOwnedTheorem`: `Spec => []SeatsAreOwned`, in any environment, prompt or not. `SeatInv` adds to it that
  the relation goes both ways (`Owned`: a client that is connected has the seat of its number, and a seat has the client
  that is connected with its number) and the types of what is involved (`SeatTypes`). `SeatSteps` reduces the
  system's steps to four: somebody sits down, gives the seat back, goes on with the disconnection, or no seat changes.
* `GameGoesOnTheorem`: `Spec => []GameGoesOn`, in every environment, from `ThreadInv`: the lock of `DisconnectPlayer` is one client's at a time (`OneAtATime`); while no disconnection was
  caught, the fields the game thread is about to use are there (`Safe`), because a disconnection that begins and ends in its sleep has set the state that it looks at next; and in a prompt room
  none of its steps meets one (`Prompt`), which the theorems about boards need.
* `RoomTypes`: `Spec => []TypeOK`, from `TypeInv`: a move in a message or a packet, and the one the game thread has just made, is in a cell of a board.
* `CountsFinishedTheorem`, `TieIsCompleteTheorem` and `TurnCanBePlayedTheorem`, in prompt rooms, in games that started `clean` and of which no N64 read a packet too early (`hasty = {}`), for any boards and lines, players and presses. All three come from `PlayInv`,
  inductive together with `TypeInv` and `ThreadInv`. That the server's `movecount` counts the finished boards is true only because no N64 sends a move in a finished board or a taken cell, which the server
  would refuse and count. So the invariant says what an N64 knows: what is taken on the server, or will be by a move of its own that waits for the game thread, is what it has stored, or is in a packet to it, or
  is the move the game thread is about to notify it of (`Knowing`); it is in the game, about to enter it, or has the packet that starts it in front of all others of the game (`Follows`); and of the two players exactly
  the one whose turn it is has the TURN packet on its way as its last, or can move, or has moved, with at most one move in the queue (`Turns`).

`SequenceFacts` has what these need of sequences: removal, appending, concatenation, splitting.

Only model-checked: of `GameRoom`, `CountsFinished` in rooms that are not prompt, and that and `TieIsComplete` in games that some N64 entered late, and what `TurnCanBePlayed` says of the other player then; of `Realtime`, `UpdatesAreInputs` for a lonely player who leaves and comes back. Every liveness property (`EventuallySettled`, `PortReleased`, `WaitEnds`, `BackToLobby`, `WindowCloses`, `EverybodyGetsIn`) is beyond the prover.

## 6. Where the program differs from what it says

The five violating runs (`PROJECT.json`, findings) are kept as runs. While modelling, the
traces also showed the following, which have no run of their own:
1. A handler that has received nothing acknowledges number 0: a first message that crosses another one
   leaves the TX list unreceived (`UDPHandler.java:42`).
2. Once the number 16 before the ack was received, Java's sign extension in `IsAcked` (`AbstractPacket.java:192`)
   also acknowledges the 15 numbers after the ack and the 16 before the field, received or not: from the 18th message on, a packet sent just before an
   ack of the one before it arrives leaves the TX list.
3. A packet that was given up stays in the TX list; the next `WaitAck` throws for it at its first
   resend, before its own packet is repeated (`UDPHandler.java:79`).
4. `WaitAck` accepts a late ACK of an earlier packet, and throws away a `REGISTER` request
   it reads (`MasterConnectionThread.java:131`).
5. A heartbeat handled between the sweep's look at an entry and its removal does not save it (`MasterServer.java:96`).
6. A reply to a cancelled download is taken for the next one's (`serverbrowser.cpp:734`); a cancellation read with the
   last piece dumps the file to an empty path (line 1014); the reply is sent before the port is bound, so
   a quick client is refused and never retries (`ClientConnectionThread.java:243`).
7. A player who leaves in the second before a game (`Game.java:79`), or between two reads of `turn` (lines 91-93, 137-148), leaves a null
   pointer, which ends the game thread: the room is dead until the server is restarted. `game_room` reaches both; `GameGoesOn` says that nothing else does it.
8. A player who leaves a game and is replaced before the game thread looks again turns it into a tie (`Game.java:163`).
9. `Game.messages` is never cleared: what a departed player sent counts for whoever has the number next. A move that is in it
   when the other player's departure ends the game is played in the next game as its sender's first move; its sender is not notified of it (`Game.java:285`), its
   new boards do not show it, and it may choose a square the server takes for occupied.
10. If PLAYING and TURN are read in one poll, the turn is stored before the game's stage is entered, which resets it
    (`stage_game.c:60`, `main.c:110`, `netlib.c:437`): both players wait. `game_room` reaches it; `TurnCanBePlayed` says that nothing else makes a player wait.
11. A CONNECTED thread sends heartbeats; the N64's answer takes the library's one buffer, so that if it comes in the poll in which the program sends, the program's
    packet is not written (`netlib.c:366`). Nothing in the handshake is lost so, because there are no heartbeats before its end.
12. A client that loads its ROM again, or retries after five seconds of silence, sends CLIENTCONNECT to a thread that is still CONNECTED and passes it to the game, which ignores it:
    the N64 waits in its first stage until the server gives the old connection up (`ClientConnectionThread.java:232`).
13. Who leaves is announced before the slot is freed, and who joins is told of everyone in a slot, without a common lock: a client that joins in between may
    read PLAYERDISCONNECT before PLAYERINFO and keep a player who is not there (`ClientConnectionThread.java:122`, `213`). A Player is in its slot before it has a number
    (`Game.java:368`), so that the same loop may introduce it as number 0, which the N64 writes before the first entry of its `global_players`. `realtime` reaches both (`ghosts`).
14. What is in the game's queue from a player who left counts for whoever has the slot next (`Game.java:107`).
15. The window's queue of messages is global and never cleared: a LOADROM posted to a window that is closed before it reads it is read by the next one's device thread
    (`clientwindow.cpp:178`); a cancellation that arrives after the upload's end is read and ignored (line 710).
16. A server can be in the list twice: two `LIST` requests may be in the queue when a thread that was told to end never read the
    first, and an event of the old thread may be handled after the list was cleared (`serverbrowser.cpp:531`). A second `LIST` that reaches
    the master's thread while it answers the first dies with it (`ClientConnectionThread.java:82`).
17. A closed window, and with it the browser, waits for ever for an upload that is stuck (`clientwindow.cpp:628`, which says so).
18. An N64 that joins a server five seconds older than itself is told in the middle of the handshake that it was disconnected: its clock was just set to the server's, the time of the
    last packet is still one of the old clock (`stage_init.c:236`, `netlib.c:423`, `484`). The handshake goes on behind that message, and the answer takes it to the game.
19. `FileDownload` asks for a whole chunk where less is left, and for what is left where there is more (`serverbrowser.cpp:997`): if the connection holds another, longer file, the last read
    goes beyond the end of the file's buffer and nothing is saved. The model has what is saved, not what is overwritten.
20. `netlib_poll` compares the function `usb_getcart` itself with `CART_NONE` and never calls it (`netlib.c:423`).

## 7. Not modelled in the modelled parts

Bytes of packets and the version check; what a row of the list says; datagrams that the network repeats in `RomDownload` and `MasterRegistry`; a restart of a game server;
sequence numbers beyond half way in `MasterRegistry`; packets to an N64 that overtake each other, the answer
to a client of a full room, malformed packets and I/O errors in `GameRoom`; files as bytes rather than pieces; the time between two resends,
chosen freely. In `NetLib`: `netlib_send` and `netlib_broadcast`, `SAFETYCHECKS`, the reconnect callback, a
`usb_write` that fails. In `ClientWindow`: LOADDATA, threads that cannot be created, the console, and what the flashcart does between its calls. In `Realtime`: objects, physics, prediction and the latency
arithmetic, packets between clients, I/O errors, the loss and repetition of datagrams (`UDPHandler` has them), the game's rounds in which nothing happened (`SendUpdates` only after `news`),
and what number 0 overwrites on an N64.

Steps that are coarser than the code. In `GameRoom`, `Connect` is one step for `ConnectPlayer`, the introductions and CONNECTED (`ClientConnectionThread.java:167-203`): a game cannot start in between for a player who is not
there yet, since an N64 presses no button before it was told of the other. `Leave` is one step for the announcement and the seat. In `Realtime`, `Introduce` is one step for the loop over the players: who joins or leaves
in the middle of it is met by it or not, as it is when the whole loop comes before or after; but each instant in which the loop can see a half-done join or departure is in the model. `AfterInputs` takes a time that was misread for one later than any, where with other bytes it
may be earlier and is skipped. `UploadOver` leaves its loop when the transfer is complete or the thread has ended; what progress says before that is left out.
