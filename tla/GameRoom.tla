------------------------------ MODULE GameRoom ------------------------------
(***************************************************************************)
(* A room of the Tic Tac Toe server: the game thread (Game.java) and one   *)
(* thread per client (ClientConnectionThread.java), which share the seats, *)
(* the turn and the state of the game without a lock, except that          *)
(* ConnectPlayer and DisconnectPlayer exclude each other; and the program  *)
(* on each client's N64, as far as it decides what is sent (stage_lobby.c, *)
(* stage_game.c).                                                          *)
(*                                                                         *)
(* A client's thread connects once and makes one Player object, so a       *)
(* client stands for its Player object too.  Packets to the N64 wait in    *)
(* inbox, from the Player's queue to the N64's callbacks; the network is   *)
(* the UDP handlers' (module UDPHandler), here without loss, and in order. *)
(* Cursor packets and heartbeats do not reach the game and are left out.   *)
(*                                                                         *)
(* An environment says which clients there are, how often each presses the *)
(* ready button, and whether it is prompt: whatever the game thread does   *)
(* between two sleeps then takes no time, as does a disconnection, and     *)
(* nobody comes in the second before a game starts or while one is on; and *)
(* whether packets may be on their way for longer than the game thread     *)
(* sleeps.  Players leave, and N64s read their packets, when they do.      *)
(***************************************************************************)
EXTENDS UltimateBoard

CONSTANTS Clients, Environments

ASSUME GameRoomAssumption ==
    /\ NoOne \notin Clients
    /\ Environments \subseteq [clients: SUBSET Clients, toggles: Nat, prompt: BOOLEAN, delays: BOOLEAN]

Seats == 1..2

VARIABLES players,       \* players[i]: who has seat i
          state, turn, board, messages,   \* of the Game object
          pc, playerready, who, move,     \* of the game thread: its local variables
          client,        \* where each client's thread is
          number,        \* number[c]: the number of c's Player
          inbox,         \* inbox[c]: packets on their way to c's N64
          view,          \* view[c]: what c's N64 knows
          env, toggles,
          lastmover,     \* history: number of the player whose move was made last
          clean,         \* history: the last game started with nothing left of another one
          caught,        \* history: since both were ready, the game thread was not asleep in its
                         \* loop for the whole of a disconnection
          hasty          \* history: who has read packets of the last game before entering it

game    == <<state, turn, board, messages>>
thread  == <<pc, playerready, who, move>>
clients == <<client, number>>
n64     == <<view, toggles>>
history == <<lastmover, clean, caught, hasty>>
vars    == <<players, game, thread, clients, inbox, n64, env, history>>

\* A new N64: what stage_lobby_init and stage_game_init set, and what they do not.
\* (An N64 enters the lobby once it has its number; here it starts there.)
LobbyStage(v) == [v EXCEPT !.stage = "lobby", !.next = "none", !.isready = FALSE, !.starting = FALSE]
GameStage(v)  == [v EXCEPT !.stage = "game", !.next = "none", !.playing = TRUE, !.turn = 0,
                           !.forced = NoOne, !.taken = {}, !.complete = {}]
NoView == [stage |-> "lobby", next |-> "none", isready |-> FALSE, starting |-> FALSE, other |-> FALSE,
           playing |-> TRUE, turn |-> 0, forced |-> NoOne, taken |-> {}, complete |-> {}]

Init ==
    /\ players = [i \in Seats |-> NoOne]
    /\ state = "LOBBY" /\ turn = NoOne /\ board = EmptyBoard /\ messages = <<>>
    /\ pc = "top" /\ playerready = [i \in Seats |-> FALSE] /\ who = NoOne
    /\ move = <<NoOne, NoOne>>
    /\ client = [c \in Clients |-> "unconnected"]
    /\ number = [c \in Clients |-> 0]
    /\ inbox = [c \in Clients |-> <<>>]
    /\ view = [c \in Clients |-> NoView]
    /\ env \in Environments
    /\ toggles = [c \in Clients |-> 0]
    /\ lastmover = 0 /\ clean = TRUE /\ caught = FALSE /\ hasty = {}

Seated      == { players[i] : i \in Seats } \ {NoOne}
PlayerCount == Cardinality(Seated)
Full        == PlayerCount = 2

\* What is left of the inboxes when pkts are sent to every player in targets.
Told(targets, pkts) == [c \in Clients |-> IF c \in targets THEN inbox[c] \o pkts ELSE inbox[c]]

Packet(type, n, b, x) == [type |-> type, n |-> n, board |-> b, cell |-> x, state |-> ""]
Notice(type, n)       == Packet(type, n, NoOne, NoOne)

-----------------------------------------------------------------------------
(* The clients' threads *)

\* Where the game thread sleeps; in a prompt environment others act only then.
Sleeps == {"lobby", "starting", "loop", "ended"}
AtRest == env.prompt => pc \in Sleeps

\* A disconnection is on its way: DisconnectPlayer holds the lock.
Locked == \E c \in Clients : client[c] \in {"leaving", "clearing", "ending"}

\* Where the game thread relies on the two players: from both being ready to the end of
\* the game, but for its sleep in the loop, after which it looks at the state.
Exposed == {"full", "starting", "first", "announce", "assign", "print", "poll", "moved", "next"}

\* ConnectPlayer gives out the first free seat; the players are told of each
\* other.  (Without a free seat the client is told so, and may try again.)
Connect(c) ==
    /\ c \in env.clients /\ client[c] = "unconnected"
    /\ ~Locked
    /\ AtRest /\ (env.prompt => pc \notin {"starting", "loop"})
    /\ \E i \in Seats :
          /\ players[i] = NoOne /\ \A j \in 1..(i - 1) : players[j] # NoOne
          /\ players' = [players EXCEPT ![i] = c]
          /\ number' = [number EXCEPT ![c] = i]
          /\ inbox' = [d \in Clients |->
                IF d = c THEN [j \in 1..PlayerCount |-> Notice("INFO", 3 - i)]
                ELSE IF d \in Seated THEN Append(inbox[d], Notice("INFO", i)) ELSE inbox[d]]
    /\ client' = [client EXCEPT ![c] = "connected"]
    /\ UNCHANGED <<game, thread, n64, env, history>>

\* Mutant of Leave: whatever the state, the turn and the state are left alone.
LeaveQuietly(c) ==
    /\ client[c] = "connected"
    /\ ~Locked
    /\ AtRest
    /\ players' = [players EXCEPT ![number[c]] = NoOne]
    /\ client' = [client EXCEPT ![c] = "gone"]
    /\ inbox' = [Told(Seated, <<Notice("GONE", number[c])>>) EXCEPT ![c] = <<>>]
    /\ view' = [view EXCEPT ![c] = NoView]
    /\ toggles' = [toggles EXCEPT ![c] = 0]
    /\ caught' = (caught \/ pc \in Exposed)
    /\ UNCHANGED <<game, thread, number, env, lastmover, clean, hasty>>

\* Mutant of Leave: the seats are kept without gaps.
LeaveLastSeat(c) ==
    /\ client[c] = "connected"
    /\ ~Locked
    /\ AtRest
    /\ players' = [players EXCEPT ![PlayerCount] = NoOne]
    /\ client' = [client EXCEPT ![c] = "leaving"]
    /\ inbox' = [Told(Seated, <<Notice("GONE", number[c])>>) EXCEPT ![c] = <<>>]
    /\ view' = [view EXCEPT ![c] = NoView]
    /\ toggles' = [toggles EXCEPT ![c] = 0]
    /\ caught' = (caught \/ pc \in Exposed)
    /\ UNCHANGED <<game, thread, number, env, lastmover, clean, hasty>>

\* The client times out, or says something its thread does not expect.  The other
\* player is told, and DisconnectPlayer gives the seat back ...
Leave(c) ==
    /\ client[c] = "connected"
    /\ ~Locked
    /\ AtRest
    /\ players' = [players EXCEPT ![number[c]] = NoOne]
    /\ client' = [client EXCEPT ![c] = "leaving"]
    /\ inbox' = [Told(Seated, <<Notice("GONE", number[c])>>) EXCEPT ![c] = <<>>]
    /\ view' = [view EXCEPT ![c] = NoView]
    /\ toggles' = [toggles EXCEPT ![c] = 0]
    /\ caught' = (caught \/ pc \in Exposed)
    /\ UNCHANGED <<game, thread, number, env, lastmover, clean, hasty>>

\* ... looks at the state ...
LookAtState(c) ==
    /\ client[c] = "leaving"
    /\ client' = [client EXCEPT ![c] = IF state = "PLAYING" THEN "clearing" ELSE "gone"]
    /\ UNCHANGED <<players, game, thread, number, inbox, n64, env, history>>

\* ... and in a game makes the turn nobody's ...
ClearTurn(c) ==
    /\ client[c] = "clearing"
    /\ turn' = NoOne
    /\ client' = [client EXCEPT ![c] = "ending"]
    /\ UNCHANGED <<players, state, board, messages, thread, number, inbox, n64, env, history>>

\* Mutant of EndGame: the state is left alone.
EndGameLater(c) ==
    /\ client[c] = "ending"
    /\ client' = [client EXCEPT ![c] = "gone"]
    /\ UNCHANGED <<players, game, thread, number, inbox, n64, env, history>>

\* ... and the game has ended.
EndGame(c) ==
    /\ client[c] = "ending"
    /\ state' = "ENDED_DISCONNECT"
    /\ client' = [client EXCEPT ![c] = "gone"]
    /\ UNCHANGED <<players, turn, board, messages, thread, number, inbox, n64, env, history>>

\* Game.SendMessage, by the client's thread.
Post(c, type, b, x, r) ==
    messages' = Append(messages, [type |-> type, sender |-> number[c], board |-> b, cell |-> x,
                                  ready |-> r])

-----------------------------------------------------------------------------
(* The N64 of a client *)

\* The A button in the lobby, while both players are there.
ToggleReady(c) ==
    /\ client[c] = "connected"
    /\ view[c].stage = "lobby" /\ view[c].other /\ ~view[c].starting
    /\ toggles[c] < env.toggles /\ AtRest
    /\ toggles' = [toggles EXCEPT ![c] = @ + 1]
    /\ view' = [view EXCEPT ![c].isready = ~@]
    /\ Post(c, "READY", NoOne, NoOne, ~view[c].isready)
    /\ UNCHANGED <<players, state, turn, board, thread, clients, inbox, env, history>>

\* Mutant: the cursor is always put into the forced board.
CursorForced(v) == {v.forced}

\* Where the cursor can be: in the forced board, or else in one not completed.
Cursor(v) == IF v.forced # NoOne THEN {v.forced} ELSE Cells \ v.complete

\* The moves the N64 lets its user make.
Playable(v) == { m \in Cursor(v) \X Cells : m \notin v.taken }

MyTurn(c) == view[c].stage = "game" /\ view[c].playing /\ view[c].turn = number[c]

\* The A button in the game, in one's turn.
MakeMove(c) ==
    /\ client[c] = "connected"
    /\ MyTurn(c) /\ AtRest
    /\ \E m \in Playable(view[c]) :
          /\ view' = [view EXCEPT ![c].taken = @ \union {m}, ![c].turn = 0]
          /\ Post(c, "MOVE", m[1], m[2], FALSE)
    /\ UNCHANGED <<players, state, turn, board, thread, clients, inbox, toggles, env, history>>

\* The game state changed.  Another stage is entered later, by the main thread.
SeenState(v, s) ==
    IF v.stage = "lobby"
    THEN [v EXCEPT !.starting = @ \/ s = "READY", !.next = IF s = "PLAYING" THEN "game" ELSE @]
    ELSE IF s = "LOBBY"
    THEN [v EXCEPT !.playing = FALSE, !.next = "lobby"]
    ELSE [v EXCEPT !.playing = (s = "PLAYING"), !.turn = 0, !.forced = NoOne]

\* What the N64 knows after the callback for a packet.
Seen(v, p) ==
    CASE p.type = "STATE" -> SeenState(v, p.state)
      [] p.type = "TURN"  -> [v EXCEPT !.turn = p.n, !.forced = p.board]
      [] p.type = "MOVE"  -> [v EXCEPT !.taken = @ \union {<<p.board, p.cell>>}, !.turn = 0]
      [] p.type = "DONE"  -> [v EXCEPT !.complete = @ \union {p.board}]
      [] OTHER -> [v EXCEPT !.other = IF p.type = "TOGGLED" THEN @ ELSE p.type = "INFO",
                            !.isready = @ /\ v.stage # "lobby"]

\* The N64 polls and a callback runs: maybe another one of the same poll, before a
\* change of stage that an earlier one asked for.
Callback(c) ==
    /\ inbox[c] # <<>> /\ AtRest
    /\ hasty' = IF view[c].stage = "lobby" /\ Head(inbox[c]).type \in {"TURN", "MOVE", "DONE"}
                THEN hasty \union {c} ELSE hasty
    /\ view' = [view EXCEPT ![c] = Seen(@, Head(inbox[c]))]
    /\ inbox' = [inbox EXCEPT ![c] = Tail(@)]
    /\ UNCHANGED <<players, game, thread, clients, toggles, env, lastmover, clean, caught>>

\* The main thread enters the next stage, whose init function runs.
ChangeStage(c) ==
    /\ view[c].next # "none" /\ AtRest
    /\ view' = [view EXCEPT ![c] = IF @.next = "game" THEN GameStage(@) ELSE LobbyStage(@)]
    /\ UNCHANGED <<players, game, thread, clients, inbox, toggles, env, history>>

-----------------------------------------------------------------------------
(* The game thread *)

\* The game thread runs: in a prompt environment when no disconnection is half
\* done, and without delays when the packets it sent have been read.
Awake ==
    /\ env.prompt => ~Locked
    /\ ~env.delays /\ pc \in Sleeps => \A c \in Clients : inbox[c] = <<>> /\ view[c].next = "none"

State(s) == [type |-> "STATE", n |-> 0, board |-> NoOne, cell |-> NoOne, state |-> s]

\* ChangeGameState, and whoever is seated is told.
ChangeGameState(s) == state' = s /\ inbox' = Told(Seated, <<State(s)>>)

\* A new round: the players are not ready.
EnterLobby ==
    /\ pc = "top" /\ Awake
    /\ playerready' = [i \in Seats |-> FALSE]
    /\ ChangeGameState("LOBBY")
    /\ pc' = "lobby"
    /\ UNCHANGED <<players, turn, board, messages, who, move, clients, n64, env, history>>

\* Somebody is missing: nobody counts as ready.
WaitForPlayers ==
    /\ pc = "lobby" /\ Awake
    /\ ~Full
    /\ playerready' = [i \in Seats |-> FALSE]
    /\ UNCHANGED <<players, game, pc, who, move, clients, inbox, n64, env, history>>

\* A packet in a full lobby: a player's readiness changes and the other is told,
\* and the loop ends when both are ready.
HandleReady ==
    LET p     == Head(messages)
        ready == [playerready EXCEPT ![p.sender] = p.ready]
    IN  /\ pc = "lobby" /\ Awake
        /\ Full /\ messages # <<>>
        /\ messages' = Tail(messages)
        /\ IF p.type = "READY"
           THEN /\ playerready' = ready
                /\ inbox' = Told({players[3 - p.sender]} \ {NoOne}, <<Notice("TOGGLED", p.sender)>>)
                /\ pc' = IF \A i \in Seats : ready[i] THEN "full" ELSE pc
                /\ caught' = (caught /\ pc' # "full")
           ELSE UNCHANGED <<playerready, inbox, pc, caught>>
        /\ UNCHANGED <<players, state, turn, board, who, move, clients, n64, env,
                       lastmover, clean, hasty>>

\* Both are ready: a second to go.
GetReady ==
    /\ pc = "full" /\ Awake
    /\ ChangeGameState("READY")
    /\ pc' = "starting"
    /\ UNCHANGED <<players, turn, board, messages, playerready, who, move, clients, n64, env, history>>

\* What a game is made of: what the N64 takes for it, whichever game it is of.
OfGame(p) == p.type \in {"TURN", "MOVE", "DONE"} \/ p.state = "PLAYING"

\* Nothing of an earlier game is on its way, the players' N64s are in the lobby, and
\* both who were ready are still there.
CleanStart ==
    /\ ~caught
    /\ \A k \in DOMAIN messages : messages[k].type # "MOVE"
    /\ \A c \in Seated :
          /\ view[c].stage = "lobby" /\ view[c].next = "none"
          /\ \A k \in DOMAIN inbox[c] : ~OfGame(inbox[c][k])

\* The second is over.
StartGame ==
    /\ pc = "starting" /\ Awake
    /\ board' = EmptyBoard
    /\ ChangeGameState("PLAYING")
    /\ lastmover' = 0 /\ clean' = CleanStart /\ hasty' = {}
    /\ pc' = "first"
    /\ UNCHANGED <<players, turn, messages, playerready, who, move, clients, n64, env, caught>>

\* The turn goes to the first seat, unless it is somebody's already.
ChooseFirst ==
    /\ pc = "first" /\ Awake
    /\ turn' = IF turn = NoOne THEN players[1] ELSE turn
    /\ pc' = "announce"
    /\ UNCHANGED <<players, state, board, messages, playerready, who, move, clients, inbox, n64, env, history>>

\* ChangePlayerTurn up to its assignment; a null pointer ends the thread.
TellTurn(player) ==
    IF player = NoOne
    THEN /\ pc' = "dead"
         /\ UNCHANGED <<inbox, who>>
    ELSE /\ inbox' = Told(Seated, <<Packet("TURN", number[player], board.forced, NoOne)>>)
         /\ who' = player
         /\ pc' = "assign"

AnnounceFirst ==
    /\ pc = "announce" /\ Awake
    /\ TellTurn(turn)
    /\ UNCHANGED <<players, game, playerready, move, clients, n64, env, history>>

\* The assignment that ends ChangePlayerTurn, and the test for the end of the game.
AssignTurn ==
    /\ pc = "assign" /\ Awake
    /\ turn' = who /\ who' = NoOne
    /\ pc' = IF BoardFinished(board) THEN "over" ELSE "print"
    /\ UNCHANGED <<players, state, board, messages, playerready, move, clients, inbox, n64, env, history>>

\* The turn is printed: a null pointer if it was cleared meanwhile.
PrintTurn ==
    /\ pc = "print" /\ Awake
    /\ pc' = IF turn = NoOne THEN "dead" ELSE "loop"
    /\ UNCHANGED <<players, game, playerready, who, move, clients, inbox, n64, env, history>>

\* The condition of the game loop.
CheckState ==
    /\ pc = "loop" /\ Awake
    /\ pc' = IF state = "PLAYING" THEN "poll" ELSE "over"
    /\ caught' = (caught \/ Locked)
    /\ UNCHANGED <<players, game, playerready, who, move, clients, inbox, n64, env,
                   lastmover, clean, hasty>>

\* No packet: the thread sleeps.
NoPacket ==
    /\ pc = "poll" /\ Awake
    /\ messages = <<>>
    /\ pc' = "loop"
    /\ UNCHANGED <<players, game, playerready, who, move, clients, inbox, n64, env, history>>

\* A packet is taken: a move of the player whose turn it is is made or refused,
\* anything else thrown away.  Without a turn, a move ends the thread.
TakePacket ==
    LET p == Head(messages)
    IN  /\ pc = "poll" /\ Awake
        /\ messages # <<>>
        /\ messages' = Tail(messages)
        /\ IF p.type # "MOVE" \/ (turn # NoOne /\ p.sender # number[turn])
           THEN pc' = "loop" /\ UNCHANGED <<board, move, lastmover>>
           ELSE IF turn = NoOne
           THEN pc' = "dead" /\ UNCHANGED <<board, move, lastmover>>
           ELSE IF WasValid(board, p.board, p.cell)
           THEN /\ board' = Play(board, turn, p.board, p.cell)
                /\ move' = <<p.board, p.cell>>
                /\ lastmover' = p.sender
                /\ pc' = "moved"
           ELSE /\ board' = Refuse(board, p.board)
                /\ pc' = "loop"
                /\ UNCHANGED <<move, lastmover>>
    /\ UNCHANGED <<players, state, turn, playerready, who, clients, inbox, n64, env, clean, caught, hasty>>

\* NotifyMove to the other players, and NotifyBoardComplete to all.
NotifyMove ==
    LET told == Packet("MOVE", 0, move[1], move[2])
        done == IF Finished(board, move[1]) THEN <<Packet("DONE", 0, move[1], NoOne)>> ELSE <<>>
    IN  /\ pc = "moved" /\ Awake
        /\ move' = <<NoOne, NoOne>>
        /\ IF turn = NoOne
           THEN pc' = "dead" /\ inbox' = inbox
           ELSE /\ pc' = "next"
                /\ inbox' = [c \in Clients |->
                      IF c \notin Seated THEN inbox[c]
                      ELSE inbox[c] \o (IF c = turn THEN done ELSE <<told>> \o done)]
        /\ UNCHANGED <<players, game, playerready, who, clients, n64, env, history>>

\* The turn goes to the other seat: whoever was not in the first one plays next.
NextTurn ==
    /\ pc = "next" /\ Awake
    /\ TellTurn(IF turn = players[1] THEN players[2] ELSE players[1])
    /\ UNCHANGED <<players, game, playerready, move, clients, n64, env, history>>

\* Mutant of EndRound: without a winner it was a tie.
EndRoundTied ==
    /\ pc = "over" /\ Awake
    /\ ChangeGameState(
          IF board.winner # NoOne
          THEN IF board.winner = players[1] THEN "ENDED_WINNER_1" ELSE "ENDED_WINNER_2"
          ELSE "ENDED_TIE")
    /\ pc' = "ended"
    /\ UNCHANGED <<players, turn, board, messages, playerready, who, move, clients, n64, env, history>>

\* The result is announced and shown for some seconds.
EndRound ==
    /\ pc = "over" /\ Awake
    /\ ChangeGameState(
          IF board.winner # NoOne
          THEN IF board.winner = players[1] THEN "ENDED_WINNER_1" ELSE "ENDED_WINNER_2"
          ELSE IF ~Full THEN "ENDED_DISCONNECT" ELSE "ENDED_TIE")
    /\ pc' = "ended"
    /\ UNCHANGED <<players, turn, board, messages, playerready, who, move, clients, n64, env, history>>

\* The seconds are over.
StartOver ==
    /\ pc = "ended" /\ Awake
    /\ pc' = "top"
    /\ UNCHANGED <<players, game, playerready, who, move, clients, inbox, n64, env, history>>

-----------------------------------------------------------------------------

GameThread ==
    \/ EnterLobby \/ WaitForPlayers \/ HandleReady \/ GetReady \/ StartGame
    \/ ChooseFirst \/ AnnounceFirst \/ AssignTurn \/ PrintTurn
    \/ CheckState \/ NoPacket \/ TakePacket \/ NotifyMove \/ NextTurn
    \/ EndRound \/ StartOver

ClientThread(c) == LookAtState(c) \/ ClearTurn(c) \/ EndGame(c)
N64(c)          == Callback(c) \/ ChangeStage(c)
User(c)         == Connect(c) \/ Leave(c) \/ ToggleReady(c) \/ MakeMove(c)

Next ==
    \/ GameThread
    \/ \E c \in Clients : ClientThread(c) \/ N64(c) \/ User(c)

Spec == Init /\ [][Next]_vars

\* Threads run and packets arrive; users do as they please.
FairSpec ==
    /\ Spec
    /\ WF_vars(GameThread)
    /\ \A c \in Clients : WF_vars(ClientThread(c)) /\ WF_vars(N64(c))

-----------------------------------------------------------------------------
(* Properties *)

Anybody     == Clients \union {NoOne}
Anywhere    == Cells \union {NoOne}
Places      == SUBSET Cells
Plays       == SUBSET (Cells \X Cells)
SmallBoards == [moves: [Cells -> Anybody], winner: Anybody]
LargeBoards == [boards: [Cells -> SmallBoards], forced: Anywhere, winner: Anybody, movecount: Nat]

States == {"LOBBY", "READY", "PLAYING", "ENDED_WINNER_1", "ENDED_WINNER_2", "ENDED_TIE", "ENDED_DISCONNECT"}

Messages == [type: {"READY"}, sender: Seats, board: {NoOne}, cell: {NoOne}, ready: BOOLEAN]
              \union [type: {"MOVE"}, sender: Seats, board: Cells, cell: Cells, ready: {FALSE}]

Packets == [type: {"INFO", "GONE", "TOGGLED", "TURN", "STATE"}, n: 0..2,
            board: Anywhere, cell: {NoOne}, state: States \union {""}]
             \union [type: {"MOVE"}, n: {0}, board: Cells, cell: Cells, state: {""}]
             \union [type: {"DONE"}, n: {0}, board: Cells, cell: {NoOne}, state: {""}]

Views == [stage: {"lobby", "game"}, next: {"none", "lobby", "game"}, isready: BOOLEAN,
          starting: BOOLEAN, other: BOOLEAN, playing: BOOLEAN, turn: 0..2,
          forced: Anywhere, taken: Plays, complete: Places]

\* Types, and: a move is one in a cell of a board, in every message and packet (stage_game.c,
\* stage_game_update: the cursor is in a board that is not completed, or in the forced one).
TypeOK ==
    /\ players \in [Seats -> Anybody]
    /\ state \in States
    /\ turn \in Anybody
    /\ board \in LargeBoards
    /\ messages \in Seq(Messages)
    /\ pc \in {"top", "lobby", "full", "starting", "first", "announce", "assign", "print", "loop",
               "poll", "moved", "next", "over", "ended", "dead"}
    /\ playerready \in [Seats -> BOOLEAN]
    /\ who \in Anybody
    /\ move \in Anywhere \X Anywhere
    /\ client \in [Clients -> {"unconnected", "connected", "leaving", "clearing", "ending", "gone"}]
    /\ number \in [Clients -> 0..2]
    /\ inbox \in [Clients -> Seq(Packets)]
    /\ view \in [Clients -> Views]
    /\ env \in [clients: SUBSET Clients, toggles: Nat, prompt: BOOLEAN, delays: BOOLEAN]
    /\ toggles \in [Clients -> Nat]
    /\ lastmover \in 0..2 /\ clean \in BOOLEAN /\ caught \in BOOLEAN /\ hasty \subseteq Clients

\* A client is seated, under its own number, exactly while it is connected: no
\* seat is lost or shared, however clients come and go.
SeatsAreOwned ==
    \A c \in Clients :
        /\ client[c] = "connected" <=> c \in Seated
        /\ c \in Seated => players[number[c]] = c

\* Since the N64 lets its user only choose what can be played, the move count of
\* the large board is the number of boards that are finished: the game ends when
\* they all are.  (A move that was still in the queue when an earlier game ended is
\* played unknown to the N64 that sent it: Game.messages is never cleared, and of
\* the games that follow nothing is said here.)
CountsFinished == clean => board.movecount = Cardinality({ b \in Cells : Finished(board, b) })

\* In a prompt environment, once the packets have been read, the player whose
\* turn it is knows it, has a move to choose, and every choice is a valid move: unless
\* the N64 read that in the poll in which it was told of the start of the game (netlib.c:437
\* reads all that waits, and stage_game_init forgets it).  Nothing else makes a player wait.
TurnCanBePlayed ==
    (/\ env.prompt /\ clean /\ pc = "poll" /\ state = "PLAYING" /\ messages = <<>>
     /\ \A c \in Clients : inbox[c] = <<>> /\ view[c].next = "none")
      => /\ turn \in Seated \ hasty => MyTurn(turn) /\ Playable(view[turn]) # {}
         /\ \A c \in Seated \ hasty : MyTurn(c) =>
                \A m \in Playable(view[c]) : WasValid(board, m[1], m[2])

\* In every environment the game thread survives whoever comes and goes, in the lobby, in
\* its sleep in a game and after it: what ends it is a disconnection that overlaps with
\* the rest of its way from both being ready to the end of the game.
GameGoesOn == pc = "dead" => caught

\* In a prompt environment a game that is called a tie was played to the end.
TieIsComplete ==
    env.prompt /\ clean /\ state = "ENDED_TIE" => \A b \in Cells : Finished(board, b)

\* When a player leaves a game the other one gets back to the lobby, in every
\* environment and however the disconnection goes on beside the game thread, unless it
\* is caught with the game thread at work.
BackToLobby == state = "PLAYING" /\ ~Full ~> state = "LOBBY" \/ caught

\* "Notify all players that it's a different player's turn" (Game.java:290): the
\* moves of a game are made by the two seats in turn.
SeatsAlternate ==
    [][pc = "poll" /\ pc' = "moved" => lastmover' # lastmover]_vars
=============================================================================
