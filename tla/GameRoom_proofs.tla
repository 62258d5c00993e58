--------------------------- MODULE GameRoom_proofs ---------------------------
(***************************************************************************)
(* For any clients, boards and lines: who owns the seats of a room, in     *)
(* every environment, prompt or not; that a prompt one keeps the game      *)
(* thread alive; the types of all that is sent; and of the games of a      *)
(* prompt room that start clean, that the boards are counted as they       *)
(* finish, that a tie is a game played to its end, and that whoever has    *)
(* the turn can play, which rests on what the N64s know of the boards once *)
(* they have read what is on its way to them.                              *)
(***************************************************************************)
EXTENDS GameRoom, SequenceFacts, FiniteSetTheorems

\* What the seats depend on.
seating == <<players, client, number>>

Phases == {"unconnected", "connected", "leaving", "clearing", "ending", "gone"}

SeatTypes ==
    /\ players \in [Seats -> Clients \union {NoOne}]
    /\ client \in [Clients -> Phases]
    /\ number \in [Clients -> 0..2]

\* Seats and connected clients know each other: the converse of what a seat says of
\* its client is what makes it safe to give back a seat by its number.
Owned ==
    /\ \A i \in Seats : players[i] # NoOne =>
           client[players[i]] = "connected" /\ number[players[i]] = i
    /\ \A c \in Clients : client[c] = "connected" =>
           number[c] \in Seats /\ players[number[c]] = c

SeatInv == SeatTypes /\ Owned

\* The ways in which a step of c changes the seating: c takes a free seat, gives back
\* its own, or goes on with its disconnection.
Sits(c, i) ==
    /\ client[c] = "unconnected" /\ players[i] = NoOne
    /\ players' = [players EXCEPT ![i] = c]
    /\ number' = [number EXCEPT ![c] = i]
    /\ client' = [client EXCEPT ![c] = "connected"]

Leaves(c) ==
    /\ client[c] = "connected"
    /\ players' = [players EXCEPT ![number[c]] = NoOne]
    /\ client' = [client EXCEPT ![c] = "leaving"]
    /\ UNCHANGED number

Ends(c) ==
    /\ client[c] \in {"leaving", "clearing", "ending"}
    /\ \E p \in {"clearing", "ending", "gone"} : client' = [client EXCEPT ![c] = p]
    /\ UNCHANGED <<players, number>>

SeatStep(c) == (\E i \in Seats : Sits(c, i)) \/ Leaves(c) \/ Ends(c)

-----------------------------------------------------------------------------
(* Steps *)

\* A step of the room changes the seating of one client, or of nobody: the game thread
\* and the N64s leave it alone.
LEMMA SeatSteps ==
    ASSUME [Next]_vars
    PROVE  UNCHANGED seating \/ \E c \in Clients : SeatStep(c)
<1>1. CASE UNCHANGED vars
  BY <1>1 DEF vars, clients, seating
<1>2. CASE GameThread
  BY <1>2 DEF GameThread, EnterLobby, WaitForPlayers, HandleReady, GetReady, StartGame,
              ChooseFirst, AnnounceFirst, AssignTurn, PrintTurn, CheckState, NoPacket,
              TakePacket, NotifyMove, NextTurn, EndRound, StartOver, clients, seating
<1>3. ASSUME NEW c \in Clients, N64(c) \/ ToggleReady(c) \/ MakeMove(c)
      PROVE  UNCHANGED seating
  BY <1>3 DEF N64, Callback, ChangeStage, ToggleReady, MakeMove, clients, seating
<1>4. ASSUME NEW c \in Clients, ClientThread(c) PROVE SeatStep(c)
  BY <1>4 DEF ClientThread, LookAtState, ClearTurn, EndGame, SeatStep, Ends
<1>5. ASSUME NEW c \in Clients, Connect(c) PROVE SeatStep(c)
  BY <1>5 DEF Connect, SeatStep, Sits
<1>6. ASSUME NEW c \in Clients, Leave(c) PROVE SeatStep(c)
  BY <1>6 DEF Leave, SeatStep, Leaves
<1> QED
  BY <1>1, <1>2, <1>3, <1>4, <1>5, <1>6 DEF Next, User

\* The seating stays well typed.
LEMMA SeatTypesKept ==
    ASSUME SeatTypes, NEW c \in Clients, SeatStep(c)
    PROVE  SeatTypes'
<1>1. ASSUME NEW i \in Seats, Sits(c, i) PROVE SeatTypes'
  BY <1>1 DEF Sits, SeatTypes, Phases, Seats
<1>2. CASE Leaves(c)
  BY <1>2 DEF Leaves, SeatTypes, Phases
<1>3. CASE Ends(c)
  BY <1>3 DEF Ends, SeatTypes, Phases
<1> QED
  BY <1>1, <1>2, <1>3 DEF SeatStep

\* A client that takes a free seat: it had none, and the seat nobody.
LEMMA SittingKept ==
    ASSUME SeatInv, NEW c \in Clients, NEW i \in Seats, Sits(c, i)
    PROVE  Owned'
<1>1. NoOne \notin Clients
  BY GameRoomAssumption
<1>2. ASSUME NEW j \in Seats, players'[j] # NoOne
      PROVE  client'[players'[j]] = "connected" /\ number'[players'[j]] = j
  <2>1. CASE j = i
    BY <2>1 DEF Sits, SeatInv, SeatTypes
  <2>2. CASE j # i
    <3>1. players'[j] = players[j] /\ players[j] \in Clients \ {c}
      BY <1>2, <2>2 DEF Sits, SeatInv, SeatTypes, Owned
    <3> QED
      BY <1>2, <3>1 DEF Sits, SeatInv, SeatTypes, Owned
  <2> QED
    BY <2>1, <2>2
<1>3. ASSUME NEW d \in Clients, client'[d] = "connected"
      PROVE  number'[d] \in Seats /\ players'[number'[d]] = d
  <2>1. CASE d = c
    BY <2>1 DEF Sits, SeatInv, SeatTypes
  <2>2. CASE d # c
    <3>1. number'[d] = number[d] /\ client[d] = "connected"
      BY <1>3, <2>2 DEF Sits, SeatInv, SeatTypes
    <3>2. number[d] \in Seats /\ players[number[d]] = d /\ number[d] # i
      BY <1>1, <3>1 DEF Sits, SeatInv, Owned
    <3> QED
      BY <3>1, <3>2 DEF Sits, SeatInv, SeatTypes
  <2> QED
    BY <2>1, <2>2
<1> QED
  BY <1>2, <1>3 DEF Owned

\* A client that gives back the seat of its number: it was its own.
LEMMA LeavingKept ==
    ASSUME SeatInv, NEW c \in Clients, Leaves(c)
    PROVE  Owned'
<1>1. number[c] \in Seats /\ players[number[c]] = c
  BY DEF Leaves, SeatInv, Owned
<1>2. ASSUME NEW j \in Seats, players'[j] # NoOne
      PROVE  client'[players'[j]] = "connected" /\ number'[players'[j]] = j
  <2>1. j # number[c] /\ players'[j] = players[j]
    BY <1>1, <1>2 DEF Leaves, SeatInv, SeatTypes
  <2>2. players[j] \in Clients \ {c}
    BY <1>2, <2>1 DEF SeatInv, SeatTypes, Owned
  <2> QED
    BY <1>2, <2>1, <2>2 DEF Leaves, SeatInv, SeatTypes, Owned
<1>3. ASSUME NEW d \in Clients, client'[d] = "connected"
      PROVE  number'[d] \in Seats /\ players'[number'[d]] = d
  <2>1. d # c
    BY <1>3 DEF Leaves, SeatInv, SeatTypes
  <2>2. number'[d] = number[d] /\ client[d] = "connected"
    BY <1>3, <2>1 DEF Leaves, SeatInv, SeatTypes
  <2>3. number[d] \in Seats /\ players[number[d]] = d
    BY <2>2 DEF SeatInv, Owned
  <2> QED
    BY <1>1, <2>1, <2>2, <2>3 DEF Leaves, SeatInv, SeatTypes
<1> QED
  BY <1>2, <1>3 DEF Owned

\* A disconnection that goes on is nobody's who has a seat.
LEMMA EndingKept ==
    ASSUME SeatInv, NEW c \in Clients, Ends(c)
    PROVE  Owned'
<1>1. \A d \in Clients : client'[d] = "connected" <=> client[d] = "connected"
  BY DEF Ends, SeatInv, SeatTypes
<1>2. UNCHANGED <<players, number>>
  BY DEF Ends
<1> QED
  BY <1>1, <1>2 DEF SeatInv, SeatTypes, Owned

-----------------------------------------------------------------------------
(* The theorem *)

\* The invariant of the seats holds.
LEMMA SeatInvariant == Spec => []SeatInv
<1>1. Init => SeatInv
  BY DEF Init, SeatInv, SeatTypes, Owned, Phases
<1>2. SeatInv /\ [Next]_vars => SeatInv'
  <2> SUFFICES ASSUME SeatInv, [Next]_vars PROVE SeatInv'
    OBVIOUS
  <2>1. CASE UNCHANGED seating
    BY <2>1 DEF seating, SeatInv, SeatTypes, Owned
  <2>2. ASSUME NEW c \in Clients, SeatStep(c) PROVE SeatInv'
    BY <2>2, SeatTypesKept, SittingKept, LeavingKept, EndingKept DEF SeatInv, SeatStep
  <2> QED
    BY <2>1, <2>2, SeatSteps
<1> QED
  BY <1>1, <1>2, PTL DEF Spec

\* No seat is lost, shared or freed for somebody else, however ConnectPlayer,
\* DisconnectPlayer and the game thread interleave (Game.java:227).
THEOREM SeatsAreOwnedTheorem == Spec => []SeatsAreOwned
<1>1. SeatInv => SeatsAreOwned
  <2> SUFFICES ASSUME SeatInv, NEW c \in Clients
               PROVE  /\ client[c] = "connected" <=> c \in Seated
                      /\ c \in Seated => players[number[c]] = c
    BY DEF SeatsAreOwned
  <2>1. c # NoOne
    BY GameRoomAssumption
  <2>2. client[c] = "connected" => c \in Seated /\ players[number[c]] = c
    BY <2>1 DEF SeatInv, Owned, Seated
  <2>3. c \in Seated => client[c] = "connected"
    BY DEF SeatInv, Owned, Seated
  <2> QED
    BY <2>2, <2>3
<1> QED
  BY <1>1, SeatInvariant, PTL

-----------------------------------------------------------------------------
(* The game thread *)

\* In a game, from StartGame to the end of the loop, except where the thread sleeps.
InGame == {"first", "announce", "assign", "print", "poll", "moved", "next"}

BothSeated == \A i \in Seats : players[i] # NoOne

Disconnecting(c) == client[c] \in {"leaving", "clearing", "ending"}

\* One client at a time holds the lock of DisconnectPlayer, and none has come since it
\* gave its seat back.
OneAtATime ==
    /\ \A c, d \in Clients : Disconnecting(c) /\ Disconnecting(d) => c = d
    /\ Locked => ~BothSeated

\* While no disconnection has caught the game thread, there are two players wherever it
\* relies on them, and wherever the turn is used it is somebody's: a player who leaves a game
\* finds the game thread asleep in its loop, and it does not go on before the game has ended.
Safe ==
    /\ pc \in Exposed => BothSeated
    /\ pc = "loop" /\ ~Locked /\ state = "PLAYING" => BothSeated /\ turn # NoOne
    /\ pc \in {"announce", "print", "poll", "moved", "next"} => turn # NoOne
    /\ pc = "assign" => who # NoOne
    /\ pc # "dead"

\* What a prompt environment adds: disconnections fall into sleeps, so that none catches the
\* game thread in a game that started clean.
Prompt ==
    /\ pc \notin Sleeps => ~Locked
    /\ \A c \in Clients : client[c] \in {"clearing", "ending"} => pc = "loop" /\ state = "PLAYING"
    /\ state = "PLAYING" => pc \in InGame \union {"loop", "over", "dead"}
    /\ pc \in InGame => state = "PLAYING"
    /\ pc = "loop" /\ ~Locked /\ state # "PLAYING" => ~BothSeated
    /\ clean /\ pc \in InGame \union {"loop"} => ~caught

ThreadInv == OneAtATime /\ (~caught => Safe) /\ (env.prompt => Prompt)

\* What these depend on.
running == <<players, state, turn, pc, who, client, env, clean, caught>>

\* Two seats are taken if there are two players.
LEMMA FullSeats == Full => BothSeated
<1> SUFFICES ASSUME Full, NEW i \in Seats, players[i] = NoOne PROVE FALSE
  BY DEF BothSeated
<1>1. Seated \subseteq {players[3 - i]}
  BY DEF Seated, Seats
<1>2. IsFiniteSet({players[3 - i]}) /\ Cardinality({players[3 - i]}) = 1
  BY FS_Singleton
<1>3. Cardinality(Seated) <= 1
  BY <1>1, <1>2, FS_Subset
<1> QED
  BY <1>3 DEF Full, PlayerCount

\* A client comes.
LEMMA Comes ==
    ASSUME SeatInv, ThreadInv, NEW c \in Clients, Connect(c)
    PROVE  ThreadInv'
<1>1. UNCHANGED <<state, turn, pc, who, env, clean, caught>> /\ ~Locked
  BY DEF Connect, game, thread, history
<1>2. /\ client'[c] = "connected"
      /\ \A d \in Clients : d # c => client'[d] = client[d]
  BY DEF Connect, SeatInv, SeatTypes
<1>3. ~Locked'
  BY <1>1, <1>2 DEF Locked
<1>4. OneAtATime'
  BY <1>3 DEF OneAtATime, Disconnecting, Locked
<1>5. BothSeated => BothSeated'
  BY DEF Connect, BothSeated, SeatInv, SeatTypes, Seats
<1>6. ~caught => Safe'
  BY <1>1, <1>3, <1>5 DEF ThreadInv, Safe
<1>7. ASSUME env.prompt PROVE Prompt'
  <2>1. pc \in {"lobby", "ended"} /\ Prompt
    BY <1>7 DEF Connect, AtRest, Sleeps, ThreadInv
  <2>2. \A d \in Clients : client'[d] \notin {"clearing", "ending"}
    BY <1>3 DEF Locked
  <2> QED
    BY <1>1, <1>3, <2>1, <2>2 DEF Prompt, InGame, Sleeps
<1> QED
  BY <1>1, <1>4, <1>6, <1>7 DEF ThreadInv

\* A client goes.
LEMMA Goes ==
    ASSUME SeatInv, ThreadInv, NEW c \in Clients, Leave(c)
    PROVE  ThreadInv'
<1>1. /\ UNCHANGED <<state, turn, pc, who, env, clean>> /\ ~Locked
      /\ caught' = (caught \/ pc \in Exposed) /\ AtRest
  BY DEF Leave, game, thread
<1>2. /\ client'[c] = "leaving"
      /\ \A d \in Clients : d # c => client'[d] = client[d]
  BY DEF Leave, SeatInv, SeatTypes
<1>3. Locked' /\ \A d \in Clients : client'[d] \notin {"clearing", "ending"}
  BY <1>1, <1>2 DEF Locked
<1>4. number[c] \in Seats /\ players' = [players EXCEPT ![number[c]] = NoOne]
  BY DEF Leave, SeatInv, Owned
<1>5. ~BothSeated'
  BY <1>4 DEF BothSeated, SeatInv, SeatTypes
<1>6. OneAtATime'
  BY <1>1, <1>2, <1>5 DEF OneAtATime, Disconnecting, Locked
<1>7. ASSUME ~caught' PROVE Safe'
  <2>1. pc \notin Exposed /\ Safe
    BY <1>1, <1>7 DEF ThreadInv
  <2> QED
    BY <1>1, <1>3, <2>1 DEF Safe, Exposed
<1>8. ASSUME env.prompt PROVE Prompt'
  <2>1. pc \in Sleeps /\ Prompt
    BY <1>1, <1>8 DEF AtRest, ThreadInv
  <2> QED
    BY <1>1, <1>3, <1>5, <2>1 DEF Prompt, InGame, Sleeps, Exposed
<1> QED
  BY <1>1, <1>6, <1>7, <1>8 DEF ThreadInv

\* A disconnection goes on.
LEMMA GoesOn ==
    ASSUME SeatInv, ThreadInv, NEW c \in Clients, ClientThread(c)
    PROVE  ThreadInv'
<1>1. UNCHANGED <<players, pc, who, env, clean, caught>> /\ Disconnecting(c) /\ Locked
  BY DEF ClientThread, LookAtState, ClearTurn, EndGame, thread, history, Disconnecting, Locked
<1>2. /\ \A d \in Clients : d # c => client'[d] = client[d]
      /\ client'[c] \in {"clearing", "ending", "gone"}
  BY DEF ClientThread, LookAtState, ClearTurn, EndGame, SeatInv, SeatTypes
<1>3. \A d \in Clients : d # c => ~Disconnecting(d)
  BY <1>1 DEF ThreadInv, OneAtATime
<1>4. \A d \in Clients : d # c => client'[d] \notin {"leaving", "clearing", "ending"}
  BY <1>2, <1>3 DEF Disconnecting
<1>5. ~BothSeated /\ ~BothSeated'
  BY <1>1 DEF ThreadInv, OneAtATime, BothSeated
<1>6. OneAtATime'
  BY <1>4, <1>5 DEF OneAtATime, Disconnecting
<1>7. CASE LookAtState(c)
  <2>1. UNCHANGED <<state, turn>> /\ client'[c] = IF state = "PLAYING" THEN "clearing" ELSE "gone"
    BY <1>7 DEF LookAtState, game, SeatInv, SeatTypes
  <2>2. state = "PLAYING" => Locked'
    BY <2>1 DEF Locked
  <2>3. ~caught => Safe'
    BY <1>1, <1>5, <2>1, <2>2 DEF ThreadInv, Safe
  <2>4. ASSUME env.prompt PROVE Prompt'
    <3>1. Prompt /\ pc \in Sleeps
      BY <1>1, <2>4 DEF ThreadInv, Prompt
    <3>2. state = "PLAYING" => pc = "loop"
      BY <3>1 DEF Prompt, InGame, Sleeps
    <3>3. \A d \in Clients : client'[d] \in {"clearing", "ending"} => pc = "loop" /\ state = "PLAYING"
      BY <1>4, <2>1, <3>2
    <3> QED
      BY <1>1, <1>5, <2>1, <3>1, <3>3 DEF Prompt
  <2> QED
    BY <1>1, <1>6, <2>3, <2>4 DEF ThreadInv
<1>8. CASE ClearTurn(c)
  <2>1. client'[c] = "ending" /\ state' = state /\ client[c] = "clearing"
    BY <1>8 DEF ClearTurn, SeatInv, SeatTypes
  <2>2. Locked'
    BY <2>1 DEF Locked
  <2>3. ~caught => Safe'
    BY <1>1, <1>5, <2>1, <2>2 DEF ThreadInv, Safe, Exposed
  <2>4. ASSUME env.prompt PROVE Prompt'
    <3>1. Prompt /\ pc = "loop" /\ state = "PLAYING"
      BY <2>1, <2>4 DEF ThreadInv, Prompt
    <3> QED
      BY <1>1, <1>5, <2>1, <2>2, <3>1 DEF Prompt, InGame, Sleeps
  <2> QED
    BY <1>1, <1>6, <2>3, <2>4 DEF ThreadInv
<1>9. CASE EndGame(c)
  <2>1. client'[c] = "gone" /\ state' = "ENDED_DISCONNECT" /\ turn' = turn /\ client[c] = "ending"
    BY <1>9 DEF EndGame, SeatInv, SeatTypes
  <2>2. ~Locked'
    BY <1>4, <2>1 DEF Locked
  <2>3. ~caught => Safe'
    BY <1>1, <1>5, <2>1 DEF ThreadInv, Safe
  <2>4. ASSUME env.prompt PROVE Prompt'
    <3>1. Prompt /\ pc = "loop"
      BY <2>1, <2>4 DEF ThreadInv, Prompt
    <3>2. \A d \in Clients : client'[d] \notin {"clearing", "ending"}
      BY <1>4, <2>1
    <3> QED
      BY <1>1, <1>5, <2>1, <2>2, <3>1, <3>2 DEF Prompt, InGame, Sleeps
  <2> QED
    BY <1>1, <1>6, <2>3, <2>4 DEF ThreadInv
<1> QED
  BY <1>7, <1>8, <1>9 DEF ClientThread

\* The game thread goes on: what it relies on stays true ...
LEMMA ThreadIsSafe ==
    ASSUME SeatInv, ThreadInv, GameThread, ~caught'
    PROVE  Safe'
<1>1. UNCHANGED <<players, client>>
  BY DEF GameThread, EnterLobby, WaitForPlayers, HandleReady, GetReady, StartGame, ChooseFirst,
         AnnounceFirst, AssignTurn, PrintTurn, CheckState, NoPacket, TakePacket, NotifyMove,
         NextTurn, EndRound, StartOver, clients
<1>2. (BothSeated' <=> BothSeated) /\ (Locked' <=> Locked) /\ (Locked => ~BothSeated)
  BY <1>1 DEF BothSeated, Locked, ThreadInv, OneAtATime
<1>3. CASE EnterLobby \/ WaitForPlayers \/ StartOver \/ EndRound
  <2>1. pc' \in {"lobby", "top", "ended"}
    BY <1>3 DEF EnterLobby, WaitForPlayers, StartOver, EndRound
  <2> QED
    BY <2>1 DEF Safe, Exposed
<1>4. CASE HandleReady
  <2>1. pc' = "lobby" \/ (pc' = "full" /\ Full)
    BY <1>4 DEF HandleReady
  <2> QED
    BY <1>2, <2>1, FullSeats DEF Safe, Exposed
<1>5. ASSUME ~HandleReady PROVE Safe
  <2>1. caught => caught'
    BY <1>5 DEF GameThread, EnterLobby, WaitForPlayers, GetReady, StartGame, ChooseFirst,
           AnnounceFirst, AssignTurn, PrintTurn, CheckState, NoPacket, TakePacket, NotifyMove,
           NextTurn, EndRound, StartOver, history
  <2> QED
    BY <2>1 DEF ThreadInv
<1>6. CASE GetReady \/ StartGame
  <2>1. pc \in Exposed /\ pc' \in {"starting", "first"} /\ Safe
    BY <1>5, <1>6 DEF GetReady, StartGame, HandleReady, Exposed
  <2> QED
    BY <1>2, <2>1 DEF Safe, Exposed
<1>7. CASE ChooseFirst
  <2>1. pc = "first" /\ pc' = "announce" /\ Safe
    BY <1>5, <1>7 DEF ChooseFirst, HandleReady
  <2>2. turn' # NoOne
    BY <1>7, <2>1 DEF ChooseFirst, Safe, Exposed, BothSeated, Seats
  <2> QED
    BY <1>2, <2>1, <2>2 DEF Safe, Exposed
<1>8. CASE AnnounceFirst \/ NextTurn
  <2>1. pc \in {"announce", "next"} /\ Safe
    BY <1>5, <1>8 DEF AnnounceFirst, NextTurn, HandleReady
  <2>2. PICK player : player # NoOne /\ TellTurn(player)
    BY <1>8, <2>1 DEF AnnounceFirst, NextTurn, Safe, Exposed, BothSeated, Seats
  <2>3. pc' = "assign" /\ who' # NoOne
    BY <2>2 DEF TellTurn
  <2> QED
    BY <1>2, <2>1, <2>3 DEF Safe, Exposed
<1>9. CASE AssignTurn
  <2>1. pc = "assign" /\ Safe
    BY <1>5, <1>9 DEF AssignTurn, HandleReady
  <2>2. turn' # NoOne /\ pc' \in {"over", "print"}
    BY <1>9, <2>1 DEF AssignTurn, Safe
  <2> QED
    BY <1>2, <2>1, <2>2 DEF Safe, Exposed
<1>10. CASE PrintTurn \/ NoPacket \/ TakePacket \/ NotifyMove
  <2>1. pc \in {"print", "poll", "moved"} /\ turn' = turn /\ state' = state /\ Safe
    BY <1>5, <1>10 DEF PrintTurn, NoPacket, TakePacket, NotifyMove, game, HandleReady
  <2>2. turn # NoOne
    BY <2>1 DEF Safe
  <2>3. pc' \in {"loop", "moved", "next"}
    BY <1>10, <2>2 DEF PrintTurn, NoPacket, TakePacket, NotifyMove
  <2> QED
    BY <1>2, <2>1, <2>2, <2>3 DEF Safe, Exposed
<1>11. CASE CheckState
  <2>1. ~Locked
    <3>1. caught' = (caught \/ Locked)
      BY <1>11 DEF CheckState
    <3> QED
      BY <3>1, Zenon
  <2>2. Safe
    BY <1>5, <1>11 DEF CheckState, HandleReady
  <2>3. /\ pc = "loop" /\ UNCHANGED <<state, turn>>
        /\ pc' = IF state = "PLAYING" THEN "poll" ELSE "over"
    BY <1>11 DEF CheckState, game
  <2> QED
    BY <1>2, <2>1, <2>2, <2>3 DEF Safe, Exposed
<1> QED
  BY <1>3, <1>4, <1>6, <1>7, <1>8, <1>9, <1>10, <1>11 DEF GameThread

\* ... and what a prompt environment adds.
LEMMA ThreadIsPrompt ==
    ASSUME SeatInv, ThreadInv, GameThread, env.prompt
    PROVE  Prompt'
<1>1. UNCHANGED <<players, client>> /\ Awake
  BY DEF GameThread, EnterLobby, WaitForPlayers, HandleReady, GetReady, StartGame, ChooseFirst,
         AnnounceFirst, AssignTurn, PrintTurn, CheckState, NoPacket, TakePacket, NotifyMove,
         NextTurn, EndRound, StartOver, clients
<1>2. (BothSeated' <=> BothSeated) /\ Prompt /\ ~Locked /\ ~Locked'
  BY <1>1 DEF BothSeated, Locked, ThreadInv, Awake
<1>3. \A c \in Clients : client'[c] \notin {"clearing", "ending"}
  BY <1>2 DEF Locked
<1>4. CASE EnterLobby \/ WaitForPlayers \/ HandleReady \/ GetReady \/ EndRound \/ StartOver
  <2>1. /\ pc \in {"top", "lobby", "full", "over", "ended"}
        /\ pc' \in {"top", "lobby", "full", "starting", "ended"}
        /\ state' # "PLAYING" \/ (state' = state /\ pc # "over")
    BY <1>4 DEF EnterLobby, WaitForPlayers, HandleReady, GetReady, EndRound, StartOver,
                ChangeGameState, game
  <2> QED
    BY <1>2, <1>3, <2>1 DEF Prompt, InGame
<1>5. CASE StartGame
  <2>1. pc' = "first" /\ state' = "PLAYING" /\ (clean' => ~caught')
    BY <1>5 DEF StartGame, ChangeGameState, CleanStart
  <2> QED
    BY <1>2, <1>3, <2>1 DEF Prompt, InGame
<1>6. CASE \/ ChooseFirst \/ AnnounceFirst \/ AssignTurn \/ PrintTurn
           \/ NoPacket \/ TakePacket \/ NotifyMove \/ NextTurn
  <2>1. UNCHANGED <<state, clean, caught>> /\ pc \in InGame
    BY <1>6 DEF ChooseFirst, AnnounceFirst, AssignTurn, PrintTurn, NoPacket, TakePacket, NotifyMove,
                NextTurn, game, history, InGame
  <2>2. pc' \in InGame \union {"loop", "over", "dead"}
    BY <1>6 DEF ChooseFirst, AnnounceFirst, AssignTurn, PrintTurn, NoPacket, TakePacket, NotifyMove,
                NextTurn, TellTurn, InGame
  <2> QED
    BY <1>2, <1>3, <2>1, <2>2 DEF Prompt, InGame
<1>7. CASE CheckState
  <2>1. /\ pc = "loop" /\ UNCHANGED <<state, clean>> /\ caught' = (caught \/ Locked)
        /\ pc' = IF state = "PLAYING" THEN "poll" ELSE "over"
    BY <1>7 DEF CheckState, game
  <2> QED
    BY <1>2, <1>3, <2>1 DEF Prompt, InGame
<1> QED
  BY <1>4, <1>5, <1>6, <1>7 DEF GameThread

LEMMA ThreadGoesOn ==
    ASSUME SeatInv, ThreadInv, GameThread
    PROVE  ThreadInv'
<1>1. UNCHANGED <<players, client, env>>
  BY DEF GameThread, EnterLobby, WaitForPlayers, HandleReady, GetReady, StartGame, ChooseFirst,
         AnnounceFirst, AssignTurn, PrintTurn, CheckState, NoPacket, TakePacket, NotifyMove,
         NextTurn, EndRound, StartOver, clients
<1>2. OneAtATime'
  BY <1>1 DEF ThreadInv, OneAtATime, Disconnecting, Locked, BothSeated
<1> QED
  BY <1>1, <1>2, ThreadIsSafe, ThreadIsPrompt DEF ThreadInv

\* Whatever happens, the game thread survives.
LEMMA ThreadStep == SeatInv /\ ThreadInv /\ [Next]_vars => ThreadInv'
<1> SUFFICES ASSUME SeatInv, ThreadInv, [Next]_vars PROVE ThreadInv'
  OBVIOUS
<1>1. ASSUME UNCHANGED running PROVE ThreadInv'
  BY <1>1 DEF running, ThreadInv, OneAtATime, Disconnecting, Safe, Prompt, Locked, BothSeated
<1>2. CASE UNCHANGED vars
  BY <1>1, <1>2 DEF vars, game, thread, clients, history, running
<1>3. ASSUME NEW c \in Clients, N64(c) \/ ToggleReady(c) \/ MakeMove(c) PROVE ThreadInv'
  <2>1. UNCHANGED running
    BY <1>3 DEF N64, Callback, ChangeStage, ToggleReady, MakeMove, game, thread, clients, history, running
  <2> QED
    BY <1>1, <2>1
<1> QED
  BY <1>2, <1>3, ThreadGoesOn, GoesOn, Comes, Goes DEF Next, User

LEMMA ThreadInvariant == Spec => []ThreadInv
<1>1. Init => ThreadInv
  BY DEF Init, ThreadInv, OneAtATime, Disconnecting, Safe, Prompt, Locked, InGame, Exposed, Sleeps
<1> QED
  BY <1>1, ThreadStep, SeatInvariant, PTL DEF Spec

\* In every environment the game thread survives whoever comes and goes, but for a
\* disconnection that catches it between both being ready and the end of the game, outside
\* its sleep in the loop (Game.java:64).
THEOREM GameGoesOnTheorem == Spec => []GameGoesOn
<1>1. ThreadInv => GameGoesOn
  BY DEF ThreadInv, Safe, GameGoesOn
<1> QED
  BY <1>1, ThreadInvariant, PTL

-----------------------------------------------------------------------------
(* Types *)

\* A move that was made is in a cell of a board until it is told.
TypeInv ==
    /\ TypeOK
    /\ SeatInv
    /\ pc = "moved" => move \in Cells \X Cells

\* Cells, and sets of them.
LEMMA ViewFacts ==
    /\ NoOne \in Anywhere /\ Cells \subseteq Anywhere
    /\ {} \in Plays /\ {} \in Places
    /\ \A t \in Plays, m \in Cells \X Cells : t \union {m} \in Plays
    /\ \A t \in Places, b \in Cells : t \union {b} \in Places
    /\ 0 \in 0..2
BY DEF Anywhere, Plays, Places

\* Who wins is a player, or nobody.
LEMMA WinnerTypes ==
    ASSUME NEW owner \in [Cells -> Anybody], NEW before \in Anybody
    PROVE  WinnerOf(owner, before) \in Anybody
<1> DEFINE Complete(i) == \E x \in Lines[i] : owner[x] # NoOne /\ \A y \in Lines[i] : owner[y] = owner[x]
           first == { i \in DOMAIN Lines : Complete(i) /\ \A j \in 1..(i - 1) : ~Complete(j) }
           n     == CHOOSE i \in first : TRUE
           line  == Lines[n]
<1>1. WinnerOf(owner, before) = IF first = {} THEN before ELSE owner[CHOOSE x \in line : TRUE]
  BY DEF WinnerOf
<1>2. ASSUME first # {} PROVE owner[CHOOSE x \in line : TRUE] \in Anybody
  <2>1. n \in first
    BY <1>2
  <2>2. n \in DOMAIN Lines
    BY <2>1
  <2>3. line \in (SUBSET Cells) \ {{}}
    <3> HIDE DEF n
    <3> QED
      BY <2>2, UltimateBoardAssumption
  <2>4. (CHOOSE x \in line : TRUE) \in Cells
    <3>1. \E x \in line : x \in Cells
      BY <2>3
    <3>2. (CHOOSE x \in line : TRUE) \in line
      BY <3>1
    <3> HIDE DEF line
    <3> QED
      BY <2>3, <3>2
  <2> QED
    BY <2>4
<1> QED
  BY <1>1, <1>2

\* Boards stay boards.
LEMMA PlayTypes ==
    ASSUME NEW b \in LargeBoards, NEW p \in Anybody, NEW m \in Cells, NEW x \in Cells
    PROVE  Play(b, p, m, x) \in LargeBoards /\ Refuse(b, m) \in LargeBoards
<1> DEFINE small  == PlaySmall(b.boards[m], p, x)
           boards == [b.boards EXCEPT ![m] = small]
           owners == [c \in Cells |-> boards[c].winner]
<1>1. small \in SmallBoards
  <2>1. [b.boards[m].moves EXCEPT ![x] = p] \in [Cells -> Anybody] /\ b.boards[m].winner \in Anybody
    BY DEF LargeBoards, SmallBoards
  <2> QED
    BY <2>1, WinnerTypes DEF PlaySmall, SmallBoards
<1>2. boards \in [Cells -> SmallBoards]
  BY <1>1 DEF LargeBoards
<1>3. owners \in [Cells -> Anybody] /\ b.winner \in Anybody
  BY <1>2 DEF SmallBoards, LargeBoards
<1>4. WinnerOf(owners, b.winner) \in Anybody
  BY <1>3, WinnerTypes
<1>5. Play(b, p, m, x) = [boards |-> boards, forced |-> IF SmallFinished(boards[x]) THEN NoOne ELSE x,
                          winner |-> WinnerOf(owners, b.winner),
                          movecount |-> b.movecount + (IF SmallFinished(boards[m]) THEN 1 ELSE 0)]
  BY DEF Play
<1>6. b.movecount + (IF SmallFinished(boards[m]) THEN 1 ELSE 0) \in Nat
  BY DEF LargeBoards
<1>7. Play(b, p, m, x) \in LargeBoards
  <2> HIDE DEF small, boards, owners
  <2> QED
    BY <1>2, <1>4, <1>5, <1>6, ViewFacts DEF LargeBoards
<1>8. Refuse(b, m) \in LargeBoards
  BY DEF Refuse, LargeBoards
<1> QED
  BY <1>7, <1>8

\* What a callback and a change of stage leave.
LEMMA SeenStateTypes ==
    ASSUME NEW v \in Views, NEW s
    PROVE  SeenState(v, s) \in Views
<1>1. CASE v.stage = "lobby"
  BY <1>1 DEF SeenState, Views
<1>2. CASE v.stage # "lobby" /\ s = "LOBBY"
  BY <1>2 DEF SeenState, Views
<1>3. CASE v.stage # "lobby" /\ s # "LOBBY"
  BY <1>3, ViewFacts DEF SeenState, Views
<1> QED
  BY <1>1, <1>2, <1>3

LEMMA SeenTypes ==
    ASSUME NEW v \in Views, NEW p \in Packets
    PROVE  Seen(v, p) \in Views
<1>1. CASE p.type = "STATE"
  BY <1>1, SeenStateTypes DEF Seen
<1>2. CASE p.type = "TURN"
  <2>1. p.n \in 0..2 /\ p.board \in Anywhere
    BY <1>2 DEF Packets
  <2> QED
    BY <1>2, <2>1 DEF Seen, Views
<1>3. CASE p.type = "MOVE"
  <2>1. p.board \in Cells /\ p.cell \in Cells
    BY <1>3 DEF Packets
  <2>2. PICK t \in Plays : t = v.taken \union {<<p.board, p.cell>>}
    BY <2>1, ViewFacts DEF Views
  <2>3. [v EXCEPT !.taken = t, !.turn = 0] \in Views
    BY 0 \in 0..2 DEF Views
  <2> QED
    BY <1>3, <2>2, <2>3 DEF Seen
<1>4. CASE p.type = "DONE"
  <2>1. p.board \in Cells
    BY <1>4 DEF Packets
  <2>2. v.complete \union {p.board} \in Places
    BY <2>1, ViewFacts DEF Views
  <2> QED
    BY <1>4, <2>2 DEF Seen, Views
<1>5. CASE p.type \notin {"STATE", "TURN", "MOVE", "DONE"}
  <2>1. /\ (v.isready /\ v.stage # "lobby") \in BOOLEAN
        /\ (IF p.type = "TOGGLED" THEN v.other ELSE p.type = "INFO") \in BOOLEAN
    BY DEF Views
  <2> QED
    BY <1>5, <2>1 DEF Seen, Views
<1> QED
  BY <1>1, <1>2, <1>3, <1>4, <1>5

LEMMA StageTypes ==
    ASSUME NEW v \in Views
    PROVE  GameStage(v) \in Views /\ LobbyStage(v) \in Views /\ NoView \in Views
<1>1. LobbyStage(v) \in Views
  BY DEF LobbyStage, Views
<1>2. GameStage(v) \in Views
  BY ViewFacts DEF GameStage, Views
<1>3. NoView \in Views
  BY ViewFacts DEF NoView, Views
<1> QED
  BY <1>1, <1>2, <1>3

\* Packets that are sent are packets.
LEMMA ToldTypes ==
    ASSUME inbox \in [Clients -> Seq(Packets)], NEW targets, NEW pkts \in Seq(Packets)
    PROVE  Told(targets, pkts) \in [Clients -> Seq(Packets)]
BY DEF Told

LEMMA PacketTypes ==
    ASSUME NEW n \in 0..2
    PROVE  /\ \A s \in States : State(s) \in Packets
           /\ \A t \in {"INFO", "GONE", "TOGGLED"} : Notice(t, n) \in Packets
           /\ \A b \in Anywhere : Packet("TURN", n, b, NoOne) \in Packets
           /\ \A b, x \in Cells : /\ Packet("MOVE", 0, b, x) \in Packets
                                  /\ Packet("DONE", 0, b, NoOne) \in Packets
<1>1. ASSUME NEW s \in States PROVE State(s) \in Packets
  <2>1. s \in States \union {""}
    BY <1>1, Zenon
  <2> QED
    BY <2>1, ViewFacts DEF State, Packets
<1>2. ASSUME NEW t \in {"INFO", "GONE", "TOGGLED"} PROVE Notice(t, n) \in Packets
  BY <1>2, ViewFacts DEF Notice, Packet, Packets
<1>3. ASSUME NEW b \in Anywhere PROVE Packet("TURN", n, b, NoOne) \in Packets
  BY <1>3 DEF Packet, Packets
<1>4. ASSUME NEW b \in Cells, NEW x \in Cells
      PROVE  Packet("MOVE", 0, b, x) \in Packets /\ Packet("DONE", 0, b, NoOne) \in Packets
  BY <1>4, ViewFacts DEF Packet, Packets
<1> QED
  BY <1>1, <1>2, <1>3, <1>4

LEMMA ChangeTypes ==
    ASSUME TypeOK, NEW s \in States, ChangeGameState(s)
    PROVE  state' \in States /\ inbox' \in [Clients -> Seq(Packets)]
<1>1. <<State(s)>> \in Seq(Packets)
  BY PacketTypes
<1>2. inbox' = Told(Seated, <<State(s)>>)
  BY DEF ChangeGameState
<1>3. inbox' \in [Clients -> Seq(Packets)]
  BY <1>1, <1>2, ToldTypes DEF TypeOK
<1> QED
  BY <1>3 DEF ChangeGameState

\* A client comes, goes, or goes on with going.
LEMMA SeatingTypes ==
    ASSUME TypeInv, NEW c \in Clients, Connect(c) \/ Leave(c) \/ ClientThread(c)
    PROVE  TypeOK'
<1>1. /\ UNCHANGED <<board, messages, thread, env, lastmover, clean, hasty>>
      /\ caught' \in BOOLEAN
  BY DEF Connect, Leave, ClientThread, LookAtState, ClearTurn, EndGame, game, history, TypeInv, TypeOK
<1>2. CASE Connect(c)
  <2>1. PICK i \in Seats :
           /\ players' = [players EXCEPT ![i] = c]
           /\ number' = [number EXCEPT ![c] = i]
           /\ inbox' = [d \in Clients |->
                IF d = c THEN [j \in 1..PlayerCount |-> Notice("INFO", 3 - i)]
                ELSE IF d \in Seated THEN Append(inbox[d], Notice("INFO", i)) ELSE inbox[d]]
    BY <1>2 DEF Connect
  <2>2. PlayerCount \in Nat
    <3>1. Seated \subseteq {players[1], players[2]}
      BY DEF Seated, Seats
    <3>2. IsFiniteSet({players[1]} \union {players[2]})
      BY FS_Singleton, FS_Union
    <3>3. IsFiniteSet(Seated)
      BY <3>1, <3>2, FS_Subset
    <3> QED
      BY <3>3, FS_CardinalityType DEF PlayerCount
  <2>3. Notice("INFO", 3 - i) \in Packets /\ Notice("INFO", i) \in Packets
    BY PacketTypes DEF Seats
  <2>4. [j \in 1..PlayerCount |-> Notice("INFO", 3 - i)] \in Seq(Packets)
    BY <2>2, <2>3
  <2>5. inbox' \in [Clients -> Seq(Packets)]
    BY <2>1, <2>3, <2>4 DEF TypeInv, TypeOK
  <2>6. players' \in [Seats -> Anybody] /\ number' \in [Clients -> 0..2]
    BY <2>1 DEF TypeInv, TypeOK, Seats, Anybody
  <2>7. client' = [client EXCEPT ![c] = "connected"] /\ UNCHANGED <<state, turn, view, toggles>>
    BY <1>2 DEF Connect, game, n64
  <2> QED
    BY <1>1, <2>5, <2>6, <2>7 DEF TypeInv, TypeOK, thread, history
<1>3. CASE Leave(c)
  <2>1. <<Notice("GONE", number[c])>> \in Seq(Packets)
    <3>1. number[c] \in 0..2
      BY DEF TypeInv, TypeOK
    <3>2. Notice("GONE", number[c]) \in Packets
      BY <3>1, PacketTypes
    <3> QED
      BY <3>2
  <2>2. Told(Seated, <<Notice("GONE", number[c])>>) \in [Clients -> Seq(Packets)]
    BY <2>1, ToldTypes DEF TypeInv, TypeOK
  <2>3. inbox' \in [Clients -> Seq(Packets)]
    BY <1>3, <2>2 DEF Leave
  <2>4. view' \in [Clients -> Views] /\ toggles' \in [Clients -> Nat]
    BY <1>3, StageTypes DEF Leave, TypeInv, TypeOK
  <2>5. UNCHANGED <<state, turn, number>> /\ players' \in [Seats -> Anybody]
        /\ client' \in [Clients -> Phases]
    BY <1>3 DEF Leave, game, TypeInv, TypeOK, Anybody, Phases
  <2> QED
    BY <1>1, <2>3, <2>4, <2>5 DEF TypeInv, TypeOK, thread, history, Phases
<1>4. CASE ClientThread(c)
  <2>1. UNCHANGED <<players, number, inbox, n64>> /\ client' \in [Clients -> Phases]
    BY <1>4 DEF ClientThread, LookAtState, ClearTurn, EndGame, TypeInv, TypeOK, Phases
  <2>2. turn' \in Anybody /\ state' \in States
    BY <1>4 DEF ClientThread, LookAtState, ClearTurn, EndGame, game, TypeInv, TypeOK, Anybody, States
  <2> QED
    BY <1>1, <2>1, <2>2 DEF TypeInv, TypeOK, thread, history, n64, Phases
<1> QED
  BY <1>2, <1>3, <1>4

\* A client's N64 reads a packet, enters a stage, or sends what its user does: its client
\* has a number then.
LEMMA N64Types ==
    ASSUME TypeInv, NEW c \in Clients, N64(c) \/ ToggleReady(c) \/ MakeMove(c)
    PROVE  TypeOK'
<1>1. /\ UNCHANGED <<players, state, turn, board, thread, clients, env, lastmover, clean, caught>>
      /\ hasty' \subseteq Clients
  BY DEF N64, Callback, ChangeStage, ToggleReady, MakeMove, game, history, TypeInv, TypeOK
<1>2. view' \in [Clients -> Views] /\ inbox' \in [Clients -> Seq(Packets)] /\ messages' = messages
      /\ toggles' = toggles
      => TypeOK'
  BY <1>1 DEF TypeInv, TypeOK, thread, history, clients
<1>3. CASE Callback(c)
  <2>1. inbox[c] \in Seq(Packets) /\ inbox[c] # <<>>
    BY <1>3 DEF Callback, TypeInv, TypeOK
  <2>2. Head(inbox[c]) \in Packets /\ Tail(inbox[c]) \in Seq(Packets)
    BY <2>1
  <2>3. view[c] \in Views
    BY DEF TypeInv, TypeOK
  <2>4. Seen(view[c], Head(inbox[c])) \in Views
    BY <2>2, <2>3, SeenTypes
  <2>5. view' = [view EXCEPT ![c] = Seen(view[c], Head(inbox[c]))]
        /\ inbox' = [inbox EXCEPT ![c] = Tail(inbox[c])]
        /\ messages' = messages /\ toggles' = toggles
    BY <1>3 DEF Callback, game
  <2>6. view' \in [Clients -> Views] /\ inbox' \in [Clients -> Seq(Packets)]
    BY <2>2, <2>4, <2>5 DEF TypeInv, TypeOK
  <2> QED
    BY <1>2, <2>5, <2>6
<1>4. CASE ChangeStage(c)
  <2>1. GameStage(view[c]) \in Views /\ LobbyStage(view[c]) \in Views
    BY StageTypes DEF TypeInv, TypeOK
  <2>2. view' \in [Clients -> Views]
    BY <1>4, <2>1 DEF ChangeStage, TypeInv, TypeOK
  <2> QED
    BY <1>2, <1>4, <2>2 DEF ChangeStage, game, TypeInv, TypeOK
<1>5. number[c] \in Seats \/ client[c] # "connected"
  BY DEF TypeInv, SeatInv, Owned
<1>6. CASE ToggleReady(c)
  <2>1. view[c] \in Views /\ view' = [view EXCEPT ![c].isready = ~@]
    BY <1>6 DEF ToggleReady, TypeInv, TypeOK
  <2>2. view' \in [Clients -> Views]
    BY <2>1 DEF TypeInv, TypeOK, Views
  <2>3. [type |-> "READY", sender |-> number[c], board |-> NoOne, cell |-> NoOne,
         ready |-> ~view[c].isready] \in Messages
    BY <1>5, <1>6, <2>1 DEF ToggleReady, Messages, Views
  <2>4. messages' \in Seq(Messages)
    BY <1>6, <2>3 DEF ToggleReady, Post, TypeInv, TypeOK
  <2>5. toggles' \in [Clients -> Nat] /\ inbox' = inbox
    BY <1>6 DEF ToggleReady, TypeInv, TypeOK
  <2> QED
    BY <1>1, <2>2, <2>4, <2>5 DEF TypeInv, TypeOK, thread, history, clients
<1>7. CASE MakeMove(c)
  <2>1. PICK m \in Playable(view[c]) :
           /\ view' = [view EXCEPT ![c].taken = @ \union {m}, ![c].turn = 0]
           /\ Post(c, "MOVE", m[1], m[2], FALSE)
    BY <1>7 DEF MakeMove
  <2>2. view[c] \in Views
    BY DEF TypeInv, TypeOK
  <2>3. m \in Cells \X Cells
    BY <2>1, <2>2 DEF Playable, Cursor, Views, Anywhere, Places, Plays
  <2>4. [view[c] EXCEPT !.taken = @ \union {m}, !.turn = 0] \in Views
    <3>1. PICK t \in Plays : t = view[c].taken \union {m}
      BY <2>2, <2>3, ViewFacts DEF Views
    <3>2. [view[c] EXCEPT !.taken = t, !.turn = 0] \in Views
      BY <2>2, 0 \in 0..2 DEF Views
    <3> QED
      BY <3>1, <3>2
  <2>5. view' \in [Clients -> Views]
    BY <2>1, <2>4 DEF TypeInv, TypeOK
  <2>6. [type |-> "MOVE", sender |-> number[c], board |-> m[1], cell |-> m[2], ready |-> FALSE]
           \in Messages
    BY <1>5, <1>7, <2>3 DEF MakeMove, Messages
  <2>7. messages' \in Seq(Messages)
    BY <2>1, <2>6 DEF Post, TypeInv, TypeOK
  <2>8. UNCHANGED <<inbox, toggles>>
    BY <1>7 DEF MakeMove
  <2> QED
    BY <1>1, <2>5, <2>7, <2>8 DEF TypeInv, TypeOK, thread, history, clients
<1> QED
  BY <1>3, <1>4, <1>6, <1>7 DEF N64

\* The game thread outside a game: it waits, and starts one.
LEMMA LobbyTypes ==
    ASSUME TypeInv, EnterLobby \/ WaitForPlayers \/ HandleReady \/ GetReady \/ StartGame \/ EndRound
    PROVE  TypeOK'
<1>1. UNCHANGED <<players, turn, who, move, client, number, view, toggles, env>>
  BY DEF EnterLobby, WaitForPlayers, HandleReady, GetReady, StartGame, EndRound, game, clients, n64
<1>2. (\E s \in States : ChangeGameState(s)) => state' \in States /\ inbox' \in [Clients -> Seq(Packets)]
  BY ChangeTypes DEF TypeInv
<1>3. state' \in States /\ inbox' \in [Clients -> Seq(Packets)]
      /\ board' \in LargeBoards /\ messages' \in Seq(Messages)
      /\ pc' \in {"top", "lobby", "full", "starting", "first", "ended"}
      /\ playerready' \in [Seats -> BOOLEAN] /\ lastmover' \in 0..2 /\ clean' \in BOOLEAN
      /\ caught' \in BOOLEAN /\ hasty' \subseteq Clients
      => TypeOK'
  BY <1>1 DEF TypeInv, TypeOK
<1>4. CASE EnterLobby
  <2>1. state' \in States /\ inbox' \in [Clients -> Seq(Packets)]
    BY <1>2, <1>4 DEF EnterLobby, States
  <2> QED
    BY <1>3, <1>4, <2>1 DEF EnterLobby, history, TypeInv, TypeOK
<1>5. CASE WaitForPlayers
  BY <1>3, <1>5 DEF WaitForPlayers, game, history, TypeInv, TypeOK
<1>6. CASE HandleReady
  <2>1. /\ messages # <<>> /\ pc = "lobby" /\ UNCHANGED <<state, board, lastmover, clean, hasty>>
        /\ caught' \in BOOLEAN
    BY <1>6 DEF HandleReady, TypeInv, TypeOK
  <2>2. PICK p : p = Head(messages)
    OBVIOUS
  <2>3. p \in Messages /\ messages' = Tail(messages) /\ Tail(messages) \in Seq(Messages)
    BY <1>6, <2>1, <2>2, TailFacts DEF HandleReady, TypeInv, TypeOK
  <2>4. p.sender \in 0..2 /\ p.ready \in BOOLEAN
    <3>1. p.sender \in Seats
      BY <2>3 DEF Messages
    <3>2. p.ready \in BOOLEAN
      BY <2>3 DEF Messages
    <3> QED
      BY <3>1, <3>2 DEF Seats
  <2>5. CASE p.type = "READY"
    <3>1. /\ playerready' = [playerready EXCEPT ![p.sender] = p.ready]
          /\ inbox' = Told({players[3 - p.sender]} \ {NoOne}, <<Notice("TOGGLED", p.sender)>>)
          /\ pc' \in {"full", "lobby"}
      BY <1>6, <2>1, <2>2, <2>5 DEF HandleReady, history
    <3>2. <<Notice("TOGGLED", p.sender)>> \in Seq(Packets)
      BY <2>4, PacketTypes
    <3>3. inbox' \in [Clients -> Seq(Packets)]
      BY <3>1, <3>2, ToldTypes DEF TypeInv, TypeOK
    <3> QED
      BY <1>3, <2>1, <2>3, <2>4, <3>1, <3>3 DEF TypeInv, TypeOK
  <2>6. CASE p.type # "READY"
    <3>1. UNCHANGED <<playerready, inbox, pc>>
      BY <1>6, <2>2, <2>6 DEF HandleReady, history
    <3> QED
      BY <1>3, <2>1, <2>3, <3>1 DEF TypeInv, TypeOK
  <2> QED
    BY <2>5, <2>6
<1>7. CASE GetReady
  <2>1. state' \in States /\ inbox' \in [Clients -> Seq(Packets)]
    BY <1>2, <1>7 DEF GetReady, States
  <2> QED
    BY <1>3, <1>7, <2>1 DEF GetReady, history, TypeInv, TypeOK
<1>8. CASE StartGame
  <2>1. state' \in States /\ inbox' \in [Clients -> Seq(Packets)]
    BY <1>2, <1>8 DEF StartGame, States
  <2>2. EmptyBoard \in LargeBoards
    BY ViewFacts DEF EmptyBoard, EmptySmall, SmallBoards, LargeBoards, Anybody
  <2>3. clean' \in BOOLEAN
    BY <1>8 DEF StartGame, CleanStart
  <2> QED
    BY <1>3, <1>8, <2>1, <2>2, <2>3 DEF StartGame, TypeInv, TypeOK
<1>9. CASE EndRound
  <2>1. state' \in States /\ inbox' \in [Clients -> Seq(Packets)]
    BY <1>2, <1>9 DEF EndRound, States
  <2> QED
    BY <1>3, <1>9, <2>1 DEF EndRound, history, TypeInv, TypeOK
<1> QED
  BY <1>4, <1>5, <1>6, <1>7, <1>8, <1>9

\* The game thread in a game.
LEMMA TellTypes ==
    ASSUME TypeInv, NEW p \in Anybody, TellTurn(p)
    PROVE  inbox' \in [Clients -> Seq(Packets)] /\ who' \in Anybody /\ pc' \in {"dead", "assign"}
<1>1. CASE p = NoOne
  BY <1>1 DEF TellTurn, TypeInv, TypeOK
<1>2. CASE p # NoOne
  <2>1. number[p] \in 0..2 /\ board.forced \in Anywhere
    BY <1>2 DEF TypeInv, TypeOK, Anybody, LargeBoards
  <2>2. <<Packet("TURN", number[p], board.forced, NoOne)>> \in Seq(Packets)
    BY <2>1, PacketTypes
  <2>3. inbox' = Told(Seated, <<Packet("TURN", number[p], board.forced, NoOne)>>)
        /\ who' = p /\ pc' = "assign"
    BY <1>2 DEF TellTurn
  <2> QED
    BY <2>2, <2>3, ToldTypes DEF TypeInv, TypeOK
<1> QED
  BY <1>1, <1>2

LEMMA TakingTypes ==
    ASSUME TypeInv, TakePacket
    PROVE  /\ board' \in LargeBoards /\ messages' \in Seq(Messages) /\ lastmover' \in 0..2
           /\ pc' \in {"loop", "dead", "moved"} /\ move' \in Anywhere \X Anywhere
           /\ pc' = "moved" => move' \in Cells \X Cells
<1>1. messages # <<>> /\ pc = "poll"
  BY DEF TakePacket
<1>2. PICK p : p = Head(messages)
  OBVIOUS
<1>3. p \in Messages /\ messages' = Tail(messages) /\ Tail(messages) \in Seq(Messages)
  BY <1>1, <1>2, TailFacts DEF TakePacket, TypeInv, TypeOK
<1>4. CASE UNCHANGED <<board, move, lastmover>> /\ pc' \in {"loop", "dead"}
  BY <1>3, <1>4 DEF TypeInv, TypeOK
<1>5. ASSUME p.type = "MOVE"
      PROVE  p.sender \in Seats /\ p.board \in Cells /\ p.cell \in Cells
  BY <1>3, <1>5 DEF Messages
<1>6. ASSUME p.type = "MOVE", turn # NoOne, WasValid(board, p.board, p.cell), p.sender = number[turn]
      PROVE  /\ board' = Play(board, turn, p.board, p.cell)
             /\ move' = <<p.board, p.cell>> /\ lastmover' = p.sender /\ pc' = "moved"
  BY <1>2, <1>6 DEF TakePacket
<1>7. ASSUME p.type = "MOVE", turn # NoOne, ~WasValid(board, p.board, p.cell), p.sender = number[turn]
      PROVE  /\ board' = Refuse(board, p.board)
             /\ move' = move /\ lastmover' = lastmover /\ pc' = "loop"
  BY <1>2, <1>7 DEF TakePacket
<1>8. CASE p.type = "MOVE" /\ turn # NoOne /\ p.sender = number[turn]
  <2>1. Play(board, turn, p.board, p.cell) \in LargeBoards /\ Refuse(board, p.board) \in LargeBoards
    BY <1>5, <1>8, PlayTypes DEF TypeInv, TypeOK
  <2>2. CASE WasValid(board, p.board, p.cell)
    <3>1. lastmover' \in 0..2 /\ move' \in Cells \X Cells /\ move' \in Anywhere \X Anywhere
      BY <1>5, <1>6, <1>8, <2>2, ViewFacts DEF Seats
    <3> QED
      BY <1>3, <1>6, <1>8, <2>1, <2>2, <3>1
  <2>3. CASE ~WasValid(board, p.board, p.cell)
    <3>1. lastmover' \in 0..2 /\ move' \in Anywhere \X Anywhere
      BY <1>7, <1>8, <2>3 DEF TypeInv, TypeOK
    <3> QED
      BY <1>3, <1>7, <1>8, <2>1, <2>3, <3>1
  <2> QED
    BY <2>2, <2>3
<1>9. CASE ~(p.type = "MOVE" /\ turn # NoOne /\ p.sender = number[turn])
  BY <1>2, <1>4, <1>9 DEF TakePacket
<1> QED
  BY <1>8, <1>9

LEMMA GameTypes ==
    ASSUME TypeInv,
           \/ ChooseFirst \/ AnnounceFirst \/ AssignTurn \/ PrintTurn \/ CheckState \/ NoPacket
           \/ TakePacket \/ NotifyMove \/ NextTurn \/ StartOver
    PROVE  TypeOK' /\ (pc' = "moved" => move' \in Cells \X Cells)
<1>1. /\ UNCHANGED <<players, state, playerready, client, number, view, toggles, env, clean, hasty>>
      /\ caught' \in BOOLEAN
  BY DEF ChooseFirst, AnnounceFirst, AssignTurn, PrintTurn, CheckState, NoPacket, TakePacket,
         NotifyMove, NextTurn, StartOver, game, clients, n64, history, TypeInv, TypeOK
<1>2. /\ inbox' \in [Clients -> Seq(Packets)] /\ turn' \in Anybody /\ who' \in Anybody
      /\ board' \in LargeBoards /\ messages' \in Seq(Messages) /\ lastmover' \in 0..2
      /\ move' \in Anywhere \X Anywhere
      /\ pc' \in {"top", "announce", "assign", "print", "loop", "poll", "moved", "next", "over", "dead"}
      => TypeOK'
  BY <1>1 DEF TypeInv, TypeOK
<1>3. players[1] \in Anybody /\ players[2] \in Anybody
  BY DEF TypeInv, TypeOK, Seats
<1>4. CASE AnnounceFirst \/ NextTurn
  <2>1. UNCHANGED <<turn, board, messages, lastmover, clean, move>>
    BY <1>4 DEF AnnounceFirst, NextTurn, game, history
  <2>2. PICK p \in Anybody : TellTurn(p)
    BY <1>3, <1>4 DEF AnnounceFirst, NextTurn, TypeInv, TypeOK
  <2> QED
    BY <1>2, <2>1, <2>2, TellTypes DEF TypeInv, TypeOK
<1>5. CASE TakePacket
  <2>1. UNCHANGED <<inbox, turn, who>>
    BY <1>5 DEF TakePacket
  <2> QED
    BY <1>2, <1>5, <2>1, TakingTypes DEF TypeInv, TypeOK
<1>6. CASE NotifyMove
  <2>1. UNCHANGED <<turn, who, board, messages, lastmover, clean>> /\ pc = "moved" /\ pc' \in {"dead", "next"}
        /\ move' = <<NoOne, NoOne>>
    BY <1>6 DEF NotifyMove, game, history
  <2>2. move[1] \in Cells /\ move[2] \in Cells
    BY <2>1 DEF TypeInv
  <2>3. PICK told \in Packets : told = Packet("MOVE", 0, move[1], move[2])
    BY <2>2, PacketTypes
  <2>4. PICK done \in Seq(Packets) :
           done = IF Finished(board, move[1]) THEN <<Packet("DONE", 0, move[1], NoOne)>> ELSE <<>>
    <3>1. <<Packet("DONE", 0, move[1], NoOne)>> \in Seq(Packets) /\ <<>> \in Seq(Packets)
      BY <2>2, PacketTypes
    <3>2. CASE Finished(board, move[1])
      BY <3>1, <3>2, Zenon
    <3>3. CASE ~Finished(board, move[1])
      BY <3>1, <3>3, Zenon
    <3> QED
      BY <3>2, <3>3
  <2>5. \/ inbox' = inbox
        \/ inbox' = [c \in Clients |->
              IF c \notin Seated THEN inbox[c]
              ELSE inbox[c] \o (IF c = turn THEN done ELSE <<told>> \o done)]
    BY <1>6, <2>3, <2>4 DEF NotifyMove
  <2>6. inbox' \in [Clients -> Seq(Packets)]
    <3>1. \A c \in Clients : inbox[c] \in Seq(Packets)
      BY DEF TypeInv, TypeOK
    <3>2. <<told>> \o done \in Seq(Packets)
      OBVIOUS
    <3>3. \A c \in Clients : inbox[c] \o done \in Seq(Packets) /\ inbox[c] \o (<<told>> \o done) \in Seq(Packets)
      BY <3>1, <3>2
    <3>4. CASE inbox' = inbox
      BY <3>4 DEF TypeInv, TypeOK
    <3>5. CASE inbox' # inbox
      <4> DEFINE more(c) == IF c = turn THEN done ELSE <<told>> \o done
      <4>1. inbox' = [c \in Clients |-> IF c \notin Seated THEN inbox[c] ELSE inbox[c] \o more(c)]
        BY <2>5, <3>5
      <4>2. \A c \in Clients : inbox[c] \o more(c) \in Seq(Packets)
        BY <3>3
      <4> HIDE DEF more
      <4> QED
        BY <3>1, <4>1, <4>2
    <3> QED
      BY <3>4, <3>5
  <2>7. move' \in Anywhere \X Anywhere
    BY <2>1, ViewFacts
  <2> QED
    BY <1>2, <2>1, <2>6, <2>7 DEF TypeInv, TypeOK
<1>7. CASE ChooseFirst \/ AssignTurn
  <2>1. UNCHANGED <<inbox, board, messages, lastmover, clean, move>> /\ pc' \in {"announce", "over", "print"}
    BY <1>7 DEF ChooseFirst, AssignTurn, history
  <2>2. turn' \in Anybody /\ who' \in Anybody
    BY <1>3, <1>7 DEF ChooseFirst, AssignTurn, TypeInv, TypeOK, Anybody
  <2> QED
    BY <1>2, <2>1, <2>2 DEF TypeInv, TypeOK
<1>8. CASE PrintTurn \/ CheckState \/ NoPacket \/ StartOver
  <2>1. UNCHANGED <<inbox, turn, who, board, messages, lastmover, clean, move>>
        /\ pc' \in {"dead", "loop", "poll", "over", "top"}
    BY <1>8 DEF PrintTurn, CheckState, NoPacket, StartOver, game, history
  <2> QED
    BY <1>2, <2>1 DEF TypeInv, TypeOK
<1> QED
  BY <1>4, <1>5, <1>6, <1>7, <1>8

\* Every variable keeps its type, and a move is made in a cell of a board.
LEMMA TypeStep == TypeInv /\ SeatInv' /\ [Next]_vars => TypeInv'
<1> SUFFICES ASSUME TypeInv, SeatInv', [Next]_vars PROVE TypeInv'
  OBVIOUS
<1>1. CASE UNCHANGED vars
  BY <1>1 DEF vars, game, thread, clients, n64, history, TypeInv, TypeOK
<1>2. ASSUME NEW c \in Clients, ClientThread(c) \/ N64(c) \/ User(c) PROVE TypeInv'
  <2>1. TypeOK'
    BY <1>2, SeatingTypes, N64Types DEF User
  <2>2. UNCHANGED <<pc, move>>
    BY <1>2 DEF ClientThread, LookAtState, ClearTurn, EndGame, N64, Callback, ChangeStage, User, Connect, Leave,
                ToggleReady, MakeMove, thread
  <2> QED
    BY <2>1, <2>2 DEF TypeInv
<1>3. CASE EnterLobby \/ WaitForPlayers \/ HandleReady \/ GetReady \/ StartGame \/ EndRound
  <2>1. pc' # "moved"
    BY <1>3 DEF EnterLobby, WaitForPlayers, HandleReady, GetReady, StartGame, EndRound
  <2> QED
    BY <1>3, <2>1, LobbyTypes DEF TypeInv
<1> QED
  BY <1>1, <1>2, <1>3, GameTypes DEF Next, GameThread, TypeInv

LEMMA TypeInvariant == Spec => []TypeInv
<1>1. Init => TypeInv
  <2> SUFFICES ASSUME Init PROVE TypeInv
    OBVIOUS
  <2>1. SeatInv
    BY DEF Init, SeatInv, SeatTypes, Owned, Phases
  <2>2. EmptyBoard \in LargeBoards
    BY ViewFacts DEF EmptyBoard, EmptySmall, SmallBoards, LargeBoards, Anybody
  <2>3. NoView \in Views
    BY ViewFacts DEF NoView, Views
  <2>4. caught \in BOOLEAN /\ clean \in BOOLEAN /\ hasty \subseteq Clients /\ lastmover \in 0..2
    <3>1. lastmover = 0 /\ clean = TRUE /\ caught = FALSE /\ hasty = {}
      BY DEF Init
    <3>2. caught \in BOOLEAN /\ clean \in BOOLEAN /\ hasty \subseteq Clients
      BY <3>1, Zenon
    <3> QED
      BY <3>1, <3>2
  <2>5. TypeOK
    BY <2>2, <2>3, <2>4, ViewFacts, GameRoomAssumption DEF Init, TypeOK, States, Anybody
  <2> QED
    BY <2>1, <2>5 DEF TypeInv, Init
<1> QED
  BY <1>1, TypeStep, SeatInvariant, PTL DEF Spec

\* Every variable has its type, and in every message and packet a move is one in a cell of
\* a board: the N64s never send another (stage_game.c:136).
THEOREM RoomTypes == Spec => []TypeOK
<1>1. TypeInv => TypeOK
  BY DEF TypeInv
<1> QED
  BY <1>1, TypeInvariant, PTL
-----------------------------------------------------------------------------
(* What the N64s know of the boards *)

\* Whether a cell of a board is taken, and what a set of packets says of the game.
Taken(B, m)         == B.boards[m[1]].moves[m[2]] # NoOne
SaysMove(pkts, m)   == \E p \in pkts : p.type = "MOVE" /\ p.board = m[1] /\ p.cell = m[2]
SaysDone(pkts, b)   == \E p \in pkts : p.type = "DONE" /\ p.board = b
SaysTurn(pkts, n)   == \E p \in pkts : p.type = "TURN" /\ p.n = n

\* What is on its way to c's N64, and to the game.
Coming(c) == ToSet(inbox[c])
Posted    == ToSet(messages)

\* c's move m waits for the game thread.
Sent(c, m) == \E p \in Posted : /\ p.type = "MOVE" /\ p.sender = number[c]
                                /\ p.board = m[1] /\ p.cell = m[2]

\* What c's N64 knows once it has read everything, with what it is about to be told of the
\* move that was just made.
Knows(c, m) ==
    \/ view[c].stage = "game" /\ m \in view[c].taken
    \/ SaysMove(Coming(c), m)
    \/ pc = "moved" /\ c # turn /\ m = move
KnowsDone(c, b) ==
    \/ view[c].stage = "game" /\ b \in view[c].complete
    \/ SaysDone(Coming(c), b)
    \/ pc = "moved" /\ b = move[1] /\ Finished(board, b)
Knowing(c) ==
    /\ \A m \in Cells \X Cells : Taken(board, m) \/ Sent(c, m) <=> Knows(c, m)
    /\ \A b \in Cells : Finished(board, b) <=> KnowsDone(c, b)

\* A packet that is sent in a game, and the one that starts it.
InPlay(p) == p.type \in {"TURN", "MOVE", "DONE"}
Starts(p) == p.type = "STATE" /\ p.state = "PLAYING"

\* Where c's N64 is: in the game, about to enter it, or not yet told that it started.
IsIn(c) ==
    /\ view[c].stage = "game" /\ view[c].next = "none" /\ view[c].playing
    /\ \A p \in Coming(c) : InPlay(p)
Enters(c) ==
    /\ view[c].stage = "lobby" /\ view[c].next = "game"
    /\ \A p \in Coming(c) : InPlay(p)
Waits(c) ==
    /\ view[c].stage = "lobby" /\ view[c].next = "none"
    /\ \E j \in DOMAIN inbox[c] :
          /\ Starts(inbox[c][j])
          /\ \A k \in DOMAIN inbox[c] : k < j => ~OfGame(inbox[c][k])
          /\ \A k \in DOMAIN inbox[c] : k > j => InPlay(inbox[c][k])
Follows(c) == IsIn(c) \/ Enters(c) \/ Waits(c)

\* c's N64 does not take itself for the one to move, nor will it.
DoesNotMove(c) == view[c].stage = "game" => view[c].turn # number[c]
NotItsTurn(c)  == DoesNotMove(c) /\ ~SaysTurn(Coming(c), number[c])

NoMovePosted == \A p \in Posted : p.type # "MOVE"

\* The ways of the turn of c: its packet is the last one on its way, or was read, or c has
\* made a move that is not yet taken.
IsTold(c) ==
    /\ NoMovePosted /\ DoesNotMove(c)
    /\ inbox[c] # <<>>
    /\ inbox[c][Len(inbox[c])] = Packet("TURN", number[c], board.forced, NoOne)
    /\ \A k \in 1..(Len(inbox[c]) - 1) : inbox[c][k].type = "TURN" => inbox[c][k].n # number[c]
CanMove(c) ==
    /\ NoMovePosted
    /\ inbox[c] = <<>>
    /\ view[c].stage = "game" /\ view[c].turn = number[c] /\ view[c].forced = board.forced
HasMoved(c) ==
    /\ inbox[c] = <<>>
    /\ view[c].stage = "game" /\ view[c].turn = 0
    /\ \E k \in DOMAIN messages :
          /\ messages[k].type = "MOVE" /\ messages[k].sender = number[c]
          /\ WasValid(board, messages[k].board, messages[k].cell)
          /\ ~Finished(board, messages[k].board)
          /\ \A j \in DOMAIN messages : messages[j].type = "MOVE" => j = k

\* The number whose turn it is, from the packet that says so to the move.
Mover     == number[IF pc = "assign" THEN who ELSE turn]
TurnGiven == {"assign", "print", "loop", "poll"}
Turns ==
    IF pc \in TurnGiven
    THEN /\ IsTold(players[Mover]) \/ CanMove(players[Mover]) \/ HasMoved(players[Mover])
         /\ NotItsTurn(players[3 - Mover])
    ELSE NoMovePosted /\ \A i \in Seats : NotItsTurn(players[i])

\* A game in a prompt room that started with nothing left of another one, and of which no
\* N64 has read anything before it entered it.
Playing ==
    /\ env.prompt /\ clean /\ hasty = {}
    /\ state = "PLAYING" /\ BothSeated /\ pc \in InGame \union {"loop"}

PlayingInv ==
    /\ \A i \in Seats : Follows(players[i]) /\ Knowing(players[i])
    /\ Turns
    /\ pc = "moved" => move \in Cells \X Cells /\ Taken(board, move)
    /\ pc \in {"print", "loop", "poll"} => ~BoardFinished(board)

\* What the boards are: the forced one is not finished.
Counted(B) ==
    /\ B.movecount = Cardinality({ b \in Cells : Finished(B, b) })
    /\ B.forced # NoOne => ~Finished(B, B.forced)

\* A game is over when it is finished, if nobody left.
EndsWell ==
    /\ pc = "over" /\ BothSeated => BoardFinished(board)
    /\ state = "ENDED_TIE" => \A b \in Cells : Finished(board, b)

\* Whoever has the turn has a number.
Numbered == (turn # NoOne => number[turn] \in Seats) /\ (who # NoOne => number[who] \in Seats)

PlayInv ==
    /\ Numbered
    /\ env.prompt /\ clean /\ hasty = {} => Counted(board) /\ EndsWell
    /\ Playing => PlayingInv

-----------------------------------------------------------------------------
(* Boards *)

\* A move in a board that is not finished takes its cell, finishes at most its own board,
\* and is counted if it does.
LEMMA PlayedBoard ==
    ASSUME NEW B \in LargeBoards, NEW p \in Clients, NEW b \in Cells, NEW x \in Cells,
           Counted(B), WasValid(B, b, x), ~Finished(B, b)
    PROVE  /\ \A m \in Cells \X Cells : Taken(Play(B, p, b, x), m) <=> Taken(B, m) \/ m = <<b, x>>
           /\ \A c \in Cells \ {b} : Finished(Play(B, p, b, x), c) <=> Finished(B, c)
           /\ Counted(Play(B, p, b, x))
<1> DEFINE small  == PlaySmall(B.boards[b], p, x)
           boards == [B.boards EXCEPT ![b] = small]
           new    == Play(B, p, b, x)
           done   == { c \in Cells : Finished(B, c) }
<1>1. /\ new.boards = boards
      /\ new.forced = IF SmallFinished(boards[x]) THEN NoOne ELSE x
      /\ new.movecount = B.movecount + (IF SmallFinished(boards[b]) THEN 1 ELSE 0)
  BY DEF Play
<1>2. B.boards \in [Cells -> SmallBoards] /\ B.movecount \in Nat
  BY DEF LargeBoards
<1>3. /\ boards[b] = small
      /\ \A c \in Cells \ {b} : boards[c] = B.boards[c]
  BY <1>2
<1>4. B.boards[b].moves \in [Cells -> Anybody]
  BY <1>2 DEF SmallBoards
<1>5. small.moves = [B.boards[b].moves EXCEPT ![x] = p]
  BY DEF PlaySmall
<1>6. p # NoOne
  BY GameRoomAssumption
<1> HIDE DEF small, boards, new
<1>7. ASSUME NEW m \in Cells \X Cells PROVE Taken(new, m) <=> Taken(B, m) \/ m = <<b, x>>
  <2>1. m[1] \in Cells /\ m[2] \in Cells /\ (m = <<b, x>> <=> m[1] = b /\ m[2] = x)
    OBVIOUS
  <2>2. CASE m[1] = b
    <3>1. small.moves[m[2]] = IF m[2] = x THEN p ELSE B.boards[b].moves[m[2]]
      BY <1>4, <1>5, <2>1
    <3> QED
      BY <1>1, <1>3, <1>6, <2>1, <2>2, <3>1 DEF Taken
  <2>3. CASE m[1] # b
    BY <1>1, <1>3, <2>1, <2>3 DEF Taken
  <2> QED
    BY <2>2, <2>3
<1>8. \A c \in Cells \ {b} : Finished(new, c) <=> Finished(B, c)
  BY <1>1, <1>3 DEF Finished
<1>9. Finished(new, b) <=> SmallFinished(boards[b])
  BY <1>1 DEF Finished
<1>10. IsFiniteSet(done) /\ b \notin done /\ B.movecount = Cardinality(done)
  BY FS_Subset, UltimateBoardAssumption DEF Counted
<1>11. new.movecount = Cardinality({ c \in Cells : Finished(new, c) })
  <2>1. CASE Finished(new, b)
    <3>1. { c \in Cells : Finished(new, c) } = done \union {b}
      BY <1>8, <2>1
    <3>2. Cardinality(done \union {b}) = Cardinality(done) + 1
      BY <1>10, FS_AddElement
    <3> QED
      BY <1>1, <1>9, <1>10, <2>1, <3>1, <3>2
  <2>2. CASE ~Finished(new, b)
    <3>1. { c \in Cells : Finished(new, c) } = done
      BY <1>8, <1>10, <2>2
    <3> QED
      BY <1>1, <1>2, <1>9, <1>10, <2>2, <3>1
  <2> QED
    BY <2>1, <2>2
<1>12. new.forced # NoOne => ~Finished(new, new.forced)
  BY <1>1 DEF Finished
<1> QED
  BY <1>7, <1>8, <1>11, <1>12 DEF Counted, new

\* An empty board has nothing taken, and nothing finished.
LEMMA EmptyBoardFacts ==
    /\ \A m \in Cells \X Cells : ~Taken(EmptyBoard, m)
    /\ \A b \in Cells : ~Finished(EmptyBoard, b)
    /\ Counted(EmptyBoard)
<1>1. \A b \in Cells : EmptyBoard.boards[b] = EmptySmall
  BY DEF EmptyBoard
<1>2. \A x \in Cells : EmptySmall.moves[x] = NoOne
  BY DEF EmptySmall
<1>3. EmptySmall.winner = NoOne /\ EmptyBoard.forced = NoOne /\ EmptyBoard.movecount = 0
  BY DEF EmptySmall, EmptyBoard
<1>4. \A b \in Cells : ~Finished(EmptyBoard, b)
  BY <1>1, <1>2, <1>3, UltimateBoardAssumption DEF Finished, SmallFinished
<1>5. { b \in Cells : Finished(EmptyBoard, b) } = {}
  BY <1>4
<1>6. Counted(EmptyBoard)
  BY <1>3, <1>5, FS_EmptySet DEF Counted
<1> QED
  BY <1>1, <1>2, <1>4, <1>6 DEF Taken

\* A board that is not finished has a cell to play in, and a game that is not, such a board.
LEMMA SomethingToPlay ==
    ASSUME NEW B \in LargeBoards, Counted(B)
    PROVE  /\ \A b \in Cells : ~Finished(B, b) => \E x \in Cells : ~Taken(B, <<b, x>>)
           /\ ~BoardFinished(B) => \E b \in Cells : ~Finished(B, b)
           /\ B.winner = NoOne /\ BoardFinished(B) => \A b \in Cells : Finished(B, b)
<1> DEFINE done == { b \in Cells : Finished(B, b) }
<1>1. \A b \in Cells : ~Finished(B, b) => \E x \in Cells : ~Taken(B, <<b, x>>)
  BY DEF Finished, SmallFinished, Taken
<1>2. IsFiniteSet(Cells) /\ done \subseteq Cells
  BY UltimateBoardAssumption
<1>3. ASSUME \A b \in Cells : Finished(B, b) PROVE BoardFinished(B)
  <2>1. done = Cells
    BY <1>3
  <2> QED
    BY <2>1 DEF BoardFinished, Counted
<1>4. ASSUME B.winner = NoOne, BoardFinished(B) PROVE \A b \in Cells : Finished(B, b)
  <2>1. Cardinality(done) = Cardinality(Cells)
    BY <1>4 DEF BoardFinished, Counted
  <2>2. done = Cells
    BY <1>2, <2>1, FS_Subset
  <2> QED
    BY <2>2
<1> QED
  BY <1>1, <1>3, <1>4

-----------------------------------------------------------------------------
(* The turn of a game, step by step *)

AllInv == TypeInv /\ ThreadInv /\ PlayInv

\* Two players have each their own seat, and its number.
LEMMA SeatFacts ==
    ASSUME SeatInv, BothSeated
    PROVE  /\ \A i \in Seats : /\ players[i] \in Clients /\ number[players[i]] = i
                               /\ client[players[i]] = "connected"
                               /\ 3 - i \in Seats /\ 3 - i # i
           /\ Seated = {players[1], players[2]}
           /\ \A i, j \in Seats : players[i] = players[j] => i = j
<1>1. \A i \in Seats : players[i] \in Clients /\ number[players[i]] = i /\ client[players[i]] = "connected"
  BY DEF SeatInv, SeatTypes, Owned, BothSeated
<1>2. \A i \in Seats : 3 - i \in Seats /\ 3 - i # i
  BY DEF Seats
<1>3. Seated = {players[1], players[2]}
  BY DEF Seated, Seats, BothSeated
<1> QED
  BY <1>1, <1>2, <1>3

\* What a callback does to the N64's view: a packet of a game, the packet that starts one,
\* and any other in the lobby.
LEMMA SeenInPlay ==
    ASSUME NEW v \in Views, NEW p \in Packets, InPlay(p)
    PROVE  /\ Seen(v, p).stage = v.stage /\ Seen(v, p).next = v.next
           /\ Seen(v, p).playing = v.playing
           /\ Seen(v, p).taken = IF p.type = "MOVE" THEN v.taken \union {<<p.board, p.cell>>} ELSE v.taken
           /\ Seen(v, p).complete = IF p.type = "DONE" THEN v.complete \union {p.board} ELSE v.complete
           /\ p.type = "TURN" => Seen(v, p).turn = p.n /\ Seen(v, p).forced = p.board
           /\ p.type = "MOVE" => Seen(v, p).turn = 0
           /\ p.type = "DONE" => Seen(v, p).turn = v.turn
<1>1. CASE p.type = "TURN"
  <2>1. Seen(v, p) = [v EXCEPT !.turn = p.n, !.forced = p.board]
    BY <1>1 DEF Seen
  <2> QED
    BY <1>1, <2>1 DEF Views
<1>2. CASE p.type = "MOVE"
  <2>1. Seen(v, p) = [v EXCEPT !.taken = @ \union {<<p.board, p.cell>>}, !.turn = 0]
    BY <1>2 DEF Seen
  <2> QED
    BY <1>2, <2>1 DEF Views
<1>3. CASE p.type = "DONE"
  <2>1. Seen(v, p) = [v EXCEPT !.complete = @ \union {p.board}]
    BY <1>3 DEF Seen
  <2> QED
    BY <1>3, <2>1 DEF Views
<1> QED
  BY <1>1, <1>2, <1>3 DEF InPlay

LEMMA SeenInLobby ==
    ASSUME NEW v \in Views, NEW p \in Packets, v.stage = "lobby", v.next = "none",
           Starts(p) \/ ~OfGame(p)
    PROVE  /\ Seen(v, p).stage = "lobby"
           /\ Seen(v, p).next = IF Starts(p) THEN "game" ELSE "none"
<1>1. CASE p.type = "STATE"
  <2>1. Seen(v, p) = [v EXCEPT !.starting = @ \/ p.state = "READY",
                               !.next = IF p.state = "PLAYING" THEN "game" ELSE @]
    BY <1>1 DEF Seen, SeenState
  <2> QED
    BY <1>1, <2>1 DEF Views, Starts, OfGame
<1>2. CASE p.type # "STATE"
  <2>1. p.type \notin {"TURN", "MOVE", "DONE"} /\ ~Starts(p)
    BY <1>2 DEF OfGame, Starts
  <2>2. Seen(v, p) = [v EXCEPT !.other = IF p.type = "TOGGLED" THEN @ ELSE p.type = "INFO",
                               !.isready = @ /\ v.stage # "lobby"]
    BY <1>2, <2>1 DEF Seen
  <2> QED
    BY <2>1, <2>2 DEF Views
<1> QED
  BY <1>1, <1>2

\* An N64 for which nothing changes.
LEMMA OtherFollows ==
    ASSUME NEW d, Follows(d), Knowing(d), UNCHANGED <<board, pc, turn, move>>,
           inbox'[d] = inbox[d], view'[d] = view[d],
           \A m \in Cells \X Cells : Sent(d, m)' <=> Sent(d, m)
    PROVE  Follows(d)' /\ Knowing(d)'
<1>1. Follows(d)'
  BY DEF Follows, IsIn, Enters, Waits, Coming
<1>2. (\A m \in Cells \X Cells : Knows(d, m)' <=> Knows(d, m))
      /\ (\A b \in Cells : KnowsDone(d, b)' <=> KnowsDone(d, b))
  BY DEF Knows, KnowsDone, Coming
<1> QED
  BY <1>1, <1>2 DEF Knowing

\* An N64 that is about to enter a game runs no callback of it.
LEMMA NeverHasty ==
    ASSUME NEW c \in Clients, Callback(c), hasty' = {}, Head(inbox[c]) \in Coming(c)
    PROVE  ~Enters(c)
<1> SUFFICES ASSUME Enters(c) PROVE FALSE
  OBVIOUS
<1>1. view[c].stage = "lobby" /\ Head(inbox[c]).type \in {"TURN", "MOVE", "DONE"}
  BY DEF Enters, InPlay
<1>2. c \in hasty'
  BY <1>1 DEF Callback
<1> QED
  BY <1>2

\* A player's N64 runs a callback: it follows the game as before, and knows the same.
LEMMA CallbackFollows ==
    ASSUME TypeInv, TypeInv', NEW c \in Clients, Follows(c), Knowing(c), hasty' = {}, Callback(c)
    PROVE  Follows(c)' /\ Knowing(c)'
<1> DEFINE p == Head(inbox[c])
           q == Tail(inbox[c])
           v == view[c]
<1>1. /\ inbox[c] # <<>>
      /\ inbox'[c] = q /\ view'[c] = Seen(v, p)
      /\ UNCHANGED <<board, pc, turn, move, messages, number>>
  BY DEF Callback, TypeInv, TypeOK, game, thread, clients
<1>2. inbox[c] \in Seq(Packets) /\ v \in Views
  BY DEF TypeInv, TypeOK
<1>3. /\ p \in Packets /\ p = inbox[c][1] /\ q \in Seq(Packets) /\ Len(q) = Len(inbox[c]) - 1
      /\ 1 \in DOMAIN inbox[c] /\ Len(inbox[c]) \in Nat /\ Len(inbox[c]) >= 1
      /\ \A k \in DOMAIN q : k + 1 \in DOMAIN inbox[c] /\ q[k] = inbox[c][k + 1]
      /\ Coming(c) = {p} \union ToSet(q) /\ Coming(c)' = ToSet(q)
  BY <1>1, <1>2, TailFacts, ToSetFacts DEF Coming
<1>4. \A m \in Cells \X Cells : Sent(c, m)' <=> Sent(c, m)
  BY <1>1 DEF Sent, Posted
<1>5. ~Enters(c)
  BY <1>3, NeverHasty
<1> HIDE DEF p, q, v
<1>6. CASE IsIn(c)
  <2>1. v.stage = "game" /\ v.next = "none" /\ v.playing /\ InPlay(p) /\ \A r \in ToSet(q) : InPlay(r)
    BY <1>3, <1>6 DEF IsIn, v
  <2>0. /\ Seen(v, p).stage = v.stage /\ Seen(v, p).next = v.next
        /\ Seen(v, p).playing = v.playing
        /\ Seen(v, p).taken = IF p.type = "MOVE" THEN v.taken \union {<<p.board, p.cell>>} ELSE v.taken
        /\ Seen(v, p).complete = IF p.type = "DONE" THEN v.complete \union {p.board} ELSE v.complete
    BY <1>2, <1>3, <2>1, SeenInPlay
  <2>2. /\ view'[c].stage = "game" /\ view'[c].next = "none" /\ view'[c].playing
        /\ view'[c].taken = IF p.type = "MOVE" THEN v.taken \union {<<p.board, p.cell>>} ELSE v.taken
        /\ view'[c].complete = IF p.type = "DONE" THEN v.complete \union {p.board} ELSE v.complete
    BY <1>1, <2>0, <2>1, Zenon
  <2>3. IsIn(c)'
    BY <1>3, <2>1, <2>2 DEF IsIn
  <2>4. ASSUME NEW m \in Cells \X Cells PROVE Knows(c, m)' <=> Knows(c, m)
    <3>1. (p.type = "MOVE" /\ p.board = m[1] /\ p.cell = m[2])
            <=> (p.type = "MOVE" /\ m = <<p.board, p.cell>>)
      OBVIOUS
    <3>2. SaysMove(Coming(c), m) <=> (p.type = "MOVE" /\ m = <<p.board, p.cell>>) \/ SaysMove(ToSet(q), m)
      BY <1>3, <3>1 DEF SaysMove
    <3>3. m \in view'[c].taken <=> m \in v.taken \/ (p.type = "MOVE" /\ m = <<p.board, p.cell>>)
      BY <2>2
    <3> QED
      BY <1>1, <1>3, <2>1, <2>2, <3>2, <3>3 DEF Knows, v
  <2>5. ASSUME NEW b \in Cells PROVE KnowsDone(c, b)' <=> KnowsDone(c, b)
    <3>1. SaysDone(Coming(c), b) <=> (p.type = "DONE" /\ p.board = b) \/ SaysDone(ToSet(q), b)
      BY <1>3 DEF SaysDone
    <3>2. b \in view'[c].complete <=> b \in v.complete \/ (p.type = "DONE" /\ p.board = b)
      BY <2>2
    <3> QED
      BY <1>1, <1>3, <2>1, <2>2, <3>1, <3>2 DEF KnowsDone, v
  <2> QED
    BY <1>1, <1>4, <1>6, <2>3, <2>4, <2>5 DEF Follows, Knowing
<1>7. CASE Waits(c)
  <2>1. v.stage = "lobby" /\ v.next = "none"
    BY <1>7 DEF Waits, v
  <2>2. PICK j \in DOMAIN inbox[c] :
           /\ Starts(inbox[c][j])
           /\ \A k \in DOMAIN inbox[c] : k < j => ~OfGame(inbox[c][k])
           /\ \A k \in DOMAIN inbox[c] : k > j => InPlay(inbox[c][k])
    BY <1>7 DEF Waits
  <2>3. Starts(p) \/ ~OfGame(p)
    BY <1>3, <2>2
  <2>4. view'[c].stage = "lobby" /\ view'[c].next = IF Starts(p) THEN "game" ELSE "none"
    BY <1>1, <1>2, <1>3, <2>1, <2>3, SeenInLobby
  <2>5. Follows(c)'
    <3>1. CASE j = 1
      <4>1. \A k \in DOMAIN q : InPlay(q[k])
        BY <1>3, <2>2, <3>1
      <4>2. \A r \in ToSet(q) : InPlay(r)
        BY <4>1 DEF ToSet
      <4> QED
        BY <1>3, <2>2, <2>4, <3>1, <4>2 DEF Follows, Enters
    <3>2. CASE j > 1
      <4>1. ~Starts(p)
        BY <1>3, <2>2, <3>2 DEF Starts, OfGame
      <4>2. j - 1 \in DOMAIN q /\ q[j - 1] = inbox[c][j]
        BY <1>2, <1>3, <3>2
      <4>3. ASSUME NEW k \in DOMAIN q
            PROVE  (k < j - 1 => ~OfGame(q[k])) /\ (k > j - 1 => InPlay(q[k]))
        <5>1. k \in Nat /\ j \in Nat /\ k + 1 \in DOMAIN inbox[c] /\ q[k] = inbox[c][k + 1]
          BY <1>2, <1>3
        <5> QED
          BY <2>2, <5>1
      <4> QED
        BY <1>1, <2>2, <2>4, <4>1, <4>2, <4>3 DEF Follows, Waits
    <3> QED
      BY <1>2, <3>1, <3>2
  <2>6. p.type \notin {"MOVE", "DONE"}
    BY <2>3 DEF Starts, OfGame
  <2>7. \A m \in Cells \X Cells : Knows(c, m)' <=> Knows(c, m)
    BY <1>1, <1>3, <2>1, <2>4, <2>6 DEF Knows, SaysMove, v
  <2>8. \A b \in Cells : KnowsDone(c, b)' <=> KnowsDone(c, b)
    BY <1>1, <1>3, <2>1, <2>4, <2>6 DEF KnowsDone, SaysDone, v
  <2> QED
    BY <1>1, <1>4, <1>7, <2>5, <2>7, <2>8 DEF Knowing
<1> QED
  BY <1>5, <1>6, <1>7 DEF Follows

\* ... and its turn comes no sooner and no later.
LEMMA CallbackTurns ==
    ASSUME TypeInv, TypeInv', NEW c \in Clients, Follows(c), hasty' = {}, Callback(c),
           number[c] \in Seats
    PROVE  /\ NotItsTurn(c) => NotItsTurn(c)'
           /\ IsTold(c) \/ CanMove(c) \/ HasMoved(c) => (IsTold(c) \/ CanMove(c))'
<1> DEFINE p == Head(inbox[c])
           q == Tail(inbox[c])
           v == view[c]
<1>1. /\ inbox[c] # <<>>
      /\ inbox'[c] = q /\ view'[c] = Seen(v, p)
      /\ UNCHANGED <<board, messages, number>>
  BY DEF Callback, TypeInv, TypeOK, game, thread, clients
<1>2. inbox[c] \in Seq(Packets) /\ v \in Views
  BY DEF TypeInv, TypeOK
<1>3. /\ p \in Packets /\ p = inbox[c][1] /\ q \in Seq(Packets) /\ Len(q) = Len(inbox[c]) - 1
      /\ 1 \in DOMAIN inbox[c] /\ Len(inbox[c]) \in Nat /\ Len(inbox[c]) >= 1
      /\ \A k \in DOMAIN q : k + 1 \in DOMAIN inbox[c] /\ q[k] = inbox[c][k + 1]
      /\ Coming(c) = {p} \union ToSet(q) /\ Coming(c)' = ToSet(q)
  BY <1>1, <1>2, TailFacts, ToSetFacts DEF Coming
<1>4. number[c] # 0 /\ ~Enters(c)
  BY <1>3, NeverHasty DEF Seats
<1> HIDE DEF p, q, v
<1>5. \/ v.stage = "game" /\ InPlay(p)
      \/ v.stage = "lobby" /\ p.type # "TURN" /\ view'[c].stage = "lobby"
         /\ \E j \in DOMAIN inbox[c] : Starts(inbox[c][j])
  <2>1. CASE IsIn(c)
    BY <1>3, <2>1 DEF IsIn, v
  <2>2. CASE Waits(c)
    <3>1. Starts(p) \/ ~OfGame(p)
      BY <1>3, <2>2 DEF Waits
    <3>2. view'[c].stage = "lobby"
      BY <1>1, <1>2, <1>3, <2>2, <3>1, SeenInLobby DEF Waits, v
    <3> QED
      BY <2>2, <3>1, <3>2 DEF Waits, v, Starts, OfGame
  <2> QED
    BY <1>4, <2>1, <2>2 DEF Follows
<1>6. ASSUME DoesNotMove(c), p.type = "TURN" => p.n # number[c] PROVE DoesNotMove(c)'
  <2>1. CASE v.stage = "game" /\ InPlay(p)
    <3>1. /\ p.type = "TURN" => view'[c].turn = p.n
          /\ p.type = "MOVE" => view'[c].turn = 0
          /\ p.type = "DONE" => view'[c].turn = v.turn
      <4>1. /\ p.type = "TURN" => Seen(v, p).turn = p.n
            /\ p.type = "MOVE" => Seen(v, p).turn = 0
            /\ p.type = "DONE" => Seen(v, p).turn = v.turn
        BY <1>2, <1>3, <2>1, SeenInPlay
      <4> QED
        BY <1>1, <4>1
    <3> QED
      BY <1>1, <1>4, <1>6, <2>1, <3>1 DEF DoesNotMove, InPlay, v
  <2>2. CASE view'[c].stage = "lobby"
    BY <2>2 DEF DoesNotMove
  <2> QED
    BY <1>5, <2>1, <2>2
<1>7. ASSUME NotItsTurn(c) PROVE NotItsTurn(c)'
  <2>1. p.type = "TURN" => p.n # number[c]
    BY <1>3, <1>7 DEF NotItsTurn, SaysTurn
  <2>2. ~SaysTurn(ToSet(q), number[c])
    BY <1>3, <1>7 DEF NotItsTurn, SaysTurn
  <2> QED
    BY <1>1, <1>3, <1>6, <1>7, <2>1, <2>2 DEF NotItsTurn
<1>8. ASSUME IsTold(c) PROVE (IsTold(c) \/ CanMove(c))'
  <2> DEFINE n == Len(inbox[c])
  <2>1. /\ NoMovePosted /\ DoesNotMove(c)
        /\ inbox[c][n] = Packet("TURN", number[c], board.forced, NoOne)
        /\ \A k \in 1..(n - 1) : inbox[c][k].type = "TURN" => inbox[c][k].n # number[c]
    BY <1>8 DEF IsTold
  <2>2. NoMovePosted'
    BY <1>1, <2>1 DEF NoMovePosted, Posted
  <2>3. CASE n = 1
    <3>1. p = Packet("TURN", number[c], board.forced, NoOne)
      BY <1>3, <2>1, <2>3
    <3>2. p.type = "TURN" /\ p.n = number[c] /\ p.board = board.forced
      BY <3>1 DEF Packet
    <3>3. v.stage = "game" /\ InPlay(p)
      BY <1>5, <3>2
    <3>4. view'[c].stage = "game" /\ view'[c].turn = number[c] /\ view'[c].forced = board.forced
      <4>1. Seen(v, p).stage = v.stage /\ Seen(v, p).turn = p.n /\ Seen(v, p).forced = p.board
        BY <1>2, <1>3, <3>2, <3>3, SeenInPlay
      <4> QED
        BY <1>1, <3>2, <3>3, <4>1
    <3>5. inbox'[c] = <<>>
      BY <1>1, <1>3, <2>3
    <3> QED
      BY <1>1, <2>2, <3>4, <3>5 DEF CanMove
  <2>4. CASE n > 1
    <3>1. p.type = "TURN" => p.n # number[c]
      BY <1>3, <2>1, <2>4
    <3>2. DoesNotMove(c)'
      BY <1>6, <2>1, <3>1
    <3>3. q # <<>> /\ q[Len(q)] = inbox[c][n]
      BY <1>3, <2>4
    <3>4. \A k \in 1..(Len(q) - 1) : q[k].type = "TURN" => q[k].n # number[c]
      BY <1>3, <2>1
    <3> QED
      BY <1>1, <2>1, <2>2, <3>2, <3>3, <3>4 DEF IsTold
  <2>5. n \in Nat /\ n >= 1
    BY <1>3, Zenon
  <2>6. n = 1 \/ n > 1
    <3> HIDE DEF n
    <3> QED
      BY <2>5
  <2> QED
    BY <2>3, <2>4, <2>6
<1>9. ~CanMove(c) /\ ~HasMoved(c)
  BY <1>1 DEF CanMove, HasMoved
<1> QED
  BY <1>7, <1>8, <1>9

\* Whoever's turn it was and would be, if its N64 does nothing and no move is posted.
LEMMA OtherTurns ==
    ASSUME TypeInv, NEW d, UNCHANGED <<board, number>>,
           inbox'[d] = inbox[d], view'[d] = view[d],
           \/ messages' = messages
           \/ \E r \in Messages : r.type = "READY" /\ messages' = Append(messages, r)
    PROVE  /\ IsTold(d) \/ CanMove(d) \/ HasMoved(d) => (IsTold(d) \/ CanMove(d) \/ HasMoved(d))'
           /\ NotItsTurn(d) => NotItsTurn(d)'
<1>1. messages \in Seq(Messages)
  BY DEF TypeInv, TypeOK
<1>2. ASSUME NoMovePosted PROVE NoMovePosted'
  <2>1. CASE messages' = messages
    BY <1>2, <2>1 DEF NoMovePosted, Posted
  <2>2. ASSUME NEW r \in Messages, r.type = "READY", messages' = Append(messages, r)
        PROVE  NoMovePosted'
    <3>1. ToSet(messages') = ToSet(messages) \union {r}
      BY <1>1, <2>2, ToSetOfMore
    <3> QED
      BY <1>2, <2>2, <3>1 DEF NoMovePosted, Posted
  <2> QED
    BY <2>1, <2>2
<1>3. NotItsTurn(d) => NotItsTurn(d)'
  BY DEF NotItsTurn, DoesNotMove, Coming
<1>4. IsTold(d) => IsTold(d)'
  BY <1>2 DEF IsTold, DoesNotMove
<1>5. CanMove(d) => CanMove(d)'
  BY <1>2 DEF CanMove
<1>6. ASSUME HasMoved(d) PROVE HasMoved(d)'
  <2>1. PICK k \in DOMAIN messages :
          /\ messages[k].type = "MOVE" /\ messages[k].sender = number[d]
          /\ WasValid(board, messages[k].board, messages[k].cell)
          /\ ~Finished(board, messages[k].board)
          /\ \A j \in DOMAIN messages : messages[j].type = "MOVE" => j = k
    BY <1>6 DEF HasMoved
  <2>2. CASE messages' = messages
    BY <1>6, <2>2 DEF HasMoved
  <2>3. ASSUME NEW r \in Messages, r.type = "READY", messages' = Append(messages, r)
        PROVE  HasMoved(d)'
    <3>1. /\ DOMAIN messages' = 1..(Len(messages) + 1) /\ DOMAIN messages = 1..Len(messages)
          /\ messages'[Len(messages) + 1] = r
          /\ \A i \in DOMAIN messages : messages'[i] = messages[i]
          /\ Len(messages) \in Nat
      BY <1>1, <2>3, AppendFacts
    <3>2. k \in DOMAIN messages' /\ messages'[k] = messages[k]
      BY <3>1
    <3>3. ASSUME NEW j \in DOMAIN messages', messages'[j].type = "MOVE" PROVE j = k
      <4>1. j # Len(messages) + 1
        BY <2>3, <3>1, <3>3
      <4>2. j \in DOMAIN messages
        BY <3>1, <4>1
      <4> QED
        BY <2>1, <3>1, <3>3, <4>2
    <3> QED
      BY <1>6, <2>1, <3>2, <3>3 DEF HasMoved
  <2> QED
    BY <2>2, <2>3
<1> QED
  BY <1>3, <1>4, <1>5, <1>6

\* In the loop of a game it is the turn of one of two players.
LEMMA LoopFacts ==
    ASSUME AllInv, Playing, pc \in {"loop", "poll"}
    PROVE  /\ Mover \in Seats /\ Mover = number[turn] /\ 3 - Mover \in Seats /\ 3 - Mover # Mover
           /\ \A i \in Seats : i = Mover \/ i = 3 - Mover
           /\ ~BoardFinished(board) /\ Counted(board)
<1>1. turn # NoOne
  BY DEF AllInv, ThreadInv, OneAtATime, Prompt, Safe, Playing, InGame
<1>2. Mover = number[turn] /\ Mover \in Seats
  BY <1>1 DEF AllInv, PlayInv, Numbered, Mover, Playing
<1>3. PlayingInv /\ Counted(board)
  BY DEF AllInv, PlayInv, Playing
<1> QED
  BY <1>2, <1>3 DEF PlayingInv, Seats

\* A player makes a move: it is its turn, and the move is one of a free cell in a board that is
\* not finished and to be played in.
LEMMA MoveIsGood ==
    ASSUME AllInv, Playing, pc \in {"loop", "poll"}, NEW c \in Clients, client[c] = "connected", MyTurn(c),
           NEW m \in Playable(view[c])
    PROVE  /\ c = players[Mover] /\ CanMove(c)
           /\ m \in Cells \X Cells /\ ~Finished(board, m[1]) /\ WasValid(board, m[1], m[2])
<1>1. /\ TypeInv /\ SeatInv /\ BothSeated /\ PlayingInv /\ Counted(board)
      /\ number[c] \in Seats /\ players[number[c]] = c
  BY DEF AllInv, TypeInv, SeatInv, Owned, PlayInv, Playing
<1>2. /\ Mover \in Seats /\ 3 - Mover \in Seats /\ (number[c] = Mover \/ number[c] = 3 - Mover)
  BY <1>1, LoopFacts
<1>3. /\ NotItsTurn(players[3 - Mover])
      /\ IsTold(players[Mover]) \/ CanMove(players[Mover]) \/ HasMoved(players[Mover])
  BY <1>1 DEF PlayingInv, Turns, TurnGiven
<1>4. view[c].stage = "game" /\ view[c].turn = number[c] /\ number[c] # 0
  BY <1>1 DEF MyTurn, Seats
<1>5. c = players[Mover]
  BY <1>1, <1>2, <1>3, <1>4 DEF NotItsTurn, DoesNotMove
<1>6. CanMove(c)
  BY <1>3, <1>4, <1>5 DEF IsTold, HasMoved, DoesNotMove
<1>7. inbox[c] = <<>> /\ view[c].forced = board.forced /\ Coming(c) = {}
  <2>1. inbox[c] \in Seq(Packets)
    BY <1>1 DEF TypeInv, TypeOK
  <2> QED
    BY <1>6, <2>1, ToSetFacts DEF CanMove, Coming
<1>8. Knowing(c)
  BY <1>1, <1>2, <1>5 DEF PlayingInv
<1>9. /\ \A t \in Cells \X Cells : Taken(board, t) => t \in view[c].taken
      /\ \A b \in Cells : Finished(board, b) => b \in view[c].complete
  BY <1>7, <1>8 DEF Knowing, Knows, KnowsDone, SaysMove, SaysDone
<1>10. m \in Cursor(view[c]) \X Cells /\ m \notin view[c].taken
  BY DEF Playable
<1>11. board.forced \in Anywhere
  BY <1>1 DEF TypeInv, TypeOK, LargeBoards
<1>12. m[1] \in Cells /\ m[2] \in Cells /\ ~Finished(board, m[1]) /\ Allowed(board, m[1])
       /\ m \in Cells \X Cells
  <2>1. CASE board.forced # NoOne
    <3>1. Cursor(view[c]) = {board.forced} /\ board.forced \in Cells
      BY <1>7, <1>11, <2>1 DEF Cursor, Anywhere
    <3> QED
      BY <1>1, <1>10, <2>1, <3>1 DEF Counted, Allowed
  <2>2. CASE board.forced = NoOne
    <3>1. Cursor(view[c]) = Cells \ view[c].complete
      BY <1>7, <2>2 DEF Cursor
    <3> QED
      BY <1>9, <1>10, <2>2, <3>1 DEF Allowed
  <2> QED
    BY <2>1, <2>2
<1>13. board.boards[m[1]].moves[m[2]] = NoOne
  BY <1>9, <1>10, <1>12 DEF Taken
<1> QED
  BY <1>5, <1>6, <1>12, <1>13 DEF WasValid

-----------------------------------------------------------------------------
(* The steps of the N64s *)

\* What a step of an N64 leaves alone, and when it is taken.
LEMMA N64Leaves ==
    ASSUME NEW c \in Clients, Callback(c) \/ ChangeStage(c) \/ ToggleReady(c) \/ MakeMove(c)
    PROVE  /\ UNCHANGED <<players, state, turn, board, pc, who, move, client, number, env, clean>>
           /\ AtRest /\ (hasty' = {} => hasty = {})
           /\ TypeInv => \A d \in Clients \ {c} : inbox'[d] = inbox[d] /\ view'[d] = view[d]
<1>1. /\ UNCHANGED <<players, state, turn, board, pc, who, move, client, number, env, clean>>
      /\ AtRest /\ (hasty' = {} => hasty = {})
  BY DEF Callback, ChangeStage, ToggleReady, MakeMove, game, thread, clients, history
<1>2. ASSUME TypeInv, NEW d \in Clients \ {c} PROVE inbox'[d] = inbox[d] /\ view'[d] = view[d]
  <2>1. view \in [Clients -> Views] /\ inbox \in [Clients -> Seq(Packets)]
    BY <1>2 DEF TypeInv, TypeOK
  <2>2. CASE Callback(c)
    BY <2>1, <2>2 DEF Callback
  <2>3. CASE ChangeStage(c)
    BY <2>1, <2>3 DEF ChangeStage
  <2>4. CASE ToggleReady(c)
    BY <2>1, <2>4 DEF ToggleReady
  <2>5. CASE MakeMove(c)
    BY <2>1, <2>5 DEF MakeMove
  <2> QED
    BY <2>2, <2>3, <2>4, <2>5
<1> QED
  BY <1>1, <1>2

\* A message posted by c is not one of d.
LEMMA NotSentByOther ==
    ASSUME TypeInv, NEW c \in Clients, NEW d \in Clients, number[c] # number[d], UNCHANGED number,
           NEW r \in Messages, r.sender = number[c], messages' = Append(messages, r)
    PROVE  \A m \in Cells \X Cells : Sent(d, m)' <=> Sent(d, m)
<1>1. ToSet(messages') = ToSet(messages) \union {r}
  BY ToSetOfMore DEF TypeInv, TypeOK
<1> QED
  BY <1>1 DEF Sent, Posted

\* The players other than c, when its N64 does something: the game goes on for them.
LEMMA OthersPlayOn ==
    ASSUME AllInv, Playing, pc = "loop", NEW c \in Clients, NEW d \in Clients \ {c},
           d \in {players[1], players[2]},
           Callback(c) \/ ChangeStage(c) \/ ToggleReady(c) \/ MakeMove(c)
    PROVE  /\ Follows(d)' /\ Knowing(d)'
           /\ NotItsTurn(d) => NotItsTurn(d)'
           /\ ~MakeMove(c) /\ (IsTold(d) \/ CanMove(d) \/ HasMoved(d))
                => (IsTold(d) \/ CanMove(d) \/ HasMoved(d))'
<1>1. /\ TypeInv /\ SeatInv /\ BothSeated /\ PlayingInv
      /\ Follows(d) /\ Knowing(d)
  BY DEF AllInv, TypeInv, PlayInv, Playing, PlayingInv, Seats
<1>2. /\ UNCHANGED <<turn, board, pc, move, number>>
      /\ inbox'[d] = inbox[d] /\ view'[d] = view[d]
  BY <1>1, N64Leaves
<1>3. client[c] = "connected" => number[c] \in Seats /\ number[d] \in Seats /\ number[c] # number[d]
  BY <1>1, SeatFacts DEF SeatInv, Owned, Seats
<1>4. CASE Callback(c) \/ ChangeStage(c)
  <2>1. messages' = messages
    BY <1>4 DEF Callback, ChangeStage, game
  <2>2. \A m \in Cells \X Cells : Sent(d, m)' <=> Sent(d, m)
    BY <1>2, <2>1 DEF Sent, Posted
  <2> QED
    BY <1>1, <1>2, <2>1, <2>2, OtherFollows, OtherTurns
<1>5. CASE ToggleReady(c)
  <2>1. PICK r \in Messages : r.type = "READY" /\ r.sender = number[c] /\ messages' = Append(messages, r)
    <3>1. number[c] \in Seats /\ view[c] \in Views
      BY <1>1, <1>3, <1>5 DEF ToggleReady, TypeInv, TypeOK
    <3>2. [type |-> "READY", sender |-> number[c], board |-> NoOne, cell |-> NoOne,
           ready |-> ~view[c].isready] \in Messages
      BY <3>1 DEF Messages, Views
    <3> QED
      BY <1>5, <3>2 DEF ToggleReady, Post
  <2>2. \A m \in Cells \X Cells : Sent(d, m)' <=> Sent(d, m)
    BY <1>1, <1>2, <1>3, <1>5, <2>1, NotSentByOther DEF ToggleReady
  <2> QED
    BY <1>1, <1>2, <2>1, <2>2, OtherFollows, OtherTurns
<1>6. CASE MakeMove(c)
  <2>1. PICK m \in Playable(view[c]) : Post(c, "MOVE", m[1], m[2], FALSE)
    BY <1>6 DEF MakeMove
  <2>2. client[c] = "connected" /\ MyTurn(c)
    BY <1>6 DEF MakeMove
  <2>3. m \in Cells \X Cells
    BY <2>2, MoveIsGood
  <2>4. PICK r \in Messages : r.type = "MOVE" /\ r.sender = number[c] /\ messages' = Append(messages, r)
    <3>1. [type |-> "MOVE", sender |-> number[c], board |-> m[1], cell |-> m[2], ready |-> FALSE]
             \in Messages
      BY <1>3, <2>2, <2>3 DEF Messages
    <3> QED
      BY <2>1, <3>1 DEF Post
  <2>5. \A t \in Cells \X Cells : Sent(d, t)' <=> Sent(d, t)
    BY <1>1, <1>2, <1>3, <2>2, <2>4, NotSentByOther
  <2>6. NotItsTurn(d) => NotItsTurn(d)'
    BY <1>2 DEF NotItsTurn, DoesNotMove, Coming
  <2> QED
    BY <1>1, <1>2, <1>6, <2>5, <2>6, OtherFollows
<1> QED
  BY <1>4, <1>5, <1>6

\* A player's N64 does something: it follows the game as before.
LEMMA EntersGame ==
    ASSUME AllInv, Playing, pc = "loop", NEW c \in Clients, Follows(c), Knowing(c), ChangeStage(c),
           number[c] \in Seats
    PROVE  /\ Follows(c)' /\ Knowing(c)'
           /\ NotItsTurn(c) => NotItsTurn(c)'
           /\ IsTold(c) \/ CanMove(c) \/ HasMoved(c) => IsTold(c)'
<1>1. /\ UNCHANGED <<turn, board, pc, move, number, messages, inbox>>
      /\ view[c] \in Views /\ view' \in [Clients -> Views \union {GameStage(view[c]), LobbyStage(view[c])}]
      /\ view'[c] = IF view[c].next = "game" THEN GameStage(view[c]) ELSE LobbyStage(view[c])
  BY DEF AllInv, TypeInv, TypeOK, ChangeStage, game, thread, clients
<1>2. Enters(c)
  BY DEF Follows, IsIn, Waits, ChangeStage
<1>3. view'[c] = GameStage(view[c])
  BY <1>1, <1>2 DEF Enters
<1>4. /\ view'[c].stage = "game" /\ view'[c].next = "none" /\ view'[c].playing
      /\ view'[c].turn = 0 /\ view'[c].taken = {} /\ view'[c].complete = {}
  BY <1>1, <1>3 DEF GameStage, Views
<1>5. IsIn(c)'
  BY <1>1, <1>2, <1>4 DEF IsIn, Enters, Coming
<1>6. /\ \A m \in Cells \X Cells : Knows(c, m)' <=> Knows(c, m)
      /\ \A b \in Cells : KnowsDone(c, b)' <=> KnowsDone(c, b)
  BY <1>1, <1>2, <1>4 DEF Knows, KnowsDone, Coming, Enters
<1>7. Knowing(c)'
  BY <1>1, <1>6 DEF Knowing, Sent, Posted
<1>8. DoesNotMove(c)'
  BY <1>1, <1>4 DEF DoesNotMove, Seats
<1>9. NotItsTurn(c) => NotItsTurn(c)'
  BY <1>1, <1>8 DEF NotItsTurn, Coming
<1>10. IsTold(c) => IsTold(c)'
  BY <1>1, <1>8 DEF IsTold, NoMovePosted, Posted
<1>11. ~CanMove(c) /\ ~HasMoved(c)
  BY <1>2 DEF Enters, CanMove, HasMoved
<1> QED
  BY <1>5, <1>7, <1>9, <1>10, <1>11 DEF Follows

LEMMA TogglesInLobby ==
    ASSUME AllInv, Playing, pc = "loop", NEW c \in Clients, Follows(c), Knowing(c), ToggleReady(c),
           number[c] \in Seats
    PROVE  /\ Follows(c)' /\ Knowing(c)'
           /\ NotItsTurn(c) => NotItsTurn(c)'
           /\ IsTold(c) \/ CanMove(c) \/ HasMoved(c) => IsTold(c)'
<1>1. /\ UNCHANGED <<turn, board, pc, move, number, inbox>>
      /\ view[c] \in Views /\ messages \in Seq(Messages) /\ view[c].stage = "lobby"
      /\ view'[c] = [view[c] EXCEPT !.isready = ~@]
  BY DEF AllInv, TypeInv, TypeOK, ToggleReady, thread, clients
<1>2. /\ view'[c].stage = "lobby" /\ view'[c].next = view[c].next
  BY <1>1 DEF Views
<1>3. PICK r \in Messages : r.type = "READY" /\ messages' = Append(messages, r)
  <2>1. [type |-> "READY", sender |-> number[c], board |-> NoOne, cell |-> NoOne,
         ready |-> ~view[c].isready] \in Messages
    BY <1>1 DEF Messages, Views
  <2> QED
    BY <2>1 DEF ToggleReady, Post
<1>4. ToSet(messages') = ToSet(messages) \union {r}
  BY <1>1, <1>3, ToSetOfMore
<1>5. (Enters(c) => Enters(c)') /\ (Waits(c) => Waits(c)') /\ ~IsIn(c)
  BY <1>1, <1>2 DEF Enters, Waits, IsIn, Coming
<1>6. /\ \A m \in Cells \X Cells : Knows(c, m)' <=> Knows(c, m)
      /\ \A b \in Cells : KnowsDone(c, b)' <=> KnowsDone(c, b)
  BY <1>1, <1>2 DEF Knows, KnowsDone, Coming
<1>7. \A m \in Cells \X Cells : Sent(c, m)' <=> Sent(c, m)
  BY <1>1, <1>3, <1>4 DEF Sent, Posted
<1>8. Knowing(c)'
  BY <1>1, <1>6, <1>7 DEF Knowing
<1>9. DoesNotMove(c)' /\ (NoMovePosted => NoMovePosted')
  BY <1>2, <1>3, <1>4 DEF DoesNotMove, NoMovePosted, Posted
<1>10. NotItsTurn(c) => NotItsTurn(c)'
  BY <1>1, <1>9 DEF NotItsTurn, Coming
<1>11. IsTold(c) => IsTold(c)'
  BY <1>1, <1>9 DEF IsTold
<1>12. ~CanMove(c) /\ ~HasMoved(c)
  BY <1>1 DEF CanMove, HasMoved
<1> QED
  BY <1>5, <1>8, <1>10, <1>11, <1>12 DEF Follows

LEMMA MakesMove ==
    ASSUME AllInv, Playing, pc = "loop", NEW c \in Clients, Follows(c), Knowing(c), MakeMove(c),
           number[c] \in Seats
    PROVE  /\ Follows(c)' /\ Knowing(c)' /\ HasMoved(c)'
           /\ c = players[Mover] /\ CanMove(c)
<1>1. PICK m \in Playable(view[c]) :
         /\ view' = [view EXCEPT ![c].taken = @ \union {m}, ![c].turn = 0]
         /\ Post(c, "MOVE", m[1], m[2], FALSE)
  BY DEF MakeMove
<1>2. client[c] = "connected" /\ MyTurn(c) /\ UNCHANGED <<turn, board, pc, move, number, inbox>>
  BY DEF MakeMove, thread, clients
<1>3. /\ c = players[Mover] /\ CanMove(c)
      /\ m \in Cells \X Cells /\ ~Finished(board, m[1]) /\ WasValid(board, m[1], m[2])
  BY <1>1, <1>2, MoveIsGood
<1>4. /\ view \in [Clients -> Views] /\ messages \in Seq(Messages)
      /\ inbox[c] = <<>> /\ view[c].stage = "game" /\ NoMovePosted
  BY <1>3 DEF AllInv, TypeInv, TypeOK, CanMove
<1>5. /\ view'[c].stage = "game" /\ view'[c].next = view[c].next /\ view'[c].playing = view[c].playing
      /\ view'[c].turn = 0 /\ view'[c].taken = view[c].taken \union {m}
      /\ view'[c].complete = view[c].complete
  <2>1. view'[c] = [view[c] EXCEPT !.taken = view[c].taken \union {m}, !.turn = 0]
    BY <1>1, <1>4
  <2>2. view[c] \in Views
    BY <1>4
  <2> QED
    BY <1>4, <2>1, <2>2 DEF Views
<1>6. PICK r \in Messages : /\ r.type = "MOVE" /\ r.sender = number[c] /\ r.board = m[1] /\ r.cell = m[2]
                            /\ messages' = Append(messages, r)
  <2>1. [type |-> "MOVE", sender |-> number[c], board |-> m[1], cell |-> m[2], ready |-> FALSE]
           \in Messages
    BY <1>3 DEF Messages
  <2> QED
    BY <1>1, <2>1 DEF Post
<1>7. ToSet(messages') = ToSet(messages) \union {r}
  BY <1>4, <1>6, ToSetOfMore
<1>8. Follows(c)'
  <2>1. IsIn(c)
    BY <1>4 DEF Follows, Enters, Waits
  <2>2. view'[c].playing
    BY <1>5, <2>1, Zenon DEF IsIn
  <2> QED
    BY <1>2, <1>5, <2>1, <2>2 DEF IsIn, Follows, Coming
<1>9. ASSUME NEW t \in Cells \X Cells
      PROVE  (Taken(board, t) \/ Sent(c, t))' <=> Knows(c, t)'
  <2>1. Taken(board, t) \/ Sent(c, t) <=> Knows(c, t)
    BY DEF Knowing
  <2>2. Sent(c, t)' <=> Sent(c, t) \/ t = m
    <3>1. t = m <=> r.board = t[1] /\ r.cell = t[2]
      BY <1>3, <1>6
    <3> QED
      BY <1>2, <1>6, <1>7, <3>1 DEF Sent, Posted
  <2>3. Knows(c, t)' <=> Knows(c, t) \/ t = m
    BY <1>2, <1>4, <1>5 DEF Knows, Coming
  <2> QED
    BY <1>2, <2>1, <2>2, <2>3 DEF Taken
<1>10. ASSUME NEW b \in Cells
       PROVE  Finished(board, b)' <=> KnowsDone(c, b)'
  BY <1>2, <1>4, <1>5 DEF Knowing, KnowsDone, Coming, Finished
<1>11. Knowing(c)'
  BY <1>9, <1>10 DEF Knowing
<1>12. HasMoved(c)'
  <2> DEFINE n == Len(messages) + 1
  <2>1. n \in DOMAIN messages' /\ messages'[n] = r
    BY <1>4, <1>6, AppendFacts
  <2>2. ASSUME NEW j \in DOMAIN messages', messages'[j].type = "MOVE" PROVE j = n
    <3>1. /\ DOMAIN messages' = 1..(Len(messages) + 1) /\ Len(messages) \in Nat
          /\ \A i \in DOMAIN messages : messages'[i] = messages[i]
          /\ DOMAIN messages = 1..Len(messages)
      BY <1>4, <1>6, AppendFacts
    <3>2. j \in DOMAIN messages => messages[j] \in Posted
      BY <1>4, ToSetFacts DEF Posted
    <3>3. j \notin DOMAIN messages
      BY <1>4, <2>2, <3>1, <3>2 DEF NoMovePosted
    <3> QED
      BY <3>1, <3>3
  <2> HIDE DEF n
  <2> QED
    BY <1>2, <1>3, <1>4, <1>5, <1>6, <2>1, <2>2 DEF HasMoved
<1> QED
  BY <1>3, <1>8, <1>11, <1>12

LEMMA PlayerPlaysOn ==
    ASSUME AllInv, TypeInv', Playing, pc = "loop", hasty' = {}, NEW c \in {players[1], players[2]},
           Callback(c) \/ ChangeStage(c) \/ ToggleReady(c) \/ MakeMove(c)
    PROVE  /\ Follows(c)' /\ Knowing(c)'
           /\ NotItsTurn(c) => NotItsTurn(c)'
           /\ IsTold(c) \/ CanMove(c) \/ HasMoved(c) => (IsTold(c) \/ CanMove(c) \/ HasMoved(c))'
<1>1. /\ TypeInv /\ PlayingInv /\ env.prompt /\ SeatInv /\ BothSeated
      /\ c \in Clients /\ number[c] \in Seats /\ Follows(c) /\ Knowing(c)
  BY SeatFacts DEF AllInv, TypeInv, PlayInv, Playing, PlayingInv, Seats
<1>2. CASE Callback(c)
  BY <1>1, <1>2, CallbackFollows, CallbackTurns
<1>3. CASE ChangeStage(c)
  BY <1>1, <1>3, EntersGame
<1>4. CASE ToggleReady(c)
  BY <1>1, <1>4, TogglesInLobby
<1>5. CASE MakeMove(c)
  <2>1. Follows(c)' /\ Knowing(c)' /\ HasMoved(c)' /\ CanMove(c)
    BY <1>1, <1>5, MakesMove
  <2>2. ~NotItsTurn(c)
    BY <2>1 DEF CanMove, NotItsTurn, DoesNotMove
  <2> QED
    BY <2>1, <2>2
<1> QED
  BY <1>2, <1>3, <1>4, <1>5

\* The game goes on, whatever an N64 does.
LEMMA N64PlaysOn ==
    ASSUME AllInv, TypeInv', NEW c \in Clients, env.prompt, clean, hasty' = {},
           Callback(c) \/ ChangeStage(c) \/ ToggleReady(c) \/ MakeMove(c)
    PROVE  Counted(board)' /\ EndsWell' /\ (Playing' => PlayingInv')
<1>1. /\ UNCHANGED <<players, state, turn, board, pc, who, move, client, number, env, clean>>
      /\ pc \in Sleeps /\ hasty = {}
  BY N64Leaves DEF AtRest
<1>2. Counted(board) /\ EndsWell
  BY <1>1 DEF AllInv, PlayInv
<1>3. Counted(board)' /\ EndsWell'
  BY <1>1, <1>2 DEF Counted, Finished, EndsWell, BothSeated
<1>4. SUFFICES ASSUME Playing' PROVE PlayingInv'
  BY <1>3
<1>5. Playing /\ pc = "loop"
  BY <1>1, <1>4 DEF Playing, BothSeated, Sleeps, InGame
<1>6. SeatInv /\ BothSeated /\ PlayingInv /\ Turns
  BY <1>5 DEF AllInv, TypeInv, PlayInv, Playing, PlayingInv
<1>7. /\ Mover \in Seats /\ 3 - Mover \in Seats /\ 3 - Mover # Mover
      /\ \A i \in Seats : i = Mover \/ i = 3 - Mover
      /\ ~BoardFinished(board)
  BY <1>5, LoopFacts
<1>8. Mover' = Mover /\ TurnGiven' = TurnGiven /\ pc \in TurnGiven
  BY <1>1, <1>5 DEF Mover, TurnGiven
<1>9. PICK d \in Clients, e \in Clients :
         d = players[Mover] /\ e = players[3 - Mover] /\ d # e
         /\ d \in {players[1], players[2]} /\ e \in {players[1], players[2]}
  BY <1>6, <1>7, SeatFacts DEF Seats
<1>10. (IsTold(d) \/ CanMove(d) \/ HasMoved(d)) /\ NotItsTurn(e)
  BY <1>6, <1>8, <1>9 DEF Turns
<1>11. MakeMove(c) => c = d
  <2>1. ASSUME MakeMove(c) PROVE c = d
    <3>1. PICK m \in Playable(view[c]) : TRUE
      BY <2>1 DEF MakeMove
    <3>2. client[c] = "connected" /\ MyTurn(c)
      BY <2>1 DEF MakeMove
    <3> QED
      BY <1>5, <1>9, <3>1, <3>2, MoveIsGood
  <2> QED
    BY <2>1
<1>12. Follows(d)' /\ Knowing(d)' /\ (IsTold(d) \/ CanMove(d) \/ HasMoved(d))'
  <2>1. CASE c = d
    BY <1>5, <1>9, <1>10, <2>1, PlayerPlaysOn
  <2>2. CASE c # d
    <3>1. Follows(d)' /\ Knowing(d)'
      BY <1>5, <1>9, <2>2, OthersPlayOn
    <3>2. ~MakeMove(c)
      BY <1>11, <2>2
    <3> QED
      BY <1>5, <1>9, <1>10, <2>2, <3>1, <3>2, OthersPlayOn
  <2> QED
    BY <2>1, <2>2
<1>13. Follows(e)' /\ Knowing(e)' /\ NotItsTurn(e)'
  <2>1. CASE c = e
    BY <1>5, <1>9, <1>10, <2>1, PlayerPlaysOn
  <2>2. CASE c # e
    BY <1>5, <1>9, <1>10, <2>2, OthersPlayOn
  <2> QED
    BY <2>1, <2>2
<1>14. \A i \in Seats : Follows(players[i])' /\ Knowing(players[i])'
  <2>1. d = players'[Mover] /\ e = players'[3 - Mover]
    BY <1>1, <1>9
  <2> QED
    BY <1>7, <1>12, <1>13, <2>1
<1>15. Turns'
  <2>1. pc' \in TurnGiven' /\ d = players'[Mover'] /\ e = players'[3 - Mover']
    BY <1>1, <1>8, <1>9
  <2> QED
    BY <1>12, <1>13, <2>1 DEF Turns
<1> QED
  BY <1>1, <1>5, <1>7, <1>14, <1>15 DEF PlayingInv

-----------------------------------------------------------------------------
(* The steps of the clients' threads *)

\* Nobody plays on when a client comes or goes.
LEMMA ComingEndsPlay ==
    ASSUME AllInv, NEW c \in Clients, env.prompt, clean, hasty = {},
           Connect(c) \/ Leave(c) \/ ClientThread(c)
    PROVE  Counted(board)' /\ EndsWell' /\ ~Playing'
<1>1. UNCHANGED <<board, pc, env, clean>>
  BY DEF Connect, Leave, ClientThread, LookAtState, ClearTurn, EndGame, game, thread, history
<1>2. Counted(board) /\ EndsWell /\ Prompt /\ SeatInv
  BY DEF AllInv, TypeInv, ThreadInv, PlayInv
<1>3. Counted(board)'
  BY <1>1, <1>2 DEF Counted, Finished
<1>4. CASE Connect(c)
  <2>1. state' = state /\ pc \in {"lobby", "ended"}
    BY <1>4 DEF Connect, AtRest, Sleeps, game
  <2> QED
    BY <1>1, <1>2, <1>3, <2>1 DEF EndsWell, Playing, InGame
<1>5. CASE Leave(c)
  <2>1. state' = state /\ pc \in Sleeps
    BY <1>5 DEF Leave, AtRest, game
  <2>2. number[c] \in Seats /\ players' = [players EXCEPT ![number[c]] = NoOne]
    BY <1>2, <1>5 DEF Leave, SeatInv, Owned
  <2>3. ~BothSeated'
    BY <1>2, <2>2 DEF BothSeated, SeatInv, SeatTypes
  <2> QED
    BY <1>1, <1>2, <1>3, <2>1, <2>3 DEF EndsWell, Playing, Sleeps
<1>6. CASE ClientThread(c)
  <2>1. players' = players /\ state' \in {state, "ENDED_DISCONNECT"} /\ Locked
    BY <1>6 DEF ClientThread, LookAtState, ClearTurn, EndGame, game, Locked
  <2>2. ~BothSeated /\ ~BothSeated'
    BY <2>1 DEF AllInv, ThreadInv, OneAtATime, BothSeated
  <2> QED
    BY <1>1, <1>2, <1>3, <2>1, <2>2 DEF EndsWell, Playing
<1> QED
  BY <1>4, <1>5, <1>6

-----------------------------------------------------------------------------
(* The steps of the game thread *)

\* The turn is always that of somebody with a number.
LEMMA NumberedStep ==
    ASSUME AllInv, [Next]_vars
    PROVE  Numbered'
<1>0. /\ SeatInv /\ Numbered
      /\ number \in [Clients -> 0..2] /\ turn \in Anybody /\ who \in Anybody
  BY DEF AllInv, TypeInv, TypeOK, PlayInv
<1>1. CASE UNCHANGED <<turn, who, number>>
  BY <1>0, <1>1 DEF Numbered
<1>2. ASSUME NEW c \in Clients, ClearTurn(c) PROVE Numbered'
  BY <1>0, <1>2 DEF ClearTurn, thread, Numbered
<1>3. ASSUME NEW c \in Clients, Connect(c) PROVE Numbered'
  <2>1. PICK i \in Seats : number' = [number EXCEPT ![c] = i]
    BY <1>3 DEF Connect
  <2>2. UNCHANGED <<turn, who>>
    BY <1>3 DEF Connect, game, thread
  <2>3. \A d \in Clients : number[d] \in Seats => number'[d] \in Seats
    BY <1>0, <2>1
  <2> QED
    BY <1>0, <2>2, <2>3 DEF Numbered, Anybody
<1>4. \A i \in Seats : players[i] # NoOne => number[players[i]] \in Seats
  BY <1>0 DEF SeatInv, Owned
<1>5. CASE ChooseFirst
  <2>1. turn' = (IF turn = NoOne THEN players[1] ELSE turn) /\ UNCHANGED <<who, number>>
    BY <1>5 DEF ChooseFirst, clients
  <2> QED
    BY <1>0, <1>4, <2>1 DEF Numbered, Seats
<1>6. CASE AnnounceFirst \/ NextTurn
  <2>1. UNCHANGED <<turn, number>>
    BY <1>6 DEF AnnounceFirst, NextTurn, game, clients
  <2>2. who' \in {who, turn, players[1], players[2]}
    BY <1>6 DEF AnnounceFirst, NextTurn, TellTurn
  <2> QED
    BY <1>0, <1>4, <2>1, <2>2 DEF Numbered, Seats
<1>7. CASE AssignTurn
  BY <1>0, <1>7 DEF AssignTurn, clients, Numbered
<1>8. ASSUME ~UNCHANGED <<turn, who, number>>
      PROVE  \/ ChooseFirst \/ AnnounceFirst \/ AssignTurn \/ NextTurn
             \/ \E c \in Clients : Connect(c) \/ ClearTurn(c)
  <2>1. ~UNCHANGED vars
    BY <1>8 DEF vars, game, thread, clients
  <2>2. CASE GameThread
    BY <1>8, <2>2 DEF GameThread, EnterLobby, WaitForPlayers, HandleReady, GetReady, StartGame,
           PrintTurn, CheckState, NoPacket, TakePacket, NotifyMove, EndRound, StartOver, clients, game
  <2>3. ASSUME NEW c \in Clients, ClientThread(c) \/ N64(c) \/ User(c)
        PROVE  Connect(c) \/ ClearTurn(c)
    BY <1>8, <2>3 DEF ClientThread, N64, User, LookAtState, EndGame, Leave, Callback, ChangeStage, ToggleReady,
           MakeMove, clients, game, thread
  <2> QED
    BY <2>1, <2>2, <2>3 DEF Next
<1> QED
  BY <1>1, <1>2, <1>3, <1>5, <1>6, <1>7, <1>8

\* What the game thread leaves alone.
LEMMA ThreadLeaves ==
    ASSUME GameThread
    PROVE  /\ UNCHANGED <<players, client, number, env, view>> /\ Awake
           /\ BothSeated' <=> BothSeated
  BY DEF GameThread, EnterLobby, WaitForPlayers, HandleReady, GetReady, StartGame, ChooseFirst,
         AnnounceFirst, AssignTurn, PrintTurn, CheckState, NoPacket, TakePacket, NotifyMove,
         NextTurn, EndRound, StartOver, clients, n64, BothSeated

\* Outside the games.
LEMMA BetweenGames ==
    ASSUME AllInv, env.prompt, clean, hasty = {},
           EnterLobby \/ WaitForPlayers \/ HandleReady \/ GetReady \/ StartOver
    PROVE  Counted(board)' /\ EndsWell' /\ ~Playing'
<1>1. board' = board /\ (state' = state \/ state' \in {"LOBBY", "READY"})
      /\ pc' \in {"lobby", "full", "starting", "top"}
  BY DEF EnterLobby, WaitForPlayers, HandleReady, GetReady, StartOver, ChangeGameState, game
<1>2. Counted(board) /\ EndsWell
  BY DEF AllInv, PlayInv
<1> QED
  BY <1>1, <1>2 DEF Counted, Finished, EndsWell, Playing, InGame

\* The end of a game.
LEMMA GameEnds ==
    ASSUME AllInv, env.prompt, clean, hasty = {}, EndRound
    PROVE  Counted(board)' /\ EndsWell' /\ ~Playing'
<1>1. /\ board' = board /\ pc = "over" /\ pc' = "ended"
      /\ state' = "ENDED_TIE" => board.winner = NoOne /\ Full
  BY DEF EndRound, ChangeGameState
<1>2. Counted(board) /\ EndsWell /\ board \in LargeBoards
  BY DEF AllInv, PlayInv, TypeInv, TypeOK
<1>3. state' = "ENDED_TIE" => \A b \in Cells : Finished(board, b)
  BY <1>1, <1>2, FullSeats, SomethingToPlay DEF EndsWell
<1> QED
  BY <1>1, <1>2, <1>3 DEF Counted, Finished, EndsWell, Playing, InGame

\* A game starts: both N64s have yet to be told.
LEMMA GameStarts ==
    ASSUME AllInv, TypeInv', ThreadInv, env.prompt, clean', StartGame
    PROVE  Counted(board)' /\ EndsWell' /\ PlayingInv'
<1>1. /\ UNCHANGED <<players, messages, number, view>> /\ CleanStart
      /\ board' = EmptyBoard /\ pc' = "first" /\ state' = "PLAYING"
      /\ inbox' = Told(Seated, <<State("PLAYING")>>)
  BY DEF StartGame, ChangeGameState, clients, n64
<1>2. Counted(board)' /\ EndsWell'
  <2>1. Counted(board')
    BY <1>1, EmptyBoardFacts
  <2> QED
    BY <1>1, <2>1 DEF Counted, Finished, EndsWell
<1>3. /\ SeatInv /\ BothSeated /\ TypeOK
  BY <1>1 DEF AllInv, TypeInv, ThreadInv, Safe, Exposed, CleanStart, StartGame
<1>4. NoMovePosted'
  <2>1. \A p \in ToSet(messages) : \E k \in DOMAIN messages : messages[k] = p
    BY <1>3, ToSetFacts DEF TypeOK
  <2> QED
    BY <1>1, <2>1 DEF NoMovePosted, Posted, CleanStart
<1>5. State("PLAYING") \in Packets /\ State("PLAYING").type = "STATE" /\ State("PLAYING").state = "PLAYING"
  BY DEF State, Packets, States, Anywhere
<1>6. ASSUME NEW d \in {players[1], players[2]}
      PROVE  Follows(d)' /\ Knowing(d)' /\ NotItsTurn(d)'
  <2>1. /\ d \in Clients /\ d \in Seated /\ view[d].stage = "lobby" /\ view[d].next = "none"
        /\ \A k \in DOMAIN inbox[d] : ~OfGame(inbox[d][k])
        /\ inbox[d] \in Seq(Packets)
    <3>1. d \in Clients /\ d \in Seated
      BY <1>3, SeatFacts DEF Seats
    <3>2. inbox[d] \in Seq(Packets)
      BY <1>3, <3>1 DEF TypeOK
    <3> QED
      BY <1>1, <3>1, <3>2 DEF CleanStart
  <2>2. inbox'[d] = Append(inbox[d], State("PLAYING"))
    <3>1. inbox'[d] = inbox[d] \o <<State("PLAYING")>>
      BY <1>1, <2>1 DEF Told
    <3> QED
      BY <1>5, <2>1, <3>1
  <2>3. /\ DOMAIN inbox'[d] = 1..(Len(inbox[d]) + 1) /\ DOMAIN inbox[d] = 1..Len(inbox[d])
        /\ inbox'[d][Len(inbox[d]) + 1] = State("PLAYING")
        /\ \A k \in DOMAIN inbox[d] : inbox'[d][k] = inbox[d][k]
        /\ Len(inbox[d]) \in Nat
    BY <1>5, <2>1, <2>2, AppendFacts
  <2>4. Waits(d)'
    <3> DEFINE n == Len(inbox[d]) + 1
    <3>1. n \in DOMAIN inbox'[d] /\ Starts(inbox'[d][n])
      BY <1>5, <2>3 DEF Starts
    <3>2. ASSUME NEW k \in DOMAIN inbox'[d]
          PROVE  (k < n => ~OfGame(inbox'[d][k])) /\ ~(k > n)
      BY <2>1, <2>3
    <3> HIDE DEF n
    <3> QED
      BY <1>1, <2>1, <3>1, <3>2 DEF Waits
  <2>5. \A p \in Coming(d)' : p.type \notin {"TURN", "MOVE", "DONE"}
    <3>1. ToSet(inbox'[d]) = ToSet(inbox[d]) \union {State("PLAYING")}
      BY <1>5, <2>1, <2>2, ToSetOfMore
    <3>2. \A p \in ToSet(inbox[d]) : \E k \in DOMAIN inbox[d] : inbox[d][k] = p
      BY <2>1, ToSetFacts
    <3> QED
      BY <1>5, <2>1, <3>1, <3>2 DEF Coming, OfGame
  <2>6. ASSUME NEW m \in Cells \X Cells
        PROVE  ~Knows(d, m)' /\ ~Sent(d, m)' /\ ~Taken(board', m)
    BY <1>1, <1>4, <2>1, <2>5, EmptyBoardFacts DEF Knows, Sent, SaysMove, NoMovePosted
  <2>7. ASSUME NEW b \in Cells
        PROVE  ~KnowsDone(d, b)' /\ ~Finished(board', b)
    BY <1>1, <2>1, <2>5, EmptyBoardFacts DEF KnowsDone, SaysDone
  <2>8. Knowing(d)'
    BY <2>6, <2>7 DEF Knowing, Taken, Finished
  <2>9. NotItsTurn(d)'
    BY <1>1, <2>1, <2>5 DEF NotItsTurn, DoesNotMove, SaysTurn
  <2> QED
    BY <2>4, <2>8, <2>9 DEF Follows
<1>7. \A i \in Seats : Follows(players[i])' /\ Knowing(players[i])' /\ NotItsTurn(players[i])'
  <2> SUFFICES ASSUME NEW i \in Seats
               PROVE  Follows(players[i])' /\ Knowing(players[i])' /\ NotItsTurn(players[i])'
    OBVIOUS
  <2>1. PICK d \in {players[1], players[2]} : d = players[i] /\ d = players'[i]
    BY <1>1 DEF Seats
  <2> QED
    BY <1>6, <2>1
<1> QED
  BY <1>1, <1>2, <1>4, <1>7 DEF PlayingInv, Turns, TurnGiven

\* In a game the game thread takes its steps between two players.
LEMMA InAGame ==
    ASSUME AllInv, env.prompt, clean, hasty = {}, GameThread, pc \in InGame \union {"loop"}, state = "PLAYING"
    PROVE  /\ Playing /\ PlayingInv /\ Counted(board) /\ EndsWell /\ BothSeated /\ SeatInv /\ TypeOK
           /\ Prompt /\ Safe
<1>1. Prompt /\ ~Locked
  BY ThreadLeaves DEF AllInv, ThreadInv, Awake
<1>2. Safe
  BY <1>1 DEF AllInv, ThreadInv, Prompt
<1>3. BothSeated
  BY <1>1, <1>2 DEF Safe, Exposed, InGame
<1> QED
  BY <1>1, <1>2, <1>3 DEF AllInv, TypeInv, PlayInv, Playing

\* The steps that only look: nobody is told of anything.
LEMMA QuietSteps ==
    ASSUME AllInv, env.prompt, clean, hasty = {},
           ChooseFirst \/ AssignTurn \/ PrintTurn \/ CheckState \/ NoPacket
    PROVE  Counted(board)' /\ EndsWell' /\ (Playing' => PlayingInv')
<1>1. /\ UNCHANGED <<players, state, board, messages, inbox, view, move, number, env, clean, hasty>>
      /\ GameThread /\ pc \in InGame \union {"loop"} /\ pc # "moved" /\ pc' # "moved"
  BY DEF ChooseFirst, AssignTurn, PrintTurn, CheckState, NoPacket, game, clients, n64, history,
         GameThread, InGame
<1>2. Counted(board) /\ EndsWell /\ Prompt /\ (BothSeated' <=> BothSeated) /\ ~Locked
  BY <1>1, ThreadLeaves DEF AllInv, ThreadInv, PlayInv, Awake
<1>0. \/ pc = "first" /\ pc' = "announce"
      \/ /\ pc = "assign" /\ turn' = who
         /\ \/ pc' = "over" /\ BoardFinished(board)
            \/ pc' = "print" /\ ~BoardFinished(board)
      \/ turn' = turn /\ pc = "print" /\ pc' = "loop"
      \/ turn' = turn /\ pc = "loop" /\ state # "PLAYING" /\ pc' = "over"
      \/ turn' = turn /\ pc = "loop" /\ pc' = "poll"
      \/ turn' = turn /\ pc = "poll" /\ pc' = "loop"
  <2>1. CASE ChooseFirst \/ CheckState \/ NoPacket
    BY <2>1 DEF ChooseFirst, CheckState, NoPacket, game
  <2>2. CASE AssignTurn
    BY <2>2 DEF AssignTurn
  <2>3. CASE PrintTurn
    <3>1. Safe /\ pc = "print"
      BY <1>1, <1>2, <2>3 DEF PrintTurn, AllInv, ThreadInv, Prompt, InGame
    <3> QED
      BY <2>3, <3>1 DEF PrintTurn, game, Safe
  <2> QED
    BY <2>1, <2>2, <2>3
<1>3. Counted(board)'
  BY <1>1, <1>2 DEF Counted, Finished
<1>4. EndsWell'
  <2>1. pc' = "over" => BoardFinished(board) \/ (pc = "loop" /\ state # "PLAYING")
    BY <1>0
  <2>2. pc = "loop" /\ state # "PLAYING" => ~BothSeated
    BY <1>2 DEF Prompt
  <2> QED
    BY <1>1, <1>2, <2>1, <2>2 DEF EndsWell, BoardFinished, Finished
<1>5. SUFFICES ASSUME Playing' PROVE PlayingInv'
  BY <1>3, <1>4
<1>6. Playing /\ PlayingInv /\ SeatInv /\ BothSeated
  BY <1>1, <1>5, InAGame DEF Playing
<1>7. ASSUME NEW d \in {players[1], players[2]}, Follows(d), Knowing(d)
      PROVE  Follows(d)' /\ Knowing(d)'
  <2>1. Follows(d)'
    BY <1>1, <1>7 DEF Follows, IsIn, Enters, Waits, Coming
  <2>2. (\A m \in Cells \X Cells : Knows(d, m)' <=> Knows(d, m))
        /\ (\A b \in Cells : KnowsDone(d, b)' <=> KnowsDone(d, b))
    BY <1>1 DEF Knows, KnowsDone, Coming
  <2> QED
    BY <1>1, <1>7, <2>1, <2>2 DEF Knowing, Sent, Posted
<1>8. \A i \in Seats : Follows(players[i])' /\ Knowing(players[i])'
  <2> SUFFICES ASSUME NEW i \in Seats PROVE Follows(players[i])' /\ Knowing(players[i])'
    OBVIOUS
  <2>1. PICK d \in {players[1], players[2]} : d = players[i] /\ d = players'[i]
    BY <1>1 DEF Seats
  <2>2. Follows(d) /\ Knowing(d)
    BY <1>6, <2>1 DEF PlayingInv
  <2> QED
    BY <1>7, <2>1, <2>2
<1>9. Turns'
  <2>1. Turns
    BY <1>6 DEF PlayingInv
  <2>2. (pc \in TurnGiven <=> pc' \in TurnGiven) \/ pc' = "over"
    BY <1>0 DEF TurnGiven
  <2>3. pc \in TurnGiven => Mover' = Mover
    BY <1>0, <1>1 DEF TurnGiven, Mover
  <2>4. pc' # "over"
    BY <1>5 DEF Playing, InGame
  <2> QED
    BY <1>1, <2>1, <2>2, <2>3, <2>4 DEF Turns, TurnGiven, IsTold, CanMove, HasMoved, NotItsTurn,
       NoMovePosted, DoesNotMove, Coming, Posted
<1>10. pc' \in {"print", "loop", "poll"} => ~BoardFinished(board)
  BY <1>0, <1>6 DEF PlayingInv
<1> QED
  BY <1>1, <1>8, <1>9, <1>10 DEF PlayingInv, BoardFinished

\* An N64 that is sent more packets of the game follows it as before.
LEMMA HearsMore ==
    ASSUME TypeInv, NEW d \in Clients, Follows(d), NEW q \in Seq(Packets),
           \A p \in ToSet(q) : InPlay(p), inbox'[d] = inbox[d] \o q, view'[d] = view[d]
    PROVE  Follows(d)' /\ Coming(d)' = Coming(d) \union ToSet(q)
<1>1. inbox[d] \in Seq(Packets)
  BY DEF TypeInv, TypeOK
<1>2. Coming(d)' = Coming(d) \union ToSet(q)
  <2>1. ToSet(inbox[d] \o q) = ToSet(inbox[d]) \union ToSet(q)
    BY <1>1, ToSetOfBoth
  <2> QED
    BY <2>1 DEF Coming
<1>3. (IsIn(d) => IsIn(d)') /\ (Enters(d) => Enters(d)')
  BY <1>2 DEF IsIn, Enters
<1>4. ASSUME Waits(d) PROVE Waits(d)'
  <2>1. PICK j \in DOMAIN inbox[d] :
           /\ Starts(inbox[d][j])
           /\ \A k \in DOMAIN inbox[d] : k < j => ~OfGame(inbox[d][k])
           /\ \A k \in DOMAIN inbox[d] : k > j => InPlay(inbox[d][k])
    BY <1>4 DEF Waits
  <2>2. PICK a \in Nat, b \in Nat : a = Len(inbox[d]) /\ b = Len(q)
    BY <1>1
  <2>3. PICK s \in Seq(Packets) : s = inbox[d] \o q
    BY <1>1, Concatenated
  <2>4. /\ Len(s) = a + b /\ \A k \in 1..a : s[k] = inbox[d][k]
        /\ \A k \in 1..b : s[a + k] = q[k]
    BY <1>1, <2>2, <2>3, Concatenated
  <2>5. DOMAIN inbox[d] = 1..a /\ DOMAIN s = 1..(a + b)
    BY <1>1, <2>2, <2>3, <2>4
  <2>6. \A k \in 1..b : InPlay(q[k])
    BY <2>2, ToSetFacts
  <2>7. j \in DOMAIN s /\ Starts(s[j])
    BY <2>1, <2>4, <2>5
  <2>8. ASSUME NEW k \in 1..(a + b)
        PROVE  (k < j => ~OfGame(s[k])) /\ (k > j => InPlay(s[k]))
    <3>1. j \in 1..a
      BY <2>5
    <3>2. CASE k <= a
      <4>1. k \in 1..a
        BY <3>2
      <4>2. k \in DOMAIN inbox[d] /\ s[k] = inbox[d][k]
        BY <2>4, <2>5, <4>1
      <4> QED
        BY <2>1, <4>2
    <3>3. CASE k > a
      <4>1. k - a \in 1..b /\ k = a + (k - a)
        BY <3>3
      <4>2. InPlay(s[k])
        BY <2>4, <2>6, <4>1
      <4> QED
        BY <3>1, <3>3, <4>2
    <3> QED
      BY <3>2, <3>3
  <2> QED
    BY <1>4, <2>3, <2>5, <2>7, <2>8 DEF Waits
<1> QED
  BY <1>2, <1>3, <1>4 DEF Follows

\* ChangePlayerTurn: both N64s are told whose turn it is.
LEMMA TurnIsTold ==
    ASSUME AllInv, Numbered', env.prompt, clean, hasty = {}, AnnounceFirst \/ NextTurn
    PROVE  Counted(board)' /\ EndsWell' /\ PlayingInv'
<1>1. /\ UNCHANGED <<players, state, turn, board, messages, view, move, number>>
      /\ GameThread /\ pc \in {"announce", "next"}
  BY DEF AnnounceFirst, NextTurn, game, clients, n64, history, GameThread
<1>2. Prompt /\ Safe /\ state = "PLAYING" /\ turn # NoOne
  BY <1>1 DEF AllInv, ThreadInv, Prompt, Safe, InGame
<1>3. PlayingInv /\ Counted(board) /\ EndsWell /\ BothSeated /\ SeatInv /\ TypeOK /\ TypeInv
  BY <1>1, <1>2, InAGame DEF InGame, AllInv
<1>4. PICK p : p # NoOne /\ TellTurn(p)
  BY <1>1, <1>2, <1>3 DEF AnnounceFirst, NextTurn, BothSeated, Seats
<1>5. /\ pc' = "assign" /\ who' = p
      /\ inbox' = Told(Seated, <<Packet("TURN", number[p], board.forced, NoOne)>>)
  BY <1>4 DEF TellTurn
<1>6. Mover' = number[p] /\ number[p] \in Seats /\ 3 - number[p] \in Seats /\ 3 - number[p] # number[p]
      /\ \A i \in Seats : i = number[p] \/ i = 3 - number[p]
  BY <1>1, <1>4, <1>5 DEF Mover, Numbered, Seats
<1>7. PICK t \in Packets : /\ t = Packet("TURN", number[p], board.forced, NoOne)
                           /\ t.type = "TURN" /\ t.n = number[p] /\ InPlay(t)
  <2>1. number[p] \in 0..2 /\ board.forced \in Anywhere
    BY <1>3, <1>6 DEF Seats, TypeOK, LargeBoards
  <2>2. Packet("TURN", number[p], board.forced, NoOne) \in Packets
    BY <2>1, PacketTypes
  <2> QED
    BY <2>2 DEF Packet, InPlay
<1>8. ASSUME NEW i \in Seats, NEW d \in Clients, d = players[i]
      PROVE  /\ Follows(d)' /\ Knowing(d)'
             /\ i = number[p] => IsTold(d)'
             /\ i # number[p] => NotItsTurn(d)'
  <2>1. /\ d \in Seated /\ number[d] = i /\ Follows(d) /\ Knowing(d)
        /\ NotItsTurn(d) /\ NoMovePosted /\ inbox[d] \in Seq(Packets)
    <3>1. d \in Seated /\ number[d] = i
      BY <1>3, <1>8, SeatFacts DEF Seats
    <3>2. Follows(d) /\ Knowing(d) /\ NotItsTurn(d) /\ NoMovePosted
      BY <1>1, <1>3, <1>8 DEF PlayingInv, Turns, TurnGiven
    <3> QED
      BY <1>3, <3>1, <3>2 DEF TypeOK
  <2>2. inbox'[d] = inbox[d] \o <<t>>
    BY <1>5, <1>7, <2>1 DEF Told
  <2>3. <<t>> \in Seq(Packets) /\ ToSet(<<t>>) = {t}
    BY ToSetOfOne
  <2>4. Follows(d)' /\ Coming(d)' = Coming(d) \union {t}
    BY <1>1, <1>3, <1>7, <2>1, <2>2, <2>3, HearsMore
  <2>5. Knowing(d)'
    BY <1>1, <1>5, <1>7, <2>1, <2>4
       DEF Knowing, Knows, KnowsDone, SaysMove, SaysDone, Sent, Posted, Taken, Finished
  <2>6. DoesNotMove(d)' /\ NoMovePosted'
    BY <1>1, <2>1 DEF NotItsTurn, DoesNotMove, NoMovePosted, Posted
  <2>7. i # number[p] => NotItsTurn(d)'
    BY <1>1, <1>7, <2>1, <2>4, <2>6 DEF NotItsTurn, SaysTurn
  <2>8. ASSUME i = number[p] PROVE IsTold(d)'
    <3>1. PICK s \in Seq(Packets) : s = Append(inbox[d], t) /\ s = inbox'[d]
      <4>1. Append(inbox[d], t) \in Seq(Packets) /\ inbox[d] \o <<t>> = Append(inbox[d], t)
        BY <2>1
      <4> QED
        BY <2>2, <4>1
    <3>2. /\ Len(s) = Len(inbox[d]) + 1 /\ s[Len(inbox[d]) + 1] = t /\ Len(inbox[d]) \in Nat
          /\ \A k \in 1..Len(inbox[d]) : s[k] = inbox[d][k]
      <4>1. DOMAIN inbox[d] = 1..Len(inbox[d])
        BY <2>1
      <4>2. /\ Len(Append(inbox[d], t)) = Len(inbox[d]) + 1 /\ Len(inbox[d]) \in Nat
            /\ Append(inbox[d], t)[Len(inbox[d]) + 1] = t
            /\ \A k \in DOMAIN inbox[d] : Append(inbox[d], t)[k] = inbox[d][k]
        BY <2>1, AppendFacts
      <4> QED
        BY <3>1, <4>1, <4>2, Zenon
    <3>3. \A k \in 1..Len(inbox[d]) : inbox[d][k] \in Coming(d)
      BY <2>1, ToSetFacts DEF Coming
    <3>4. \A k \in 1..Len(inbox[d]) : s[k].type = "TURN" => s[k].n # number[d]
      BY <2>1, <3>2, <3>3 DEF NotItsTurn, SaysTurn
    <3>5. s # <<>> /\ s[Len(s)] = t /\ \A k \in 1..(Len(s) - 1) : s[k].type = "TURN" => s[k].n # number[d]
      BY <3>2, <3>4
    <3> QED
      BY <1>1, <1>7, <2>1, <2>6, <2>8, <3>1, <3>5 DEF IsTold, Packet
  <2> QED
    BY <2>4, <2>5, <2>7, <2>8
<1>9. ASSUME NEW i \in Seats
      PROVE  /\ Follows(players[i])' /\ Knowing(players[i])'
             /\ i = number[p] => IsTold(players[i])'
             /\ i # number[p] => NotItsTurn(players[i])'
  <2>1. PICK d \in Clients : d = players[i] /\ d = players'[i]
    BY <1>1, <1>3, SeatFacts
  <2> QED
    BY <1>8, <2>1
<1>10. Turns'
  <2>1. pc' \in TurnGiven' /\ pc' \in TurnGiven
    BY <1>5 DEF TurnGiven
  <2>2. IsTold(players[Mover])' /\ NotItsTurn(players[3 - Mover])'
    BY <1>6, <1>9
  <2> QED
    BY <2>1, <2>2 DEF Turns
<1>11. Counted(board)' /\ EndsWell'
  BY <1>1, <1>2, <1>3, <1>5 DEF Counted, Finished, EndsWell
<1> QED
  BY <1>5, <1>9, <1>10, <1>11 DEF PlayingInv

\* NotifyMove and NotifyBoardComplete: the N64s are told what they did not know.
LEMMA MoveIsTold ==
    ASSUME AllInv, env.prompt, clean, hasty = {}, NotifyMove
    PROVE  Counted(board)' /\ EndsWell' /\ PlayingInv'
<1>1. /\ UNCHANGED <<players, state, turn, board, messages, view, number>>
      /\ GameThread /\ pc = "moved"
  BY DEF NotifyMove, game, clients, n64, history, GameThread
<1>2. Prompt /\ Safe /\ state = "PLAYING" /\ turn # NoOne
  BY <1>1 DEF AllInv, ThreadInv, Prompt, Safe, InGame
<1>3. PlayingInv /\ Counted(board) /\ EndsWell /\ BothSeated /\ SeatInv /\ TypeOK /\ TypeInv
  BY <1>1, <1>2, InAGame DEF InGame, AllInv
<1>4. move \in Cells \X Cells /\ move[1] \in Cells /\ move[2] \in Cells /\ move = <<move[1], move[2]>>
  BY <1>1, <1>3 DEF PlayingInv
<1>5. PICK told \in Packets : /\ told = Packet("MOVE", 0, move[1], move[2])
                              /\ told.type = "MOVE" /\ told.board = move[1] /\ told.cell = move[2]
  <2>1. Packet("MOVE", 0, move[1], move[2]) \in Packets
    BY <1>4, PacketTypes
  <2> QED
    BY <2>1 DEF Packet
<1>6. PICK end \in Packets : /\ end = Packet("DONE", 0, move[1], NoOne)
                             /\ end.type = "DONE" /\ end.board = move[1]
  <2>1. Packet("DONE", 0, move[1], NoOne) \in Packets
    BY <1>4, PacketTypes
  <2> QED
    BY <2>1 DEF Packet
<1>7. PICK done \in Seq(Packets) :
         /\ done = IF Finished(board, move[1]) THEN <<end>> ELSE <<>>
         /\ ToSet(done) = IF Finished(board, move[1]) THEN {end} ELSE {}
  <2>1. CASE Finished(board, move[1])
    <3>1. <<end>> \in Seq(Packets) /\ ToSet(<<end>>) = {end}
      BY ToSetOfOne
    <3> QED
      BY <2>1, <3>1, Zenon
  <2>2. CASE ~Finished(board, move[1])
    <3>1. <<>> \in Seq(Packets)
      OBVIOUS
    <3>2. ToSet(<<>>) = {}
      BY <3>1, ToSetFacts
    <3> QED
      BY <2>2, <3>1, <3>2, Zenon
  <2> QED
    BY <2>1, <2>2
<1>8. PICK both \in Seq(Packets) : both = <<told>> \o done /\ ToSet(both) = {told} \union ToSet(done)
  BY ToSetOfFront
<1>9. /\ pc' = "next"
      /\ inbox' = [c \in Clients |->
            IF c \notin Seated THEN inbox[c]
            ELSE inbox[c] \o (IF c = turn THEN done ELSE both)]
  BY <1>2, <1>5, <1>6, <1>7, <1>8 DEF NotifyMove
<1>10. ASSUME NEW d \in Clients, d \in Seated, Follows(d), Knowing(d), NotItsTurn(d)
       PROVE  Follows(d)' /\ Knowing(d)' /\ NotItsTurn(d)'
  <2>1. PICK q \in Seq(Packets) : q = IF d = turn THEN done ELSE both
    OBVIOUS
  <2>2. inbox'[d] = inbox[d] \o q
    BY <1>9, <1>10, <2>1
  <2>3. ToSet(q) = (IF d = turn THEN {} ELSE {told}) \union (IF Finished(board, move[1]) THEN {end} ELSE {})
    BY <1>7, <1>8, <2>1
  <2>4. \A p \in ToSet(q) : InPlay(p) /\ p.type # "TURN"
    BY <1>5, <1>6, <2>3 DEF InPlay
  <2>5. Follows(d)' /\ Coming(d)' = Coming(d) \union ToSet(q)
    BY <1>1, <1>3, <1>10, <2>2, <2>4, HearsMore
  <2>6. NotItsTurn(d)'
    BY <1>1, <1>10, <2>4, <2>5 DEF NotItsTurn, DoesNotMove, SaysTurn
  <2>7. ASSUME NEW m \in Cells \X Cells PROVE Knows(d, m)' <=> Knows(d, m)
    <3>1. SaysMove(ToSet(q), m) <=> d # turn /\ m = move
      <4>1. told.board = m[1] /\ told.cell = m[2] <=> m = move
        <5>1. m = <<m[1], m[2]>>
          OBVIOUS
        <5> QED
          BY <1>4, <1>5, <5>1
      <4> QED
        BY <1>5, <1>6, <2>3, <4>1 DEF SaysMove
    <3>2. SaysMove(Coming(d)', m) <=> SaysMove(Coming(d), m) \/ SaysMove(ToSet(q), m)
      BY <2>5 DEF SaysMove
    <3> QED
      BY <1>1, <1>9, <3>1, <3>2 DEF Knows, SaysMove
  <2>8. ASSUME NEW b \in Cells PROVE KnowsDone(d, b)' <=> KnowsDone(d, b)
    <3>1. SaysDone(ToSet(q), b) <=> b = move[1] /\ Finished(board, b)
      BY <1>5, <1>6, <2>3 DEF SaysDone
    <3>2. SaysDone(Coming(d)', b) <=> SaysDone(Coming(d), b) \/ SaysDone(ToSet(q), b)
      BY <2>5 DEF SaysDone
    <3> QED
      BY <1>1, <1>9, <3>1, <3>2 DEF KnowsDone, SaysDone
  <2>9. Knowing(d)'
    BY <1>1, <1>10, <2>7, <2>8 DEF Knowing, Taken, Finished, Sent, Posted
  <2> QED
    BY <2>5, <2>6, <2>9
<1>11. \A i \in Seats : Follows(players[i])' /\ Knowing(players[i])' /\ NotItsTurn(players[i])'
  <2> SUFFICES ASSUME NEW i \in Seats
               PROVE  Follows(players[i])' /\ Knowing(players[i])' /\ NotItsTurn(players[i])'
    OBVIOUS
  <2>1. PICK d \in Clients : d = players[i] /\ d = players'[i]
    BY <1>1, <1>3, SeatFacts
  <2>2. d \in Seated /\ Follows(d) /\ Knowing(d) /\ NotItsTurn(d)
    BY <1>1, <1>3, <2>1, GameRoomAssumption DEF PlayingInv, Turns, TurnGiven, Seated
  <2> QED
    BY <1>10, <2>1, <2>2
<1>12. NoMovePosted'
  BY <1>1, <1>3 DEF PlayingInv, Turns, TurnGiven, NoMovePosted, Posted
<1>13. Counted(board)' /\ EndsWell'
  BY <1>1, <1>2, <1>3, <1>9 DEF Counted, Finished, EndsWell
<1> QED
  BY <1>9, <1>11, <1>12, <1>13 DEF PlayingInv, Turns, TurnGiven

\* A packet that is no move is thrown away.
LEMMA IgnoredPacket ==
    ASSUME AllInv, env.prompt, clean, hasty = {}, TakePacket, Head(messages).type # "MOVE"
    PROVE  Counted(board)' /\ EndsWell' /\ PlayingInv'
<1>1. /\ UNCHANGED <<players, state, turn, board, view, inbox, move, number>>
      /\ GameThread /\ pc = "poll" /\ pc' = "loop"
      /\ messages # <<>> /\ messages' = Tail(messages)
  BY DEF TakePacket, clients, n64, GameThread
<1>2. Prompt /\ Safe /\ state = "PLAYING"
  BY <1>1 DEF AllInv, ThreadInv, Prompt, InGame
<1>3. PlayingInv /\ Counted(board) /\ EndsWell /\ BothSeated /\ SeatInv /\ TypeOK
  BY <1>1, <1>2, InAGame DEF InGame
<1>4. PICK p \in Messages, rest \in Seq(Messages) :
         /\ p = Head(messages) /\ rest = Tail(messages) /\ p.type # "MOVE"
  BY <1>1, <1>3, TailFacts DEF TypeOK
<1>5. /\ messages' = rest /\ p = messages[1] /\ Len(rest) = Len(messages) - 1 /\ Len(messages) \in Nat
      /\ DOMAIN rest = 1..Len(rest) /\ DOMAIN messages = 1..Len(messages)
      /\ \A k \in DOMAIN rest : rest[k] = messages[k + 1]
      /\ ToSet(messages) = {p} \union ToSet(rest)
  <2>1. messages \in Seq(Messages)
    BY <1>3 DEF TypeOK
  <2> QED
    BY <1>1, <1>4, <2>1, TailFacts, ToSetFacts
<1>6. /\ NoMovePosted => NoMovePosted'
      /\ \A d, m : Sent(d, m)' <=> Sent(d, m)
  BY <1>1, <1>4, <1>5 DEF NoMovePosted, Sent, Posted
<1>7. ASSUME NEW d \in Clients, Follows(d), Knowing(d)
      PROVE  Follows(d)' /\ Knowing(d)'
  <2>1. Follows(d)'
    BY <1>1, <1>7 DEF Follows, IsIn, Enters, Waits, Coming
  <2>2. (\A m \in Cells \X Cells : Knows(d, m)' <=> Knows(d, m))
        /\ (\A b \in Cells : KnowsDone(d, b)' <=> KnowsDone(d, b))
    BY <1>1 DEF Knows, KnowsDone, Coming
  <2> QED
    BY <1>1, <1>6, <1>7, <2>1, <2>2 DEF Knowing
<1>8. ASSUME NEW d \in Clients
      PROVE  /\ NotItsTurn(d) => NotItsTurn(d)'
             /\ IsTold(d) => IsTold(d)'
             /\ CanMove(d) => CanMove(d)'
  BY <1>1, <1>6 DEF NotItsTurn, DoesNotMove, Coming, IsTold, CanMove
<1>9. ASSUME NEW d \in Clients, HasMoved(d) PROVE HasMoved(d)'
  <2>1. PICK k \in DOMAIN messages :
          /\ messages[k].type = "MOVE" /\ messages[k].sender = number[d]
          /\ WasValid(board, messages[k].board, messages[k].cell)
          /\ ~Finished(board, messages[k].board)
          /\ \A j \in DOMAIN messages : messages[j].type = "MOVE" => j = k
    BY <1>9 DEF HasMoved
  <2>2. k # 1 /\ k - 1 \in DOMAIN rest /\ rest[k - 1] = messages[k]
    <3>1. k # 1
      BY <1>4, <1>5, <2>1
    <3>2. k - 1 \in DOMAIN rest
      BY <1>5, <3>1
    <3>3. (k - 1) + 1 = k
      BY <1>5
    <3> QED
      BY <1>5, <3>1, <3>2, <3>3
  <2>3. ASSUME NEW j \in DOMAIN rest, rest[j].type = "MOVE" PROVE j = k - 1
    <3>1. j + 1 \in DOMAIN messages /\ rest[j] = messages[j + 1]
      BY <1>5
    <3>2. j + 1 = k
      BY <2>1, <2>3, <3>1
    <3> QED
      BY <1>5, <3>2
  <2> QED
    BY <1>1, <1>5, <1>9, <2>1, <2>2, <2>3 DEF HasMoved
<1>10. \A i \in Seats : /\ Follows(players[i])' /\ Knowing(players[i])'
                        /\ NotItsTurn(players[i]) => NotItsTurn(players[i])'
                        /\ IsTold(players[i]) \/ CanMove(players[i]) \/ HasMoved(players[i])
                             => (IsTold(players[i]) \/ CanMove(players[i]) \/ HasMoved(players[i]))'
  <2> SUFFICES ASSUME NEW i \in Seats
               PROVE  /\ Follows(players[i])' /\ Knowing(players[i])'
                      /\ NotItsTurn(players[i]) => NotItsTurn(players[i])'
                      /\ IsTold(players[i]) \/ CanMove(players[i]) \/ HasMoved(players[i])
                           => (IsTold(players[i]) \/ CanMove(players[i]) \/ HasMoved(players[i]))'
    OBVIOUS
  <2>1. PICK d \in Clients : d = players[i] /\ d = players'[i]
    BY <1>1, <1>3, SeatFacts
  <2>2. Follows(d) /\ Knowing(d)
    BY <1>3, <2>1 DEF PlayingInv
  <2> QED
    BY <1>7, <1>8, <1>9, <2>1, <2>2
<1>11. Turns'
  <2>1. /\ Mover' = Mover /\ Mover \in Seats /\ 3 - Mover \in Seats
        /\ pc \in TurnGiven /\ pc' \in TurnGiven' /\ UNCHANGED players
    <3>1. turn # NoOne
      BY <1>1, <1>2 DEF Safe
    <3> QED
      BY <1>1, <3>1 DEF Mover, TurnGiven, Seats, AllInv, PlayInv, Numbered
  <2>2. (IsTold(players[Mover]) \/ CanMove(players[Mover]) \/ HasMoved(players[Mover]))
        /\ NotItsTurn(players[3 - Mover])
    BY <1>3, <2>1 DEF PlayingInv, Turns
  <2>3. PICK i \in Seats, j \in Seats : i = Mover /\ i = Mover' /\ j = 3 - Mover /\ j = 3 - Mover'
    BY <2>1
  <2>4. (IsTold(players[i]) \/ CanMove(players[i]) \/ HasMoved(players[i]))' /\ NotItsTurn(players[j])'
    BY <1>10, <2>2, <2>3
  <2> QED
    BY <2>1, <2>3, <2>4 DEF Turns
<1> QED
  BY <1>1, <1>2, <1>3, <1>10, <1>11 DEF PlayingInv, Counted, Finished, EndsWell, BoardFinished

\* A move is that of the player whose turn it is, and valid: it is made.
LEMMA MoveIsMade ==
    ASSUME AllInv, env.prompt, clean, hasty = {}, TakePacket, Head(messages).type = "MOVE"
    PROVE  Counted(board)' /\ EndsWell' /\ PlayingInv'
<1>1. /\ UNCHANGED <<players, state, turn, view, inbox, number>>
      /\ GameThread /\ pc = "poll" /\ messages # <<>> /\ messages' = Tail(messages)
  BY DEF TakePacket, clients, n64, GameThread
<1>2. Prompt /\ Safe /\ state = "PLAYING" /\ turn # NoOne
  BY <1>1 DEF AllInv, ThreadInv, Prompt, Safe, InGame
<1>3. PlayingInv /\ Counted(board) /\ EndsWell /\ BothSeated /\ SeatInv /\ TypeOK
  BY <1>1, <1>2, InAGame DEF InGame
<1>4. PICK p \in Messages, rest \in Seq(Messages) :
         /\ p = Head(messages) /\ rest = Tail(messages) /\ p.type = "MOVE"
  BY <1>1, <1>3, TailFacts DEF TypeOK
<1>5. /\ messages' = rest /\ p = messages[1] /\ 1 \in DOMAIN messages
      /\ Len(rest) = Len(messages) - 1 /\ Len(messages) \in Nat
      /\ DOMAIN rest = 1..Len(rest) /\ DOMAIN messages = 1..Len(messages)
      /\ \A k \in DOMAIN rest : rest[k] = messages[k + 1]
      /\ ToSet(messages) = {p} \union ToSet(rest)
  <2>1. messages \in Seq(Messages)
    BY <1>3 DEF TypeOK
  <2> QED
    BY <1>1, <1>4, <2>1, TailFacts, ToSetFacts
<1>6. PICK i \in Seats, j \in Seats :
         /\ i = number[turn] /\ i = Mover /\ j = 3 - Mover /\ i # j
         /\ \A k \in Seats : k = i \/ k = j
  BY <1>1, <1>2 DEF Mover, Seats, AllInv, PlayInv, Numbered
<1>7. PICK d \in Clients, e \in Clients :
         /\ d = players[i] /\ e = players[j] /\ number[d] = i /\ number[e] = j
  BY <1>3, SeatFacts
<1>8. /\ (IsTold(d) \/ CanMove(d) \/ HasMoved(d)) /\ NotItsTurn(e)
      /\ Follows(d) /\ Knowing(d) /\ Follows(e) /\ Knowing(e)
  <2>1. pc \in TurnGiven
    BY <1>1 DEF TurnGiven
  <2> QED
    BY <1>3, <1>6, <1>7, <2>1 DEF PlayingInv, Turns
<1>9. HasMoved(d)
  <2>1. ~NoMovePosted
    BY <1>4, <1>5 DEF NoMovePosted, Posted
  <2> QED
    BY <1>8, <2>1 DEF IsTold, CanMove
<1>10. /\ p.sender = number[d] /\ WasValid(board, p.board, p.cell) /\ ~Finished(board, p.board)
       /\ \A k \in DOMAIN messages : messages[k].type = "MOVE" => k = 1
  BY <1>4, <1>5, <1>9 DEF HasMoved
<1>11. /\ board' = Play(board, turn, p.board, p.cell) /\ move' = <<p.board, p.cell>> /\ pc' = "moved"
  BY <1>2, <1>4, <1>6, <1>7, <1>10 DEF TakePacket
<1>12. p.board \in Cells /\ p.cell \in Cells /\ turn \in Clients /\ board \in LargeBoards
  <2>1. p.board \in Cells /\ p.cell \in Cells
    BY <1>4 DEF Messages
  <2> QED
    BY <1>2, <1>3, <2>1 DEF TypeOK, Anybody
<1>13. PICK m \in Cells \X Cells : /\ m = move' /\ m[1] = p.board /\ m[2] = p.cell
                                   /\ \A t \in Cells \X Cells : t[1] = p.board /\ t[2] = p.cell <=> t = m
  BY <1>11, <1>12
<1>14. /\ \A t \in Cells \X Cells : Taken(board', t) <=> Taken(board, t) \/ t = m
       /\ \A b \in Cells : b # m[1] => (Finished(board', b) <=> Finished(board, b))
       /\ Counted(board')
  BY <1>3, <1>10, <1>11, <1>12, <1>13, PlayedBoard
<1>15. NoMovePosted'
  <2>1. \A r \in ToSet(rest) : \E k \in DOMAIN rest : rest[k] = r
    BY ToSetFacts
  <2>2. \A k \in DOMAIN rest : rest[k].type # "MOVE"
    <3> SUFFICES ASSUME NEW k \in DOMAIN rest, rest[k].type = "MOVE" PROVE FALSE
      OBVIOUS
    <3>1. k + 1 \in DOMAIN messages /\ messages[k + 1] = rest[k]
      BY <1>5
    <3>2. k + 1 = 1
      BY <1>10, <3>1
    <3> QED
      BY <1>5, <3>2
  <2> QED
    BY <1>5, <2>1, <2>2 DEF NoMovePosted, Posted
<1>16. ASSUME NEW c \in {d, e}
       PROVE  Follows(c)' /\ Knowing(c)' /\ NotItsTurn(c)'
  <2>1. Follows(c)'
    BY <1>1, <1>8 DEF Follows, IsIn, Enters, Waits, Coming
  <2>2. NotItsTurn(c)'
    <3>1. CASE c = e
      BY <1>1, <1>8, <3>1 DEF NotItsTurn, DoesNotMove, Coming
    <3>2. CASE c = d
      <4>1. view[d].turn = 0 /\ inbox[d] = <<>>
        BY <1>9 DEF HasMoved
      <4>2. Coming(d) = {} /\ number[d] # 0
        BY <1>3, <1>7, <4>1, ToSetFacts DEF TypeOK, Coming, Seats
      <4> QED
        BY <1>1, <3>2, <4>1, <4>2 DEF NotItsTurn, DoesNotMove, SaysTurn, Coming
    <3> QED
      BY <3>1, <3>2
  <2>3. ASSUME NEW t \in Cells \X Cells
        PROVE  (Taken(board, t) \/ Sent(c, t))' <=> Knows(c, t)'
    <3>1. Taken(board, t) \/ Sent(c, t) <=> Knows(c, t)
      BY <1>8 DEF Knowing
    <3>2. ~Sent(c, t)'
      BY <1>15 DEF Sent, NoMovePosted
    <3>3. Sent(c, t) <=> c = d /\ t = m
      <4>1. Sent(c, t) => c = d /\ t = m
        <5> SUFFICES ASSUME Sent(c, t) PROVE c = d /\ t = m
          OBVIOUS
        <5>1. PICK r \in ToSet(messages) : /\ r.type = "MOVE" /\ r.sender = number[c]
                                           /\ r.board = t[1] /\ r.cell = t[2]
          BY DEF Sent, Posted
        <5>2. r = p
          BY <1>1, <1>5, <1>15, <5>1 DEF NoMovePosted, Posted
        <5> QED
          BY <1>6, <1>7, <1>10, <1>13, <5>1, <5>2
      <4>2. c = d /\ t = m => Sent(c, t)
        BY <1>4, <1>5, <1>10, <1>13 DEF Sent, Posted
      <4> QED
        BY <4>1, <4>2
    <3>4. Knows(c, t)' <=> Knows(c, t) \/ (c # turn /\ t = m)
      BY <1>1, <1>11, <1>13 DEF Knows, Coming
    <3>5. e # turn
      BY <1>6, <1>7
    <3>6. Taken(board, t)' <=> Taken(board, t) \/ t = m
      BY <1>14 DEF Taken
    <3> QED
      BY <3>1, <3>2, <3>3, <3>4, <3>5, <3>6
  <2>4. ASSUME NEW b \in Cells
        PROVE  Finished(board, b)' <=> KnowsDone(c, b)'
    <3>1. Finished(board, b) <=> KnowsDone(c, b)
      BY <1>8 DEF Knowing
    <3>2. KnowsDone(c, b)' <=> KnowsDone(c, b) \/ (b = m[1] /\ Finished(board', b))
      BY <1>1, <1>11, <1>13 DEF KnowsDone, Coming, Finished
    <3>3. b # m[1] => (Finished(board', b) <=> Finished(board, b))
      BY <1>14
    <3>4. b = m[1] => ~Finished(board, b)
      BY <1>10, <1>13
    <3> QED
      BY <3>1, <3>2, <3>3, <3>4 DEF Finished
  <2>5. Knowing(c)'
    BY <2>3, <2>4 DEF Knowing
  <2> QED
    BY <2>1, <2>2, <2>5
<1>17. \A k \in Seats : Follows(players[k])' /\ Knowing(players[k])' /\ NotItsTurn(players[k])'
  <2> SUFFICES ASSUME NEW k \in Seats
               PROVE  Follows(players[k])' /\ Knowing(players[k])' /\ NotItsTurn(players[k])'
    OBVIOUS
  <2>1. PICK c \in {d, e} : c = players[k] /\ c = players'[k]
    BY <1>1, <1>6, <1>7
  <2> QED
    BY <1>16, <2>1
<1>18. Counted(board)' /\ EndsWell' /\ Taken(board, move)'
  BY <1>1, <1>2, <1>11, <1>13, <1>14 DEF Counted, Finished, EndsWell, Taken
<1> QED
  BY <1>11, <1>13, <1>15, <1>17, <1>18 DEF PlayingInv, Turns, TurnGiven

-----------------------------------------------------------------------------
(* The theorems of the games *)

LEMMA PlayStep == AllInv /\ TypeInv' /\ ThreadInv' /\ [Next]_vars => PlayInv'
<1> SUFFICES ASSUME AllInv, TypeInv', ThreadInv', [Next]_vars PROVE PlayInv'
  OBVIOUS
<1>1. Numbered'
  BY NumberedStep
<1>2. env' = env
  BY DEF Next, vars, GameThread, EnterLobby, WaitForPlayers, HandleReady, GetReady, StartGame, ChooseFirst,
     AnnounceFirst, AssignTurn, PrintTurn, CheckState, NoPacket, TakePacket, NotifyMove, NextTurn,
     EndRound, StartOver, ClientThread, LookAtState, ClearTurn, EndGame, N64, Callback, ChangeStage, User, Connect,
     Leave, ToggleReady, MakeMove
<1>3. SUFFICES ASSUME env.prompt, clean', hasty' = {}
               PROVE  Counted(board)' /\ EndsWell' /\ (Playing' => PlayingInv')
  BY <1>1, <1>2 DEF PlayInv, Playing
<1>4. CASE StartGame
  BY <1>3, <1>4, GameStarts DEF AllInv
<1>5. ASSUME ~StartGame PROVE clean /\ hasty = {}
  BY <1>3, <1>5 DEF Next, vars, history, GameThread, EnterLobby, WaitForPlayers, HandleReady, GetReady,
     ChooseFirst, AnnounceFirst, AssignTurn, PrintTurn, CheckState, NoPacket, TakePacket, NotifyMove,
     NextTurn, EndRound, StartOver, ClientThread, LookAtState, ClearTurn, EndGame, N64, Callback, ChangeStage,
     User, Connect, Leave, ToggleReady, MakeMove
<1>6. CASE ~StartGame /\ GameThread
  <2>1. CASE EnterLobby \/ WaitForPlayers \/ HandleReady \/ GetReady \/ StartOver
    BY <1>3, <1>5, <1>6, <2>1, BetweenGames
  <2>2. CASE ChooseFirst \/ AssignTurn \/ PrintTurn \/ CheckState \/ NoPacket
    BY <1>3, <1>5, <1>6, <2>2, QuietSteps
  <2>3. CASE AnnounceFirst \/ NextTurn
    BY <1>1, <1>3, <1>5, <1>6, <2>3, TurnIsTold
  <2>4. CASE TakePacket
    BY <1>3, <1>5, <1>6, <2>4, IgnoredPacket, MoveIsMade
  <2>5. CASE NotifyMove
    BY <1>3, <1>5, <1>6, <2>5, MoveIsTold
  <2>6. CASE EndRound
    BY <1>3, <1>5, <1>6, <2>6, GameEnds
  <2> QED
    BY <1>6, <2>1, <2>2, <2>3, <2>4, <2>5, <2>6 DEF GameThread
<1>7. CASE ~StartGame /\ \E c \in Clients : ClientThread(c) \/ N64(c) \/ User(c)
  BY <1>3, <1>5, <1>7, ComingEndsPlay, N64PlaysOn DEF N64, User
<1>8. CASE ~StartGame /\ UNCHANGED vars
  <2>1. /\ UNCHANGED <<players, state, turn, board, messages, pc, who, move, number, inbox, view, env, clean, hasty>>
    BY <1>8 DEF vars, game, thread, clients, n64, history
  <2>2. Counted(board) /\ EndsWell /\ (Playing => PlayingInv)
    BY <1>3, <1>5, <1>8 DEF AllInv, PlayInv
  <2>3. Counted(board)' /\ EndsWell' /\ (Playing' <=> Playing)
    BY <2>1, <2>2 DEF Counted, Finished, EndsWell, BoardFinished, BothSeated, Playing
  <2>4. PlayingInv => PlayingInv'
    BY <2>1 DEF PlayingInv, Follows, IsIn, Enters, Waits, Coming, Knowing, Knows, KnowsDone, Sent, Posted,
       Taken, Finished, Turns, Mover, IsTold, CanMove, HasMoved, NotItsTurn, DoesNotMove, NoMovePosted,
       BoardFinished
  <2> QED
    BY <2>2, <2>3, <2>4
<1> QED
  BY <1>4, <1>6, <1>7, <1>8 DEF Next

\* The invariant of the games holds.
LEMMA PlayInvariant == Spec => []AllInv
<1>1. Init => PlayInv
  <2> SUFFICES ASSUME Init PROVE PlayInv
    OBVIOUS
  <2>1. /\ board = EmptyBoard /\ pc = "top" /\ state = "LOBBY" /\ turn = NoOne /\ who = NoOne
    BY DEF Init
  <2> QED
    BY <2>1, EmptyBoardFacts DEF PlayInv, Numbered, EndsWell, Playing
<1>2. TypeInv /\ ThreadInv /\ PlayInv /\ TypeInv' /\ ThreadInv' /\ [Next]_vars => PlayInv'
  BY PlayStep DEF AllInv
<1>3. TypeInv /\ ThreadInv /\ PlayInv <=> AllInv
  BY DEF AllInv
<1> QED
  BY <1>1, <1>2, <1>3, TypeInvariant, ThreadInvariant, PTL DEF Spec

\* In a prompt room and a game that started clean, the move count of the large board is the
\* number of boards that are finished (BoardLarge.java:40), since every move that is made is
\* one in a board that is not.
THEOREM CountsFinishedTheorem == Spec => [](env.prompt /\ hasty = {} => CountsFinished)
<1>1. AllInv => (env.prompt /\ hasty = {} => CountsFinished)
  BY DEF AllInv, PlayInv, Counted, CountsFinished
<1> QED
  BY <1>1, PlayInvariant, PTL

\* A game that is called a tie was played to the end (Game.java:167).
THEOREM TieIsCompleteTheorem == Spec => [](hasty = {} => TieIsComplete)
<1>1. AllInv => (hasty = {} => TieIsComplete)
  BY DEF AllInv, PlayInv, EndsWell, TieIsComplete
<1> QED
  BY <1>1, PlayInvariant, PTL

\* While no N64 has read packets of the game before entering it, nobody is ever stuck in a
\* turn: whoever has it knows it and can play, and is refused no move (Game.java:116,
\* stage_game.c:136).
THEOREM TurnCanBePlayedTheorem == Spec => [](hasty = {} => TurnCanBePlayed)
<1>1. AllInv => (hasty = {} => TurnCanBePlayed)
  <2> SUFFICES ASSUME AllInv, env.prompt, clean, hasty = {}, pc = "poll", state = "PLAYING", messages = <<>>,
                      \A c \in Clients : inbox[c] = <<>> /\ view[c].next = "none"
               PROVE  /\ turn \in Seated => MyTurn(turn) /\ Playable(view[turn]) # {}
                      /\ \A c \in Seated : MyTurn(c) =>
                             \A m \in Playable(view[c]) : WasValid(board, m[1], m[2])
    BY DEF TurnCanBePlayed
  <2>1. Playing /\ PlayingInv /\ SeatInv /\ BothSeated /\ Counted(board) /\ TypeOK /\ ~BoardFinished(board)
    <3>1. BothSeated
      BY DEF AllInv, ThreadInv, Prompt, Safe, Exposed, InGame
    <3> QED
      BY <3>1 DEF AllInv, TypeInv, PlayInv, Playing, PlayingInv, InGame
  <2>2. ASSUME NEW c \in Seated
        PROVE  c \in Clients /\ client[c] = "connected" /\ number[c] \in Seats /\ c = players[number[c]]
    BY <2>1 DEF SeatInv, SeatTypes, Owned, Seated
  <2>3. ASSUME turn \in Seated PROVE MyTurn(turn) /\ Playable(view[turn]) # {}
    <3>1. PICK c \in Clients : c = turn /\ number[c] \in Seats /\ c = players[number[c]] /\ c = players[Mover]
      BY <2>2, <2>3, GameRoomAssumption DEF Mover
    <3>2. CanMove(c)
      <4>1. IsTold(c) \/ CanMove(c) \/ HasMoved(c)
        BY <2>1, <3>1 DEF PlayingInv, Turns, TurnGiven
      <4>2. ~IsTold(c)
        BY DEF IsTold
      <4>3. ~HasMoved(c)
        BY DEF HasMoved
      <4> QED
        BY <4>1, <4>2, <4>3
    <3>3. view[c].stage = "game" /\ view[c].turn = number[c] /\ view[c].forced = board.forced
      BY <3>2 DEF CanMove
    <3>4. view[c].playing /\ Knowing(c)
      BY <2>1, <3>1, <3>3 DEF PlayingInv, Follows, IsIn, Enters, Waits
    <3>5. MyTurn(c)
      BY <3>3, <3>4 DEF MyTurn
    <3>6. Coming(c) = {} /\ Posted = {}
      <4>1. inbox[c] \in Seq(Packets) /\ messages \in Seq(Messages)
        BY <2>1 DEF TypeOK
      <4> QED
        BY <4>1, ToSetFacts DEF Coming, Posted
    <3>7. /\ \A t \in Cells \X Cells : t \in view[c].taken => Taken(board, t)
          /\ \A b \in Cells : b \in view[c].complete => Finished(board, b)
      BY <3>3, <3>4, <3>6 DEF Knowing, Knows, KnowsDone, Sent
    <3>8. board \in LargeBoards /\ board.forced \in Anywhere
      BY <2>1 DEF TypeOK, LargeBoards
    <3>9. PICK b \in Cells : b \in Cursor(view[c]) /\ ~Finished(board, b)
      <4>1. CASE board.forced = NoOne
        <5>1. PICK b \in Cells : ~Finished(board, b)
          BY <2>1, <3>8, SomethingToPlay
        <5> QED
          BY <3>3, <3>7, <4>1, <5>1 DEF Cursor
      <4>2. CASE board.forced # NoOne
        BY <2>1, <3>3, <3>8, <4>2 DEF Cursor, Counted, Anywhere
      <4> QED
        BY <4>1, <4>2
    <3>10. PICK x \in Cells : ~Taken(board, <<b, x>>)
      BY <2>1, <3>8, <3>9, SomethingToPlay
    <3>11. <<b, x>> \in Playable(view[c])
      BY <3>7, <3>9, <3>10 DEF Playable
    <3> QED
      BY <3>1, <3>5, <3>11
  <2>4. ASSUME NEW c \in Seated, MyTurn(c), NEW m \in Playable(view[c])
        PROVE  WasValid(board, m[1], m[2])
    BY <2>1, <2>2, <2>4, MoveIsGood
  <2> QED
    BY <2>3, <2>4
<1> QED
  BY <1>1, PlayInvariant, PTL
=============================================================================
