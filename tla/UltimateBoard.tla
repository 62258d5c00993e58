--------------------------- MODULE UltimateBoard ---------------------------
(***************************************************************************)
(* The rules of Ultimate Tic Tac Toe as the game server keeps them: small  *)
(* boards (BoardSmall.java) in the cells of a large one (BoardLarge.java). *)
(* The player of a small board's cell decides in which board the opponent  *)
(* has to play.  What the boards remember of a player is the Player object *)
(* itself, and null is NoOne.                                              *)
(*                                                                         *)
(* The cells and the lines that win are constants: in the program the      *)
(* cells are (0..2) \X (0..2) and the lines its rows, columns and two      *)
(* diagonals, looked at in this order.                                     *)
(***************************************************************************)
EXTENDS Integers, Sequences, FiniteSets

CONSTANTS Cells,     \* the cells of a board, small or large
          Lines,     \* the lines of cells that win, in the order looked at
          NoOne

ASSUME UltimateBoardAssumption ==
    /\ IsFiniteSet(Cells) /\ Cells # {}
    /\ Lines \in Seq((SUBSET Cells) \ {{}})
    /\ NoOne \notin Cells

\* CheckWinner: the owner of the first line with a single owner, and otherwise
\* whoever it was before.
WinnerOf(owner, before) ==
    LET Complete(i) == \E x \in Lines[i] : owner[x] # NoOne
                                             /\ \A y \in Lines[i] : owner[y] = owner[x]
        first       == { i \in DOMAIN Lines : Complete(i) /\ \A j \in 1..(i - 1) : ~Complete(j) }
    IN  IF first = {} THEN before
        ELSE owner[CHOOSE x \in Lines[CHOOSE i \in first : TRUE] : TRUE]

-----------------------------------------------------------------------------
(* BoardSmall: movecount is the number of cells taken *)

EmptySmall == [moves |-> [x \in Cells |-> NoOne], winner |-> NoOne]

SmallFinished(small) == small.winner # NoOne \/ \A x \in Cells : small.moves[x] # NoOne

\* MakeMove on a cell that is not taken, in a board that may well be finished.
PlaySmall(small, player, x) ==
    LET moves == [small.moves EXCEPT ![x] = player]
    IN  [moves |-> moves, winner |-> WinnerOf(moves, small.winner)]

-----------------------------------------------------------------------------
(* BoardLarge: movecount counts boards that are finished, or so it is meant *)

EmptyBoard == [boards |-> [b \in Cells |-> EmptySmall], forced |-> NoOne,
               winner |-> NoOne, movecount |-> 0]

Finished(board, b) == SmallFinished(board.boards[b])

BoardFinished(board) == board.winner # NoOne \/ board.movecount = Cardinality(Cells)

\* The forced board, if any, is the addressed one.
Allowed(board, b) == board.forced \in {NoOne, b}

\* The two conditions MakeMove returns true under.
WasValid(board, b, x) == Allowed(board, b) /\ board.boards[b].moves[x] = NoOne

\* Mutant of Play: the move count is that of the moves.
PlayCountingMoves(board, player, b, x) ==
    LET boards == [board.boards EXCEPT ![b] = PlaySmall(@, player, x)]
    IN  [boards    |-> boards,
         forced    |-> IF SmallFinished(boards[x]) THEN NoOne ELSE x,
         winner    |-> WinnerOf([c \in Cells |-> boards[c].winner], board.winner),
         movecount |-> board.movecount + 1]

\* Mutant of Play: the next move is forced into a board that may be finished.
PlayForcing(board, player, b, x) ==
    LET boards == [board.boards EXCEPT ![b] = PlaySmall(@, player, x)]
    IN  [boards    |-> boards,
         forced    |-> x,
         winner    |-> WinnerOf([c \in Cells |-> boards[c].winner], board.winner),
         movecount |-> board.movecount + (IF SmallFinished(boards[b]) THEN 1 ELSE 0)]

\* MakeMove when it returns true.
Play(board, player, b, x) ==
    LET boards == [board.boards EXCEPT ![b] = PlaySmall(@, player, x)]
    IN  [boards    |-> boards,
         forced    |-> IF SmallFinished(boards[x]) THEN NoOne ELSE x,
         winner    |-> WinnerOf([c \in Cells |-> boards[c].winner], board.winner),
         movecount |-> board.movecount + (IF SmallFinished(boards[b]) THEN 1 ELSE 0)]

\* MakeMove when it returns false: a move in a finished board is counted all the
\* same, if the board is the one to play in.
Refuse(board, b) ==
    [board EXCEPT !.movecount = @ + (IF Allowed(board, b) /\ Finished(board, b) THEN 1 ELSE 0)]
=============================================================================
