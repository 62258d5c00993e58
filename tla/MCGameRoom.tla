----------------------------- MODULE MCGameRoom -----------------------------
(***************************************************************************)
(* Instances of GameRoom for TLC, with boards of two cells in a line:      *)
(* whoever has both has won, and two moves finish a small board.           *)
(***************************************************************************)
EXTENDS GameRoom

CONSTANTS c1, c2, c3, x1, x2

Three == {c1, c2, c3}
Two   == {x1, x2}
OneLine == <<Two>>

Environment(players_, times, prompt, delays) ==
    [clients |-> players_, toggles |-> times, prompt |-> prompt, delays |-> delays]

\* Two players with time, three of them, and two in any order.
Rooms == { Environment({c1, c2}, 2, TRUE, TRUE), Environment(Three, 1, TRUE, FALSE),
           Environment({c1, c2}, 1, FALSE, TRUE) }

\* Three players, and time for two games.
Newcomer == { Environment(Three, 2, TRUE, FALSE) }
=============================================================================
