----------------------------- MODULE MCRealtime -----------------------------
(***************************************************************************)
(* Instances of Realtime for TLC.                                          *)
(***************************************************************************)
EXTENDS Realtime, TLC

CONSTANTS c1, c2

Two == {c1, c2}
None == [type |-> "none"]

\* What may happen, and how often; nothing else does.
Calm == [r \in Rare |-> 0]

Environment(who, n, fresh_, may_, ordered_) ==
    [clients |-> who, slots |-> n, fresh |-> fresh_, may |-> may_, ordered |-> ordered_]

\* A window whose cart may be unplugged and which is closed, and one whose button is
\* pressed twice; two players and an input, on servers of any age; players who leave
\* and come back; more players than slots; one player to whom everything happens.
Sessions ==
    { Environment({c1}, 1, TRUE, ("click" :> 1 @@ "unplug" :> 1 @@ "close" :> 1) @@ Calm, TRUE),
      Environment({c1}, 1, TRUE, ("click" :> 2) @@ Calm, TRUE),
      Environment(Two, 2, FALSE, ("input" :> 1 @@ "jump" :> 1) @@ Calm, TRUE),
      Environment(Two, 2, FALSE, ("leave" :> 1) @@ Calm, TRUE),
      Environment(Two, 1, FALSE, ("leave" :> 2) @@ Calm, TRUE),
      Environment({c1}, 1, FALSE, [r \in Rare |-> IF r \in {"click", "close", "unplug"} THEN 0
                                                   ELSE IF r = "input" THEN 2 ELSE 1], TRUE) }

\* One player, whose packets may overtake each other.
Unordered == { Environment({c1}, 1, FALSE, ("input" :> 2) @@ Calm, FALSE) }
=============================================================================
