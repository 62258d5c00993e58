---------------------------- MODULE MCServerList ----------------------------
(***************************************************************************)
(* Instances of ServerList, and of the registry under it, for TLC.         *)
(***************************************************************************)
EXTENDS ServerList, TLC

CONSTANTS g1, g2

OneServer  == {g1}
TwoServers == {g1, g2}

Environment(prompt, reorders, losses, crashes, until) ==
    [servers |-> Servers, prompt |-> prompt, reorders |-> reorders,
     losses |-> losses, crashes |-> crashes, clock |-> until]

\* Lost datagrams, a restart, and a network that is slow and disorderly.
LossyRestartedSlow == { Environment(TRUE, FALSE, 2, 0, 4),
                        Environment(TRUE, FALSE, 0, 1, 3),
                        Environment(FALSE, TRUE, 1, 0, 1) }

\* Somebody browses: two servers that are up; one, and a datagram is lost; and one
\* that may be registered without ever being told, and gives up.
Calm   == Environment(TRUE, FALSE, 0, 0, 1)
Lossy  == [Environment(TRUE, FALSE, 1, 0, 1) EXCEPT !.servers = OneServer]
Silent == [Environment(TRUE, FALSE, 2, 0, 3) EXCEPT !.servers = OneServer]

AlsoBrowsed == LossyRestartedSlow \union {Calm, Lossy, Silent}

\* Bound: a button is pressed once, or twice.
OnceOrTwice == [e \in AlsoBrowsed |-> IF e \in LossyRestartedSlow THEN 0
                                      ELSE IF e = Lossy THEN 2 ELSE 1]
=============================================================================
