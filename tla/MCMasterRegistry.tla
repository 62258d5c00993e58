-------------------------- MODULE MCMasterRegistry --------------------------
(***************************************************************************)
(* Instances of MasterRegistry for TLC.                                    *)
(***************************************************************************)
EXTENDS MasterRegistry, TLC

CONSTANTS g1, g2

OneServer  == {g1}
TwoServers == {g1, g2}

Environment(prompt, reorders, losses, crashes, until) ==
    [servers |-> Servers, prompt |-> prompt, reorders |-> reorders,
     losses |-> losses, crashes |-> crashes, clock |-> until]

\* A restart during which a datagram is lost.
LossyRestart == { Environment(TRUE, FALSE, 1, 1, 3) }
=============================================================================
