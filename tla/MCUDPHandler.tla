---------------------------- MODULE MCUDPHandler ----------------------------
(***************************************************************************)
(* Instances of UDPHandler for TLC.  A game server (Java, resending) talks *)
(* to a client application (C++, which never resends on this connection).  *)
(* The field widths are scaled down together: the ack field has ACK_BITS   *)
(* bits, the int twice as many, and the sequence numbers a multiple of the *)
(* int's width, as 16, 32 and 65536 are in the program.                    *)
(***************************************************************************)
EXTENDS UDPHandler

Server == "server"
Client == "client"

Ends        == {Server, Client}
MixedLang   == [p \in Ends |-> IF p = Server THEN "java" ELSE "cpp"]
ServerOnly  == {Server}

\* Flags of the packets each end sends.
ExplicitOnly == [p \in Ends |-> IF p = Server THEN {{"EXPLICITACK"}} ELSE {}]
WithBeats    == [p \in Ends |-> IF p = Server THEN {{"EXPLICITACK"}, {"UNRELIABLE"}} ELSE {}]
GameTraffic  == [p \in Ends |-> IF p = Server THEN {{}, {"EXPLICITACK"}} ELSE {{}, {"UNRELIABLE"}}]

\* Bounds on the number of reliable messages of each end.
From(s, c) == [p \in Ends |-> IF p = Server THEN s ELSE c]
FourDown     == From(4, 0)
TwoDown      == From(2, 0)
TwoDownOneUp == From(2, 1)
=============================================================================
