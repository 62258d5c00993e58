----------------------------- MODULE MCAckCodec -----------------------------
(***************************************************************************)
(* The ack fields at their real widths, around every boundary: rollover,   *)
(* the sign bit of a short, the last bit of the field and of the int.      *)
(***************************************************************************)
EXTENDS AckCodec

BoundaryAcks == {0, 5, 32767, 32768, 65535}
NearOnes     == {1, 2, 15, 16, 17, 31, 32}
AsksBehind   == {0, 1, 2, 3, 15, 16, 17, 18, 32, 33, 32767, 32768, 32769, 65534, 65535}
=============================================================================
