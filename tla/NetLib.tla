------------------------------- MODULE NetLib -------------------------------
(***************************************************************************)
(* The N64's network library (netlib.c), on one N64 per client, and the    *)
(* USB cable it talks through.                                             *)
(*                                                                         *)
(* There is one write buffer.  A program fills it and calls                *)
(* netlib_sendtoserver, which polls: it reads every packet that waits at   *)
(* the USB port, calls the packet's callback, and writes the buffer at the *)
(* end.  A callback may send too: it takes the same buffer, and polls      *)
(* inside the poll.                                                        *)
(*                                                                         *)
(* Left out: what a packet's bytes are, packets for other players          *)
(* (netlib_send and netlib_broadcast: no program of the repository calls   *)
(* them), packets without a callback.                                      *)
(***************************************************************************)
EXTENDS Integers, Sequences, FiniteSets

CONSTANTS Clients, NoPacket

VARIABLES buffer,         \* buffer[c]: global_writebuffer of c's N64, or NoPacket
          sendafterpoll,  \* sendafterpoll[c]: it is to be written
          polls,          \* polls[c]: the calls of netlib_poll that are running
          usb,            \* usb[c]: packets at the USB port, for the N64 to read
          wire,           \* wire[c]: packets the N64 wrote, for the PC to read
          lost            \* history: packets given to netlib_sendtoserver whose
                          \* place another one took

netlib == <<buffer, sendafterpoll, polls, usb, wire, lost>>

NetLibInit ==
    /\ buffer = [c \in Clients |-> NoPacket]
    /\ sendafterpoll = [c \in Clients |-> FALSE]
    /\ polls = [c \in Clients |-> 0]
    /\ usb = [c \in Clients |-> <<>>]
    /\ wire = [c \in Clients |-> <<>>]
    /\ lost = [c \in Clients |-> {}]

\* netlib_start to netlib_sendtoserver: the packet takes the buffer, and a poll
\* begins, in which depth polls are running.
TakeBuffer(c, pkt, depth) ==
    /\ lost' = [lost EXCEPT ![c] = IF sendafterpoll[c] THEN @ \union {buffer[c]} ELSE @]
    /\ buffer' = [buffer EXCEPT ![c] = pkt]
    /\ sendafterpoll' = [sendafterpoll EXCEPT ![c] = TRUE]
    /\ polls' = [polls EXCEPT ![c] = depth]

\* The program sends.
SendToServer(c, pkt) == polls[c] = 0 /\ TakeBuffer(c, pkt, 1) /\ UNCHANGED <<usb, wire>>

\* A poll, which the program may just have begun, reads a packet; answer is what
\* its callback sends, or NoPacket.
ReadPacket(c, answer) ==
    /\ usb[c] # <<>>
    /\ usb' = [usb EXCEPT ![c] = Tail(@)]
    /\ LET depth == IF polls[c] = 0 THEN 1 ELSE polls[c]
       IN \/ answer # NoPacket /\ TakeBuffer(c, answer, depth + 1)
          \/ /\ answer = NoPacket
             /\ polls' = [polls EXCEPT ![c] = depth]
             /\ UNCHANGED <<buffer, sendafterpoll, lost>>
    /\ UNCHANGED wire

\* Mutant of EndPoll: the buffer is written whether it is to be or not.
EndPollWriting(c) ==
    /\ polls[c] > 0 /\ usb[c] = <<>>
    /\ polls' = [polls EXCEPT ![c] = @ - 1]
    /\ wire' = [wire EXCEPT ![c] = Append(@, buffer[c])]
    /\ sendafterpoll' = [sendafterpoll EXCEPT ![c] = FALSE]
    /\ UNCHANGED <<buffer, usb, lost>>

\* Nothing more to read: the buffer is written, if it is to be, and the poll ends.
EndPoll(c) ==
    /\ polls[c] > 0 /\ usb[c] = <<>>
    /\ polls' = [polls EXCEPT ![c] = @ - 1]
    /\ wire' = [wire EXCEPT ![c] = IF sendafterpoll[c] THEN Append(@, buffer[c]) ELSE @]
    /\ sendafterpoll' = [sendafterpoll EXCEPT ![c] = FALSE]
    /\ UNCHANGED <<buffer, usb, lost>>

\* netlib_initialize, in a program that was just loaded.
NetLibStarts(c) ==
    /\ buffer' = [buffer EXCEPT ![c] = NoPacket]
    /\ sendafterpoll' = [sendafterpoll EXCEPT ![c] = FALSE]
    /\ polls' = [polls EXCEPT ![c] = 0]
=============================================================================
