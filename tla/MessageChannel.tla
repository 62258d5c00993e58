--------------------------- MODULE MessageChannel ---------------------------
(***************************************************************************)
(* What two connected UDP handlers promise to the programs above them,     *)
(* with no datagrams, sequence numbers or acknowledgements: reliable       *)
(* messages, numbered per sender in the order they were submitted, are     *)
(* delivered at most once in any run of Window consecutive deliveries, in  *)
(* any order; a sender knows which of its messages are still pending; it   *)
(* may give up, after which it takes no further part.                      *)
(***************************************************************************)
EXTENDS Integers, Sequences

CONSTANTS Peers,
          Window      \* a natural number: how far apart redeliveries must be

VARIABLES sent,        \* sent[p]: how many messages p has submitted
          delivered,   \* delivered[p]: what p's program was handed, in order
          pending,     \* pending[p]: p's messages not known to have arrived
          closed       \* closed[p]: p has given up

vars == <<sent, delivered, pending, closed>>

Init ==
    /\ sent = [p \in Peers |-> 0]
    /\ delivered = [p \in Peers |-> <<>>]
    /\ pending = [p \in Peers |-> {}]
    /\ closed = [p \in Peers |-> FALSE]

\* The numbers of the last Window messages p's program was handed.
Recent(p) ==
    { delivered[p][i] : i \in { j \in DOMAIN delivered[p] :
                                    j > Len(delivered[p]) - Window } }

\* Some of p's messages stop being pending; none becomes pending.
Settle(p) == \E rest \in SUBSET pending[p] : pending' = [pending EXCEPT ![p] = rest]

Submit(p) ==
    /\ ~closed[p]
    /\ sent' = [sent EXCEPT ![p] = @ + 1]
    /\ pending' = [pending EXCEPT ![p] = @ \union {sent[p] + 1}]
    /\ UNCHANGED <<delivered, closed>>

\* p is handed the m-th message of q; the same datagram may settle p's own.
Deliver(p, q) ==
    /\ ~closed[p]
    /\ \E m \in 1..sent[q] :
          /\ m \notin Recent(p)
          /\ delivered' = [delivered EXCEPT ![p] = Append(@, m)]
    /\ Settle(p)
    /\ UNCHANGED <<sent, closed>>

Acknowledge(p) ==
    /\ ~closed[p]
    /\ Settle(p)
    /\ UNCHANGED <<sent, delivered, closed>>

GiveUp(p) ==
    /\ ~closed[p]
    /\ pending[p] # {}
    /\ closed' = [closed EXCEPT ![p] = TRUE]
    /\ UNCHANGED <<sent, delivered, pending>>

Next ==
    \E p \in Peers :
        \/ Submit(p)
        \/ \E q \in Peers \ {p} : Deliver(p, q)
        \/ Acknowledge(p)
        \/ GiveUp(p)

Spec == Init /\ [][Next]_vars
=============================================================================
