--------------------------- MODULE MCRomDownload ---------------------------
(***************************************************************************)
(* Instances of RomDownload for TLC: two browsers and two ROMs, of one and *)
(* of two pieces.                                                          *)
(***************************************************************************)
EXTENDS RomDownload, TLC

CONSTANTS b1, b2, r1, r2

TwoBrowsers == {b1, b2}
TwoRoms     == {r1, r2}
SmallSizes  == [r \in Roms |-> IF r = r1 THEN 1 ELSE 2]

Downloads(first, second) == [b \in Browsers |-> IF b = b1 THEN first ELSE second]

\* Two users who may cancel; one who asks again after that; one who downloads
\* while the folder changes and datagrams are lost, with and without the change
\* between the check of a file and its opening.
Users == { [cancellers |-> TwoBrowsers, requests |-> Downloads(1, 1),
            loses |-> FALSE, edits |-> 0, quiet |-> TRUE],
           [cancellers |-> {b1}, requests |-> Downloads(2, 0),
            loses |-> FALSE, edits |-> 0, quiet |-> TRUE],
           [cancellers |-> {}, requests |-> Downloads(1, 0),
            loses |-> TRUE, edits |-> 2, quiet |-> TRUE],
           [cancellers |-> {b1}, requests |-> Downloads(1, 0),
            loses |-> TRUE, edits |-> 1, quiet |-> FALSE] }

\* Two users who download at the same time, and nothing else happens.
TwoAtOnce == { [cancellers |-> {}, requests |-> Downloads(1, 1),
                loses |-> FALSE, edits |-> 0, quiet |-> TRUE] }
=============================================================================
