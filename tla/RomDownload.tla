---------------------------- MODULE RomDownload ----------------------------
(***************************************************************************)
(* Downloading a ROM from the master server: the download dialog and the   *)
(* finder thread of each client application (serverbrowser.cpp,            *)
(* romdownloader.cpp), and at the master server the main loop's dispatch   *)
(* and one ClientConnectionThread per client (MasterServer.java,           *)
(* ClientConnectionThread.java), which share one TCP port.                 *)
(*                                                                         *)
(* The request and the reply are unreliable datagrams: they may be lost or *)
(* reordered, and are never repeated.  The file goes over TCP, in          *)
(* pieces that stand for chunks.  A ROM stands for its hash, and for the   *)
(* path the user chose for it; in the server's folder it stands for the    *)
(* file first found with that hash.  Browsers are named by their UDP       *)
(* address, which the master server knows them by.                         *)
(***************************************************************************)
EXTENDS Integers, SequencesExt, FiniteSetsExt

CONSTANTS Browsers, Roms,
          NoRom, NoOne,
          Size,             \* Size[r]: pieces of ROM r
          Environments      \* the environments looked at: which users may press
                            \* Cancel, how many downloads each starts, whether
                            \* datagrams may be lost, how often the server's ROM
                            \* folder changes, and whether it is quiet, that is
                            \* left alone while a thread is about to open a file
                            \* that it has checked

ASSUME RomDownloadAssumption ==
    /\ NoRom \notin Roms /\ NoOne \notin Browsers
    /\ Size \in [Roms -> Nat \ {0}]
    /\ Environments \subseteq [cancellers: SUBSET Browsers, requests: [Browsers -> Nat],
                               loses: BOOLEAN, edits: Nat, quiet: BOOLEAN]

VARIABLES user,        \* user[b]: what b's user is doing, for which ROM
          asked,       \* asked[b]: downloads b's user started
          inputs,      \* inputs[b]: global_msgqueue_serverthread_input
          path,        \* path[b]: filedl_path, NoRom when ""
          dl,          \* dl[b]: the call of FileDownload, if any
          conn,        \* conn[b]: b's end of its TCP connection
          saved,       \* saved[b][r]: what the file at r's path holds
          requests,    \* requests[b]: DOWNLOAD datagrams from b
          replies,     \* replies[b]: DOWNLOAD datagrams to b (sizes)
          thread,      \* thread[b]: the ClientConnectionThread of b
          listener,    \* whose thread's ServerSocket holds the TCP port
          backlog,     \* connections to it that are not accepted
          romtable, folder,
          env          \* the environment, and the edits left of it

client == <<user, asked, inputs, path, dl, saved>>
server == <<thread, romtable>>
tcp    == <<conn, listener, backlog>>
rest   == <<folder, env>>
vars   == <<client, requests, replies, server, tcp, rest>>

NoDownload   == [active |-> FALSE, path |-> NoRom, size |-> 0, got |-> 0]
NoConnection == [state |-> "none", server |-> NoOne, content |-> NoRom, avail |-> 0]
NoThread     == [pc |-> "none", rom |-> NoRom, queue |-> <<>>, file |-> NoRom,
                 content |-> NoRom, left |-> 0, peer |-> NoOne]
Idle         == [doing |-> "browsing", rom |-> NoRom, full |-> FALSE]

Event(type, rom) == [type |-> type, rom |-> rom]

Init ==
    /\ user = [b \in Browsers |-> Idle]
    /\ asked = [b \in Browsers |-> 0]
    /\ inputs = [b \in Browsers |-> <<>>]
    /\ path = [b \in Browsers |-> NoRom]
    /\ dl = [b \in Browsers |-> NoDownload]
    /\ conn = [b \in Browsers |-> NoConnection]
    /\ saved = [b \in Browsers |-> [r \in Roms |-> NoRom]]
    /\ requests = [b \in Browsers |-> <<>>]
    /\ replies = [b \in Browsers |-> <<>>]
    /\ thread = [b \in Browsers |-> NoThread]
    /\ listener = NoOne
    /\ backlog = <<>>
    /\ romtable = [r \in Roms |-> r]
    /\ folder = [r \in Roms |-> r]
    /\ env \in Environments

-----------------------------------------------------------------------------
(* The user: the server list, the download dialog *)

\* A server is activated whose ROM is not in the client's folder; the user says
\* Yes, the dialog is created and the path is posted to the finder thread.
RequestDownload(b) ==
    /\ user[b].doing = "browsing"
    /\ asked[b] < env.requests[b]
    /\ \E r \in Roms :
          /\ saved[b][r] = NoRom
          /\ user' = [user EXCEPT ![b] = [doing |-> "asking", rom |-> r, full |-> FALSE]]
          /\ inputs' = [inputs EXCEPT ![b] = Append(@, Event("FILENAME", r))]
    /\ asked' = [asked EXCEPT ![b] = @ + 1]
    /\ UNCHANGED <<path, dl, saved, requests, replies, server, tcp, rest>>

\* The second post, of the hash; the dialog is then shown.
PostRequest(b) ==
    /\ user[b].doing = "asking"
    /\ inputs' = [inputs EXCEPT ![b] = Append(@, Event("DODL", user[b].rom))]
    /\ user' = [user EXCEPT ![b].doing = "waiting"]
    /\ UNCHANGED <<asked, path, dl, saved, requests, replies, server, tcp, rest>>

\* The dialog ends with 0 and the finder thread is told.
Cancel(b) ==
    /\ b \in env.cancellers
    /\ user[b].doing = "waiting"
    /\ user' = [user EXCEPT ![b] = Idle]
    /\ inputs' = [inputs EXCEPT ![b] = Append(@, Event("CANCELDL", NoRom))]
    /\ UNCHANGED <<asked, path, dl, saved, requests, replies, server, tcp, rest>>

\* The dialog handles progress 100 and the game is started.  (CreateClient waits
\* for the finder thread to leave FileDownload.)
Join(b) ==
    /\ user[b].doing = "waiting"
    /\ user[b].full
    /\ ~dl[b].active
    /\ user' = [user EXCEPT ![b].doing = "playing"]
    /\ UNCHANGED <<asked, inputs, path, dl, saved, requests, replies, server, tcp, rest>>

-----------------------------------------------------------------------------
(* The finder thread: its main loop *)

Running(b) == user[b].doing \notin {"playing", "crashed"}

\* HandleMainInput with a handler, one event at a time.
HandleMainInput(b) ==
    /\ Running(b) /\ ~dl[b].active /\ inputs[b] # <<>>
    /\ inputs' = [inputs EXCEPT ![b] = Tail(@)]
    /\ LET e == Head(inputs[b])
       IN  IF e.type = "DODL"
           THEN /\ requests' = [requests EXCEPT ![b] = Append(@, e.rom)]
                /\ path' = path
           ELSE /\ path' = [path EXCEPT ![b] = e.rom]
                /\ requests' = requests
    /\ UNCHANGED <<user, asked, dl, saved, replies, server, tcp, rest>>

\* A DOWNLOAD reply: ignored without a path or without data, and otherwise
\* FileDownload connects to the master server's TCP port.
HandleReply(b) ==
    /\ Running(b) /\ ~dl[b].active
    /\ \E i \in DOMAIN replies[b] :
          LET size == replies[b][i]
          IN  /\ replies' = [replies EXCEPT ![b] = RemoveAt(@, i)]
              /\ IF path[b] = NoRom \/ size = 0
                 THEN UNCHANGED <<dl, conn, backlog>>
                 ELSE /\ dl' = [dl EXCEPT ![b] = [active |-> TRUE, path |-> path[b],
                                                   size |-> size, got |-> 0]]
                      /\ IF listener = NoOne
                         THEN UNCHANGED <<conn, backlog>>
                         ELSE /\ conn' = [conn EXCEPT ![b].state = "backlog"]
                              /\ backlog' = Append(backlog, b)
    /\ UNCHANGED <<user, asked, inputs, path, saved, requests, server, listener, rest>>

-----------------------------------------------------------------------------
(* The finder thread: the loop of FileDownload *)

\* HandleMainInput without a handler empties the queue: requests are dropped,
\* and the last path given, or the lack of one, counts: the path p becomes dest.
PathAfter(p, events, dest) ==
    LET paths == { i \in DOMAIN events : events[i].type # "DODL" }
    IN  \/ paths = {} /\ dest = p
        \/ \E i \in paths : dest = events[i].rom /\ \A j \in paths : j <= i

\* Mutant: the TCP socket is not closed when the loop ends.
StillConnected(b) == UNCHANGED <<conn, backlog>>

\* b closes its connection; one that was not accepted stays in the backlog.
Disconnected(b) ==
    /\ conn' = [conn EXCEPT ![b] = NoConnection]
    /\ backlog' = [i \in DOMAIN backlog |-> IF backlog[i] = b THEN NoOne ELSE backlog[i]]

\* One iteration: n pieces that arrived are read, the input is looked at, and
\* the loop ends when the path is gone or the file is complete.  A complete
\* file is dumped to the path, which crashes the application if it is gone.
\* The last chunk is asked for whole (lines 996-1000): if the connection holds
\* a longer file, more may come than is missing, and then nothing is dumped.
ReadChunk(b, n, dest, over) ==
    LET got  == dl[b].got + n
        full == got = dl[b].size
        dump == full /\ ~over
    IN  /\ n > 0 \/ inputs[b] # <<>>
        /\ over => full /\ n > 0 /\ Size[conn[b].content] > dl[b].size
        /\ PathAfter(dl[b].path, inputs[b], dest)
        /\ IF dest # NoRom /\ ~full
           THEN /\ dl' = [dl EXCEPT ![b].got = got, ![b].path = dest]
                /\ conn' = [conn EXCEPT ![b].avail = @ - n]
                /\ backlog' = backlog
           ELSE dl' = [dl EXCEPT ![b] = NoDownload] /\ Disconnected(b)
        /\ saved' = IF dump /\ dest # NoRom
                    THEN [saved EXCEPT ![b][dest] = conn[b].content] ELSE saved
        /\ user' = [user EXCEPT
              ![b].full  = @ \/ full,
              ![b].doing = IF dump /\ dest = NoRom THEN "crashed" ELSE @]

FileDownload(b) ==
    /\ Running(b) /\ dl[b].active
    /\ \E n \in 0..Min({conn[b].avail, dl[b].size - dl[b].got}), dest \in Roms \union {NoRom},
          over \in BOOLEAN : ReadChunk(b, n, dest, over)
    /\ inputs' = [inputs EXCEPT ![b] = <<>>]
    /\ UNCHANGED <<asked, path, requests, replies, server, listener, rest>>

-----------------------------------------------------------------------------
(* The master server: the main loop and the threads' loop *)

\* The datagram goes to the queue of the client's thread, which is created if
\* there is none that is alive.
Dispatch(b) ==
    /\ \E i \in DOMAIN requests[b] :
          /\ requests' = [requests EXCEPT ![b] = RemoveAt(@, i)]
          /\ thread' = [thread EXCEPT ![b] =
                IF @.pc = "none" THEN [NoThread EXCEPT !.pc = "poll", !.queue = <<requests[b][i]>>]
                                 ELSE [@ EXCEPT !.queue = Append(thread[b].queue, requests[b][i])]]
    /\ UNCHANGED <<client, replies, romtable, tcp, rest>>

Poll(b) ==
    /\ thread[b].pc = "poll"
    /\ thread[b].queue # <<>>
    /\ thread' = [thread EXCEPT ![b] = [@ EXCEPT !.pc = "lookup", !.rom = Head(thread[b].queue),
                                                 !.queue = Tail(thread[b].queue)]]
    /\ UNCHANGED <<client, requests, replies, romtable, tcp, rest>>

\* The thread left its loop and is no longer alive; its queue is forgotten.
Exit(b) ==
    /\ thread[b].pc = "leaving"
    /\ thread' = [thread EXCEPT ![b] = NoThread]
    /\ UNCHANGED <<client, requests, replies, romtable, tcp, rest>>

-----------------------------------------------------------------------------
(* DownloadROM *)

\* Mutant: the hash of the file is not compared with the one asked for.
LookupUnchecked(b) ==
    /\ thread[b].pc = "lookup"
    /\ replies' = [replies EXCEPT ![b] = Append(@, Size[thread[b].rom])]
    /\ thread' = [thread EXCEPT ![b] = [@ EXCEPT !.pc = "bind", !.file = romtable[thread[b].rom]]]
    /\ UNCHANGED <<client, requests, romtable, tcp, rest>>

\* The ROM is looked up and the reply is sent: an empty one if the ROM is not
\* in the table, or its file is gone, or has changed (and the table is mended).
Lookup(b) ==
    LET rom  == thread[b].rom
        file == romtable[rom]
        held == IF file = NoRom THEN NoRom ELSE folder[file]
        ok   == held = rom
    IN  /\ thread[b].pc = "lookup"
        /\ replies' = [replies EXCEPT ![b] = Append(@, IF ok THEN Size[rom] ELSE 0)]
        /\ romtable' = IF ok THEN romtable
                       ELSE [r \in Roms |-> IF r = held THEN file
                                            ELSE IF r = rom THEN NoRom ELSE romtable[r]]
        /\ thread' = [thread EXCEPT ![b] = [@ EXCEPT !.pc = IF ok THEN "bind" ELSE "leaving",
                                                     !.file = file]]
        /\ UNCHANGED <<client, requests, tcp, rest>>

\* new ServerSocket(6464): while another thread holds the port it throws, and
\* the thread goes on with its loop.
Bind(b) ==
    /\ thread[b].pc = "bind"
    /\ IF listener = NoOne
       THEN listener' = b /\ thread' = [thread EXCEPT ![b].pc = "open"]
       ELSE listener' = listener /\ thread' = [thread EXCEPT ![b].pc = "poll"]
    /\ UNCHANGED <<client, requests, replies, romtable, conn, backlog, rest>>

\* new FileInputStream: if the file is gone it throws, the ServerSocket is not
\* closed and the thread goes on with its loop.
Open(b) ==
    LET held == folder[thread[b].file]
    IN  /\ thread[b].pc = "open"
        /\ thread' = [thread EXCEPT ![b] =
              IF held = NoRom THEN [@ EXCEPT !.pc = "poll"]
              ELSE [@ EXCEPT !.pc = "accept", !.content = held,
                             !.left = Min({Size[thread[b].rom], Size[held]})]]
        /\ UNCHANGED <<client, requests, replies, romtable, tcp, rest>>

\* accept() has no timeout: it waits for a connection, whoever made it.
Accept(b) ==
    /\ thread[b].pc = "accept"
    /\ backlog # <<>>
    /\ backlog' = Tail(backlog)
    /\ thread' = [thread EXCEPT ![b] = [@ EXCEPT !.pc = "sending", !.peer = Head(backlog)]]
    /\ conn' = IF Head(backlog) = NoOne THEN conn
               ELSE [conn EXCEPT ![Head(backlog)] =
                       [state |-> "open", server |-> b,
                        content |-> thread[b].content, avail |-> 0]]
    /\ UNCHANGED <<client, requests, replies, romtable, listener, rest>>

Connected(b) ==
    /\ thread[b].peer # NoOne
    /\ conn[thread[b].peer].state = "open" /\ conn[thread[b].peer].server = b

\* Mutant: the loop over the chunks makes one iteration too many.
SendOneMore(b) ==
    /\ thread[b].pc = "sending"
    /\ thread[b].left >= 0 /\ Connected(b)
    /\ thread' = [thread EXCEPT ![b].left = @ - 1]
    /\ conn' = [conn EXCEPT ![thread[b].peer].avail = @ + 1]
    /\ UNCHANGED <<client, requests, replies, romtable, listener, backlog, rest>>

\* The next piece of the file goes to the client that was accepted.
SendChunk(b) ==
    /\ thread[b].pc = "sending"
    /\ thread[b].left > 0 /\ Connected(b)
    /\ thread' = [thread EXCEPT ![b].left = @ - 1]
    /\ conn' = [conn EXCEPT ![thread[b].peer].avail = @ + 1]
    /\ UNCHANGED <<client, requests, replies, romtable, listener, backlog, rest>>

\* Mutant: the accepted socket is not closed.
NotClosed(c) == IF c.state = "backlog" THEN [c EXCEPT !.state = "closed"] ELSE c

\* Connections that were never accepted die with the ServerSocket.
Closed(c) ==
    IF c.state \in {"backlog", "open"} THEN [c EXCEPT !.state = "closed"] ELSE c

\* Mutant: a broken pipe ends the thread but leaves the ServerSocket open.
FinishWithoutClosing(b) ==
    /\ thread[b].pc = "sending"
    /\ thread[b].left = 0 \/ ~Connected(b)
    /\ thread' = [thread EXCEPT ![b].pc = "leaving"]
    /\ IF Connected(b)
       THEN /\ listener' = NoOne /\ backlog' = <<>>
            /\ conn' = [c \in Browsers |-> Closed(conn[c])]
       ELSE UNCHANGED tcp
    /\ UNCHANGED <<client, requests, replies, romtable, rest>>

\* The whole file was written, or a SocketException said that the client is
\* gone: either way the sockets are closed and the thread leaves its loop.
Finish(b) ==
    /\ thread[b].pc = "sending"
    /\ thread[b].left = 0 \/ ~Connected(b)
    /\ thread' = [thread EXCEPT ![b].pc = "leaving"]
    /\ listener' = NoOne
    /\ backlog' = <<>>
    /\ conn' = [c \in Browsers |-> Closed(conn[c])]
    /\ UNCHANGED <<client, requests, replies, romtable, rest>>

-----------------------------------------------------------------------------
(* The environment *)

\* The datagram is lost on its way.
Lose(b) ==
    /\ env.loses
    /\ \/ \E i \in DOMAIN requests[b] :
             requests' = [requests EXCEPT ![b] = RemoveAt(@, i)] /\ replies' = replies
       \/ \E i \in DOMAIN replies[b] :
             replies' = [replies EXCEPT ![b] = RemoveAt(@, i)] /\ requests' = requests
    /\ UNCHANGED <<client, server, tcp, rest>>

HoldsPort(b) == thread[b].pc \in {"open", "accept", "sending"}

\* A ServerSocket nobody refers to may be closed by the garbage collector.
Collect ==
    /\ listener # NoOne /\ ~HoldsPort(listener)
    /\ listener' = NoOne
    /\ backlog' = <<>>
    /\ conn' = [c \in Browsers |-> Closed(conn[c])]
    /\ UNCHANGED <<client, requests, replies, server, rest>>

\* The owner of the master server removes or replaces a file of the folder.
EditFolder ==
    /\ env.edits > 0
    /\ env.quiet => \A b \in Browsers : thread[b].pc \notin {"bind", "open"}
    /\ env' = [env EXCEPT !.edits = @ - 1]
    /\ \E file \in Roms, held \in Roms \union {NoRom} :
          held # folder[file] /\ folder' = [folder EXCEPT ![file] = held]
    /\ UNCHANGED <<client, requests, replies, server, tcp>>

-----------------------------------------------------------------------------

User(b)      == RequestDownload(b) \/ Cancel(b)
Finder(b)    == PostRequest(b) \/ Join(b) \/ HandleMainInput(b) \/ HandleReply(b) \/ FileDownload(b)
Master(b)    == Poll(b) \/ Lookup(b) \/ Bind(b) \/ Open(b) \/ Accept(b)
                  \/ SendChunk(b) \/ Finish(b) \/ Exit(b)

Next ==
    \/ \E b \in Browsers : User(b) \/ Finder(b) \/ Dispatch(b) \/ Master(b) \/ Lose(b)
    \/ Collect
    \/ EditFolder

Spec == Init /\ [][Next]_vars

\* Threads run and datagrams that are not lost arrive; users do as they please,
\* and nothing obliges the garbage collector.
FairSpec ==
    /\ Spec
    /\ \A b \in Browsers : WF_vars(Finder(b)) /\ WF_vars(Dispatch(b)) /\ WF_vars(Master(b))

-----------------------------------------------------------------------------
(* Properties *)

SomeRom == Roms \union {NoRom}
SomeOne == Browsers \union {NoOne}

UserStates  == [doing: {"browsing", "asking", "waiting", "playing", "crashed"}, rom: SomeRom, full: BOOLEAN]
Events      == [type: {"FILENAME", "DODL", "CANCELDL"}, rom: SomeRom]
Transfers   == [active: BOOLEAN, path: SomeRom, size: Nat, got: Nat]
Connections == [state: {"none", "backlog", "open", "closed"}, server: SomeOne, content: SomeRom, avail: Nat]
Threads     == [pc: {"none", "poll", "lookup", "bind", "open", "accept", "sending", "leaving"},
                rom: SomeRom, queue: Seq(Roms), file: SomeRom, content: SomeRom, left: Nat, peer: SomeOne]

\* Types, and: a thread sends no more pieces than it has read from its file, and a
\* client reads no more than were sent (ClientConnectionThread.java, DownloadROM).
TypeOK ==
    /\ user \in [Browsers -> UserStates]
    /\ asked \in [Browsers -> Nat]
    /\ inputs \in [Browsers -> Seq(Events)]
    /\ path \in [Browsers -> SomeRom]
    /\ dl \in [Browsers -> Transfers]
    /\ conn \in [Browsers -> Connections]
    /\ saved \in [Browsers -> [Roms -> SomeRom]]
    /\ requests \in [Browsers -> Seq(Roms)]
    /\ replies \in [Browsers -> Seq(Nat)]
    /\ thread \in [Browsers -> Threads]
    /\ listener \in SomeOne
    /\ backlog \in Seq(SomeOne)
    /\ romtable \in [Roms -> SomeRom]
    /\ folder \in [Roms -> SomeRom]
    /\ env \in [cancellers: SUBSET Browsers, requests: [Browsers -> Nat],
                loses: BOOLEAN, edits: Nat, quiet: BOOLEAN]

\* One TCP port serves one download at a time: two clients are never connected
\* to the master server's threads at once, whatever was cancelled, and the one
\* that is belongs to the thread that holds the port.
OneTransfer ==
    \A b, c \in Browsers : conn[b].state = "open" =>
        /\ listener = conn[b].server /\ thread[listener].pc = "sending"
        /\ conn[c].state = "open" => b = c

\* A client that waits to be accepted is inside FileDownload and has read nothing; one
\* that is connected is inside FileDownload too, and what it can still get is what the
\* thread has not sent of its file, whatever was cancelled and asked for again.
PiecesAccounted ==
    /\ \A i \in DOMAIN backlog : backlog[i] # NoOne =>
          dl[backlog[i]].active /\ dl[backlog[i]].got = 0
    /\ \A b \in Browsers : conn[b].state = "open" =>
          /\ dl[b].active
          /\ LET t == thread[conn[b].server]
             IN  /\ conn[b].content = t.content
                 /\ dl[b].got + conn[b].avail + t.left = Min({Size[t.rom], Size[t.content]})

\* The file at a ROM's path is that ROM: "Request a file download from the
\* master server ... The hash of the file to download ... The destination
\* filepath of the ROM" (serverbrowser.cpp:545-547).
RightRom == \A b \in Browsers : \A r \in Roms : saved[b][r] \in {NoRom, r}

\* ... which holds for the first download of all, if no other user starts one,
\* the user does not cancel, and the folder is quiet: whatever datagrams are
\* lost, and however the folder changed since it was indexed, the file that is
\* sent has the hash that was asked for.
FirstRomRight ==
    /\ env.quiet /\ env.cancellers = {}
    /\ \A b, c \in Browsers : asked[b] <= 1 /\ (asked[b] = 1 /\ asked[c] = 1 => b = c)
    => RightRom

\* A thread that accepted a connection gives the port back, even if the client
\* cancels half way.
PortReleased == \A b \in Browsers : thread[b].pc = "sending" ~> listener # b
=============================================================================
