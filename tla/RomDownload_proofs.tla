------------------------- MODULE RomDownload_proofs -------------------------
(***************************************************************************)
(* What downloads keep, for any clients, ROMs and environments: types, one *)
(* download at a time on the master server's one TCP port, every piece of  *)
(* it accounted for, and the right ROM for a user who is alone.            *)
(***************************************************************************)
EXTENDS RomDownload, SequenceFacts

-----------------------------------------------------------------------------
(* The inductive invariants *)

\* What a thread is busy with is a ROM of the server, and so is what is asked for.
Named(t) ==
    /\ t.pc \in {"lookup", "bind", "open", "accept", "sending"} => t.rom \in Roms
    /\ t.pc \in {"bind", "open"} => t.file \in Roms
    /\ t.pc \in {"accept", "sending"} => t.content \in Roms

RomsAreNamed ==
    \A b \in Browsers :
        /\ user[b].doing \in {"asking", "waiting"} => user[b].rom \in Roms
        /\ \A i \in DOMAIN inputs[b] : inputs[b][i].type = "DODL" => inputs[b][i].rom \in Roms
        /\ Named(thread[b])

TypeInv == TypeOK /\ RomsAreNamed

\* The pieces that a thread read from its file when it opened it.
Pieces(t) == Min({Size[t.rom], Size[t.content]})

\* A client that is not in FileDownload has no connection; one that was not accepted has
\* read nothing, and is in the backlog at most once; and a thread that waits for one has
\* sent nothing.
Inactive(b) == ~dl[b].active => conn[b] = NoConnection

Unread(b) ==
    conn[b].state \in {"none", "backlog"} =>
        conn[b].content = NoRom /\ conn[b].avail = 0 /\ (dl[b].active => dl[b].got = 0)

Waits(b) ==
    \A i \in DOMAIN backlog : backlog[i] = b =>
        conn[b].state = "backlog" /\ \A j \in DOMAIN backlog : backlog[j] = b => i = j

Ready(b) == thread[b].pc = "accept" => thread[b].left = Pieces(thread[b])

\* What was sent to a client is what its thread has not got left.
AccountOf(b) ==
    conn[b].state = "open" =>
        LET t == thread[conn[b].server]
        IN  /\ conn[b].content = t.content
            /\ dl[b].got + conn[b].avail + t.left = Pieces(t)

PiecesInv ==
    \A b \in Browsers : Inactive(b) /\ Unread(b) /\ Waits(b) /\ Ready(b) /\ AccountOf(b)

\* One user at most has started a download, and one download.
OneDownload ==
    \A b, c \in Browsers : asked[b] <= 1 /\ (asked[b] = 1 /\ asked[c] = 1 => b = c)

\* Who asked for nothing is unknown everywhere.
Unused(b) ==
    /\ user[b] = Idle /\ inputs[b] = <<>> /\ path[b] = NoRom /\ dl[b] = NoDownload
    /\ conn[b].content = NoRom /\ requests[b] = <<>> /\ thread[b] = NoThread

\* What a thread does is about the ROM r, and so is everything that b started.
About(t, r) ==
    /\ \A i \in DOMAIN t.queue : t.queue[i] = r
    /\ t.pc \in {"lookup", "bind", "open", "accept", "sending"} => t.rom = r
    /\ t.pc \in {"bind", "open"} => folder[t.file] = r
    /\ t.pc \in {"accept", "sending"} => t.content = r

IsAbout(b, r) ==
    /\ \A i \in DOMAIN inputs[b] : inputs[b][i].rom = r
    /\ {path[b], dl[b].path, conn[b].content} \subseteq {NoRom, r}
    /\ \A i \in DOMAIN requests[b] : requests[b][i] = r
    /\ About(thread[b], r)
    /\ \A q \in Roms : saved[b][q] \in {NoRom, q}

FirstOf(b) == (asked[b] = 0 => Unused(b)) /\ IsAbout(b, user[b].rom)

FirstInv ==
    env.quiet /\ env.cancellers = {} /\ OneDownload => \A b \in Browsers : FirstOf(b)

-----------------------------------------------------------------------------
(* Type correctness *)

\* The least of two numbers is one of them.
LEMMA MinFacts ==
    ASSUME NEW x \in Int, NEW y \in Int
    PROVE  /\ Min({x, y}) \in {x, y} /\ Min({x, y}) <= x /\ Min({x, y}) <= y
           /\ x \in Nat /\ y \in Nat => Min({x, y}) \in Nat
<1>1. \E m \in {x, y} : \A z \in {x, y} : m <= z
  OBVIOUS
<1>2. Min({x, y}) \in {x, y} /\ \A z \in {x, y} : Min({x, y}) <= z
  BY <1>1 DEF Min
<1> QED
  BY <1>2

\* What a thread and a client are at the beginning, and after some of their steps.
LEMMA RecordFacts ==
    /\ NoThread \in Threads /\ NoConnection \in Connections /\ NoDownload \in Transfers
    /\ Idle \in UserStates
    /\ \A r \in SomeRom : /\ Event("FILENAME", r) \in Events
                          /\ Event("DODL", r) \in Events /\ Event("CANCELDL", r) \in Events
    /\ \A c \in Connections : Closed(c) \in Connections
<1>1. <<>> \in Seq(Roms)
  OBVIOUS
<1>2. NoThread \in Threads
  BY <1>1 DEF NoThread, Threads, SomeRom, SomeOne
<1>3. NoConnection \in Connections /\ NoDownload \in Transfers
  BY DEF NoConnection, NoDownload, Connections, Transfers, SomeRom, SomeOne
<1>4. Idle \in UserStates
  BY DEF Idle, UserStates, SomeRom
<1>5. \A r \in SomeRom : /\ Event("FILENAME", r) \in Events
                         /\ Event("DODL", r) \in Events /\ Event("CANCELDL", r) \in Events
  BY DEF Event, Events
<1>6. \A c \in Connections : Closed(c) \in Connections
  BY DEF Closed, Connections
<1> QED
  BY <1>2, <1>3, <1>4, <1>5, <1>6

\* An event more in the queue of the finder thread.
LEMMA PostedEvent ==
    ASSUME TypeInv, NEW b \in Browsers, NEW e \in Events, e.type = "DODL" => e.rom \in Roms,
           inputs' = [inputs EXCEPT ![b] = Append(@, e)]
    PROVE  /\ inputs' \in [Browsers -> Seq(Events)]
           /\ \A c \in Browsers : \A i \in DOMAIN inputs'[c] :
                inputs'[c][i].type = "DODL" => inputs'[c][i].rom \in Roms
<1>1. inputs \in [Browsers -> Seq(Events)] /\ inputs[b] \in Seq(Events)
  BY DEF TypeInv, TypeOK
<1>2. /\ Append(inputs[b], e) \in Seq(Events)
      /\ DOMAIN Append(inputs[b], e) = 1..(Len(inputs[b]) + 1)
      /\ Append(inputs[b], e)[Len(inputs[b]) + 1] = e
      /\ \A i \in DOMAIN inputs[b] : Append(inputs[b], e)[i] = inputs[b][i]
      /\ DOMAIN inputs[b] = 1..Len(inputs[b]) /\ Len(inputs[b]) \in Nat
  BY <1>1, AppendFacts
<1>3. inputs' \in [Browsers -> Seq(Events)]
  BY <1>1, <1>2
<1>4. ASSUME NEW i \in DOMAIN Append(inputs[b], e), Append(inputs[b], e)[i].type = "DODL"
      PROVE  Append(inputs[b], e)[i].rom \in Roms
  BY <1>2, <1>4 DEF TypeInv, RomsAreNamed
<1>5. \A c \in Browsers : c # b => inputs'[c] = inputs[c]
  BY <1>1
<1>6. inputs'[b] = Append(inputs[b], e)
  BY <1>1
<1> QED
  BY <1>3, <1>4, <1>5, <1>6 DEF TypeInv, RomsAreNamed

\* The user's steps.
LEMMA UserTypes ==
    ASSUME TypeInv, NEW b \in Browsers,
           RequestDownload(b) \/ Cancel(b) \/ PostRequest(b) \/ Join(b)
    PROVE  TypeInv'
<1>1. UNCHANGED <<path, dl, saved, requests, replies, server, tcp, rest>>
  BY DEF RequestDownload, Cancel, PostRequest, Join
<1>2. user \in [Browsers -> UserStates] /\ asked \in [Browsers -> Nat] /\ user[b] \in UserStates
  BY DEF TypeInv, TypeOK
<1>3. ASSUME user' \in [Browsers -> UserStates], asked' \in [Browsers -> Nat],
             inputs' \in [Browsers -> Seq(Events)],
             \A c \in Browsers :
                /\ user'[c].doing \in {"asking", "waiting"} => user'[c].rom \in Roms
                /\ \A i \in DOMAIN inputs'[c] : inputs'[c][i].type = "DODL" => inputs'[c][i].rom \in Roms
      PROVE  TypeInv'
  BY <1>1, <1>3 DEF TypeInv, TypeOK, RomsAreNamed, server, tcp, rest
<1>4. CASE RequestDownload(b)
  <2>1. PICK r \in Roms :
          /\ user' = [user EXCEPT ![b] = [doing |-> "asking", rom |-> r, full |-> FALSE]]
          /\ inputs' = [inputs EXCEPT ![b] = Append(@, Event("FILENAME", r))]
    BY <1>4 DEF RequestDownload
  <2>2. [doing |-> "asking", rom |-> r, full |-> FALSE] \in UserStates
    BY DEF UserStates, SomeRom
  <2>3. user' \in [Browsers -> UserStates]
        /\ \A c \in Browsers : user'[c].doing \in {"asking", "waiting"} => user'[c].rom \in Roms
    BY <1>2, <2>1, <2>2 DEF TypeInv, RomsAreNamed
  <2>4. Event("FILENAME", r) \in Events /\ Event("FILENAME", r).type # "DODL"
    BY RecordFacts DEF SomeRom, Event
  <2>5. asked' \in [Browsers -> Nat]
    BY <1>2, <1>4 DEF RequestDownload
  <2> QED
    BY <1>3, <2>1, <2>3, <2>4, <2>5, PostedEvent
<1>5. CASE PostRequest(b)
  <2>1. user[b].rom \in Roms
    BY <1>5 DEF PostRequest, TypeInv, RomsAreNamed
  <2>2. Event("DODL", user[b].rom) \in Events /\ Event("DODL", user[b].rom).rom \in Roms
    BY <2>1, RecordFacts DEF SomeRom, Event
  <2>3. user' \in [Browsers -> UserStates]
        /\ \A c \in Browsers : user'[c].doing \in {"asking", "waiting"} => user'[c].rom \in Roms
    BY <1>2, <1>5, <2>1 DEF PostRequest, UserStates, TypeInv, RomsAreNamed
  <2> QED
    BY <1>2, <1>3, <1>5, <2>2, <2>3, PostedEvent DEF PostRequest
<1>6. CASE Cancel(b)
  <2>1. Event("CANCELDL", NoRom) \in Events /\ Event("CANCELDL", NoRom).type # "DODL"
    BY RecordFacts DEF SomeRom, Event
  <2>2. user' \in [Browsers -> UserStates]
        /\ \A c \in Browsers : user'[c].doing \in {"asking", "waiting"} => user'[c].rom \in Roms
    BY <1>2, <1>6, RecordFacts DEF Cancel, Idle, TypeInv, RomsAreNamed
  <2> QED
    BY <1>2, <1>3, <1>6, <2>1, <2>2, PostedEvent DEF Cancel
<1>7. CASE Join(b)
  <2>1. user' \in [Browsers -> UserStates]
        /\ \A c \in Browsers : user'[c].doing \in {"asking", "waiting"} => user'[c].rom \in Roms
    BY <1>2, <1>7 DEF Join, UserStates, TypeInv, RomsAreNamed
  <2> QED
    BY <1>2, <1>3, <1>7, <2>1 DEF Join, TypeInv, TypeOK, RomsAreNamed
<1> QED
  BY <1>4, <1>5, <1>6, <1>7

\* One that takes its next request.
LEMMA HandleMainInputTypes ==
    ASSUME TypeInv, NEW b \in Browsers, HandleMainInput(b)
    PROVE  TypeInv'
<1> DEFINE e == Head(inputs[b])
<1>1. /\ inputs \in [Browsers -> Seq(Events)] /\ path \in [Browsers -> SomeRom]
      /\ requests \in [Browsers -> Seq(Roms)]
  BY DEF TypeInv, TypeOK
<1>2. inputs[b] \in Seq(Events) /\ requests[b] \in Seq(Roms) /\ inputs[b] # <<>>
  BY <1>1 DEF HandleMainInput
<1>3. /\ e \in Events /\ e = inputs[b][1] /\ 1 \in DOMAIN inputs[b]
      /\ Tail(inputs[b]) \in Seq(Events)
      /\ \A i \in DOMAIN Tail(inputs[b]) : i + 1 \in DOMAIN inputs[b] /\ Tail(inputs[b])[i] = inputs[b][i + 1]
  BY <1>2, TailFacts
<1>4. e.type = "DODL" => e.rom \in Roms
  BY <1>3 DEF TypeInv, RomsAreNamed
<1>5. e.rom \in SomeRom
  BY <1>3 DEF Events
<1>6. inputs' = [inputs EXCEPT ![b] = Tail(@)]
  BY DEF HandleMainInput
<1>7. /\ inputs' \in [Browsers -> Seq(Events)]
      /\ \A c \in Browsers : \A i \in DOMAIN inputs'[c] :
           inputs'[c][i].type = "DODL" => inputs'[c][i].rom \in Roms
  <2>1. inputs' \in [Browsers -> Seq(Events)]
    BY <1>1, <1>3, <1>6
  <2>2. inputs'[b] = Tail(inputs[b]) /\ \A c \in Browsers : c # b => inputs'[c] = inputs[c]
    BY <1>1, <1>6
  <2>3. \A i \in DOMAIN Tail(inputs[b]) :
          Tail(inputs[b])[i].type = "DODL" => Tail(inputs[b])[i].rom \in Roms
    BY <1>3 DEF TypeInv, RomsAreNamed
  <2> QED
    BY <2>1, <2>2, <2>3 DEF TypeInv, RomsAreNamed
<1> HIDE DEF e
<1>8. path' \in [Browsers -> SomeRom] /\ requests' \in [Browsers -> Seq(Roms)]
  <2>1. CASE e.type = "DODL"
    <3>1. Append(requests[b], e.rom) \in Seq(Roms)
      BY <1>2, <1>4, <2>1, AppendFacts
    <3>2. path' = path /\ requests' = [requests EXCEPT ![b] = Append(@, e.rom)]
      BY <2>1 DEF HandleMainInput, e
    <3> QED
      BY <1>1, <3>1, <3>2
  <2>2. CASE e.type # "DODL"
    BY <1>1, <1>5, <2>2 DEF HandleMainInput, e
  <2> QED
    BY <2>1, <2>2
<1>9. UNCHANGED <<user, asked, dl, saved, replies, server, tcp, rest>>
  BY DEF HandleMainInput
<1> QED
  BY <1>7, <1>8, <1>9 DEF TypeInv, TypeOK, RomsAreNamed, server, tcp, rest

\* A client that is given its connection or loses it, and sends or receives datagrams.
LEMMA TransferTypes ==
    ASSUME TypeInv, UNCHANGED <<asked, path, requests, server, listener, rest>>,
           user' \in [Browsers -> UserStates],
           \A c \in Browsers : user'[c].doing \in {"asking", "waiting"} => user'[c].rom \in Roms,
           inputs' \in [Browsers -> Seq(Events)],
           \A c \in Browsers : inputs'[c] \in {inputs[c], <<>>},
           dl' \in [Browsers -> Transfers], conn' \in [Browsers -> Connections],
           saved' \in [Browsers -> [Roms -> SomeRom]], replies' \in [Browsers -> Seq(Nat)],
           backlog' \in Seq(SomeOne)
    PROVE  TypeInv'
<1>1. ASSUME NEW c \in Browsers, NEW i \in DOMAIN inputs'[c], inputs'[c][i].type = "DODL"
      PROVE  inputs'[c][i].rom \in Roms
  <2>1. inputs'[c] = inputs[c]
    OBVIOUS
  <2> QED
    BY <1>1, <2>1 DEF TypeInv, RomsAreNamed
<1> QED
  BY <1>1 DEF TypeInv, TypeOK, RomsAreNamed, server, rest

\* One that receives the reply, and connects.
LEMMA HandleReplyTypes ==
    ASSUME TypeInv, NEW b \in Browsers, HandleReply(b)
    PROVE  TypeInv'
<1>1. /\ replies \in [Browsers -> Seq(Nat)] /\ dl \in [Browsers -> Transfers]
      /\ conn \in [Browsers -> Connections] /\ backlog \in Seq(SomeOne)
      /\ path \in [Browsers -> SomeRom]
  BY DEF TypeInv, TypeOK
<1>2. PICK i \in DOMAIN replies[b] :
        LET size == replies[b][i]
        IN  /\ replies' = [replies EXCEPT ![b] = RemoveAt(@, i)]
            /\ IF path[b] = NoRom \/ size = 0
               THEN UNCHANGED <<dl, conn, backlog>>
               ELSE /\ dl' = [dl EXCEPT ![b] = [active |-> TRUE, path |-> path[b],
                                                 size |-> size, got |-> 0]]
                    /\ IF listener = NoOne
                       THEN UNCHANGED <<conn, backlog>>
                       ELSE /\ conn' = [conn EXCEPT ![b].state = "backlog"]
                            /\ backlog' = Append(backlog, b)
  BY DEF HandleReply
<1>3. replies[b] \in Seq(Nat)
  BY <1>1
<1>4. replies[b][i] \in Nat /\ RemoveAt(replies[b], i) \in Seq(Nat)
  BY <1>3, RemoveAtFacts
<1>5. replies' \in [Browsers -> Seq(Nat)]
  BY <1>1, <1>2, <1>4
<1>6. [active |-> TRUE, path |-> path[b], size |-> replies[b][i], got |-> 0] \in Transfers
  BY <1>1, <1>4 DEF Transfers
<1>7. dl' \in [Browsers -> Transfers]
  BY <1>1, <1>2, <1>6
<1>8. [conn[b] EXCEPT !.state = "backlog"] \in Connections
  BY <1>1 DEF Connections
<1>9. conn' = conn \/ conn' = [conn EXCEPT ![b] = [conn[b] EXCEPT !.state = "backlog"]]
  BY <1>2
<1>10. conn' \in [Browsers -> Connections]
  BY <1>1, <1>8, <1>9
<1>11. backlog' \in Seq(SomeOne)
  <2>1. Append(backlog, b) \in Seq(SomeOne)
    BY <1>1, AppendFacts DEF SomeOne
  <2> QED
    BY <1>1, <1>2, <2>1
<1>12. UNCHANGED <<user, asked, inputs, path, saved, requests, server, listener, rest>>
  BY DEF HandleReply
<1> QED
  BY <1>5, <1>7, <1>10, <1>11, <1>12, TransferTypes DEF TypeInv, TypeOK, RomsAreNamed

\* The dialog is told of the progress, or is gone.
LEMMA ProgressSeen ==
    ASSUME NEW u \in UserStates, NEW full \in BOOLEAN, NEW gone \in BOOLEAN
    PROVE  LET v == [u EXCEPT !.full = @ \/ full, !.doing = IF full /\ gone THEN "crashed" ELSE @]
           IN  v \in UserStates /\ v.rom = u.rom /\ v.doing \in {"crashed", u.doing}
<1> DEFINE v == [u EXCEPT !.full = @ \/ full, !.doing = IF full /\ gone THEN "crashed" ELSE @]
<1>1. v \in UserStates
  BY Zenon DEF UserStates
<1>2. v.rom = u.rom /\ v.doing \in {"crashed", u.doing}
  BY Zenon DEF UserStates
<1> QED
  BY <1>1, <1>2

\* One in the loop of FileDownload.
LEMMA FileDownloadTypes ==
    ASSUME TypeInv, NEW b \in Browsers, FileDownload(b)
    PROVE  TypeInv'
<1>1. /\ user \in [Browsers -> UserStates] /\ inputs \in [Browsers -> Seq(Events)]
      /\ dl \in [Browsers -> Transfers] /\ conn \in [Browsers -> Connections]
      /\ backlog \in Seq(SomeOne) /\ saved \in [Browsers -> [Roms -> SomeRom]]
      /\ replies \in [Browsers -> Seq(Nat)]
  BY DEF TypeInv, TypeOK
<1>chunk. PICK n \in 0..Min({conn[b].avail, dl[b].size - dl[b].got}), dest \in Roms \union {NoRom},
              over \in BOOLEAN : ReadChunk(b, n, dest, over)
  BY DEF FileDownload
<1> DEFINE full == dl[b].got + n = dl[b].size
           dump == full /\ ~over
<1>2. /\ IF dest # NoRom /\ ~full
         THEN /\ dl' = [dl EXCEPT ![b].got = dl[b].got + n, ![b].path = dest]
              /\ conn' = [conn EXCEPT ![b].avail = @ - n]
              /\ backlog' = backlog
         ELSE dl' = [dl EXCEPT ![b] = NoDownload] /\ Disconnected(b)
      /\ saved' = IF dump /\ dest # NoRom
                  THEN [saved EXCEPT ![b][dest] = conn[b].content] ELSE saved
      /\ user' = [user EXCEPT
            ![b].full  = @ \/ full,
            ![b].doing = IF dump /\ dest = NoRom THEN "crashed" ELSE @]
  BY <1>chunk, Zenon DEF ReadChunk
<1>3. dl[b] \in Transfers /\ conn[b] \in Connections /\ user[b] \in UserStates
  BY <1>1
<1>4. dl[b].got \in Nat /\ dl[b].size \in Nat /\ conn[b].avail \in Nat
  BY <1>3 DEF Transfers, Connections
<1>5. n \in Nat /\ n <= conn[b].avail
  <2>1. conn[b].avail \in Int /\ dl[b].size - dl[b].got \in Int
    BY <1>4
  <2>2. /\ Min({conn[b].avail, dl[b].size - dl[b].got}) <= conn[b].avail
        /\ Min({conn[b].avail, dl[b].size - dl[b].got}) \in {conn[b].avail, dl[b].size - dl[b].got}
    BY <2>1, MinFacts
  <2> QED
    BY <2>1, <2>2
<1>6. dl' \in [Browsers -> Transfers]
  <2>1. [[dl[b] EXCEPT !.got = dl[b].got + n] EXCEPT !.path = dest] \in Transfers
    <3>1. dl[b].got + n \in Nat /\ dest \in SomeRom
      BY <1>4, <1>5 DEF SomeRom
    <3> QED
      BY <1>3, <3>1 DEF Transfers
  <2>2. CASE dest # NoRom /\ ~full
    <3>1. dl' = [dl EXCEPT ![b] = [[dl[b] EXCEPT !.got = dl[b].got + n] EXCEPT !.path = dest]]
      BY <1>1, <1>2, <2>2
    <3> QED
      BY <1>1, <2>1, <3>1
  <2>3. CASE ~(dest # NoRom /\ ~full)
    BY <1>1, <1>2, <2>3, RecordFacts
  <2> QED
    BY <2>2, <2>3
<1>7. conn' \in [Browsers -> Connections] /\ backlog' \in Seq(SomeOne)
  <2>1. CASE dest # NoRom /\ ~full
    <3>1. [conn[b] EXCEPT !.avail = conn[b].avail - n] \in Connections
      BY <1>3, <1>4, <1>5 DEF Connections
    <3>2. conn' = [conn EXCEPT ![b] = [conn[b] EXCEPT !.avail = conn[b].avail - n]]
      BY <1>2, <2>1
    <3> QED
      BY <1>1, <1>2, <2>1, <3>1, <3>2
  <2>2. CASE ~(dest # NoRom /\ ~full)
    <3>1. Disconnected(b)
      BY <1>2, <2>2
    <3>2. conn' \in [Browsers -> Connections]
      BY <1>1, <3>1, RecordFacts DEF Disconnected
    <3>3. [i \in DOMAIN backlog |-> IF backlog[i] = b THEN NoOne ELSE backlog[i]] \in Seq(SomeOne)
      <4>1. \A i \in 1..Len(backlog) : (IF backlog[i] = b THEN NoOne ELSE backlog[i]) \in SomeOne
        BY <1>1 DEF SomeOne
      <4>2. DOMAIN backlog = 1..Len(backlog) /\ Len(backlog) \in Nat
        BY <1>1
      <4>3. [i \in 1..Len(backlog) |-> IF backlog[i] = b THEN NoOne ELSE backlog[i]] \in Seq(SomeOne)
        BY <4>1, <4>2, IsASequence
      <4> QED
        BY <4>2, <4>3
    <3> QED
      BY <3>1, <3>2, <3>3 DEF Disconnected
  <2> QED
    BY <2>1, <2>2
<1>8. saved' \in [Browsers -> [Roms -> SomeRom]]
  <2>1. conn[b].content \in SomeRom
    BY <1>3 DEF Connections
  <2> QED
    BY <1>1, <1>2, <2>1
<1>9. /\ user' \in [Browsers -> UserStates]
      /\ \A c \in Browsers : user'[c].doing \in {"asking", "waiting"} => user'[c].rom \in Roms
  <2> DEFINE u == [user[b] EXCEPT !.full = @ \/ full,
                                  !.doing = IF dump /\ dest = NoRom THEN "crashed" ELSE @]
  <2>1. user' = [user EXCEPT ![b] = u]
    BY <1>1, <1>2, Zenon
  <2>2. u \in UserStates /\ u.rom = user[b].rom /\ u.doing \in {"crashed", user[b].doing}
    BY <1>3, ProgressSeen
  <2> HIDE DEF u
  <2> QED
    BY <1>1, <2>1, <2>2 DEF TypeInv, RomsAreNamed
<1>10. /\ inputs' = [inputs EXCEPT ![b] = <<>>]
       /\ UNCHANGED <<asked, path, requests, replies, server, listener, rest>>
  BY DEF FileDownload
<1>11. inputs' \in [Browsers -> Seq(Events)] /\ \A c \in Browsers : inputs'[c] \in {inputs[c], <<>>}
  BY <1>1, <1>10
<1>12. replies' \in [Browsers -> Seq(Nat)]
  BY <1>1, <1>10
<1> QED
  BY <1>6, <1>7, <1>8, <1>9, <1>10, <1>11, <1>12, TransferTypes

\* One thread that goes on.
LEMMA ThreadTypes ==
    ASSUME TypeInv, NEW b \in Browsers, NEW t \in Threads, Named(t),
           thread' = [thread EXCEPT ![b] = t],
           UNCHANGED <<client, rest>>,
           requests' \in [Browsers -> Seq(Roms)], replies' \in [Browsers -> Seq(Nat)],
           romtable' \in [Roms -> SomeRom], conn' \in [Browsers -> Connections],
           listener' \in SomeOne, backlog' \in Seq(SomeOne)
    PROVE  TypeInv'
<1>1. thread \in [Browsers -> Threads]
  BY DEF TypeInv, TypeOK
<1>2. thread' \in [Browsers -> Threads] /\ \A c \in Browsers : Named(thread'[c])
  BY <1>1 DEF TypeInv, RomsAreNamed
<1>3. RomsAreNamed'
  BY <1>2 DEF TypeInv, RomsAreNamed, client
<1> QED
  BY <1>2, <1>3 DEF TypeInv, TypeOK, client, rest

\* Dispatch, Poll and Exit.
LEMMA DispatchTypes ==
    ASSUME TypeInv, NEW b \in Browsers, Dispatch(b) \/ Poll(b) \/ Exit(b)
    PROVE  TypeInv'
<1>1. /\ thread \in [Browsers -> Threads] /\ requests \in [Browsers -> Seq(Roms)]
      /\ thread[b] \in Threads /\ requests[b] \in Seq(Roms)
      /\ thread[b].queue \in Seq(Roms)
  BY DEF TypeInv, TypeOK, Threads
<1>2. ASSUME NEW t \in Threads, Named(t), thread' = [thread EXCEPT ![b] = t],
             requests' \in [Browsers -> Seq(Roms)], UNCHANGED <<client, replies, romtable, tcp, rest>>
      PROVE  TypeInv'
  BY <1>2, ThreadTypes DEF TypeInv, TypeOK, tcp
<1>3. CASE Dispatch(b)
  <2>1. PICK i \in DOMAIN requests[b] :
          /\ requests' = [requests EXCEPT ![b] = RemoveAt(@, i)]
          /\ thread' = [thread EXCEPT ![b] =
                IF @.pc = "none" THEN [NoThread EXCEPT !.pc = "poll", !.queue = <<requests[b][i]>>]
                                 ELSE [@ EXCEPT !.queue = Append(thread[b].queue, requests[b][i])]]
    BY <1>3 DEF Dispatch
  <2>2. requests[b][i] \in Roms /\ RemoveAt(requests[b], i) \in Seq(Roms)
    BY <1>1, RemoveAtFacts
  <2>3. requests' \in [Browsers -> Seq(Roms)]
    BY <1>1, <2>1, <2>2
  <2>4. UNCHANGED <<client, replies, romtable, tcp, rest>>
    BY <1>3 DEF Dispatch
  <2>5. CASE thread[b].pc = "none"
    <3> DEFINE t == [NoThread EXCEPT !.pc = "poll", !.queue = <<requests[b][i]>>]
    <3>1. <<requests[b][i]>> \in Seq(Roms)
      BY <2>2
    <3>2. t \in Threads /\ t.pc = "poll"
      BY <3>1 DEF NoThread, Threads, SomeRom, SomeOne
    <3>3. thread' = [thread EXCEPT ![b] = t]
      BY <1>1, <2>1, <2>5
    <3> HIDE DEF t
    <3> QED
      BY <1>2, <2>3, <2>4, <3>2, <3>3 DEF Named
  <2>6. CASE thread[b].pc # "none"
    <3> DEFINE t == [thread[b] EXCEPT !.queue = Append(thread[b].queue, requests[b][i])]
    <3>1. Append(thread[b].queue, requests[b][i]) \in Seq(Roms)
      BY <1>1, <2>2, AppendFacts
    <3>2. t \in Threads /\ t.pc = thread[b].pc /\ t.rom = thread[b].rom /\ t.file = thread[b].file
          /\ t.content = thread[b].content
      BY <1>1, <3>1 DEF Threads
    <3>3. thread' = [thread EXCEPT ![b] = t]
      BY <1>1, <2>1, <2>6
    <3>4. Named(t)
      BY <3>2 DEF Named, TypeInv, RomsAreNamed
    <3> HIDE DEF t
    <3> QED
      BY <1>2, <2>3, <2>4, <3>2, <3>3, <3>4
  <2> QED
    BY <2>5, <2>6
<1>4. CASE Poll(b)
  <2> DEFINE t == [thread[b] EXCEPT !.pc = "lookup", !.rom = Head(thread[b].queue),
                                    !.queue = Tail(thread[b].queue)]
  <2>1. Head(thread[b].queue) \in Roms /\ Tail(thread[b].queue) \in Seq(Roms)
    BY <1>1, <1>4, TailFacts DEF Poll
  <2>2. t \in Threads /\ t.pc = "lookup" /\ t.rom \in Roms
    BY <1>1, <2>1 DEF Threads, SomeRom
  <2>3. thread' = [thread EXCEPT ![b] = t] /\ UNCHANGED <<client, requests, replies, romtable, tcp, rest>>
    BY <1>4 DEF Poll
  <2> HIDE DEF t
  <2> QED
    BY <1>1, <1>2, <2>2, <2>3 DEF Named
<1>5. CASE Exit(b)
  BY <1>1, <1>2, <1>5, RecordFacts DEF Exit, Named, NoThread
<1> QED
  BY <1>3, <1>4, <1>5

\* Lookup.
LEMMA LookupTypes ==
    ASSUME TypeInv, NEW b \in Browsers, Lookup(b)
    PROVE  TypeInv'
<1> DEFINE rom  == thread[b].rom
           file == romtable[rom]
           held == IF file = NoRom THEN NoRom ELSE folder[file]
           ok   == held = rom
           t    == [thread[b] EXCEPT !.pc = IF ok THEN "bind" ELSE "leaving", !.file = file]
<1>1. /\ thread \in [Browsers -> Threads] /\ thread[b] \in Threads /\ Named(thread[b])
      /\ replies \in [Browsers -> Seq(Nat)] /\ replies[b] \in Seq(Nat)
      /\ romtable \in [Roms -> SomeRom]
  BY DEF TypeInv, TypeOK, RomsAreNamed
<1>2. rom \in Roms /\ rom # NoRom
  BY <1>1, RomDownloadAssumption DEF Lookup, Named
<1>3. file \in SomeRom /\ (ok => file \in Roms)
  BY <1>1, <1>2 DEF SomeRom
<1>4. Size[rom] \in Nat
  BY <1>2, RomDownloadAssumption
<1>5. /\ replies' = [replies EXCEPT ![b] = Append(@, IF ok THEN Size[rom] ELSE 0)]
      /\ romtable' = IF ok THEN romtable
                     ELSE [r \in Roms |-> IF r = held THEN file
                                          ELSE IF r = rom THEN NoRom ELSE romtable[r]]
      /\ thread' = [thread EXCEPT ![b] = t]
      /\ UNCHANGED <<client, requests, tcp, rest>>
  BY DEF Lookup
<1>6. t \in Threads /\ t.rom = rom /\ t.file = file /\ t.pc = IF ok THEN "bind" ELSE "leaving"
  <2> HIDE DEF ok, file
  <2> QED
    BY <1>1, <1>3 DEF Threads
<1> HIDE DEF t, ok, file, held, rom
<1>7. Named(t)
  BY <1>2, <1>3, <1>6 DEF Named
<1>8. replies' \in [Browsers -> Seq(Nat)]
  <2>1. (IF ok THEN Size[rom] ELSE 0) \in Nat
    BY <1>4
  <2>2. Append(replies[b], IF ok THEN Size[rom] ELSE 0) \in Seq(Nat)
    BY <1>1, <2>1, AppendFacts
  <2> QED
    BY <1>1, <1>5, <2>2
<1>9. romtable' \in [Roms -> SomeRom]
  BY <1>1, <1>3, <1>5 DEF SomeRom
<1> QED
  BY <1>5, <1>6, <1>7, <1>8, <1>9, ThreadTypes DEF TypeInv, TypeOK, tcp

\* Bind and Open.
LEMMA OpenTypes ==
    ASSUME TypeInv, NEW b \in Browsers, Bind(b) \/ Open(b)
    PROVE  TypeInv'
<1>1. thread \in [Browsers -> Threads] /\ thread[b] \in Threads /\ Named(thread[b])
  BY DEF TypeInv, TypeOK, RomsAreNamed
<1>2. CASE Bind(b)
  <2>1. PICK p \in {"open", "poll"} : thread' = [thread EXCEPT ![b] = [thread[b] EXCEPT !.pc = p]]
    BY <1>2 DEF Bind
  <2>2. [thread[b] EXCEPT !.pc = p] \in Threads
    BY <1>1 DEF Threads
  <2>3. thread[b].pc = "bind"
    BY <1>2 DEF Bind
  <2>4. Named([thread[b] EXCEPT !.pc = p])
    BY <1>1, <2>3 DEF Named, Threads
  <2>5. listener' \in SomeOne /\ UNCHANGED <<client, requests, replies, romtable, conn, backlog, rest>>
    BY <1>2 DEF Bind, TypeInv, TypeOK, SomeOne
  <2> QED
    BY <2>1, <2>2, <2>4, <2>5, ThreadTypes DEF TypeInv, TypeOK
<1>3. CASE Open(b)
  <2> DEFINE held == folder[thread[b].file]
             n    == Min({Size[thread[b].rom], Size[held]})
  <2>1. thread[b].pc = "open" /\ thread[b].file \in Roms /\ thread[b].rom \in Roms
    BY <1>1, <1>3 DEF Open, Named
  <2>2. held \in SomeRom
    BY <2>1 DEF TypeInv, TypeOK
  <2>3. UNCHANGED <<client, requests, replies, romtable, tcp, rest>>
    BY <1>3 DEF Open
  <2>4. ASSUME NEW t \in Threads, Named(t), thread' = [thread EXCEPT ![b] = t] PROVE TypeInv'
    BY <2>3, <2>4, ThreadTypes DEF TypeInv, TypeOK, tcp
  <2>5. CASE held = NoRom
    <3>1. [thread[b] EXCEPT !.pc = "poll"] \in Threads /\ Named([thread[b] EXCEPT !.pc = "poll"])
      BY <1>1 DEF Threads, Named
    <3> QED
      BY <1>3, <2>4, <2>5, <3>1 DEF Open
  <2>6. CASE held # NoRom
    <3> DEFINE t == [thread[b] EXCEPT !.pc = "accept", !.content = held, !.left = n]
    <3>1. Size[thread[b].rom] \in Nat /\ Size[held] \in Nat
      BY <2>1, <2>2, <2>6, RomDownloadAssumption DEF SomeRom
    <3>2. n \in Nat
      <4> HIDE DEF held
      <4>1. Size[thread[b].rom] \in Int /\ Size[held] \in Int
        BY <3>1
      <4> QED
        BY <3>1, <4>1, MinFacts
    <3>3. thread' = [thread EXCEPT ![b] = t]
      BY <1>3, <2>6 DEF Open
    <3> HIDE DEF n, held
    <3>4. t \in Threads /\ t.pc = "accept" /\ t.content = held /\ t.rom = thread[b].rom
      BY <1>1, <2>2, <3>2 DEF Threads
    <3> HIDE DEF t
    <3>5. Named(t)
      BY <2>1, <2>2, <2>6, <3>4 DEF Named, SomeRom
    <3> QED
      BY <2>4, <3>3, <3>4, <3>5
  <2> QED
    BY <2>5, <2>6
<1> QED
  BY <1>2, <1>3

\* Accept, SendChunk and Finish.
LEMMA SendTypes ==
    ASSUME TypeInv, NEW b \in Browsers, Accept(b) \/ SendChunk(b) \/ Finish(b)
    PROVE  TypeInv'
<1>1. /\ thread \in [Browsers -> Threads] /\ thread[b] \in Threads /\ Named(thread[b])
      /\ conn \in [Browsers -> Connections] /\ backlog \in Seq(SomeOne)
      /\ thread[b].left \in Nat /\ thread[b].peer \in SomeOne /\ thread[b].content \in SomeRom
  BY DEF TypeInv, TypeOK, RomsAreNamed, Threads
<1>2. UNCHANGED <<client, requests, replies, romtable, rest>>
  BY DEF Accept, SendChunk, Finish
<1>3. ASSUME NEW t \in Threads, Named(t), thread' = [thread EXCEPT ![b] = t],
             conn' \in [Browsers -> Connections], listener' \in SomeOne, backlog' \in Seq(SomeOne)
      PROVE  TypeInv'
  BY <1>2, <1>3, ThreadTypes DEF TypeInv, TypeOK
<1>4. CASE Accept(b)
  <2> DEFINE t == [thread[b] EXCEPT !.pc = "sending", !.peer = Head(backlog)]
  <2>1. Head(backlog) \in SomeOne /\ Tail(backlog) \in Seq(SomeOne)
    BY <1>1, <1>4, TailFacts DEF Accept
  <2>2. t \in Threads /\ t.pc = "sending" /\ t.content = thread[b].content /\ t.rom = thread[b].rom
    BY <1>1, <2>1 DEF Threads
  <2>3. thread[b].pc = "accept" /\ backlog' = Tail(backlog) /\ listener' = listener
        /\ thread' = [thread EXCEPT ![b] = t]
    BY <1>4 DEF Accept
  <2>4. conn' \in [Browsers -> Connections]
    <3>1. [state |-> "open", server |-> b, content |-> thread[b].content, avail |-> 0] \in Connections
      BY <1>1 DEF Connections, SomeOne
    <3>2. \/ conn' = conn
          \/ conn' = [conn EXCEPT ![Head(backlog)] =
                       [state |-> "open", server |-> b, content |-> thread[b].content, avail |-> 0]]
      BY <1>4 DEF Accept
    <3> QED
      BY <1>1, <3>1, <3>2
  <2>5. listener' \in SomeOne /\ backlog' \in Seq(SomeOne)
    BY <2>1, <2>3 DEF TypeInv, TypeOK
  <2> HIDE DEF t
  <2>6. Named(t)
    BY <1>1, <2>2, <2>3 DEF Named
  <2> QED
    BY <1>3, <2>2, <2>3, <2>4, <2>5, <2>6
<1>5. CASE SendChunk(b)
  <2> DEFINE t == [thread[b] EXCEPT !.left = thread[b].left - 1]
  <2>1. t \in Threads /\ t.pc = thread[b].pc /\ t.content = thread[b].content
        /\ t.rom = thread[b].rom /\ t.file = thread[b].file
    <3>1. thread[b].left - 1 \in Nat
      BY <1>1, <1>5 DEF SendChunk
    <3> QED
      BY <1>1, <3>1 DEF Threads
  <2>2. thread' = [thread EXCEPT ![b] = t] /\ UNCHANGED <<listener, backlog>>
        /\ conn' = [conn EXCEPT ![thread[b].peer].avail = @ + 1] /\ thread[b].peer # NoOne
    BY <1>5 DEF SendChunk, Connected
  <2>3. conn' \in [Browsers -> Connections]
    <3>1. thread[b].peer \in Browsers
      BY <1>1, <2>2 DEF SomeOne
    <3>2. conn[thread[b].peer] \in Connections /\ conn[thread[b].peer].avail + 1 \in Nat
      BY <1>1, <3>1 DEF Connections
    <3>3. [conn[thread[b].peer] EXCEPT !.avail = conn[thread[b].peer].avail + 1] \in Connections
      BY <3>2 DEF Connections
    <3> QED
      BY <1>1, <2>2, <3>1, <3>3
  <2> HIDE DEF t
  <2>4. Named(t)
    BY <1>1, <2>1 DEF Named
  <2> QED
    BY <1>1, <1>3, <2>1, <2>2, <2>3, <2>4 DEF TypeInv, TypeOK
<1>6. CASE Finish(b)
  <2>1. [thread[b] EXCEPT !.pc = "leaving"] \in Threads /\ Named([thread[b] EXCEPT !.pc = "leaving"])
    BY <1>1 DEF Threads, Named
  <2>2. conn' \in [Browsers -> Connections]
    BY <1>1, <1>6, RecordFacts DEF Finish
  <2>3. thread' = [thread EXCEPT ![b] = [thread[b] EXCEPT !.pc = "leaving"]]
    BY <1>6 DEF Finish
  <2>4. listener' \in SomeOne /\ backlog' \in Seq(SomeOne)
    BY <1>6 DEF Finish, SomeOne
  <2> QED
    BY <1>3, <2>1, <2>2, <2>3, <2>4
<1> QED
  BY <1>4, <1>5, <1>6

\* Lost datagrams, the garbage collector and the owner's edits.
LEMMA EnvironmentTypes ==
    ASSUME TypeInv, Collect \/ EditFolder \/ \E b \in Browsers : Lose(b)
    PROVE  TypeInv'
<1>1. CASE Collect
  <2>1. conn' \in [Browsers -> Connections]
    BY <1>1, RecordFacts DEF Collect, TypeInv, TypeOK
  <2>2. listener' \in SomeOne /\ backlog' \in Seq(SomeOne)
    BY <1>1 DEF Collect, SomeOne
  <2>3. UNCHANGED <<client, requests, replies, server, rest>>
    BY <1>1 DEF Collect
  <2> QED
    BY <2>1, <2>2, <2>3 DEF TypeInv, TypeOK, RomsAreNamed, client, server, rest
<1>2. CASE EditFolder
  <2>1. folder' \in [Roms -> SomeRom]
    BY <1>2 DEF EditFolder, TypeInv, TypeOK, SomeRom
  <2>2. env' \in [cancellers: SUBSET Browsers, requests: [Browsers -> Nat],
                  loses: BOOLEAN, edits: Nat, quiet: BOOLEAN]
    <3>1. env' = [env EXCEPT !.edits = env.edits - 1] /\ env.edits > 0
      BY <1>2 DEF EditFolder
    <3>2. env \in [cancellers: SUBSET Browsers, requests: [Browsers -> Nat],
                   loses: BOOLEAN, edits: Nat, quiet: BOOLEAN]
      BY DEF TypeInv, TypeOK
    <3> QED
      BY <3>1, <3>2
  <2>3. UNCHANGED <<client, requests, replies, server, tcp>>
    BY <1>2 DEF EditFolder
  <2> QED
    BY <2>1, <2>2, <2>3 DEF TypeInv, TypeOK, RomsAreNamed, client, server, tcp
<1>3. ASSUME NEW b \in Browsers, Lose(b) PROVE TypeInv'
  <2>1. requests' \in [Browsers -> Seq(Roms)] /\ replies' \in [Browsers -> Seq(Nat)]
    <3>1. requests \in [Browsers -> Seq(Roms)] /\ replies \in [Browsers -> Seq(Nat)]
      BY DEF TypeInv, TypeOK
    <3>2. \A i \in DOMAIN requests[b] : RemoveAt(requests[b], i) \in Seq(Roms)
      BY <3>1, RemoveAtFacts
    <3>3. \A i \in DOMAIN replies[b] : RemoveAt(replies[b], i) \in Seq(Nat)
      BY <3>1, RemoveAtFacts
    <3> QED
      BY <1>3, <3>1, <3>2, <3>3 DEF Lose
  <2>2. UNCHANGED <<client, server, tcp, rest>>
    BY <1>3 DEF Lose
  <2> QED
    BY <2>1, <2>2 DEF TypeInv, TypeOK, RomsAreNamed, client, server, tcp, rest
<1> QED
  BY <1>1, <1>2, <1>3

\* The types hold at the beginning.
LEMMA TypesAtInit == Init => TypeInv
<1> SUFFICES ASSUME Init PROVE TypeInv
  OBVIOUS
<1>1. /\ <<>> \in Seq(Events) /\ <<>> \in Seq(Roms) /\ <<>> \in Seq(Nat) /\ <<>> \in Seq(SomeOne)
      /\ DOMAIN <<>> = {}
  OBVIOUS
<1>2. TypeOK
  BY <1>1, RecordFacts, RomDownloadAssumption DEF Init, TypeOK, SomeRom, SomeOne
<1>3. RomsAreNamed
  BY <1>1 DEF Init, RomsAreNamed, Named, Idle, NoThread
<1> QED
  BY <1>2, <1>3 DEF TypeInv

\* ... and stay.
LEMMA TypeStep == TypeInv /\ [Next]_vars => TypeInv'
<1> SUFFICES ASSUME TypeInv, [Next]_vars PROVE TypeInv'
  OBVIOUS
<1>1. CASE UNCHANGED vars
  BY <1>1 DEF vars, client, server, tcp, rest, TypeInv, TypeOK, RomsAreNamed
<1>2. CASE Collect \/ EditFolder
  BY <1>2, EnvironmentTypes
<1>3. ASSUME NEW b \in Browsers, User(b) \/ Finder(b) \/ Dispatch(b) \/ Master(b) \/ Lose(b)
      PROVE  TypeInv'
  BY <1>3, UserTypes, HandleMainInputTypes, HandleReplyTypes, FileDownloadTypes, DispatchTypes,
     LookupTypes, OpenTypes, SendTypes, EnvironmentTypes DEF User, Finder, Master
<1> QED
  BY <1>1, <1>2, <1>3 DEF Next

\* A thread sends no more pieces than it has read from its file, and a client reads no
\* more than were sent (ClientConnectionThread.java, DownloadROM).
THEOREM DownloadTypes == Spec => []TypeOK
<1>1. TypeInv => TypeOK
  BY DEF TypeInv
<1> QED
  BY <1>1, TypesAtInit, TypeStep, PTL DEF Spec

-----------------------------------------------------------------------------
(* The port *)

\* Threads and connections are records, whatever is in their fields.
ThreadFields     == {"pc", "rom", "queue", "file", "content", "left", "peer"}
ConnectionFields == {"state", "server", "content", "avail"}

Shapes ==
    /\ DOMAIN thread = Browsers /\ \A b \in Browsers : DOMAIN thread[b] = ThreadFields
    /\ DOMAIN conn = Browsers /\ \A b \in Browsers : DOMAIN conn[b] = ConnectionFields

\* Whoever is between bind and close has the port.
PortIsHeld == \A b \in Browsers : HoldsPort(b) => listener = b

\* An open connection is that of the client which a sending thread accepted.
OpenIsSent ==
    \A b \in Browsers : conn[b].state = "open" =>
        /\ conn[b].server \in Browsers
        /\ thread[conn[b].server].pc = "sending" /\ thread[conn[b].server].peer = b

PortInv == Shapes /\ PortIsHeld /\ OpenIsSent

-----------------------------------------------------------------------------
(* What steps do to the port, to a thread and to a connection *)

Holding == {"open", "accept", "sending"}

\* A thread that does not send goes to place p, where it does not hold the port.
Moves(b) ==
    /\ thread[b].pc # "sending"
    /\ \E t : /\ DOMAIN t = ThreadFields /\ t.pc \notin Holding
              /\ thread' = [thread EXCEPT ![b] = t]
    /\ UNCHANGED <<conn, listener>>

\* A thread is sent a packet.
IsTold(b) ==
    /\ \E q : thread' = [thread EXCEPT ![b].queue = q]
    /\ UNCHANGED <<conn, listener>>

\* The client b is not connected now.
Hangs(b) ==
    /\ \E c : /\ DOMAIN c = ConnectionFields /\ c.state # "open"
              /\ conn' = [conn EXCEPT ![b] = c]
    /\ UNCHANGED <<thread, listener>>

\* The client b reads pieces.
Reads(b) ==
    /\ \E n : conn' = [conn EXCEPT ![b].avail = n]
    /\ UNCHANGED <<thread, listener>>

PortKeeps == UNCHANGED <<thread, conn, listener>>

PortStep(b) ==
    \/ Moves(b) \/ IsTold(b) \/ Hangs(b) \/ Reads(b)
    \/ Bind(b) \/ Open(b) \/ Accept(b) \/ SendChunk(b) \/ Finish(b)

\* A step of the system is one of these, or of the garbage collector.
LEMMA PortSteps ==
    ASSUME Shapes, [Next]_vars
    PROVE  PortKeeps \/ Collect \/ \E b \in Browsers : PortStep(b)
<1>1. CASE UNCHANGED vars \/ EditFolder
  BY <1>1 DEF vars, EditFolder, server, tcp, PortKeeps
<1>2. ASSUME NEW b \in Browsers,
             \/ RequestDownload(b) \/ Cancel(b) \/ PostRequest(b) \/ Join(b)
             \/ HandleMainInput(b) \/ Lose(b)
      PROVE  PortKeeps
  BY <1>2 DEF RequestDownload, Cancel, PostRequest, Join, HandleMainInput, Lose, server, tcp,
              PortKeeps
<1>3. ASSUME NEW b \in Browsers, HandleReply(b) PROVE PortKeeps \/ Hangs(b)
  <2>1. UNCHANGED <<thread, listener>>
    BY <1>3 DEF HandleReply, server
  <2>2. UNCHANGED conn \/ conn' = [conn EXCEPT ![b] = [conn[b] EXCEPT !.state = "backlog"]]
    BY <1>3 DEF HandleReply
  <2> DEFINE c == [conn[b] EXCEPT !.state = "backlog"]
  <2>3. DOMAIN c = ConnectionFields /\ c.state # "open"
    BY DEF Shapes, ConnectionFields
  <2> HIDE DEF c
  <2> QED
    BY <2>1, <2>2, <2>3 DEF PortKeeps, Hangs, c
<1>4. ASSUME NEW b \in Browsers, FileDownload(b) PROVE Reads(b) \/ Hangs(b)
  <2>1. UNCHANGED <<thread, listener>>
    BY <1>4 DEF FileDownload, ReadChunk, server
  <2>2. \/ \E n : conn' = [conn EXCEPT ![b].avail = n]
        \/ conn' = [conn EXCEPT ![b] = NoConnection]
    BY <1>4 DEF FileDownload, ReadChunk, Disconnected
  <2>3. DOMAIN NoConnection = ConnectionFields /\ NoConnection.state # "open"
    BY DEF NoConnection, ConnectionFields
  <2> QED
    BY <2>1, <2>2, <2>3 DEF Reads, Hangs
<1>5. ASSUME NEW b \in Browsers, Poll(b) \/ Lookup(b) PROVE Moves(b)
  <2>1. UNCHANGED <<conn, listener>> /\ thread[b].pc # "sending"
    BY <1>5 DEF Poll, Lookup, tcp
  <2>2. CASE Poll(b)
    <3> DEFINE t == [thread[b] EXCEPT !.pc = "lookup", !.rom = Head(thread[b].queue),
                                      !.queue = Tail(thread[b].queue)]
    <3>1. DOMAIN t = ThreadFields /\ t.pc \notin Holding
      BY DEF Shapes, ThreadFields, Holding
    <3>2. thread' = [thread EXCEPT ![b] = t]
      BY <2>2 DEF Poll
    <3> HIDE DEF t
    <3> QED
      BY <2>1, <3>1, <3>2 DEF Moves
  <2>3. CASE Lookup(b)
    <3>1. PICK p \in {"bind", "leaving"} :
            \E f : thread' = [thread EXCEPT ![b] = [thread[b] EXCEPT !.pc = p, !.file = f]]
      BY <2>3 DEF Lookup
    <3>2. PICK f : thread' = [thread EXCEPT ![b] = [thread[b] EXCEPT !.pc = p, !.file = f]]
      BY <3>1
    <3> DEFINE t == [thread[b] EXCEPT !.pc = p, !.file = f]
    <3>3. DOMAIN t = ThreadFields /\ t.pc \notin Holding
      BY DEF Shapes, ThreadFields, Holding
    <3>4. thread' = [thread EXCEPT ![b] = t]
      BY <3>2
    <3> HIDE DEF t
    <3> QED
      BY <2>1, <3>3, <3>4 DEF Moves
  <2> QED
    BY <1>5, <2>2, <2>3
<1>6. ASSUME NEW b \in Browsers, Exit(b) PROVE Moves(b)
  <2>1. DOMAIN NoThread = ThreadFields /\ NoThread.pc \notin Holding
    BY DEF NoThread, ThreadFields, Holding
  <2>2. /\ UNCHANGED <<conn, listener>> /\ thread[b].pc # "sending"
        /\ thread' = [thread EXCEPT ![b] = NoThread]
    BY <1>6 DEF Exit, tcp
  <2> QED
    BY <2>1, <2>2 DEF Moves
<1>7. ASSUME NEW b \in Browsers, Dispatch(b) PROVE Moves(b) \/ IsTold(b)
  <2>1. UNCHANGED <<conn, listener>>
    BY <1>7 DEF Dispatch, tcp
  <2>2. CASE thread[b].pc = "none"
    <3>1. PICK q : thread' = [thread EXCEPT ![b] = [NoThread EXCEPT !.pc = "poll", !.queue = q]]
      BY <1>7, <2>2 DEF Dispatch
    <3> DEFINE t == [NoThread EXCEPT !.pc = "poll", !.queue = q]
    <3>2. DOMAIN t = ThreadFields /\ t.pc \notin Holding
      BY DEF NoThread, ThreadFields, Holding
    <3> QED
      BY <2>1, <2>2, <3>1, <3>2 DEF Moves
  <2>3. CASE thread[b].pc # "none"
    BY <1>7, <2>1, <2>3 DEF Dispatch, IsTold
  <2> QED
    BY <2>2, <2>3
<1> QED
  BY <1>1, <1>2, <1>3, <1>4, <1>5, <1>6, <1>7 DEF Next, User, Finder, Master, PortStep

-----------------------------------------------------------------------------
(* What becomes of the invariant *)

\* The others' threads and connections stay as they are.
LEMMA ShapesKept ==
    ASSUME Shapes, Collect \/ \E b \in Browsers : PortStep(b)
    PROVE  Shapes'
<1>1. CASE Collect
  BY <1>1 DEF Collect, server, Closed, Shapes, ConnectionFields
<1>2. ASSUME NEW b \in Browsers, Moves(b) \/ IsTold(b) PROVE Shapes'
  BY <1>2 DEF Moves, IsTold, Shapes
<1>3. ASSUME NEW b \in Browsers, Hangs(b) \/ Reads(b) PROVE Shapes'
  BY <1>3 DEF Hangs, Reads, Shapes
<1>4. ASSUME NEW b \in Browsers, Bind(b) PROVE Shapes'
  BY <1>4 DEF Bind, Shapes
<1>5. ASSUME NEW b \in Browsers, Open(b) PROVE Shapes'
  BY <1>5 DEF Open, tcp, Shapes
<1>6. ASSUME NEW b \in Browsers, Accept(b) PROVE Shapes'
  <2>1. \A c \in Browsers : DOMAIN thread'[c] = ThreadFields
    BY <1>6 DEF Accept, Shapes
  <2>2. \A c \in Browsers : DOMAIN conn'[c] = ConnectionFields
    BY <1>6 DEF Accept, Shapes, ConnectionFields
  <2> QED
    BY <1>6, <2>1, <2>2 DEF Accept, Shapes
<1>7. ASSUME NEW b \in Browsers, SendChunk(b) PROVE Shapes'
  BY <1>7 DEF SendChunk, Shapes
<1>8. ASSUME NEW b \in Browsers, Finish(b) PROVE Shapes'
  <2>1. \A c \in Browsers : DOMAIN conn'[c] = ConnectionFields
    BY <1>8 DEF Finish, Closed, Shapes, ConnectionFields
  <2> QED
    BY <1>8, <2>1 DEF Finish, Shapes
<1> QED
  BY <1>1, <1>2, <1>3, <1>4, <1>5, <1>6, <1>7, <1>8 DEF PortStep

\* Nobody else has the port when it is free, or another has it.
LEMMA HolderAlone ==
    ASSUME PortIsHeld, NEW b \in Browsers, listener \in {b, NoOne}
    PROVE  \A c \in Browsers \ {b} : ~HoldsPort(c)
  BY RomDownloadAssumption DEF PortIsHeld

\* The port still belongs to whoever is between bind and close.
LEMMA PortKept ==
    ASSUME Shapes, PortIsHeld, Collect \/ \E b \in Browsers : PortStep(b)
    PROVE  PortIsHeld'
<1>1. CASE Collect
  BY <1>1 DEF Collect, server, PortIsHeld, HoldsPort
<1>2. ASSUME NEW b \in Browsers, Moves(b) \/ IsTold(b) PROVE PortIsHeld'
  BY <1>2 DEF Moves, IsTold, PortIsHeld, HoldsPort, Shapes, ThreadFields, Holding
<1>3. ASSUME NEW b \in Browsers, Hangs(b) \/ Reads(b) PROVE PortIsHeld'
  BY <1>3 DEF Hangs, Reads, PortIsHeld, HoldsPort
<1>4. ASSUME NEW b \in Browsers, Bind(b) PROVE PortIsHeld'
  BY <1>4, HolderAlone, RomDownloadAssumption
     DEF Bind, PortIsHeld, HoldsPort, Shapes, ThreadFields
<1>5. ASSUME NEW b \in Browsers, Open(b) \/ Accept(b) \/ SendChunk(b) PROVE PortIsHeld'
  <2>1. UNCHANGED listener /\ listener = b
    BY <1>5 DEF Open, Accept, SendChunk, tcp, PortIsHeld, HoldsPort
  <2>2. \A c \in Browsers \ {b} : thread'[c] = thread[c]
    BY <1>5 DEF Open, Accept, SendChunk, Shapes
  <2> QED
    BY <2>1, <2>2 DEF PortIsHeld, HoldsPort
<1>6. ASSUME NEW b \in Browsers, Finish(b) PROVE PortIsHeld'
  <2>1. thread'[b].pc = "leaving" /\ \A c \in Browsers \ {b} : thread'[c] = thread[c]
    BY <1>6 DEF Finish, Shapes, ThreadFields
  <2>2. \A c \in Browsers \ {b} : ~HoldsPort(c)
    BY <1>6, HolderAlone DEF Finish, PortIsHeld, HoldsPort
  <2> QED
    BY <2>1, <2>2 DEF PortIsHeld, HoldsPort
<1> QED
  BY <1>1, <1>2, <1>3, <1>4, <1>5, <1>6 DEF PortStep

\* An open connection is still that of the client which a sending thread accepted.
LEMMA OpenKept ==
    ASSUME Shapes, PortIsHeld, OpenIsSent, Collect \/ \E b \in Browsers : PortStep(b)
    PROVE  OpenIsSent'
<1>1. ASSUME \A c \in Browsers : conn'[c] = Closed(conn[c]) PROVE OpenIsSent'
  <2>1. \A c \in Browsers : Closed(conn[c]).state # "open"
    BY DEF Closed, Shapes, ConnectionFields
  <2> QED
    BY <1>1, <2>1 DEF OpenIsSent
<1>2. CASE Collect
  BY <1>1, <1>2 DEF Collect
<1>3. ASSUME NEW b \in Browsers, Finish(b) PROVE OpenIsSent'
  BY <1>1, <1>3 DEF Finish
<1>4. ASSUME NEW b \in Browsers, thread[b].pc # "sending", UNCHANGED conn,
             \A c \in Browsers \ {b} : thread'[c] = thread[c]
      PROVE  OpenIsSent'
  BY <1>4 DEF OpenIsSent
<1>5. ASSUME NEW b \in Browsers, Moves(b) \/ Bind(b) \/ Open(b) PROVE OpenIsSent'
  <2>1. thread[b].pc # "sending" /\ UNCHANGED conn
    BY <1>5 DEF Moves, Bind, Open, tcp
  <2>2. \A c \in Browsers \ {b} : thread'[c] = thread[c]
    BY <1>5 DEF Moves, Bind, Open, Shapes
  <2> QED
    BY <1>4, <2>1, <2>2
<1>6. ASSUME NEW b \in Browsers, IsTold(b) PROVE OpenIsSent'
  <2>1. \A c \in Browsers : thread'[c].pc = thread[c].pc /\ thread'[c].peer = thread[c].peer
    BY <1>6 DEF IsTold, Shapes, ThreadFields
  <2> QED
    BY <1>6, <2>1 DEF IsTold, OpenIsSent
<1>7. ASSUME NEW b \in Browsers, Hangs(b) PROVE OpenIsSent'
  BY <1>7 DEF Hangs, Shapes, OpenIsSent
<1>8. ASSUME NEW b \in Browsers, Reads(b) PROVE OpenIsSent'
  <2>1. \A c \in Browsers : conn'[c].state = conn[c].state /\ conn'[c].server = conn[c].server
    BY <1>8 DEF Reads, Shapes, ConnectionFields
  <2> QED
    BY <1>8, <2>1 DEF Reads, OpenIsSent
<1>9. ASSUME NEW b \in Browsers, SendChunk(b) PROVE OpenIsSent'
  <2>1. \A c \in Browsers : thread'[c].pc = thread[c].pc /\ thread'[c].peer = thread[c].peer
    BY <1>9 DEF SendChunk, Shapes, ThreadFields
  <2>2. \A c \in Browsers : conn'[c].state = conn[c].state /\ conn'[c].server = conn[c].server
    BY <1>9 DEF SendChunk, Shapes, ConnectionFields
  <2> QED
    BY <2>1, <2>2 DEF OpenIsSent
<1>10. ASSUME NEW b \in Browsers, Accept(b) PROVE OpenIsSent'
  <2>1. thread[b].pc = "accept"
    BY <1>10 DEF Accept
  <2>2. \A c \in Browsers : conn[c].state # "open"
    <3>1. ASSUME NEW c \in Browsers, conn[c].state = "open" PROVE FALSE
      <4>1. HoldsPort(b) /\ HoldsPort(conn[c].server) /\ conn[c].server \in Browsers
        BY <2>1, <3>1 DEF HoldsPort, OpenIsSent
      <4>2. conn[c].server = b
        BY <4>1 DEF PortIsHeld
      <4> QED
        BY <2>1, <3>1, <4>2 DEF OpenIsSent
    <3> QED
      BY <3>1
  <2> DEFINE d == Head(backlog)
  <2>3. thread'[b].pc = "sending" /\ thread'[b].peer = d
    BY <1>10 DEF Accept, Shapes, ThreadFields
  <2>4. \A c \in Browsers : c # d => conn'[c] = conn[c]
    BY <1>10 DEF Accept, Shapes
  <2>5. d \in Browsers => conn'[d].server = b
    BY <1>10, RomDownloadAssumption DEF Accept, Shapes
  <2> HIDE DEF d
  <2> QED
    BY <2>2, <2>3, <2>4, <2>5 DEF OpenIsSent
<1> QED
  BY <1>2, <1>3, <1>5, <1>6, <1>7, <1>8, <1>9, <1>10 DEF PortStep

-----------------------------------------------------------------------------
(* The theorem *)

\* The invariant of the port holds at the beginning, and stays.
LEMMA PortAtInit == Init => PortInv
  BY DEF Init, NoThread, NoConnection, PortInv, Shapes, ThreadFields, ConnectionFields,
         PortIsHeld, HoldsPort, OpenIsSent

LEMMA PortStepKeeps == PortInv /\ [Next]_vars => PortInv'
<1> SUFFICES ASSUME PortInv, [Next]_vars PROVE PortInv'
  OBVIOUS
<1>1. CASE PortKeeps
  BY <1>1 DEF PortKeeps, PortInv, Shapes, PortIsHeld, HoldsPort, OpenIsSent
<1>2. CASE Collect \/ \E b \in Browsers : PortStep(b)
  BY <1>2, ShapesKept, PortKept, OpenKept DEF PortInv
<1> QED
  BY <1>1, <1>2, PortSteps DEF PortInv

LEMMA PortInvariant == Spec => []PortInv
  BY PortAtInit, PortStepKeeps, PTL DEF Spec

\* Two clients are never connected to the master server's threads at once
\* (ClientConnectionThread.java:247).
THEOREM OneTransferTheorem == Spec => []OneTransfer
<1>1. ASSUME PortInv PROVE OneTransfer
  <2>1. ASSUME NEW b \in Browsers, conn[b].state = "open"
        PROVE  listener = conn[b].server /\ thread[listener].pc = "sending"
                                         /\ thread[listener].peer = b
    BY <1>1, <2>1 DEF PortInv, PortIsHeld, HoldsPort, OpenIsSent
  <2> QED
    BY <2>1 DEF OneTransfer
<1> QED
  BY <1>1, PortInvariant, PTL
-----------------------------------------------------------------------------
(* The pieces *)

\* Steps that leave connections, transfers and threads alone.
LEMMA PiecesStay ==
    ASSUME PiecesInv, UNCHANGED <<dl, conn, backlog, thread>>
    PROVE  PiecesInv'
  BY DEF PiecesInv, Inactive, Unread, Waits, Ready, AccountOf

\* A thread that does not send goes on.
LEMMA PiecesOfThread ==
    ASSUME TypeInv, OpenIsSent, PiecesInv, UNCHANGED <<dl, conn, backlog>>,
           NEW b \in Browsers, thread[b].pc # "sending",
           NEW t, t.pc = "accept" => t.left = Pieces(t), thread' = [thread EXCEPT ![b] = t]
    PROVE  PiecesInv'
<1>1. thread'[b] = t /\ \A c \in Browsers \ {b} : thread'[c] = thread[c]
  BY DEF TypeInv, TypeOK
<1>2. \A c \in Browsers : Ready(c)'
  BY <1>1 DEF PiecesInv, Ready, Pieces
<1>3. \A c \in Browsers : AccountOf(c)'
  BY <1>1 DEF PiecesInv, AccountOf, OpenIsSent, Pieces
<1> QED
  BY <1>2, <1>3 DEF PiecesInv, Inactive, Unread, Waits

\* What threads do before a connection is accepted, and after it was closed.
LEMMA PiecesOfServer ==
    ASSUME TypeInv, OpenIsSent, PiecesInv, NEW b \in Browsers,
           Dispatch(b) \/ Poll(b) \/ Lookup(b) \/ Bind(b) \/ Open(b) \/ Exit(b)
    PROVE  PiecesInv'
<1>1. UNCHANGED <<dl, conn, backlog>>
  BY DEF Dispatch, Poll, Lookup, Bind, Open, Exit, client, tcp
<1>2. thread \in [Browsers -> Threads] /\ thread[b] \in Threads
  BY DEF TypeInv, TypeOK
<1>3. ASSUME thread[b].pc # "sending",
             NEW t, t.pc # "accept", thread' = [thread EXCEPT ![b] = t]
      PROVE  PiecesInv'
  BY <1>1, <1>3, PiecesOfThread
<1>4. CASE Dispatch(b)
  <2>1. PICK i \in DOMAIN requests[b] :
          thread' = [thread EXCEPT ![b] =
                IF @.pc = "none" THEN [NoThread EXCEPT !.pc = "poll", !.queue = <<requests[b][i]>>]
                                 ELSE [@ EXCEPT !.queue = Append(thread[b].queue, requests[b][i])]]
    BY <1>4 DEF Dispatch
  <2>2. CASE thread[b].pc = "none"
    <3> DEFINE t == [NoThread EXCEPT !.pc = "poll", !.queue = <<requests[b][i]>>]
    <3>1. t.pc = "poll" /\ thread' = [thread EXCEPT ![b] = t]
      BY <1>2, <2>1, <2>2 DEF NoThread
    <3> HIDE DEF t
    <3> QED
      BY <1>3, <2>2, <3>1
  <2>3. CASE thread[b].pc # "none"
    <3>1. \A c \in Browsers :
            /\ thread'[c].pc = thread[c].pc /\ thread'[c].left = thread[c].left
            /\ thread'[c].rom = thread[c].rom /\ thread'[c].content = thread[c].content
      BY <1>2, <2>1, <2>3 DEF Threads
    <3>2. \A c \in Browsers : Ready(c)'
      BY <3>1 DEF PiecesInv, Ready, Pieces
    <3>3. \A c \in Browsers : AccountOf(c)'
      <4>1. \A c \in Browsers : Pieces(thread'[c]) = Pieces(thread[c])
        BY <3>1 DEF Pieces
      <4> QED
        BY <1>1, <3>1, <4>1 DEF PiecesInv, AccountOf, OpenIsSent
    <3> QED
      BY <1>1, <3>2, <3>3 DEF PiecesInv, Inactive, Unread, Waits
  <2> QED
    BY <2>2, <2>3
<1>5. CASE Poll(b)
  <2> DEFINE t == [thread[b] EXCEPT !.pc = "lookup", !.rom = Head(thread[b].queue),
                                    !.queue = Tail(thread[b].queue)]
  <2>1. t.pc = "lookup" /\ thread[b].pc = "poll" /\ thread' = [thread EXCEPT ![b] = t]
    BY <1>2, <1>5 DEF Poll, Threads
  <2> HIDE DEF t
  <2> QED
    BY <1>3, <2>1
<1>6. CASE Lookup(b)
  <2>1. PICK p \in {"bind", "leaving"} :
          \E f : thread' = [thread EXCEPT ![b] = [thread[b] EXCEPT !.pc = p, !.file = f]]
    BY <1>6 DEF Lookup
  <2>2. PICK f : thread' = [thread EXCEPT ![b] = [thread[b] EXCEPT !.pc = p, !.file = f]]
    BY <2>1
  <2>3. [thread[b] EXCEPT !.pc = p, !.file = f].pc # "accept" /\ thread[b].pc # "sending"
    BY <1>2, <1>6 DEF Lookup, Threads
  <2> QED
    BY <1>3, <2>2, <2>3
<1>7. CASE Bind(b)
  <2>1. PICK p \in {"open", "poll"} : thread' = [thread EXCEPT ![b] = [thread[b] EXCEPT !.pc = p]]
    BY <1>7 DEF Bind
  <2>2. [thread[b] EXCEPT !.pc = p].pc # "accept" /\ thread[b].pc # "sending"
    BY <1>2, <1>7 DEF Bind, Threads
  <2> QED
    BY <1>3, <2>1, <2>2
<1>8. CASE Open(b)
  <2> DEFINE held == folder[thread[b].file]
  <2>1. thread[b].pc # "sending"
    BY <1>8 DEF Open
  <2>2. CASE held = NoRom
    <3>1. thread' = [thread EXCEPT ![b] = [thread[b] EXCEPT !.pc = "poll"]]
          /\ [thread[b] EXCEPT !.pc = "poll"].pc # "accept"
      BY <1>2, <1>8, <2>2 DEF Open, Threads
    <3> QED
      BY <1>3, <2>1, <3>1
  <2>3. CASE held # NoRom
    <3> DEFINE n == Min({Size[thread[b].rom], Size[held]})
               t == [thread[b] EXCEPT !.pc = "accept", !.content = held, !.left = n]
    <3>1. thread' = [thread EXCEPT ![b] = t]
      BY <1>8, <2>3 DEF Open
    <3>2. t.rom = thread[b].rom /\ t.content = held /\ t.left = n
      <4> HIDE DEF n, held
      <4> QED
        BY <1>2 DEF Threads
    <3> HIDE DEF t
    <3>3. t.left = Pieces(t)
      BY <3>2 DEF Pieces
    <3> QED
      BY <1>1, <2>1, <3>1, <3>3, PiecesOfThread
  <2> QED
    BY <2>2, <2>3
<1>9. CASE Exit(b)
  BY <1>3, <1>9 DEF Exit, NoThread
<1> QED
  BY <1>4, <1>5, <1>6, <1>7, <1>8, <1>9

\* A client connects.
LEMMA PiecesOfReply ==
    ASSUME TypeInv, PiecesInv, NEW b \in Browsers, HandleReply(b)
    PROVE  PiecesInv'
<1>1. UNCHANGED thread /\ ~dl[b].active
  BY DEF HandleReply, server
<1>2. CASE UNCHANGED <<dl, conn, backlog>>
  BY <1>1, <1>2, PiecesStay
<1>3. CASE ~UNCHANGED <<dl, conn, backlog>>
  <2>1. PICK size : dl' = [dl EXCEPT ![b] = [active |-> TRUE, path |-> path[b],
                                             size |-> size, got |-> 0]]
    BY <1>3 DEF HandleReply
  <2>2. \/ UNCHANGED <<conn, backlog>>
        \/ conn' = [conn EXCEPT ![b].state = "backlog"] /\ backlog' = Append(backlog, b)
    BY <1>3 DEF HandleReply
  <2>3. dl \in [Browsers -> Transfers] /\ conn \in [Browsers -> Connections]
        /\ backlog \in Seq(SomeOne) /\ b \in SomeOne
    BY DEF TypeInv, TypeOK, SomeOne
  <2>4. dl'[b].active = TRUE /\ dl'[b].got = 0 /\ \A c \in Browsers \ {b} : dl'[c] = dl[c]
    BY <2>1, <2>3
  <2>5. conn[b] = NoConnection
    BY <1>1 DEF PiecesInv, Inactive
  <2>6. /\ conn'[b].content = NoRom /\ conn'[b].avail = 0 /\ conn'[b].state \in {"none", "backlog"}
        /\ \A c \in Browsers \ {b} : conn'[c] = conn[c]
    BY <2>2, <2>3, <2>5 DEF NoConnection
  <2>7. \A c \in Browsers : Inactive(c)' /\ Unread(c)' /\ AccountOf(c)' /\ Ready(c)'
    <3>1. \A c \in Browsers \ {b} : Inactive(c)' /\ Unread(c)' /\ AccountOf(c)'
      BY <1>1, <2>4, <2>6 DEF PiecesInv, Inactive, Unread, AccountOf
    <3>2. Inactive(b)' /\ Unread(b)' /\ AccountOf(b)'
      BY <2>4, <2>6 DEF Inactive, Unread, AccountOf
    <3>3. \A c \in Browsers : Ready(c)'
      BY <1>1 DEF PiecesInv, Ready, Pieces
    <3> QED
      BY <3>1, <3>2, <3>3
  <2>8. \A c \in Browsers : Waits(c)'
    <3>1. \A i \in DOMAIN backlog : backlog[i] # b
      BY <2>5 DEF PiecesInv, Waits, NoConnection
    <3>2. CASE UNCHANGED <<conn, backlog>>
      BY <3>2 DEF PiecesInv, Waits
    <3>3. CASE conn' = [conn EXCEPT ![b].state = "backlog"] /\ backlog' = Append(backlog, b)
      <4>1. conn'[b].state = "backlog"
        BY <2>3, <3>3 DEF Connections
      <4>2. /\ DOMAIN backlog' = 1..(Len(backlog) + 1) /\ backlog'[Len(backlog) + 1] = b
            /\ DOMAIN backlog = 1..Len(backlog) /\ Len(backlog) \in Nat
            /\ \A i \in DOMAIN backlog : backlog'[i] = backlog[i]
        BY <2>3, <3>3, AppendFacts
      <4>3. \A i \in DOMAIN backlog' : i \in DOMAIN backlog \/ i = Len(backlog) + 1
        BY <4>2
      <4>4. Waits(b)'
        BY <3>1, <4>1, <4>2, <4>3 DEF Waits
      <4>5. \A c \in Browsers \ {b} : Waits(c)'
        BY <2>6, <4>2, <4>3 DEF PiecesInv, Waits
      <4> QED
        BY <4>4, <4>5
    <3> QED
      BY <2>2, <3>2, <3>3
  <2> QED
    BY <2>7, <2>8 DEF PiecesInv
<1> QED
  BY <1>2, <1>3

\* A client reads what arrived, and closes its connection at the end.
LEMMA PiecesOfDownload ==
    ASSUME TypeInv, PiecesInv, NEW b \in Browsers, FileDownload(b)
    PROVE  PiecesInv'
<1>1. UNCHANGED thread /\ dl[b].active
  BY DEF FileDownload, server
<1>2. dl \in [Browsers -> Transfers] /\ conn \in [Browsers -> Connections]
      /\ thread \in [Browsers -> Threads]
      /\ dl[b].got \in Nat /\ dl[b].size \in Nat /\ conn[b].avail \in Nat
  BY DEF TypeInv, TypeOK, Transfers, Connections
<1>3. \A c \in Browsers : Ready(c)'
  BY <1>1 DEF PiecesInv, Ready, Pieces
<1>4. PICK n \in 0..Min({conn[b].avail, dl[b].size - dl[b].got}), dest \in Roms \union {NoRom} :
        \/ /\ dl' = [dl EXCEPT ![b].got = dl[b].got + n, ![b].path = dest]
           /\ conn' = [conn EXCEPT ![b].avail = @ - n]
           /\ backlog' = backlog
        \/ dl' = [dl EXCEPT ![b] = NoDownload] /\ Disconnected(b)
  BY DEF FileDownload, ReadChunk
<1>5. n \in Nat /\ n <= conn[b].avail
  <2>1. conn[b].avail \in Int /\ dl[b].size - dl[b].got \in Int
    BY <1>2
  <2>2. /\ Min({conn[b].avail, dl[b].size - dl[b].got}) <= conn[b].avail
        /\ Min({conn[b].avail, dl[b].size - dl[b].got}) \in {conn[b].avail, dl[b].size - dl[b].got}
    BY <2>1, MinFacts
  <2> QED
    BY <2>1, <2>2
<1>6. CASE /\ dl' = [dl EXCEPT ![b].got = dl[b].got + n, ![b].path = dest]
           /\ conn' = [conn EXCEPT ![b].avail = @ - n]
           /\ backlog' = backlog
  <2>1. /\ dl'[b].active = dl[b].active /\ dl'[b].got = dl[b].got + n
        /\ \A c \in Browsers \ {b} : dl'[c] = dl[c]
    BY <1>2, <1>6 DEF Transfers
  <2>2. /\ conn'[b].state = conn[b].state /\ conn'[b].server = conn[b].server
        /\ conn'[b].content = conn[b].content /\ conn'[b].avail = conn[b].avail - n
        /\ \A c \in Browsers \ {b} : conn'[c] = conn[c]
    BY <1>2, <1>6 DEF Connections
  <2>3. \A c \in Browsers \ {b} : Inactive(c)' /\ Unread(c)' /\ AccountOf(c)'
    BY <1>1, <2>1, <2>2 DEF PiecesInv, Inactive, Unread, AccountOf
  <2>4. Inactive(b)'
    BY <1>1, <2>1 DEF Inactive
  <2>5. Unread(b)'
    BY <1>2, <1>5, <2>1, <2>2 DEF PiecesInv, Unread
  <2>6. AccountOf(b)'
    <3>1. (dl[b].got + n) + (conn[b].avail - n) = dl[b].got + conn[b].avail
      BY <1>2, <1>5
    <3> QED
      BY <1>1, <2>1, <2>2, <3>1 DEF PiecesInv, AccountOf
  <2>7. \A c \in Browsers : Waits(c)'
    BY <1>6, <2>2 DEF PiecesInv, Waits
  <2> QED
    BY <1>3, <2>3, <2>4, <2>5, <2>6, <2>7 DEF PiecesInv
<1>7. CASE dl' = [dl EXCEPT ![b] = NoDownload] /\ Disconnected(b)
  <2>1. /\ dl'[b] = NoDownload /\ conn'[b] = NoConnection
        /\ \A c \in Browsers \ {b} : dl'[c] = dl[c] /\ conn'[c] = conn[c]
    BY <1>2, <1>7 DEF Disconnected
  <2>2. \A c \in Browsers \ {b} : Inactive(c)' /\ Unread(c)' /\ AccountOf(c)'
    BY <1>1, <2>1 DEF PiecesInv, Inactive, Unread, AccountOf
  <2>3. Inactive(b)' /\ Unread(b)' /\ AccountOf(b)'
    BY <2>1 DEF Inactive, Unread, AccountOf, NoConnection, NoDownload
  <2>4. \A c \in Browsers : Waits(c)'
    <3>1. /\ DOMAIN backlog' = DOMAIN backlog
          /\ \A i \in DOMAIN backlog : backlog'[i] = IF backlog[i] = b THEN NoOne ELSE backlog[i]
      BY <1>7 DEF Disconnected
    <3>2. NoOne \notin Browsers
      BY RomDownloadAssumption
    <3>3. Waits(b)'
      BY <3>1, <3>2 DEF Waits
    <3>4. ASSUME NEW c \in Browsers \ {b} PROVE Waits(c)'
      <4>1. \A i \in DOMAIN backlog : backlog'[i] = c => backlog[i] = c
        BY <3>1, <3>2
      <4> QED
        BY <2>1, <3>1, <4>1 DEF PiecesInv, Waits
    <3> QED
      BY <3>3, <3>4
  <2> QED
    BY <1>3, <2>2, <2>3, <2>4 DEF PiecesInv
<1> QED
  BY <1>4, <1>6, <1>7

\* Nobody is connected while a thread waits for a connection.
LEMMA NobodyConnected ==
    ASSUME PortIsHeld, OpenIsSent, NEW b \in Browsers, thread[b].pc = "accept"
    PROVE  \A c \in Browsers : conn[c].state # "open"
<1>1. ASSUME NEW c \in Browsers, conn[c].state = "open" PROVE FALSE
  <2>1. HoldsPort(b) /\ HoldsPort(conn[c].server) /\ conn[c].server \in Browsers
    BY <1>1 DEF HoldsPort, OpenIsSent
  <2>2. conn[c].server = b
    BY <2>1 DEF PortIsHeld
  <2> QED
    BY <1>1, <2>2 DEF OpenIsSent
<1> QED
  BY <1>1

\* A connection is accepted.
LEMMA PiecesOfAccept ==
    ASSUME TypeInv, PortIsHeld, OpenIsSent, PiecesInv, NEW b \in Browsers, Accept(b)
    PROVE  PiecesInv'
<1>1. UNCHANGED dl /\ thread[b].pc = "accept" /\ backlog' = Tail(backlog) /\ backlog # <<>>
  BY DEF Accept, client
<1>2. conn \in [Browsers -> Connections] /\ thread \in [Browsers -> Threads]
      /\ backlog \in Seq(SomeOne) /\ thread[b] \in Threads /\ thread[b].left \in Nat
  BY DEF TypeInv, TypeOK, Threads
<1>3. PICK d \in SomeOne : d = Head(backlog) /\ d = backlog[1]
  BY <1>1, <1>2, TailFacts
<1>4. /\ 1 \in DOMAIN backlog
      /\ DOMAIN backlog' \subseteq Nat
      /\ \A i \in DOMAIN backlog' : i >= 1 /\ i + 1 \in DOMAIN backlog /\ backlog'[i] = backlog[i + 1]
  BY <1>1, <1>2, TailFacts
<1>5. thread' = [thread EXCEPT ![b] = [thread[b] EXCEPT !.pc = "sending", !.peer = d]]
  BY <1>3 DEF Accept
<1>6. /\ thread'[b].pc = "sending" /\ thread'[b].left = thread[b].left
      /\ thread'[b].rom = thread[b].rom /\ thread'[b].content = thread[b].content
      /\ \A c \in Browsers \ {b} : thread'[c] = thread[c]
  BY <1>2, <1>5 DEF Threads
<1>7. \A c \in Browsers \ {d} : conn'[c] = conn[c]
  BY <1>2, <1>3 DEF Accept
<1>8. d \in Browsers => conn'[d] = [state |-> "open", server |-> b,
                                    content |-> thread[b].content, avail |-> 0]
  BY <1>2, <1>3, RomDownloadAssumption DEF Accept
<1>9. d \in Browsers => /\ conn[d].state = "backlog" /\ dl[d].active /\ dl[d].got = 0
                        /\ \A i \in DOMAIN backlog' : backlog'[i] # d
  <2> SUFFICES ASSUME d \in Browsers
               PROVE  /\ conn[d].state = "backlog" /\ dl[d].active /\ dl[d].got = 0
                      /\ \A i \in DOMAIN backlog' : backlog'[i] # d
    OBVIOUS
  <2>1. conn[d].state = "backlog" /\ \A i \in DOMAIN backlog : backlog[i] = d => i = 1
    BY <1>4, <1>3 DEF PiecesInv, Waits
  <2>2. dl[d].active
    BY <2>1 DEF PiecesInv, Inactive, NoConnection
  <2>3. \A i \in DOMAIN backlog' : i + 1 # 1
    BY <1>4
  <2> QED
    BY <1>4, <1>3, <2>1, <2>2, <2>3 DEF PiecesInv, Unread
<1>10. \A c \in Browsers : Ready(c)'
  BY <1>6 DEF PiecesInv, Ready, Pieces
<1>11. \A c \in Browsers : Inactive(c)' /\ Unread(c)'
  <2>1. \A c \in Browsers \ {d} : Inactive(c)' /\ Unread(c)'
    BY <1>1, <1>7 DEF PiecesInv, Inactive, Unread
  <2>2. d \in Browsers => Inactive(d)' /\ Unread(d)'
    BY <1>1, <1>8, <1>9 DEF Inactive, Unread
  <2> QED
    BY <2>1, <2>2
<1>12. \A c \in Browsers : AccountOf(c)'
  <2>1. \A c \in Browsers \ {d} : AccountOf(c)'
    BY <1>1, <1>7, NobodyConnected DEF AccountOf
  <2>2. ASSUME d \in Browsers PROVE AccountOf(d)'
    <3>1. conn'[d].server = b /\ conn'[d].avail = 0 /\ conn'[d].content = thread[b].content
      BY <1>8, <2>2
    <3>2. dl'[d].got = 0
      BY <1>1, <1>9, <2>2
    <3>3. thread[b].left = Pieces(thread[b])
      BY <1>1 DEF PiecesInv, Ready
    <3>4. Pieces(thread'[b]) = Pieces(thread[b])
      BY <1>6 DEF Pieces
    <3>5. 0 + 0 + thread[b].left = thread[b].left
      BY <1>2
    <3> QED
      BY <1>6, <3>1, <3>2, <3>3, <3>4, <3>5 DEF AccountOf
  <2> QED
    BY <2>1, <2>2
<1>13. \A c \in Browsers : Waits(c)'
  <2>1. d \in Browsers => Waits(d)'
    BY <1>9 DEF Waits
  <2>2. ASSUME NEW c \in Browsers \ {d} PROVE Waits(c)'
    <3>1. ASSUME NEW i \in DOMAIN backlog', backlog'[i] = c,
                 NEW j \in DOMAIN backlog', backlog'[j] = c
          PROVE  conn[c].state = "backlog" /\ i = j
      <4>1. conn[c].state = "backlog" /\ i + 1 = j + 1
        BY <1>4, <3>1 DEF PiecesInv, Waits
      <4> QED
        BY <1>4, <4>1
    <3> QED
      BY <1>7, <3>1 DEF Waits
  <2> QED
    BY <2>1, <2>2
<1> QED
  BY <1>10, <1>11, <1>12, <1>13 DEF PiecesInv

\* A piece is sent.
LEMMA PiecesOfChunk ==
    ASSUME TypeInv, OpenIsSent, PiecesInv, NEW b \in Browsers, SendChunk(b)
    PROVE  PiecesInv'
<1>1. PICK p : p = thread[b].peer
  OBVIOUS
<1>2. UNCHANGED <<dl, backlog>> /\ thread[b].pc = "sending" /\ thread[b].left > 0
      /\ p # NoOne /\ conn[p].state = "open" /\ conn[p].server = b
      /\ thread' = [thread EXCEPT ![b].left = @ - 1]
      /\ conn' = [conn EXCEPT ![p].avail = @ + 1]
  BY <1>1 DEF SendChunk, Connected, client
<1>3. conn \in [Browsers -> Connections] /\ thread \in [Browsers -> Threads]
      /\ p \in Browsers /\ thread[b].left \in Nat /\ conn[p].avail \in Nat /\ dl[p].got \in Nat
  <2>1. p \in Browsers
    BY <1>1, <1>2 DEF TypeInv, TypeOK, Threads, SomeOne
  <2> QED
    BY <2>1 DEF TypeInv, TypeOK, Threads, Connections, Transfers
<1>4. /\ thread'[b].pc = "sending" /\ thread'[b].left = thread[b].left - 1
      /\ thread'[b].rom = thread[b].rom /\ thread'[b].content = thread[b].content
      /\ \A c \in Browsers \ {b} : thread'[c] = thread[c]
  BY <1>2, <1>3 DEF Threads
<1>5. /\ conn'[p].state = conn[p].state /\ conn'[p].server = conn[p].server
      /\ conn'[p].content = conn[p].content /\ conn'[p].avail = conn[p].avail + 1
      /\ \A c \in Browsers \ {p} : conn'[c] = conn[c]
  BY <1>2, <1>3 DEF Connections
<1>6. \A c \in Browsers : conn[c].state = "open" /\ conn[c].server = b => c = p
  BY <1>1 DEF OpenIsSent
<1>7. \A c \in Browsers : Ready(c)'
  BY <1>4 DEF PiecesInv, Ready, Pieces
<1>8. \A c \in Browsers : Waits(c)'
  BY <1>2, <1>5 DEF PiecesInv, Waits
<1>9. \A c \in Browsers : Inactive(c)' /\ Unread(c)'
  <2>1. \A c \in Browsers \ {p} : Inactive(c)' /\ Unread(c)'
    BY <1>2, <1>5 DEF PiecesInv, Inactive, Unread
  <2>2. dl[p].active
    BY <1>2, <1>3 DEF PiecesInv, Inactive, NoConnection
  <2>3. Inactive(p)' /\ Unread(p)'
    BY <1>2, <1>5, <2>2 DEF Inactive, Unread
  <2> QED
    BY <2>1, <2>3
<1>10. AccountOf(p)'
  <2>1. conn[p].content = thread[b].content
        /\ dl[p].got + conn[p].avail + thread[b].left = Pieces(thread[b])
    BY <1>2, <1>3 DEF PiecesInv, AccountOf
  <2>2. dl[p].got + (conn[p].avail + 1) + (thread[b].left - 1) = Pieces(thread[b])
    BY <1>3, <2>1
  <2>3. Pieces(thread'[b]) = Pieces(thread[b])
    BY <1>4 DEF Pieces
  <2> QED
    BY <1>2, <1>4, <1>5, <2>1, <2>2, <2>3 DEF AccountOf
<1>11. ASSUME NEW c \in Browsers \ {p} PROVE AccountOf(c)'
  <2>1. conn[c].state = "open" => thread'[conn[c].server] = thread[conn[c].server]
    BY <1>4, <1>6 DEF OpenIsSent
  <2>2. conn'[c] = conn[c] /\ dl'[c] = dl[c] /\ AccountOf(c)
    BY <1>2, <1>5 DEF PiecesInv
  <2> QED
    BY <2>1, <2>2 DEF AccountOf
<1> QED
  BY <1>7, <1>8, <1>9, <1>10, <1>11 DEF PiecesInv

\* The ServerSocket is closed, and so is the connection that was accepted.
LEMMA PiecesOfClose ==
    ASSUME TypeInv, PiecesInv, Collect \/ \E b \in Browsers : Finish(b)
    PROVE  PiecesInv'
<1>1. UNCHANGED dl /\ backlog' = <<>> /\ conn' = [c \in Browsers |-> Closed(conn[c])]
  BY DEF Collect, Finish, client
<1>2. \A c \in Browsers : conn'[c] = Closed(conn[c]) /\ conn[c] \in Connections
  BY <1>1 DEF TypeInv, TypeOK
<1>3. \A c \in Connections :
        /\ Closed(c).state \in {"none", "closed"} /\ (c.state = "none" => Closed(c) = c)
        /\ Closed(c).state = "none" => c.state = "none"
  BY DEF Closed, Connections
<1>4. \A c \in Browsers : Inactive(c)'
  BY <1>1, <1>2, <1>3 DEF PiecesInv, Inactive, NoConnection
<1>5. \A c \in Browsers : Unread(c)'
  BY <1>1, <1>2, <1>3 DEF PiecesInv, Unread
<1>6. \A c \in Browsers : Waits(c)' /\ AccountOf(c)'
  BY <1>1, <1>2, <1>3 DEF Waits, AccountOf
<1>7. \A c \in Browsers : Ready(c)'
  <2>1. CASE Collect
    BY <2>1 DEF Collect, server, PiecesInv, Ready, Pieces
  <2>2. ASSUME NEW b \in Browsers, Finish(b) PROVE \A c \in Browsers : Ready(c)'
    <3>1. thread'[b].pc = "leaving" /\ \A c \in Browsers \ {b} : thread'[c] = thread[c]
      BY <2>2 DEF Finish, TypeInv, TypeOK, Threads
    <3> QED
      BY <3>1 DEF PiecesInv, Ready, Pieces
  <2> QED
    BY <2>1, <2>2
<1> QED
  BY <1>4, <1>5, <1>6, <1>7 DEF PiecesInv

\* The invariants of a download hold together.
DownloadInv == TypeInv /\ PortInv /\ PiecesInv

LEMMA PiecesStep ==
    ASSUME TypeInv, PortInv, PiecesInv, [Next]_vars
    PROVE  PiecesInv'
<1>1. PortIsHeld /\ OpenIsSent
  BY DEF PortInv
<1>2. CASE UNCHANGED vars \/ EditFolder
  BY <1>2, PiecesStay DEF vars, client, server, tcp, EditFolder
<1>3. ASSUME NEW b \in Browsers,
             \/ RequestDownload(b) \/ Cancel(b) \/ PostRequest(b) \/ Join(b)
             \/ HandleMainInput(b) \/ Lose(b)
      PROVE  PiecesInv'
  <2>1. UNCHANGED <<dl, conn, backlog, thread>>
    BY <1>3 DEF RequestDownload, Cancel, PostRequest, Join, HandleMainInput, Lose, client, server, tcp
  <2> QED
    BY <2>1, PiecesStay
<1> QED
  BY <1>1, <1>2, <1>3, PiecesOfServer, PiecesOfReply, PiecesOfDownload, PiecesOfAccept,
     PiecesOfChunk, PiecesOfClose DEF Next, User, Finder, Master

LEMMA DownloadInvariant == Spec => []DownloadInv
<1>1. Init => DownloadInv
  <2> SUFFICES ASSUME Init PROVE PiecesInv
    BY TypesAtInit, PortAtInit DEF DownloadInv
  <2>1. DOMAIN <<>> = {}
    OBVIOUS
  <2> QED
    BY <2>1 DEF Init, PiecesInv, Inactive, Unread, Waits, Ready, AccountOf, NoConnection,
                NoDownload, NoThread
<1>2. DownloadInv /\ [Next]_vars => DownloadInv'
  BY TypeStep, PortStepKeeps, PiecesStep DEF DownloadInv
<1> QED
  BY <1>1, <1>2, PTL DEF Spec

\* A client that waits to be accepted is inside FileDownload and has read nothing, and one
\* that is connected is inside it too and can still get what the thread has not sent of its
\* file (ClientConnectionThread.java, DownloadROM; serverbrowser.cpp, FileDownload).
THEOREM DownloadAccounts == Spec => []PiecesAccounted
<1>1. ASSUME DownloadInv PROVE PiecesAccounted
  <2>1. ASSUME NEW i \in DOMAIN backlog, backlog[i] # NoOne
        PROVE  dl[backlog[i]].active /\ dl[backlog[i]].got = 0
    <3>1. backlog[i] \in Browsers
      BY <1>1, <2>1 DEF DownloadInv, TypeInv, TypeOK, SomeOne
    <3>2. conn[backlog[i]].state = "backlog"
      BY <1>1, <2>1, <3>1 DEF DownloadInv, PiecesInv, Waits
    <3> QED
      BY <1>1, <3>1, <3>2 DEF DownloadInv, PiecesInv, Inactive, Unread, NoConnection
  <2>2. ASSUME NEW b \in Browsers, conn[b].state = "open"
        PROVE  /\ dl[b].active
               /\ LET t == thread[conn[b].server]
                  IN  /\ conn[b].content = t.content
                      /\ dl[b].got + conn[b].avail + t.left = Min({Size[t.rom], Size[t.content]})
    BY <1>1, <2>2 DEF DownloadInv, PiecesInv, Inactive, AccountOf, Pieces, NoConnection
  <2> QED
    BY <2>1, <2>2 DEF PiecesAccounted
<1> QED
  BY <1>1, DownloadInvariant, PTL
-----------------------------------------------------------------------------
(* The first download *)

\* A client none of whose variables changes.
LEMMA FirstElsewhere ==
    ASSUME NEW c \in Browsers, FirstOf(c), UNCHANGED folder,
           user'[c] = user[c], asked'[c] = asked[c], inputs'[c] = inputs[c], path'[c] = path[c],
           dl'[c] = dl[c], conn'[c].content = conn[c].content, saved'[c] = saved[c],
           requests'[c] = requests[c], thread'[c] = thread[c]
    PROVE  FirstOf(c)'
  BY DEF FirstOf, Unused, IsAbout, About

\* A request of the user, whose first it is.
LEMMA FirstRequest ==
    ASSUME TypeInv, NEW b \in Browsers, \A c \in Browsers : FirstOf(c),
           RequestDownload(b), asked'[b] <= 1
    PROVE  \A c \in Browsers : FirstOf(c)'
<1>1. UNCHANGED <<path, dl, saved, requests, thread, conn, folder>>
  BY DEF RequestDownload, server, tcp, rest
<1>2. /\ user \in [Browsers -> UserStates] /\ asked \in [Browsers -> Nat]
      /\ inputs \in [Browsers -> Seq(Events)]
  BY DEF TypeInv, TypeOK
<1>3. PICK r \in Roms :
        /\ user' = [user EXCEPT ![b] = [doing |-> "asking", rom |-> r, full |-> FALSE]]
        /\ inputs' = [inputs EXCEPT ![b] = Append(@, Event("FILENAME", r))]
        /\ asked' = [asked EXCEPT ![b] = @ + 1]
  BY DEF RequestDownload
<1>4. asked[b] = 0 /\ asked'[b] = 1
  BY <1>2, <1>3
<1>5. Unused(b)
  BY <1>4 DEF FirstOf
<1>6. inputs'[b] = <<Event("FILENAME", r)>> /\ user'[b].rom = r
  BY <1>2, <1>3, <1>5 DEF Unused
<1>7. \A i \in DOMAIN inputs'[b] : inputs'[b][i].rom = r
  BY <1>6 DEF Event
<1>8. DOMAIN <<>> = {}
  OBVIOUS
<1>9. IsAbout(b, user[b].rom)
  BY DEF FirstOf
<1>10. \A q \in Roms : saved'[b][q] \in {NoRom, q}
  BY <1>1, <1>9 DEF IsAbout
<1>11. About(thread[b], r)'
  BY <1>1, <1>5, <1>8 DEF Unused, About, NoThread
<1>12. IsAbout(b, r)'
  BY <1>1, <1>5, <1>7, <1>8, <1>10, <1>11 DEF Unused, IsAbout, NoDownload
<1>13. FirstOf(b)'
  BY <1>4, <1>6, <1>12 DEF FirstOf
<1>14. \A c \in Browsers \ {b} : user'[c] = user[c] /\ asked'[c] = asked[c] /\ inputs'[c] = inputs[c]
  BY <1>2, <1>3
<1> QED
  BY <1>1, <1>13, <1>14, FirstElsewhere

\* The other steps of the user.
LEMMA FirstOfUser ==
    ASSUME TypeInv, NEW b \in Browsers, \A c \in Browsers : FirstOf(c),
           PostRequest(b) \/ Join(b)
    PROVE  \A c \in Browsers : FirstOf(c)'
<1>1. UNCHANGED <<asked, path, dl, saved, requests, thread, conn, folder>>
  BY DEF PostRequest, Join, server, tcp, rest
<1>2. user \in [Browsers -> UserStates] /\ inputs \in [Browsers -> Seq(Events)]
  BY DEF TypeInv, TypeOK
<1>3. asked[b] # 0
  BY DEF PostRequest, Join, FirstOf, Unused, Idle
<1>4. user'[b].rom = user[b].rom /\ \A c \in Browsers \ {b} : user'[c] = user[c]
  BY <1>2 DEF PostRequest, Join, UserStates
<1>5. /\ \A i \in DOMAIN inputs'[b] : inputs'[b][i].rom = user[b].rom
      /\ \A c \in Browsers \ {b} : inputs'[c] = inputs[c]
  <2>1. \A i \in DOMAIN inputs[b] : inputs[b][i].rom = user[b].rom
    BY DEF FirstOf, IsAbout
  <2>2. CASE Join(b)
    BY <2>1, <2>2 DEF Join
  <2>3. CASE PostRequest(b)
    <3>1. Event("DODL", user[b].rom) \in Events /\ Event("DODL", user[b].rom).rom = user[b].rom
      BY <1>2, RecordFacts DEF UserStates, Event
    <3>2. inputs' = [inputs EXCEPT ![b] = Append(@, Event("DODL", user[b].rom))]
      BY <2>3 DEF PostRequest
    <3>3. /\ DOMAIN Append(inputs[b], Event("DODL", user[b].rom)) = 1..(Len(inputs[b]) + 1)
          /\ Append(inputs[b], Event("DODL", user[b].rom))[Len(inputs[b]) + 1] = Event("DODL", user[b].rom)
          /\ \A i \in DOMAIN inputs[b] :
               Append(inputs[b], Event("DODL", user[b].rom))[i] = inputs[b][i]
          /\ DOMAIN inputs[b] = 1..Len(inputs[b]) /\ Len(inputs[b]) \in Nat
      BY <1>2, <3>1, AppendFacts
    <3>4. \A i \in 1..(Len(inputs[b]) + 1) : i \in 1..Len(inputs[b]) \/ i = Len(inputs[b]) + 1
      BY <3>3
    <3>5. inputs'[b] = Append(inputs[b], Event("DODL", user[b].rom))
          /\ \A c \in Browsers \ {b} : inputs'[c] = inputs[c]
      BY <1>2, <3>2
    <3> QED
      BY <2>1, <3>1, <3>3, <3>4, <3>5
  <2> QED
    BY <2>2, <2>3
<1>6. IsAbout(b, user[b].rom)'
  BY <1>1, <1>4, <1>5 DEF FirstOf, IsAbout, About
<1>7. FirstOf(b)'
  BY <1>1, <1>3, <1>6 DEF FirstOf
<1> QED
  BY <1>1, <1>4, <1>5, <1>7, FirstElsewhere

\* The steps of the finder thread.
LEMMA FirstOfFinder ==
    ASSUME TypeInv, NEW b \in Browsers, \A c \in Browsers : FirstOf(c),
           HandleMainInput(b) \/ HandleReply(b)
    PROVE  \A c \in Browsers : FirstOf(c)'
<1>1. UNCHANGED <<user, asked, saved, thread, folder>>
  BY DEF HandleMainInput, HandleReply, server, rest
<1>2. /\ inputs \in [Browsers -> Seq(Events)] /\ requests \in [Browsers -> Seq(Roms)]
      /\ path \in [Browsers -> SomeRom] /\ dl \in [Browsers -> Transfers]
      /\ conn \in [Browsers -> Connections]
  BY DEF TypeInv, TypeOK
<1>3. IsAbout(b, user[b].rom)
  BY DEF FirstOf
<1>4. CASE HandleMainInput(b)
  <2> DEFINE e == Head(inputs[b])
  <2>1. inputs[b] # <<>> /\ inputs[b] \in Seq(Events)
    BY <1>2, <1>4 DEF HandleMainInput
  <2>2. /\ e \in Events /\ e = inputs[b][1] /\ 1 \in DOMAIN inputs[b]
        /\ \A i \in DOMAIN Tail(inputs[b]) :
             i + 1 \in DOMAIN inputs[b] /\ Tail(inputs[b])[i] = inputs[b][i + 1]
    BY <2>1, TailFacts
  <2>3. e.rom = user[b].rom
    BY <1>3, <2>2 DEF IsAbout
  <2>4. asked[b] # 0
    BY <2>1 DEF FirstOf, Unused
  <2>5. inputs' = [inputs EXCEPT ![b] = Tail(@)] /\ UNCHANGED <<dl, conn>>
    BY <1>4 DEF HandleMainInput, tcp
  <2>6. \A i \in DOMAIN inputs'[b] : inputs'[b][i].rom = user[b].rom
    BY <1>2, <1>3, <2>2, <2>5 DEF IsAbout
  <2>7. /\ path'[b] \in {NoRom, user[b].rom}
        /\ \A i \in DOMAIN requests'[b] : requests'[b][i] = user[b].rom
        /\ \A c \in Browsers \ {b} : path'[c] = path[c] /\ requests'[c] = requests[c]
    <3>1. CASE e.type = "DODL"
      <4>1. path' = path /\ requests' = [requests EXCEPT ![b] = Append(@, e.rom)]
        BY <1>4, <3>1 DEF HandleMainInput
      <4>2. e.rom \in Roms /\ requests[b] \in Seq(Roms)
        BY <1>2, <2>2, <3>1 DEF TypeInv, RomsAreNamed
      <4> HIDE DEF e
      <4>3. /\ DOMAIN Append(requests[b], e.rom) = 1..(Len(requests[b]) + 1)
            /\ Append(requests[b], e.rom)[Len(requests[b]) + 1] = e.rom
            /\ \A i \in DOMAIN requests[b] : Append(requests[b], e.rom)[i] = requests[b][i]
            /\ DOMAIN requests[b] = 1..Len(requests[b]) /\ Len(requests[b]) \in Nat
        BY <4>2, AppendFacts
      <4>4. \A i \in 1..(Len(requests[b]) + 1) : i \in 1..Len(requests[b]) \/ i = Len(requests[b]) + 1
        BY <4>3
      <4>5. \A i \in DOMAIN requests[b] : requests[b][i] = user[b].rom
        BY <1>3 DEF IsAbout
      <4>6. requests'[b] = Append(requests[b], e.rom)
            /\ \A c \in Browsers \ {b} : requests'[c] = requests[c]
        BY <1>2, <4>1
      <4> QED
        BY <1>3, <2>3, <4>1, <4>3, <4>4, <4>5, <4>6 DEF IsAbout
    <3>2. CASE e.type # "DODL"
      <4>1. path' = [path EXCEPT ![b] = e.rom] /\ requests' = requests
        BY <1>4, <3>2 DEF HandleMainInput
      <4> QED
        BY <1>2, <1>3, <2>3, <4>1 DEF IsAbout
    <3> QED
      BY <3>1, <3>2
  <2>8. FirstOf(b)'
    BY <1>1, <1>3, <2>4, <2>5, <2>6, <2>7 DEF FirstOf, IsAbout, About
  <2>9. \A c \in Browsers \ {b} : inputs'[c] = inputs[c]
    BY <1>2, <2>5
  <2> QED
    BY <1>1, <2>5, <2>7, <2>8, <2>9, FirstElsewhere
<1>5. CASE HandleReply(b)
  <2>1. UNCHANGED <<inputs, path, requests>>
    BY <1>5 DEF HandleReply
  <2>2. \A c \in Browsers : conn'[c].content = conn[c].content
    <3>1. conn' = conn \/ conn' = [conn EXCEPT ![b] = [conn[b] EXCEPT !.state = "backlog"]]
      BY <1>5 DEF HandleReply
    <3>2. [conn[b] EXCEPT !.state = "backlog"].content = conn[b].content
      BY <1>2 DEF Connections
    <3> QED
      BY <1>2, <3>1, <3>2
  <2>3. \A c \in Browsers \ {b} : dl'[c] = dl[c]
    BY <1>2, <1>5 DEF HandleReply
  <2>4. dl'[b] = dl[b] \/ (dl'[b].path = path[b] /\ path[b] # NoRom)
    <3>1. CASE dl' = dl
      BY <3>1
    <3>2. CASE dl' # dl
      <4>1. PICK size : dl' = [dl EXCEPT ![b] = [active |-> TRUE, path |-> path[b],
                                                 size |-> size, got |-> 0]]
        BY <1>5, <3>2 DEF HandleReply
      <4>2. path[b] # NoRom
        BY <1>5, <3>2 DEF HandleReply
      <4> QED
        BY <1>2, <4>1, <4>2
    <3> QED
      BY <3>1, <3>2
  <2>5. FirstOf(b)'
    BY <1>1, <1>3, <2>1, <2>2, <2>4 DEF FirstOf, Unused, IsAbout, About
  <2> QED
    BY <1>1, <2>1, <2>2, <2>3, <2>5, FirstElsewhere
<1> QED
  BY <1>4, <1>5

\* What the client saves is the ROM that it got, at the path it was told of.
LEMMA FirstOfDownload ==
    ASSUME TypeInv, NEW b \in Browsers, \A c \in Browsers : FirstOf(c), FileDownload(b)
    PROVE  \A c \in Browsers : FirstOf(c)'
<1>1. UNCHANGED <<asked, path, requests, thread, folder>> /\ dl[b].active
      /\ inputs' = [inputs EXCEPT ![b] = <<>>]
  BY DEF FileDownload, server, rest
<1>2. /\ user \in [Browsers -> UserStates] /\ inputs \in [Browsers -> Seq(Events)]
      /\ dl \in [Browsers -> Transfers] /\ conn \in [Browsers -> Connections]
      /\ saved \in [Browsers -> [Roms -> SomeRom]]
  BY DEF TypeInv, TypeOK
<1>3. IsAbout(b, user[b].rom)
  BY DEF FirstOf
<1>chunk. PICK n \in 0..Min({conn[b].avail, dl[b].size - dl[b].got}), dest \in Roms \union {NoRom},
              over \in BOOLEAN : ReadChunk(b, n, dest, over)
  BY DEF FileDownload
<1> DEFINE full == dl[b].got + n = dl[b].size
           dump == full /\ ~over
<1>4. /\ PathAfter(dl[b].path, inputs[b], dest)
      /\ IF dest # NoRom /\ ~full
         THEN /\ dl' = [dl EXCEPT ![b].got = dl[b].got + n, ![b].path = dest]
              /\ conn' = [conn EXCEPT ![b].avail = @ - n]
         ELSE dl' = [dl EXCEPT ![b] = NoDownload] /\ Disconnected(b)
      /\ saved' = IF dump /\ dest # NoRom
                  THEN [saved EXCEPT ![b][dest] = conn[b].content] ELSE saved
      /\ user' = [user EXCEPT
            ![b].full  = @ \/ full,
            ![b].doing = IF dump /\ dest = NoRom THEN "crashed" ELSE @]
  BY <1>chunk, Zenon DEF ReadChunk
<1> DEFINE u == [user[b] EXCEPT !.full = @ \/ full,
                                !.doing = IF dump /\ dest = NoRom THEN "crashed" ELSE @]
<1>5. user' = [user EXCEPT ![b] = u]
  BY <1>2, <1>4, Zenon
<1>6. u.rom = user[b].rom
  BY <1>2, ProgressSeen
<1> HIDE DEF u
<1>7. user'[b].rom = user[b].rom /\ \A c \in Browsers \ {b} : user'[c] = user[c]
  BY <1>2, <1>5, <1>6
<1>8. asked[b] # 0
  BY <1>1 DEF FirstOf, Unused, NoDownload
<1>9. dest \in {NoRom, user[b].rom}
  BY <1>3, <1>4 DEF PathAfter, IsAbout
<1>10. dl'[b].path \in {NoRom, user[b].rom} /\ \A c \in Browsers \ {b} : dl'[c] = dl[c]
  <2>1. CASE dest # NoRom /\ ~full
    <3>1. dl' = [dl EXCEPT ![b].got = dl[b].got + n, ![b].path = dest]
      BY <1>4, <2>1
    <3> QED
      BY <1>2, <1>9, <3>1 DEF Transfers
  <2>2. CASE ~(dest # NoRom /\ ~full)
    <3>1. dl' = [dl EXCEPT ![b] = NoDownload]
      BY <1>4, <2>2
    <3> QED
      BY <1>2, <3>1 DEF NoDownload
  <2> QED
    BY <2>1, <2>2
<1>11. conn'[b].content \in {NoRom, conn[b].content} /\ \A c \in Browsers \ {b} : conn'[c] = conn[c]
  <2>1. conn' = [conn EXCEPT ![b].avail = @ - n] \/ conn' = [conn EXCEPT ![b] = NoConnection]
    BY <1>4 DEF Disconnected
  <2> QED
    BY <1>2, <2>1 DEF Connections, NoConnection
<1>12. /\ \A q \in Roms : saved'[b][q] \in {NoRom, q}
       /\ \A c \in Browsers \ {b} : saved'[c] = saved[c]
  <2>1. \A q \in Roms : saved[b][q] \in {NoRom, q}
    BY <1>3 DEF IsAbout
  <2>2. conn[b].content \in {NoRom, user[b].rom}
    BY <1>3 DEF IsAbout
  <2>3. CASE dump /\ dest # NoRom
    <3>1. saved' = [saved EXCEPT ![b][dest] = conn[b].content] /\ dest = user[b].rom
      BY <1>4, <1>9, <2>3
    <3> HIDE DEF full, dump
    <3> QED
      BY <1>2, <2>1, <2>2, <3>1
  <2>4. CASE ~(dump /\ dest # NoRom)
    BY <1>4, <2>1, <2>4
  <2> QED
    BY <2>3, <2>4
<1> HIDE DEF full, dump
<1>13. inputs'[b] = <<>> /\ (\A c \in Browsers \ {b} : inputs'[c] = inputs[c]) /\ DOMAIN <<>> = {}
  BY <1>1, <1>2
<1>14. FirstOf(b)'
  <2>1. {path'[b], dl'[b].path, conn'[b].content} \subseteq {NoRom, user[b].rom}
    BY <1>1, <1>3, <1>10, <1>11 DEF IsAbout
  <2>2. About(thread[b], user[b].rom)'
    BY <1>1, <1>3, <1>7 DEF IsAbout, About
  <2>3. IsAbout(b, user[b].rom)'
    BY <1>1, <1>3, <1>7, <1>12, <1>13, <2>1, <2>2 DEF IsAbout
  <2> QED
    BY <1>1, <1>8, <2>3 DEF FirstOf
<1> QED
  BY <1>1, <1>7, <1>10, <1>11, <1>12, <1>13, <1>14, FirstElsewhere

\* A thread goes on for the user who has asked.
LEMMA FirstOfThread ==
    ASSUME TypeInv, NEW b \in Browsers, \A c \in Browsers : FirstOf(c),
           UNCHANGED <<client, folder>>, asked[b] # 0,
           \A i \in DOMAIN requests'[b] : requests'[b][i] = user[b].rom,
           \A c \in Browsers \ {b} : requests'[c] = requests[c] /\ thread'[c] = thread[c],
           \A c \in Browsers : conn'[c].content = conn[c].content,
           About(thread[b], user[b].rom)'
    PROVE  \A c \in Browsers : FirstOf(c)'
<1>1. user'[b] = user[b]
  BY DEF client
<1>2. IsAbout(b, user[b].rom)'
  BY DEF client, FirstOf, IsAbout
<1>3. FirstOf(b)'
  BY <1>2 DEF client, FirstOf
<1> QED
  BY <1>3, FirstElsewhere DEF client

\* The steps of the server that only the user's own thread is part of.
LEMMA FirstOfServer ==
    ASSUME TypeInv, NEW b \in Browsers, \A c \in Browsers : FirstOf(c),
           Dispatch(b) \/ Poll(b) \/ Lookup(b) \/ Bind(b) \/ Open(b) \/ SendChunk(b)
    PROVE  \A c \in Browsers : FirstOf(c)'
<1> DEFINE r == user[b].rom
<1>1. UNCHANGED <<client, folder>>
  BY DEF Dispatch, Poll, Lookup, Bind, Open, SendChunk, rest
<1>2. /\ thread \in [Browsers -> Threads] /\ requests \in [Browsers -> Seq(Roms)]
      /\ conn \in [Browsers -> Connections] /\ thread[b] \in Threads
      /\ requests[b] \in Seq(Roms) /\ thread[b].queue \in Seq(Roms) /\ Named(thread[b])
  BY DEF TypeInv, TypeOK, Threads, RomsAreNamed
<1>3. IsAbout(b, r) /\ About(thread[b], r)
  BY DEF FirstOf, IsAbout
<1>4. asked[b] # 0
  <2>1. requests[b] # <<>> \/ thread[b].pc # "none"
    <3>1. CASE Dispatch(b)
      <4>1. DOMAIN requests[b] # {}
        BY <3>1 DEF Dispatch
      <4> QED
        BY <4>1
    <3> QED
      BY <3>1 DEF Poll, Lookup, Bind, Open, SendChunk
  <2> QED
    BY <2>1 DEF FirstOf, Unused, NoThread
<1>5. \A c \in Browsers : conn'[c].content = conn[c].content
  <2>1. conn' = conn \/ \E p, n : conn' = [conn EXCEPT ![p].avail = n]
    BY DEF Dispatch, Poll, Lookup, Bind, Open, SendChunk, tcp
  <2> QED
    BY <1>2, <2>1, ZenonT(40) DEF Connections
<1>6. /\ \A i \in DOMAIN requests'[b] : requests'[b][i] = r
      /\ \A c \in Browsers \ {b} : requests'[c] = requests[c]
  <2>1. \A i \in DOMAIN requests[b] : requests[b][i] = r
    BY <1>3 DEF IsAbout
  <2>2. CASE Dispatch(b)
    <3>1. PICK i \in DOMAIN requests[b] : requests' = [requests EXCEPT ![b] = RemoveAt(@, i)]
      BY <2>2 DEF Dispatch
    <3>2. \A j \in DOMAIN RemoveAt(requests[b], i) :
            \E k \in DOMAIN requests[b] : RemoveAt(requests[b], i)[j] = requests[b][k]
      BY <1>2, RemoveAtFacts
    <3> QED
      BY <1>2, <2>1, <3>1, <3>2
  <2>3. CASE ~Dispatch(b)
    BY <2>1, <2>3 DEF Poll, Lookup, Bind, Open, SendChunk
  <2> QED
    BY <2>2, <2>3
<1>7. \A c \in Browsers \ {b} : thread'[c] = thread[c]
  BY <1>2 DEF Dispatch, Poll, Lookup, Bind, Open, SendChunk
<1>8. ASSUME NEW t, thread' = [thread EXCEPT ![b] = t], About(t, r)
      PROVE  About(thread[b], r)'
  BY <1>1, <1>2, <1>8 DEF About, client
<1>9. About(thread[b], r)
  BY <1>3 DEF About
<1>10. ASSUME Dispatch(b) PROVE About(thread[b], r)'
  <2>1. PICK i \in DOMAIN requests[b] :
          thread' = [thread EXCEPT ![b] =
                IF @.pc = "none" THEN [NoThread EXCEPT !.pc = "poll", !.queue = <<requests[b][i]>>]
                                 ELSE [@ EXCEPT !.queue = Append(thread[b].queue, requests[b][i])]]
    BY <1>10 DEF Dispatch
  <2>2. requests[b][i] = r /\ requests[b][i] \in Roms
    BY <1>2, <1>3 DEF IsAbout
  <2>3. CASE thread[b].pc = "none"
    <3> DEFINE t == [NoThread EXCEPT !.pc = "poll", !.queue = <<requests[b][i]>>]
    <3>1. t.pc = "poll" /\ t.queue = <<r>> /\ thread' = [thread EXCEPT ![b] = t]
      BY <1>2, <2>1, <2>2, <2>3 DEF NoThread
    <3> HIDE DEF t
    <3>2. \A j \in DOMAIN t.queue : t.queue[j] = r
      BY <3>1
    <3>3. About(t, r)
      BY <3>1, <3>2 DEF About
    <3> QED
      BY <1>8, <3>1, <3>3
  <2>4. CASE thread[b].pc # "none"
    <3> DEFINE t == [thread[b] EXCEPT !.queue = Append(thread[b].queue, requests[b][i])]
    <3>1. /\ t.pc = thread[b].pc /\ t.rom = thread[b].rom /\ t.file = thread[b].file
          /\ t.content = thread[b].content /\ t.queue = Append(thread[b].queue, requests[b][i])
          /\ thread' = [thread EXCEPT ![b] = t]
      BY <1>2, <2>1, <2>4 DEF Threads
    <3> HIDE DEF t
    <3>2. /\ DOMAIN t.queue = 1..(Len(thread[b].queue) + 1)
          /\ t.queue[Len(thread[b].queue) + 1] = r
          /\ \A j \in DOMAIN thread[b].queue : t.queue[j] = thread[b].queue[j]
          /\ DOMAIN thread[b].queue = 1..Len(thread[b].queue) /\ Len(thread[b].queue) \in Nat
      BY <1>2, <2>2, <3>1, AppendFacts
    <3>3. \A j \in DOMAIN t.queue : j \in DOMAIN thread[b].queue \/ j = Len(thread[b].queue) + 1
      BY <3>2
    <3>4. \A j \in DOMAIN t.queue : t.queue[j] = r
      BY <1>9, <3>2, <3>3 DEF About
    <3>5. About(t, r)
      BY <1>9, <3>1, <3>4 DEF About
    <3> QED
      BY <1>8, <3>1, <3>5
  <2> QED
    BY <2>3, <2>4
<1>11. ASSUME Poll(b) PROVE About(thread[b], r)'
  <2> DEFINE t == [thread[b] EXCEPT !.pc = "lookup", !.rom = Head(thread[b].queue),
                                    !.queue = Tail(thread[b].queue)]
  <2>1. /\ t.pc = "lookup" /\ t.rom = Head(thread[b].queue) /\ t.queue = Tail(thread[b].queue)
        /\ thread' = [thread EXCEPT ![b] = t] /\ thread[b].queue # <<>>
    BY <1>2, <1>11 DEF Poll, Threads
  <2> HIDE DEF t
  <2>2. /\ t.rom = thread[b].queue[1] /\ 1 \in DOMAIN thread[b].queue
        /\ \A j \in DOMAIN t.queue :
             j + 1 \in DOMAIN thread[b].queue /\ t.queue[j] = thread[b].queue[j + 1]
    BY <1>2, <2>1, TailFacts
  <2>3. About(t, r)
    BY <1>9, <2>1, <2>2 DEF About
  <2> QED
    BY <1>8, <2>1, <2>3
<1>12. ASSUME Lookup(b) PROVE About(thread[b], r)'
  <2> DEFINE file == romtable[thread[b].rom]
             held == IF file = NoRom THEN NoRom ELSE folder[file]
             t    == [thread[b] EXCEPT !.pc = IF held = thread[b].rom THEN "bind" ELSE "leaving",
                                       !.file = file]
  <2>1. thread' = [thread EXCEPT ![b] = t] /\ thread[b].pc = "lookup"
    BY <1>12 DEF Lookup
  <2>2. thread[b].rom = r /\ thread[b].rom # NoRom
    BY <1>2, <1>9, <2>1, RomDownloadAssumption DEF About, Named
  <2>3. held = thread[b].rom => folder[file] = r
    BY <2>2
  <2>4. /\ t.pc = IF held = thread[b].rom THEN "bind" ELSE "leaving"
        /\ t.rom = thread[b].rom /\ t.file = file /\ t.queue = thread[b].queue
    <3> HIDE DEF file, held
    <3> QED
      BY <1>2 DEF Threads
  <2> HIDE DEF t, held, file
  <2>5. About(t, r)
    BY <1>9, <2>1, <2>2, <2>3, <2>4 DEF About
  <2> QED
    BY <1>8, <2>1, <2>5
<1>13. ASSUME Bind(b) PROVE About(thread[b], r)'
  <2>1. PICK p \in {"open", "poll"} : thread' = [thread EXCEPT ![b] = [thread[b] EXCEPT !.pc = p]]
    BY <1>13 DEF Bind
  <2> DEFINE t == [thread[b] EXCEPT !.pc = p]
  <2>2. t.pc = p /\ t.rom = thread[b].rom /\ t.file = thread[b].file /\ t.queue = thread[b].queue
    BY <1>2 DEF Threads
  <2>3. thread[b].pc = "bind" /\ thread' = [thread EXCEPT ![b] = t]
    BY <1>13, <2>1 DEF Bind
  <2> HIDE DEF t
  <2>4. About(t, r)
    BY <1>9, <2>2, <2>3 DEF About
  <2> QED
    BY <1>8, <2>3, <2>4
<1>14. ASSUME Open(b) PROVE About(thread[b], r)'
  <2>1. thread[b].pc = "open" /\ folder[thread[b].file] = r
    BY <1>9, <1>14 DEF Open, About
  <2>2. PICK p \in {"poll", "accept"} : \E n, q :
          /\ thread' = [thread EXCEPT ![b] = [thread[b] EXCEPT !.pc = p, !.content = q, !.left = n]]
          /\ p = "accept" => q = r
    <3>1. CASE folder[thread[b].file] = NoRom
      <4>1. thread' = [thread EXCEPT ![b] = [thread[b] EXCEPT !.pc = "poll"]]
        BY <1>14, <3>1 DEF Open
      <4>2. [thread[b] EXCEPT !.pc = "poll"]
              = [thread[b] EXCEPT !.pc = "poll", !.content = thread[b].content, !.left = thread[b].left]
        BY <1>2 DEF Threads
      <4> QED
        BY <4>1, <4>2
    <3>2. CASE folder[thread[b].file] # NoRom
      BY <1>14, <2>1, <3>2 DEF Open
    <3> QED
      BY <3>1, <3>2
  <2>3. PICK n, q :
          /\ thread' = [thread EXCEPT ![b] = [thread[b] EXCEPT !.pc = p, !.content = q, !.left = n]]
          /\ p = "accept" => q = r
    BY <2>2
  <2> DEFINE t == [thread[b] EXCEPT !.pc = p, !.content = q, !.left = n]
  <2>4. t.pc = p /\ t.content = q /\ t.rom = thread[b].rom /\ t.queue = thread[b].queue
    BY <1>2 DEF Threads
  <2>5. thread' = [thread EXCEPT ![b] = t]
    BY <2>3
  <2> HIDE DEF t
  <2>6. About(t, r)
    BY <1>9, <2>1, <2>3, <2>4 DEF About
  <2> QED
    BY <1>8, <2>5, <2>6
<1>15. ASSUME SendChunk(b) PROVE About(thread[b], r)'
  <2> DEFINE t == [thread[b] EXCEPT !.left = thread[b].left - 1]
  <2>1. /\ t.pc = thread[b].pc /\ t.rom = thread[b].rom /\ t.file = thread[b].file
        /\ t.content = thread[b].content /\ t.queue = thread[b].queue
        /\ thread' = [thread EXCEPT ![b] = t]
    BY <1>2, <1>15 DEF SendChunk, Threads
  <2> HIDE DEF t
  <2>2. About(t, r)
    BY <1>9, <2>1 DEF About
  <2> QED
    BY <1>8, <2>1, <2>2
<1>16. About(thread[b], user[b].rom)'
  BY <1>10, <1>11, <1>12, <1>13, <1>14, <1>15
<1> QED
  BY <1>1, <1>4, <1>5, <1>6, <1>7, <1>16, FirstOfThread

\* The connection that a thread accepts is its own user's.
LEMMA FirstOfAccept ==
    ASSUME DownloadInv, OneDownload, NEW b \in Browsers, \A c \in Browsers : FirstOf(c), Accept(b)
    PROVE  \A c \in Browsers : FirstOf(c)'
<1>1. UNCHANGED <<client, requests, folder>> /\ thread[b].pc = "accept" /\ backlog # <<>>
  BY DEF Accept, rest
<1>2. /\ thread \in [Browsers -> Threads] /\ conn \in [Browsers -> Connections]
      /\ backlog \in Seq(SomeOne) /\ thread[b] \in Threads /\ asked \in [Browsers -> Nat]
  BY DEF DownloadInv, TypeInv, TypeOK
<1>3. IsAbout(b, user[b].rom) /\ About(thread[b], user[b].rom) /\ asked[b] # 0
  BY <1>1 DEF FirstOf, IsAbout, Unused, NoThread
<1>4. PICK d \in SomeOne : d = Head(backlog) /\ d = backlog[1] /\ 1 \in DOMAIN backlog
  BY <1>1, <1>2, TailFacts
<1>5. d \in {b, NoOne}
  <2>1. ASSUME d \in Browsers PROVE d = b
    <3>1. conn[d].state = "backlog"
      BY <1>4, <2>1 DEF DownloadInv, PiecesInv, Waits
    <3>2. dl[d].active
      BY <2>1, <3>1 DEF DownloadInv, PiecesInv, Inactive, NoConnection
    <3>3. asked[d] # 0
      BY <2>1, <3>2 DEF FirstOf, Unused, NoDownload
    <3>4. asked[d] = 1 /\ asked[b] = 1
      BY <1>2, <1>3, <2>1, <3>3 DEF OneDownload
    <3> QED
      BY <2>1, <3>4 DEF OneDownload
  <2> QED
    BY <2>1 DEF SomeOne
<1>6. PICK t : t = [thread[b] EXCEPT !.pc = "sending", !.peer = Head(backlog)]
  OBVIOUS
<1>7. thread' = [thread EXCEPT ![b] = t]
  BY <1>6 DEF Accept
<1>8. /\ t.pc = "sending" /\ t.rom = thread[b].rom /\ t.queue = thread[b].queue
      /\ t.content = thread[b].content
  BY <1>2, <1>6 DEF Threads
<1>9. thread'[b] = t /\ \A c \in Browsers \ {b} : thread'[c] = thread[c]
  BY <1>2, <1>7
<1>10. About(thread[b], user[b].rom)'
  BY <1>1, <1>3, <1>8, <1>9 DEF About, client
<1>11. /\ conn'[b].content \in {NoRom, user[b].rom}
       /\ \A c \in Browsers \ {b} : conn'[c] = conn[c]
  <2>1. thread[b].content = user[b].rom
    BY <1>1, <1>3 DEF About
  <2>2. \/ conn' = conn
        \/ conn' = [conn EXCEPT ![d] = [state |-> "open", server |-> b,
                                        content |-> thread[b].content, avail |-> 0]] /\ d = b
    BY <1>4, <1>5 DEF Accept
  <2> QED
    BY <1>2, <1>3, <2>1, <2>2 DEF IsAbout
<1>12. IsAbout(b, user[b].rom)'
  BY <1>1, <1>3, <1>10, <1>11 DEF IsAbout, client
<1>13. FirstOf(b)'
  BY <1>1, <1>3, <1>12 DEF FirstOf, client
<1> QED
  BY <1>1, <1>9, <1>11, <1>13, FirstElsewhere DEF client

\* Connections are closed, threads end, datagrams are lost.
LEMMA FirstOfClose ==
    ASSUME TypeInv, \A c \in Browsers : FirstOf(c),
           Collect \/ \E b \in Browsers : Finish(b) \/ Exit(b) \/ Lose(b)
    PROVE  \A c \in Browsers : FirstOf(c)'
<1>1. UNCHANGED <<client, folder>>
  BY DEF Collect, Finish, Exit, Lose, rest
<1>2. /\ thread \in [Browsers -> Threads] /\ conn \in [Browsers -> Connections]
      /\ requests \in [Browsers -> Seq(Roms)]
  BY DEF TypeInv, TypeOK
<1>3. \A c \in Browsers : conn'[c].content = conn[c].content
  <2>1. conn' = conn \/ conn' = [c \in Browsers |-> Closed(conn[c])]
    BY DEF Collect, Finish, Exit, Lose, tcp
  <2>2. \A c \in Connections : Closed(c).content = c.content
    BY DEF Closed, Connections
  <2> QED
    BY <1>2, <2>1, <2>2
<1>4. ASSUME NEW c \in Browsers
      PROVE  requests'[c] = requests[c] \/ /\ requests[c] # <<>>
                                           /\ \A j \in DOMAIN requests'[c] :
                                                \E k \in DOMAIN requests[c] : requests'[c][j] = requests[c][k]
  <2>1. requests' = requests \/ \E b \in Browsers : \E i \in DOMAIN requests[b] :
                                  requests' = [requests EXCEPT ![b] = RemoveAt(@, i)]
    BY DEF Collect, Finish, Exit, Lose
  <2>2. ASSUME NEW b \in Browsers, NEW i \in DOMAIN requests[b]
        PROVE  \A j \in DOMAIN RemoveAt(requests[b], i) :
                 \E k \in DOMAIN requests[b] : RemoveAt(requests[b], i)[j] = requests[b][k]
    <3>1. requests[b] \in Seq(Roms)
      BY <1>2
    <3> QED
      BY <3>1, RemoveAtFacts
  <2>3. ASSUME NEW i \in DOMAIN requests[c] PROVE requests[c] # <<>>
    OBVIOUS
  <2> QED
    BY <1>2, <2>1, <2>2, <2>3
<1>5. ASSUME NEW c \in Browsers
      PROVE  \/ thread'[c] = thread[c] \/ thread'[c] = NoThread
             \/ /\ thread[c].pc = "sending" /\ thread'[c].pc = "leaving"
                /\ thread'[c].queue = thread[c].queue
  <2>1. \/ thread' = thread
        \/ \E b \in Browsers : thread' = [thread EXCEPT ![b] = NoThread]
        \/ \E b \in Browsers : /\ thread[b].pc = "sending"
                               /\ thread' = [thread EXCEPT ![b].pc = "leaving"]
    BY DEF Collect, Finish, Exit, Lose, server
  <2> QED
    BY <1>2, <2>1 DEF Threads
<1>6. DOMAIN <<>> = {}
  OBVIOUS
<1>7. ASSUME NEW c \in Browsers PROVE FirstOf(c)'
  <2>1. IsAbout(c, user[c].rom)
    BY DEF FirstOf
  <2>2. \A j \in DOMAIN requests'[c] : requests'[c][j] = user[c].rom
    BY <1>4, <2>1 DEF IsAbout
  <2>3. About(thread[c], user[c].rom)'
    BY <1>1, <1>5, <1>6, <2>1 DEF IsAbout, About, NoThread, client
  <2>4. IsAbout(c, user[c].rom)'
    BY <1>1, <1>3, <2>1, <2>2, <2>3 DEF IsAbout, client
  <2>5. asked[c] = 0 => Unused(c)'
    <3>1. ASSUME Unused(c) PROVE Unused(c)'
      <4>1. requests'[c] = requests[c]
        BY <1>4, <3>1 DEF Unused
      <4>2. thread'[c] = NoThread
        BY <1>5, <3>1 DEF Unused, NoThread
      <4> QED
        BY <1>1, <1>3, <3>1, <4>1, <4>2 DEF Unused, client
    <3> QED
      BY <3>1 DEF FirstOf
  <2> QED
    BY <1>1, <2>4, <2>5 DEF FirstOf, client
<1> QED
  BY <1>7

\* The owner leaves the folder alone while a thread is about to open a file.
LEMMA FirstOfEdit ==
    ASSUME \A c \in Browsers : FirstOf(c), env.quiet, EditFolder
    PROVE  \A c \in Browsers : FirstOf(c)'
<1>1. UNCHANGED <<client, requests, thread, conn>> /\ \A c \in Browsers : thread[c].pc \notin {"bind", "open"}
  BY DEF EditFolder, server, tcp
<1>2. ASSUME NEW c \in Browsers PROVE About(thread[c], user[c].rom)'
  BY <1>1 DEF FirstOf, IsAbout, About, client
<1> QED
  BY <1>1, <1>2 DEF FirstOf, Unused, IsAbout, client

\* What one user asks for stays the only thing that is asked for.
LEMMA FirstStep ==
    ASSUME DownloadInv, FirstInv, [Next]_vars
    PROVE  FirstInv'
<1>1. SUFFICES ASSUME env'.quiet, env'.cancellers = {}, OneDownload'
               PROVE  \A c \in Browsers : FirstOf(c)'
  BY DEF FirstInv
<1>2. TypeInv
  BY DEF DownloadInv
<1>3. env'.quiet = env.quiet /\ env'.cancellers = env.cancellers
  <2>1. env' = env \/ \E n : env' = [env EXCEPT !.edits = n]
    BY DEF Next, User, Finder, Master, vars, rest, RequestDownload, Cancel, PostRequest, Join,
           HandleMainInput, HandleReply, FileDownload, ReadChunk, Dispatch, Poll, Lookup, Bind, Open, Accept,
           SendChunk, Finish, Exit, Lose, Collect, EditFolder
  <2>2. env \in [cancellers: SUBSET Browsers, requests: [Browsers -> Nat],
                 loses: BOOLEAN, edits: Nat, quiet: BOOLEAN]
    BY <1>2 DEF TypeInv, TypeOK
  <2>3. \A n : /\ [env EXCEPT !.edits = n].quiet = env.quiet
               /\ [env EXCEPT !.edits = n].cancellers = env.cancellers
    BY <2>2
  <2> QED
    BY <2>1, <2>3
<1>4. \A c \in Browsers : asked[c] \in Nat /\ asked'[c] \in Nat /\ asked[c] <= asked'[c]
  <2>1. asked' = asked \/ \E b \in Browsers : asked' = [asked EXCEPT ![b] = @ + 1]
    BY ZenonT(40) DEF Next, User, Finder, Master, vars, client, RequestDownload, Cancel, PostRequest, Join,
           HandleMainInput, HandleReply, FileDownload, ReadChunk, Dispatch, Poll, Lookup, Bind, Open, Accept,
           SendChunk, Finish, Exit, Lose, Collect, EditFolder
  <2>2. asked \in [Browsers -> Nat]
    BY <1>2 DEF TypeInv, TypeOK
  <2>3. CASE asked' = asked
    BY <2>2, <2>3
  <2>4. ASSUME NEW b \in Browsers, asked' = [asked EXCEPT ![b] = @ + 1]
        PROVE  \A c \in Browsers : asked[c] \in Nat /\ asked'[c] \in Nat /\ asked[c] <= asked'[c]
    BY <2>2, <2>4
  <2> QED
    BY <2>1, <2>3, <2>4
<1>5. OneDownload
  <2>1. \A c \in Browsers : asked'[c] <= 1
    BY <1>1 DEF OneDownload
  <2>2. \A c \in Browsers : asked[c] <= 1 /\ (asked[c] = 1 => asked'[c] = 1)
    BY <1>4, <2>1
  <2> QED
    BY <1>1, <2>2 DEF OneDownload
<1>6. \A c \in Browsers : FirstOf(c)
  BY <1>1, <1>3, <1>5 DEF FirstInv
<1>7. CASE UNCHANGED vars
  BY <1>6, <1>7 DEF vars, client, server, tcp, rest, FirstOf, Unused, IsAbout, About
<1>8. CASE Collect
  BY <1>2, <1>6, <1>8, FirstOfClose
<1>9. CASE EditFolder
  BY <1>1, <1>3, <1>6, <1>9, FirstOfEdit
<1>10. ASSUME NEW b \in Browsers, User(b) PROVE \A c \in Browsers : FirstOf(c)'
  <2>1. CASE RequestDownload(b)
    <3>1. asked'[b] <= 1
      BY <1>1 DEF OneDownload
    <3> QED
      BY <1>2, <1>6, <2>1, <3>1, FirstRequest
  <2>2. CASE Cancel(b)
    BY <1>1, <1>3, <2>2 DEF Cancel
  <2> QED
    BY <1>10, <2>1, <2>2 DEF User
<1>11. ASSUME NEW b \in Browsers, Finder(b) PROVE \A c \in Browsers : FirstOf(c)'
  BY <1>2, <1>6, <1>11, FirstOfUser, FirstOfFinder, FirstOfDownload DEF Finder
<1>12. ASSUME NEW b \in Browsers, Dispatch(b) \/ Master(b) \/ Lose(b)
       PROVE  \A c \in Browsers : FirstOf(c)'
  BY <1>2, <1>5, <1>6, <1>12, FirstOfServer, FirstOfAccept, FirstOfClose DEF Master
<1> QED
  BY <1>7, <1>8, <1>9, <1>10, <1>11, <1>12 DEF Next

\* If one user alone starts one download, does not cancel it, and the folder is left alone
\* while a thread is about to open a file, then the file that is saved has the hash that
\* was asked for (ClientConnectionThread.java, DownloadROM; romdownloader.cpp, FileDownload).
THEOREM DownloadIsRight == Spec => []FirstRomRight
<1>1. Init => FirstInv
  <2>1. DOMAIN <<>> = {}
    OBVIOUS
  <2> QED
    BY <2>1 DEF Init, FirstInv, FirstOf, Unused, IsAbout, About, Idle, NoDownload, NoConnection, NoThread
<1>2. FirstInv /\ DownloadInv /\ [Next]_vars => FirstInv'
  BY FirstStep
<1>3. FirstInv => FirstRomRight
  BY DEF FirstInv, FirstOf, IsAbout, OneDownload, FirstRomRight, RightRom
<1> QED
  BY <1>1, <1>2, <1>3, DownloadInvariant, PTL DEF Spec
=============================================================================
