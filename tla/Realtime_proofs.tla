--------------------------- MODULE Realtime_proofs ---------------------------
(***************************************************************************)
(* In every environment and for any clients: what the client's window does *)
(* with its cart and its threads, who owns the slots of the Realtime       *)
(* server's room, the types of all that is on its way, and the handshake   *)
(* of a first try, no packet of which is lost or mistaken for another;     *)
(* what an N64 knows, or will know when it has read all that is on its     *)
(* way, of itself and of who is there; and the line in which its inputs    *)
(* wait, from its write buffer to the server's game thread.                *)
(***************************************************************************)
EXTENDS Realtime, SequenceFacts, FiniteSetTheorems

-----------------------------------------------------------------------------
(* The windows *)

\* What a window's invariant reads.
work == <<device, rompath, upload, input, status, events, asked, uploads>>

\* The steps of a window that change any of it.
WindowStep(c) ==
    \/ BeginWorking(c) \/ ThreadEvent(c) \/ Click(c)
    \/ FindCart(c) \/ LoseCart(c) \/ LeaveLoop(c) \/ DeviceEnds(c)
    \/ StartUpload(c) \/ SendROM(c, "complete") \/ SendROM(c, "failed") \/ UploadEnds(c)
    \/ UploadOver(c) \/ InterruptUpload(c) \/ JoinUpload(c) \/ HandleMainInput(c)

DevicePlaces == {"none", "starting", "loop", "upload", "joining", "dying", "dead"}
Messages     == {"LOADROM", "CANCELLOAD"}
Statuses     == {"IDLE", "UPLOADING", "DEAD"}

WindowTypes ==
    /\ device \in [Clients -> DevicePlaces]
    /\ rompath \in [Clients -> BOOLEAN]
    /\ upload \in [Clients -> {"none", "sending", "complete", "sent", "failed"}]
    /\ input \in [Clients -> Seq(Messages)]
    /\ status \in [Clients -> Statuses]
    /\ events \in [Clients -> Seq(Statuses)]
    /\ asked \in [Clients -> Nat] /\ uploads \in [Clients -> Nat]

\* A transfer that will start: the path is set and not yet used.
Pending(c) == IF rompath[c] /\ device[c] # "upload" THEN 1 ELSE 0

\* A transfer that will be asked for when the device thread reads its messages.
Posted(c) == IF Told(c, "LOADROM") THEN 1 ELSE 0

\* Every transfer, started, pending or posted, was asked for by a LOADROM of its own.
LoadsAccounted == \A c \in Clients : uploads[c] + Pending(c) + Posted(c) <= asked[c]

\* The last event on its way says what the device thread does now; if there is none,
\* the interface knows.
LastEventIsRight ==
    \A c \in Clients :
        IF events[c] = <<>> THEN status[c] = Reported(c)
                            ELSE events[c][Len(events[c])] = Reported(c)

WindowInv == WindowTypes /\ CartHasOneUser /\ LoadsAccounted /\ LastEventIsRight

\* A step of the system is one of a window, or does not concern the windows.
LEMMA WindowSteps ==
    ASSUME [Next]_vars
    PROVE  UNCHANGED work \/ \E c \in Clients : WindowStep(c)
<1>1. CASE UNCHANGED vars
  BY <1>1 DEF vars, window, work
<1>2. CASE GameThread
  BY <1>2 DEF GameThread, DoUpdate, SendUpdates, window, work
<1>3. ASSUME NEW c \in Clients,
             N64(c) \/ Boot(c) \/ SendInputs(c) \/ LoseServer(c) \/ Retry(c) \/ RelayUp(c)
      PROVE  UNCHANGED work
  <2>1. CASE N64(c)
    BY <2>1 DEF N64, EnterInit, InitStage, RequestClock, DoneSync, Callback, PollEnds, window, work
  <2>2. CASE ~N64(c)
    BY <1>3, <2>2 DEF Boot, SendInputs, LoseServer, Retry, InitStage, RelayUp, window, work
  <2> QED
    BY <2>1, <2>2
<1>4. ASSUME NEW c \in Clients, ServerThread(c) \/ SendHeartbeat(c) \/ TimeOut(c)
      PROVE  UNCHANGED work
  BY <1>4 DEF ServerThread, SendHeartbeat, TimeOut, HandleConnect, HandleSync, HandleDone, SetNumber,
              Introduce, HandleUnexpected, HandleNothing, HandleInput, SendMessages,
              DisconnectPlayer, Send, window, work
<1>5. ASSUME NEW c \in Clients, Interface(c) \/ Unplug(c) \/ User(c)
      PROVE  UNCHANGED work \/ WindowStep(c)
  BY <1>5 DEF Interface, Unplug, User, RelayStops, Close, WindowStep, work
<1>6. ASSUME NEW c \in Clients, DeviceThread(c) \/ UploadThread(c)
      PROVE  UNCHANGED work \/ WindowStep(c)
  BY <1>6 DEF DeviceThread, UploadThread, Upload, ReceiveUSB, SendUSB, WindowStep, work
<1> QED
  BY <1>1, <1>2, <1>3, <1>4, <1>5, <1>6 DEF Next

\* Windows begin with nothing to do, or with one ROM asked for and loaded.
LEMMA WindowInitially == Init => WindowInv
<1> SUFFICES ASSUME Init PROVE WindowInv
  OBVIOUS
<1>1. WindowInit \/ Started
  BY DEF Init
<1>2. CASE WindowInit
  BY <1>2 DEF WindowInit, WindowInv, WindowTypes, DevicePlaces, Messages, Statuses,
              CartHasOneUser, Uploading, LoadsAccounted, LastEventIsRight, Pending, Posted, Told, Reported
<1>3. CASE Started
  BY <1>3 DEF Started, WindowInv, WindowTypes, DevicePlaces, Messages, Statuses,
              CartHasOneUser, Uploading, LoadsAccounted, LastEventIsRight, Pending, Posted, Told, Reported
<1> QED
  BY <1>1, <1>2, <1>3
\* What is in a queue when a message has been added.
LEMMA Appending ==
    ASSUME NEW S, NEW s \in Seq(S), NEW m \in S
    PROVE  /\ Append(s, m) \in Seq(S)
           /\ Append(s, m) # <<>>
           /\ Append(s, m)[Len(Append(s, m))] = m
           /\ \A x : (\E i \in 1..Len(Append(s, m)) : Append(s, m)[i] = x)
                     => x = m \/ \E i \in 1..Len(s) : s[i] = x
<1>1. Len(Append(s, m)) = Len(s) + 1 /\ Len(s) \in Nat
  OBVIOUS
<1>2. Append(s, m)[Len(s) + 1] = m /\ \A i \in 1..Len(s) : Append(s, m)[i] = s[i]
  OBVIOUS
<1>3. \A i \in 1..Len(s) + 1 : i \in 1..Len(s) \/ i = Len(s) + 1
  BY <1>1
<1>4. Append(s, m) # <<>>
  BY <1>1
<1> QED
  BY <1>1, <1>2, <1>3, <1>4

\* What is in a queue when its first message has been taken: the last stays the last.
LEMMA Dequeuing ==
    ASSUME NEW S, NEW s \in Seq(S), s # <<>>
    PROVE  /\ Head(s) \in S /\ Tail(s) \in Seq(S)
           /\ Tail(s) # <<>> => Tail(s)[Len(Tail(s))] = s[Len(s)]
           /\ Tail(s) = <<>> => Head(s) = s[Len(s)]
<1>1. Len(s) \in Nat \ {0} /\ Head(s) = s[1] /\ s[1] \in S
  OBVIOUS
<1>2. Tail(s) \in Seq(S) /\ Len(Tail(s)) = Len(s) - 1
  BY <1>1
<1>3. Tail(s) # <<>> => Len(Tail(s)) \in Nat \ {0}
  BY <1>2
<1>4. \A i \in 1..Len(s) - 1 : Tail(s)[i] = s[i + 1]
  BY <1>1
<1>5. Tail(s) # <<>> => Tail(s)[Len(Tail(s))] = s[Len(s)]
  BY <1>1, <1>2, <1>3, <1>4
<1>6. Tail(s) = <<>> => Len(s) = 1
  BY <1>1, <1>2
<1> QED
  BY <1>1, <1>2, <1>5, <1>6

\* What posting a message to a queue does.
LEMMA Posting ==
    ASSUME NEW S, NEW queue \in [Clients -> Seq(S)], NEW c \in Clients, NEW m \in S
    PROVE  Post(queue, c, m) \in [Clients -> Seq(S)]
  BY DEF Post

\* The types of what a new device thread sets.
LEMMA Starting ==
    ASSUME WindowTypes, NEW c \in Clients, NewDeviceThread(c)
    PROVE  /\ device' \in [Clients -> DevicePlaces]
           /\ rompath' \in [Clients -> BOOLEAN]
           /\ events' \in [Clients -> Seq(Statuses)]
<1>1. device' \in [Clients -> DevicePlaces] /\ rompath' \in [Clients -> BOOLEAN]
  BY DEF NewDeviceThread, WindowTypes, DevicePlaces
<1>2. events \in [Clients -> Seq(Statuses)] /\ "IDLE" \in Statuses
  BY DEF WindowTypes, Statuses
<1>3. Post(events, c, "IDLE") \in [Clients -> Seq(Statuses)]
  BY <1>2, Posting
<1> QED
  BY <1>1, <1>3 DEF NewDeviceThread

\* The types of what a change of the device thread's place sets.
LEMMA Becoming ==
    ASSUME WindowTypes, NEW c \in Clients, NEW p \in DevicePlaces, NEW s \in Statuses,
           Becomes(c, p, s)
    PROVE  /\ device' \in [Clients -> DevicePlaces]
           /\ events' \in [Clients -> Seq(Statuses)]
<1>1. device' \in [Clients -> DevicePlaces]
  BY DEF Becomes, WindowTypes
<1>2. events \in [Clients -> Seq(Statuses)]
  BY DEF WindowTypes
<1>3. Post(events, c, s) \in [Clients -> Seq(Statuses)]
  BY <1>2, Posting
<1> QED
  BY <1>1, <1>3 DEF Becomes

\* Posting to the device thread keeps the type of its messages.
LEMMA Loading ==
    ASSUME WindowTypes, NEW c \in Clients, NEW m \in Messages
    PROVE  Post(input, c, m) \in [Clients -> Seq(Messages)]
<1>1. input \in [Clients -> Seq(Messages)]
  BY DEF WindowTypes
<1> QED
  BY <1>1, Posting

\* A step of a window keeps its types.
LEMMA TypesKept ==
    ASSUME WindowTypes, NEW c \in Clients, WindowStep(c)
    PROVE  WindowTypes'
<1>0. asked \in [Clients -> Nat] /\ uploads \in [Clients -> Nat]
  BY DEF WindowTypes
<1>i. input \in [Clients -> Seq(Messages)]
  BY DEF WindowTypes
<1>1. CASE BeginWorking(c)
  <2>1. input' \in [Clients -> Seq(Messages)]
    BY <1>1, Loading DEF BeginWorking, LoadROM, Messages
  <2>2. asked' \in [Clients -> Nat]
    BY <1>0, <1>1 DEF BeginWorking, LoadROM
  <2>3. /\ device' \in [Clients -> DevicePlaces] /\ rompath' \in [Clients -> BOOLEAN]
        /\ events' \in [Clients -> Seq(Statuses)]
    BY <1>1, Starting DEF BeginWorking
  <2> QED
    BY <1>1, <2>1, <2>2, <2>3 DEF BeginWorking, WindowTypes, Messages, Statuses
<1>2. CASE Click(c)
  <2>1. input' \in [Clients -> Seq(Messages)]
    BY <1>2, Loading DEF Click, LoadROM, Messages
  <2>2. asked' \in [Clients -> Nat]
    <3>1. \E k \in Nat : asked' = [asked EXCEPT ![c] = k]
      BY <1>0, <1>2 DEF Click, LoadROM
    <3> QED
      BY <1>0, <3>1
  <2>3. NewDeviceThread(c) \/ UNCHANGED <<device, rompath, events>>
    BY <1>2 DEF Click, StartThread
  <2>4. /\ device' \in [Clients -> DevicePlaces] /\ rompath' \in [Clients -> BOOLEAN]
        /\ events' \in [Clients -> Seq(Statuses)]
    BY <2>3, Starting DEF WindowTypes, Statuses
  <2> QED
    BY <1>2, <2>1, <2>2, <2>4 DEF Click, WindowTypes, Messages, Statuses
<1>3. CASE ThreadEvent(c)
  <2>1. events[c] # <<>> /\ events[c] \in Seq(Statuses)
    BY <1>3 DEF ThreadEvent, WindowTypes, Statuses
  <2>2. Head(events[c]) \in Statuses /\ Tail(events[c]) \in Seq(Statuses)
    BY <2>1
  <2> QED
    BY <1>3, <2>2 DEF ThreadEvent, WindowTypes, Statuses
<1>4. CASE LoseCart(c) \/ LeaveLoop(c) \/ StartUpload(c) \/ JoinUpload(c)
  <2>1. \E p \in DevicePlaces, s \in Statuses : Becomes(c, p, s)
    BY <1>4 DEF LoseCart, LeaveLoop, StartUpload, JoinUpload, DevicePlaces, Statuses
  <2>2. device' \in [Clients -> DevicePlaces] /\ events' \in [Clients -> Seq(Statuses)]
    BY <2>1, Becoming
  <2>3. UNCHANGED <<rompath, input, status, asked>>
    BY <1>4 DEF LoseCart, LeaveLoop, StartUpload, JoinUpload
  <2>4. \E r \in {"sending", "none"} : upload' = [upload EXCEPT ![c] = r] \/ upload' = upload
    BY <1>4 DEF LoseCart, LeaveLoop, StartUpload, JoinUpload
  <2>5. upload' \in [Clients -> {"none", "sending", "complete", "sent", "failed"}]
    BY <2>4 DEF WindowTypes
  <2>6. uploads' = [uploads EXCEPT ![c] = @ + 1] \/ uploads' = uploads
    BY <1>4 DEF LoseCart, LeaveLoop, StartUpload, JoinUpload
  <2>7. uploads' \in [Clients -> Nat]
    BY <1>0, <2>6
  <2> QED
    BY <2>2, <2>3, <2>5, <2>7 DEF WindowTypes, Statuses
<1>5. CASE FindCart(c) \/ DeviceEnds(c) \/ SendROM(c, "complete") \/ SendROM(c, "failed") \/ UploadEnds(c)
  BY <1>5 DEF FindCart, DeviceEnds, SendROM, UploadEnds, WindowTypes, DevicePlaces
<1>6. CASE UploadOver(c) \/ InterruptUpload(c) \/ HandleMainInput(c)
  <2>1. input' = [input EXCEPT ![c] = <<>>] \/ input' = input
    BY <1>6 DEF UploadOver, InterruptUpload, HandleMainInput
  <2>2. device' = [device EXCEPT ![c] = "joining"] \/ device' = device
    BY <1>6 DEF UploadOver, InterruptUpload, HandleMainInput, LeaveUpload
  <2>3. \E b \in BOOLEAN : rompath' = [rompath EXCEPT ![c] = b]
    BY <1>6 DEF UploadOver, InterruptUpload, HandleMainInput, LeaveUpload, Told
  <2>4. UNCHANGED <<upload, status, events, asked, uploads>>
    BY <1>6 DEF UploadOver, InterruptUpload, HandleMainInput, LeaveUpload
  <2>5. input' \in [Clients -> Seq(Messages)]
    <3>1. <<>> \in Seq(Messages)
      OBVIOUS
    <3> QED
      BY <1>i, <2>1, <3>1
  <2>6. device' \in [Clients -> DevicePlaces]
    BY <2>2 DEF WindowTypes, DevicePlaces
  <2>7. rompath \in [Clients -> BOOLEAN]
    BY DEF WindowTypes
  <2>8. rompath' \in [Clients -> BOOLEAN]
    BY <2>3, <2>7
  <2> QED
    BY <2>4, <2>5, <2>6, <2>8 DEF WindowTypes, Messages
<1> QED
  BY <1>1, <1>2, <1>3, <1>4, <1>5, <1>6 DEF WindowStep
\* A step of a window leaves the other windows alone.
LEMMA Elsewhere ==
    ASSUME WindowTypes, NEW c \in Clients, WindowStep(c), NEW d \in Clients, d # c
    PROVE  /\ device'[d] = device[d] /\ rompath'[d] = rompath[d] /\ upload'[d] = upload[d]
           /\ input'[d] = input[d] /\ status'[d] = status[d] /\ events'[d] = events[d]
           /\ asked'[d] = asked[d] /\ uploads'[d] = uploads[d]
<1>1. CASE BeginWorking(c) \/ Click(c) \/ ThreadEvent(c)
  BY <1>1 DEF BeginWorking, Click, ThreadEvent, StartThread, NewDeviceThread, LoadROM, Post,
              WindowTypes
<1>2. CASE FindCart(c) \/ LoseCart(c) \/ LeaveLoop(c) \/ DeviceEnds(c) \/ StartUpload(c)
  BY <1>2 DEF FindCart, LoseCart, LeaveLoop, DeviceEnds, StartUpload, Becomes, Post, WindowTypes
<1>3. CASE \/ SendROM(c, "complete") \/ SendROM(c, "failed") \/ UploadEnds(c) \/ UploadOver(c) \/ InterruptUpload(c)
           \/ JoinUpload(c) \/ HandleMainInput(c)
  BY <1>3 DEF SendROM, UploadEnds, UploadOver, InterruptUpload, JoinUpload, HandleMainInput, LeaveUpload,
              Becomes, Post, WindowTypes
<1> QED
  BY <1>1, <1>2, <1>3 DEF WindowStep

\* The cart still has one user.
LEMMA CartKept ==
    ASSUME WindowTypes, CartHasOneUser, NEW c \in Clients, WindowStep(c)
    PROVE  CartHasOneUser'
<1>1. /\ upload[c] \in Uploading => device[c] \in {"upload", "joining"}
      /\ device \in [Clients -> DevicePlaces]
      /\ upload \in [Clients -> {"none", "sending", "complete", "sent", "failed"}]
  BY DEF WindowTypes, CartHasOneUser
<1>2. upload'[c] \in Uploading => device'[c] \in {"upload", "joining"}
  <2>1. CASE BeginWorking(c) \/ Click(c) \/ ThreadEvent(c)
    <3>1. UNCHANGED upload /\ (UNCHANGED device \/ device[c] \in {"none", "dead"})
      BY <2>1 DEF BeginWorking, Click, ThreadEvent, StartThread
    <3> QED
      BY <1>1, <3>1
  <2>2. CASE FindCart(c) \/ LoseCart(c) \/ LeaveLoop(c) \/ DeviceEnds(c) \/ HandleMainInput(c)
    <3>1. UNCHANGED upload /\ device[c] \in {"starting", "loop", "dying"}
      BY <2>2 DEF FindCart, LoseCart, LeaveLoop, DeviceEnds, HandleMainInput
    <3> QED
      BY <1>1, <3>1
  <2>3. CASE StartUpload(c) \/ UploadOver(c) \/ InterruptUpload(c)
    <3>1. device'[c] \in {"upload", "joining"}
      BY <1>1, <2>3 DEF StartUpload, UploadOver, InterruptUpload, LeaveUpload, Becomes
    <3> QED
      BY <3>1
  <2>4. CASE SendROM(c, "complete") \/ SendROM(c, "failed") \/ UploadEnds(c) \/ JoinUpload(c)
    <3>1. /\ upload'[c] \in Uploading => upload[c] \in Uploading
          /\ upload'[c] \in Uploading => device' = device
      BY <1>1, <2>4 DEF SendROM, UploadEnds, JoinUpload, Uploading
    <3> QED
      BY <1>1, <3>1
  <2> QED
    BY <2>1, <2>2, <2>3, <2>4 DEF WindowStep
<1>3. \A d \in Clients \ {c} : device'[d] = device[d] /\ upload'[d] = upload[d]
  BY Elsewhere
<1> QED
  BY <1>2, <1>3 DEF CartHasOneUser

\* Posting LOADROM, or another message.
LEMMA Asking ==
    ASSUME WindowTypes, NEW c \in Clients, NEW m \in Messages, input' = Post(input, c, m)
    PROVE  \A x : Told(c, x)' => x = m \/ Told(c, x)
<1>1. input[c] \in Seq(Messages)
  BY DEF WindowTypes
<1>2. input'[c] = Append(input[c], m)
  BY DEF Post, WindowTypes
<1> QED
  BY <1>1, <1>2, Appending DEF Told

\* Every transfer is still accounted for.
LEMMA LoadsKept ==
    ASSUME WindowTypes, LoadsAccounted, NEW c \in Clients, WindowStep(c)
    PROVE  LoadsAccounted'
<1>1. uploads[c] + Pending(c) + Posted(c) <= asked[c]
  BY DEF LoadsAccounted
<1>2. /\ uploads \in [Clients -> Nat] /\ asked \in [Clients -> Nat]
      /\ rompath \in [Clients -> BOOLEAN] /\ device \in [Clients -> DevicePlaces]
      /\ input \in [Clients -> Seq(Messages)]
  BY DEF WindowTypes
<1>3. ASSUME NewDeviceThread(c) PROVE ~rompath'[c]
  BY <1>2, <1>3 DEF NewDeviceThread
<1>4. ASSUME LoadROM(c) PROVE asked'[c] = asked[c] + 1
  BY <1>2, <1>4 DEF LoadROM
<1>5. uploads'[c] + Pending(c)' + Posted(c)' <= asked'[c]
  <2>1. CASE BeginWorking(c)
    BY <1>1, <1>2, <1>3, <1>4, <2>1 DEF BeginWorking, Pending, Posted
  <2>2. CASE Click(c) /\ LoadROM(c)
    <3>1. NewDeviceThread(c) \/ UNCHANGED <<device, rompath>>
      BY <2>2 DEF Click, StartThread
    <3> QED
      BY <1>1, <1>2, <1>3, <1>4, <2>2, <3>1 DEF Click, Pending, Posted
  <2>3. CASE Click(c) /\ ~LoadROM(c)
    <3>1. NewDeviceThread(c) \/ UNCHANGED <<device, rompath>>
      BY <2>3 DEF Click, StartThread
    <3>2. input' = Post(input, c, "CANCELLOAD") /\ asked' = asked /\ uploads' = uploads
      BY <2>3 DEF Click
    <3>3. Told(c, "LOADROM")' => Told(c, "LOADROM")
      BY <3>2, Asking DEF Messages
    <3> QED
      BY <1>1, <1>2, <1>3, <3>1, <3>2, <3>3 DEF Pending, Posted
  <2>4. CASE ThreadEvent(c) \/ SendROM(c, "complete") \/ SendROM(c, "failed") \/ UploadEnds(c)
    BY <1>1, <2>4 DEF ThreadEvent, SendROM, UploadEnds, Pending, Posted, Told
  <2>5. CASE FindCart(c) \/ LoseCart(c) \/ LeaveLoop(c) \/ DeviceEnds(c) \/ JoinUpload(c)
    <3>1. UNCHANGED <<rompath, input, asked, uploads>> /\ device[c] # "upload"
      BY <2>5 DEF FindCart, LoseCart, LeaveLoop, DeviceEnds, JoinUpload
    <3> QED
      BY <1>1, <1>2, <3>1 DEF Pending, Posted, Told
  <2>6. CASE StartUpload(c)
    <3>1. /\ Pending(c) = 1 /\ Pending(c)' = 0
          /\ uploads'[c] = uploads[c] + 1 /\ UNCHANGED <<input, asked>>
      BY <1>2, <2>6 DEF StartUpload, Becomes, Pending
    <3> QED
      BY <1>1, <1>2, <3>1 DEF Posted, Told
  <2>7. CASE UploadOver(c) \/ InterruptUpload(c)
    <3>1. /\ Pending(c) = 0 /\ Pending(c)' = 0 /\ UNCHANGED <<asked, uploads>>
      BY <1>2, <2>7 DEF UploadOver, InterruptUpload, LeaveUpload, Pending
    <3>2. input'[c] = input[c] \/ input'[c] = <<>>
      BY <1>2, <2>7 DEF UploadOver, InterruptUpload
    <3>3. Told(c, "LOADROM")' => Told(c, "LOADROM")
      BY <3>2 DEF Told
    <3> QED
      BY <1>1, <1>2, <3>1, <3>3 DEF Posted
  <2>8. CASE HandleMainInput(c)
    <3>1. /\ Pending(c) = 0 /\ UNCHANGED <<device, asked, uploads>> /\ device[c] = "loop"
          /\ input'[c] = <<>> /\ rompath'[c] = Told(c, "LOADROM")
      BY <1>2, <2>8 DEF HandleMainInput, Pending
    <3>2. ~Told(c, "LOADROM")'
      BY <3>1 DEF Told
    <3> QED
      BY <1>1, <1>2, <3>1, <3>2 DEF Posted, Pending
  <2> QED
    BY <2>1, <2>2, <2>3, <2>4, <2>5, <2>6, <2>7, <2>8 DEF WindowStep
<1>6. ASSUME NEW d \in Clients, d # c
      PROVE  uploads'[d] + Pending(d)' + Posted(d)' <= asked'[d]
  <2>1. uploads[d] + Pending(d) + Posted(d) <= asked[d]
    BY DEF LoadsAccounted
  <2>2. /\ uploads'[d] = uploads[d] /\ asked'[d] = asked[d] /\ rompath'[d] = rompath[d]
        /\ device'[d] = device[d] /\ input'[d] = input[d]
    BY <1>6, Elsewhere
  <2> QED
    BY <2>1, <2>2 DEF Pending, Posted, Told
<1> QED
  BY <1>5, <1>6 DEF LoadsAccounted
\* The last event still says what the device thread does.
LEMMA EventsKept ==
    ASSUME WindowTypes, LastEventIsRight, NEW c \in Clients, WindowStep(c)
    PROVE  LastEventIsRight'
<1> DEFINE Shown(d) == IF events[d] = <<>> THEN status[d] = Reported(d)
                                           ELSE events[d][Len(events[d])] = Reported(d)
<1>1. /\ device \in [Clients -> DevicePlaces] /\ status \in [Clients -> Statuses]
      /\ events \in [Clients -> Seq(Statuses)] /\ events[c] \in Seq(Statuses)
      /\ device' \in [Clients -> DevicePlaces]
  BY TypesKept DEF WindowTypes, Statuses
<1>2. Shown(c)
  BY DEF LastEventIsRight
<1>3. ASSUME NEW p \in DevicePlaces, NEW s \in Statuses, Becomes(c, p, s),
             Reported(c)' = s
      PROVE  Shown(c)'
  <2>1. events'[c] = Append(events[c], s)
    BY <1>1, <1>3 DEF Becomes, Post
  <2>2. events'[c] # <<>> /\ events'[c][Len(events'[c])] = s
    BY <1>1, <2>1, Appending
  <2> QED
    BY <1>3, <2>2
<1>4. ASSUME NewDeviceThread(c) PROVE Shown(c)'
  <2>1. events'[c] = Append(events[c], "IDLE") /\ device'[c] = "starting"
    BY <1>1, <1>4 DEF NewDeviceThread, Post
  <2>2. events'[c] # <<>> /\ events'[c][Len(events'[c])] = "IDLE"
    BY <1>1, <2>1, Appending DEF Statuses
  <2>3. Reported(c)' = "IDLE"
    BY <2>1 DEF Reported
  <2> QED
    BY <2>2, <2>3
<1>5. ASSUME UNCHANGED <<status, events>>, Reported(c)' = Reported(c) PROVE Shown(c)'
  BY <1>2, <1>5
<1>6. Shown(c)'
  <2>1. CASE BeginWorking(c) \/ Click(c)
    <3>1. NewDeviceThread(c) \/ UNCHANGED <<device, status, events>>
      BY <2>1 DEF BeginWorking, Click, StartThread
    <3> QED
      BY <1>4, <1>5, <3>1 DEF Reported
  <2>2. CASE ThreadEvent(c)
    <3>1. /\ events[c] # <<>> /\ status'[c] = Head(events[c]) /\ events'[c] = Tail(events[c])
          /\ device' = device
      BY <1>1, <2>2 DEF ThreadEvent
    <3>2. /\ Tail(events[c]) # <<>> => Tail(events[c])[Len(Tail(events[c]))] = Reported(c)
          /\ Tail(events[c]) = <<>> => Head(events[c]) = Reported(c)
      BY <1>1, <1>2, <3>1, Dequeuing
    <3>3. Reported(c)' = Reported(c)
      BY <3>1 DEF Reported
    <3> QED
      BY <3>1, <3>2, <3>3
  <2>3. CASE LoseCart(c) \/ LeaveLoop(c)
    <3>1. Becomes(c, "dying", "DEAD")
      BY <2>3 DEF LoseCart, LeaveLoop
    <3>2. device'[c] = "dying"
      BY <1>1, <3>1 DEF Becomes
    <3>3. Reported(c)' = "DEAD"
      BY <3>2 DEF Reported
    <3> QED
      BY <1>3, <3>1, <3>3 DEF DevicePlaces, Statuses
  <2>4. CASE StartUpload(c)
    <3>1. Becomes(c, "upload", "UPLOADING")
      BY <2>4 DEF StartUpload
    <3>2. device'[c] = "upload"
      BY <1>1, <3>1 DEF Becomes
    <3>3. Reported(c)' = "UPLOADING"
      BY <3>2 DEF Reported
    <3> QED
      BY <1>3, <3>1, <3>3 DEF DevicePlaces, Statuses
  <2>5. CASE JoinUpload(c)
    <3>1. Becomes(c, "loop", "IDLE")
      BY <2>5 DEF JoinUpload
    <3>2. device'[c] = "loop"
      BY <1>1, <3>1 DEF Becomes
    <3>3. Reported(c)' = "IDLE"
      BY <3>2 DEF Reported
    <3> QED
      BY <1>3, <3>1, <3>3 DEF DevicePlaces, Statuses
  <2>6. CASE FindCart(c)
    <3>1. device[c] = "starting" /\ device'[c] = "loop" /\ UNCHANGED <<status, events>>
      BY <1>1, <2>6 DEF FindCart
    <3>2. Reported(c) = "IDLE" /\ Reported(c)' = "IDLE"
      BY <3>1 DEF Reported
    <3> QED
      BY <1>5, <3>1, <3>2
  <2>7. CASE DeviceEnds(c)
    <3>1. device[c] = "dying" /\ device'[c] = "dead" /\ UNCHANGED <<status, events>>
      BY <1>1, <2>7 DEF DeviceEnds
    <3>2. Reported(c) = "DEAD" /\ Reported(c)' = "DEAD"
      BY <3>1 DEF Reported
    <3> QED
      BY <1>5, <3>1, <3>2
  <2>8. CASE UploadOver(c) \/ InterruptUpload(c)
    <3>1. /\ device[c] = "upload" /\ device'[c] \in {"upload", "joining"}
          /\ UNCHANGED <<status, events>>
      BY <1>1, <2>8 DEF UploadOver, InterruptUpload, LeaveUpload
    <3>2. Reported(c) = "UPLOADING" /\ Reported(c)' = "UPLOADING"
      BY <3>1 DEF Reported
    <3> QED
      BY <1>5, <3>1, <3>2
  <2>9. CASE SendROM(c, "complete") \/ SendROM(c, "failed") \/ UploadEnds(c) \/ HandleMainInput(c)
    <3>1. UNCHANGED <<device, status, events>>
      BY <2>9 DEF SendROM, UploadEnds, HandleMainInput
    <3> QED
      BY <1>5, <3>1 DEF Reported
  <2> QED
    BY <2>1, <2>2, <2>3, <2>4, <2>5, <2>6, <2>7, <2>8, <2>9 DEF WindowStep
<1>7. ASSUME NEW d \in Clients, d # c PROVE Shown(d)'
  <2>1. Shown(d)
    BY DEF LastEventIsRight
  <2>2. device'[d] = device[d] /\ status'[d] = status[d] /\ events'[d] = events[d]
    BY <1>7, Elsewhere
  <2> QED
    BY <2>1, <2>2 DEF Reported
<1> QED
  BY <1>6, <1>7 DEF LastEventIsRight
-----------------------------------------------------------------------------
(* The slots *)

Joined == {"taking", "joining", "connected", "leaving"}
Phases == {"none", "unconnected", "connecting"} \union Joined

SlotTypes ==
    /\ thread \in [Clients -> Phases]
    /\ player \in [Clients -> Slots \union {0}]
    /\ slots \in [Slots -> Clients \union {NoOne}]

\* The thread of c gets slot i, ...
Gets(c, i) ==
    /\ thread[c] = "connecting" /\ slots[i] = NoOne
    /\ slots' = [slots EXCEPT ![i] = c]
    /\ player' = [player EXCEPT ![c] = i]
    /\ thread' = [thread EXCEPT ![c] = "taking"]

\* ... gives it back, ...
GivesBack(c) ==
    /\ thread[c] = "leaving"
    /\ slots' = [slots EXCEPT ![player[c]] = NoOne]
    /\ player' = [player EXCEPT ![c] = 0]
    /\ thread' = [thread EXCEPT ![c] = "none"]

\* ... or goes on without either.
GoesOn(c, p) ==
    /\ UNCHANGED <<slots, player>>
    /\ thread' = [thread EXCEPT ![c] = p]
    /\ thread[c] \in Joined <=> p \in Joined

SlotsKeep == UNCHANGED <<thread, player, slots>>

SlotStep(c) == (\E i \in Slots : Gets(c, i)) \/ GivesBack(c) \/ \E p \in Phases : GoesOn(c, p)

\* What the steps of the system do to the slots.
LEMMA SlotSteps ==
    ASSUME SlotTypes, [Next]_vars
    PROVE  UNCHANGED env /\ (SlotsKeep \/ \E c \in Clients : SlotStep(c))
<1>1. CASE UNCHANGED vars
  BY <1>1 DEF vars, server, threads, room, SlotsKeep
<1>2. CASE GameThread
  BY <1>2 DEF GameThread, DoUpdate, SendUpdates, threads, room, SlotsKeep
<1>3. ASSUME NEW c \in Clients, N64(c) \/ Boot(c) \/ SendInputs(c) \/ LoseServer(c) \/ Retry(c)
      PROVE  UNCHANGED env /\ SlotsKeep
  <2>1. CASE N64(c)
    BY <2>1 DEF N64, EnterInit, InitStage, RequestClock, DoneSync, Callback, PollEnds, server, threads,
                room, SlotsKeep
  <2>2. CASE ~N64(c)
    BY <1>3, <2>2 DEF Boot, SendInputs, LoseServer, Retry, InitStage, server, threads, room, SlotsKeep
  <2> QED
    BY <2>1, <2>2
<1>4. ASSUME NEW c \in Clients,
             Interface(c) \/ Unplug(c) \/ User(c) \/ DeviceThread(c) \/ UploadThread(c)
      PROVE  UNCHANGED env /\ SlotsKeep
  BY <1>4 DEF Interface, Unplug, User, DeviceThread, UploadThread, Upload, Others, server,
              threads, room, SlotsKeep
<1>5. ASSUME NEW c \in Clients, HandleSync(c) \/ HandleNothing(c) \/ HandleInput(c)
                                \/ SendMessages(c) \/ SendHeartbeat(c)
      PROVE  UNCHANGED env /\ SlotsKeep
  BY <1>5 DEF HandleSync, HandleNothing, HandleInput, SendMessages, SendHeartbeat, Send,
              threads, room, SlotsKeep
<1>6. ASSUME NEW c \in Clients, RelayUp(c)
      PROVE  UNCHANGED env /\ (SlotsKeep \/ SlotStep(c))
  <2>1. UNCHANGED <<env, slots, player>>
    BY <1>6 DEF RelayUp, room
  <2>2. CASE thread[c] = "none"
    <3>1. GoesOn(c, "unconnected")
      BY <1>6, <2>1, <2>2 DEF RelayUp, GoesOn, Joined
    <3> QED
      BY <2>1, <3>1 DEF SlotStep, Phases
  <2>3. CASE thread[c] # "none"
    <3>1. UNCHANGED thread
      BY <1>6, <2>3 DEF RelayUp, SlotTypes
    <3> QED
      BY <2>1, <3>1 DEF SlotsKeep
  <2> QED
    BY <2>2, <2>3
<1>7. ASSUME NEW c \in Clients, \/ HandleConnect(c) \/ SetNumber(c) \/ Introduce(c)
                                \/ HandleUnexpected(c)
      PROVE  UNCHANGED env /\ (SlotsKeep \/ SlotStep(c))
  <2>1. UNCHANGED <<env, slots, player>>
    BY <1>7 DEF HandleConnect, SetNumber, Introduce, HandleUnexpected, Send, room
  <2>2. \/ UNCHANGED thread \/ GoesOn(c, "connecting") \/ GoesOn(c, "joining")
        \/ GoesOn(c, "connected") \/ GoesOn(c, "none")
    BY <1>7, <2>1 DEF HandleConnect, SetNumber, Introduce, HandleUnexpected, GoesOn, Joined
  <2> QED
    BY <2>1, <2>2 DEF SlotsKeep, SlotStep, Phases, Joined
<1>8. ASSUME NEW c \in Clients, TimeOut(c)
      PROVE  UNCHANGED env /\ SlotStep(c)
  <2>1. UNCHANGED <<env, slots, player>>
    BY <1>8 DEF TimeOut, room
  <2>2. GoesOn(c, "leaving") \/ GoesOn(c, "none")
    BY <1>8, <2>1 DEF TimeOut, GoesOn, Joined
  <2> QED
    BY <2>1, <2>2 DEF SlotStep, Phases, Joined
<1>9. ASSUME NEW c \in Clients, HandleDone(c)
      PROVE  UNCHANGED env /\ (SlotsKeep \/ SlotStep(c))
  BY <1>9 DEF HandleDone, Gets, room, SlotsKeep, SlotStep
<1>10. ASSUME NEW c \in Clients, DisconnectPlayer(c)
       PROVE  UNCHANGED env /\ SlotStep(c)
  BY <1>10 DEF DisconnectPlayer, GivesBack, SlotStep
<1> QED
  BY <1>1, <1>2, <1>3, <1>4, <1>5, <1>6, <1>7, <1>8, <1>9, <1>10 DEF Next, ServerThread

\* Slots and threads stay well typed.
LEMMA SlotTypesKept ==
    ASSUME SlotTypes, NEW c \in Clients, SlotStep(c), UNCHANGED env
    PROVE  SlotTypes'
<1>1. Slots' = Slots
  BY DEF Slots
<1>2. CASE \E i \in Slots : Gets(c, i)
  BY <1>1, <1>2 DEF Gets, SlotTypes, Phases, Joined
<1>3. CASE GivesBack(c)
  BY <1>1, <1>3 DEF GivesBack, SlotTypes, Phases
<1>4. CASE \E p \in Phases : GoesOn(c, p)
  BY <1>1, <1>4 DEF GoesOn, SlotTypes
<1> QED
  BY <1>2, <1>3, <1>4 DEF SlotStep

\* A slot still belongs to exactly one thread.
LEMMA SlotsKept ==
    ASSUME SlotTypes, SlotsAreOwned, NEW c \in Clients, SlotStep(c), UNCHANGED env
    PROVE  SlotsAreOwned'
<1> DEFINE Owned == /\ \A i \in Slots : slots[i] # NoOne =>
                          player[slots[i]] = i /\ thread[slots[i]] \in Joined
                    /\ \A d \in Clients : thread[d] \in Joined =>
                          player[d] \in Slots /\ slots[player[d]] = d
<1>1. Slots' = Slots
  BY DEF Slots
<1>2. Owned
  BY DEF SlotsAreOwned, Joined
<1>3. NoOne \notin Clients
  BY RealtimeAssumption
<1>4. ASSUME NEW i \in Slots, Gets(c, i) PROVE Owned'
  <2>1. thread[c] \notin Joined /\ slots[i] = NoOne
    BY <1>4 DEF Gets, Joined
  <2>2. ASSUME NEW j \in Slots, slots'[j] # NoOne
        PROVE  player'[slots'[j]] = j /\ thread'[slots'[j]] \in Joined
    <3>1. CASE j = i
      <4>1. slots'[j] = c /\ player'[c] = i /\ thread'[c] = "taking"
        BY <1>4, <3>1 DEF Gets, SlotTypes
      <4> QED
        BY <3>1, <4>1 DEF Joined
    <3>2. CASE j # i
      <4>1. slots'[j] = slots[j] /\ slots[j] \in Clients \ {c}
        BY <1>2, <1>4, <2>1, <2>2, <3>2 DEF Gets, SlotTypes
      <4>2. player'[slots[j]] = player[slots[j]] /\ thread'[slots[j]] = thread[slots[j]]
        BY <1>4, <4>1 DEF Gets, SlotTypes
      <4> QED
        BY <1>2, <2>2, <4>1, <4>2
    <3> QED
      BY <3>1, <3>2
  <2>3. ASSUME NEW d \in Clients, thread'[d] \in Joined
        PROVE  player'[d] \in Slots /\ slots'[player'[d]] = d
    <3>1. CASE d = c
      BY <1>4, <3>1 DEF Gets, SlotTypes
    <3>2. CASE d # c
      <4>1. thread'[d] = thread[d] /\ player'[d] = player[d]
        BY <1>4, <3>2 DEF Gets, SlotTypes
      <4>2. player[d] \in Slots /\ slots[player[d]] = d /\ player[d] # i
        BY <1>2, <1>3, <2>1, <2>3, <4>1
      <4> QED
        BY <1>4, <4>1, <4>2 DEF Gets, SlotTypes
    <3> QED
      BY <3>1, <3>2
  <2> QED
    BY <1>1, <2>2, <2>3
<1>5. ASSUME GivesBack(c) PROVE Owned'
  <2>1. player[c] \in Slots /\ slots[player[c]] = c
    BY <1>2, <1>5 DEF GivesBack, Joined
  <2>2. ASSUME NEW j \in Slots, slots'[j] # NoOne
        PROVE  player'[slots'[j]] = j /\ thread'[slots'[j]] \in Joined
    <3>1. j # player[c] /\ slots'[j] = slots[j]
      BY <1>5, <2>1, <2>2 DEF GivesBack, SlotTypes
    <3>2. slots[j] \in Clients \ {c}
      BY <1>2, <2>2, <3>1 DEF SlotTypes
    <3>3. player'[slots[j]] = player[slots[j]] /\ thread'[slots[j]] = thread[slots[j]]
      BY <1>5, <3>2 DEF GivesBack, SlotTypes
    <3> QED
      BY <1>2, <2>2, <3>1, <3>3
  <2>3. ASSUME NEW d \in Clients, thread'[d] \in Joined
        PROVE  player'[d] \in Slots /\ slots'[player'[d]] = d
    <3>1. d # c
      BY <1>5, <2>3 DEF GivesBack, SlotTypes, Joined
    <3>2. thread'[d] = thread[d] /\ player'[d] = player[d]
      BY <1>5, <3>1 DEF GivesBack, SlotTypes
    <3>3. player[d] \in Slots /\ slots[player[d]] = d
      BY <1>2, <2>3, <3>2
    <3> QED
      BY <1>5, <2>1, <3>1, <3>2, <3>3 DEF GivesBack, SlotTypes
  <2> QED
    BY <1>1, <2>2, <2>3
<1>6. ASSUME NEW p \in Phases, GoesOn(c, p) PROVE Owned'
  <2>1. \A d \in Clients : thread'[d] \in Joined <=> thread[d] \in Joined
    BY <1>6 DEF GoesOn, SlotTypes
  <2>2. UNCHANGED <<slots, player>>
    BY <1>6 DEF GoesOn
  <2> QED
    BY <1>1, <1>2, <2>1, <2>2 DEF SlotTypes
<1> QED
  BY <1>4, <1>5, <1>6 DEF SlotStep, SlotsAreOwned, Joined

-----------------------------------------------------------------------------
(* The theorems *)

\* A step of the system keeps it.
LEMMA WindowKept == WindowInv /\ [Next]_vars => WindowInv'
<1> SUFFICES ASSUME WindowInv, [Next]_vars PROVE WindowInv'
  OBVIOUS
<1>1. CASE UNCHANGED work
  BY <1>1 DEF work, WindowInv, WindowTypes, CartHasOneUser, LoadsAccounted, LastEventIsRight,
              Pending, Posted, Told, Reported
<1>2. ASSUME NEW c \in Clients, WindowStep(c) PROVE WindowInv'
  BY <1>2, TypesKept, CartKept, LoadsKept, EventsKept DEF WindowInv
<1> QED
  BY <1>1, <1>2, WindowSteps

\* The invariant of the windows holds.
LEMMA WindowInvariant == Spec => []WindowInv
  BY WindowInitially, WindowKept, PTL DEF Spec

\* The device thread leaves the cart alone while a ROM is being sent
\* (clientwindow.cpp:628), whatever is cancelled, unplugged, closed or clicked.
THEOREM CartHasOneUserTheorem == Spec => []CartHasOneUser
<1>1. WindowInv => CartHasOneUser
  BY DEF WindowInv
<1> QED
  BY <1>1, WindowInvariant, PTL

\* No transfer starts that was not asked for (clientwindow.cpp:627).
THEOREM LoadsAreAskedTheorem == Spec => []LoadsAreAsked
<1>1. ASSUME WindowInv, NEW c \in Clients PROVE uploads[c] <= asked[c]
  <2>1. uploads[c] + Pending(c) + Posted(c) <= asked[c]
    BY <1>1 DEF WindowInv, LoadsAccounted
  <2>2. Pending(c) \in {0, 1} /\ Posted(c) \in {0, 1}
    BY DEF Pending, Posted
  <2>3. uploads[c] \in Nat /\ asked[c] \in Nat
    BY <1>1 DEF WindowInv, WindowTypes
  <2> QED
    BY <2>1, <2>2, <2>3
<1>2. WindowInv => LoadsAreAsked
  BY <1>1 DEF LoadsAreAsked
<1> QED
  BY <1>2, WindowInvariant, PTL

\* Once the events have arrived, the interface shows what the device thread is doing
\* (clientwindow.cpp:287).
THEOREM StatusCatchesUpTheorem == Spec => []StatusCatchesUp
<1>1. WindowInv => StatusCatchesUp
  BY DEF WindowInv, LastEventIsRight, StatusCatchesUp
<1> QED
  BY <1>1, WindowInvariant, PTL

\* A step of the system keeps the slots owned.
LEMMA OwnershipKept ==
    SlotTypes /\ SlotsAreOwned /\ [Next]_vars => SlotTypes' /\ SlotsAreOwned'
<1> DEFINE Inv == SlotTypes /\ SlotsAreOwned
<1> SUFFICES ASSUME SlotTypes, SlotsAreOwned, [Next]_vars PROVE SlotTypes' /\ SlotsAreOwned'
  OBVIOUS
<1>1. UNCHANGED env
  BY SlotSteps
<1>2. CASE SlotsKeep
  BY <1>1, <1>2 DEF SlotsKeep, SlotTypes, SlotsAreOwned, Slots
<1>3. ASSUME NEW c \in Clients, SlotStep(c) PROVE Inv'
  BY <1>1, <1>3, SlotTypesKept, SlotsKept
<1> QED
  BY <1>2, <1>3, SlotSteps

\* The invariant of the slots holds.
LEMMA SlotInvariant == Spec => [](SlotTypes /\ SlotsAreOwned)
<1>1. Init => SlotTypes /\ SlotsAreOwned
  BY DEF Init, ServerInit, SlotTypes, SlotsAreOwned, Phases
<1> QED
  BY <1>1, OwnershipKept, PTL DEF Spec

\* A slot of the room belongs to exactly one thread (ConnectPlayer, DisconnectPlayer).
THEOREM SlotsAreOwnedTheorem == Spec => []SlotsAreOwned
  BY SlotInvariant, PTL

-----------------------------------------------------------------------------
(* Types *)

NetTypes ==
    /\ buffer \in [Clients -> Upward \union {NoPacket}]
    /\ sendafterpoll \in [Clients -> BOOLEAN]
    /\ polls \in [Clients -> Nat]
    /\ \A c \in Clients : sendafterpoll[c] => buffer[c] \in Upward
    /\ lost \in [Clients -> SUBSET Upward]

QueueTypes ==
    /\ usb \in [Clients -> Seq(Downward)]
    /\ wire \in [Clients -> Seq(Upward)]
    /\ toN64 \in [Clients -> Seq(Downward)]
    /\ toServer \in [Clients -> Seq(Upward)]
    /\ msgqueue \in [Clients -> Seq(Upward)]
    /\ mailbox \in [Clients -> Seq(Downward)]

ProgramTypes ==
    /\ stage \in [Clients -> {"off", "start", "init", "game", "disconnected"}]
    /\ conn \in [Clients -> {"unconnected", "syncing", "plyinfo"}]
    /\ clocks \in [Clients -> Nat] /\ clocksent \in [Clients -> BOOLEAN]
    /\ calling \in [Clients -> UpTypes \union {"CLIENTINPUT", ""}]
    /\ clnumber \in [Clients -> Nat] /\ time \in [Clients -> Nat]
    /\ roster \in [Clients -> SUBSET Nat]

OtherTypes ==
    /\ loaded \in [Clients -> BOOLEAN]
    /\ relay \in [Clients -> BOOLEAN] /\ closing \in [Clients -> BOOLEAN]
    /\ lastupdate \in [Slots -> Nat]
    /\ ghosts \in [Clients -> SUBSET Nat]
    /\ messages \in Seq(Inputs)
    /\ news \in BOOLEAN
    /\ env \in [clients: SUBSET Clients, slots: Nat \ {0}, fresh: BOOLEAN, may: [Rare -> Nat],
                ordered: BOOLEAN]
    /\ used \in [Rare -> Nat]

\* The number of a player's slot is known to its thread: SlotsAreOwned.
TypeInv ==
    /\ WindowInv /\ SlotTypes /\ SlotsAreOwned
    /\ NetTypes /\ QueueTypes /\ ProgramTypes /\ OtherTypes

LEMMA TypeInitially == Init => NetTypes /\ QueueTypes /\ ProgramTypes /\ OtherTypes
<1> SUFFICES ASSUME Init PROVE NetTypes /\ QueueTypes /\ ProgramTypes /\ OtherTypes
  OBVIOUS
<1>1. /\ toN64 = [c \in Clients |-> <<>>] /\ toServer = [c \in Clients |-> <<>>]
      /\ loaded \in [Clients -> BOOLEAN] /\ relay \in [Clients -> BOOLEAN]
      /\ closing \in [Clients -> BOOLEAN]
  BY DEF Init, WindowInit, Started
<1>2. NetTypes
  BY DEF Init, NetLibInit, NetTypes
<1>3. QueueTypes
  BY <1>1 DEF Init, NetLibInit, ServerInit, QueueTypes
<1>4. ProgramTypes
  BY DEF Init, ProgramInit, ProgramTypes
<1>5. OtherTypes
  <2>1. env \in [clients: SUBSET Clients, slots: Nat \ {0}, fresh: BOOLEAN, may: [Rare -> Nat],
                 ordered: BOOLEAN]
    BY RealtimeAssumption DEF Init
  <2>2. /\ used \in [Rare -> Nat] /\ lastupdate \in [Slots -> Nat]
        /\ ghosts \in [Clients -> SUBSET Nat]
    BY DEF Init, ServerInit
  <2>3. messages = <<>> /\ news = FALSE
    BY DEF Init, ServerInit
  <2>4. messages \in Seq(Inputs)
    BY <2>3
  <2> QED
    BY <1>1, <2>1, <2>2, <2>3, <2>4 DEF OtherTypes
<1> QED
  BY <1>2, <1>3, <1>4, <1>5

\* What happens to a queue.
LEMMA QueueFacts ==
    ASSUME NEW S, NEW queue \in [Clients -> Seq(S)], NEW c \in Clients
    PROVE  /\ \A m \in S : Post(queue, c, m) \in [Clients -> Seq(S)]
           /\ [queue EXCEPT ![c] = <<>>] \in [Clients -> Seq(S)]
           /\ queue[c] # <<>> => /\ Head(queue[c]) \in S
                                 /\ [queue EXCEPT ![c] = Tail(@)] \in [Clients -> Seq(S)]
           /\ \A s \in Seq(S) : [queue EXCEPT ![c] = @ \o s] \in [Clients -> Seq(S)]
           /\ \A k \in DOMAIN queue[c] : /\ queue[c][k] \in S
                                         /\ [queue EXCEPT ![c] = Without(@, k)] \in [Clients -> Seq(S)]
<1>1. queue[c] \in Seq(S)
  OBVIOUS
<1>2. \A k \in DOMAIN queue[c] : Without(queue[c], k) \in Seq(S) /\ queue[c][k] \in S
  <2> TAKE k \in DOMAIN queue[c]
  <2>1. k \in 1..Len(queue[c])
    BY <1>1
  <2>2. SubSeq(queue[c], 1, k - 1) \in Seq(S) /\ SubSeq(queue[c], k + 1, Len(queue[c])) \in Seq(S)
    BY <1>1, <2>1
  <2> QED
    BY <1>1, <2>1, <2>2 DEF Without
<1>3. queue[c] # <<>> => Head(queue[c]) \in S /\ Tail(queue[c]) \in Seq(S)
  BY <1>1
<1>4. \A m \in S : Append(queue[c], m) \in Seq(S)
  BY <1>1
<1>5. \A s \in Seq(S) : queue[c] \o s \in Seq(S)
  BY <1>1
<1>6. <<>> \in Seq(S)
  OBVIOUS
<1>7. \A s \in Seq(S) : [queue EXCEPT ![c] = s] \in [Clients -> Seq(S)]
  OBVIOUS
<1> QED
  BY <1>2, <1>3, <1>4, <1>5, <1>6, <1>7 DEF Post

LEMMA PacketTypes ==
    /\ \A type \in UpTypes : Plain(type) \in Upward
    /\ \A t \in Times : Packet("CLIENTINPUT", 0, t) \in Upward
    /\ \A type \in DownTypes, n \in Nat : Packet(type, n, <<>>) \in Downward
    /\ \A type \in DownTypes : Plain(type) \in Downward
<1>1. ASSUME NEW type \in UpTypes PROVE Plain(type) \in Upward
  BY DEF Plain, Packet, Upward
<1>2. ASSUME NEW t \in Times PROVE Packet("CLIENTINPUT", 0, t) \in Upward
  BY DEF Packet, Upward
<1>3. ASSUME NEW type \in DownTypes, NEW n \in Nat PROVE Packet(type, n, <<>>) \in Downward
  BY DEF Packet, Downward
<1>4. ASSUME NEW type \in DownTypes PROVE Plain(type) \in Downward
  BY <1>3 DEF Plain
<1> QED
  BY <1>1, <1>2, <1>3, <1>4

\* The buffer is taken.
LEMMA TakingTypes ==
    ASSUME NetTypes, NEW c \in Clients, NEW pkt \in Upward, NEW depth \in Nat, TakeBuffer(c, pkt, depth)
    PROVE  NetTypes'
<1>1. buffer' \in [Clients -> Upward \union {NoPacket}]
  BY DEF TakeBuffer, NetTypes
<1>2. sendafterpoll' \in [Clients -> BOOLEAN] /\ polls' \in [Clients -> Nat]
  BY DEF TakeBuffer, NetTypes
<1>3. \A d \in Clients : sendafterpoll'[d] => buffer'[d] \in Upward
  BY DEF TakeBuffer, NetTypes
<1>4. lost' \in [Clients -> SUBSET Upward]
  <2>1. CASE sendafterpoll[c]
    <3>1. lost[c] \union {buffer[c]} \in SUBSET Upward
      BY <2>1 DEF NetTypes
    <3> QED
      BY <2>1, <3>1 DEF TakeBuffer, NetTypes
  <2>2. CASE ~sendafterpoll[c]
    BY <2>2 DEF TakeBuffer, NetTypes
  <2> QED
    BY <2>1, <2>2
<1> QED
  BY <1>1, <1>2, <1>3, <1>4 DEF NetTypes

\* Rare things are counted.
LEMMA UsedTypes ==
    ASSUME used \in [Rare -> Nat], Freely \/ \E r \in Rare : Use(r)
    PROVE  used' \in [Rare -> Nat] /\ \A r \in Rare : used[r] <= used'[r]
<1>1. CASE Freely
  BY <1>1 DEF Freely
<1>2. ASSUME NEW r \in Rare, Use(r) PROVE used' \in [Rare -> Nat] /\ \A s \in Rare : used[s] <= used'[s]
  <2>1. used[r] \in Nat /\ used' = [used EXCEPT ![r] = used[r] + 1]
    BY <1>2 DEF Use
  <2> QED
    BY <2>1
<1> QED
  BY <1>1, <1>2

LEMMA CallTypes ==
    ASSUME NetTypes, QueueTypes, ProgramTypes, NEW c \in Clients, NEW pkt \in Upward, Call(c, pkt)
    PROVE  /\ NetTypes' /\ UNCHANGED <<usb, wire>>
           /\ calling' \in [Clients -> UpTypes \union {"CLIENTINPUT", ""}]
<1>1. NetTypes' /\ UNCHANGED <<usb, wire>>
  BY TakingTypes DEF Call, SendToServer
<1>2. pkt.type \in UpTypes \union {"CLIENTINPUT", ""}
  BY DEF Upward
<1> QED
  BY <1>1, <1>2 DEF Call, ProgramTypes

\* The program and its library.
LEMMA ProgramSteps ==
    ASSUME TypeInv, NEW c \in Clients, N64(c) \/ Boot(c) \/ SendInputs(c) \/ LoseServer(c) \/ Retry(c)
    PROVE  NetTypes' /\ QueueTypes' /\ ProgramTypes' /\ OtherTypes'
<1>1. UNCHANGED <<window, server, env>>
  BY DEF N64, EnterInit, InitStage, RequestClock, DoneSync, Callback, PollEnds, Boot, SendInputs, LoseServer, Retry
<1>2. used' \in [Rare -> Nat]
  <2>1. Freely \/ Use("input") \/ Use("jump") \/ Use("silence") \/ Use("retry")
    BY DEF N64, EnterInit, InitStage, RequestClock, DoneSync, Callback, PollEnds, Boot, SendInputs, LoseServer, Retry
  <2> QED
    BY <2>1, UsedTypes DEF Rare, TypeInv, OtherTypes
<1>3. OtherTypes'
  BY <1>1, <1>2 DEF window, server, room, game, TypeInv, OtherTypes, Slots, Inputs
<1>4. usb' \in [Clients -> Seq(Downward)] /\ wire' \in [Clients -> Seq(Upward)] => QueueTypes'
  BY <1>1 DEF window, server, threads, TypeInv, QueueTypes
<1>5. CASE EnterInit(c) \/ Retry(c)
  <2>0. InitStage(c)
    BY <1>5 DEF EnterInit, Retry
  <2>1. Call(c, Plain("CLIENTCONNECT")) /\ Plain("CLIENTCONNECT") \in Upward
    BY <2>0, PacketTypes DEF InitStage, UpTypes
  <2>2. /\ NetTypes' /\ UNCHANGED <<usb, wire>>
        /\ calling' \in [Clients -> UpTypes \union {"CLIENTINPUT", ""}]
    BY <2>1, CallTypes DEF TypeInv
  <2>3. ProgramTypes'
    BY <2>0, <2>2 DEF InitStage, TypeInv, ProgramTypes
  <2> QED
    BY <1>3, <1>4, <2>2, <2>3 DEF TypeInv, QueueTypes
<1>6. CASE RequestClock(c) \/ DoneSync(c)
  <2>1. PICK pkt \in Upward : Call(c, pkt)
    BY <1>6, PacketTypes DEF RequestClock, DoneSync, UpTypes
  <2>2. /\ NetTypes' /\ UNCHANGED <<usb, wire>>
        /\ calling' \in [Clients -> UpTypes \union {"CLIENTINPUT", ""}]
    BY <2>1, CallTypes DEF TypeInv
  <2>3. ProgramTypes'
    BY <1>6, <2>2 DEF RequestClock, DoneSync, TypeInv, ProgramTypes
  <2> QED
    BY <1>3, <1>4, <2>2, <2>3 DEF TypeInv, QueueTypes
<1>7. CASE SendInputs(c)
  <2>1. time[c] \in Nat /\ time \in [Clients -> Nat]
    BY DEF TypeInv, ProgramTypes
  <2>2. <<time[c] + 1, time[c] + 2>> \in Times
    BY <2>1 DEF Times
  <2>3. PICK pkt \in Upward : Call(c, pkt)
    BY <1>7, <2>2, PacketTypes DEF SendInputs
  <2>4. /\ NetTypes' /\ UNCHANGED <<usb, wire>>
        /\ calling' \in [Clients -> UpTypes \union {"CLIENTINPUT", ""}]
    BY <2>3, CallTypes DEF TypeInv
  <2>5. time' \in [Clients -> Nat]
    BY <1>7, <2>1 DEF SendInputs
  <2>6. ProgramTypes'
    BY <1>7, <2>4, <2>5 DEF SendInputs, TypeInv, ProgramTypes
  <2> QED
    BY <1>3, <1>4, <2>4, <2>6 DEF TypeInv, QueueTypes
<1>8. CASE Callback(c)
  <2>1. PICK pkt : pkt = Head(usb[c])
    OBVIOUS
  <2>2. PICK answer \in {Plain("ACKBEAT"), NoPacket} : ReadPacket(c, answer)
    BY <1>8, <2>1 DEF Callback
  <2>3. pkt \in Downward /\ usb' \in [Clients -> Seq(Downward)] /\ wire' = wire
    BY <2>1, <2>2, QueueFacts DEF ReadPacket, TypeInv, QueueTypes
  <2>4. pkt.n \in Nat
    BY <2>3 DEF Downward
  <2>5. NetTypes'
    <3>1. PICK depth \in Nat : depth = IF polls[c] = 0 THEN 1 ELSE polls[c]
      BY DEF TypeInv, NetTypes
    <3>2. CASE answer # NoPacket
      <4>1. TakeBuffer(c, answer, depth + 1)
        BY <2>2, <3>1, <3>2 DEF ReadPacket
      <4>2. answer \in Upward /\ depth + 1 \in Nat
        BY <3>2, PacketTypes DEF UpTypes
      <4> QED
        BY <4>1, <4>2, TakingTypes DEF TypeInv
    <3>3. CASE answer = NoPacket
      <4>1. polls' = [polls EXCEPT ![c] = depth] /\ UNCHANGED <<buffer, sendafterpoll, lost>>
        BY <2>2, <3>1, <3>3 DEF ReadPacket
      <4> QED
        BY <4>1 DEF TypeInv, NetTypes
    <3> QED
      BY <3>2, <3>3
  <2>6. conn' \in [Clients -> {"unconnected", "syncing", "plyinfo"}]
    BY <1>8 DEF Callback, TypeInv, ProgramTypes
  <2>7. clocksent' \in [Clients -> BOOLEAN]
    <3>1. clocksent \in [Clients -> BOOLEAN]
      BY DEF TypeInv, ProgramTypes
    <3>2. PICK b \in BOOLEAN : clocksent' = [clocksent EXCEPT ![c] = b]
      BY <1>8 DEF Callback
    <3> QED
      BY <3>1, <3>2
  <2>8. clocks' \in [Clients -> Nat]
    <3>1. clocks \in [Clients -> Nat] /\ clocks[c] \in Nat
      BY DEF TypeInv, ProgramTypes
    <3> QED
      BY <1>8, <3>1 DEF Callback
  <2>9. stage' \in [Clients -> {"off", "start", "init", "game", "disconnected"}]
    BY <1>8 DEF Callback, TypeInv, ProgramTypes
  <2>10. clnumber' \in [Clients -> Nat]
    BY <1>8, <2>1, <2>4 DEF Callback, TypeInv, ProgramTypes
  <2>11. roster' \in [Clients -> SUBSET Nat]
    <3>1. roster \in [Clients -> SUBSET Nat]
      BY DEF TypeInv, ProgramTypes
    <3>2. PICK ply \in SUBSET Nat : ply = {pkt.n}
      BY <2>4
    <3>3. roster' \in {roster, [roster EXCEPT ![c] = @ \union ply], [roster EXCEPT ![c] = @ \ ply]}
      BY <1>8, <2>1, <3>1, <3>2 DEF Callback
    <3> QED
      BY <3>1, <3>3
  <2> QED
    BY <1>3, <1>4, <1>8, <2>3, <2>5, <2>6, <2>7, <2>8, <2>9, <2>10, <2>11
    DEF Callback, TypeInv, ProgramTypes, QueueTypes
<1>9. CASE PollEnds(c)
  <2>1. EndPoll(c)
    BY <1>9 DEF PollEnds
  <2>2. wire' \in [Clients -> Seq(Upward)] /\ usb' = usb
    <3>1. CASE sendafterpoll[c]
      BY <2>1, <3>1, QueueFacts DEF EndPoll, Post, TypeInv, NetTypes, QueueTypes
    <3>2. CASE ~sendafterpoll[c]
      BY <2>1, <3>2 DEF EndPoll, TypeInv, QueueTypes
    <3> QED
      BY <2>1, <3>1, <3>2 DEF EndPoll
  <2>3. NetTypes'
    <3>1. polls[c] \in Nat /\ polls[c] > 0 /\ polls \in [Clients -> Nat]
      BY <2>1 DEF EndPoll, TypeInv, NetTypes
    <3>2. polls' \in [Clients -> Nat]
      BY <2>1, <3>1 DEF EndPoll
    <3> QED
      BY <2>1, <3>2 DEF EndPoll, TypeInv, NetTypes
  <2>4. ProgramTypes'
    <3>1. PICK b \in BOOLEAN : clocksent' = [clocksent EXCEPT ![c] = b]
      BY <1>9 DEF PollEnds
    <3>2. clocksent' \in [Clients -> BOOLEAN]
      BY <3>1 DEF TypeInv, ProgramTypes
    <3>3. conn' \in [Clients -> {"unconnected", "syncing", "plyinfo"}]
          /\ calling' \in [Clients -> UpTypes \union {"CLIENTINPUT", ""}]
      BY <1>9 DEF PollEnds, TypeInv, ProgramTypes
    <3> QED
      BY <1>9, <3>2, <3>3 DEF PollEnds, TypeInv, ProgramTypes
  <2> QED
    BY <1>3, <1>4, <2>2, <2>3, <2>4 DEF TypeInv, QueueTypes
<1>10. CASE Boot(c)
  <2>1. NetTypes'
    BY <1>10 DEF Boot, NetLibStarts, TypeInv, NetTypes
  <2>2. ProgramTypes'
    BY <1>10 DEF Boot, TypeInv, ProgramTypes
  <2> QED
    BY <1>3, <1>4, <1>10, <2>1, <2>2 DEF Boot, TypeInv, QueueTypes
<1>11. CASE LoseServer(c)
  <2>1. NetTypes' /\ UNCHANGED <<usb, wire>>
    BY <1>11 DEF LoseServer, Retry, netlib, TypeInv, NetTypes
  <2>2. ProgramTypes'
    BY <1>11 DEF LoseServer, Retry, TypeInv, ProgramTypes
  <2> QED
    BY <1>3, <1>4, <2>1, <2>2 DEF TypeInv, QueueTypes
<1> QED
  BY <1>5, <1>6, <1>7, <1>8, <1>9, <1>10, <1>11 DEF N64

\* What a window does, apart from moving packets: it may clear its queues.
LEMMA WindowEffects ==
    ASSUME NEW c \in Clients,
           \/ Interface(c) \/ Unplug(c) \/ User(c) \/ UploadThread(c)
           \/ FindCart(c) \/ LeaveLoop(c) \/ DeviceEnds(c) \/ UploadOver(c) \/ InterruptUpload(c)
           \/ JoinUpload(c) \/ HandleMainInput(c) \/ StartUpload(c)
    PROVE  /\ toN64' = toN64 \/ toN64' = [toN64 EXCEPT ![c] = <<>>]
           /\ toServer' = toServer \/ toServer' = [toServer EXCEPT ![c] = <<>>]
           /\ loaded' = loaded \/ \E b \in BOOLEAN : loaded' = [loaded EXCEPT ![c] = b]
           /\ relay' = relay \/ \E b \in BOOLEAN : relay' = [relay EXCEPT ![c] = b]
           /\ closing' = closing \/ closing' = [closing EXCEPT ![c] = TRUE]
<1>1. CASE Interface(c) \/ User(c)
  BY <1>1 DEF Interface, User, BeginWorking, ThreadEvent, RelayStops, Click, Close, StartThread,
              NewDeviceThread
<1>2. CASE Unplug(c) \/ UploadThread(c)
  BY <1>2 DEF Unplug, UploadThread, LoseCart, SendROM, UploadEnds
<1>3. CASE FindCart(c) \/ LeaveLoop(c) \/ DeviceEnds(c) \/ UploadOver(c) \/ InterruptUpload(c)
           \/ HandleMainInput(c)
  BY <1>3 DEF FindCart, LeaveLoop, DeviceEnds, UploadOver, InterruptUpload, HandleMainInput
<1>4. CASE JoinUpload(c) \/ StartUpload(c)
  BY <1>4 DEF JoinUpload, StartUpload
<1> QED
  BY <1>1, <1>2, <1>3, <1>4

LEMMA WindowTypeSteps ==
    ASSUME TypeInv, NEW c \in Clients,
           Interface(c) \/ DeviceThread(c) \/ UploadThread(c) \/ Unplug(c) \/ User(c)
    PROVE  NetTypes' /\ QueueTypes' /\ ProgramTypes' /\ OtherTypes'
<1>1. UNCHANGED <<room, threads, game, env>>
  BY DEF Interface, DeviceThread, UploadThread, Unplug, User, Upload, Others, server
<1>2. used' \in [Rare -> Nat]
  <2>1. Freely \/ Use("unplug") \/ Use("click") \/ Use("close")
    BY DEF Interface, DeviceThread, UploadThread, Unplug, User, Upload
  <2> QED
    BY <2>1, UsedTypes DEF Rare, TypeInv, OtherTypes
<1>3. CASE ReceiveUSB(c) /\ UNCHANGED program
  <2>1. wire[c] # <<>> /\ wire' = [wire EXCEPT ![c] = Tail(@)] /\ toServer' = Post(toServer, c, Head(wire[c]))
        /\ UNCHANGED <<loaded, relay, closing, toN64, buffer, sendafterpoll, polls, usb, lost>>
    BY <1>3 DEF ReceiveUSB
  <2>2. wire' \in [Clients -> Seq(Upward)] /\ toServer' \in [Clients -> Seq(Upward)]
    BY <2>1, QueueFacts DEF TypeInv, QueueTypes
  <2>3. QueueTypes' /\ NetTypes'
    BY <1>1, <2>1, <2>2 DEF threads, TypeInv, QueueTypes, NetTypes
  <2> QED
    BY <1>1, <1>2, <1>3, <2>1, <2>3 DEF room, game, program, TypeInv, ProgramTypes, OtherTypes, Slots, Inputs
<1>4. CASE SendUSB(c) /\ UNCHANGED program
  <2>1. toN64[c] # <<>> /\ toN64' = [toN64 EXCEPT ![c] = Tail(@)] /\ usb' = Post(usb, c, Head(toN64[c]))
        /\ UNCHANGED <<loaded, relay, closing, toServer, buffer, sendafterpoll, polls, wire, lost>>
    BY <1>4 DEF SendUSB
  <2>2. toN64' \in [Clients -> Seq(Downward)] /\ usb' \in [Clients -> Seq(Downward)]
    BY <2>1, QueueFacts DEF TypeInv, QueueTypes
  <2>3. QueueTypes' /\ NetTypes'
    BY <1>1, <2>1, <2>2 DEF threads, TypeInv, QueueTypes, NetTypes
  <2> QED
    BY <1>1, <1>2, <1>4, <2>1, <2>3 DEF room, game, program, TypeInv, ProgramTypes, OtherTypes, Slots, Inputs
<1>5. toN64' \in [Clients -> Seq(Downward)] /\ toServer' \in [Clients -> Seq(Upward)]
        /\ UNCHANGED <<netlib, program>> => NetTypes' /\ QueueTypes' /\ ProgramTypes'
  BY <1>1 DEF netlib, program, threads, TypeInv, QueueTypes, NetTypes, ProgramTypes
<1>6. CASE \/ Interface(c) \/ Unplug(c) \/ User(c) \/ UploadThread(c) \/ StartUpload(c)
           \/ FindCart(c) \/ LeaveLoop(c) \/ DeviceEnds(c) \/ UploadOver(c) \/ InterruptUpload(c)
           \/ JoinUpload(c) \/ HandleMainInput(c)
  <2>e. /\ toN64' = toN64 \/ toN64' = [toN64 EXCEPT ![c] = <<>>]
        /\ toServer' = toServer \/ toServer' = [toServer EXCEPT ![c] = <<>>]
        /\ loaded' = loaded \/ \E b \in BOOLEAN : loaded' = [loaded EXCEPT ![c] = b]
        /\ relay' = relay \/ \E b \in BOOLEAN : relay' = [relay EXCEPT ![c] = b]
        /\ closing' = closing \/ closing' = [closing EXCEPT ![c] = TRUE]
    BY <1>6, WindowEffects
  <2>q. toN64 \in [Clients -> Seq(Downward)] /\ toServer \in [Clients -> Seq(Upward)]
    BY DEF TypeInv, QueueTypes
  <2>1. toN64' \in [Clients -> Seq(Downward)] /\ toServer' \in [Clients -> Seq(Upward)]
    <3>1. [toN64 EXCEPT ![c] = <<>>] \in [Clients -> Seq(Downward)]
      BY <2>q, QueueFacts
    <3>2. [toServer EXCEPT ![c] = <<>>] \in [Clients -> Seq(Upward)]
      BY <2>q, QueueFacts
    <3> QED
      BY <2>e, <2>q, <3>1, <3>2
  <2>2. loaded' \in [Clients -> BOOLEAN] /\ relay' \in [Clients -> BOOLEAN]
        /\ closing' \in [Clients -> BOOLEAN]
    BY <2>e DEF TypeInv, OtherTypes
  <2>3. OtherTypes'
    BY <1>1, <1>2, <2>2 DEF room, game, TypeInv, OtherTypes, Slots, Inputs
  <2>4. CASE UNCHANGED <<netlib, program>>
    BY <1>5, <2>1, <2>3, <2>4
  <2>5. CASE Upload(c)
    <3>1. wire' = [wire EXCEPT ![c] = <<>>] /\ stage' = [stage EXCEPT ![c] = "off"]
          /\ UNCHANGED <<buffer, sendafterpoll, polls, usb, lost, conn, clocks, clocksent, clnumber,
                         calling, roster, time>>
      BY <2>5 DEF Upload
    <3>2. wire' \in [Clients -> Seq(Upward)]
      BY <3>1, QueueFacts DEF TypeInv, QueueTypes
    <3>3. NetTypes' /\ QueueTypes'
      BY <1>1, <2>1, <3>1, <3>2 DEF threads, TypeInv, QueueTypes, NetTypes
    <3>4. ProgramTypes'
      BY <3>1 DEF TypeInv, ProgramTypes
    <3> QED
      BY <2>3, <3>3, <3>4
  <2>6. CASE (ReceiveUSB(c) \/ SendUSB(c)) /\ UNCHANGED program
    BY <1>3, <1>4, <2>6
  <2> QED
    BY <2>4, <2>5, <2>6 DEF Interface, DeviceThread, UploadThread, Unplug, User, Others
<1> QED
  BY <1>3, <1>4, <1>6 DEF DeviceThread, Upload, Others

\* Another player's number is one of the room's, or none yet.
LEMMA NumberTypes ==
    ASSUME SlotTypes, NEW c \in Clients
    PROVE  /\ \A i \in OtherPlayers(c) : slots[i] \in Clients /\ Number(slots[i]) \in Slots \union {0}
           /\ GhostsFor(c) \in SUBSET Nat
<1>1. \A i \in OtherPlayers(c) : slots[i] \in Clients
  BY DEF OtherPlayers, SlotTypes
<1>2. \A d \in Clients : Number(d) \in Slots \union {0}
  BY DEF Number, SlotTypes
<1>3. Slots \union {0} \subseteq Nat
  BY DEF Slots
<1>4. GhostsFor(c) \subseteq Slots \union {0}
  BY <1>1, <1>2 DEF GhostsFor
<1> QED
  BY <1>1, <1>2, <1>3, <1>4

\* Who is introduced.
LEMMA IntroductionTypes ==
    ASSUME SlotTypes, NEW c \in Clients, NEW info \in Introductions(c), env.slots \in Nat
    PROVE  info \in Seq(Downward)
<1> DEFINE S == OtherPlayers(c)
<1>1. S \in SUBSET Slots /\ Slots \subseteq Nat /\ IsFiniteSet(S)
  <2>1. IsFiniteSet(Slots)
    BY FS_Interval DEF Slots
  <2>2. S \subseteq Slots
    BY DEF OtherPlayers
  <2> QED
    BY <2>1, <2>2, FS_Subset DEF Slots
<1>2. Cardinality(S) \in Nat
  BY <1>1, FS_CardinalityType
<1>3. PICK s \in InOrder(S) :
        info = [k \in DOMAIN s |-> Packet("PLAYERINFO", Number(slots[s[k]]), <<>>)]
  BY DEF Introductions
<1>4. s \in [1..Cardinality(S) -> S]
  BY <1>3 DEF InOrder
<1> DEFINE n == Cardinality(S)
<1>5. PICK m \in Nat : m = n
  BY <1>2
<1>6. \A k \in 1..m : Number(slots[s[k]]) \in Nat
  <2>1. \A i \in S : Number(slots[i]) \in Nat
    BY NumberTypes, 0 \in Nat DEF Slots
  <2> QED
    BY <1>4, <1>5, <2>1
<1>7. \A k \in 1..m : Packet("PLAYERINFO", Number(slots[s[k]]), <<>>) \in Downward
  BY <1>6, PacketTypes DEF DownTypes
<1>8. info \in [1..m -> Downward]
  BY <1>3, <1>4, <1>5, <1>7
<1> QED
  BY <1>5, <1>8, IsASequence

\* A thread of the server.
LEMMA ServerTypeSteps ==
    ASSUME TypeInv, NEW c \in Clients, ServerThread(c) \/ SendHeartbeat(c) \/ TimeOut(c)
    PROVE  NetTypes' /\ QueueTypes' /\ ProgramTypes' /\ OtherTypes'
<1>t. /\ toN64 \in [Clients -> Seq(Downward)] /\ msgqueue \in [Clients -> Seq(Upward)]
      /\ mailbox \in [Clients -> Seq(Downward)] /\ lastupdate \in [Slots -> Nat]
      /\ messages \in Seq(Inputs) /\ player \in [Clients -> Slots \union {0}]
      /\ env.slots \in Nat \ {0} /\ ghosts \in [Clients -> SUBSET Nat] /\ SlotTypes
  BY DEF TypeInv, SlotTypes, QueueTypes, OtherTypes
<1>1. UNCHANGED <<netlib, program, env, toServer, loaded, relay, closing, news>>
  BY DEF ServerThread, HandleConnect, HandleSync, HandleDone, SetNumber, Introduce, HandleUnexpected,
         HandleNothing, HandleInput, SendMessages, DisconnectPlayer, SendHeartbeat, TimeOut, Send,
         window, game
<1>2. used' \in [Rare -> Nat]
  <2>1. Freely \/ Use("beat") \/ Use("leave")
    BY DEF ServerThread, HandleConnect, HandleSync, HandleDone, SetNumber, Introduce, HandleUnexpected,
           HandleNothing, HandleInput, SendMessages, DisconnectPlayer, SendHeartbeat, TimeOut
  <2> QED
    BY <2>1, UsedTypes DEF Rare, TypeInv, OtherTypes
<1>3. NetTypes' /\ ProgramTypes'
  BY <1>1 DEF netlib, program, TypeInv, NetTypes, ProgramTypes
<1>4. /\ toN64' \in [Clients -> Seq(Downward)] /\ msgqueue' \in [Clients -> Seq(Upward)]
      /\ mailbox' \in [Clients -> Seq(Downward)]
      => QueueTypes'
  BY <1>1 DEF netlib, TypeInv, QueueTypes
<1>g. ghosts' \in [Clients -> SUBSET Nat]
  <2>1. CASE Introduce(c)
    <3>1. PICK g \in SUBSET Nat : g = GhostsFor(c)
      BY <1>t, NumberTypes
    <3> QED
      BY <1>t, <2>1, <3>1 DEF Introduce
  <2>2. CASE ~Introduce(c)
    <3>1. ghosts' = ghosts
      BY <2>2 DEF ServerThread, HandleConnect, HandleSync, HandleDone, SetNumber, HandleUnexpected,
                  HandleNothing, HandleInput, SendMessages, DisconnectPlayer, SendHeartbeat, TimeOut,
                  room
    <3> QED
      BY <1>t, <3>1
  <2> QED
    BY <2>1, <2>2
<1>5. lastupdate' \in [Slots -> Nat] /\ messages' \in Seq(Inputs) => OtherTypes'
  BY <1>1, <1>2, <1>g DEF TypeInv, OtherTypes, Slots, Inputs
<1>6. /\ lastupdate' \in [Slots -> Nat] /\ messages' \in Seq(Inputs)
      /\ toN64' \in [Clients -> Seq(Downward)] /\ msgqueue' \in [Clients -> Seq(Upward)]
      /\ mailbox' \in [Clients -> Seq(Downward)]
      => NetTypes' /\ QueueTypes' /\ ProgramTypes' /\ OtherTypes'
  BY <1>3, <1>4, <1>5
<1>7. ASSUME NEW pkts \in Seq(Downward), Send(c, pkts) PROVE toN64' \in [Clients -> Seq(Downward)]
  <2>1. [toN64 EXCEPT ![c] = @ \o pkts] \in [Clients -> Seq(Downward)]
    BY <1>t, QueueFacts
  <2>2. toN64' = [toN64 EXCEPT ![c] = @ \o pkts] \/ toN64' = [toN64 EXCEPT ![c] = @]
    BY <1>7 DEF Send
  <2> QED
    BY <1>t, <2>1, <2>2
<1>8. ASSUME NEW type \in DownTypes, NEW n \in Nat
      PROVE  <<Packet(type, n, <<>>)>> \in Seq(Downward) /\ <<Plain(type)>> \in Seq(Downward)
  <2>1. Packet(type, n, <<>>) \in Downward /\ Plain(type) \in Downward
    BY PacketTypes
  <2> QED
    BY <2>1
<1>9. \A k \in Places(c) : /\ msgqueue[c][k] \in Upward
                           /\ [msgqueue EXCEPT ![c] = Without(@, k)] \in [Clients -> Seq(Upward)]
  <2>1. \A k \in Places(c) : k \in DOMAIN msgqueue[c]
    BY <1>t DEF Places
  <2> QED
    BY <1>t, <2>1, QueueFacts
<1>10. ASSUME NEW pkt, Takes(c, pkt) PROVE msgqueue' \in [Clients -> Seq(Upward)]
  BY <1>9, <1>10 DEF Takes
<1>11. [msgqueue EXCEPT ![c] = <<>>] \in [Clients -> Seq(Upward)]
       /\ [mailbox EXCEPT ![c] = <<>>] \in [Clients -> Seq(Downward)]
  BY <1>t, QueueFacts
<1>12. ASSUME NEW type \in DownTypes
       PROVE  Tell(c, Packet(type, player[c], <<>>)) \in [Clients -> Seq(Downward)]
  <2>1. player[c] \in Nat
    BY <1>t DEF Slots
  <2>2. Packet(type, player[c], <<>>) \in Downward
    BY <2>1, PacketTypes
  <2>3. PICK pkt \in Downward : pkt = Packet(type, player[c], <<>>)
    BY <2>2
  <2>4. \A d \in Clients : mailbox[d] \in Seq(Downward)
    BY <1>t
  <2>5. \A d \in Clients : Append(mailbox[d], pkt) \in Seq(Downward)
    BY <2>4
  <2>6. Tell(c, pkt) \in [Clients -> Seq(Downward)]
    BY <2>4, <2>5 DEF Tell
  <2> QED
    BY <2>3, <2>6
<1>13. player[c] \in Nat
  BY <1>t DEF Slots
<1>14. CASE HandleConnect(c)
  <2>1. msgqueue' \in [Clients -> Seq(Upward)]
    BY <1>14, <1>10 DEF HandleConnect
  <2>2. toN64' \in [Clients -> Seq(Downward)]
    BY <1>14, <1>7, <1>8 DEF HandleConnect, DownTypes
  <2> QED
    BY <1>14, <1>t, <1>6, <2>1, <2>2 DEF HandleConnect, room, game
<1>15. CASE HandleSync(c)
  <2>1. msgqueue' \in [Clients -> Seq(Upward)]
    BY <1>15, <1>10 DEF HandleSync
  <2>2. toN64' \in [Clients -> Seq(Downward)]
    BY <1>15, <1>7, <1>8 DEF HandleSync, DownTypes
  <2> QED
    BY <1>15, <1>t, <1>6, <2>1, <2>2 DEF HandleSync, room, game
<1>16. CASE HandleDone(c)
  <2>1. msgqueue' \in [Clients -> Seq(Upward)]
    BY <1>16, <1>10 DEF HandleDone
  <2>2. lastupdate' = lastupdate \/ \E i \in Slots : lastupdate' = [lastupdate EXCEPT ![i] = 0]
    BY <1>16 DEF HandleDone, room
  <2>3. lastupdate' \in [Slots -> Nat]
    <3>1. 0 \in Nat
      OBVIOUS
    <3>2. ASSUME NEW i \in Slots PROVE [lastupdate EXCEPT ![i] = 0] \in [Slots -> Nat]
      BY <1>t, <3>1
    <3> QED
      BY <1>t, <2>2, <3>2
  <2> QED
    BY <1>16, <1>t, <1>6, <2>1, <2>3 DEF HandleDone, game, window
<1>s. CASE SetNumber(c)
  BY <1>s, <1>t, <1>6 DEF SetNumber, room, game, window
<1>17. CASE Introduce(c)
  <2>1. toN64' \in [Clients -> Seq(Downward)]
    BY <1>17, <1>7, <1>8, <1>13 DEF Introduce, DownTypes
  <2>2. PICK info \in Introductions(c) :
          mailbox' = [Tell(c, Packet("PLAYERINFO", player[c], <<>>)) EXCEPT ![c] = @ \o info]
    BY <1>17 DEF Introduce
  <2>3. info \in Seq(Downward)
    BY <1>t, IntroductionTypes
  <2>4. PICK box \in [Clients -> Seq(Downward)] : box = Tell(c, Packet("PLAYERINFO", player[c], <<>>))
    BY <1>12 DEF DownTypes
  <2>5. mailbox' \in [Clients -> Seq(Downward)]
    BY <2>2, <2>3, <2>4, QueueFacts
  <2> QED
    BY <1>17, <1>t, <1>6, <2>1, <2>5 DEF Introduce, room, game
<1>18. CASE HandleUnexpected(c) \/ HandleNothing(c)
  <2>1. msgqueue' \in [Clients -> Seq(Upward)]
    BY <1>18, <1>9, <1>11 DEF HandleUnexpected, HandleNothing
  <2> QED
    BY <1>18, <1>t, <1>6, <2>1 DEF HandleUnexpected, HandleNothing, room, game, window
<1>19. CASE HandleInput(c)
  <2>1. PICK k \in Places(c) :
          /\ msgqueue[c][k].type = "CLIENTINPUT"
          /\ messages' = Append(messages, [sender |-> player[c], times |-> msgqueue[c][k].times])
          /\ msgqueue' = [msgqueue EXCEPT ![c] = Without(@, k)]
    BY <1>19 DEF HandleInput
  <2>2. msgqueue' \in [Clients -> Seq(Upward)] /\ msgqueue[c][k] \in Upward
    BY <1>9, <2>1
  <2>3. msgqueue[c][k].times \in Times
    BY <2>1, <2>2 DEF Upward, UpTypes
  <2>4. player[c] \in Slots
    BY <1>19 DEF HandleInput, TypeInv, SlotsAreOwned
  <2>5. [sender |-> player[c], times |-> msgqueue[c][k].times] \in Inputs
    BY <2>3, <2>4 DEF Inputs
  <2>6. messages' \in Seq(Inputs)
    BY <1>t, <2>1, <2>5
  <2> QED
    BY <1>19, <1>t, <1>6, <2>2, <2>6 DEF HandleInput, room, window
<1>20. CASE SendMessages(c)
  <2>1. mailbox[c] \in Seq(Downward)
    BY <1>t
  <2>2. toN64' \in [Clients -> Seq(Downward)]
    BY <1>20, <1>7, <2>1 DEF SendMessages
  <2> QED
    BY <1>20, <1>t, <1>6, <1>11, <2>2 DEF SendMessages, room, game
<1>21. CASE DisconnectPlayer(c)
  BY <1>21, <1>t, <1>6, <1>11 DEF DisconnectPlayer, game, window
<1>22. CASE SendHeartbeat(c)
  <2>1. toN64' \in [Clients -> Seq(Downward)]
    BY <1>22, <1>7, <1>8 DEF SendHeartbeat, DownTypes
  <2> QED
    BY <1>22, <1>t, <1>6, <2>1 DEF SendHeartbeat, room, game, threads
<1>23. CASE TimeOut(c)
  <2>1. mailbox' \in [Clients -> Seq(Downward)] /\ msgqueue' \in [Clients -> Seq(Upward)]
    BY <1>23, <1>t, <1>11, <1>12 DEF TimeOut, DownTypes
  <2> QED
    BY <1>23, <1>t, <1>6, <2>1 DEF TimeOut, room, game, window
<1> QED
  BY <1>14, <1>15, <1>16, <1>s, <1>17, <1>18, <1>19, <1>20, <1>21, <1>22, <1>23 DEF ServerThread

\* The queue in between, and the game thread.
LEMMA OtherTypeSteps ==
    ASSUME TypeInv, GameThread \/ \E c \in Clients : RelayUp(c)
    PROVE  NetTypes' /\ QueueTypes' /\ ProgramTypes' /\ OtherTypes'
<1>t. /\ toServer \in [Clients -> Seq(Upward)] /\ msgqueue \in [Clients -> Seq(Upward)]
      /\ mailbox \in [Clients -> Seq(Downward)] /\ lastupdate \in [Slots -> Nat]
      /\ messages \in Seq(Inputs) /\ news \in BOOLEAN /\ env.may["input"] \in Nat
      /\ slots \in [Slots -> Clients \union {NoOne}]
  BY DEF TypeInv, SlotTypes, QueueTypes, OtherTypes, Rare
<1>1. UNCHANGED <<netlib, program, env, used, toN64, loaded, relay, closing, slots, ghosts>>
  BY DEF GameThread, DoUpdate, SendUpdates, RelayUp, room, Freely, window
<1>2. NetTypes' /\ ProgramTypes'
  BY <1>1 DEF netlib, program, TypeInv, NetTypes, ProgramTypes
<1>3. /\ toServer' \in [Clients -> Seq(Upward)] /\ msgqueue' \in [Clients -> Seq(Upward)]
      /\ mailbox' \in [Clients -> Seq(Downward)] /\ lastupdate' \in [Slots -> Nat]
      /\ messages' \in Seq(Inputs) /\ news' \in BOOLEAN
      => NetTypes' /\ QueueTypes' /\ ProgramTypes' /\ OtherTypes'
  BY <1>1, <1>2 DEF netlib, TypeInv, QueueTypes, OtherTypes, Slots, Inputs
<1>4. ASSUME NEW c \in Clients, RelayUp(c) PROVE NetTypes' /\ QueueTypes' /\ ProgramTypes' /\ OtherTypes'
  <2>1. Head(toServer[c]) \in Upward /\ toServer' \in [Clients -> Seq(Upward)]
    BY <1>4, <1>t, QueueFacts DEF RelayUp
  <2>2. msgqueue' \in [Clients -> Seq(Upward)]
    BY <1>4, <1>t, <2>1, QueueFacts DEF RelayUp
  <2> QED
    BY <1>4, <1>t, <1>3, <2>1, <2>2 DEF RelayUp, room, game
<1>5. CASE DoUpdate
  <2>1. Head(messages) \in Inputs /\ messages' \in Seq(Inputs)
    BY <1>5, <1>t DEF DoUpdate
  <2>2. PICK m \in Inputs : m = Head(messages)
    BY <2>1
  <2>3. PICK i \in Slots : i = m.sender
    BY DEF Inputs
  <2>4. AfterInputs(lastupdate[i], m.times) \in Nat
    BY <1>t DEF AfterInputs, Future, Inputs, Times
  <2>5. lastupdate' = lastupdate \/ lastupdate' = [lastupdate EXCEPT ![i] = AfterInputs(@, m.times)]
    BY <1>5, <2>2, <2>3 DEF DoUpdate
  <2>6. lastupdate' \in [Slots -> Nat]
    BY <1>t, <2>4, <2>5
  <2> QED
    BY <1>5, <1>t, <1>3, <2>1, <2>6 DEF DoUpdate, threads, window
<1>6. CASE SendUpdates
  <2>1. ASSUME NEW d \in Clients, \E i \in Slots : slots[i] = d
        PROVE  Append(mailbox[d], Packet("PLAYERUPDATE", lastupdate[CHOOSE i \in Slots : slots[i] = d], <<>>))
                  \in Seq(Downward)
    <3>1. PICK i \in Slots : i = CHOOSE j \in Slots : slots[j] = d
      BY <2>1
    <3>2. lastupdate[i] \in Nat
      BY <1>t
    <3>3. Packet("PLAYERUPDATE", lastupdate[i], <<>>) \in Downward
      BY <3>2, PacketTypes DEF DownTypes
    <3>4. mailbox[d] \in Seq(Downward)
      BY <1>t
    <3> QED
      BY <3>1, <3>3, <3>4
  <2>2. \A d \in Clients : mailbox[d] \in Seq(Downward)
    BY <1>t
  <2>3. mailbox' \in [Clients -> Seq(Downward)]
    BY <1>6, <2>1, <2>2 DEF SendUpdates
  <2> QED
    BY <1>6, <1>t, <1>3, <2>3 DEF SendUpdates, room, window
<1> QED
  BY <1>4, <1>5, <1>6 DEF GameThread

\* All types.
LEMMA TypeSteps ==
    ASSUME TypeInv, [Next]_vars
    PROVE  NetTypes' /\ QueueTypes' /\ ProgramTypes' /\ OtherTypes'
<1>1. CASE UNCHANGED vars
  <2>1. UNCHANGED <<netlib, loaded, relay, closing, toN64, toServer>> /\ UNCHANGED <<program, server, env, used>>
    BY <1>1 DEF vars, window
  <2>2. NetTypes' /\ QueueTypes'
    BY <2>1 DEF netlib, server, threads, TypeInv, NetTypes, QueueTypes
  <2>3. ProgramTypes'
    BY <2>1 DEF program, TypeInv, ProgramTypes
  <2>4. OtherTypes'
    BY <2>1 DEF server, room, game, TypeInv, OtherTypes, Slots, Inputs
  <2> QED
    BY <2>2, <2>3, <2>4
<1> QED
  BY <1>1, ProgramSteps, WindowTypeSteps, ServerTypeSteps, OtherTypeSteps DEF Next

LEMMA TypeInvariant == Spec => []TypeInv
<1> DEFINE Inv == NetTypes /\ QueueTypes /\ ProgramTypes /\ OtherTypes
<1>1. Init => Inv
  BY TypeInitially
<1>2. WindowInv /\ SlotTypes /\ SlotsAreOwned /\ Inv /\ [Next]_vars => Inv'
  BY TypeSteps DEF TypeInv
<1>3. WindowInv /\ SlotTypes /\ SlotsAreOwned /\ Inv => TypeInv
  BY DEF TypeInv
<1> QED
  BY <1>1, <1>2, <1>3, WindowInvariant, SlotInvariant, PTL DEF Spec

\* Every variable keeps its type: a packet that goes up is the N64's, one that goes down
\* the server's, and the game thread's messages are inputs of a number that exists.
THEOREM RealtimeTypes == Spec => []TypeOK
<1>1. TypeInv => TypeOK
  <2> SUFFICES ASSUME TypeInv PROVE TypeOK
    OBVIOUS
  <2>1. /\ device \in [Clients -> {"none", "starting", "loop", "upload", "joining", "dying", "dead"}]
        /\ rompath \in [Clients -> BOOLEAN]
        /\ upload \in [Clients -> {"none", "sending", "complete", "sent", "failed"}]
        /\ input \in [Clients -> Seq({"LOADROM", "CANCELLOAD"})]
        /\ status \in [Clients -> {"IDLE", "UPLOADING", "DEAD"}]
        /\ events \in [Clients -> Seq({"IDLE", "UPLOADING", "DEAD"})]
        /\ asked \in [Clients -> Nat] /\ uploads \in [Clients -> Nat]
    BY DEF TypeInv, WindowInv, WindowTypes, DevicePlaces, Messages, Statuses
  <2>2. /\ thread \in [Clients -> {"none", "unconnected", "connecting", "taking", "joining", "connected",
                             "leaving"}]
        /\ player \in [Clients -> Slots \union {0}]
        /\ slots \in [Slots -> Clients \union {NoOne}]
    BY DEF TypeInv, SlotTypes, Phases, Joined
  <2>3. NetTypes /\ QueueTypes /\ ProgramTypes /\ OtherTypes
    BY DEF TypeInv
  <2> QED
    BY <2>1, <2>2, <2>3, Zenon DEF NetTypes, QueueTypes, ProgramTypes, OtherTypes, TypeOK
<1> QED
  BY <1>1, TypeInvariant, PTL

-----------------------------------------------------------------------------
(* What is in a queue *)

LEMMA CountIsNat ==
    ASSUME NEW S, NEW s \in Seq(S), NEW type
    PROVE  /\ Count(s, type) \in Nat
           /\ Count(s, type) = 0 <=> \A k \in DOMAIN s : s[k].type # type
<1> DEFINE At == { k \in 1..Len(s) : s[k].type = type }
<1>1. IsFiniteSet(1..Len(s)) /\ Len(s) \in Nat /\ DOMAIN s = 1..Len(s)
  BY FS_Interval
<1>2. IsFiniteSet(At)
  BY <1>1, FS_Subset
<1>3. Cardinality(At) \in Nat /\ (Cardinality(At) = 0 <=> At = {})
  BY <1>2, FS_CardinalityType, FS_EmptySet
<1>4. Count(s, type) = Cardinality(At)
  BY DEF Count
<1>5. At = {} <=> \A k \in DOMAIN s : s[k].type # type
  BY <1>1
<1> QED
  BY <1>3, <1>4, <1>5

LEMMA CountTogether ==
    ASSUME NEW S, NEW s \in Seq(S), NEW r \in Seq(S), NEW type
    PROVE  Count(s \o r, type) = Count(s, type) + Count(r, type)
<1> DEFINE At(q) == { k \in 1..Len(q) : q[k].type = type }
           n == Len(s)
           Later == { k + n : k \in At(r) }
           f == [k \in At(r) |-> k + n]
<1>1. n \in Nat /\ Len(r) \in Nat /\ Len(s \o r) = n + Len(r)
  OBVIOUS
<1>2. IsFiniteSet(At(s)) /\ IsFiniteSet(At(r))
  <2>1. IsFiniteSet(1..Len(s)) /\ IsFiniteSet(1..Len(r))
    BY <1>1, FS_Interval
  <2>2. At(s) \in SUBSET (1..Len(s)) /\ At(r) \in SUBSET (1..Len(r))
    OBVIOUS
  <2> QED
    BY <2>1, <2>2, FS_Subset
<1>3. \A k \in At(r) : k \in Nat
  BY <1>1
<1>4. IsFiniteSet(Later) /\ Cardinality(Later) = Cardinality(At(r))
  <2>1. f \in [At(r) -> Later]
    OBVIOUS
  <2>2. \A j, k \in At(r) : f[j] = f[k] => j = k
    BY <1>1, <1>3
  <2>3. \A x \in Later : \E k \in At(r) : f[k] = x
    OBVIOUS
  <2>4. f \in Bijection(At(r), Later)
    BY <2>1, <2>2, <2>3 DEF Bijection, Injection, Surjection, IsInjective
  <2>5. ExistsBijection(At(r), Later)
    BY <2>4 DEF ExistsBijection
  <2> QED
    BY <1>2, <2>5, FS_Bijection
<1>5. At(s) \cap Later = {}
  BY <1>1, <1>3
<1>6. At(s \o r) = At(s) \union Later
  <2>1. ASSUME NEW k \in At(s \o r) PROVE k \in At(s) \union Later
    <3>1. k \in 1..(n + Len(r)) /\ (s \o r)[k].type = type
      BY <1>1
    <3>2. CASE k <= n
      BY <1>1, <3>1, <3>2
    <3>3. CASE k > n
      <4>1. k - n \in 1..Len(r) /\ (s \o r)[k] = r[k - n]
        BY <1>1, <3>1, <3>3
      <4>2. k - n \in At(r) /\ k = (k - n) + n
        BY <1>1, <3>1, <4>1
      <4> QED
        BY <4>2
    <3> QED
      BY <1>1, <3>1, <3>2, <3>3
  <2>2. ASSUME NEW k \in At(s) PROVE k \in At(s \o r)
    BY <1>1
  <2>3. ASSUME NEW k \in At(r) PROVE k + n \in At(s \o r)
    <3>1. k + n \in 1..(n + Len(r)) /\ (s \o r)[k + n] = r[k]
      BY <1>1
    <3> QED
      BY <1>1, <3>1
  <2> QED
    BY <2>1, <2>2, <2>3
<1>7. Cardinality({}) = 0
  BY FS_EmptySet
<1>8. Cardinality(At(s)) \in Nat /\ Cardinality(Later) \in Nat
  BY <1>2, <1>4, FS_CardinalityType
<1>9. Cardinality(At(s) \union Later)
         = Cardinality(At(s)) + Cardinality(Later) - Cardinality(At(s) \cap Later)
  BY <1>2, <1>4, FS_Union
<1>10. Cardinality(At(s) \union Later) = Cardinality(At(s)) + Cardinality(Later)
  <2>1. Cardinality(At(s) \cap Later) = 0
    BY <1>5, <1>7
  <2> HIDE DEF At, Later
  <2> QED
    BY <1>8, <1>9, <2>1
<1>11. \A q : Count(q, type) = Cardinality(At(q))
  BY DEF Count
<1> QED
  BY <1>4, <1>6, <1>10, <1>11

LEMMA CountOne ==
    ASSUME NEW m, NEW type
    PROVE  Count(<<m>>, type) = IF m.type = type THEN 1 ELSE 0
<1>1. Count(<<m>>, type) = Cardinality({ k \in 1..1 : m.type = type })
  BY DEF Count
<1>2. { k \in 1..1 : m.type = type } = IF m.type = type THEN {1} ELSE {}
  OBVIOUS
<1> QED
  BY <1>1, <1>2, FS_EmptySet, FS_Singleton

\* What happens to the number of packets of a type in a queue.
LEMMA CountFacts ==
    ASSUME NEW S, NEW s \in Seq(S), NEW type
    PROVE  /\ Count(<<>>, type) = 0
           /\ \A m \in S : Count(Append(s, m), type) = Count(s, type) + Count(<<m>>, type)
           /\ s # <<>> => Count(s, type) = Count(Tail(s), type) + Count(<<Head(s)>>, type)
           /\ \A k \in DOMAIN s : Count(s, type) = Count(Without(s, k), type) + Count(<<s[k]>>, type)
<1>1. Count(<<>>, type) = 0
  <2>1. <<>> \in Seq(S) /\ DOMAIN <<>> = {}
    OBVIOUS
  <2> QED
    BY <2>1, CountIsNat
<1>2. ASSUME NEW m \in S PROVE Count(Append(s, m), type) = Count(s, type) + Count(<<m>>, type)
  <2>1. <<m>> \in Seq(S) /\ Append(s, m) = s \o <<m>>
    OBVIOUS
  <2>2. Count(s \o <<m>>, type) = Count(s, type) + Count(<<m>>, type)
    BY <2>1, CountTogether
  <2> QED
    BY <2>1, <2>2
<1>3. ASSUME s # <<>> PROVE Count(s, type) = Count(Tail(s), type) + Count(<<Head(s)>>, type)
  <2>1. Head(s) \in S /\ Tail(s) \in Seq(S)
    BY <1>3
  <2>2. <<Head(s)>> \in Seq(S) /\ s = <<Head(s)>> \o Tail(s)
    BY <1>3, <2>1
  <2>3. Count(s, type) = Count(<<Head(s)>>, type) + Count(Tail(s), type)
    BY <2>1, <2>2, CountTogether, ZenonT(40)
  <2>4. Count(<<Head(s)>>, type) \in Nat /\ Count(Tail(s), type) \in Nat
    BY <2>1, <2>2, CountIsNat
  <2> QED
    BY <2>3, <2>4
<1>4. ASSUME NEW k \in DOMAIN s
      PROVE  Count(s, type) = Count(Without(s, k), type) + Count(<<s[k]>>, type)
  <2> DEFINE a == SubSeq(s, 1, k - 1)
             b == SubSeq(s, k + 1, Len(s))
  <2>1. k \in 1..Len(s) /\ Len(s) \in Nat /\ s[k] \in S
    OBVIOUS
  <2>2. a \in Seq(S) /\ b \in Seq(S) /\ <<s[k]>> \in Seq(S)
    BY <2>1
  <2>3. s = a \o (<<s[k]>> \o b)
    BY SplitAtElement
  <2>4. <<s[k]>> \o b \in Seq(S)
    BY <2>2
  <2> HIDE DEF a, b
  <2>5. Count(s, type) = Count(a, type) + (Count(<<s[k]>>, type) + Count(b, type))
    <3>1. Count(a \o (<<s[k]>> \o b), type) = Count(a, type) + Count(<<s[k]>> \o b, type)
      BY <2>2, <2>4, CountTogether
    <3>2. Count(<<s[k]>> \o b, type) = Count(<<s[k]>>, type) + Count(b, type)
      BY <2>2, CountTogether
    <3> QED
      BY <2>3, <3>1, <3>2
  <2>6. Count(Without(s, k), type) = Count(a, type) + Count(b, type)
    BY <2>2, CountTogether DEF Without, a, b
  <2>7. Count(a, type) \in Nat /\ Count(b, type) \in Nat /\ Count(<<s[k]>>, type) \in Nat
    BY <2>2, CountIsNat
  <2> QED
    BY <2>5, <2>6, <2>7
<1> QED
  BY <1>1, <1>2, <1>3, <1>4

LEMMA TypesStay == TypeInv /\ [Next]_vars => TypeInv'
<1> SUFFICES ASSUME TypeInv, [Next]_vars PROVE TypeInv'
  OBVIOUS
<1>1. NetTypes' /\ QueueTypes' /\ ProgramTypes' /\ OtherTypes'
  BY TypeSteps
<1>2. WindowInv'
  BY WindowKept DEF TypeInv
<1>3. SlotTypes' /\ SlotsAreOwned'
  BY OwnershipKept DEF TypeInv
<1> QED
  BY <1>1, <1>2, <1>3 DEF TypeInv

\* What happens to the packets of a type in a client's queue: one is added, ...
LEMMA PostCount ==
    ASSUME NEW S, NEW queue \in [Clients -> Seq(S)], NEW c \in Clients, NEW m \in S, NEW type
    PROVE  Count(Post(queue, c, m)[c], type) = Count(queue[c], type) + Count(<<m>>, type)
<1>1. queue[c] \in Seq(S) /\ Post(queue, c, m)[c] = Append(queue[c], m)
  BY DEF Post
<1>2. PICK q \in Seq(S) : q = queue[c]
  BY <1>1
<1>3. Count(Append(q, m), type) = Count(q, type) + Count(<<m>>, type)
  <2>1. <<m>> \in Seq(S) /\ Append(q, m) = q \o <<m>>
    OBVIOUS
  <2> QED
    BY <2>1, CountTogether, ZenonT(40)
<1> QED
  BY <1>1, <1>2, <1>3

\* ... the first is taken, ...
LEMMA TailCount ==
    ASSUME NEW S, NEW queue \in [Clients -> Seq(S)], NEW c \in Clients, queue[c] # <<>>, NEW type
    PROVE  /\ Count([queue EXCEPT ![c] = Tail(@)][c], type) \in Nat
           /\ Count(queue[c], type)
                 = Count([queue EXCEPT ![c] = Tail(@)][c], type) + Count(<<Head(queue[c])>>, type)
<1>1. queue[c] \in Seq(S) /\ [queue EXCEPT ![c] = Tail(@)][c] = Tail(queue[c])
  OBVIOUS
<1>2. PICK q \in Seq(S) : q = queue[c]
  BY <1>1
<1>3. Tail(q) \in Seq(S)
  BY <1>2
<1>4. Count(Tail(q), type) \in Nat
  BY <1>3, CountIsNat
<1>5. Count(q, type) = Count(Tail(q), type) + Count(<<Head(q)>>, type)
  BY <1>2, CountFacts
<1> QED
  BY <1>1, <1>2, <1>4, <1>5

\* ... any is, ...
LEMMA WithoutCount ==
    ASSUME NEW S, NEW queue \in [Clients -> Seq(S)], NEW c \in Clients, NEW k \in DOMAIN queue[c],
           NEW type
    PROVE  /\ queue[c][k] \in S
           /\ Count([queue EXCEPT ![c] = Without(@, k)][c], type) \in Nat
           /\ Count(queue[c], type)
                 = Count([queue EXCEPT ![c] = Without(@, k)][c], type) + Count(<<queue[c][k]>>, type)
<1>1. queue[c] \in Seq(S) /\ [queue EXCEPT ![c] = Without(@, k)][c] = Without(queue[c], k)
  OBVIOUS
<1>2. PICK q \in Seq(S) : q = queue[c]
  BY <1>1
<1>3. SubSeq(q, 1, k - 1) \in Seq(S) /\ SubSeq(q, k + 1, Len(q)) \in Seq(S) /\ q[k] \in S
  BY <1>2
<1>4. Without(q, k) \in Seq(S)
  BY <1>3 DEF Without
<1>5. Count(Without(q, k), type) \in Nat
  BY <1>4, CountIsNat
<1>6. Count(q, type) = Count(Without(q, k), type) + Count(<<q[k]>>, type)
  BY <1>2, CountFacts, ZenonT(40)
<1> QED
  BY <1>1, <1>2, <1>3, <1>5, <1>6

\* ... or all are.
LEMMA ClearCount ==
    ASSUME NEW S, NEW queue \in [Clients -> Seq(S)], NEW c \in Clients, NEW type
    PROVE  Count([queue EXCEPT ![c] = <<>>][c], type) = 0
<1>1. queue[c] \in Seq(S) /\ [queue EXCEPT ![c] = <<>>][c] = <<>>
  OBVIOUS
<1> QED
  BY <1>1, CountFacts

-----------------------------------------------------------------------------
(* The handshake *)

Shake == {"CLIENTCONNECT", "CLOCKSYNC", "DONESYNC"}

\* The packet that is to be written is of a type.
Holds(c, type) == sendafterpoll[c] /\ buffer[c].type = type

\* The packets of a type between the N64's write buffer and its callbacks: on their way
\* to the server, and back.
Traffic(c, type) ==
    Count(wire[c], type) + Count(toServer[c], type) + Count(msgqueue[c], type)
        + Count(toN64[c], type) + Count(usb[c], type)

\* Nothing runs on an N64 without its ROM, and only who called netlib_sendtoserver has
\* something to write.
Booted(c) ==
    /\ uploads[c] = 0 => stage[c] = "off" /\ ~loaded[c] /\ device[c] \notin {"upload", "joining"}
    /\ polls[c] = 0 => ~sendafterpoll[c] /\ calling[c] = ""

\* A packet of the handshake is in the write buffer exactly while the program is in the
\* call that sends it, and no callback runs inside that sends another.
OwnCall(c) ==
    \A type \in Shake :
        /\ Holds(c, type) <=> calling[c] = type
        /\ calling[c] = type => polls[c] = 1

\* Where the program is in its handshake, by what it is calling and waiting for.
Progress(c) ==
    /\ stage[c] = "disconnected" => conn[c] = "plyinfo" \/ calling[c] = "DONESYNC"
    /\ stage[c] \in {"off", "start"} => conn[c] = "unconnected" /\ calling[c] = ""
    /\ stage[c] = "game" => conn[c] = "plyinfo"
    /\ calling[c] = "CLIENTCONNECT" => conn[c] = "unconnected"
    /\ calling[c] = "CLOCKSYNC" => conn[c] = "syncing" /\ ~clocksent[c] /\ clocks[c] < CLOCKCOUNT
    /\ calling[c] = "DONESYNC" => conn[c] = "syncing" /\ ~clocksent[c]
    /\ calling[c] = "CLIENTINPUT" => conn[c] = "plyinfo"
    /\ clocksent[c] => conn[c] = "syncing" /\ clocks[c] < CLOCKCOUNT
    /\ clocks[c] <= CLOCKCOUNT

\* A packet of the handshake that the program waits for, or the last, for which it
\* does not wait.
Awaits(c, type) ==
    \/ type = "CLIENTCONNECT" /\ stage[c] = "init" /\ conn[c] = "unconnected" /\ calling[c] = ""
    \/ type = "CLOCKSYNC" /\ clocksent[c]
    \/ type = "DONESYNC" /\ conn[c] = "plyinfo"

\* At most one such packet is between the buffer and the callbacks.
OneAtATime(c) ==
    \A type \in Shake : Traffic(c, type) = 0 \/ (Traffic(c, type) = 1 /\ Awaits(c, type))

\* What only a player is sent.
ForPlayers == {"CLIENTINFO", "PLAYERINFO", "PLAYERDISCONNECT", "PLAYERUPDATE", "ACKBEAT"}

SentAsPlayer(queue) == \E k \in DOMAIN queue : queue[k].type \in ForPlayers

\* The client is or was a player.
TakenIn(c) == thread[c] \in Joined \/ SentAsPlayer(toN64[c]) \/ SentAsPlayer(usb[c])

\* Then it has said that its handshake is over, and that has been read.
Over(c) == TakenIn(c) => conn[c] = "plyinfo" /\ Traffic(c, "DONESYNC") = 0

\* No packet of the handshake was lost.
NoneLost(c) == \A pkt \in lost[c] : pkt.type \notin Shake

Shaking(c) == OwnCall(c) /\ Progress(c) /\ OneAtATime(c) /\ Over(c) /\ NoneLost(c)

\* A mailbox is a player's, and holds what players are sent.
Mailboxes ==
    \A c \in Clients :
        /\ mailbox[c] # <<>> => thread[c] \in Joined
        /\ \A k \in DOMAIN mailbox[c] : mailbox[c][k].type \in ForPlayers

HandshakeInv == Mailboxes /\ \A c \in Clients : Booted(c) /\ (FirstTry(c) => Shaking(c))

\* Nothing of a client changes but its mailbox.
Unmoved(c) ==
    /\ buffer'[c] = buffer[c] /\ sendafterpoll'[c] = sendafterpoll[c] /\ polls'[c] = polls[c]
    /\ usb'[c] = usb[c] /\ wire'[c] = wire[c] /\ lost'[c] = lost[c]
    /\ device'[c] = device[c] /\ loaded'[c] = loaded[c] /\ uploads'[c] = uploads[c]
    /\ toN64'[c] = toN64[c] /\ toServer'[c] = toServer[c]
    /\ relay'[c] = relay[c] /\ closing'[c] = closing[c]
    /\ stage'[c] = stage[c] /\ conn'[c] = conn[c] /\ clocks'[c] = clocks[c]
    /\ clocksent'[c] = clocksent[c] /\ clnumber'[c] = clnumber[c] /\ calling'[c] = calling[c]
    /\ roster'[c] = roster[c] /\ time'[c] = time[c]
    /\ thread'[c] = thread[c] /\ player'[c] = player[c] /\ msgqueue'[c] = msgqueue[c]

\* What a client, its window or its thread does is not felt elsewhere.
LEMMA OnlyThere ==
    ASSUME TypeInv, NEW c \in Clients, NEW d \in Clients, d # c,
           \/ N64(c) \/ Boot(c) \/ SendInputs(c) \/ LoseServer(c) \/ Retry(c)
           \/ Interface(c) \/ DeviceThread(c) \/ UploadThread(c) \/ RelayUp(c)
           \/ Unplug(c) \/ User(c)
           \/ ServerThread(c) \/ SendHeartbeat(c) \/ TimeOut(c)
    PROVE  Unmoved(d)
<1>t. /\ DOMAIN buffer = Clients /\ DOMAIN sendafterpoll = Clients /\ DOMAIN polls = Clients
      /\ DOMAIN usb = Clients /\ DOMAIN wire = Clients /\ DOMAIN lost = Clients
      /\ DOMAIN device = Clients /\ DOMAIN loaded = Clients /\ DOMAIN uploads = Clients
      /\ DOMAIN toN64 = Clients /\ DOMAIN toServer = Clients
      /\ DOMAIN relay = Clients /\ DOMAIN closing = Clients
      /\ DOMAIN stage = Clients /\ DOMAIN conn = Clients /\ DOMAIN clocks = Clients
      /\ DOMAIN clocksent = Clients /\ DOMAIN clnumber = Clients /\ DOMAIN calling = Clients
      /\ DOMAIN roster = Clients /\ DOMAIN time = Clients
      /\ DOMAIN thread = Clients /\ DOMAIN player = Clients /\ DOMAIN msgqueue = Clients
  BY DEF TypeInv, WindowInv, WindowTypes, SlotTypes, NetTypes, QueueTypes, ProgramTypes, OtherTypes
<1>1. CASE N64(c) \/ Boot(c) \/ SendInputs(c) \/ LoseServer(c) \/ Retry(c)
  <2>1. UNCHANGED <<window, server>>
    BY <1>1 DEF N64, EnterInit, InitStage, RequestClock, DoneSync, Callback, PollEnds, Boot, SendInputs, LoseServer, Retry
  <2>2. CASE EnterInit(c) \/ Retry(c) \/ RequestClock(c) \/ DoneSync(c) \/ SendInputs(c)
    BY <1>t, <2>1, <2>2 DEF EnterInit, InitStage, Retry, RequestClock, DoneSync, SendInputs, Call, SendToServer,
       TakeBuffer, window, server, threads, Unmoved
  <2>3. CASE Callback(c)
    BY <1>t, <2>1, <2>3 DEF Callback, ReadPacket, TakeBuffer, window, server, threads, Unmoved
  <2>4. CASE PollEnds(c)
    BY <1>t, <2>1, <2>4 DEF PollEnds, EndPoll, window, server, threads, Unmoved
  <2>5. CASE Boot(c)
    BY <1>t, <2>1, <2>5 DEF Boot, NetLibStarts, window, server, threads, Unmoved
  <2>6. CASE LoseServer(c)
    BY <1>t, <2>1, <2>6 DEF LoseServer, netlib, window, server, threads, Unmoved
  <2> QED
    BY <1>1, <2>2, <2>3, <2>4, <2>5, <2>6 DEF N64
<1>2. CASE Interface(c) \/ DeviceThread(c) \/ UploadThread(c) \/ Unplug(c) \/ User(c)
  <2>1. UNCHANGED <<threads, clnumber, calling, roster, time, conn, clocks, clocksent,
                    buffer, sendafterpoll, polls, lost>>
    BY <1>2 DEF Interface, DeviceThread, UploadThread, Unplug, User, Upload, ReceiveUSB, SendUSB, Others,
       program, server, netlib
  <2>2. CASE Interface(c) \/ User(c)
    BY <1>t, <2>1, <2>2 DEF Interface, User, BeginWorking, ThreadEvent, RelayStops, Click, Close,
       StartThread, NewDeviceThread, Others, program, netlib, threads, Unmoved
  <2>3. CASE UploadThread(c) \/ Unplug(c)
    BY <1>t, <2>1, <2>3 DEF UploadThread, SendROM, UploadEnds, Unplug, LoseCart, Becomes, Others, program, netlib,
       threads, Unmoved
  <2>4. CASE Upload(c)
    BY <1>t, <2>1, <2>4 DEF Upload, StartUpload, Becomes, server, threads, Unmoved
  <2>5. CASE (ReceiveUSB(c) \/ SendUSB(c)) /\ UNCHANGED Others
    BY <1>t, <2>1, <2>5 DEF ReceiveUSB, SendUSB, Post, Others, program, threads, Unmoved
  <2>6. CASE /\ \/ FindCart(c) \/ LeaveLoop(c) \/ DeviceEnds(c) \/ UploadOver(c)
                \/ InterruptUpload(c) \/ JoinUpload(c) \/ HandleMainInput(c)
             /\ UNCHANGED <<netlib, Others>>
    BY <1>t, <2>1, <2>6 DEF FindCart, LeaveLoop, DeviceEnds, UploadOver, InterruptUpload, JoinUpload,
       HandleMainInput, LeaveUpload, Becomes, Others, program, netlib, threads, Unmoved
  <2> QED
    BY <1>2, <2>2, <2>3, <2>4, <2>5, <2>6 DEF DeviceThread
<1>3. CASE RelayUp(c)
  BY <1>t, <1>3 DEF RelayUp, Post, netlib, program, Unmoved
<1>4. CASE ServerThread(c) \/ SendHeartbeat(c) \/ TimeOut(c)
  <2>1. /\ UNCHANGED <<netlib, program, device, loaded, uploads, toServer, relay, closing>>
        /\ toN64' = toN64 \/ \E pkts : Send(c, pkts)
    BY <1>4 DEF ServerThread, HandleConnect, HandleSync, HandleDone, SetNumber, Introduce, HandleUnexpected,
           HandleNothing, HandleInput, SendMessages, DisconnectPlayer, SendHeartbeat, TimeOut, Send,
           window
  <2>2. toN64'[d] = toN64[d]
    BY <1>t, <2>1 DEF Send
  <2>3. thread'[d] = thread[d] /\ player'[d] = player[d] /\ msgqueue'[d] = msgqueue[d]
    BY <1>4, <1>t, ZenonT(40) DEF ServerThread, HandleConnect, HandleSync, HandleDone, SetNumber,
           Introduce, HandleUnexpected,
           HandleNothing, HandleInput, SendMessages, DisconnectPlayer, SendHeartbeat, TimeOut, Takes,
           threads
  <2> QED
    BY <2>1, <2>2, <2>3 DEF netlib, program, Unmoved
<1> QED
  BY <1>1, <1>2, <1>3, <1>4

\* The game thread writes to mailboxes only.
LEMMA GameIsElsewhere ==
    ASSUME GameThread \/ UNCHANGED vars, NEW d \in Clients
    PROVE  Unmoved(d)
<1>1. UNCHANGED <<netlib, window, program, thread, player, msgqueue>>
  BY DEF GameThread, DoUpdate, SendUpdates, vars, server, threads
<1> QED
  BY <1>1 DEF netlib, window, program, Unmoved

\* Rare things are counted, and the environment stays.
LEMMA RareCounted ==
    ASSUME TypeInv, [Next]_vars
    PROVE  /\ env' = env
           /\ \A r \in Rare : used[r] \in Nat /\ used'[r] \in Nat /\ used[r] <= used'[r]
<1>1. used \in [Rare -> Nat]
  BY DEF TypeInv, OtherTypes, Rare
<1>2. Freely \/ \E r \in Rare : Use(r)
  <2>1. CASE UNCHANGED vars
    BY <2>1 DEF vars, Freely
  <2>2. CASE GameThread \/ \E c \in Clients : RelayUp(c)
    BY <2>2 DEF GameThread, DoUpdate, SendUpdates, RelayUp
  <2>3. ASSUME NEW d \in Clients, N64(d) \/ Boot(d) \/ SendInputs(d) \/ LoseServer(d) \/ Retry(d)
        PROVE  Freely \/ Use("input") \/ Use("jump") \/ Use("silence") \/ Use("retry")
    BY <2>3 DEF N64, EnterInit, InitStage, RequestClock, DoneSync, Callback, PollEnds, Boot, SendInputs, LoseServer, Retry
  <2>4. ASSUME NEW d \in Clients,
               Interface(d) \/ DeviceThread(d) \/ UploadThread(d) \/ Unplug(d) \/ User(d)
        PROVE  Freely \/ Use("unplug") \/ Use("click") \/ Use("close")
    BY <2>4 DEF Interface, DeviceThread, UploadThread, Unplug, User, Upload
  <2>5. ASSUME NEW d \in Clients, ServerThread(d) \/ SendHeartbeat(d) \/ TimeOut(d)
        PROVE  Freely \/ Use("beat") \/ Use("leave")
    BY <2>5 DEF ServerThread, HandleConnect, HandleSync, HandleDone, SetNumber, Introduce, HandleUnexpected,
           HandleNothing, HandleInput, SendMessages, DisconnectPlayer, SendHeartbeat, TimeOut
  <2>6. {"input", "jump", "silence", "retry", "unplug", "click", "close", "beat", "leave"} \subseteq Rare
    BY DEF Rare
  <2> QED
    BY <2>1, <2>2, <2>3, <2>4, <2>5, <2>6 DEF Next
<1>3. env' = env
  <2>1. CASE UNCHANGED vars
    BY <2>1 DEF vars
  <2>2. CASE GameThread \/ \E c \in Clients : RelayUp(c)
    BY <2>2 DEF GameThread, DoUpdate, SendUpdates, RelayUp
  <2>3. ASSUME NEW d \in Clients, N64(d) \/ Boot(d) \/ SendInputs(d) \/ LoseServer(d) \/ Retry(d)
        PROVE  env' = env
    BY <2>3 DEF N64, EnterInit, InitStage, RequestClock, DoneSync, Callback, PollEnds, Boot, SendInputs, LoseServer, Retry
  <2>4. ASSUME NEW d \in Clients,
               Interface(d) \/ DeviceThread(d) \/ UploadThread(d) \/ Unplug(d) \/ User(d)
        PROVE  env' = env
    BY <2>4 DEF Interface, DeviceThread, UploadThread, Unplug, User, Upload, Others
  <2>5. ASSUME NEW d \in Clients, ServerThread(d) \/ SendHeartbeat(d) \/ TimeOut(d)
        PROVE  env' = env
    BY <2>5 DEF ServerThread, HandleConnect, HandleSync, HandleDone, SetNumber, Introduce, HandleUnexpected,
           HandleNothing, HandleInput, SendMessages, DisconnectPlayer, SendHeartbeat, TimeOut, Send
  <2> QED
    BY <2>1, <2>2, <2>3, <2>4, <2>5 DEF Next
<1> QED
  BY <1>1, <1>2, <1>3, UsedTypes

\* Who is at its first try has been since it began.
LEMMA FirstTries ==
    ASSUME TypeInv, [Next]_vars, NEW c \in Clients, FirstTry(c)'
    PROVE  FirstTry(c)
<1>1. \A r \in {"silence", "retry"} : used[r] <= used'[r] /\ used[r] \in Nat /\ used'[r] \in Nat
  BY RareCounted DEF Rare
<1>2. uploads[c] <= uploads'[c] /\ uploads[c] \in Nat /\ uploads'[c] \in Nat
  <2>1. uploads \in [Clients -> Nat]
    BY DEF TypeInv, WindowInv, WindowTypes
  <2>2. uploads' = uploads \/ \E d \in Clients : uploads' = [uploads EXCEPT ![d] = @ + 1]
    <3>1. CASE UNCHANGED work
      BY <3>1 DEF work
    <3>2. ASSUME NEW d \in Clients, WindowStep(d) PROVE uploads' = uploads \/ StartUpload(d)
      BY <3>2 DEF WindowStep, BeginWorking, ThreadEvent, Click, FindCart, LoseCart, LeaveLoop, DeviceEnds,
             SendROM, UploadEnds, UploadOver, InterruptUpload, JoinUpload, HandleMainInput
    <3> QED
      BY <3>1, <3>2, WindowSteps DEF StartUpload
  <2> QED
    BY <2>1, <2>2
<1> QED
  BY <1>1, <1>2 DEF FirstTry

LEMMA TrafficIsNat ==
    ASSUME QueueTypes, NEW c \in Clients, NEW type
    PROVE  /\ Count(wire[c], type) \in Nat /\ Count(toServer[c], type) \in Nat
           /\ Count(msgqueue[c], type) \in Nat /\ Count(toN64[c], type) \in Nat
           /\ Count(usb[c], type) \in Nat /\ Traffic(c, type) \in Nat
<1>1. /\ wire[c] \in Seq(Upward) /\ toServer[c] \in Seq(Upward) /\ msgqueue[c] \in Seq(Upward)
      /\ toN64[c] \in Seq(Downward) /\ usb[c] \in Seq(Downward)
  BY DEF QueueTypes
<1>2. /\ Count(wire[c], type) \in Nat /\ Count(toServer[c], type) \in Nat
      /\ Count(msgqueue[c], type) \in Nat /\ Count(toN64[c], type) \in Nat
      /\ Count(usb[c], type) \in Nat
  BY <1>1, CountIsNat
<1> QED
  BY <1>2 DEF Traffic

\* What players are sent, as a queue grows and is read.
LEMMA SentFacts ==
    ASSUME NEW S, NEW s \in Seq(S)
    PROVE  /\ ~SentAsPlayer(<<>>)
           /\ \A m \in S : SentAsPlayer(Append(s, m)) => SentAsPlayer(s) \/ m.type \in ForPlayers
           /\ s # <<>> => /\ SentAsPlayer(Tail(s)) => SentAsPlayer(s)
                          /\ Head(s).type \in ForPlayers => SentAsPlayer(s)
           /\ \A r \in Seq(S) : SentAsPlayer(s \o r) => SentAsPlayer(s) \/ SentAsPlayer(r)
<1>1. ~SentAsPlayer(<<>>)
  BY DEF SentAsPlayer
<1>2. ASSUME NEW m \in S, SentAsPlayer(Append(s, m)) PROVE SentAsPlayer(s) \/ m.type \in ForPlayers
  <2>1. PICK k \in DOMAIN Append(s, m) : Append(s, m)[k].type \in ForPlayers
    BY <1>2 DEF SentAsPlayer
  <2>2. \/ k \in DOMAIN s /\ Append(s, m)[k] = s[k]
        \/ Append(s, m)[k] = m
    OBVIOUS
  <2> QED
    BY <2>1, <2>2 DEF SentAsPlayer
<1>3. ASSUME s # <<>>, SentAsPlayer(Tail(s)) PROVE SentAsPlayer(s)
  BY <1>3, TailFacts DEF SentAsPlayer
<1>4. ASSUME s # <<>>, Head(s).type \in ForPlayers PROVE SentAsPlayer(s)
  BY <1>4, TailFacts DEF SentAsPlayer
<1>5. ASSUME NEW r \in Seq(S), SentAsPlayer(s \o r) PROVE SentAsPlayer(s) \/ SentAsPlayer(r)
  <2>1. PICK k \in DOMAIN (s \o r) : (s \o r)[k].type \in ForPlayers
    BY <1>5 DEF SentAsPlayer
  <2>2. \/ k \in DOMAIN s /\ (s \o r)[k] = s[k]
        \/ k - Len(s) \in DOMAIN r /\ (s \o r)[k] = r[k - Len(s)]
    OBVIOUS
  <2> QED
    BY <2>1, <2>2 DEF SentAsPlayer
<1> QED
  BY <1>1, <1>2, <1>3, <1>4, <1>5

\* The program sends a packet of its own.
LEMMA Calling ==
    ASSUME TypeInv, NEW c \in Clients, Booted(c), NoneLost(c), NEW pkt \in Upward, Call(c, pkt),
           UNCHANGED <<window, server>>
    PROVE  /\ calling[c] = "" /\ calling'[c] = pkt.type
           /\ \A type : Traffic(c, type)' = Traffic(c, type)
           /\ TakenIn(c)' <=> TakenIn(c)
           /\ OwnCall(c)' /\ NoneLost(c)'
<1>1. /\ DOMAIN buffer = Clients /\ DOMAIN sendafterpoll = Clients /\ DOMAIN polls = Clients
      /\ DOMAIN lost = Clients /\ DOMAIN calling = Clients
  BY DEF TypeInv, NetTypes, ProgramTypes
<1>2. polls[c] = 0 /\ calling[c] = "" /\ ~sendafterpoll[c]
  BY DEF Call, SendToServer, Booted
<1>3. /\ polls'[c] = 1 /\ calling'[c] = pkt.type /\ sendafterpoll'[c] /\ buffer'[c] = pkt
      /\ lost'[c] = lost[c] /\ UNCHANGED <<usb, wire>>
  BY <1>1, <1>2 DEF Call, SendToServer, TakeBuffer
<1>4. UNCHANGED <<usb, wire, toN64, toServer, msgqueue, thread>>
  BY <1>3 DEF window, server, threads
<1> QED
  BY <1>2, <1>3, <1>4 DEF Traffic, TakenIn, OwnCall, Holds, NoneLost

\* A call of the program.
LEMMA CallsShake ==
    ASSUME TypeInv, NEW c \in Clients, Booted(c), Shaking(c),
           EnterInit(c) \/ RequestClock(c) \/ DoneSync(c) \/ SendInputs(c)
    PROVE  Shaking(c)'
<1>t. /\ DOMAIN stage = Clients /\ DOMAIN conn = Clients /\ DOMAIN clocks = Clients
      /\ DOMAIN clocksent = Clients /\ clocks[c] \in Nat /\ CLOCKCOUNT \in Nat \ {0}
  BY RealtimeAssumption DEF TypeInv, ProgramTypes
<1>s. /\ stage[c] \in {"off", "start", "init", "game", "disconnected"}
      /\ conn[c] \in {"unconnected", "syncing", "plyinfo"}
  BY DEF TypeInv, ProgramTypes
<1>1. UNCHANGED <<window, server>>
  BY DEF EnterInit, InitStage, Retry, RequestClock, DoneSync, SendInputs
<1>2. Progress(c) /\ OneAtATime(c) /\ Over(c) /\ NoneLost(c)
  BY DEF Shaking
<1>p. Progress(c)
  BY <1>2
<1>l. clocks[c] <= CLOCKCOUNT
  BY <1>p DEF Progress
<1>3. ASSUME NEW pkt \in Upward, Call(c, pkt), Progress(c)',
             \A type \in Shake : Awaits(c, type) => Awaits(c, type)',
             TakenIn(c) => conn'[c] = conn[c]
      PROVE  Shaking(c)'
  <2>1. /\ \A type : Traffic(c, type)' = Traffic(c, type)
        /\ TakenIn(c)' <=> TakenIn(c)
        /\ OwnCall(c)' /\ NoneLost(c)'
    BY <1>1, <1>2, <1>3, Calling
  <2>2. Over(c)'
    BY <1>2, <1>3, <2>1 DEF Over
  <2>3. OneAtATime(c)'
    BY <1>2, <1>3, <2>1 DEF OneAtATime
  <2> QED
    BY <1>3, <2>1, <2>2, <2>3 DEF Shaking
<1>4. CASE EnterInit(c)
  <2>1. Call(c, Plain("CLIENTCONNECT")) /\ Plain("CLIENTCONNECT") \in Upward
        /\ Plain("CLIENTCONNECT").type = "CLIENTCONNECT"
    BY <1>4, PacketTypes DEF EnterInit, InitStage, UpTypes, Plain, Packet
  <2>2. /\ calling'[c] = "CLIENTCONNECT"
        /\ \A type : Traffic(c, type)' = Traffic(c, type)
    BY <1>1, <1>2, <2>1, Calling
  <2>3. /\ stage'[c] = "init" /\ conn'[c] = "unconnected" /\ clocks'[c] = 0 /\ ~clocksent'[c]
        /\ stage[c] = "start"
    BY <1>4, <1>t DEF EnterInit, InitStage
  <2>4. conn[c] = "unconnected" /\ ~clocksent[c]
    BY <1>2, <2>3 DEF Progress
  <2>5. Progress(c)'
    BY <1>t, <2>2, <2>3 DEF Progress
  <2>6. \A type \in Shake : Awaits(c, type) => Awaits(c, type)'
    BY <2>3, <2>4 DEF Awaits
  <2>7. ~TakenIn(c)
    BY <1>2, <2>4 DEF Over
  <2> QED
    BY <1>3, <2>1, <2>5, <2>6, <2>7
<1>5. CASE RequestClock(c)
  <2>1. Call(c, Plain("CLOCKSYNC")) /\ Plain("CLOCKSYNC") \in Upward
        /\ Plain("CLOCKSYNC").type = "CLOCKSYNC"
    BY <1>5, PacketTypes DEF RequestClock, UpTypes, Plain, Packet
  <2>2. /\ calling'[c] = "CLOCKSYNC" /\ calling[c] = ""
        /\ \A type : Traffic(c, type)' = Traffic(c, type)
    BY <1>1, <1>2, <2>1, Calling
  <2>3. /\ stage[c] = "init" /\ conn[c] = "syncing" /\ clocks[c] # CLOCKCOUNT /\ ~clocksent[c]
        /\ stage'[c] = stage[c] /\ conn'[c] = conn[c] /\ clocks'[c] = clocks[c]
        /\ clocksent'[c] = clocksent[c]
    BY <1>5 DEF RequestClock
  <2>l. clocks[c] < CLOCKCOUNT
    BY <1>t, <1>l, <2>3
  <2>4. Progress(c)'
    BY <1>t, <1>p, <2>l, <2>2, <2>3 DEF Progress
  <2>5. \A type \in Shake : Awaits(c, type) => Awaits(c, type)'
    BY <1>p, <2>2, <2>3 DEF Awaits, Progress
  <2> QED
    BY <1>3, <2>1, <2>3, <2>4, <2>5
<1>6. CASE DoneSync(c)
  <2>1. Call(c, Plain("DONESYNC")) /\ Plain("DONESYNC") \in Upward
        /\ Plain("DONESYNC").type = "DONESYNC"
    BY <1>6, PacketTypes DEF DoneSync, UpTypes, Plain, Packet
  <2>2. /\ calling'[c] = "DONESYNC" /\ calling[c] = ""
        /\ \A type : Traffic(c, type)' = Traffic(c, type)
    BY <1>1, <1>2, <2>1, Calling
  <2>3. /\ stage[c] = "init" /\ conn[c] = "syncing" /\ clocks[c] = CLOCKCOUNT
        /\ stage'[c] \in {"init", "disconnected"} /\ conn'[c] = conn[c]
        /\ clocks'[c] = clocks[c] /\ clocksent'[c] = clocksent[c]
    BY <1>6, <1>t DEF DoneSync
  <2>l. ~clocksent[c]
    <3>1. ~(clocks[c] < CLOCKCOUNT)
      BY <1>t, <2>3
    <3> QED
      BY <1>p, <3>1 DEF Progress
  <2>4. Progress(c)'
    BY <1>t, <1>l, <1>p, <2>l, <2>2, <2>3 DEF Progress
  <2>5. \A type \in Shake : Awaits(c, type) => Awaits(c, type)'
    BY <1>p, <2>2, <2>3 DEF Awaits, Progress
  <2> QED
    BY <1>3, <2>1, <2>3, <2>4, <2>5
<1>7. CASE SendInputs(c)
  <2>0. <<time[c] + 1, time[c] + 2>> \in Times
    <3>1. time[c] \in Nat
      BY DEF TypeInv, ProgramTypes
    <3> QED
      BY <3>1 DEF Times
  <2>1. PICK pkt \in Upward : Call(c, pkt) /\ pkt.type = "CLIENTINPUT"
    BY <1>7, <2>0, PacketTypes DEF SendInputs, Packet
  <2>2. /\ calling'[c] = "CLIENTINPUT" /\ calling[c] = ""
        /\ \A type : Traffic(c, type)' = Traffic(c, type)
    BY <1>1, <1>2, <2>1, Calling
  <2>3. /\ stage[c] = "game" /\ stage'[c] = stage[c] /\ conn'[c] = conn[c]
        /\ clocks'[c] = clocks[c] /\ clocksent'[c] = clocksent[c]
    BY <1>7 DEF SendInputs
  <2>4. Progress(c)'
    BY <1>t, <1>p, <2>2, <2>3 DEF Progress
  <2>5. \A type \in Shake : Awaits(c, type) => Awaits(c, type)'
    BY <1>p, <2>2, <2>3 DEF Awaits, Progress
  <2> QED
    BY <1>3, <2>1, <2>3, <2>4, <2>5
<1> QED
  BY <1>4, <1>5, <1>6, <1>7

\* A callback of the program.
LEMMA CallbackShakes ==
    ASSUME TypeInv, NEW c \in Clients, Booted(c), Shaking(c), Callback(c)
    PROVE  Shaking(c)'
<1>t. /\ DOMAIN stage = Clients /\ DOMAIN conn = Clients /\ DOMAIN clocks = Clients
      /\ DOMAIN clocksent = Clients /\ DOMAIN buffer = Clients /\ DOMAIN sendafterpoll = Clients
      /\ DOMAIN polls = Clients /\ DOMAIN lost = Clients /\ DOMAIN usb = Clients
      /\ clocks[c] \in Nat /\ CLOCKCOUNT \in Nat \ {0} /\ polls[c] \in Nat
  BY RealtimeAssumption DEF TypeInv, ProgramTypes, NetTypes, QueueTypes
<1>s. /\ stage[c] \in {"off", "start", "init", "game", "disconnected"}
      /\ conn[c] \in {"unconnected", "syncing", "plyinfo"} /\ clocksent[c] \in BOOLEAN
  BY DEF TypeInv, ProgramTypes
<1>2. OwnCall(c) /\ Progress(c) /\ OneAtATime(c) /\ Over(c) /\ NoneLost(c)
  BY DEF Shaking
<1>3. PICK pkt \in Downward : pkt = Head(usb[c]) /\ usb[c] # <<>> /\ usb[c] \in Seq(Downward)
  <2>1. usb[c] # <<>> /\ usb[c] \in Seq(Downward)
    BY DEF Callback, ReadPacket, TypeInv, QueueTypes
  <2> QED
    BY <2>1
<1>4. /\ usb' = [usb EXCEPT ![c] = Tail(@)]
      /\ UNCHANGED <<wire, toN64, toServer, msgqueue, thread>> /\ calling'[c] = calling[c]
  BY DEF Callback, ReadPacket, window, server, threads
<1>5. /\ stage[c] \in {"init", "game", "disconnected"}
      /\ conn'[c] = IF pkt.type = "CLIENTCONNECT" THEN "syncing" ELSE conn[c]
      /\ clocksent'[c] = (clocksent[c] /\ pkt.type # "CLOCKSYNC")
      /\ clocks'[c] = IF pkt.type = "CLOCKSYNC" THEN clocks[c] + 1 ELSE clocks[c]
      /\ stage'[c] = IF pkt.type = "CLIENTINFO" THEN "game" ELSE stage[c]
  BY <1>t, <1>3 DEF Callback
<1>6. ASSUME NEW type
      PROVE  /\ Traffic(c, type) \in Nat /\ Traffic(c, type)' \in Nat
             /\ Traffic(c, type) = Traffic(c, type)' + IF pkt.type = type THEN 1 ELSE 0
  <2>1. usb \in [Clients -> Seq(Downward)]
    BY DEF TypeInv, QueueTypes
  <2>2. /\ Count([usb EXCEPT ![c] = Tail(@)][c], type) \in Nat
        /\ Count(usb[c], type)
              = Count([usb EXCEPT ![c] = Tail(@)][c], type) + Count(<<pkt>>, type)
    BY <1>3, <2>1, TailCount
  <2>3. Count(<<pkt>>, type) = IF pkt.type = type THEN 1 ELSE 0
    BY CountOne
  <2>4. /\ Count(usb'[c], type) \in Nat
        /\ Count(usb[c], type) = Count(usb'[c], type) + IF pkt.type = type THEN 1 ELSE 0
    BY <1>4, <2>2, <2>3
  <2>5. /\ Count(wire[c], type) \in Nat /\ Count(toServer[c], type) \in Nat
        /\ Count(msgqueue[c], type) \in Nat /\ Count(toN64[c], type) \in Nat
    BY TrafficIsNat DEF TypeInv
  <2> QED
    BY <1>4, <2>4, <2>5 DEF Traffic
<1>7. TakenIn(c)' => TakenIn(c)
  <2>1. usb'[c] = Tail(usb[c])
    BY <1>t, <1>4
  <2>2. SentAsPlayer(usb'[c]) => SentAsPlayer(usb[c])
    BY <1>3, <2>1, SentFacts
  <2> QED
    BY <1>4, <2>2 DEF TakenIn
<1>8. pkt.type \in ForPlayers => TakenIn(c)
  BY <1>3, SentFacts DEF TakenIn
<1>9. pkt.type \in ForPlayers => conn[c] = "plyinfo"
  BY <1>2, <1>8 DEF Over
<1>o. ASSUME NEW type \in Shake
      PROVE  /\ pkt.type = type => Awaits(c, type)
             /\ Traffic(c, type)' = 0 \/ (Traffic(c, type)' = 1 /\ Awaits(c, type) /\ pkt.type # type)
  <2>1. Traffic(c, type) = 0 \/ (Traffic(c, type) = 1 /\ Awaits(c, type))
    BY <1>2 DEF OneAtATime
  <2>2. PICK m \in Nat, n \in Nat : m = Traffic(c, type) /\ n = Traffic(c, type)'
    BY <1>6
  <2>3. CASE pkt.type = type
    <3>1. m = n + 1
      BY <1>6, <2>2, <2>3
    <3>2. m # 0
      BY <3>1
    <3>3. Traffic(c, type) # 0 /\ Awaits(c, type)
      BY <2>1, <2>2, <3>2
    <3>4. n = 0
      BY <2>1, <2>2, <3>1
    <3> QED
      BY <2>2, <3>3, <3>4
  <2>4. CASE pkt.type # type
    <3>1. m = n
      BY <1>6, <2>2, <2>4
    <3> QED
      BY <2>1, <2>2, <2>4, <3>1
  <2> QED
    BY <2>3, <2>4
<1>p. Progress(c)
  BY <1>2
<1>10. pkt.type = "CLIENTCONNECT" => stage[c] = "init" /\ conn[c] = "unconnected" /\ calling[c] = ""
  BY <1>o DEF Awaits, Shake
<1>11. pkt.type = "CLOCKSYNC" => clocksent[c]
  BY <1>o DEF Awaits, Shake
<1>12. pkt.type = "CLIENTINFO" => conn[c] = "plyinfo"
  BY <1>9 DEF ForPlayers
<1>13. Progress(c)'
  <2>1. clocks[c] <= CLOCKCOUNT /\ (clocksent[c] => clocks[c] < CLOCKCOUNT)
    BY <1>p DEF Progress
  <2>2. clocks'[c] <= CLOCKCOUNT
    BY <1>t, <1>5, <1>11, <2>1
  <2>3. CASE pkt.type = "CLIENTCONNECT"
    BY <1>p, <1>4, <1>5, <1>10, <2>2, <2>3 DEF Progress
  <2>4. CASE pkt.type = "CLOCKSYNC"
    BY <1>p, <1>4, <1>5, <1>11, <2>2, <2>4 DEF Progress
  <2>5. CASE pkt.type = "CLIENTINFO"
    BY <1>p, <1>4, <1>5, <1>12, <2>2, <2>5 DEF Progress
  <2>6. CASE pkt.type \notin {"CLIENTCONNECT", "CLOCKSYNC", "CLIENTINFO"}
    BY <1>p, <1>4, <1>5, <2>2, <2>6 DEF Progress
  <2> QED
    BY <2>3, <2>4, <2>5, <2>6
<1>14. OneAtATime(c)'
  <2>1. ASSUME NEW type \in Shake, Awaits(c, type), pkt.type # type PROVE Awaits(c, type)'
    BY <1>4, <1>5, <1>10, <1>12, <2>1 DEF Awaits
  <2> QED
    BY <1>o, <2>1 DEF OneAtATime
<1>15. Over(c)'
  <2>1. TakenIn(c)' => conn[c] = "plyinfo" /\ Traffic(c, "DONESYNC") = 0
    BY <1>2, <1>7 DEF Over
  <2>2. TakenIn(c)' => conn'[c] = "plyinfo"
    BY <1>5, <1>10, <2>1
  <2>3. TakenIn(c)' => Traffic(c, "DONESYNC")' = 0
    BY <1>6, <2>1
  <2> QED
    BY <2>2, <2>3 DEF Over
<1>16. OwnCall(c)' /\ NoneLost(c)'
  <2>0. \/ /\ pkt.type = "ACKBEAT"
           /\ \E depth : TakeBuffer(c, Plain("ACKBEAT"), depth)
        \/ /\ polls' = [polls EXCEPT ![c] = IF polls[c] = 0 THEN 1 ELSE polls[c]]
           /\ UNCHANGED <<buffer, sendafterpoll, lost>>
    <3>1. PICK answer : /\ answer = IF pkt.type = "ACKBEAT" THEN Plain("ACKBEAT") ELSE NoPacket
                        /\ ReadPacket(c, answer)
      BY <1>3 DEF Callback
    <3> QED
      BY <3>1 DEF ReadPacket
  <2>1. ASSUME pkt.type = "ACKBEAT", NEW depth, TakeBuffer(c, Plain("ACKBEAT"), depth)
        PROVE  OwnCall(c)' /\ NoneLost(c)'
    <3>1. \A type \in Shake : calling[c] # type
      BY <1>2, <1>9, <2>1 DEF ForPlayers, Progress, Shake
    <3>2. \A type \in Shake : ~Holds(c, type)
      BY <1>2, <3>1 DEF OwnCall
    <3>4. /\ buffer'[c] = Plain("ACKBEAT")
          /\ lost'[c] = IF sendafterpoll[c] THEN lost[c] \union {buffer[c]} ELSE lost[c]
      BY <1>t, <2>1 DEF TakeBuffer
    <3>5. \A type \in Shake : ~Holds(c, type)'
      BY <3>4 DEF Holds, Shake, Plain, Packet
    <3>6. NoneLost(c)'
      BY <1>2, <3>2, <3>4 DEF NoneLost, Holds
    <3> QED
      BY <1>4, <3>1, <3>5, <3>6 DEF OwnCall
  <2>2. CASE /\ polls' = [polls EXCEPT ![c] = IF polls[c] = 0 THEN 1 ELSE polls[c]]
             /\ UNCHANGED <<buffer, sendafterpoll, lost>>
    <3>2. polls[c] = 0 => calling[c] = ""
      BY DEF Booted
    <3>3. polls'[c] = IF polls[c] = 0 THEN 1 ELSE polls[c]
      BY <1>t, <2>2
    <3>4. OwnCall(c)'
      BY <1>2, <1>4, <2>2, <3>2, <3>3 DEF OwnCall, Holds, Shake
    <3> QED
      BY <1>2, <2>2, <3>4 DEF NoneLost
  <2> QED
    BY <2>0, <2>1, <2>2
<1> QED
  BY <1>13, <1>14, <1>15, <1>16 DEF Shaking

\* A poll ends: what is in the buffer is written.
LEMMA PollEndsShakes ==
    ASSUME TypeInv, NEW c \in Clients, Booted(c), Shaking(c), PollEnds(c)
    PROVE  Shaking(c)'
<1>t. /\ DOMAIN conn = Clients /\ DOMAIN clocksent = Clients /\ DOMAIN sendafterpoll = Clients
      /\ DOMAIN polls = Clients /\ DOMAIN wire = Clients /\ DOMAIN calling = Clients
      /\ polls[c] \in Nat
  BY DEF TypeInv, ProgramTypes, NetTypes, QueueTypes
<1>s. /\ stage[c] \in {"off", "start", "init", "game", "disconnected"}
      /\ conn[c] \in {"unconnected", "syncing", "plyinfo"} /\ clocksent[c] \in BOOLEAN
      /\ sendafterpoll[c] \in BOOLEAN
  BY DEF TypeInv, ProgramTypes, NetTypes
<1>2. OwnCall(c) /\ Progress(c) /\ OneAtATime(c) /\ Over(c) /\ NoneLost(c)
  BY DEF Shaking
<1>3. /\ UNCHANGED <<buffer, usb, lost, stage, clocks, toN64, toServer, msgqueue, thread>>
      /\ ~sendafterpoll'[c]
  BY <1>t DEF PollEnds, EndPoll, window, server, threads
<1>4. NoneLost(c)' /\ (TakenIn(c)' <=> TakenIn(c))
  BY <1>2, <1>3 DEF NoneLost, TakenIn
<1>5. PICK done : done = IF polls[c] = 1 THEN calling[c] ELSE ""
  OBVIOUS
<1>6. /\ clocksent'[c] = (clocksent[c] \/ done = "CLOCKSYNC")
      /\ conn'[c] = IF done = "DONESYNC" THEN "plyinfo" ELSE conn[c]
      /\ calling'[c] = IF polls[c] = 1 THEN "" ELSE calling[c]
  BY <1>t, <1>5 DEF PollEnds
<1>7. \A type \in Shake : calling[c] = type => done = type /\ calling'[c] = ""
  BY <1>2, <1>5, <1>6 DEF OwnCall
<1>8. calling'[c] \notin Shake /\ (done \in Shake => done = calling[c])
  <2>1. calling'[c] \in {"", calling[c]}
    BY <1>6
  <2> QED
    BY <1>5, <1>7, <2>1 DEF Shake
<1>9. OwnCall(c)'
  BY <1>3, <1>8 DEF OwnCall, Holds
<1>10. \A type : Traffic(c, type) \in Nat
  BY TrafficIsNat DEF TypeInv
<1>11. ASSUME ~sendafterpoll[c] PROVE \A type : Traffic(c, type)' = Traffic(c, type)
  <2>1. wire'[c] = wire[c]
    BY <1>t, <1>11 DEF PollEnds, EndPoll
  <2> QED
    BY <1>3, <2>1 DEF Traffic
<1>12. ASSUME sendafterpoll[c], NEW type
       PROVE  Traffic(c, type)' = Traffic(c, type) + IF buffer[c].type = type THEN 1 ELSE 0
  <2>1. wire \in [Clients -> Seq(Upward)] /\ buffer[c] \in Upward
    BY <1>12 DEF TypeInv, NetTypes, QueueTypes
  <2>2. PICK pkt \in Upward : pkt = buffer[c]
    BY <2>1
  <2>3. wire' = Post(wire, c, pkt)
    BY <1>12, <2>2 DEF PollEnds, EndPoll, Post
  <2>4. Count(wire'[c], type) = Count(wire[c], type) + Count(<<pkt>>, type)
    <3>1. Count(Post(wire, c, pkt)[c], type) = Count(wire[c], type) + Count(<<pkt>>, type)
      BY <2>1, PostCount
    <3> QED
      BY <2>3, <3>1
  <2>5. Count(<<pkt>>, type) = IF pkt.type = type THEN 1 ELSE 0
    BY CountOne
  <2>6. /\ Count(wire[c], type) \in Nat /\ Count(toServer[c], type) \in Nat
        /\ Count(msgqueue[c], type) \in Nat /\ Count(toN64[c], type) \in Nat
        /\ Count(usb[c], type) \in Nat
    BY TrafficIsNat DEF TypeInv
  <2>7. PICK n \in Nat : n = IF pkt.type = type THEN 1 ELSE 0
    OBVIOUS
  <2> QED
    BY <1>3, <2>2, <2>4, <2>5, <2>6, <2>7 DEF Traffic
<1>13. ASSUME NEW type \in Shake
       PROVE  \/ Traffic(c, type)' = Traffic(c, type)
              \/ Traffic(c, type)' = Traffic(c, type) + 1 /\ calling[c] = type
  <2>1. CASE ~sendafterpoll[c]
    BY <1>11, <2>1
  <2>2. CASE sendafterpoll[c] /\ buffer[c].type # type
    BY <1>10, <1>12, <2>2
  <2>3. CASE sendafterpoll[c] /\ buffer[c].type = type
    <3>1. calling[c] = type
      BY <1>2, <2>3 DEF OwnCall, Holds
    <3>2. Traffic(c, type)' = Traffic(c, type) + 1
      BY <1>12, <2>3
    <3> QED
      BY <3>1, <3>2
  <2> QED
    BY <2>1, <2>2, <2>3
<1>14. ASSUME NEW type \in Shake, calling[c] = type
       PROVE  Traffic(c, type) = 0 /\ Awaits(c, type)'
  <2>1. ~Awaits(c, type)
    BY <1>2, <1>14 DEF Awaits, Progress, Shake
  <2>2. done = type /\ calling'[c] = ""
    BY <1>7, <1>14
  <2>3. CASE type = "CLIENTCONNECT"
    <3>1. conn[c] = "unconnected" /\ stage[c] = "init"
      BY <1>s, <1>2, <1>14, <2>3 DEF Progress
    <3> QED
      BY <1>2, <1>3, <1>6, <2>1, <2>2, <2>3, <3>1 DEF Awaits, OneAtATime
  <2>4. CASE type = "CLOCKSYNC"
    BY <1>2, <1>6, <2>1, <2>2, <2>4 DEF Awaits, OneAtATime
  <2>5. CASE type = "DONESYNC"
    BY <1>2, <1>6, <2>1, <2>2, <2>5 DEF Awaits, OneAtATime
  <2> QED
    BY <2>3, <2>4, <2>5 DEF Shake
<1>15. done = "DONESYNC" => conn[c] = "syncing" /\ ~clocksent[c] /\ calling[c] = "DONESYNC"
  BY <1>2, <1>8 DEF Progress, Shake
<1>16. done = "CLOCKSYNC" => /\ conn[c] = "syncing" /\ calling[c] = "CLOCKSYNC" /\ clocks[c] < CLOCKCOUNT
  BY <1>2, <1>8 DEF Progress, Shake
<1>17. ASSUME NEW type \in Shake, Awaits(c, type) PROVE Awaits(c, type)'
  <2>1. CASE type = "CLIENTCONNECT"
    BY <1>3, <1>5, <1>6, <1>17, <2>1 DEF Awaits
  <2>2. CASE type = "CLOCKSYNC"
    BY <1>6, <1>17, <2>2 DEF Awaits
  <2>3. CASE type = "DONESYNC"
    BY <1>6, <1>17, <2>3 DEF Awaits
  <2> QED
    BY <2>1, <2>2, <2>3 DEF Shake
<1>18. OneAtATime(c)'
  <2>1. ASSUME NEW type \in Shake
        PROVE  Traffic(c, type)' = 0 \/ (Traffic(c, type)' = 1 /\ Awaits(c, type)')
    <3>1. CASE calling[c] = type
      BY <1>10, <1>13, <1>14, <3>1
    <3>2. CASE calling[c] # type
      BY <1>2, <1>13, <1>17, <3>2 DEF OneAtATime
    <3> QED
      BY <3>1, <3>2
  <2> QED
    BY <2>1 DEF OneAtATime
<1>19. Progress(c)'
  <2>p. Progress(c)
    BY <1>2
  <2>0. stage'[c] = stage[c] /\ clocks'[c] = clocks[c]
    BY <1>3
  <2>1. CASE done = "DONESYNC"
    <3>1. calling'[c] = "" /\ conn'[c] = "plyinfo" /\ ~clocksent'[c]
      BY <1>5, <1>6, <1>15, <2>1
    <3>2. stage[c] \notin {"off", "start"}
      BY <1>15, <2>1, <2>p DEF Progress
    <3> QED
      BY <2>0, <2>p, <3>1, <3>2 DEF Progress
  <2>2. CASE done = "CLOCKSYNC"
    <3>1. calling'[c] = "" /\ conn'[c] = "syncing" /\ clocksent'[c]
      BY <1>5, <1>6, <1>16, <2>2
    <3> QED
      BY <1>16, <2>0, <2>2, <2>p, <3>1 DEF Progress
  <2>3. CASE done \notin {"CLOCKSYNC", "DONESYNC"}
    <3>1. conn'[c] = conn[c] /\ (clocksent'[c] <=> clocksent[c]) /\ calling'[c] \in {"", calling[c]}
      BY <1>6, <2>3
    <3>2. calling[c] # "DONESYNC"
      BY <1>7, <2>3 DEF Shake
    <3> QED
      BY <2>0, <2>p, <3>1, <3>2 DEF Progress
  <2> QED
    BY <2>1, <2>2, <2>3
<1>20. Over(c)'
  <2>1. TakenIn(c)' => conn[c] = "plyinfo" /\ Traffic(c, "DONESYNC") = 0
    BY <1>2, <1>4 DEF Over
  <2>2. conn[c] = "plyinfo" => conn'[c] = "plyinfo" /\ calling[c] # "DONESYNC"
    BY <1>2, <1>6 DEF Progress
  <2>3. TakenIn(c)' => Traffic(c, "DONESYNC")' = 0
    BY <1>13, <2>1, <2>2 DEF Shake
  <2> QED
    BY <2>1, <2>2, <2>3 DEF Over
<1> QED
  BY <1>4, <1>9, <1>18, <1>19, <1>20 DEF Shaking

\* The N64's program; when it loses the server, it has to try again.
LEMMA ProgramShakes ==
    ASSUME TypeInv, NEW c \in Clients, Booted(c), Shaking(c),
           N64(c) \/ Boot(c) \/ SendInputs(c) \/ LoseServer(c) \/ Retry(c)
    PROVE  FirstTry(c)' => Shaking(c)'
<1>1. CASE N64(c) \/ SendInputs(c)
  BY <1>1, CallsShake, CallbackShakes, PollEndsShakes DEF N64
<1>2. CASE Boot(c)
  <2>t. /\ DOMAIN stage = Clients /\ DOMAIN calling = Clients /\ DOMAIN sendafterpoll = Clients
        /\ DOMAIN polls = Clients
    BY DEF TypeInv, ProgramTypes, NetTypes
  <2>1. /\ stage[c] = "off" /\ stage'[c] = "start" /\ calling'[c] = "" /\ ~sendafterpoll'[c]
        /\ UNCHANGED <<usb, wire, lost, conn, clocks, clocksent, toN64, toServer, msgqueue, thread>>
    BY <1>2, <2>t DEF Boot, NetLibStarts, window, server, threads
  <2>2. OwnCall(c) /\ Progress(c) /\ OneAtATime(c) /\ Over(c) /\ NoneLost(c)
    BY DEF Shaking
  <2>3. OwnCall(c)' /\ NoneLost(c)'
    BY <2>1, <2>2 DEF OwnCall, Holds, Shake, NoneLost
  <2>4. Progress(c)'
    BY <2>1, <2>2 DEF Progress
  <2>5. (\A type : Traffic(c, type)' = Traffic(c, type)) /\ (TakenIn(c)' <=> TakenIn(c))
    BY <2>1 DEF Traffic, TakenIn
  <2>6. OneAtATime(c)'
    BY <2>1, <2>2, <2>5 DEF OneAtATime, Awaits
  <2>7. Over(c)'
    BY <2>1, <2>2, <2>5 DEF Over
  <2> QED
    BY <2>3, <2>4, <2>6, <2>7 DEF Shaking
<1>3. CASE LoseServer(c) \/ Retry(c)
  <2>1. used \in [Rare -> Nat] /\ {"silence", "retry"} \subseteq Rare
    BY DEF TypeInv, OtherTypes, Rare
  <2>2. PICK r \in {"silence", "retry"} : Use(r)
    BY <1>3 DEF LoseServer, Retry
  <2>3. used'[r] = used[r] + 1 /\ used[r] \in Nat
    BY <2>1, <2>2 DEF Use
  <2> QED
    BY <2>2, <2>3 DEF FirstTry
<1> QED
  BY <1>1, <1>2, <1>3

\* A step that leaves the program of a client alone, and of whose packets only some are gone.
Quiet(c) ==
    /\ buffer'[c] = buffer[c] /\ sendafterpoll'[c] = sendafterpoll[c] /\ polls'[c] = polls[c]
    /\ lost'[c] = lost[c] /\ calling'[c] = calling[c] /\ conn'[c] = conn[c]
    /\ clocks'[c] = clocks[c] /\ clocksent'[c] = clocksent[c] /\ stage'[c] = stage[c]
    /\ \A type \in Shake : Traffic(c, type)' \in Nat /\ Traffic(c, type)' <= Traffic(c, type)
    /\ TakenIn(c)' => TakenIn(c) \/ (conn[c] = "plyinfo" /\ Traffic(c, "DONESYNC")' = 0)

LEMMA QuietShakes ==
    ASSUME TypeInv, NEW c \in Clients, Shaking(c), Quiet(c)
    PROVE  Shaking(c)'
<1>1. OwnCall(c) /\ Progress(c) /\ OneAtATime(c) /\ Over(c) /\ NoneLost(c)
  BY DEF Shaking
<1>2. \A type : Traffic(c, type) \in Nat
  BY TrafficIsNat DEF TypeInv
<1>3. OwnCall(c)' /\ NoneLost(c)'
  BY <1>1 DEF Quiet, OwnCall, Holds, NoneLost
<1>4. Progress(c)'
  BY <1>1 DEF Quiet, Progress
<1>5. OneAtATime(c)'
  <2>1. ASSUME NEW type \in Shake
        PROVE  Traffic(c, type)' = 0 \/ (Traffic(c, type)' = 1 /\ Awaits(c, type)')
    <3>1. PICK m \in Nat, n \in Nat : m = Traffic(c, type) /\ n = Traffic(c, type)'
      BY <1>2 DEF Quiet
    <3>2. n <= m
      BY <3>1 DEF Quiet
    <3>3. m = 0 \/ (m = 1 /\ Awaits(c, type))
      BY <1>1, <3>1 DEF OneAtATime
    <3>4. Awaits(c, type) => Awaits(c, type)'
      BY DEF Quiet, Awaits
    <3>5. n = 0 \/ (n = 1 /\ Awaits(c, type)')
      BY <3>2, <3>3, <3>4
    <3> QED
      BY <3>1, <3>5
  <2> QED
    BY <2>1 DEF OneAtATime
<1>6. Over(c)'
  <2>1. PICK m \in Nat, n \in Nat : m = Traffic(c, "DONESYNC") /\ n = Traffic(c, "DONESYNC")' /\ n <= m
    BY <1>2 DEF Quiet, Shake
  <2>2. TakenIn(c)' => conn[c] = "plyinfo" /\ n = 0
    BY <1>1, <2>1 DEF Quiet, Over
  <2> QED
    BY <2>1, <2>2 DEF Quiet, Over
<1> QED
  BY <1>3, <1>4, <1>5, <1>6 DEF Shaking

\* What is where the packets of a client are.
LEMMA QueuesOf ==
    ASSUME QueueTypes, NEW c \in Clients
    PROVE  /\ wire \in [Clients -> Seq(Upward)] /\ toServer \in [Clients -> Seq(Upward)]
           /\ msgqueue \in [Clients -> Seq(Upward)] /\ mailbox \in [Clients -> Seq(Downward)]
           /\ toN64 \in [Clients -> Seq(Downward)] /\ usb \in [Clients -> Seq(Downward)]
  BY DEF QueueTypes

\* A window moves packets, or throws them away.
LEMMA WindowIsQuiet ==
    ASSUME TypeInv, NEW c \in Clients, Booted(c),
           Interface(c) \/ DeviceThread(c) \/ UploadThread(c) \/ Unplug(c) \/ User(c) \/ RelayUp(c)
    PROVE  FirstTry(c)' => Quiet(c)
<1>q. /\ wire \in [Clients -> Seq(Upward)] /\ toServer \in [Clients -> Seq(Upward)]
      /\ msgqueue \in [Clients -> Seq(Upward)]
      /\ toN64 \in [Clients -> Seq(Downward)] /\ usb \in [Clients -> Seq(Downward)]
  BY QueuesOf DEF TypeInv
<1>n. ASSUME NEW type
      PROVE  /\ Count(wire[c], type) \in Nat /\ Count(toServer[c], type) \in Nat
             /\ Count(msgqueue[c], type) \in Nat /\ Count(toN64[c], type) \in Nat
             /\ Count(usb[c], type) \in Nat
  BY TrafficIsNat DEF TypeInv
<1>o. ASSUME NEW m, NEW type PROVE Count(<<m>>, type) \in Nat
  BY CountOne
<1>e. ASSUME NEW S, NEW queue \in [Clients -> Seq(S)], NEW type
      PROVE  Count([queue EXCEPT ![c] = <<>>][c], type) = 0
  BY <1>e, ClearCount
<1>f. [toN64 EXCEPT ![c] = <<>>][c] = <<>> /\ ~SentAsPlayer(<<>>)
  BY <1>q, SentFacts
<1>1. CASE ReceiveUSB(c) /\ UNCHANGED Others
  <2>1. /\ UNCHANGED <<buffer, sendafterpoll, polls, lost, program, thread, msgqueue, toN64, usb>>
        /\ wire[c] # <<>> /\ wire' = [wire EXCEPT ![c] = Tail(@)]
        /\ toServer' = Post(toServer, c, Head(wire[c]))
    BY <1>1 DEF ReceiveUSB, Others, server, threads
  <2>2. PICK pkt \in Upward : pkt = Head(wire[c])
    BY <1>q, <2>1, QueueFacts
  <2>3. ASSUME NEW type PROVE Traffic(c, type)' \in Nat /\ Traffic(c, type)' <= Traffic(c, type)
    <3>1. /\ Count([wire EXCEPT ![c] = Tail(@)][c], type) \in Nat
          /\ Count(wire[c], type) = Count([wire EXCEPT ![c] = Tail(@)][c], type) + Count(<<pkt>>, type)
      BY <1>q, <2>1, <2>2, TailCount
    <3>q. toServer \in [Clients -> Seq(Upward)]
      BY <1>q
    <3>2. Count(Post(toServer, c, pkt)[c], type) = Count(toServer[c], type) + Count(<<pkt>>, type)
      BY <3>q, PostCount
    <3>3. /\ Count(wire'[c], type) \in Nat
          /\ Count(wire[c], type) = Count(wire'[c], type) + Count(<<pkt>>, type)
          /\ Count(toServer'[c], type) = Count(toServer[c], type) + Count(<<pkt>>, type)
      BY <2>1, <2>2, <3>1, <3>2
    <3>4. /\ Count(wire[c], type) \in Nat /\ Count(toServer[c], type) \in Nat
          /\ Count(msgqueue[c], type) \in Nat /\ Count(toN64[c], type) \in Nat
          /\ Count(usb[c], type) \in Nat /\ Count(<<pkt>>, type) \in Nat
      BY <1>n, <1>o
    <3>5. usb'[c] = usb[c] /\ toN64'[c] = toN64[c] /\ msgqueue'[c] = msgqueue[c]
      BY <2>1
    <3> QED
      BY <3>3, <3>4, <3>5 DEF Traffic
  <2>4. TakenIn(c)' => TakenIn(c)
    BY <2>1 DEF TakenIn
  <2> QED
    BY <2>1, <2>3, <2>4 DEF Quiet, program
<1>2. CASE SendUSB(c) /\ UNCHANGED Others
  <2>1. /\ UNCHANGED <<buffer, sendafterpoll, polls, lost, program, thread, msgqueue, toServer, wire>>
        /\ toN64[c] # <<>> /\ toN64' = [toN64 EXCEPT ![c] = Tail(@)]
        /\ usb' = Post(usb, c, Head(toN64[c]))
    BY <1>2 DEF SendUSB, Others, server, threads
  <2>2. PICK pkt \in Downward : pkt = Head(toN64[c])
    BY <1>q, <2>1, QueueFacts
  <2>3. ASSUME NEW type PROVE Traffic(c, type)' \in Nat /\ Traffic(c, type)' <= Traffic(c, type)
    <3>1. /\ Count([toN64 EXCEPT ![c] = Tail(@)][c], type) \in Nat
          /\ Count(toN64[c], type) = Count([toN64 EXCEPT ![c] = Tail(@)][c], type) + Count(<<pkt>>, type)
      BY <1>q, <2>1, <2>2, TailCount
    <3>q. usb \in [Clients -> Seq(Downward)]
      BY <1>q
    <3>2. Count(Post(usb, c, pkt)[c], type) = Count(usb[c], type) + Count(<<pkt>>, type)
      BY <3>q, PostCount
    <3>3. /\ Count(toN64'[c], type) \in Nat
          /\ Count(toN64[c], type) = Count(toN64'[c], type) + Count(<<pkt>>, type)
          /\ Count(usb'[c], type) = Count(usb[c], type) + Count(<<pkt>>, type)
      BY <2>1, <2>2, <3>1, <3>2
    <3>4. /\ Count(wire[c], type) \in Nat /\ Count(toServer[c], type) \in Nat
          /\ Count(msgqueue[c], type) \in Nat /\ Count(toN64[c], type) \in Nat
          /\ Count(usb[c], type) \in Nat /\ Count(<<pkt>>, type) \in Nat
      BY <1>n, <1>o
    <3>5. wire'[c] = wire[c] /\ toServer'[c] = toServer[c] /\ msgqueue'[c] = msgqueue[c]
      BY <2>1
    <3> QED
      BY <3>3, <3>4, <3>5 DEF Traffic
  <2>4. TakenIn(c)' => TakenIn(c)
    <3>1. toN64'[c] = Tail(toN64[c]) /\ usb'[c] = Append(usb[c], pkt)
      BY <1>q, <2>1, <2>2 DEF Post
    <3>2. SentAsPlayer(Tail(toN64[c])) \/ pkt.type \in ForPlayers => SentAsPlayer(toN64[c])
      BY <1>q, <2>1, <2>2, SentFacts
    <3>3. SentAsPlayer(Append(usb[c], pkt)) => SentAsPlayer(usb[c]) \/ pkt.type \in ForPlayers
      BY <1>q, SentFacts
    <3> QED
      BY <2>1, <3>1, <3>2, <3>3 DEF TakenIn
  <2> QED
    BY <2>1, <2>3, <2>4 DEF Quiet, program
<1>3. CASE RelayUp(c)
  <2>1. /\ UNCHANGED <<buffer, sendafterpoll, polls, lost, program, toN64, usb, wire>>
        /\ toServer[c] # <<>> /\ toServer' = [toServer EXCEPT ![c] = Tail(@)]
        /\ msgqueue' = Post(msgqueue, c, Head(toServer[c]))
        /\ thread' = [thread EXCEPT ![c] = IF @ = "none" THEN "unconnected" ELSE @]
    BY <1>3 DEF RelayUp, netlib
  <2>2. PICK pkt \in Upward : pkt = Head(toServer[c])
    BY <1>q, <2>1, QueueFacts
  <2>3. ASSUME NEW type PROVE Traffic(c, type)' \in Nat /\ Traffic(c, type)' <= Traffic(c, type)
    <3>1. /\ Count([toServer EXCEPT ![c] = Tail(@)][c], type) \in Nat
          /\ Count(toServer[c], type) = Count([toServer EXCEPT ![c] = Tail(@)][c], type) + Count(<<pkt>>, type)
      BY <1>q, <2>1, <2>2, TailCount
    <3>q. msgqueue \in [Clients -> Seq(Upward)]
      BY <1>q
    <3>2. Count(Post(msgqueue, c, pkt)[c], type) = Count(msgqueue[c], type) + Count(<<pkt>>, type)
      BY <3>q, PostCount
    <3>3. /\ Count(toServer'[c], type) \in Nat
          /\ Count(toServer[c], type) = Count(toServer'[c], type) + Count(<<pkt>>, type)
          /\ Count(msgqueue'[c], type) = Count(msgqueue[c], type) + Count(<<pkt>>, type)
      BY <2>1, <2>2, <3>1, <3>2
    <3>4. /\ Count(wire[c], type) \in Nat /\ Count(toServer[c], type) \in Nat
          /\ Count(msgqueue[c], type) \in Nat /\ Count(toN64[c], type) \in Nat
          /\ Count(usb[c], type) \in Nat /\ Count(<<pkt>>, type) \in Nat
      BY <1>n, <1>o
    <3>5. usb'[c] = usb[c] /\ toN64'[c] = toN64[c] /\ wire'[c] = wire[c]
      BY <2>1
    <3> QED
      BY <3>3, <3>4, <3>5 DEF Traffic
  <2>4. TakenIn(c)' => TakenIn(c)
    <3>1. thread'[c] \in Joined => thread[c] \in Joined
      BY <2>1 DEF Joined, TypeInv, SlotTypes
    <3> QED
      BY <2>1, <3>1 DEF TakenIn
  <2> QED
    BY <2>1, <2>3, <2>4 DEF Quiet, program
<1>4. ASSUME /\ toN64' = toN64 \/ toN64' = [toN64 EXCEPT ![c] = <<>>]
             /\ toServer' = toServer \/ toServer' = [toServer EXCEPT ![c] = <<>>]
             /\ wire' = wire \/ wire' = [wire EXCEPT ![c] = <<>>]
             /\ UNCHANGED <<usb, msgqueue, thread>>
      PROVE  /\ \A type : Traffic(c, type)' \in Nat /\ Traffic(c, type)' <= Traffic(c, type)
             /\ TakenIn(c)' => TakenIn(c)
  <2>1. ASSUME NEW type PROVE Traffic(c, type)' \in Nat /\ Traffic(c, type)' <= Traffic(c, type)
    <3>1. Count(toN64'[c], type) \in {0, Count(toN64[c], type)}
      BY <1>q, <1>e, <1>4
    <3>2. Count(toServer'[c], type) \in {0, Count(toServer[c], type)}
      BY <1>q, <1>e, <1>4
    <3>3. Count(wire'[c], type) \in {0, Count(wire[c], type)}
      BY <1>q, <1>e, <1>4
    <3> QED
      BY <1>n, <1>4, <3>1, <3>2, <3>3, SMTT(20) DEF Traffic
  <2>2. TakenIn(c)' => TakenIn(c)
    BY <1>f, <1>4 DEF TakenIn
  <2> QED
    BY <2>1, <2>2
<1>5. CASE /\ \/ Interface(c) \/ Unplug(c) \/ User(c) \/ UploadThread(c)
              \/ FindCart(c) \/ LeaveLoop(c) \/ DeviceEnds(c) \/ UploadOver(c)
              \/ InterruptUpload(c) \/ JoinUpload(c) \/ HandleMainInput(c)
           /\ UNCHANGED <<netlib, Others>>
  <2>1. /\ toN64' = toN64 \/ toN64' = [toN64 EXCEPT ![c] = <<>>]
        /\ toServer' = toServer \/ toServer' = [toServer EXCEPT ![c] = <<>>]
    BY <1>5, WindowEffects
  <2>2. UNCHANGED <<buffer, sendafterpoll, polls, lost, program, thread, msgqueue, wire, usb>>
    BY <1>5 DEF netlib, Others, server, threads
  <2>3. /\ \A type : Traffic(c, type)' \in Nat /\ Traffic(c, type)' <= Traffic(c, type)
        /\ TakenIn(c)' => TakenIn(c)
    BY <1>4, <2>1, <2>2
  <2> QED
    BY <2>2, <2>3 DEF Quiet, program
<1>6. CASE Upload(c)
  <2>1. /\ toN64' = toN64 \/ toN64' = [toN64 EXCEPT ![c] = <<>>]
        /\ toServer' = toServer \/ toServer' = [toServer EXCEPT ![c] = <<>>]
    BY <1>6, WindowEffects DEF Upload
  <2>2. /\ UNCHANGED <<buffer, sendafterpoll, polls, lost, thread, msgqueue, usb, conn, clocks,
                       clocksent, calling>>
        /\ wire' = [wire EXCEPT ![c] = <<>>] /\ stage' = [stage EXCEPT ![c] = "off"]
        /\ uploads' = [uploads EXCEPT ![c] = @ + 1]
    BY <1>6 DEF Upload, StartUpload, server, threads
  <2>3. /\ \A type : Traffic(c, type)' \in Nat /\ Traffic(c, type)' <= Traffic(c, type)
        /\ TakenIn(c)' => TakenIn(c)
    BY <1>4, <2>1, <2>2
  <2>4. FirstTry(c)' => stage[c] = "off"
    <3>1. uploads'[c] = uploads[c] + 1 /\ uploads[c] \in Nat
      BY <2>2 DEF TypeInv, WindowInv, WindowTypes
    <3>2. FirstTry(c)' => uploads'[c] <= 1
      BY DEF FirstTry
    <3>3. FirstTry(c)' => uploads[c] = 0
      BY <3>1, <3>2
    <3> QED
      BY <3>3 DEF Booted
  <2>5. stage'[c] = "off"
    BY <2>2 DEF TypeInv, ProgramTypes
  <2> QED
    BY <2>2, <2>3, <2>4, <2>5 DEF Quiet
<1> QED
  BY <1>1, <1>2, <1>3, <1>5, <1>6 DEF Interface, DeviceThread, UploadThread, Unplug, User

\* A thread's packets for its client are added to the others, or nobody passes them on.
LEMMA SendCount ==
    ASSUME TypeInv, NEW c \in Clients, NEW pkts \in Seq(Downward), Send(c, pkts), NEW type
    PROVE  /\ Count(toN64'[c], type) \in Nat /\ Count(pkts, type) \in Nat
           /\ Count(toN64'[c], type) <= Count(toN64[c], type) + Count(pkts, type)
           /\ SentAsPlayer(toN64'[c]) => SentAsPlayer(toN64[c]) \/ SentAsPlayer(pkts)
<1>1. toN64 \in [Clients -> Seq(Downward)]
  BY QueuesOf DEF TypeInv
<1>2. PICK q \in Seq(Downward) : q = toN64[c]
  BY <1>1
<1>3. toN64'[c] = q \/ toN64'[c] = q \o pkts
  BY <1>1, <1>2 DEF Send
<1>4. Count(q, type) \in Nat /\ Count(pkts, type) \in Nat
  BY CountIsNat
<1>5. Count(q \o pkts, type) = Count(q, type) + Count(pkts, type)
  BY CountTogether
<1>6. SentAsPlayer(q \o pkts) => SentAsPlayer(q) \/ SentAsPlayer(pkts)
  BY SentFacts
<1>7. CASE toN64'[c] = q
  BY <1>2, <1>4, <1>7
<1>8. CASE toN64'[c] = q \o pkts
  <2>1. PICK m \in Nat, n \in Nat : m = Count(q, type) /\ n = Count(pkts, type)
    BY <1>4
  <2>2. Count(toN64'[c], type) = m + n
    BY <1>5, <1>8, <2>1
  <2>3. SentAsPlayer(toN64'[c]) => SentAsPlayer(q) \/ SentAsPlayer(pkts)
    BY <1>6, <1>8
  <2> QED
    BY <1>2, <2>1, <2>2, <2>3
<1> QED
  BY <1>3, <1>7, <1>8

\* Without packets of a type their number is zero.
LEMMA CountNone ==
    ASSUME NEW S, NEW s \in Seq(S), NEW type, \A k \in DOMAIN s : s[k].type # type
    PROVE  Count(s, type) = 0
<1>1. { k \in 1..Len(s) : s[k].type = type } = {}
  OBVIOUS
<1> QED
  BY <1>1, FS_EmptySet DEF Count

\* The server answers a packet of the handshake with one of its type at most, takes in
\* who has said that its handshake is over, and sends players what only they are sent.
LEMMA ServerIsQuiet ==
    ASSUME TypeInv, Mailboxes, NEW c \in Clients, Shaking(c),
           ServerThread(c) \/ SendHeartbeat(c) \/ TimeOut(c)
    PROVE  Quiet(c)
<1>q. /\ toServer \in [Clients -> Seq(Upward)] /\ msgqueue \in [Clients -> Seq(Upward)]
      /\ mailbox \in [Clients -> Seq(Downward)] /\ toN64 \in [Clients -> Seq(Downward)]
      /\ DOMAIN thread = Clients
  BY QueuesOf DEF TypeInv, SlotTypes
<1>n. ASSUME NEW type
      PROVE  /\ Count(wire[c], type) \in Nat /\ Count(toServer[c], type) \in Nat
             /\ Count(msgqueue[c], type) \in Nat /\ Count(toN64[c], type) \in Nat
             /\ Count(usb[c], type) \in Nat
  BY TrafficIsNat DEF TypeInv
<1>u. /\ UNCHANGED <<netlib, program, toServer>>
      /\ UNCHANGED toN64 \/ \E pkts : Send(c, pkts)
  BY DEF ServerThread, HandleConnect, HandleSync, HandleDone, SetNumber, Introduce, HandleUnexpected,
         HandleNothing, HandleInput, SendMessages, DisconnectPlayer, SendHeartbeat, TimeOut, Send,
         window
<1>g. ASSUME \A type \in Shake : /\ Count(msgqueue'[c], type) \in Nat /\ Count(toN64'[c], type) \in Nat
                                 /\ Count(msgqueue'[c], type) + Count(toN64'[c], type)
                                       <= Count(msgqueue[c], type) + Count(toN64[c], type),
             TakenIn(c)' => TakenIn(c) \/ (conn[c] = "plyinfo" /\ Traffic(c, "DONESYNC")' = 0)
      PROVE  Quiet(c)
  <2>1. ASSUME NEW type \in Shake PROVE Traffic(c, type)' \in Nat /\ Traffic(c, type)' <= Traffic(c, type)
    <3>1. /\ Count(msgqueue'[c], type) \in Nat /\ Count(toN64'[c], type) \in Nat
          /\ Count(msgqueue'[c], type) + Count(toN64'[c], type)
                <= Count(msgqueue[c], type) + Count(toN64[c], type)
      BY <1>g
    <3>2. wire'[c] = wire[c] /\ toServer'[c] = toServer[c] /\ usb'[c] = usb[c]
      BY <1>u DEF netlib
    <3> QED
      BY <1>n, <3>1, <3>2 DEF Traffic
  <2> QED
    BY <1>g, <1>u, <2>1 DEF Quiet, netlib, program
\* ... takes one packet and says nothing, ...
<1>w. ASSUME NEW k \in DOMAIN msgqueue[c], msgqueue' = [msgqueue EXCEPT ![c] = Without(@, k)],
             NEW type
      PROVE  /\ Count(msgqueue'[c], type) \in Nat
             /\ Count(msgqueue[c], type)
                   = Count(msgqueue'[c], type) + IF msgqueue[c][k].type = type THEN 1 ELSE 0
  <2>0. msgqueue \in [Clients -> Seq(Upward)]
    BY <1>q
  <2>1. /\ Count([msgqueue EXCEPT ![c] = Without(@, k)][c], type) \in Nat
        /\ Count(msgqueue[c], type)
              = Count([msgqueue EXCEPT ![c] = Without(@, k)][c], type) + Count(<<msgqueue[c][k]>>, type)
    BY <2>0, WithoutCount
  <2>2. Count(<<msgqueue[c][k]>>, type) = IF msgqueue[c][k].type = type THEN 1 ELSE 0
    BY CountOne
  <2> QED
    BY <1>w, <2>1, <2>2
<1>p. Places(c) \subseteq DOMAIN msgqueue[c]
  BY <1>q DEF Places
<1>t. /\ \A k \in Places(c) : k \in DOMAIN msgqueue[c]
      /\ \A x, y : Packet(x, y, <<>>).type = x
      /\ \A x : Plain(x).type = x
  BY <1>p DEF Plain, Packet
\* A packet that is not of the handshake is sent, to who was taken in.
<1>s. ASSUME NEW pkts \in Seq(Downward), Send(c, pkts), TakenIn(c),
             \A j \in DOMAIN pkts : pkts[j].type \notin Shake,
             msgqueue'[c] = msgqueue[c]
      PROVE  Quiet(c)
  <2>1. ASSUME NEW type \in Shake
        PROVE  /\ Count(msgqueue'[c], type) \in Nat /\ Count(toN64'[c], type) \in Nat
               /\ Count(msgqueue'[c], type) + Count(toN64'[c], type)
                     <= Count(msgqueue[c], type) + Count(toN64[c], type)
    <3>1. Count(pkts, type) = 0
      BY <1>s, CountNone
    <3>2. Count(toN64'[c], type) \in Nat /\ Count(toN64'[c], type) <= Count(toN64[c], type) + Count(pkts, type)
      BY <1>s, SendCount
    <3> QED
      BY <1>n, <1>s, <3>1, <3>2
  <2> QED
    BY <1>g, <1>s, <2>1
<1>i. ASSUME NEW m \in Downward, Send(c, <<m>>), TakenIn(c), m.type \notin Shake,
             msgqueue'[c] = msgqueue[c]
      PROVE  Quiet(c)
  <2>1. <<m>> \in Seq(Downward) /\ \A j \in DOMAIN <<m>> : <<m>>[j].type \notin Shake
    BY <1>i
  <2> QED
    BY <1>i, <1>s, <2>1
\* Nothing is sent, and nobody is taken in.
<1>x. ASSUME toN64' = toN64, thread'[c] \in Joined => thread[c] \in Joined,
             \A type \in Shake : Count(msgqueue'[c], type) \in Nat
                                 /\ Count(msgqueue'[c], type) <= Count(msgqueue[c], type)
      PROVE  Quiet(c)
  <2>1. TakenIn(c)' => TakenIn(c)
    BY <1>u, <1>x DEF TakenIn, netlib
  <2>2. ASSUME NEW type \in Shake
        PROVE  /\ Count(msgqueue'[c], type) \in Nat /\ Count(toN64'[c], type) \in Nat
               /\ Count(msgqueue'[c], type) + Count(toN64'[c], type)
                     <= Count(msgqueue[c], type) + Count(toN64[c], type)
    <3>1. /\ Count(msgqueue'[c], type) \in Nat /\ Count(msgqueue'[c], type) <= Count(msgqueue[c], type)
          /\ Count(toN64'[c], type) = Count(toN64[c], type)
      BY <1>x
    <3> QED
      BY <1>n, <3>1
  <2> QED
    BY <1>g, <2>1, <2>2
\* A packet of the handshake is answered.
<1>a. ASSUME NEW m \in Downward, Send(c, <<m>>), NEW k \in DOMAIN msgqueue[c],
             msgqueue' = [msgqueue EXCEPT ![c] = Without(@, k)],
             m.type \in Shake => msgqueue[c][k].type = m.type, m.type \notin ForPlayers,
             thread'[c] \notin Joined
      PROVE  Quiet(c)
  <2>0. <<m>> \in Seq(Downward) /\ DOMAIN <<m>> = {1} /\ <<m>>[1] = m
    OBVIOUS
  <2>1. TakenIn(c)' => TakenIn(c)
    <3>1. ~SentAsPlayer(<<m>>)
      BY <1>a, <2>0 DEF SentAsPlayer
    <3>2. SentAsPlayer(toN64'[c]) => SentAsPlayer(toN64[c]) \/ SentAsPlayer(<<m>>)
      BY <1>a, <2>0, SendCount
    <3> QED
      BY <1>a, <1>u, <3>1, <3>2 DEF TakenIn, netlib
  <2>2. ASSUME NEW type \in Shake
        PROVE  /\ Count(msgqueue'[c], type) \in Nat /\ Count(toN64'[c], type) \in Nat
               /\ Count(msgqueue'[c], type) + Count(toN64'[c], type)
                     <= Count(msgqueue[c], type) + Count(toN64[c], type)
    <3>1. Count(<<m>>, type) = IF m.type = type THEN 1 ELSE 0
      BY CountOne
    <3>2. Count(toN64'[c], type) \in Nat /\ Count(toN64'[c], type) <= Count(toN64[c], type) + Count(<<m>>, type)
      BY <1>a, <2>0, SendCount
    <3>3. /\ Count(msgqueue'[c], type) \in Nat
          /\ Count(msgqueue[c], type)
                = Count(msgqueue'[c], type) + IF msgqueue[c][k].type = type THEN 1 ELSE 0
      BY <1>a, <1>w
    <3>4. Count(msgqueue[c], type) \in Nat /\ Count(toN64[c], type) \in Nat
      BY <1>n
    <3>5. CASE m.type = type
      <4>1. msgqueue[c][k].type = type
        BY <1>a, <3>5
      <4> QED
        BY <3>1, <3>2, <3>3, <3>4, <3>5, <4>1
    <3>6. CASE m.type # type
      <4>1. Count(<<m>>, type) = 0
        BY <3>1, <3>6
      <4>2. Count(msgqueue'[c], type) <= Count(msgqueue[c], type)
        BY <3>3, <3>4
      <4> QED
        BY <3>2, <3>3, <3>4, <4>1, <4>2
    <3> QED
      BY <3>5, <3>6
  <2> QED
    BY <1>g, <2>1, <2>2
<1>d. /\ Plain("CLIENTCONNECT") \in Downward /\ Plain("SERVERFULL") \in Downward
      /\ Plain("CLOCKSYNC") \in Downward /\ Plain("ACKBEAT") \in Downward
      /\ Packet("CLIENTINFO", player[c], <<>>) \in Downward
  <2>1. player[c] \in Nat
    BY DEF TypeInv, SlotTypes, Slots
  <2> QED
    BY <2>1, PacketTypes DEF DownTypes, Plain, Packet
<1>1. CASE HandleConnect(c)
  <2>1. PICK k \in DOMAIN msgqueue[c] :
           msgqueue[c][k] = Plain("CLIENTCONNECT") /\ msgqueue' = [msgqueue EXCEPT ![c] = Without(@, k)]
    BY <1>1, <1>t DEF HandleConnect, Takes
  <2>2. thread'[c] \notin Joined
    BY <1>1, <1>q DEF HandleConnect, Joined
  <2>3. Send(c, <<Plain("CLIENTCONNECT")>>) \/ Send(c, <<Plain("SERVERFULL")>>)
    BY <1>1 DEF HandleConnect
  <2>4. CASE Send(c, <<Plain("CLIENTCONNECT")>>)
    BY <1>a, <1>d, <1>t, <2>1, <2>2, <2>4 DEF ForPlayers
  <2>5. CASE Send(c, <<Plain("SERVERFULL")>>)
    BY <1>a, <1>d, <1>t, <2>1, <2>2, <2>5 DEF ForPlayers, Shake
  <2> QED
    BY <2>3, <2>4, <2>5
<1>2. CASE HandleSync(c)
  <2>1. PICK k \in DOMAIN msgqueue[c] :
           msgqueue[c][k] = Plain("CLOCKSYNC") /\ msgqueue' = [msgqueue EXCEPT ![c] = Without(@, k)]
    BY <1>2, <1>t DEF HandleSync, Takes
  <2>2. thread'[c] \notin Joined /\ Send(c, <<Plain("CLOCKSYNC")>>)
    BY <1>2 DEF HandleSync, Joined
  <2> QED
    BY <1>a, <1>d, <1>t, <2>1, <2>2 DEF ForPlayers
<1>3. CASE HandleDone(c)
  <2>1. PICK k \in DOMAIN msgqueue[c] :
           msgqueue[c][k] = Plain("DONESYNC") /\ msgqueue' = [msgqueue EXCEPT ![c] = Without(@, k)]
    BY <1>3, <1>t DEF HandleDone, SetNumber, Takes
  <2>2. toN64' = toN64
    BY <1>3 DEF HandleDone, SetNumber, window
  <2>3. ASSUME NEW type
        PROVE  /\ Count(msgqueue'[c], type) \in Nat
               /\ Count(msgqueue[c], type)
                     = Count(msgqueue'[c], type) + IF type = "DONESYNC" THEN 1 ELSE 0
    <3>1. msgqueue[c][k].type = "DONESYNC"
      BY <1>t, <2>1
    <3>2. /\ Count(msgqueue'[c], type) \in Nat
          /\ Count(msgqueue[c], type)
                = Count(msgqueue'[c], type) + IF msgqueue[c][k].type = type THEN 1 ELSE 0
      BY <1>w, <2>1
    <3>3. (IF msgqueue[c][k].type = type THEN 1 ELSE 0) = IF type = "DONESYNC" THEN 1 ELSE 0
      BY <3>1
    <3> QED
      BY <3>2, <3>3
  <2>4. conn[c] = "plyinfo" /\ Traffic(c, "DONESYNC")' = 0
    <3>1. Traffic(c, "DONESYNC") = 0 \/ (Traffic(c, "DONESYNC") = 1 /\ Awaits(c, "DONESYNC"))
      BY DEF Shaking, OneAtATime, Shake
    <3>2. Awaits(c, "DONESYNC") => conn[c] = "plyinfo"
      BY DEF Awaits
    <3>3. wire'[c] = wire[c] /\ toServer'[c] = toServer[c] /\ usb'[c] = usb[c] /\ toN64'[c] = toN64[c]
      BY <1>u, <2>2 DEF netlib
    <3>4. /\ Count(msgqueue'[c], "DONESYNC") \in Nat
          /\ Count(msgqueue[c], "DONESYNC") = Count(msgqueue'[c], "DONESYNC") + 1
      BY <2>3
    <3>5. /\ Count(wire[c], "DONESYNC") \in Nat /\ Count(toServer[c], "DONESYNC") \in Nat
          /\ Count(toN64[c], "DONESYNC") \in Nat /\ Count(usb[c], "DONESYNC") \in Nat
      BY <1>n
    <3>6. /\ Traffic(c, "DONESYNC")' \in Nat /\ Traffic(c, "DONESYNC") = Traffic(c, "DONESYNC")' + 1
      BY <3>3, <3>4, <3>5 DEF Traffic
    <3> QED
      BY <3>1, <3>2, <3>6
  <2>5. ASSUME NEW type \in Shake
        PROVE  /\ Count(msgqueue'[c], type) \in Nat /\ Count(toN64'[c], type) \in Nat
               /\ Count(msgqueue'[c], type) + Count(toN64'[c], type)
                     <= Count(msgqueue[c], type) + Count(toN64[c], type)
    <3>1. Count(msgqueue'[c], type) \in Nat /\ Count(msgqueue'[c], type) <= Count(msgqueue[c], type)
      BY <1>n, <2>3
    <3> QED
      BY <1>n, <2>2, <3>1
  <2> QED
    BY <1>g, <2>4, <2>5
<1>4. CASE Introduce(c)
  <2>1. /\ Send(c, <<Packet("CLIENTINFO", player[c], <<>>)>>) /\ msgqueue' = msgqueue
        /\ thread[c] = "joining"
    BY <1>4 DEF Introduce
  <2> QED
    BY <1>d, <1>i, <1>t, <2>1 DEF TakenIn, Joined, Shake
<1>5. CASE SendHeartbeat(c)
  <2>1. /\ Send(c, <<Plain("ACKBEAT")>>) /\ msgqueue' = msgqueue /\ thread[c] = "connected"
    BY <1>5 DEF SendHeartbeat, threads
  <2> QED
    BY <1>d, <1>i, <1>t, <2>1 DEF TakenIn, Joined, Shake
<1>6. CASE SendMessages(c)
  <2>1. Send(c, mailbox[c]) /\ msgqueue' = msgqueue /\ thread[c] = "connected"
    BY <1>6 DEF SendMessages
  <2>2. mailbox[c] \in Seq(Downward) /\ \A j \in DOMAIN mailbox[c] : mailbox[c][j].type \notin Shake
    BY <1>q DEF Mailboxes, ForPlayers, Shake
  <2> QED
    BY <1>s, <2>1, <2>2 DEF TakenIn, Joined
<1>7. CASE HandleNothing(c) \/ HandleInput(c)
  <2>1. PICK k \in DOMAIN msgqueue[c] : msgqueue' = [msgqueue EXCEPT ![c] = Without(@, k)]
    BY <1>7, <1>t DEF HandleNothing, HandleInput
  <2>2. toN64' = toN64 /\ thread' = thread
    BY <1>7 DEF HandleNothing, HandleInput, window
  <2>3. ASSUME NEW type
        PROVE Count(msgqueue'[c], type) \in Nat /\ Count(msgqueue'[c], type) <= Count(msgqueue[c], type)
    <3>1. /\ Count(msgqueue'[c], type) \in Nat
          /\ Count(msgqueue[c], type)
                = Count(msgqueue'[c], type) + IF msgqueue[c][k].type = type THEN 1 ELSE 0
      BY <1>w, <2>1
    <3> QED
      BY <1>n, <3>1
  <2> QED
    BY <1>x, <2>2, <2>3
<1>8. CASE HandleUnexpected(c) \/ DisconnectPlayer(c) \/ (TimeOut(c) /\ thread[c] # "connected")
  <2>1. /\ toN64' = toN64 /\ thread'[c] = "none" /\ msgqueue' = [msgqueue EXCEPT ![c] = <<>>]
    BY <1>8, <1>q DEF HandleUnexpected, DisconnectPlayer, TimeOut, window
  <2>2. ASSUME NEW type PROVE Count(msgqueue'[c], type) = 0
    BY <1>q, <2>1, ClearCount
  <2> QED
    BY <1>n, <1>x, <2>1, <2>2 DEF Joined
<1>9. CASE SetNumber(c) \/ (TimeOut(c) /\ thread[c] = "connected")
  <2>1. toN64' = toN64 /\ msgqueue' = msgqueue /\ thread[c] \in Joined
    BY <1>9 DEF SetNumber, TimeOut, Joined, window
  <2> QED
    BY <1>9, <1>n, <1>x, <2>1 DEF Joined
<1> QED
  BY <1>1, <1>2, <1>3, <1>4, <1>5, <1>6, <1>7, <1>8, <1>9 DEF ServerThread

\* What players are sent, in a queue of nothing else.
LEMMA PlayersMail ==
    ASSUME NEW S, NEW s \in Seq(S), \A k \in DOMAIN s : s[k].type \in ForPlayers,
           NEW r \in Seq(S), \A k \in DOMAIN r : r[k].type \in ForPlayers
    PROVE  \A k \in DOMAIN (s \o r) : (s \o r)[k].type \in ForPlayers
<1> TAKE k \in DOMAIN (s \o r)
<1>1. \/ k \in DOMAIN s /\ (s \o r)[k] = s[k]
      \/ k - Len(s) \in DOMAIN r /\ (s \o r)[k] = r[k - Len(s)]
  OBVIOUS
<1> QED
  BY <1>1

LEMMA PlayersMailOne ==
    ASSUME NEW S, NEW s \in Seq(S), \A k \in DOMAIN s : s[k].type \in ForPlayers,
           NEW m \in S, m.type \in ForPlayers
    PROVE  \A k \in DOMAIN Append(s, m) : Append(s, m)[k].type \in ForPlayers
<1> TAKE k \in DOMAIN Append(s, m)
<1>1. (k \in DOMAIN s /\ Append(s, m)[k] = s[k]) \/ Append(s, m)[k] = m
  OBVIOUS
<1> QED
  BY <1>1

\* Only players get mail, and only until their thread ends.
LEMMA MailboxesKept ==
    ASSUME TypeInv, Mailboxes, [Next]_vars
    PROVE  Mailboxes'
<1>t. /\ DOMAIN thread = Clients /\ mailbox \in [Clients -> Seq(Downward)]
      /\ \A i \in Slots : lastupdate[i] \in Nat
      /\ \A d \in Clients : player[d] \in Nat
      /\ env.slots \in Nat
  <2>1. player \in [Clients -> Slots \union {0}] /\ Slots \union {0} \subseteq Nat
    BY DEF TypeInv, SlotTypes, Slots
  <2> QED
    BY <2>1 DEF TypeInv, SlotTypes, QueueTypes, OtherTypes
<1>o. ASSUME NEW i \in Slots, NEW d \in Clients, slots[i] = d PROVE thread[d] \in Joined
  <2>1. slots[i] # NoOne
    BY <1>o, RealtimeAssumption
  <2> QED
    BY <1>o, <2>1 DEF TypeInv, SlotsAreOwned, Joined
<1>m. ASSUME NEW d \in Clients
      PROVE  /\ mailbox[d] # <<>> => thread[d] \in Joined
             /\ \A k \in DOMAIN mailbox[d] : mailbox[d][k].type \in ForPlayers
             /\ mailbox[d] \in Seq(Downward)
  BY <1>t DEF Mailboxes
<1>s. ASSUME \A d \in Clients :
                \/ mailbox'[d] = mailbox[d] /\ (thread[d] \in Joined => thread'[d] \in Joined)
                \/ mailbox'[d] = <<>>
                \/ /\ thread'[d] \in Joined
                   /\ \A k \in DOMAIN mailbox'[d] : mailbox'[d][k].type \in ForPlayers
      PROVE  Mailboxes'
  BY <1>s, <1>m DEF Mailboxes
<1>1. CASE UNCHANGED <<thread, mailbox>>
  BY <1>1, <1>s
<1>2. ASSUME NEW c \in Clients,
             \/ N64(c) \/ Boot(c) \/ SendInputs(c) \/ LoseServer(c) \/ Retry(c)
             \/ Interface(c) \/ DeviceThread(c) \/ UploadThread(c) \/ Unplug(c) \/ User(c)
             \/ HandleSync(c) \/ HandleNothing(c) \/ HandleInput(c) \/ SendHeartbeat(c)
      PROVE  UNCHANGED <<thread, mailbox>>
  <2>1. CASE N64(c) \/ Boot(c) \/ SendInputs(c) \/ LoseServer(c) \/ Retry(c)
    BY <2>1 DEF N64, EnterInit, InitStage, RequestClock, DoneSync, Callback, PollEnds, Boot, SendInputs, LoseServer, Retry,
       server, threads
  <2>2. CASE Interface(c) \/ DeviceThread(c) \/ UploadThread(c) \/ Unplug(c) \/ User(c)
    BY <2>2 DEF Interface, DeviceThread, UploadThread, Unplug, User, Upload, Others, server, threads
  <2>3. CASE HandleSync(c) \/ HandleNothing(c) \/ HandleInput(c) \/ SendHeartbeat(c)
    BY <2>3 DEF HandleSync, HandleNothing, HandleInput, SendHeartbeat, threads
  <2> QED
    BY <1>2, <2>1, <2>2, <2>3
<1>3. ASSUME NEW c \in Clients,
             \/ RelayUp(c) \/ HandleConnect(c) \/ HandleDone(c) \/ SetNumber(c) \/ HandleUnexpected(c)
             \/ TimeOut(c) /\ thread[c] # "connected"
      PROVE  Mailboxes'
  <2>1. mailbox' = mailbox
    BY <1>3 DEF RelayUp, HandleConnect, HandleDone, SetNumber, HandleUnexpected, TimeOut
  <2>2. \A d \in Clients : thread[d] \in Joined => thread'[d] \in Joined
    BY <1>3, <1>t DEF RelayUp, HandleConnect, HandleDone, SetNumber, HandleUnexpected, TimeOut, Joined
  <2> QED
    BY <1>s, <2>1, <2>2
<1>4. ASSUME NEW c \in Clients, SendMessages(c) \/ DisconnectPlayer(c) PROVE Mailboxes'
  <2>1. mailbox' = [mailbox EXCEPT ![c] = <<>>] /\ \A d \in Clients : d # c => thread'[d] = thread[d]
    BY <1>4, <1>t DEF SendMessages, DisconnectPlayer
  <2>2. \A d \in Clients : mailbox'[d] = IF d = c THEN <<>> ELSE mailbox[d]
    BY <1>t, <2>1
  <2> QED
    BY <1>s, <2>1, <2>2
\* What is told to the other players.
<1>5. ASSUME NEW c \in Clients, NEW d \in Clients, NEW pkt \in Downward, pkt.type \in ForPlayers
      PROVE  \/ Tell(c, pkt)[d] = mailbox[d]
             \/ /\ thread[d] \in Joined /\ Tell(c, pkt)[d] = Append(mailbox[d], pkt)
                /\ \A k \in DOMAIN Append(mailbox[d], pkt) : Append(mailbox[d], pkt)[k].type \in ForPlayers
  <2>1. CASE \E i \in OtherPlayers(c) : slots[i] = d
    <3>1. thread[d] \in Joined
      BY <1>o, <2>1 DEF OtherPlayers
    <3>2. \A k \in DOMAIN Append(mailbox[d], pkt) : Append(mailbox[d], pkt)[k].type \in ForPlayers
      BY <1>5, <1>m, PlayersMailOne
    <3> QED
      BY <2>1, <3>1, <3>2 DEF Tell
  <2>2. CASE ~\E i \in OtherPlayers(c) : slots[i] = d
    BY <2>2 DEF Tell
  <2> QED
    BY <2>1, <2>2
<1>6. ASSUME NEW c \in Clients, TimeOut(c), thread[c] = "connected" PROVE Mailboxes'
  <2>1. PICK pkt \in Downward : pkt.type \in ForPlayers /\ mailbox' = Tell(c, pkt)
    <3>1. /\ Packet("PLAYERDISCONNECT", player[c], <<>>) \in Downward
          /\ Packet("PLAYERDISCONNECT", player[c], <<>>).type = "PLAYERDISCONNECT"
      BY <1>t, PacketTypes DEF DownTypes, Packet
    <3> QED
      BY <1>6, <3>1 DEF TimeOut, ForPlayers
  <2>2. \A d \in Clients : thread[d] \in Joined => thread'[d] \in Joined
    BY <1>6, <1>t DEF TimeOut, Joined
  <2>3. ASSUME NEW d \in Clients
        PROVE  \/ mailbox'[d] = mailbox[d]
               \/ /\ thread'[d] \in Joined
                  /\ \A k \in DOMAIN mailbox'[d] : mailbox'[d][k].type \in ForPlayers
    BY <1>5, <2>1, <2>2, ZenonT(40)
  <2> QED
    BY <1>s, <2>2, <2>3
<1>7. ASSUME NEW c \in Clients, Introduce(c) PROVE Mailboxes'
  <2>1. PICK pkt \in Downward, info \in Introductions(c) :
           pkt.type \in ForPlayers /\ mailbox' = [Tell(c, pkt) EXCEPT ![c] = @ \o info]
    <3>1. /\ Packet("PLAYERINFO", player[c], <<>>) \in Downward
          /\ Packet("PLAYERINFO", player[c], <<>>).type = "PLAYERINFO"
      BY <1>t, PacketTypes DEF DownTypes, Packet
    <3> QED
      BY <1>7, <3>1 DEF Introduce, ForPlayers
  <2>2. thread'[c] \in Joined /\ \A d \in Clients : thread[d] \in Joined => thread'[d] \in Joined
    BY <1>7, <1>t DEF Introduce, Joined
  <2>3. DOMAIN Tell(c, pkt) = Clients
    BY DEF Tell
  <2>4. ASSUME NEW d \in Clients, d # c
        PROVE  \/ mailbox'[d] = mailbox[d]
               \/ /\ thread'[d] \in Joined
                  /\ \A k \in DOMAIN mailbox'[d] : mailbox'[d][k].type \in ForPlayers
    <3>1. mailbox'[d] = Tell(c, pkt)[d]
      BY <2>1, <2>3, <2>4
    <3>2. pkt.type \in ForPlayers
      BY <2>1
    <3>3. \/ Tell(c, pkt)[d] = mailbox[d]
          \/ /\ thread[d] \in Joined
             /\ \A k \in DOMAIN Tell(c, pkt)[d] : Tell(c, pkt)[d][k].type \in ForPlayers
      BY <1>5, <3>2
    <3> QED
      BY <2>2, <3>1, <3>3
  <2>5. \A k \in DOMAIN mailbox'[c] : mailbox'[c][k].type \in ForPlayers
    <3>1. Tell(c, pkt)[c] = mailbox[c]
      BY RealtimeAssumption DEF Tell, OtherPlayers
    <3>2. mailbox'[c] = mailbox[c] \o info
      BY <2>1, <2>3, <3>1
    <3>3. info \in Seq(Downward)
      BY <1>t, <2>1, IntroductionTypes DEF TypeInv
    <3>4. \A k \in DOMAIN info : info[k].type \in ForPlayers
      BY <2>1 DEF Introductions, Packet, ForPlayers
    <3>5. mailbox[c] \in Seq(Downward) /\ \A k \in DOMAIN mailbox[c] : mailbox[c][k].type \in ForPlayers
      BY <1>m
    <3>6. \A k \in DOMAIN (mailbox[c] \o info) : (mailbox[c] \o info)[k].type \in ForPlayers
      BY <3>3, <3>4, <3>5, PlayersMail
    <3> QED
      BY <3>2, <3>6
  <2> QED
    BY <1>s, <2>2, <2>4, <2>5
<1>8. CASE GameThread
  <2>1. CASE DoUpdate
    BY <1>1, <2>1 DEF DoUpdate, threads
  <2>2. CASE SendUpdates
    <3>1. thread' = thread
      BY <2>2 DEF SendUpdates
    <3>2. ASSUME NEW d \in Clients
          PROVE  \/ mailbox'[d] = mailbox[d]
                 \/ /\ thread'[d] \in Joined
                    /\ \A k \in DOMAIN mailbox'[d] : mailbox'[d][k].type \in ForPlayers
      <4>1. CASE \E i \in Slots : slots[i] = d
        <5>1. PICK i \in Slots : /\ slots[i] = d
                                 /\ mailbox'[d] = Append(mailbox[d], Packet("PLAYERUPDATE", lastupdate[i], <<>>))
          BY <2>2, <4>1 DEF SendUpdates
        <5>2. PICK pkt \in Downward : pkt = Packet("PLAYERUPDATE", lastupdate[i], <<>>)
          BY <1>t, PacketTypes DEF DownTypes
        <5>3. pkt.type \in ForPlayers
          BY <5>2 DEF Packet, ForPlayers
        <5>4. \A k \in DOMAIN Append(mailbox[d], pkt) : Append(mailbox[d], pkt)[k].type \in ForPlayers
          BY <1>m, <5>3, PlayersMailOne
        <5> QED
          BY <1>o, <3>1, <5>1, <5>2, <5>4
      <4>2. CASE ~\E i \in Slots : slots[i] = d
        BY <2>2, <4>2 DEF SendUpdates
      <4> QED
        BY <4>1, <4>2
    <3> QED
      BY <1>s, <3>1, <3>2
  <2> QED
    BY <1>8, <2>1, <2>2 DEF GameThread
<1>9. CASE UNCHANGED vars
  BY <1>1, <1>9 DEF vars, server, threads
<1> QED
  BY <1>1, <1>2, <1>3, <1>4, <1>6, <1>7, <1>8, <1>9 DEF Next, ServerThread

\* Nothing runs without a ROM that was loaded, nor sends outside its call.
LEMMA BootedKept ==
    ASSUME TypeInv, NEW c \in Clients, Booted(c),
           \/ N64(c) \/ Boot(c) \/ SendInputs(c) \/ LoseServer(c) \/ Retry(c)
           \/ Interface(c) \/ DeviceThread(c) \/ UploadThread(c) \/ RelayUp(c)
           \/ Unplug(c) \/ User(c)
           \/ ServerThread(c) \/ SendHeartbeat(c) \/ TimeOut(c)
    PROVE  Booted(c)'
<1>t. /\ DOMAIN sendafterpoll = Clients /\ DOMAIN polls = Clients /\ DOMAIN calling = Clients
      /\ DOMAIN device = Clients /\ DOMAIN loaded = Clients /\ DOMAIN uploads = Clients
      /\ polls[c] \in Nat /\ uploads[c] \in Nat
  BY DEF TypeInv, WindowInv, WindowTypes, NetTypes, ProgramTypes, OtherTypes
<1>1. CASE N64(c) \/ Boot(c) \/ SendInputs(c) \/ LoseServer(c) \/ Retry(c)
  <2>1. UNCHANGED <<loaded, device, uploads>>
    BY <1>1 DEF N64, EnterInit, InitStage, RequestClock, DoneSync, Callback, PollEnds, Boot, SendInputs, LoseServer, Retry,
       window
  <2>2. uploads[c] # 0
    BY <1>1 DEF N64, EnterInit, InitStage, RequestClock, DoneSync, Callback, PollEnds, Boot, SendInputs, LoseServer, Retry,
       Booted
  <2>3. polls'[c] = 0 => ~sendafterpoll'[c] /\ calling'[c] = ""
    <3>1. CASE EnterInit(c) \/ Retry(c) \/ RequestClock(c) \/ DoneSync(c) \/ SendInputs(c)
      <4>1. polls' = [polls EXCEPT ![c] = 1]
        BY <3>1 DEF EnterInit, InitStage, Retry, RequestClock, DoneSync, SendInputs, Call, SendToServer, TakeBuffer
      <4>2. polls'[c] = 1
        BY <1>t, <4>1
      <4>3. 1 # 0
        OBVIOUS
      <4> QED
        BY <4>2, <4>3
    <3>2. CASE Callback(c)
      <4>1. PICK answer : ReadPacket(c, answer)
        BY <3>2 DEF Callback
      <4>2. \E depth \in Nat \ {0} : polls' = [polls EXCEPT ![c] = depth]
        BY <1>t, <4>1 DEF ReadPacket, TakeBuffer
      <4> QED
        BY <1>t, <4>2
    <3>3. CASE PollEnds(c)
      <4>1. /\ polls'[c] = polls[c] - 1 /\ ~sendafterpoll'[c]
            /\ calling'[c] = IF polls[c] = 1 THEN "" ELSE calling[c]
        BY <1>t, <3>3 DEF PollEnds, EndPoll
      <4>2. PICK n \in Nat : n = polls[c]
        BY <1>t
      <4>3. n - 1 = 0 => n = 1
        BY <4>2
      <4> QED
        BY <4>1, <4>2, <4>3
    <3>4. CASE Boot(c)
      BY <1>t, <3>4 DEF Boot, NetLibStarts
    <3>5. CASE LoseServer(c)
      BY <3>5 DEF LoseServer, netlib, Booted
    <3> QED
      BY <1>1, <3>1, <3>2, <3>3, <3>4, <3>5 DEF N64
  <2> QED
    BY <2>1, <2>2, <2>3 DEF Booted
<1>2. CASE Upload(c)
  <2>1. uploads'[c] = uploads[c] + 1 /\ UNCHANGED <<polls, sendafterpoll, calling>>
    BY <1>2, <1>t DEF Upload, StartUpload
  <2>2. uploads'[c] # 0
    BY <1>t, <2>1
  <2> QED
    BY <2>1, <2>2 DEF Booted
<1>3. CASE UNCHANGED <<polls, sendafterpoll, calling, stage, uploads, loaded, device>>
  BY <1>3 DEF Booted
<1>4. CASE /\ \/ Interface(c) \/ Unplug(c) \/ User(c) \/ UploadThread(c)
              \/ FindCart(c) \/ LeaveLoop(c) \/ DeviceEnds(c) \/ UploadOver(c)
              \/ InterruptUpload(c) \/ JoinUpload(c) \/ HandleMainInput(c)
           /\ UNCHANGED <<netlib, Others>>
  <2>1. UNCHANGED <<polls, sendafterpoll, calling, stage>>
    BY <1>4 DEF netlib, Others, program
  <2>2. CASE Interface(c) \/ User(c)
    <3>1. UNCHANGED <<uploads, loaded>>
      BY <2>2 DEF Interface, User, BeginWorking, ThreadEvent, RelayStops, Click, Close
    <3>2. device'[c] \in {device[c], "starting"}
      BY <1>t, <2>2 DEF Interface, User, BeginWorking, ThreadEvent, RelayStops, Click, Close, StartThread,
         NewDeviceThread
    <3> QED
      BY <2>1, <3>1, <3>2 DEF Booted
  <2>3. CASE Unplug(c) \/ UploadThread(c) \/ FindCart(c) \/ LeaveLoop(c) \/ DeviceEnds(c)
    <3>1. UNCHANGED <<uploads, loaded>>
      BY <2>3 DEF Unplug, UploadThread, LoseCart, SendROM, UploadEnds, FindCart, LeaveLoop, DeviceEnds
    <3>2. device'[c] \in {device[c], "loop", "dying", "dead"}
      BY <1>t, <2>3 DEF Unplug, UploadThread, LoseCart, SendROM, UploadEnds, FindCart, LeaveLoop, DeviceEnds, Becomes
    <3> QED
      BY <2>1, <3>1, <3>2 DEF Booted
  <2>4. CASE UploadOver(c) \/ InterruptUpload(c) \/ HandleMainInput(c)
    <3>1. UNCHANGED <<uploads, loaded>>
      BY <2>4 DEF UploadOver, InterruptUpload, HandleMainInput
    <3>2. device'[c] = device[c] \/ device[c] = "upload"
      BY <2>4 DEF UploadOver, InterruptUpload, HandleMainInput
    <3> QED
      BY <2>1, <3>1, <3>2 DEF Booted
  <2>5. CASE JoinUpload(c)
    <3>1. UNCHANGED uploads /\ device[c] = "joining"
      BY <2>5 DEF JoinUpload
    <3> QED
      BY <2>1, <3>1 DEF Booted
  <2> QED
    BY <1>4, <2>2, <2>3, <2>4, <2>5
<1>5. CASE (ReceiveUSB(c) \/ SendUSB(c)) /\ UNCHANGED Others
  BY <1>3, <1>5 DEF ReceiveUSB, SendUSB, Others, program
<1>6. CASE RelayUp(c)
  BY <1>3, <1>6 DEF RelayUp, netlib, program
<1>7. CASE ServerThread(c) \/ SendHeartbeat(c) \/ TimeOut(c)
  <2>1. UNCHANGED <<netlib, program, device, loaded, uploads>>
    BY <1>7 DEF ServerThread, HandleConnect, HandleSync, HandleDone, SetNumber, Introduce, HandleUnexpected,
           HandleNothing, HandleInput, SendMessages, DisconnectPlayer, SendHeartbeat, TimeOut, Send,
           window
  <2> QED
    BY <1>3, <2>1 DEF netlib, program
<1> QED
  BY <1>1, <1>2, <1>4, <1>5, <1>6, <1>7 DEF Interface, DeviceThread, UploadThread, Unplug, User

\* A step of the system keeps the handshakes.
LEMMA HandshakeKept ==
    ASSUME TypeInv, HandshakeInv, [Next]_vars
    PROVE  HandshakeInv'
<1>1. Mailboxes'
  BY MailboxesKept DEF HandshakeInv
<1>2. ASSUME NEW d \in Clients, Unmoved(d)
      PROVE  Booted(d)' /\ (FirstTry(d)' => Shaking(d)')
  <2>1. Booted(d)'
    BY <1>2 DEF HandshakeInv, Unmoved, Booted
  <2>2. Shaking(d) => Shaking(d)'
    <3>1. \A type : (Traffic(d, type)' = Traffic(d, type)) /\ (Holds(d, type)' <=> Holds(d, type))
                    /\ (Awaits(d, type)' <=> Awaits(d, type))
      BY <1>2 DEF Unmoved, Traffic, Holds, Awaits
    <3>2. TakenIn(d)' <=> TakenIn(d)
      BY <1>2 DEF Unmoved, TakenIn
    <3>3. OwnCall(d) => OwnCall(d)'
      BY <1>2, <3>1 DEF Unmoved, OwnCall
    <3>4. Progress(d) => Progress(d)'
      BY <1>2 DEF Unmoved, Progress
    <3>5. OneAtATime(d) => OneAtATime(d)'
      BY <3>1 DEF OneAtATime
    <3>6. Over(d) => Over(d)'
      BY <1>2, <3>1, <3>2 DEF Unmoved, Over
    <3>7. NoneLost(d) => NoneLost(d)'
      BY <1>2 DEF Unmoved, NoneLost
    <3> QED
      BY <3>3, <3>4, <3>5, <3>6, <3>7 DEF Shaking
  <2> QED
    BY <2>1, <2>2, FirstTries DEF HandshakeInv
<1>3. ASSUME NEW c \in Clients,
             \/ N64(c) \/ Boot(c) \/ SendInputs(c) \/ LoseServer(c) \/ Retry(c)
             \/ Interface(c) \/ DeviceThread(c) \/ UploadThread(c) \/ RelayUp(c)
             \/ Unplug(c) \/ User(c)
             \/ ServerThread(c) \/ SendHeartbeat(c) \/ TimeOut(c),
             NEW d \in Clients
      PROVE  Booted(d)' /\ (FirstTry(d)' => Shaking(d)')
  <2>1. CASE d # c
    BY <1>2, <1>3, <2>1, OnlyThere
  <2>2. CASE d = c
    <3>1. Booted(c) /\ (FirstTry(c)' => Shaking(c)) /\ Mailboxes
      BY FirstTries DEF HandshakeInv
    <3>2. Booted(c)'
      BY <1>3, <3>1, BootedKept
    <3>3. ASSUME FirstTry(c)' PROVE Shaking(c)'
      <4>1. CASE N64(c) \/ Boot(c) \/ SendInputs(c) \/ LoseServer(c) \/ Retry(c)
        BY <3>1, <3>3, <4>1, ProgramShakes
      <4>2. CASE Interface(c) \/ DeviceThread(c) \/ UploadThread(c) \/ Unplug(c) \/ User(c) \/ RelayUp(c)
        BY <3>1, <3>3, <4>2, WindowIsQuiet, QuietShakes
      <4>3. CASE ServerThread(c) \/ SendHeartbeat(c) \/ TimeOut(c)
        BY <3>1, <3>3, <4>3, ServerIsQuiet, QuietShakes
      <4> QED
        BY <1>3, <4>1, <4>2, <4>3
    <3> QED
      BY <2>2, <3>2, <3>3
  <2> QED
    BY <2>1, <2>2
<1>4. CASE GameThread \/ UNCHANGED vars
  BY <1>1, <1>2, <1>4, GameIsElsewhere DEF HandshakeInv
<1> QED
  BY <1>1, <1>3, <1>4 DEF Next, HandshakeInv

LEMMA HandshakeInvariant == Spec => []HandshakeInv
<1>1. Init => HandshakeInv
  <2> SUFFICES ASSUME Init PROVE HandshakeInv
    OBVIOUS
  <2>1. Mailboxes
    BY DEF Init, ServerInit, Mailboxes
  <2>2. ASSUME NEW c \in Clients PROVE Booted(c) /\ Shaking(c)
    <3>1. /\ ~sendafterpoll[c] /\ polls[c] = 0 /\ usb[c] = <<>> /\ wire[c] = <<>> /\ lost[c] = {}
      BY DEF Init, NetLibInit
    <3>2. msgqueue[c] = <<>> /\ thread[c] = "none"
      BY DEF Init, ServerInit
    <3>3. /\ conn[c] = "unconnected" /\ clocks[c] = 0 /\ ~clocksent[c] /\ calling[c] = ""
          /\ stage[c] \in {"off", "start"} /\ (env.fresh => stage[c] = "off")
      BY DEF Init, ProgramInit
    <3>4. toN64[c] = <<>> /\ toServer[c] = <<>>
      BY DEF Init, WindowInit, Started
    <3>5. Booted(c)
      <4>1. CASE env.fresh
        <5>1. ~loaded[c] /\ device[c] = "none"
          BY <4>1 DEF Init, WindowInit
        <5> QED
          BY <3>1, <3>3, <4>1, <5>1 DEF Booted
      <4>2. CASE ~env.fresh
        <5>1. uploads[c] = 1 /\ 1 # 0
          BY <4>2 DEF Init, Started
        <5>2. uploads[c] # 0
          BY <5>1
        <5> QED
          BY <3>1, <3>3, <5>2 DEF Booted
      <4> QED
        BY <4>1, <4>2
    <3>6. ASSUME NEW type PROVE Traffic(c, type) = 0
      <4>1. Count(<<>>, type) = 0
        <5>1. <<>> \in Seq({})
          OBVIOUS
        <5> QED
          BY <5>1, CountFacts
      <4>2. /\ Count(wire[c], type) = 0 /\ Count(toServer[c], type) = 0 /\ Count(msgqueue[c], type) = 0
            /\ Count(toN64[c], type) = 0 /\ Count(usb[c], type) = 0
        BY <3>1, <3>2, <3>4, <4>1
      <4> QED
        BY <4>2 DEF Traffic
    <3>7. ~TakenIn(c)
      <4>1. thread[c] \notin Joined
        BY <3>2 DEF Joined
      <4>2. ~SentAsPlayer(<<>>)
        BY DEF SentAsPlayer
      <4> QED
        BY <3>1, <3>4, <4>1, <4>2 DEF TakenIn
    <3>8. CLOCKCOUNT \in Nat \ {0}
      BY RealtimeAssumption
    <3>9. Progress(c)
      <4>1. 0 <= CLOCKCOUNT
        BY <3>8
      <4>2. clocks[c] <= CLOCKCOUNT
        BY <3>3, <4>1
      <4>3. stage[c] \notin {"game", "disconnected"}
        BY <3>3
      <4> QED
        BY <3>3, <4>2, <4>3 DEF Progress
    <3>10. OwnCall(c) /\ OneAtATime(c) /\ Over(c) /\ NoneLost(c)
      BY <3>1, <3>3, <3>6, <3>7 DEF OwnCall, Holds, Shake, OneAtATime, Over, NoneLost
    <3> QED
      BY <3>5, <3>9, <3>10 DEF Shaking
  <2> QED
    BY <2>1, <2>2 DEF HandshakeInv
<1>2. TypeInv /\ HandshakeInv /\ [Next]_vars => HandshakeInv'
  BY HandshakeKept
<1> QED
  BY <1>1, <1>2, TypeInvariant, PTL DEF Spec

\* While nobody has to try again, no packet of the handshake is lost in the one write
\* buffer of the library (netlib.c:330, packets.c:52): what a client would answer from a
\* callback is sent to players only, and to them once they have said DONESYNC.
THEOREM HandshakeIsSentTheorem == Spec => []HandshakeIsSent
<1>1. HandshakeInv => HandshakeIsSent
  BY DEF HandshakeInv, Shaking, NoneLost, Shake, HandshakeIsSent
<1> QED
  BY <1>1, HandshakeInvariant, PTL

\* Each answer to a clock request is measured against its own request: there is one at
\* a time between the two ends, and no more than global_latencytests has places for.
THEOREM OneClockSyncTheorem == Spec => []OneClockSync
<1>1. ASSUME TypeInv, HandshakeInv, NEW c \in Clients, FirstTry(c)
      PROVE  /\ clocks[c] <= CLOCKCOUNT
             /\ (IF sendafterpoll[c] /\ buffer[c].type = "CLOCKSYNC" THEN 1 ELSE 0)
                + Count(wire[c], "CLOCKSYNC") + Count(toServer[c], "CLOCKSYNC")
                + Count(msgqueue[c], "CLOCKSYNC") + Count(toN64[c], "CLOCKSYNC")
                + Count(usb[c], "CLOCKSYNC")
                     <= (IF clocksent[c] \/ calling[c] = "CLOCKSYNC" THEN 1 ELSE 0)
  <2>1. OwnCall(c) /\ Progress(c) /\ OneAtATime(c)
    BY <1>1 DEF HandshakeInv, Shaking
  <2>2. clocks[c] <= CLOCKCOUNT /\ (calling[c] = "CLOCKSYNC" => ~clocksent[c])
    BY <2>1 DEF Progress
  <2>3. (sendafterpoll[c] /\ buffer[c].type = "CLOCKSYNC") <=> calling[c] = "CLOCKSYNC"
    BY <2>1 DEF OwnCall, Holds, Shake
  <2>4. Traffic(c, "CLOCKSYNC") = 0 \/ (Traffic(c, "CLOCKSYNC") = 1 /\ clocksent[c])
    BY <2>1 DEF OneAtATime, Awaits, Shake
  <2>5. /\ Count(wire[c], "CLOCKSYNC") \in Nat /\ Count(toServer[c], "CLOCKSYNC") \in Nat
        /\ Count(msgqueue[c], "CLOCKSYNC") \in Nat /\ Count(toN64[c], "CLOCKSYNC") \in Nat
        /\ Count(usb[c], "CLOCKSYNC") \in Nat
    BY <1>1, TrafficIsNat DEF TypeInv
  <2>6. PICK h \in {0, 1} : h = IF sendafterpoll[c] /\ buffer[c].type = "CLOCKSYNC" THEN 1 ELSE 0
    OBVIOUS
  <2>7. PICK e \in {0, 1} : e = IF clocksent[c] \/ calling[c] = "CLOCKSYNC" THEN 1 ELSE 0
    OBVIOUS
  <2>8. PICK n \in Nat : n = Traffic(c, "CLOCKSYNC")
    BY <2>4
  <2>9. h + n <= e
    <3>1. CASE calling[c] = "CLOCKSYNC"
      BY <2>2, <2>3, <2>4, <2>6, <2>7, <2>8, <3>1
    <3>2. CASE calling[c] # "CLOCKSYNC"
      BY <2>3, <2>4, <2>6, <2>7, <2>8, <3>2
    <3> QED
      BY <3>1, <3>2
  <2>10. h + Count(wire[c], "CLOCKSYNC") + Count(toServer[c], "CLOCKSYNC")
           + Count(msgqueue[c], "CLOCKSYNC") + Count(toN64[c], "CLOCKSYNC")
           + Count(usb[c], "CLOCKSYNC") = h + n
    BY <2>5, <2>8 DEF Traffic
  <2> QED
    BY <2>2, <2>6, <2>7, <2>9, <2>10
<1>2. TypeInv /\ HandshakeInv => OneClockSync
  BY <1>1 DEF OneClockSync
<1> QED
  BY <1>2, TypeInvariant, HandshakeInvariant, PTL
-----------------------------------------------------------------------------
(* Who is there *)

\* A packet that says that player i is there, or gone, and who is known to be there after
\* a sequence of packets was read.  Number 0 is that of who has none yet.
Greets(p, i) == p.type \in {"CLIENTINFO", "PLAYERINFO"} /\ p.n = i
Parts(p, i)  == p.type = "PLAYERDISCONNECT" /\ p.n = i

Numbers == Slots \union {0}

AfterReading(R, s) ==
    { i \in Numbers :
        \/ \E k \in DOMAIN s : Greets(s[k], i) /\ \A j \in DOMAIN s : j > k => ~Parts(s[j], i)
        \/ i \in R /\ \A k \in DOMAIN s : ~Parts(s[k], i) }

\* Reading nothing, one packet, and two sequences one after the other.
LEMMA ReadingNothing ==
    ASSUME NEW R \in SUBSET Numbers
    PROVE  AfterReading(R, <<>>) = R
  BY DEF AfterReading

LEMMA ReadingOne ==
    ASSUME NEW R, NEW p
    PROVE  AfterReading(R, <<p>>) = { i \in Numbers : Greets(p, i) \/ (i \in R /\ ~Parts(p, i)) }
<1>1. DOMAIN <<p>> = {1} /\ <<p>>[1] = p /\ ~(1 > 1)
  OBVIOUS
<1>2. ASSUME NEW i \in Numbers
      PROVE  i \in AfterReading(R, <<p>>) <=> Greets(p, i) \/ (i \in R /\ ~Parts(p, i))
  BY <1>1 DEF AfterReading
<1> QED
  BY <1>2 DEF AfterReading

LEMMA ReadingMore ==
    ASSUME NEW S, NEW s \in Seq(S), NEW r \in Seq(S), NEW R
    PROVE  AfterReading(R, s \o r) = AfterReading(AfterReading(R, s), r)
<1>1. PICK q : q = s \o r
  OBVIOUS
<1>2. PICK n \in Nat : n = Len(s)
  OBVIOUS
<1>3. /\ DOMAIN s = 1..n /\ DOMAIN r = 1..Len(r) /\ Len(r) \in Nat
      /\ DOMAIN q = 1..(n + Len(r))
      /\ \A k \in DOMAIN s : q[k] = s[k]
      /\ \A k \in DOMAIN r : q[n + k] = r[k]
  BY <1>1, <1>2
<1>4. ASSUME NEW k \in DOMAIN q
      PROVE  (k \in DOMAIN s /\ q[k] = s[k]) \/ (k - n \in DOMAIN r /\ q[k] = r[k - n])
  <2>1. CASE k <= n
    BY <1>3, <2>1
  <2>2. CASE k > n
    <3>1. k - n \in DOMAIN r /\ n + (k - n) = k
      BY <1>3, <2>2
    <3> QED
      BY <1>3, <3>1
  <2> QED
    BY <1>3, <2>1, <2>2
<1>5. ASSUME NEW i \in Numbers
      PROVE  i \in AfterReading(R, q) <=> i \in AfterReading(AfterReading(R, s), r)
  <2>1. ASSUME i \in AfterReading(R, q) PROVE i \in AfterReading(AfterReading(R, s), r)
    <3>1. ASSUME NEW k \in DOMAIN q, Greets(q[k], i), \A j \in DOMAIN q : j > k => ~Parts(q[j], i)
          PROVE  i \in AfterReading(AfterReading(R, s), r)
      <4>1. CASE k \in DOMAIN s /\ q[k] = s[k]
        <5>1. \A j \in DOMAIN s : j > k => ~Parts(s[j], i)
          BY <1>3, <3>1
        <5>2. \A j \in DOMAIN r : ~Parts(r[j], i)
          <6> TAKE j \in DOMAIN r
          <6>1. n + j \in DOMAIN q /\ n + j > k /\ q[n + j] = r[j]
            BY <1>3, <4>1
          <6> QED
            BY <3>1, <6>1
        <5>3. i \in AfterReading(R, s)
          BY <3>1, <4>1, <5>1 DEF AfterReading
        <5> QED
          BY <5>2, <5>3 DEF AfterReading
      <4>2. CASE k - n \in DOMAIN r /\ q[k] = r[k - n]
        <5>1. \A j \in DOMAIN r : j > k - n => ~Parts(r[j], i)
          <6> TAKE j \in DOMAIN r
          <6>1. n + j \in DOMAIN q /\ (j > k - n => n + j > k) /\ q[n + j] = r[j]
            BY <1>3
          <6> QED
            BY <3>1, <6>1
        <5> QED
          BY <3>1, <4>2, <5>1 DEF AfterReading
      <4> QED
        BY <1>4, <4>1, <4>2
    <3>2. ASSUME i \in R, \A k \in DOMAIN q : ~Parts(q[k], i)
          PROVE  i \in AfterReading(AfterReading(R, s), r)
      <4>1. \A j \in DOMAIN s : ~Parts(s[j], i)
        BY <1>3, <3>2
      <4>2. \A j \in DOMAIN r : ~Parts(r[j], i)
        <5> TAKE j \in DOMAIN r
        <5>1. n + j \in DOMAIN q /\ q[n + j] = r[j]
          BY <1>3
        <5> QED
          BY <3>2, <5>1
      <4> QED
        BY <3>2, <4>1, <4>2 DEF AfterReading
    <3> QED
      BY <2>1, <3>1, <3>2 DEF AfterReading
  <2>2. ASSUME i \in AfterReading(AfterReading(R, s), r) PROVE i \in AfterReading(R, q)
    <3>1. ASSUME NEW k \in DOMAIN r, Greets(r[k], i), \A j \in DOMAIN r : j > k => ~Parts(r[j], i)
          PROVE  i \in AfterReading(R, q)
      <4>1. n + k \in DOMAIN q /\ q[n + k] = r[k]
        BY <1>3
      <4>2. ASSUME NEW j \in DOMAIN q, j > n + k PROVE ~Parts(q[j], i)
        <5>1. j - n \in DOMAIN r /\ j - n > k /\ n + (j - n) = j
          BY <1>3, <4>2
        <5> QED
          BY <1>3, <3>1, <5>1
      <4> QED
        BY <3>1, <4>1, <4>2 DEF AfterReading
    <3>2. ASSUME i \in AfterReading(R, s), \A j \in DOMAIN r : ~Parts(r[j], i)
          PROVE  i \in AfterReading(R, q)
      <4>1. ASSUME NEW k \in DOMAIN s, Greets(s[k], i), \A j \in DOMAIN s : j > k => ~Parts(s[j], i)
            PROVE  i \in AfterReading(R, q)
        <5>1. k \in DOMAIN q /\ q[k] = s[k]
          BY <1>3
        <5>2. \A j \in DOMAIN q : j > k => ~Parts(q[j], i)
          BY <1>4, <3>2, <4>1
        <5> QED
          BY <4>1, <5>1, <5>2 DEF AfterReading
      <4>2. ASSUME i \in R, \A j \in DOMAIN s : ~Parts(s[j], i)
            PROVE  i \in AfterReading(R, q)
        BY <1>4, <3>2, <4>2 DEF AfterReading
      <4> QED
        BY <3>2, <4>1, <4>2 DEF AfterReading
    <3> QED
      BY <2>2, <3>1, <3>2 DEF AfterReading
  <2> QED
    BY <2>1, <2>2
<1> QED
  BY <1>1, <1>5 DEF AfterReading

\* ... and a sequence that grows, and one of which the head is read.
LEMMA ReadingLonger ==
    ASSUME NEW S, NEW s \in Seq(S), NEW p \in S, NEW R
    PROVE  AfterReading(R, Append(s, p)) = AfterReading(AfterReading(R, s), <<p>>)
<1>1. Append(s, p) = s \o <<p>> /\ <<p>> \in Seq(S)
  OBVIOUS
<1> QED
  BY <1>1, ReadingMore, ZenonT(40)

LEMMA ReadingHead ==
    ASSUME NEW S, NEW s \in Seq(S), s # <<>>, NEW R
    PROVE  AfterReading(R, s) = AfterReading(AfterReading(R, <<Head(s)>>), Tail(s))
<1>1. s = <<Head(s)>> \o Tail(s) /\ <<Head(s)>> \in Seq(S) /\ Tail(s) \in Seq(S)
  <2>1. Head(s) \in S /\ Tail(s) \in Seq(S) /\ Len(Tail(s)) = Len(s) - 1 /\ Head(s) = s[1]
        /\ \A i \in DOMAIN Tail(s) : Tail(s)[i] = s[i + 1]
    BY TailFacts
  <2>2. <<Head(s)>> \in Seq(S) /\ Len(<<Head(s)>>) = 1 /\ <<Head(s)>>[1] = s[1]
    BY <2>1
  <2> DEFINE t == <<Head(s)>> \o Tail(s)
  <2>3. t \in Seq(S) /\ Len(t) = Len(s) /\ t[1] = s[1]
        /\ \A j \in 1..Len(Tail(s)) : t[1 + j] = Tail(s)[j]
    BY <2>1, <2>2, Concatenated
  <2>4. ASSUME NEW j \in 1..Len(s) PROVE s[j] = t[j]
    <3>1. CASE j = 1
      BY <2>3, <3>1
    <3>2. CASE j # 1
      <4>1. j - 1 \in 1..Len(Tail(s)) /\ 1 + (j - 1) = j /\ (j - 1) + 1 = j
        BY <2>1, <3>2
      <4> QED
        BY <2>1, <2>3, <4>1
    <3> QED
      BY <3>1, <3>2
  <2> HIDE DEF t
  <2>5. s = t
    BY <2>3, <2>4, SameSequence
  <2> QED
    BY <2>1, <2>2, <2>5 DEF t
<1>2. AfterReading(R, <<Head(s)>> \o Tail(s)) = AfterReading(AfterReading(R, <<Head(s)>>), Tail(s))
  BY <1>1, ReadingMore
<1>3. AfterReading(R, s) = AfterReading(R, <<Head(s)>> \o Tail(s))
  BY <1>1
<1> QED
  BY <1>2, <1>3

\* Packets that say nobody left: who is known stays known, who is named becomes known, and
\* nobody else does.
LEMMA ReadingNews ==
    ASSUME NEW R, NEW s, NEW i \in Numbers, \A k \in DOMAIN s : ~Parts(s[k], i)
    PROVE  i \in AfterReading(R, s) <=> i \in R \/ \E k \in DOMAIN s : Greets(s[k], i)
  BY DEF AfterReading

\* Packets that say nothing of anybody.
LEMMA ReadingElse ==
    ASSUME NEW R \in SUBSET Numbers, NEW s,
           \A k \in DOMAIN s : s[k].type \notin {"CLIENTINFO", "PLAYERINFO", "PLAYERDISCONNECT"}
    PROVE  AfterReading(R, s) = R
  BY DEF AfterReading, Greets, Parts

\* What c's N64 knows once it has read what is on its way to it, and then what waits in the
\* queue of its Player.
Known(c)  == AfterReading(AfterReading(roster[c], usb[c]), toN64[c])
Belief(c) == AfterReading(Known(c), mailbox[c])

\* A number in a packet is that of a slot, or of a Player without one, who is not the
\* client itself; and a mailbox has no packet of a thread's own.
WellNamed(p)  == /\ p.type = "CLIENTINFO" => p.n \in Slots
                 /\ p.type = "PLAYERINFO" => p.n \in Numbers
NamesSlots(s) == \A k \in DOMAIN s : WellNamed(s[k])
Mailed        == {"PLAYERINFO", "PLAYERDISCONNECT", "PLAYERUPDATE"}
Naming ==
    \A c \in Clients :
        /\ roster[c] \subseteq Numbers
        /\ NamesSlots(usb[c]) /\ NamesSlots(toN64[c]) /\ NamesSlots(mailbox[c])
        /\ \A k \in DOMAIN mailbox[c] : mailbox[c][k].type \in Mailed

\* A window that was not begun has uploaded nothing, and only a cart that was unplugged ends
\* its device thread before the window is closed.
Windows ==
    \A c \in Clients :
        /\ device[c] = "none" => uploads[c] = 0
        /\ used["unplug"] = 0 /\ device[c] \in {"dying", "dead"} => closing[c]

\* The Player with number i is there and not leaving, or has even introduced itself.
Stays(i)   == i \in Slots /\ slots[i] # NoOne /\ thread[slots[i]] # "leaving"
Present(i) == i \in Slots /\ slots[i] # NoOne /\ thread[slots[i]] = "connected"

\* Who joins has its slot already.  It is told of nobody who does not stay, and that
\* it left itself by nobody.
Joins      == {"taking", "joining"}
NewMail(c) ==
    /\ \A i \in AfterReading({}, mailbox[c]) : Stays(i)
    /\ player[c] \in AfterReading({player[c]}, mailbox[c])

\* A client's number, in a sequence of packets, and before all that only makes sense with it.
SaysNumber(s)       == \E k \in DOMAIN s : s[k].type = "CLIENTINFO"
NeedsNumber         == ForPlayers \ {"CLIENTINFO"}
NumberComesFirst(s) ==
    \A k \in DOMAIN s : s[k].type \in NeedsNumber => \E j \in 1..(k - 1) : s[j].type = "CLIENTINFO"

\* What c's N64 knows of itself: it is in the game when it has its number, and is told nothing
\* of the game before.
Entered(c) ==
    /\ stage[c] = "game" <=> clnumber[c] # 0
    /\ stage[c] = "game" => Traffic(c, "DONESYNC") = 0
    /\ roster[c] # {} => clnumber[c] # 0
    /\ thread[c] \in Joins =>
          clnumber[c] = 0 /\ ~SentAsPlayer(usb[c]) /\ ~SentAsPlayer(toN64[c])
    /\ clnumber[c] = 0 =>
          /\ NumberComesFirst(usb[c])
          /\ SaysNumber(usb[c]) \/ NumberComesFirst(toN64[c])
          /\ thread[c] = "connected" /\ relay[c] => SaysNumber(usb[c]) \/ SaysNumber(toN64[c])

\* The number is that of its slot.
Named(s, n)  == \A k \in DOMAIN s : s[k].type = "CLIENTINFO" => s[k].n = n
OwnNumber(c) ==
    clnumber[c] \in {0, player[c]} /\ Named(usb[c], player[c]) /\ Named(toN64[c], player[c])

\* What it knows of the others, once it has read everything: whoever has introduced itself,
\* and, but for its ghosts, nobody who is not there or leaves.
Roster(c) ==
    /\ \A i \in Slots : Present(i) => i \in Belief(c)
    /\ \A i \in Belief(c) : Stays(i) \/ i \in ghosts[c]

Member(c) ==
    /\ Entered(c)
    /\ relay[c] /\ thread[c] = "connected" => OwnNumber(c) /\ Roster(c)

RosterInv ==
    /\ Naming /\ Windows
    /\ \A c \in Clients : thread[c] \in Joins => NewMail(c)
    /\ \A c \in Clients : used["unplug"] = 0 /\ FirstTry(c) => Member(c)

-----------------------------------------------------------------------------
(* The steps of the room *)

\* Nobody joins or leaves, and no mailbox changes.
Outside   == {"none", "unconnected", "connecting"}
RoomRests ==
    /\ UNCHANGED <<mailbox, slots, player>>
    /\ \A d \in Clients : thread'[d] = thread[d] \/ (thread[d] \in Outside /\ thread'[d] \in Outside)

\* c gets slot i.
Enters(c, i) ==
    /\ thread[c] = "connecting" /\ slots[i] = NoOne
    /\ thread' = [thread EXCEPT ![c] = "taking"]
    /\ slots' = [slots EXCEPT ![i] = c]
    /\ player' = [player EXCEPT ![c] = i]
    /\ mailbox' = mailbox

\* c's departure is announced.
Departs(c) ==
    /\ thread[c] = "connected"
    /\ thread' = [thread EXCEPT ![c] = "leaving"]
    /\ mailbox' = Tell(c, Packet("PLAYERDISCONNECT", player[c], <<>>))
    /\ UNCHANGED <<slots, player>>

LEMMA RoomSteps ==
    ASSUME SlotTypes, [Next]_vars
    PROVE  \/ RoomRests
           \/ \E c \in Clients :
                 \/ \E i \in Slots : Enters(c, i)
                 \/ SetNumber(c) \/ Introduce(c) \/ SendMessages(c) \/ Departs(c) \/ DisconnectPlayer(c)
           \/ SendUpdates
<1>d. DOMAIN thread = Clients
  BY DEF SlotTypes
<1>0. CASE UNCHANGED vars
  BY <1>0 DEF vars, server, room, threads, RoomRests
<1>1. ASSUME NEW c \in Clients,
             \/ N64(c) \/ Boot(c) \/ SendInputs(c) \/ LoseServer(c) \/ Retry(c)
             \/ Interface(c) \/ DeviceThread(c) \/ UploadThread(c) \/ Unplug(c) \/ User(c)
             \/ HandleSync(c) \/ HandleNothing(c) \/ HandleInput(c) \/ SendHeartbeat(c)
      PROVE  RoomRests
  <2>1. CASE N64(c) \/ Boot(c) \/ SendInputs(c) \/ LoseServer(c) \/ Retry(c)
    BY <2>1 DEF N64, EnterInit, InitStage, RequestClock, DoneSync, Callback, PollEnds, Boot, SendInputs, LoseServer, Retry,
       server, room, threads, RoomRests
  <2>2. CASE Interface(c) \/ DeviceThread(c) \/ UploadThread(c) \/ Unplug(c) \/ User(c)
    BY <2>2 DEF Interface, DeviceThread, UploadThread, Unplug, User, Upload, Others, server, room,
       threads, RoomRests
  <2>3. CASE HandleSync(c) \/ HandleNothing(c) \/ HandleInput(c) \/ SendHeartbeat(c)
    BY <2>3 DEF HandleSync, HandleNothing, HandleInput, SendHeartbeat, room, threads, RoomRests
  <2> QED
    BY <1>1, <2>1, <2>2, <2>3
<1>2. ASSUME NEW c \in Clients,
             RelayUp(c) \/ HandleConnect(c) \/ HandleUnexpected(c)
                \/ (TimeOut(c) /\ thread[c] # "connected")
      PROVE  RoomRests
  <2>1. UNCHANGED <<mailbox, slots, player>>
    BY <1>2 DEF RelayUp, HandleConnect, HandleUnexpected, TimeOut, room
  <2>2. \A d \in Clients : thread'[d] = thread[d] \/ (thread[d] \in Outside /\ thread'[d] \in Outside)
    BY <1>d, <1>2 DEF RelayUp, HandleConnect, HandleUnexpected, TimeOut, Outside
  <2> QED
    BY <2>1, <2>2 DEF RoomRests
<1>3. ASSUME NEW c \in Clients, HandleDone(c) PROVE RoomRests \/ \E i \in Slots : Enters(c, i)
  <2>1. CASE UNCHANGED <<room, thread, player>>
    BY <1>3, <2>1 DEF HandleDone, room, RoomRests
  <2>2. CASE ~UNCHANGED <<room, thread, player>>
    BY <1>3, <2>2 DEF HandleDone, room, Enters
  <2> QED
    BY <2>1, <2>2
<1>4. ASSUME NEW c \in Clients, TimeOut(c), thread[c] = "connected" PROVE Departs(c)
  BY <1>4 DEF TimeOut, Departs, room
<1>5. CASE GameThread
  BY <1>5 DEF GameThread, DoUpdate, threads, RoomRests
<1> QED
  BY <1>0, <1>1, <1>2, <1>3, <1>4, <1>5 DEF Next, ServerThread

\* An element of two sequences, one after the other, is one of either.
LEMMA BothParts ==
    ASSUME NEW S, NEW s \in Seq(S), NEW r \in Seq(S), NEW k \in DOMAIN (s \o r)
    PROVE  \/ k \in DOMAIN s /\ (s \o r)[k] = s[k]
           \/ \E j \in DOMAIN r : (s \o r)[k] = r[j]
<1>1. k \in 1..(Len(s) + Len(r)) /\ Len(s) \in Nat /\ Len(r) \in Nat /\ DOMAIN s = 1..Len(s)
      /\ DOMAIN r = 1..Len(r)
  OBVIOUS
<1>2. CASE k <= Len(s)
  BY <1>1, <1>2
<1>3. CASE k > Len(s)
  <2>1. k - Len(s) \in DOMAIN r /\ (s \o r)[k] = r[k - Len(s)]
    BY <1>1, <1>3
  <2> QED
    BY <2>1
<1> QED
  BY <1>1, <1>2, <1>3

-----------------------------------------------------------------------------
(* What is said first *)

\* A number in what is read, added or taken away.
LEMMA NamingFacts ==
    ASSUME NEW S, NEW s \in Seq(S)
    PROVE  /\ NamesSlots(<<>>)
           /\ \A p \in S : NamesSlots(s) /\ WellNamed(p) => NamesSlots(Append(s, p))
           /\ \A r \in Seq(S) : NamesSlots(s) /\ NamesSlots(r) => NamesSlots(s \o r)
           /\ s # <<>> /\ NamesSlots(s) =>
                 NamesSlots(Tail(s)) /\ WellNamed(Head(s))
<1>1. ASSUME NEW p \in S, NamesSlots(s), WellNamed(p)
      PROVE  NamesSlots(Append(s, p))
  BY <1>1 DEF NamesSlots
<1>2. ASSUME NEW r \in Seq(S), NamesSlots(s), NamesSlots(r)
      PROVE  NamesSlots(s \o r)
  <2>1. ASSUME NEW k \in DOMAIN (s \o r) PROVE \/ k \in DOMAIN s /\ (s \o r)[k] = s[k]
                                             \/ \E j \in DOMAIN r : (s \o r)[k] = r[j]
    BY BothParts
  <2> QED
    BY <1>2, <2>1 DEF NamesSlots
<1>3. ASSUME s # <<>>, NamesSlots(s)
      PROVE  NamesSlots(Tail(s)) /\ WellNamed(Head(s))
  BY <1>3, TailFacts DEF NamesSlots
<1> QED
  BY <1>1, <1>2, <1>3 DEF NamesSlots

\* The same of the number a client is given.
LEMMA NamedFacts ==
    ASSUME NEW S, NEW s \in Seq(S), NEW n
    PROVE  /\ Named(<<>>, n)
           /\ \A p \in S : Named(s, n) /\ (p.type = "CLIENTINFO" => p.n = n) => Named(Append(s, p), n)
           /\ \A r \in Seq(S) : Named(s, n) /\ Named(r, n) => Named(s \o r, n)
           /\ s # <<>> /\ Named(s, n) =>
                 Named(Tail(s), n) /\ (Head(s).type = "CLIENTINFO" => Head(s).n = n)
<1>1. ASSUME NEW p \in S, Named(s, n), p.type = "CLIENTINFO" => p.n = n
      PROVE  Named(Append(s, p), n)
  BY <1>1 DEF Named
<1>2. ASSUME NEW r \in Seq(S), Named(s, n), Named(r, n)
      PROVE  Named(s \o r, n)
  <2>1. ASSUME NEW k \in DOMAIN (s \o r) PROVE \/ k \in DOMAIN s /\ (s \o r)[k] = s[k]
                                             \/ \E j \in DOMAIN r : (s \o r)[k] = r[j]
    BY BothParts
  <2> QED
    BY <1>2, <2>1 DEF Named
<1>3. ASSUME s # <<>>, Named(s, n)
      PROVE  Named(Tail(s), n) /\ (Head(s).type = "CLIENTINFO" => Head(s).n = n)
  BY <1>3, TailFacts DEF Named
<1> QED
  BY <1>1, <1>2, <1>3 DEF Named

\* Whether a client's number is in a sequence, and comes first there.
LEMMA FirstFacts ==
    ASSUME NEW S, NEW s \in Seq(S)
    PROVE  /\ ~SaysNumber(<<>>) /\ NumberComesFirst(<<>>)
           /\ ~SentAsPlayer(s) => NumberComesFirst(s) /\ ~SaysNumber(s)
           /\ s # <<>> /\ NumberComesFirst(s) => Head(s).type \notin NeedsNumber
           /\ s # <<>> /\ Head(s).type # "CLIENTINFO" =>
                 /\ SaysNumber(s) <=> SaysNumber(Tail(s))
                 /\ NumberComesFirst(s) => NumberComesFirst(Tail(s))
<1>1. ASSUME ~SentAsPlayer(s) PROVE NumberComesFirst(s) /\ ~SaysNumber(s)
  BY <1>1 DEF SentAsPlayer, NumberComesFirst, SaysNumber, NeedsNumber, ForPlayers
<1>2. ASSUME s # <<>>, NumberComesFirst(s) PROVE Head(s).type \notin NeedsNumber
  <2>1. Head(s) = s[1] /\ 1 \in DOMAIN s /\ 1..(1 - 1) = {}
    BY <1>2, TailFacts
  <2> QED
    BY <1>2, <2>1 DEF NumberComesFirst
<1>3. ASSUME s # <<>>, Head(s).type # "CLIENTINFO"
      PROVE  /\ SaysNumber(s) <=> SaysNumber(Tail(s))
             /\ NumberComesFirst(s) => NumberComesFirst(Tail(s))
  <2>1. /\ Head(s) = s[1] /\ 1 \in DOMAIN s /\ Tail(s) \in Seq(S) /\ Len(Tail(s)) = Len(s) - 1
        /\ \A k \in DOMAIN Tail(s) : k + 1 \in DOMAIN s /\ Tail(s)[k] = s[k + 1]
    BY <1>3, TailFacts
  <2>2. ASSUME NEW k \in DOMAIN s, k # 1 PROVE k - 1 \in DOMAIN Tail(s) /\ Tail(s)[k - 1] = s[k]
    <3>1. k - 1 \in 1..Len(Tail(s)) /\ (k - 1) + 1 = k
      BY <2>1, <2>2
    <3> QED
      BY <2>1, <3>1
  <2>3. SaysNumber(s) <=> SaysNumber(Tail(s))
    BY <1>3, <2>1, <2>2, ZenonT(40) DEF SaysNumber
  <2>4. ASSUME NumberComesFirst(s), NEW k \in DOMAIN Tail(s), Tail(s)[k].type \in NeedsNumber
        PROVE  \E j \in 1..(k - 1) : Tail(s)[j].type = "CLIENTINFO"
    <3>1. PICK j \in 1..((k + 1) - 1) : s[j].type = "CLIENTINFO"
      BY <2>1, <2>4 DEF NumberComesFirst
    <3>2. j \in DOMAIN s /\ j # 1 /\ j - 1 \in 1..(k - 1)
      BY <1>3, <2>1, <2>4, <3>1
    <3> QED
      BY <2>2, <3>1, <3>2
  <2> QED
    BY <2>3, <2>4 DEF NumberComesFirst
<1> QED
  BY <1>1, <1>2, <1>3 DEF SaysNumber, NumberComesFirst

LEMMA FirstOfBoth ==
    ASSUME NEW S, NEW s \in Seq(S), NEW r \in Seq(S)
    PROVE  /\ SaysNumber(s \o r) <=> SaysNumber(s) \/ SaysNumber(r)
           /\ NumberComesFirst(s) /\ (SaysNumber(s) \/ NumberComesFirst(r)) => NumberComesFirst(s \o r)
<1>1. PICK q : q = s \o r
  OBVIOUS
<1>2. PICK n \in Nat : n = Len(s)
  OBVIOUS
<1>3. /\ DOMAIN s = 1..n /\ DOMAIN r = 1..Len(r) /\ Len(r) \in Nat
      /\ DOMAIN q = 1..(n + Len(r))
      /\ \A k \in DOMAIN s : q[k] = s[k]
      /\ \A k \in DOMAIN r : q[n + k] = r[k]
  BY <1>1, <1>2
<1>4. ASSUME NEW k \in DOMAIN q
      PROVE  \/ k \in DOMAIN s /\ q[k] = s[k]
             \/ k > n /\ k - n \in DOMAIN r /\ q[k] = r[k - n]
  <2>1. CASE k <= n
    BY <1>3, <2>1
  <2>2. CASE k > n
    <3>1. k - n \in DOMAIN r /\ n + (k - n) = k
      BY <1>3, <2>2
    <3> QED
      BY <1>3, <2>2, <3>1
  <2> QED
    BY <1>3, <2>1, <2>2
<1>5. SaysNumber(q) <=> SaysNumber(s) \/ SaysNumber(r)
  <2>1. ASSUME NEW k \in DOMAIN r PROVE n + k \in DOMAIN q
    BY <1>3
  <2>2. ASSUME NEW k \in DOMAIN s PROVE k \in DOMAIN q
    BY <1>3
  <2> QED
    BY <1>3, <1>4, <2>1, <2>2 DEF SaysNumber
<1>6. ASSUME NumberComesFirst(s), SaysNumber(s) \/ NumberComesFirst(r),
             NEW k \in DOMAIN q, q[k].type \in NeedsNumber
      PROVE  \E j \in 1..(k - 1) : q[j].type = "CLIENTINFO"
  <2>1. CASE k \in DOMAIN s /\ q[k] = s[k]
    <3>1. PICK j \in 1..(k - 1) : s[j].type = "CLIENTINFO"
      BY <1>6, <2>1 DEF NumberComesFirst
    <3>2. j \in DOMAIN s
      BY <1>3, <2>1, <3>1
    <3> QED
      BY <1>3, <3>1, <3>2
  <2>2. CASE k > n /\ k - n \in DOMAIN r /\ q[k] = r[k - n]
    <3>1. CASE SaysNumber(s)
      <4>1. PICK j \in DOMAIN s : s[j].type = "CLIENTINFO"
        BY <3>1 DEF SaysNumber
      <4>2. j \in 1..(k - 1)
        BY <1>3, <2>2, <4>1
      <4> QED
        BY <1>3, <4>1, <4>2
    <3>2. CASE NumberComesFirst(r)
      <4>1. PICK j \in 1..((k - n) - 1) : r[j].type = "CLIENTINFO"
        BY <1>6, <2>2, <3>2 DEF NumberComesFirst
      <4>2. j \in DOMAIN r /\ n + j \in 1..(k - 1)
        BY <1>3, <2>2, <4>1
      <4> QED
        BY <1>3, <4>1, <4>2
    <3> QED
      BY <1>6, <3>1, <3>2
  <2> QED
    BY <1>4, <1>6, <2>1, <2>2
<1> QED
  BY <1>1, <1>5, <1>6 DEF NumberComesFirst

\* The introductions name everybody else who is there, and nobody who is not.
LEMMA IntroductionFacts ==
    ASSUME NEW c \in Clients, NEW info \in Introductions(c), env.slots \in Nat
    PROVE  /\ \A k \in DOMAIN info :
                 info[k].type = "PLAYERINFO" /\ \E i \in OtherPlayers(c) : info[k].n = Number(slots[i])
           /\ \A i \in OtherPlayers(c) :
                 \E k \in DOMAIN info : info[k].type = "PLAYERINFO" /\ info[k].n = Number(slots[i])
<1> DEFINE S == OtherPlayers(c)
           m == Cardinality(S)
<1>1. S \subseteq Nat /\ IsFiniteSet(S)
  <2>1. IsFiniteSet(Slots) /\ S \subseteq Slots
    BY FS_Interval DEF Slots, OtherPlayers
  <2> QED
    BY <2>1, FS_Subset DEF Slots
<1>2. m \in Nat
  BY <1>1, FS_CardinalityType
<1>3. PICK s \in InOrder(S) : info = [k \in DOMAIN s |-> Packet("PLAYERINFO", Number(slots[s[k]]), <<>>)]
  BY DEF Introductions
<1>4. s \in [1..m -> S] /\ \A j, k \in DOMAIN s : j < k => s[j] < s[k]
  BY <1>3 DEF InOrder
<1> HIDE DEF m, S
<1>5. \A j \in 1..m : s[j] \in Nat
  BY <1>1, <1>4
<1>6. s \in Injection(1..m, S)
  <2>1. \A j, k \in 1..m : s[j] = s[k] => j = k
    <3> SUFFICES ASSUME NEW j \in 1..m, NEW k \in 1..m, s[j] = s[k], j # k PROVE FALSE
      OBVIOUS
    <3>1. j < k \/ k < j
      BY <1>2
    <3>2. s[j] < s[k] \/ s[k] < s[j]
      BY <1>4, <3>1
    <3> QED
      BY <1>5, <3>2
  <2> QED
    BY <1>4, <2>1 DEF Injection, IsInjective
<1>7. s \in Surjection(1..m, S)
  <2>1. Cardinality(1..m) = m
    BY <1>2, FS_Interval
  <2> QED
    BY <1>1, <1>6, <2>1, FS_Injection DEF m
<1>8. \A i \in S : \E k \in 1..m : s[k] = i
  BY <1>7 DEF Surjection
<1>9. DOMAIN info = 1..m /\ \A k \in 1..m : info[k] = Packet("PLAYERINFO", Number(slots[s[k]]), <<>>)
  BY <1>3, <1>4
<1> QED
  BY <1>4, <1>8, <1>9 DEF Packet, S

-----------------------------------------------------------------------------
(* Numbers and mailboxes *)

\* Nobody is told of a number that is not a slot's.
LEMMA NumbersKept ==
    ASSUME TypeInv, Naming, NEW c \in Clients, NEW d \in Clients,
           \/ N64(d) \/ Boot(d) \/ SendInputs(d) \/ LoseServer(d) \/ Retry(d)
           \/ Interface(d) \/ DeviceThread(d) \/ UploadThread(d) \/ RelayUp(d)
           \/ Unplug(d) \/ User(d)
           \/ ServerThread(d) \/ SendHeartbeat(d) \/ TimeOut(d)
    PROVE  roster'[c] \subseteq Numbers /\ NamesSlots(usb'[c]) /\ NamesSlots(toN64'[c])
<1>t. /\ usb \in [Clients -> Seq(Downward)] /\ toN64 \in [Clients -> Seq(Downward)]
      /\ mailbox \in [Clients -> Seq(Downward)] /\ roster \in [Clients -> SUBSET Nat]
  BY DEF TypeInv, QueueTypes, ProgramTypes
<1>n. roster[c] \subseteq Numbers /\ NamesSlots(usb[c]) /\ NamesSlots(toN64[c]) /\ NamesSlots(mailbox[c])
  BY DEF Naming
<1>q. NamesSlots(<<>>)
  BY DEF NamesSlots
<1>1. CASE d # c
  <2>1. Unmoved(c)
    BY <1>1, OnlyThere
  <2> QED
    BY <1>n, <2>1 DEF Unmoved
<1>2. CASE d = c
  <2>1. CASE EnterInit(c) \/ Retry(c) \/ RequestClock(c) \/ DoneSync(c) \/ PollEnds(c) \/ SendInputs(c)
    BY <1>n, <2>1 DEF EnterInit, InitStage, Retry, RequestClock, DoneSync, PollEnds, SendInputs, Call, SendToServer, EndPoll,
       window
  <2>2. CASE Boot(c) \/ LoseServer(c)
    <3>1. UNCHANGED <<usb, toN64>> /\ roster' = [roster EXCEPT ![c] = {}]
      BY <2>2 DEF Boot, LoseServer, window, netlib
    <3>2. roster'[c] = {}
      BY <1>t, <3>1
    <3> QED
      BY <1>n, <3>1, <3>2
  <2>3. CASE Callback(c)
    <3> DEFINE pkt == Head(usb[c])
    <3>1. /\ usb[c] # <<>> /\ usb' = [usb EXCEPT ![c] = Tail(@)] /\ toN64' = toN64
          /\ roster' = [roster EXCEPT ![c] =
                CASE pkt.type \in {"CLIENTINFO", "PLAYERINFO"} -> @ \union {pkt.n}
                  [] pkt.type = "PLAYERDISCONNECT"             -> @ \ {pkt.n}
                  [] OTHER                                     -> @]
      BY <2>3 DEF Callback, ReadPacket, window
    <3>2. NamesSlots(Tail(usb[c])) /\ WellNamed(pkt)
      <4>1. usb[c] \in Seq(Downward)
        BY <1>t
      <4> QED
        BY <1>n, <3>1, <4>1, NamingFacts
    <3> HIDE DEF pkt
    <3>3. roster'[c] \subseteq Numbers
      BY <1>t, <1>n, <3>1, <3>2 DEF WellNamed, Numbers
    <3> QED
      BY <1>t, <1>n, <3>1, <3>2, <3>3
  <2>4. CASE Interface(c) \/ Unplug(c) \/ User(c) \/ UploadThread(c)
    <3>1. roster' = roster /\ usb' = usb
      BY <2>4 DEF Interface, Unplug, User, UploadThread, Others, program, netlib
    <3>2. toN64' = toN64 \/ toN64' = [toN64 EXCEPT ![c] = <<>>]
      BY <2>4, WindowEffects
    <3> QED
      BY <1>n, <1>t, <1>q, <3>1, <3>2
  <2>5. CASE DeviceThread(c)
    <3>1. roster' = roster
      BY <2>5 DEF DeviceThread, Upload, Others, program
    <3>2. CASE Upload(c)
      BY <1>n, <3>1, <3>2 DEF Upload, StartUpload
    <3>3. CASE /\ \/ FindCart(c) \/ LeaveLoop(c) \/ DeviceEnds(c) \/ UploadOver(c)
                  \/ InterruptUpload(c) \/ JoinUpload(c) \/ HandleMainInput(c)
               /\ UNCHANGED netlib
      BY <1>n, <3>1, <3>3 DEF FindCart, LeaveLoop, DeviceEnds, UploadOver,
                  InterruptUpload, JoinUpload, HandleMainInput, netlib
    <3>4. CASE ReceiveUSB(c)
      BY <1>n, <3>1, <3>4 DEF ReceiveUSB
    <3>5. CASE SendUSB(c)
      <4>1. toN64[c] # <<>> /\ usb' = Post(usb, c, Head(toN64[c])) /\ toN64' = [toN64 EXCEPT ![c] = Tail(@)]
        BY <3>5 DEF SendUSB
      <4>2. toN64[c] \in Seq(Downward) /\ usb[c] \in Seq(Downward)
        BY <1>t
      <4>3. /\ NamesSlots(Tail(toN64[c])) /\ Head(toN64[c]) \in Downward
            /\ WellNamed(Head(toN64[c]))
        BY <1>n, <4>1, <4>2, NamingFacts
      <4>4. NamesSlots(Append(usb[c], Head(toN64[c])))
        BY <1>n, <4>2, <4>3, NamingFacts
      <4> QED
        BY <1>n, <1>t, <3>1, <4>1, <4>3, <4>4 DEF Post
    <3> QED
      BY <2>5, <3>2, <3>3, <3>4, <3>5 DEF DeviceThread
  <2>6. CASE RelayUp(c)
    BY <1>n, <2>6 DEF RelayUp, netlib, program
  <2>7. CASE ServerThread(c) \/ SendHeartbeat(c) \/ TimeOut(c)
    <3>1. roster' = roster /\ usb' = usb
      BY <2>7 DEF ServerThread, HandleConnect, HandleSync, HandleDone, SetNumber, Introduce, HandleUnexpected,
         HandleNothing, HandleInput, SendMessages, DisconnectPlayer, SendHeartbeat, TimeOut, Send,
         program, netlib
    <3>2. ASSUME NEW pkts \in Seq(Downward), Send(c, pkts), NamesSlots(pkts) PROVE NamesSlots(toN64'[c])
      <4>1. toN64'[c] = IF relay[c] THEN toN64[c] \o pkts ELSE toN64[c]
        BY <1>t, <3>2 DEF Send
      <4>2. NamesSlots(toN64[c] \o pkts)
        <5>1. toN64[c] \in Seq(Downward)
          BY <1>t
        <5> QED
          BY <1>n, <3>2, <5>1, NamingFacts
      <4> QED
        BY <1>n, <4>1, <4>2
    <3>3. ASSUME NEW type \in {"CLIENTCONNECT", "SERVERFULL", "CLOCKSYNC", "ACKBEAT"}
          PROVE  <<Plain(type)>> \in Seq(Downward) /\ NamesSlots(<<Plain(type)>>)
      <4>1. Plain(type) \in Downward
        BY PacketTypes DEF DownTypes
      <4>2. NamesSlots(<<Plain(type)>>)
        BY DEF NamesSlots, WellNamed, Plain, Packet
      <4> QED
        BY <4>1, <4>2
    <3>4. CASE HandleConnect(c) \/ HandleSync(c) \/ SendHeartbeat(c)
      <4>1. NamesSlots(toN64'[c])
        BY <3>2, <3>3, <3>4 DEF HandleConnect, HandleSync, SendHeartbeat
      <4> QED
        BY <1>n, <3>1, <4>1
    <3>5. CASE Introduce(c)
      <4>1. player[c] \in Slots
        BY <3>5 DEF Introduce, TypeInv, SlotsAreOwned
      <4>2. <<Packet("CLIENTINFO", player[c], <<>>)>> \in Seq(Downward)
        <5>1. Packet("CLIENTINFO", player[c], <<>>) \in Downward
          BY <4>1, PacketTypes DEF DownTypes, Slots
        <5> QED
          BY <5>1
      <4>3. NamesSlots(<<Packet("CLIENTINFO", player[c], <<>>)>>)
        BY <4>1 DEF NamesSlots, WellNamed, Packet
      <4>4. NamesSlots(toN64'[c])
        BY <3>2, <3>5, <4>2, <4>3 DEF Introduce
      <4> QED
        BY <1>n, <3>1, <4>4
    <3>6. CASE SendMessages(c)
      <4>1. NamesSlots(toN64'[c])
        BY <1>n, <1>t, <3>2, <3>6 DEF SendMessages
      <4> QED
        BY <1>n, <3>1, <4>1
    <3>7. CASE HandleDone(c) \/ SetNumber(c) \/ HandleUnexpected(c) \/ HandleNothing(c)
               \/ HandleInput(c) \/ DisconnectPlayer(c) \/ TimeOut(c)
      BY <1>n, <3>1, <3>7 DEF HandleDone, SetNumber, HandleUnexpected, HandleNothing, HandleInput, DisconnectPlayer,
         TimeOut, window
    <3> QED
      BY <1>n, <2>7, <3>1, <3>2, <3>3, <3>4, <3>5, <3>6, <3>7 DEF ServerThread
  <2> QED
    BY <1>2, <2>1, <2>2, <2>3, <2>4, <2>5, <2>6, <2>7 DEF N64
<1> QED
  BY <1>1, <1>2

LEMMA MailKept ==
    ASSUME TypeInv, Naming, [Next]_vars, NEW c \in Clients
    PROVE  NamesSlots(mailbox'[c]) /\ \A k \in DOMAIN mailbox'[c] : mailbox'[c][k].type \in Mailed
<1>t. /\ mailbox \in [Clients -> Seq(Downward)] /\ lastupdate \in [Slots -> Nat] /\ env.slots \in Nat
      /\ SlotTypes
  BY DEF TypeInv, QueueTypes, OtherTypes
<1>n. mailbox[c] \in Seq(Downward) /\ NamesSlots(mailbox[c])
      /\ \A k \in DOMAIN mailbox[c] : mailbox[c][k].type \in Mailed
  BY <1>t DEF Naming
<1> DEFINE Fit(s) == NamesSlots(s) /\ \A k \in DOMAIN s : s[k].type \in Mailed
<1>e. Fit(<<>>)
  BY DEF NamesSlots
<1>a. ASSUME NEW p \in Downward, p.type \in Mailed, p.type = "PLAYERINFO" => p.n \in Numbers
      PROVE  Fit(Append(mailbox[c], p))
  BY <1>n, <1>a DEF NamesSlots, WellNamed, Mailed
<1>0. Fit(mailbox[c])
  BY <1>n
<1>1. ASSUME NEW d \in Clients, Introduce(d) PROVE Fit(mailbox'[c])
  <2>1. player[d] \in Slots /\ player[d] \in Nat
    BY <1>1 DEF Introduce, TypeInv, SlotsAreOwned, Slots
  <2>2. PICK info \in Introductions(d) :
           mailbox' = [Tell(d, Packet("PLAYERINFO", player[d], <<>>)) EXCEPT ![d] = @ \o info]
    BY <1>1 DEF Introduce
  <2>3. Packet("PLAYERINFO", player[d], <<>>) \in Downward
    BY <2>1, PacketTypes DEF DownTypes
  <2>4. Fit(Append(mailbox[c], Packet("PLAYERINFO", player[d], <<>>)))
    BY <1>a, <2>1, <2>3 DEF Packet, Mailed, Numbers
  <2>5. CASE c # d
    BY <1>0, <2>2, <2>4, <2>5 DEF Tell
  <2>6. CASE c = d
    <3>1. info \in Seq(Downward)
      BY <1>t, IntroductionTypes
    <3>2. \A k \in DOMAIN info : info[k].type = "PLAYERINFO" /\ info[k].n \in Numbers
      BY <1>t, IntroductionFacts, NumberTypes DEF Numbers
    <3>3. mailbox'[c] = mailbox[c] \o info
      <4>1. ~\E i \in OtherPlayers(d) : slots[i] = d
        BY DEF OtherPlayers
      <4>2. Tell(d, Packet("PLAYERINFO", player[d], <<>>))[d] = mailbox[d]
        BY <4>1 DEF Tell
      <4>3. d \in DOMAIN Tell(d, Packet("PLAYERINFO", player[d], <<>>))
        BY DEF Tell
      <4> QED
        BY <2>2, <2>6, <4>2, <4>3
    <3>4. NamesSlots(mailbox[c] \o info)
      <4>1. NamesSlots(info)
        BY <3>2 DEF NamesSlots, WellNamed
      <4> QED
        BY <1>n, <3>1, <4>1, NamingFacts
    <3>5. \A k \in DOMAIN (mailbox[c] \o info) : (mailbox[c] \o info)[k].type \in Mailed
      BY <1>n, <3>1, <3>2, BothParts DEF Mailed
    <3> QED
      BY <3>3, <3>4, <3>5
  <2> QED
    BY <2>5, <2>6
<1>2. ASSUME NEW d \in Clients, SendMessages(d) \/ DisconnectPlayer(d) PROVE Fit(mailbox'[c])
  <2>1. mailbox' = [mailbox EXCEPT ![d] = <<>>]
    BY <1>2 DEF SendMessages, DisconnectPlayer
  <2>2. mailbox'[c] = mailbox[c] \/ mailbox'[c] = <<>>
    BY <1>t, <2>1
  <2> QED
    BY <1>0, <1>e, <2>2
<1>3. ASSUME NEW d \in Clients, Departs(d) PROVE Fit(mailbox'[c])
  <2>1. player[d] \in Nat
    BY <1>3 DEF Departs, Joined, TypeInv, SlotsAreOwned, Slots
  <2>2. Packet("PLAYERDISCONNECT", player[d], <<>>) \in Downward
    BY <2>1, PacketTypes DEF DownTypes
  <2>3. Fit(Append(mailbox[c], Packet("PLAYERDISCONNECT", player[d], <<>>)))
    BY <1>a, <2>2 DEF Packet, Mailed
  <2> QED
    BY <1>0, <1>3, <2>3 DEF Departs, Tell
<1>4. ASSUME SendUpdates PROVE Fit(mailbox'[c])
  <2> DEFINE i == CHOOSE i \in Slots : slots[i] = c
  <2>1. mailbox'[c] = IF \E j \in Slots : slots[j] = c
                        THEN Append(mailbox[c], Packet("PLAYERUPDATE", lastupdate[i], <<>>))
                        ELSE mailbox[c]
    BY <1>4 DEF SendUpdates
  <2>2. ASSUME \E j \in Slots : slots[j] = c
        PROVE  Fit(Append(mailbox[c], Packet("PLAYERUPDATE", lastupdate[i], <<>>)))
    <3>1. lastupdate[i] \in Nat
      BY <1>t, <2>2
    <3>2. Packet("PLAYERUPDATE", lastupdate[i], <<>>) \in Downward
      BY <3>1, PacketTypes DEF DownTypes
    <3> QED
      BY <1>a, <3>2 DEF Packet, Mailed
  <2> QED
    BY <1>0, <2>1, <2>2
<1>5. CASE RoomRests
  BY <1>0, <1>5 DEF RoomRests
<1>6. ASSUME NEW d \in Clients, NEW i \in Slots, Enters(d, i) PROVE Fit(mailbox'[c])
  BY <1>0, <1>6 DEF Enters
<1>7. ASSUME NEW d \in Clients, SetNumber(d) PROVE Fit(mailbox'[c])
  BY <1>0, <1>7 DEF SetNumber
<1> QED
  BY <1>t, <1>1, <1>2, <1>3, <1>4, <1>5, <1>6, <1>7, RoomSteps

LEMMA NamingKept ==
    ASSUME TypeInv, Naming, [Next]_vars, env' = env
    PROVE  Naming'
<1>1. ASSUME NEW c \in Clients
      PROVE  roster'[c] \subseteq Numbers /\ NamesSlots(usb'[c]) /\ NamesSlots(toN64'[c])
  <2>1. CASE GameThread \/ UNCHANGED vars
    <3>1. Unmoved(c)
      BY <2>1, GameIsElsewhere
    <3> QED
      BY <3>1 DEF Unmoved, Naming
  <2> QED
    BY <2>1, NumbersKept DEF Next
<1>2. Slots' = Slots /\ Numbers' = Numbers
  BY DEF Numbers, Slots
<1> QED
  BY <1>1, <1>2, MailKept DEF Naming, NamesSlots, WellNamed, Mailed

-----------------------------------------------------------------------------
(* The device threads *)

LEMMA WindowsKept ==
    ASSUME TypeInv, Windows, [Next]_vars
    PROVE  Windows'
<1>t. /\ device \in [Clients -> DevicePlaces] /\ uploads \in [Clients -> Nat]
      /\ closing \in [Clients -> BOOLEAN]
  BY DEF TypeInv, WindowInv, WindowTypes, OtherTypes
<1>u. used["unplug"] \in Nat /\ used'["unplug"] \in Nat /\ used["unplug"] <= used'["unplug"]
  BY RareCounted DEF Rare
<1> DEFINE Fit(d) == /\ device'[d] = "none" => uploads'[d] = 0
                     /\ used'["unplug"] = 0 /\ device'[d] \in {"dying", "dead"} => closing'[d]
<1>1. ASSUME NEW d \in Clients, device'[d] = device[d], uploads'[d] = uploads[d], closing'[d] = closing[d]
      PROVE  Fit(d)
  BY <1>1, <1>u DEF Windows
<1>2. ASSUME NEW d \in Clients, Unmoved(d) PROVE Fit(d)
  BY <1>1, <1>2 DEF Unmoved
<1>3. ASSUME NEW d \in Clients,
             \/ N64(d) \/ Boot(d) \/ SendInputs(d) \/ LoseServer(d) \/ Retry(d) \/ RelayUp(d)
             \/ ServerThread(d) \/ SendHeartbeat(d) \/ TimeOut(d)
      PROVE  Fit(d)
  <2>1. CASE N64(d) \/ Boot(d) \/ SendInputs(d) \/ LoseServer(d) \/ Retry(d)
    <3>1. UNCHANGED window
      BY <2>1 DEF N64, EnterInit, InitStage, RequestClock, DoneSync, Callback, PollEnds, Boot, SendInputs, LoseServer, Retry
    <3> QED
      BY <1>1, <3>1 DEF window
  <2>2. CASE RelayUp(d)
    BY <1>1, <2>2 DEF RelayUp
  <2>3. CASE ServerThread(d) \/ SendHeartbeat(d) \/ TimeOut(d)
    <3>1. UNCHANGED <<device, uploads, closing>>
      BY <2>3 DEF ServerThread, HandleConnect, HandleSync, HandleDone, SetNumber, Introduce, HandleUnexpected,
           HandleNothing, HandleInput, SendMessages, DisconnectPlayer, SendHeartbeat, TimeOut, Send,
           window
    <3> QED
      BY <1>1, <3>1
  <2> QED
    BY <1>3, <2>1, <2>2, <2>3
<1>4. ASSUME NEW d \in Clients,
             Interface(d) \/ DeviceThread(d) \/ UploadThread(d) \/ User(d)
      PROVE  Fit(d)
  <2>1. CASE UploadThread(d)
    BY <1>1, <2>1 DEF UploadThread, SendROM, UploadEnds
  <2>2. CASE Interface(d)
    BY <1>t, <1>u, <2>2 DEF Interface, BeginWorking, NewDeviceThread, ThreadEvent, RelayStops, Windows,
       Freely
  <2>3. CASE User(d)
    BY <1>t, <1>u, <2>3 DEF User, Click, StartThread, NewDeviceThread, Close, Windows
  <2>4. CASE Upload(d)
    BY <1>t, <1>u, <2>4 DEF Upload, StartUpload, Becomes, Windows
  <2>5. CASE ReceiveUSB(d) \/ SendUSB(d)
    BY <1>1, <2>5 DEF ReceiveUSB, SendUSB
  <2>6. CASE LeaveLoop(d)
    BY <1>t, <1>u, <2>6 DEF LeaveLoop, Becomes, TestDestroy, Windows
  <2>7. CASE DeviceEnds(d)
    BY <1>t, <1>u, <2>7 DEF DeviceEnds, Windows
  <2>8. CASE FindCart(d) \/ UploadOver(d) \/ InterruptUpload(d) \/ JoinUpload(d) \/ HandleMainInput(d)
    BY <1>t, <1>u, <2>8 DEF FindCart, UploadOver, InterruptUpload, JoinUpload, HandleMainInput,
       LeaveUpload, Becomes, Windows
  <2> QED
    BY <1>4, <2>1, <2>2, <2>3, <2>4, <2>5, <2>6, <2>7, <2>8 DEF DeviceThread
<1>5. ASSUME NEW d \in Clients, Unplug(d) PROVE Fit(d)
  <2>1. used'["unplug"] = used["unplug"] + 1
    <3>1. used \in [Rare -> Nat] /\ "unplug" \in Rare
      BY DEF TypeInv, OtherTypes, Rare
    <3> QED
      BY <1>5, <3>1 DEF Unplug, Use
  <2>2. device'[d] = "dying"
    BY <1>5, <1>t DEF Unplug, LoseCart, Becomes
  <2> QED
    BY <1>u, <2>1, <2>2
<1>6. CASE GameThread \/ UNCHANGED vars
  BY <1>2, <1>6, GameIsElsewhere DEF Windows
<1>7. ASSUME NEW c \in Clients,
             \/ N64(c) \/ Boot(c) \/ SendInputs(c) \/ LoseServer(c) \/ Retry(c)
             \/ Interface(c) \/ DeviceThread(c) \/ UploadThread(c) \/ RelayUp(c)
             \/ Unplug(c) \/ User(c)
             \/ ServerThread(c) \/ SendHeartbeat(c) \/ TimeOut(c),
             NEW d \in Clients
      PROVE  Fit(d)
  <2>1. CASE d # c
    <3>1. Unmoved(d)
      BY <1>7, <2>1, OnlyThere
    <3> QED
      BY <1>2, <3>1
  <2>2. CASE d = c
    BY <1>3, <1>4, <1>5, <1>7, <2>2
  <2> QED
    BY <2>1, <2>2
<1> QED
  BY <1>6, <1>7 DEF Next, Windows

-----------------------------------------------------------------------------
(* What is on its way to an N64 *)

\* What c's own steps do to what is on its way to its N64, or known there.
Still(c) ==
    /\ clnumber'[c] = clnumber[c] /\ roster'[c] = roster[c]
    /\ stage'[c] = "game" <=> stage[c] = "game"

\* Packets are sent, if the window listens, ...
Grows(c, pkts) ==
    /\ Still(c)
    /\ usb'[c] = usb[c]
    /\ toN64'[c] = IF relay[c] THEN toN64[c] \o pkts ELSE toN64[c]

\* ... one of them gets to the USB port, ...
Arrives(c) ==
    /\ Still(c)
    /\ toN64[c] # <<>>
    /\ usb'[c] = Append(usb[c], Head(toN64[c]))
    /\ toN64'[c] = Tail(toN64[c])

\* ... the N64 reads it, ...
Reads(c) ==
    /\ usb[c] # <<>>
    /\ usb'[c] = Tail(usb[c]) /\ toN64'[c] = toN64[c]
    /\ stage'[c] = IF Head(usb[c]).type = "CLIENTINFO" THEN "game" ELSE stage[c]
    /\ clnumber'[c] = IF Head(usb[c]).type = "CLIENTINFO" THEN Head(usb[c]).n ELSE clnumber[c]
    /\ roster'[c] = AfterReading(roster[c], <<Head(usb[c])>>)

\* ... or the N64 is only about to begin, and its client is no player yet.
Fresh(c) ==
    /\ stage'[c] # "game" /\ clnumber'[c] = 0 /\ roster'[c] = {}
    /\ ~TakenIn(c)'

\* Packets that say nothing of who is there.
Silent(s) == \A k \in DOMAIN s : s[k].type \notin {"CLIENTINFO", "PLAYERINFO", "PLAYERDISCONNECT"}

OwnNews(c)  == <<Packet("CLIENTINFO", player[c], <<>>)>>
Unheard(c)  ==
    \E pkts \in Seq(Downward) :
        /\ Grows(c, pkts) /\ Silent(pkts)
        /\ thread[c] = "connected" \/ ~SentAsPlayer(pkts)
        /\ thread'[c] = "connected" => thread[c] = "connected" /\ player'[c] = player[c]
        /\ thread'[c] \in Joins => pkts = <<>> /\ (thread[c] \in Joins \/ HandleDone(c))

OnItsWay(c) ==
    \/ Fresh(c)
    \/ /\ relay'[c] => relay[c]
       /\ \/ (Reads(c) \/ Arrives(c)) /\ thread'[c] = thread[c] /\ player'[c] = player[c]
          \/ Introduce(c) /\ Grows(c, OwnNews(c))
          \/ SendMessages(c) /\ Grows(c, mailbox[c])
          \/ Unheard(c)

\* Where nothing is sent, nothing is heard.
LEMMA NothingSent ==
    ASSUME TypeInv, NEW c \in Clients, Still(c), usb'[c] = usb[c], toN64'[c] = toN64[c],
           thread'[c] = "connected" => thread[c] = "connected" /\ player'[c] = player[c],
           thread'[c] \in Joins => thread[c] \in Joins \/ HandleDone(c)
    PROVE  Unheard(c)
<1>1. toN64[c] \in Seq(Downward)
  BY DEF TypeInv, QueueTypes
<1>2. toN64[c] \o <<>> = toN64[c] /\ <<>> \in Seq(Downward)
  BY <1>1
<1>3. Grows(c, <<>>)
  BY <1>2 DEF Grows
<1>4. Silent(<<>>) /\ ~SentAsPlayer(<<>>)
  BY DEF Silent, SentAsPlayer
<1> QED
  BY <1>2, <1>3, <1>4 DEF Unheard

\* A client whose program did not call anybody yet is no player.
LEMMA NotTakenIn ==
    ASSUME NEW c \in Clients, Shaking(c), conn[c] = "unconnected"
    PROVE  ~TakenIn(c)
  BY DEF Shaking, Over

LEMMA ProgramOnItsWay ==
    ASSUME TypeInv, Naming, HandshakeInv', NEW c \in Clients, FirstTry(c)',
           N64(c) \/ Boot(c) \/ SendInputs(c) \/ LoseServer(c) \/ Retry(c)
    PROVE  OnItsWay(c)
<1>t. /\ usb \in [Clients -> Seq(Downward)] /\ roster \in [Clients -> SUBSET Nat]
      /\ stage \in [Clients -> {"off", "start", "init", "game", "disconnected"}]
      /\ clnumber \in [Clients -> Nat] /\ used \in [Rare -> Nat]
  BY DEF TypeInv, QueueTypes, ProgramTypes, OtherTypes
<1>1. UNCHANGED <<window, server>>
  BY DEF N64, EnterInit, InitStage, RequestClock, DoneSync, Callback, PollEnds, Boot, SendInputs, LoseServer, Retry
<1>2. UNCHANGED <<toN64, relay, thread, player>>
  BY <1>1 DEF window, server, threads
<1>3. ASSUME Still(c), usb' = usb PROVE OnItsWay(c)
  <2>1. Unheard(c)
    BY <1>2, <1>3, NothingSent
  <2> QED
    BY <1>2, <2>1 DEF OnItsWay
<1>4. CASE EnterInit(c)
  BY <1>3, <1>4, <1>t DEF EnterInit, InitStage, Call, SendToServer, Still
<1>5. CASE RequestClock(c) \/ DoneSync(c) \/ SendInputs(c)
  <2>1. CASE RequestClock(c) \/ SendInputs(c)
    BY <1>3, <2>1 DEF RequestClock, SendInputs, Call, SendToServer, Still
  <2>2. CASE DoneSync(c)
    BY <1>3, <1>t, <2>2 DEF DoneSync, Call, SendToServer, Still
  <2> QED
    BY <1>5, <2>1, <2>2
<1>6. CASE PollEnds(c)
  BY <1>3, <1>6 DEF PollEnds, EndPoll, Still
<1>7. CASE Callback(c)
  <2> DEFINE pkt == Head(usb[c])
  <2>1. /\ usb[c] # <<>> /\ usb' = [usb EXCEPT ![c] = Tail(@)]
        /\ stage' = [stage EXCEPT ![c] = IF pkt.type = "CLIENTINFO" THEN "game" ELSE @]
        /\ clnumber' = [clnumber EXCEPT ![c] = IF pkt.type = "CLIENTINFO" THEN pkt.n ELSE @]
        /\ roster' = [roster EXCEPT ![c] =
              CASE pkt.type \in {"CLIENTINFO", "PLAYERINFO"} -> @ \union {pkt.n}
                [] pkt.type = "PLAYERDISCONNECT"             -> @ \ {pkt.n}
                [] OTHER                                     -> @]
    BY <1>7 DEF Callback, ReadPacket
  <2>2. /\ pkt.type \in {"CLIENTINFO", "PLAYERINFO"} => pkt.n \in Numbers
        /\ roster[c] \subseteq Numbers
    <3>1. usb[c] \in Seq(Downward)
      BY <1>t
    <3>2. WellNamed(Head(usb[c]))
      BY <2>1, <3>1, NamingFacts DEF Naming
    <3> QED
      BY <3>2 DEF Naming, WellNamed, Numbers
  <2> HIDE DEF pkt
  <2>3. roster'[c] = AfterReading(roster[c], <<pkt>>)
    <3>1. AfterReading(roster[c], <<pkt>>)
             = { i \in Numbers : Greets(pkt, i) \/ (i \in roster[c] /\ ~Parts(pkt, i)) }
      BY ReadingOne
    <3>2. CASE pkt.type \in {"CLIENTINFO", "PLAYERINFO"}
      <4>1. roster'[c] = roster[c] \union {pkt.n}
        BY <1>t, <2>1, <2>2, <3>2
      <4> QED
        BY <2>2, <3>1, <3>2, <4>1 DEF Greets, Parts
    <3>3. CASE pkt.type = "PLAYERDISCONNECT"
      <4>1. roster'[c] = roster[c] \ {pkt.n}
        BY <1>t, <2>1, <3>3
      <4> QED
        BY <2>2, <3>1, <3>3, <4>1 DEF Greets, Parts
    <3>4. CASE pkt.type \notin {"CLIENTINFO", "PLAYERINFO", "PLAYERDISCONNECT"}
      <4>1. roster'[c] = roster[c]
        BY <1>t, <2>1, <3>4
      <4> QED
        BY <2>2, <3>1, <3>4, <4>1 DEF Greets, Parts
    <3> QED
      BY <3>2, <3>3, <3>4
  <2>4. Reads(c)
    BY <1>2, <1>t, <2>1, <2>3 DEF Reads, pkt
  <2> QED
    BY <1>2, <2>4 DEF OnItsWay
<1>8. CASE Boot(c)
  <2>1. stage'[c] = "start" /\ clnumber'[c] = 0 /\ roster'[c] = {}
    BY <1>t, <1>8 DEF Boot
  <2>2. Shaking(c)'
    BY DEF HandshakeInv
  <2>3. conn'[c] = "unconnected"
    BY <2>1, <2>2 DEF Shaking, Progress
  <2>4. ~TakenIn(c)'
    BY <2>2, <2>3 DEF Shaking, Over
  <2> QED
    BY <2>1, <2>4 DEF Fresh, OnItsWay
<1>9. CASE LoseServer(c) \/ Retry(c)
  <2>1. PICK r \in {"silence", "retry"} : Use(r)
    BY <1>9 DEF LoseServer, Retry
  <2>2. used'[r] = used[r] + 1 /\ used[r] \in Nat
    BY <1>t, <2>1 DEF Use, Rare
  <2> QED
    BY <2>1, <2>2 DEF FirstTry
<1> QED
  BY <1>4, <1>5, <1>6, <1>7, <1>8, <1>9 DEF N64

LEMMA WindowOnItsWay ==
    ASSUME TypeInv, HandshakeInv, HandshakeInv', Windows, NEW c \in Clients,
           FirstTry(c), FirstTry(c)', used["unplug"] = 0, Entered(c),
           Interface(c) \/ DeviceThread(c) \/ UploadThread(c) \/ Unplug(c) \/ User(c) \/ RelayUp(c)
    PROVE  OnItsWay(c)
<1>t. /\ usb \in [Clients -> Seq(Downward)] /\ toN64 \in [Clients -> Seq(Downward)]
      /\ relay \in [Clients -> BOOLEAN] /\ stage \in [Clients -> {"off", "start", "init", "game", "disconnected"}]
      /\ device \in [Clients -> DevicePlaces] /\ uploads \in [Clients -> Nat]
      /\ thread \in [Clients -> Phases]
  BY DEF TypeInv, QueueTypes, ProgramTypes, OtherTypes, WindowInv, WindowTypes, SlotTypes
<1>1. UNCHANGED <<clnumber, roster, player, conn>>
  BY DEF Interface, DeviceThread, UploadThread, Unplug, User, Upload, RelayUp, Others, program,
     server, threads
<1>2. ASSUME stage' = stage, usb'[c] = usb[c], toN64'[c] = toN64[c],
             relay'[c] => relay[c], thread' = thread
      PROVE  OnItsWay(c)
  <2>1. Unheard(c)
    BY <1>1, <1>2, NothingSent DEF Still
  <2> QED
    BY <1>2, <2>1 DEF OnItsWay
<1>3. CASE BeginWorking(c) /\ UNCHANGED Others
  <2>1. stage[c] = "off"
    BY <1>3 DEF BeginWorking, Windows, HandshakeInv, Booted
  <2>2. stage'[c] = "off"
    BY <1>3, <2>1 DEF Others, program
  <2>3. clnumber'[c] = 0 /\ roster'[c] = {}
    BY <1>1, <2>1 DEF Entered
  <2>4. conn'[c] = "unconnected" /\ Shaking(c)'
    BY <2>2 DEF HandshakeInv, Shaking, Progress
  <2>5. ~TakenIn(c)'
    BY <2>4 DEF Shaking, Over
  <2> QED
    BY <2>2, <2>3, <2>5 DEF Fresh, OnItsWay
<1>4. CASE (ThreadEvent(c) \/ RelayStops(c)) /\ UNCHANGED <<netlib, Others>>
  BY <1>t, <1>2, <1>4 DEF ThreadEvent, RelayStops, netlib, Others, program, server, threads
<1>5. CASE (Click(c) \/ Close(c)) /\ UNCHANGED <<netlib, Others>>
  <2>1. UNCHANGED <<usb, stage, thread, relay>>
    BY <1>5 DEF Click, Close, netlib, Others, program, server, threads
  <2>2. toN64' = toN64
    <3>1. CASE Close(c)
      BY <3>1 DEF Close
    <3>2. CASE Click(c)
      <4>1. device[c] # "dead"
        BY <3>2 DEF Click, Windows
      <4> QED
        BY <3>2, <4>1 DEF Click, StartThread
    <3> QED
      BY <1>5, <3>1, <3>2
  <2> QED
    BY <1>2, <2>1, <2>2
<1>6. CASE (UploadThread(c) \/ Unplug(c))
  BY <1>2, <1>6 DEF UploadThread, SendROM, UploadEnds, Unplug, LoseCart, netlib, Others, program, server, threads
<1>7. CASE Upload(c)
  <2>1. uploads'[c] = uploads[c] + 1 /\ device[c] = "loop"
    BY <1>7, <1>t DEF Upload, StartUpload
  <2>2. uploads[c] = 0
    BY <1>t, <2>1 DEF FirstTry
  <2>3. stage[c] = "off"
    BY <2>2 DEF HandshakeInv, Booted
  <2>4. stage' = stage
    BY <1>7, <1>t, <2>3 DEF Upload
  <2> QED
    BY <1>2, <1>7, <2>4 DEF Upload, StartUpload, server, threads
<1>8. CASE /\ \/ FindCart(c) \/ LeaveLoop(c) \/ DeviceEnds(c) \/ UploadOver(c)
              \/ InterruptUpload(c) \/ JoinUpload(c) \/ HandleMainInput(c)
           /\ UNCHANGED <<netlib, Others>>
  BY <1>2, <1>8 DEF FindCart, LeaveLoop, DeviceEnds, UploadOver, InterruptUpload, JoinUpload,
     HandleMainInput, netlib, Others, program, server, threads
<1>9. CASE ReceiveUSB(c) /\ UNCHANGED Others
  BY <1>2, <1>9 DEF ReceiveUSB, Others, program, server, threads
<1>10. CASE SendUSB(c) /\ UNCHANGED Others
  <2>1. UNCHANGED <<stage, thread, relay>>
    BY <1>10 DEF SendUSB, Others, program, server, threads
  <2>2. Arrives(c)
    BY <1>1, <1>t, <1>10, <2>1 DEF SendUSB, Post, Arrives, Still
  <2> QED
    BY <1>1, <2>1, <2>2 DEF OnItsWay
<1>11. CASE RelayUp(c)
  <2>1. UNCHANGED <<stage, usb, toN64, relay>>
    BY <1>11 DEF RelayUp, netlib, program
  <2>2. /\ thread'[c] = "connected" => thread[c] = "connected" /\ player'[c] = player[c]
        /\ thread'[c] \in Joins => thread[c] \in Joins
    BY <1>1, <1>t, <1>11 DEF RelayUp, Joins
  <2>3. Unheard(c)
    BY <1>1, <2>1, <2>2, NothingSent DEF Still
  <2> QED
    BY <2>1, <2>3 DEF OnItsWay
<1> QED
  BY <1>3, <1>4, <1>5, <1>6, <1>7, <1>8, <1>9, <1>10, <1>11 DEF Interface, DeviceThread, User

LEMMA ServerOnItsWay ==
    ASSUME TypeInv, NEW c \in Clients, ServerThread(c) \/ SendHeartbeat(c) \/ TimeOut(c)
    PROVE  OnItsWay(c)
<1>t. /\ toN64 \in [Clients -> Seq(Downward)] /\ thread \in [Clients -> Phases]
      /\ player \in [Clients -> Slots \union {0}]
  BY DEF TypeInv, QueueTypes, SlotTypes
<1>1. UNCHANGED <<netlib, program, relay>>
  BY DEF ServerThread, HandleConnect, HandleSync, HandleDone, SetNumber, Introduce, HandleUnexpected,
         HandleNothing, HandleInput, SendMessages, DisconnectPlayer, SendHeartbeat, TimeOut, Send,
         window
<1>2. Still(c) /\ usb'[c] = usb[c] /\ relay'[c] = relay[c]
  BY <1>1 DEF netlib, program, Still
<1>3. ASSUME NEW pkts, Send(c, pkts) PROVE Grows(c, pkts)
  BY <1>2, <1>3, <1>t DEF Send, Grows
<1>4. ASSUME NEW type \in {"CLIENTCONNECT", "SERVERFULL", "CLOCKSYNC", "ACKBEAT"}
      PROVE  /\ <<Plain(type)>> \in Seq(Downward) /\ Silent(<<Plain(type)>>)
             /\ type # "ACKBEAT" => ~SentAsPlayer(<<Plain(type)>>)
  <2>1. Plain(type) \in Downward
    BY PacketTypes DEF DownTypes
  <2>2. DOMAIN <<Plain(type)>> = {1} /\ <<Plain(type)>>[1] = Plain(type) /\ Plain(type).type = type
    BY DEF Plain, Packet
  <2>3. Silent(<<Plain(type)>>)
    BY <2>2 DEF Silent
  <2>4. type # "ACKBEAT" => ~SentAsPlayer(<<Plain(type)>>)
    BY <2>2 DEF SentAsPlayer, ForPlayers
  <2> QED
    BY <2>1, <2>3, <2>4
<1>5. CASE HandleConnect(c) \/ HandleSync(c)
  <2>1. thread'[c] # "connected" /\ thread'[c] \notin Joins
    BY <1>5, <1>t DEF HandleConnect, HandleSync, Joins
  <2>2. PICK type \in {"CLIENTCONNECT", "SERVERFULL", "CLOCKSYNC"} : Send(c, <<Plain(type)>>)
    BY <1>5 DEF HandleConnect, HandleSync
  <2>3. Unheard(c)
    BY <1>3, <1>4, <2>1, <2>2 DEF Unheard
  <2> QED
    BY <1>2, <2>3 DEF OnItsWay
<1>6. CASE SendHeartbeat(c)
  <2>1. thread'[c] = "connected" /\ thread[c] = "connected" /\ player'[c] = player[c]
    BY <1>6 DEF SendHeartbeat, threads
  <2>2. Unheard(c)
    BY <1>3, <1>4, <1>6, <2>1 DEF Unheard, SendHeartbeat, Joins
  <2> QED
    BY <1>2, <2>2 DEF OnItsWay
<1>7. CASE Introduce(c) \/ SendMessages(c)
  BY <1>2, <1>3, <1>7 DEF Introduce, SendMessages, OwnNews, OnItsWay
<1>8. CASE \/ HandleDone(c) \/ SetNumber(c) \/ HandleUnexpected(c) \/ HandleNothing(c)
           \/ HandleInput(c) \/ DisconnectPlayer(c) \/ TimeOut(c)
  <2>1. toN64'[c] = toN64[c]
    BY <1>8 DEF HandleDone, SetNumber, HandleUnexpected, HandleNothing, HandleInput, DisconnectPlayer, TimeOut, window
  <2>2. /\ thread'[c] = "connected" => thread[c] = "connected" /\ player'[c] = player[c]
        /\ thread'[c] \in Joins => thread[c] \in Joins \/ HandleDone(c)
    <3>1. CASE HandleDone(c) \/ SetNumber(c) \/ HandleNothing(c) \/ HandleInput(c)
      BY <1>t, <3>1 DEF HandleDone, SetNumber, HandleNothing, HandleInput, room, Joins
    <3>2. CASE HandleUnexpected(c) \/ DisconnectPlayer(c) \/ TimeOut(c)
      BY <1>t, <3>2 DEF HandleUnexpected, DisconnectPlayer, TimeOut, Joins
    <3> QED
      BY <1>8, <3>1, <3>2
  <2>3. Unheard(c)
    BY <1>2, <2>1, <2>2, NothingSent
  <2> QED
    BY <1>2, <2>3 DEF OnItsWay
<1> QED
  BY <1>5, <1>6, <1>7, <1>8 DEF ServerThread

\* Once an N64 is in the game, the server has read that its handshake is over.
LEMMA DoneIsDone ==
    ASSUME TypeInv, HandshakeInv, [Next]_vars, NEW c \in Clients,
           FirstTry(c), FirstTry(c)', Entered(c), stage'[c] = "game"
    PROVE  Traffic(c, "DONESYNC")' = 0
<1>t. /\ usb \in [Clients -> Seq(Downward)] /\ wire \in [Clients -> Seq(Upward)]
      /\ stage \in [Clients -> {"off", "start", "init", "game", "disconnected"}]
      /\ QueueTypes /\ used \in [Rare -> Nat]
  BY DEF TypeInv, QueueTypes, ProgramTypes, OtherTypes
<1>s. Shaking(c) /\ Booted(c) /\ Mailboxes
  BY DEF HandshakeInv
<1>n. Traffic(c, "DONESYNC") \in Nat
  BY <1>t, TrafficIsNat
<1>1. ASSUME Quiet(c) PROVE Traffic(c, "DONESYNC")' = 0
  <2>1. Traffic(c, "DONESYNC")' \in Nat /\ Traffic(c, "DONESYNC")' <= Traffic(c, "DONESYNC")
    BY <1>1 DEF Quiet, Shake
  <2>2. Traffic(c, "DONESYNC") = 0
    BY <1>1 DEF Quiet, Entered
  <2> QED
    BY <1>n, <2>1, <2>2
<1>2. ASSUME Unmoved(c) PROVE Traffic(c, "DONESYNC")' = 0
  <2>1. Traffic(c, "DONESYNC")' = Traffic(c, "DONESYNC")
    BY <1>2 DEF Unmoved, Traffic, Count
  <2>2. stage[c] = "game"
    BY <1>2 DEF Unmoved
  <2> QED
    BY <2>1, <2>2 DEF Entered
<1>3. ASSUME N64(c) \/ Boot(c) \/ SendInputs(c) \/ LoseServer(c) \/ Retry(c)
      PROVE  Traffic(c, "DONESYNC")' = 0
  <2>1. UNCHANGED <<toServer, msgqueue, toN64>>
    BY <1>3 DEF N64, EnterInit, InitStage, RequestClock, DoneSync, Callback, PollEnds, Boot, SendInputs, LoseServer, Retry,
       window, server, threads
  <2>2. CASE EnterInit(c) \/ Boot(c) \/ LoseServer(c) \/ Retry(c)
    BY <1>t, <2>2 DEF EnterInit, InitStage, Boot, LoseServer, Retry
  <2>3. CASE RequestClock(c) \/ DoneSync(c) \/ SendInputs(c)
    <3>1. UNCHANGED <<usb, wire>> /\ stage[c] = "game"
      BY <1>t, <2>3 DEF RequestClock, DoneSync, SendInputs, Call, SendToServer
    <3>2. Traffic(c, "DONESYNC")' = Traffic(c, "DONESYNC")
      BY <2>1, <3>1 DEF Traffic, Count
    <3> QED
      BY <3>1, <3>2 DEF Entered
  <2>4. CASE Callback(c)
    <3>1. /\ wire' = wire /\ usb[c] # <<>> /\ usb' = [usb EXCEPT ![c] = Tail(@)]
          /\ stage' = [stage EXCEPT ![c] = IF Head(usb[c]).type = "CLIENTINFO" THEN "game" ELSE @]
      BY <2>4 DEF Callback, ReadPacket
    <3>2. Traffic(c, "DONESYNC") = 0
      <4>1. CASE stage[c] = "game"
        BY <4>1 DEF Entered
      <4>2. CASE Head(usb[c]).type = "CLIENTINFO"
        <5>1. SentAsPlayer(usb[c])
          BY <1>t, <3>1, <4>2, SentFacts DEF ForPlayers
        <5> QED
          BY <1>s, <5>1 DEF Shaking, Over, TakenIn
      <4> QED
        BY <1>t, <3>1, <4>1, <4>2
    <3>3. Count(usb'[c], "DONESYNC") \in Nat /\ Count(usb'[c], "DONESYNC") <= Count(usb[c], "DONESYNC")
      <4>1. /\ Count(usb'[c], "DONESYNC") \in Nat
            /\ Count(usb[c], "DONESYNC") = Count(usb'[c], "DONESYNC") + Count(<<Head(usb[c])>>, "DONESYNC")
        BY <1>t, <3>1, TailCount
      <4>2. Count(<<Head(usb[c])>>, "DONESYNC") \in {0, 1}
        BY CountOne
      <4> QED
        BY <4>1, <4>2
    <3>4. /\ Count(wire'[c], "DONESYNC") = Count(wire[c], "DONESYNC")
          /\ Count(toServer'[c], "DONESYNC") = Count(toServer[c], "DONESYNC")
          /\ Count(msgqueue'[c], "DONESYNC") = Count(msgqueue[c], "DONESYNC")
          /\ Count(toN64'[c], "DONESYNC") = Count(toN64[c], "DONESYNC")
      BY <2>1, <3>1
    <3>5. /\ Count(wire[c], "DONESYNC") \in Nat /\ Count(toServer[c], "DONESYNC") \in Nat
          /\ Count(msgqueue[c], "DONESYNC") \in Nat /\ Count(toN64[c], "DONESYNC") \in Nat
          /\ Count(usb[c], "DONESYNC") \in Nat
      BY <1>t, TrafficIsNat
    <3>6. Traffic(c, "DONESYNC")' = Count(wire'[c], "DONESYNC") + Count(toServer'[c], "DONESYNC")
              + Count(msgqueue'[c], "DONESYNC") + Count(toN64'[c], "DONESYNC") + Count(usb'[c], "DONESYNC")
      BY DEF Traffic, Count
    <3> QED
      BY <3>2, <3>3, <3>4, <3>5, <3>6 DEF Traffic
  <2>5. CASE PollEnds(c)
    <3>1. /\ UNCHANGED <<usb, stage>>
          /\ wire' = [wire EXCEPT ![c] = IF sendafterpoll[c] THEN Append(@, buffer[c]) ELSE @]
      BY <2>5 DEF PollEnds, EndPoll
    <3>2. Traffic(c, "DONESYNC") = 0 /\ conn[c] = "plyinfo"
      BY <1>s, <3>1 DEF Entered, Shaking, Progress
    <3>3. ~Holds(c, "DONESYNC")
      BY <1>s, <3>2 DEF Shaking, OwnCall, Progress, Shake
    <3>4. Count(wire'[c], "DONESYNC") = Count(wire[c], "DONESYNC")
      <4>1. CASE ~sendafterpoll[c]
        BY <1>t, <3>1, <4>1
      <4>2. CASE sendafterpoll[c]
        <5>1. buffer[c] \in Upward
          BY <4>2 DEF TypeInv, NetTypes
        <5>2. Count(<<buffer[c]>>, "DONESYNC") = 0
          BY <3>3, <4>2, CountOne DEF Holds
        <5>3. wire' = Post(wire, c, buffer[c])
          BY <3>1, <4>2 DEF Post
        <5>4. Count(wire'[c], "DONESYNC") = Count(wire[c], "DONESYNC") + Count(<<buffer[c]>>, "DONESYNC")
          BY <1>t, <5>1, <5>3, PostCount
        <5>5. Count(wire[c], "DONESYNC") \in Nat
          BY <1>t, TrafficIsNat
        <5> QED
          BY <5>2, <5>4, <5>5
      <4> QED
        BY <4>1, <4>2
    <3>5. Traffic(c, "DONESYNC")' = Count(wire'[c], "DONESYNC") + Count(toServer'[c], "DONESYNC")
              + Count(msgqueue'[c], "DONESYNC") + Count(toN64'[c], "DONESYNC") + Count(usb'[c], "DONESYNC")
      BY DEF Traffic, Count
    <3> QED
      BY <2>1, <3>1, <3>2, <3>4, <3>5 DEF Traffic
  <2> QED
    BY <1>3, <2>2, <2>3, <2>4, <2>5 DEF N64
<1>4. ASSUME NEW d \in Clients,
             \/ N64(d) \/ Boot(d) \/ SendInputs(d) \/ LoseServer(d) \/ Retry(d)
             \/ Interface(d) \/ DeviceThread(d) \/ UploadThread(d) \/ RelayUp(d)
             \/ Unplug(d) \/ User(d)
             \/ ServerThread(d) \/ SendHeartbeat(d) \/ TimeOut(d)
      PROVE  Traffic(c, "DONESYNC")' = 0
  <2>1. CASE d # c
    BY <1>2, <1>4, <2>1, OnlyThere
  <2>2. CASE d = c
    BY <1>1, <1>3, <1>4, <1>s, <2>2, WindowIsQuiet, ServerIsQuiet
  <2> QED
    BY <2>1, <2>2
<1> QED
  BY <1>2, <1>4, GameIsElsewhere DEF Next

\* Whatever is done, and by whomever.
LEMMA AllOnItsWay ==
    ASSUME TypeInv, Naming, Windows, HandshakeInv, HandshakeInv', [Next]_vars, NEW c \in Clients,
           FirstTry(c), FirstTry(c)', used["unplug"] = 0, Entered(c)
    PROVE  OnItsWay(c)
<1>1. ASSUME Unmoved(c) PROVE OnItsWay(c)
  <2>1. Unheard(c)
    BY <1>1, NothingSent DEF Unmoved, Still
  <2> QED
    BY <1>1, <2>1 DEF Unmoved, OnItsWay
<1>2. ASSUME NEW d \in Clients,
             \/ N64(d) \/ Boot(d) \/ SendInputs(d) \/ LoseServer(d) \/ Retry(d)
             \/ Interface(d) \/ DeviceThread(d) \/ UploadThread(d) \/ RelayUp(d)
             \/ Unplug(d) \/ User(d)
             \/ ServerThread(d) \/ SendHeartbeat(d) \/ TimeOut(d)
      PROVE  OnItsWay(c)
  <2>1. CASE d # c
    BY <1>1, <1>2, <2>1, OnlyThere
  <2>2. CASE d = c
    BY <1>2, <2>2, ProgramOnItsWay, WindowOnItsWay, ServerOnItsWay
  <2> QED
    BY <2>1, <2>2
<1> QED
  BY <1>1, <1>2, GameIsElsewhere DEF Next

-----------------------------------------------------------------------------
(* What an N64 knows of itself *)

\* A thread that joins was not told of anything, and its N64 is not in the game.
LEMMA JoinsUntold ==
    ASSUME TypeInv, HandshakeInv, NEW c \in Clients, FirstTry(c), Entered(c), HandleDone(c)
    PROVE  clnumber[c] = 0 /\ ~SentAsPlayer(usb[c]) /\ ~SentAsPlayer(toN64[c])
<1>1. Traffic(c, "DONESYNC") # 0
  <2>1. PICK k \in DOMAIN msgqueue[c] : msgqueue[c][k].type = "DONESYNC"
    <3>1. PICK k \in Places(c) : msgqueue[c][k] = Plain("DONESYNC")
      BY DEF HandleDone, Takes
    <3>2. k \in DOMAIN msgqueue[c]
      BY <3>1 DEF Places, TypeInv, QueueTypes
    <3> QED
      BY <3>1, <3>2 DEF Plain, Packet
  <2>2. msgqueue[c] \in Seq(Upward) /\ QueueTypes
    BY DEF TypeInv, QueueTypes
  <2>3. Count(msgqueue[c], "DONESYNC") # 0
    BY <2>1, <2>2, CountIsNat
  <2>4. /\ Count(wire[c], "DONESYNC") \in Nat /\ Count(toServer[c], "DONESYNC") \in Nat
        /\ Count(msgqueue[c], "DONESYNC") \in Nat /\ Count(toN64[c], "DONESYNC") \in Nat
        /\ Count(usb[c], "DONESYNC") \in Nat
    BY <2>2, TrafficIsNat
  <2>5. Traffic(c, "DONESYNC") = Count(wire[c], "DONESYNC") + Count(toServer[c], "DONESYNC")
            + Count(msgqueue[c], "DONESYNC") + Count(toN64[c], "DONESYNC") + Count(usb[c], "DONESYNC")
    BY DEF Traffic
  <2>6. ASSUME NEW a \in Nat, NEW b \in Nat, NEW q \in Nat \ {0}, NEW d \in Nat, NEW e \in Nat
        PROVE  a + b + q + d + e # 0
    OBVIOUS
  <2> QED
    BY <2>3, <2>4, <2>5, <2>6
<1>2. ~TakenIn(c)
  BY <1>1 DEF HandshakeInv, Shaking, Over
<1>3. stage[c] # "game"
  BY <1>1 DEF Entered
<1> QED
  BY <1>2, <1>3 DEF TakenIn, Entered

\* Nothing of the game is read before the number.
LEMMA FirstRead ==
    ASSUME TypeInv, Naming, NEW c \in Clients, Reads(c), Entered(c), clnumber'[c] = 0
    PROVE  /\ clnumber[c] = 0
           /\ Head(usb[c]).type # "CLIENTINFO" /\ Head(usb[c]).type \notin NeedsNumber
<1>1. usb[c] \in Seq(Downward) /\ usb[c] # <<>>
  BY DEF Reads, TypeInv, QueueTypes
<1>2. Head(usb[c]).type # "CLIENTINFO"
  <2>1. Head(usb[c]).type = "CLIENTINFO" => Head(usb[c]).n \in Slots
    BY <1>1, NamingFacts DEF Naming, WellNamed
  <2> QED
    BY <2>1 DEF Reads, Slots
<1>3. clnumber[c] = 0
  BY <1>2 DEF Reads
<1> QED
  BY <1>1, <1>2, <1>3, FirstFacts DEF Entered

LEMMA EnteredKept ==
    ASSUME TypeInv, Naming, HandshakeInv, [Next]_vars, NEW c \in Clients,
           FirstTry(c), FirstTry(c)', Entered(c), OnItsWay(c)
    PROVE  Entered(c)'
<1>t. /\ usb[c] \in Seq(Downward) /\ toN64[c] \in Seq(Downward) /\ clnumber[c] \in Nat
      /\ roster[c] \subseteq Numbers
  BY DEF TypeInv, QueueTypes, ProgramTypes, Naming
<1> DEFINE News  == stage'[c] = "game" <=> clnumber'[c] # 0
           Lists == roster'[c] # {} => clnumber'[c] # 0
           Untold == thread'[c] \in Joins =>
                      clnumber'[c] = 0 /\ ~SentAsPlayer(usb'[c]) /\ ~SentAsPlayer(toN64'[c])
           First == clnumber'[c] = 0 =>
                      /\ NumberComesFirst(usb'[c])
                      /\ SaysNumber(usb'[c]) \/ NumberComesFirst(toN64'[c])
                      /\ thread'[c] = "connected" /\ relay'[c]
                            => SaysNumber(usb'[c]) \/ SaysNumber(toN64'[c])
<1>1. SUFFICES News /\ Lists /\ Untold /\ First
  <2>1. stage'[c] = "game" => Traffic(c, "DONESYNC")' = 0
    BY DoneIsDone
  <2> QED
    BY <2>1 DEF Entered, Joins, SentAsPlayer, NumberComesFirst, SaysNumber, ForPlayers, NeedsNumber
<1>2. CASE Fresh(c)
  <2>1. ~SentAsPlayer(usb'[c]) /\ ~SentAsPlayer(toN64'[c]) /\ thread'[c] \notin Joined
    BY <1>2 DEF Fresh, TakenIn, SentAsPlayer, ForPlayers, Joined
  <2>2. NumberComesFirst(usb'[c]) /\ NumberComesFirst(toN64'[c])
    BY <2>1 DEF SentAsPlayer, NumberComesFirst, NeedsNumber
  <2> QED
    BY <1>2, <2>1, <2>2 DEF Fresh, Joined, Joins
<1>3. CASE Reads(c) /\ thread'[c] = thread[c] /\ (relay'[c] => relay[c])
  <2> DEFINE p == Head(usb[c])
  <2>1. usb[c] # <<>> /\ p \in Downward /\ Tail(usb[c]) \in Seq(Downward)
    BY <1>3, <1>t, TailFacts DEF Reads
  <2>2. p.type = "CLIENTINFO" => p.n # 0
    BY <1>t, <2>1, NamingFacts DEF Naming, WellNamed, Slots
  <2>3. News
    BY <1>3, <2>2 DEF Reads, Entered
  <2>4. ASSUME clnumber'[c] = 0
        PROVE  /\ clnumber[c] = 0 /\ p.type # "CLIENTINFO" /\ p.type \notin ForPlayers
    BY <1>3, <2>4, FirstRead DEF NeedsNumber
  <2>5. Lists
    <3>1. SUFFICES ASSUME clnumber'[c] = 0 PROVE roster'[c] = {}
      OBVIOUS
    <3>2. roster[c] = {} /\ roster'[c] = AfterReading(roster[c], <<p>>)
      BY <1>3, <2>4, <3>1 DEF Entered, Reads
    <3> QED
      BY <2>4, <3>1, <3>2, ReadingOne DEF Greets, ForPlayers
  <2>6. Untold
    <3>1. SUFFICES ASSUME thread[c] \in Joins
                   PROVE  clnumber'[c] = 0 /\ ~SentAsPlayer(usb'[c]) /\ ~SentAsPlayer(toN64'[c])
      BY <1>3
    <3>2. clnumber[c] = 0 /\ ~SentAsPlayer(usb[c]) /\ ~SentAsPlayer(toN64[c])
      BY <3>1 DEF Entered
    <3>3. ~SentAsPlayer(Tail(usb[c])) /\ p.type \notin ForPlayers
      BY <1>t, <2>1, <3>2, SentFacts
    <3> QED
      BY <1>3, <3>2, <3>3 DEF Reads, ForPlayers
  <2>7. First
    <3>1. SUFFICES ASSUME clnumber'[c] = 0
                   PROVE  /\ NumberComesFirst(usb'[c])
                          /\ SaysNumber(usb'[c]) \/ NumberComesFirst(toN64'[c])
                          /\ thread'[c] = "connected" /\ relay'[c]
                                => SaysNumber(usb'[c]) \/ SaysNumber(toN64'[c])
      OBVIOUS
    <3>2. /\ SaysNumber(usb[c]) <=> SaysNumber(Tail(usb[c]))
          /\ NumberComesFirst(usb[c]) => NumberComesFirst(Tail(usb[c]))
      BY <1>t, <2>1, <2>4, <3>1, FirstFacts
    <3>3. usb'[c] = Tail(usb[c]) /\ toN64'[c] = toN64[c]
      BY <1>3 DEF Reads
    <3> QED
      BY <1>3, <2>4, <3>1, <3>2, <3>3 DEF Entered
  <2> QED
    BY <2>3, <2>5, <2>6, <2>7
<1>4. CASE Arrives(c) /\ thread'[c] = thread[c] /\ (relay'[c] => relay[c])
  <2> DEFINE p == Head(toN64[c])
  <2>1. toN64[c] # <<>> /\ p \in Downward /\ Tail(toN64[c]) \in Seq(Downward)
    BY <1>4, <1>t, TailFacts DEF Arrives
  <2>2. /\ usb'[c] = usb[c] \o <<p>> /\ usb'[c] = Append(usb[c], p) /\ <<p>> \in Seq(Downward)
        /\ toN64'[c] = Tail(toN64[c])
    BY <1>4, <1>t, <2>1 DEF Arrives
  <2>3. News /\ Lists
    BY <1>4 DEF Arrives, Still, Entered
  <2>4. Untold
    <3>1. SUFFICES ASSUME thread[c] \in Joins
                   PROVE  clnumber'[c] = 0 /\ ~SentAsPlayer(usb'[c]) /\ ~SentAsPlayer(toN64'[c])
      BY <1>4
    <3>2. clnumber[c] = 0 /\ ~SentAsPlayer(usb[c]) /\ ~SentAsPlayer(toN64[c])
      BY <3>1 DEF Entered
    <3>3. ~SentAsPlayer(Tail(toN64[c])) /\ p.type \notin ForPlayers
      BY <1>t, <2>1, <3>2, SentFacts
    <3>4. ~SentAsPlayer(Append(usb[c], p))
      BY <1>t, <2>1, <3>2, <3>3, SentFacts
    <3> QED
      BY <1>4, <2>2, <3>2, <3>3, <3>4 DEF Arrives, Still
  <2>5. First
    <3>1. SUFFICES ASSUME clnumber[c] = 0
                   PROVE  /\ NumberComesFirst(usb'[c])
                          /\ SaysNumber(usb'[c]) \/ NumberComesFirst(toN64'[c])
                          /\ thread'[c] = "connected" /\ relay'[c]
                                => SaysNumber(usb'[c]) \/ SaysNumber(toN64'[c])
      BY <1>4 DEF Arrives, Still
    <3>2. /\ NumberComesFirst(usb[c])
          /\ SaysNumber(usb[c]) \/ NumberComesFirst(toN64[c])
          /\ thread[c] = "connected" /\ relay[c] => SaysNumber(usb[c]) \/ SaysNumber(toN64[c])
      BY <3>1 DEF Entered
    <3>3. /\ SaysNumber(usb'[c]) <=> SaysNumber(usb[c]) \/ SaysNumber(<<p>>)
          /\ SaysNumber(usb[c]) \/ NumberComesFirst(<<p>>) => NumberComesFirst(usb'[c])
      <4>1. /\ SaysNumber(usb[c] \o <<p>>) <=> SaysNumber(usb[c]) \/ SaysNumber(<<p>>)
            /\ NumberComesFirst(usb[c]) /\ (SaysNumber(usb[c]) \/ NumberComesFirst(<<p>>))
                 => NumberComesFirst(usb[c] \o <<p>>)
        BY <1>t, <2>2, FirstOfBoth
      <4> QED
        BY <2>2, <3>2, <4>1
    <3>4. /\ NumberComesFirst(toN64[c]) => p.type \notin NeedsNumber
          /\ p.type # "CLIENTINFO" => /\ SaysNumber(toN64[c]) <=> SaysNumber(toN64'[c])
                                      /\ NumberComesFirst(toN64[c]) => NumberComesFirst(toN64'[c])
      BY <1>t, <2>1, <2>2, FirstFacts
    <3>5. /\ SaysNumber(<<p>>) <=> p.type = "CLIENTINFO"
          /\ p.type \notin NeedsNumber => NumberComesFirst(<<p>>)
      <4>1. DOMAIN <<p>> = {1} /\ <<p>>[1] = p
        OBVIOUS
      <4> QED
        BY <4>1 DEF SaysNumber, NumberComesFirst
    <3> QED
      BY <1>4, <3>2, <3>3, <3>4, <3>5
  <2> QED
    BY <2>3, <2>4, <2>5
<1>5. ASSUME NEW pkts \in Seq(Downward), Grows(c, pkts), relay'[c] => relay[c],
             thread[c] = "connected" \/ NumberComesFirst(pkts),
             thread'[c] = "connected" => thread[c] = "connected" \/ SaysNumber(pkts),
             thread'[c] \in Joins => pkts = <<>> /\ (thread[c] \in Joins \/ HandleDone(c))
      PROVE  News /\ Lists /\ Untold /\ First
  <2>1. News /\ Lists
    BY <1>5 DEF Grows, Still, Entered
  <2>2. Untold
    <3>1. SUFFICES ASSUME thread'[c] \in Joins
                   PROVE  clnumber'[c] = 0 /\ ~SentAsPlayer(usb'[c]) /\ ~SentAsPlayer(toN64'[c])
      OBVIOUS
    <3>2. clnumber[c] = 0 /\ ~SentAsPlayer(usb[c]) /\ ~SentAsPlayer(toN64[c])
      BY <1>5, <3>1, JoinsUntold DEF Entered
    <3>3. usb'[c] = usb[c] /\ toN64'[c] = toN64[c] /\ clnumber'[c] = clnumber[c]
      <4>1. toN64[c] \o <<>> = toN64[c]
        BY <1>t
      <4> QED
        BY <1>5, <3>1, <4>1 DEF Grows, Still
    <3> QED
      BY <3>2, <3>3
  <2>3. First
    <3>1. SUFFICES ASSUME clnumber[c] = 0
                   PROVE  /\ NumberComesFirst(usb'[c])
                          /\ SaysNumber(usb'[c]) \/ NumberComesFirst(toN64'[c])
                          /\ thread'[c] = "connected" /\ relay'[c]
                                => SaysNumber(usb'[c]) \/ SaysNumber(toN64'[c])
      BY <1>5 DEF Grows, Still
    <3>2. /\ NumberComesFirst(usb[c])
          /\ SaysNumber(usb[c]) \/ NumberComesFirst(toN64[c])
          /\ thread[c] = "connected" /\ relay[c] => SaysNumber(usb[c]) \/ SaysNumber(toN64[c])
      BY <3>1 DEF Entered
    <3>3. usb'[c] = usb[c] /\ toN64'[c] = IF relay[c] THEN toN64[c] \o pkts ELSE toN64[c]
      BY <1>5 DEF Grows
    <3>4. /\ SaysNumber(toN64[c] \o pkts) <=> SaysNumber(toN64[c]) \/ SaysNumber(pkts)
          /\ NumberComesFirst(toN64[c]) /\ (SaysNumber(toN64[c]) \/ NumberComesFirst(pkts))
               => NumberComesFirst(toN64[c] \o pkts)
      BY <1>t, FirstOfBoth
    <3> QED
      BY <1>5, <3>2, <3>3, <3>4
  <2> QED
    BY <2>1, <2>2, <2>3
<1>6. CASE Introduce(c) /\ Grows(c, OwnNews(c)) /\ (relay'[c] => relay[c])
  <2>1. thread'[c] = "connected" /\ player[c] \in Nat
    BY <1>6 DEF Introduce, TypeInv, SlotTypes, Slots
  <2>2. Packet("CLIENTINFO", player[c], <<>>) \in Downward
    BY <2>1, PacketTypes DEF DownTypes
  <2>3. OwnNews(c) \in Seq(Downward) /\ DOMAIN OwnNews(c) = {1} /\ OwnNews(c)[1].type = "CLIENTINFO"
    BY <2>2 DEF OwnNews, Packet
  <2>4. NumberComesFirst(OwnNews(c)) /\ SaysNumber(OwnNews(c))
    BY <2>3 DEF NumberComesFirst, SaysNumber, NeedsNumber
  <2> QED
    BY <1>5, <1>6, <2>1, <2>3, <2>4 DEF Joins
<1>7. CASE SendMessages(c) /\ Grows(c, mailbox[c]) /\ (relay'[c] => relay[c])
  <2>1. thread[c] = "connected" /\ thread'[c] = "connected" /\ mailbox[c] \in Seq(Downward)
    BY <1>7 DEF SendMessages, TypeInv, QueueTypes
  <2> QED
    BY <1>5, <1>7, <2>1 DEF Joins
<1>8. CASE Unheard(c) /\ (relay'[c] => relay[c])
  <2>1. PICK pkts \in Seq(Downward) :
           /\ Grows(c, pkts)
           /\ thread[c] = "connected" \/ ~SentAsPlayer(pkts)
           /\ thread'[c] = "connected" => thread[c] = "connected"
           /\ thread'[c] \in Joins => pkts = <<>> /\ (thread[c] \in Joins \/ HandleDone(c))
    BY <1>8 DEF Unheard
  <2>2. ~SentAsPlayer(pkts) => NumberComesFirst(pkts)
    BY FirstFacts
  <2> QED
    BY <1>5, <1>8, <2>1, <2>2
<1> QED
  BY <1>2, <1>3, <1>4, <1>6, <1>7, <1>8 DEF OnItsWay

\* The number it knows is its own.
LEMMA OwnNumberKept ==
    ASSUME TypeInv, Naming, NEW c \in Clients, Entered(c), OnItsWay(c),
           thread'[c] = "connected", relay'[c], thread[c] = "connected" /\ relay[c] => OwnNumber(c)
    PROVE  OwnNumber(c)'
<1>t. /\ usb[c] \in Seq(Downward) /\ toN64[c] \in Seq(Downward) /\ mailbox[c] \in Seq(Downward)
      /\ player \in [Clients -> Slots \union {0}]
  BY DEF TypeInv, QueueTypes, SlotTypes
<1>f. ~Fresh(c)
  BY DEF Fresh, TakenIn, Joined
<1>1. SUFFICES clnumber'[c] \in {0, player'[c]} /\ Named(usb'[c], player'[c]) /\ Named(toN64'[c], player'[c])
  BY DEF OwnNumber, Named
<1>2. CASE Reads(c) /\ thread'[c] = thread[c] /\ player'[c] = player[c] /\ relay[c]
  <2>1. OwnNumber(c)
    BY <1>2
  <2>2. Named(Tail(usb[c]), player[c])
        /\ (Head(usb[c]).type = "CLIENTINFO" => Head(usb[c]).n = player[c])
    BY <1>t, <1>2, <2>1, NamedFacts DEF OwnNumber, Reads
  <2> QED
    BY <1>2, <2>1, <2>2 DEF Reads, OwnNumber
<1>3. CASE Arrives(c) /\ thread'[c] = thread[c] /\ player'[c] = player[c] /\ relay[c]
  <2>1. OwnNumber(c)
    BY <1>3
  <2>2. /\ Named(Tail(toN64[c]), player[c]) /\ Head(toN64[c]) \in Downward
        /\ Head(toN64[c]).type = "CLIENTINFO" => Head(toN64[c]).n = player[c]
    <3>1. toN64[c] # <<>> /\ Named(toN64[c], player[c])
      BY <1>3, <2>1 DEF OwnNumber, Arrives
    <3>2. Head(toN64[c]) \in Downward
      BY <1>t, <3>1, TailFacts
    <3> QED
      BY <1>t, <3>1, <3>2, NamedFacts
  <2>3. Named(Append(usb[c], Head(toN64[c])), player[c])
    BY <1>t, <2>1, <2>2, NamedFacts DEF OwnNumber
  <2> QED
    BY <1>3, <2>1, <2>2, <2>3 DEF Arrives, Still, OwnNumber
<1>4. ASSUME NEW pkts \in Seq(Downward), Grows(c, pkts), Named(pkts, player[c]), player'[c] = player[c],
             clnumber[c] \in {0, player[c]}, Named(usb[c], player[c]), Named(toN64[c], player[c])
      PROVE  clnumber'[c] \in {0, player'[c]} /\ Named(usb'[c], player'[c]) /\ Named(toN64'[c], player'[c])
  <2>1. Named(toN64[c] \o pkts, player[c])
    BY <1>t, <1>4, NamedFacts
  <2> QED
    BY <1>4, <2>1 DEF Grows, Still
<1>5. CASE Introduce(c) /\ Grows(c, OwnNews(c))
  <2>1. thread[c] = "joining" /\ player'[c] = player[c] /\ player[c] \in Nat
    BY <1>5, <1>t DEF Introduce, Slots
  <2>2. clnumber[c] = 0 /\ Named(usb[c], player[c]) /\ Named(toN64[c], player[c])
    BY <2>1 DEF Entered, SentAsPlayer, ForPlayers, Named, Joins
  <2>3. Packet("CLIENTINFO", player[c], <<>>) \in Downward
    BY <2>1, PacketTypes DEF DownTypes
  <2>4. OwnNews(c) \in Seq(Downward)
    BY <2>3 DEF OwnNews
  <2>5. Named(OwnNews(c), player[c])
    BY DEF OwnNews, Named, Packet
  <2> QED
    BY <1>4, <1>5, <2>1, <2>2, <2>4, <2>5
<1>6. CASE SendMessages(c) /\ Grows(c, mailbox[c]) /\ relay[c]
  <2>1. OwnNumber(c) /\ player'[c] = player[c]
    BY <1>6 DEF SendMessages
  <2>2. Named(mailbox[c], player[c])
    BY DEF Naming, Mailed, Named
  <2> QED
    BY <1>4, <1>6, <1>t, <2>1, <2>2 DEF OwnNumber
<1>7. CASE Unheard(c) /\ relay[c]
  <2>1. PICK pkts \in Seq(Downward) : Grows(c, pkts) /\ Silent(pkts)
    BY <1>7 DEF Unheard
  <2>2. OwnNumber(c) /\ player'[c] = player[c]
    BY <1>7 DEF Unheard
  <2>3. Named(pkts, player[c])
    BY <2>1 DEF Silent, Named
  <2> QED
    BY <1>4, <2>1, <2>2, <2>3 DEF OwnNumber
<1> QED
  BY <1>f, <1>2, <1>3, <1>5, <1>6, <1>7 DEF OnItsWay

-----------------------------------------------------------------------------
(* What an N64 knows of the others *)

\* What it will know depends on where a packet is only when one is added.
LEMMA KnownKept ==
    ASSUME TypeInv, Naming, NEW c \in Clients
    PROVE  LET known == AfterReading(AfterReading(roster'[c], usb'[c]), toN64'[c])
           IN  /\ Known(c) \subseteq Numbers
               /\ Reads(c) \/ Arrives(c) => known = Known(c)
               /\ \A pkts \in Seq(Downward) :
                     relay[c] /\ Grows(c, pkts) => known = AfterReading(Known(c), pkts)
               /\ relay[c] /\ Unheard(c) => known = Known(c)
<1> DEFINE known == AfterReading(AfterReading(roster'[c], usb'[c]), toN64'[c])
<1>t. usb[c] \in Seq(Downward) /\ toN64[c] \in Seq(Downward) /\ roster[c] \subseteq Numbers
  BY DEF TypeInv, QueueTypes, Naming
<1>1. Known(c) \subseteq Numbers
  BY DEF Known, AfterReading
<1>2. ASSUME Reads(c) PROVE known = Known(c)
  <2>1. /\ usb[c] # <<>> /\ usb'[c] = Tail(usb[c]) /\ toN64'[c] = toN64[c]
        /\ roster'[c] = AfterReading(roster[c], <<Head(usb[c])>>)
    BY <1>2 DEF Reads
  <2>2. AfterReading(roster'[c], usb'[c]) = AfterReading(roster[c], usb[c])
    BY <1>t, <2>1, ReadingHead
  <2> QED
    BY <2>1, <2>2 DEF Known
<1>3. ASSUME Arrives(c) PROVE known = Known(c)
  <2> DEFINE p == Head(toN64[c])
             R == AfterReading(roster[c], usb[c])
  <2>1. /\ toN64[c] # <<>> /\ usb'[c] = Append(usb[c], p) /\ toN64'[c] = Tail(toN64[c])
        /\ roster'[c] = roster[c]
    BY <1>3 DEF Arrives, Still
  <2>2. p \in Downward
    BY <1>t, <2>1, TailFacts
  <2>3. AfterReading(roster[c], Append(usb[c], p)) = AfterReading(R, <<p>>)
    BY <1>t, <2>2, ReadingLonger
  <2>4. AfterReading(R, toN64[c]) = AfterReading(AfterReading(R, <<p>>), Tail(toN64[c]))
    BY <1>t, <2>1, ReadingHead
  <2> QED
    BY <2>1, <2>3, <2>4 DEF Known
<1>4. ASSUME NEW pkts \in Seq(Downward), relay[c], Grows(c, pkts) PROVE known = AfterReading(Known(c), pkts)
  <2>1. usb'[c] = usb[c] /\ toN64'[c] = toN64[c] \o pkts /\ roster'[c] = roster[c]
    BY <1>4 DEF Grows, Still
  <2>2. AfterReading(AfterReading(roster[c], usb[c]), toN64[c] \o pkts) = AfterReading(Known(c), pkts)
    BY <1>t, ReadingMore DEF Known
  <2> QED
    BY <2>1, <2>2
<1>5. ASSUME relay[c], Unheard(c) PROVE known = Known(c)
  <2>1. PICK pkts \in Seq(Downward) : Grows(c, pkts) /\ Silent(pkts)
    BY <1>5 DEF Unheard
  <2>2. AfterReading(Known(c), pkts) = Known(c)
    BY <1>1, <2>1, ReadingElse DEF Silent
  <2> QED
    BY <1>4, <1>5, <2>1, <2>2
<1> QED
  BY <1>1, <1>2, <1>3, <1>4, <1>5

\* A mailbox to which somebody's packet is added.
LEMMA MailRead ==
    ASSUME NEW R, NEW s \in Seq(Downward), NEW p \in Downward, NEW i \in Numbers
    PROVE  i \in AfterReading(R, Append(s, p))
              <=> Greets(p, i) \/ (i \in AfterReading(R, s) /\ ~Parts(p, i))
<1>1. AfterReading(R, Append(s, p)) = AfterReading(AfterReading(R, s), <<p>>)
  BY ReadingLonger
<1> QED
  BY <1>1, ReadingOne

\* What is read in the mailbox of a Player who stays, whatever was known before: a number
\* that was rightly there or missing stays so, and its own stays there.
LEMMA MailGoesOn ==
    ASSUME TypeInv, env' = env, [Next]_vars, NEW c \in Clients,
           thread[c] \in Joins \union {"connected"}, thread'[c] \in Joins \union {"connected"},
           ~SendMessages(c), ~Introduce(c), NEW R, NEW i \in Numbers
    PROVE  /\ (Present(i) => i \in AfterReading(R, mailbox[c]))
                 => (Present(i)' => i \in AfterReading(R, mailbox'[c]))
           /\ (i \in AfterReading(R, mailbox[c]) => Stays(i))
                 => (i \in AfterReading(R, mailbox'[c]) => Stays(i)')
           /\ i = player[c] /\ i \in AfterReading(R, mailbox[c]) => i \in AfterReading(R, mailbox'[c])
<1> DEFINE before == AfterReading(R, mailbox[c])
           after  == AfterReading(R, mailbox'[c])
           Right  == /\ (Present(i) => i \in before) => (Present(i)' => i \in after)
                     /\ (i \in before => Stays(i)) => (i \in after => Stays(i)')
                     /\ i = player[c] /\ i \in before => i \in after
<1>t. /\ mailbox \in [Clients -> Seq(Downward)] /\ thread \in [Clients -> Phases]
      /\ slots \in [Slots -> Clients \union {NoOne}] /\ lastupdate \in [Slots -> Nat]
      /\ mailbox[c] \in Seq(Downward) /\ SlotTypes /\ NoOne \notin Clients
      /\ player \in [Clients -> Slots \union {0}] /\ Slots' = Slots
  BY RealtimeAssumption DEF TypeInv, QueueTypes, SlotTypes, OtherTypes, Slots
<1>c. player[c] \in Slots /\ slots[player[c]] = c /\ thread[c] # "leaving"
  BY DEF TypeInv, SlotsAreOwned, Joins
<1>o. i \in Slots /\ slots[i] # NoOne =>
        slots[i] \in Clients /\ player[slots[i]] = i
           /\ thread[slots[i]] \in {"taking", "joining", "connected", "leaving"}
  BY <1>t DEF TypeInv, SlotsAreOwned
<1>1. ASSUME i \in before <=> i \in after, Present(i)' => Present(i), Stays(i) => Stays(i)'
      PROVE  Right
  BY <1>1
<1>2. ASSUME mailbox'[c] = mailbox[c], slots' = slots,
             \A d \in Clients : thread'[d] \in {"connected", "leaving"} => thread'[d] = thread[d]
      PROVE  Right
  <2>1. (Present(i)' => Present(i)) /\ (Stays(i) => Stays(i)')
    BY <1>2, <1>o, <1>t DEF Present, Stays
  <2> QED
    BY <1>1, <1>2, <2>1
<1>3. ASSUME NEW p \in Downward, mailbox'[c] = Append(mailbox[c], p)
      PROVE  i \in after <=> Greets(p, i) \/ (i \in before /\ ~Parts(p, i))
  BY <1>3, <1>t, MailRead
<1>4. CASE RoomRests
  <2>1. \A d \in Clients : thread'[d] \in {"connected", "leaving"} => thread'[d] = thread[d]
    BY <1>4 DEF RoomRests, Outside
  <2> QED
    BY <1>2, <1>4, <2>1 DEF RoomRests
<1>5. ASSUME NEW d \in Clients, NEW j \in Slots, Enters(d, j) PROVE Right
  <2>1. /\ mailbox' = mailbox /\ slots' = [slots EXCEPT ![j] = d] /\ slots[j] = NoOne
        /\ thread' = [thread EXCEPT ![d] = "taking"]
    BY <1>5 DEF Enters
  <2>2. CASE i = j
    <3>1. slots'[i] = d /\ thread'[d] = "taking"
      BY <1>t, <2>1, <2>2
    <3> QED
      BY <1>1, <2>1, <2>2, <3>1 DEF Present, Stays
  <2>3. CASE i # j
    <3>1. i \in Slots => slots'[i] = slots[i]
      BY <1>t, <2>1, <2>3
    <3>2. (Present(i)' => Present(i)) /\ (Stays(i) => Stays(i)')
      BY <1>o, <1>t, <2>1, <3>1 DEF Present, Stays
    <3> QED
      BY <1>1, <2>1, <3>2
  <2> QED
    BY <2>2, <2>3
<1>6. ASSUME NEW d \in Clients, SetNumber(d) PROVE Right
  <2>1. mailbox' = mailbox /\ slots' = slots /\ thread' = [thread EXCEPT ![d] = "joining"]
    BY <1>6 DEF SetNumber, room
  <2> QED
    BY <1>2, <1>t, <2>1
<1>7. ASSUME NEW d \in Clients, SendMessages(d) PROVE Right
  <2>1. mailbox'[c] = mailbox[c] /\ slots' = slots /\ thread' = thread
    BY <1>7, <1>t DEF SendMessages, room
  <2> QED
    BY <1>2, <2>1
<1>8. ASSUME NEW d \in Clients, Introduce(d) PROVE Right
  <2>1. d # c /\ slots' = slots /\ thread' = [thread EXCEPT ![d] = "connected"] /\ thread[d] = "joining"
    BY <1>8 DEF Introduce
  <2>2. player[d] \in Slots /\ slots[player[d]] = d /\ player[d] \in Nat
    BY <2>1 DEF TypeInv, SlotsAreOwned, Slots
  <2> DEFINE p == Packet("PLAYERINFO", player[d], <<>>)
  <2>3. p \in Downward /\ p.type = "PLAYERINFO" /\ p.n = player[d]
    BY <2>2, PacketTypes DEF DownTypes, Packet
  <2>4. mailbox'[c] = Append(mailbox[c], p)
    <3>1. player[c] \in OtherPlayers(d)
      BY <1>c, <1>t, <2>1 DEF OtherPlayers
    <3>2. Tell(d, p)[c] = Append(mailbox[c], p)
      BY <1>c, <3>1 DEF Tell
    <3>3. PICK info \in Introductions(d) : mailbox' = [Tell(d, p) EXCEPT ![d] = @ \o info]
      BY <1>8 DEF Introduce
    <3>4. mailbox'[c] = Tell(d, p)[c]
      BY <2>1, <3>3 DEF Tell
    <3> QED
      BY <3>2, <3>4
  <2>5. i \in after <=> i = player[d] \/ i \in before
    BY <1>3, <2>3, <2>4 DEF Greets, Parts
  <2>6. CASE i = player[d]
    <3>1. Stays(i)'
      BY <1>t, <2>1, <2>2, <2>6 DEF Stays
    <3> QED
      BY <2>5, <2>6, <3>1
  <2>7. CASE i # player[d]
    <3>1. (Present(i)' => Present(i)) /\ (Stays(i) => Stays(i)')
      BY <1>o, <1>t, <2>1, <2>7 DEF Present, Stays
    <3> QED
      BY <1>1, <2>5, <2>7, <3>1
  <2> QED
    BY <2>6, <2>7
<1>9. ASSUME NEW d \in Clients, Departs(d) PROVE Right
  <2>1. /\ slots' = slots /\ thread' = [thread EXCEPT ![d] = "leaving"] /\ thread[d] = "connected"
        /\ d # c
    BY <1>9, <1>t DEF Departs, Joins
  <2>2. player[d] \in Slots /\ slots[player[d]] = d /\ player[d] \in Nat
    BY <2>1 DEF TypeInv, SlotsAreOwned, Slots
  <2> DEFINE p == Packet("PLAYERDISCONNECT", player[d], <<>>)
  <2>3. p \in Downward /\ p.type = "PLAYERDISCONNECT" /\ p.n = player[d]
    BY <2>2, PacketTypes DEF DownTypes, Packet
  <2>4. mailbox'[c] = Append(mailbox[c], p)
    <3>1. player[c] \in OtherPlayers(d)
      BY <1>c, <1>t, <2>1 DEF OtherPlayers
    <3>2. Tell(d, p)[c] = Append(mailbox[c], p)
      BY <1>c, <3>1 DEF Tell
    <3> QED
      BY <1>9, <3>2 DEF Departs
  <2>5. i \in after <=> i # player[d] /\ i \in before
    BY <1>3, <2>3, <2>4 DEF Greets, Parts
  <2>6. player[d] # player[c]
    BY <1>c, <2>1, <2>2
  <2>7. Present(i)' => Present(i) /\ i # player[d]
    BY <1>o, <1>t, <2>1, <2>2 DEF Present
  <2>8. i # player[d] /\ Stays(i) => Stays(i)'
    BY <1>o, <1>t, <2>1 DEF Stays
  <2> QED
    BY <2>5, <2>6, <2>7, <2>8
<1>10. ASSUME NEW d \in Clients, DisconnectPlayer(d) PROVE Right
  <2>1. /\ d # c /\ thread[d] = "leaving" /\ slots' = [slots EXCEPT ![player[d]] = NoOne]
        /\ thread' = [thread EXCEPT ![d] = "none"]
    BY <1>10, <1>c DEF DisconnectPlayer
  <2>2. player[d] \in Slots /\ slots[player[d]] = d
    BY <2>1 DEF TypeInv, SlotsAreOwned
  <2>3. mailbox'[c] = mailbox[c]
    BY <1>10, <1>t, <2>1 DEF DisconnectPlayer
  <2>4. CASE i = player[d]
    <3>1. slots'[i] = NoOne /\ ~Stays(i)
      BY <1>t, <2>1, <2>2, <2>4 DEF Stays
    <3> QED
      BY <1>1, <2>3, <3>1 DEF Present
  <2>5. CASE i # player[d]
    <3>1. i \in Slots => slots'[i] = slots[i]
      BY <1>t, <2>1, <2>5
    <3>2. (Present(i)' => Present(i)) /\ (Stays(i) => Stays(i)')
      BY <1>o, <1>t, <2>1, <2>5, <3>1 DEF Present, Stays
    <3> QED
      BY <1>1, <2>3, <3>2
  <2> QED
    BY <2>4, <2>5
<1>11. CASE SendUpdates
  <2> DEFINE j == CHOOSE j \in Slots : slots[j] = c
             p == Packet("PLAYERUPDATE", lastupdate[j], <<>>)
  <2>1. slots' = slots /\ thread' = thread
    BY <1>11 DEF SendUpdates, room
  <2>2. mailbox'[c] = Append(mailbox[c], p)
    BY <1>11, <1>c DEF SendUpdates
  <2>3. lastupdate[j] \in Nat
    BY <1>t, <1>c
  <2>4. p \in Downward /\ p.type = "PLAYERUPDATE"
    BY <2>3, PacketTypes DEF DownTypes, Packet
  <2> HIDE DEF p
  <2>5. i \in after <=> i \in before
    BY <1>3, <2>2, <2>4 DEF Greets, Parts
  <2>6. (Present(i)' => Present(i)) /\ (Stays(i) => Stays(i)')
    BY <1>t, <2>1 DEF Present, Stays
  <2> QED
    BY <1>1, <2>5, <2>6
<1> QED
  BY <1>t, <1>4, <1>5, <1>6, <1>7, <1>8, <1>9, <1>10, <1>11, RoomSteps

\* Who joins is told by nobody of somebody who does not stay.
LEMMA NewMailKept ==
    ASSUME TypeInv, Mailboxes, env' = env, [Next]_vars, NEW c \in Clients,
           thread'[c] \in Joins, thread[c] \in Joins => NewMail(c)
    PROVE  NewMail(c)'
<1>t. /\ DOMAIN thread = Clients /\ DOMAIN player = Clients /\ SlotTypes /\ Numbers' = Numbers
  BY DEF TypeInv, SlotTypes, Numbers, Slots
<1> DEFINE ToldTo(R) == AfterReading(R, mailbox'[c])
<1>1. SUFFICES (\A i \in ToldTo({}) : Stays(i)') /\ player'[c] \in ToldTo({player'[c]})
  <2>1. \A R : AfterReading(R, mailbox[c])' = AfterReading(R', mailbox'[c])
    BY <1>t DEF AfterReading, Greets, Parts
  <2> QED
    BY <2>1 DEF NewMail, Stays
<1>2. ASSUME NEW j \in Slots, Enters(c, j)
      PROVE  (\A i \in ToldTo({}) : Stays(i)') /\ player'[c] \in ToldTo({player'[c]})
  <2>1. mailbox'[c] = <<>> /\ player'[c] = j
    BY <1>t, <1>2 DEF Enters, Mailboxes, Joined
  <2>2. ToldTo({}) = {} /\ ToldTo({j}) = {j}
    BY <2>1, ReadingNothing DEF Numbers
  <2> QED
    BY <2>1, <2>2
<1>3. CASE ~\E j \in Slots : Enters(c, j)
  <2>1. thread[c] \in Joins /\ player'[c] = player[c] /\ ~SendMessages(c) /\ ~Introduce(c)
    <3>1. CASE RoomRests
      BY <1>t, <3>1 DEF RoomRests, Outside, Joins, SendMessages, Introduce
    <3>2. ASSUME NEW d \in Clients, NEW j \in Slots, Enters(d, j)
          PROVE  thread[c] \in Joins /\ player'[c] = player[c] /\ ~SendMessages(c) /\ ~Introduce(c)
      BY <1>t, <1>3, <3>2 DEF Enters, Joins, SendMessages, Introduce
    <3>3. ASSUME NEW d \in Clients,
                 SetNumber(d) \/ Introduce(d) \/ SendMessages(d) \/ Departs(d) \/ DisconnectPlayer(d)
          PROVE  thread[c] \in Joins /\ player'[c] = player[c] /\ ~SendMessages(c) /\ ~Introduce(c)
      BY <1>t, <3>3 DEF SetNumber, Introduce, SendMessages, Departs, DisconnectPlayer, Joins
    <3>4. CASE SendUpdates
      BY <1>t, <3>4 DEF SendUpdates, Joins, SendMessages, Introduce
    <3> QED
      BY <1>t, <3>1, <3>2, <3>3, <3>4, RoomSteps
  <2>2. NewMail(c) /\ player[c] \in Numbers
    BY <2>1 DEF TypeInv, SlotTypes, Numbers
  <2>3. ASSUME NEW i \in ToldTo({}) PROVE Stays(i)'
    <3>1. i \in Numbers /\ (i \in AfterReading({}, mailbox[c]) => Stays(i))
      BY <2>2 DEF NewMail, AfterReading
    <3> QED
      BY <2>1, <3>1, MailGoesOn
  <2>4. player[c] \in ToldTo({player[c]})
    BY <2>1, <2>2, MailGoesOn DEF NewMail
  <2> QED
    BY <2>1, <2>3, <2>4
<1> QED
  BY <1>2, <1>3

\* Who is introduced knows everybody who is there, ...
LEMMA RosterBegins ==
    ASSUME TypeInv, Naming, NEW c \in Clients, Entered(c), NewMail(c), env' = env,
           Introduce(c), Grows(c, OwnNews(c)), relay[c], NEW i \in Numbers
    PROVE  LET belief == AfterReading(AfterReading(AfterReading(roster'[c], usb'[c]), toN64'[c]), mailbox'[c])
           IN  /\ Present(i)' => i \in belief
               /\ i \in belief => Stays(i)' \/ i \in ghosts'[c]
<1> DEFINE known == AfterReading(AfterReading(roster'[c], usb'[c]), toN64'[c])
           told  == Tell(c, Packet("PLAYERINFO", player[c], <<>>))
<1>t. /\ mailbox \in [Clients -> Seq(Downward)] /\ DOMAIN thread = Clients
      /\ slots \in [Slots -> Clients \union {NoOne}] /\ env.slots \in Nat
      /\ mailbox[c] \in Seq(Downward) /\ SlotTypes /\ Slots' = Slots /\ DOMAIN ghosts = Clients
  BY DEF TypeInv, QueueTypes, SlotTypes, OtherTypes, Slots
<1>1. thread[c] = "joining" /\ player[c] \in Slots /\ slots[player[c]] = c /\ player[c] \in Nat /\ c # NoOne
  BY RealtimeAssumption DEF Introduce, TypeInv, SlotsAreOwned, Slots
<1>e. slots' = slots /\ thread' = [thread EXCEPT ![c] = "connected"] /\ ghosts'[c] = GhostsFor(c)
  BY <1>t DEF Introduce
<1>o. i \in Slots /\ slots[i] # NoOne =>
        slots[i] \in Clients /\ player[slots[i]] = i
           /\ thread[slots[i]] \in {"taking", "joining", "connected", "leaving"}
  BY <1>t DEF TypeInv, SlotsAreOwned
<1>2. Known(c) = {}
  <2>1. roster[c] = {} /\ ~SentAsPlayer(usb[c]) /\ ~SentAsPlayer(toN64[c])
    BY <1>1 DEF Entered, Joins
  <2>2. AfterReading(roster[c], usb[c]) = {}
    BY <2>1, ReadingElse DEF SentAsPlayer, ForPlayers
  <2>3. AfterReading({}, toN64[c]) = {}
    BY <2>1, ReadingElse DEF SentAsPlayer, ForPlayers
  <2> QED
    BY <2>2, <2>3 DEF Known
<1>3. known = {player[c]}
  <2>1. Packet("CLIENTINFO", player[c], <<>>) \in Downward
    BY <1>1, PacketTypes DEF DownTypes
  <2>2. OwnNews(c) \in Seq(Downward)
    BY <2>1 DEF OwnNews
  <2>3. known = AfterReading({}, OwnNews(c))
    BY <1>2, <2>2, KnownKept
  <2>4. AfterReading({}, OwnNews(c))
          = { j \in Numbers : Greets(Packet("CLIENTINFO", player[c], <<>>), j) }
    BY ReadingOne DEF OwnNews
  <2> QED
    BY <1>1, <2>3, <2>4 DEF Greets, Packet, Numbers
<1>4. PICK info \in Introductions(c) : mailbox' = [told EXCEPT ![c] = @ \o info]
  BY DEF Introduce
<1>5. mailbox'[c] = mailbox[c] \o info
  <2>1. ~\E j \in OtherPlayers(c) : slots[j] = c
    BY DEF OtherPlayers
  <2>2. told[c] = mailbox[c] /\ c \in DOMAIN told
    BY <2>1 DEF Tell
  <2> QED
    BY <1>4, <2>2
<1>6. info \in Seq(Downward)
  BY <1>t, IntroductionTypes
<1>7. /\ \A k \in DOMAIN info :
            info[k].type = "PLAYERINFO" /\ \E j \in OtherPlayers(c) : info[k].n = Number(slots[j])
      /\ \A j \in OtherPlayers(c) :
            \E k \in DOMAIN info : info[k].type = "PLAYERINFO" /\ info[k].n = Number(slots[j])
  BY <1>t, IntroductionFacts
<1> DEFINE s == AfterReading(known, mailbox[c])
<1> HIDE DEF known
<1>8. i \in AfterReading(known, mailbox'[c]) <=> i \in s \/ \E k \in DOMAIN info : Greets(info[k], i)
  <2>1. AfterReading(known, mailbox[c] \o info) = AfterReading(s, info)
    BY <1>t, <1>6, ReadingMore
  <2>2. \A k \in DOMAIN info : ~Parts(info[k], i)
    BY <1>7 DEF Parts
  <2> QED
    BY <1>5, <2>1, <2>2, ReadingNews
<1>9. player[c] \in s
  BY <1>3 DEF NewMail
<1>10. ASSUME Present(i)' PROVE i \in AfterReading(known, mailbox'[c])
  <2>1. CASE slots[i] = c
    BY <1>t, <1>e, <1>o, <1>8, <1>9, <1>10, <2>1 DEF Present
  <2>2. CASE slots[i] # c
    <3>1. i \in OtherPlayers(c) /\ Number(slots[i]) = i
      BY <1>e, <1>o, <1>t, <1>10, <2>2 DEF Present, OtherPlayers, Number
    <3> QED
      BY <1>7, <1>8, <3>1 DEF Greets
  <2> QED
    BY <2>1, <2>2
<1>11. ASSUME i \in AfterReading(known, mailbox'[c]) PROVE Stays(i)' \/ i \in ghosts'[c]
  <2>1. CASE i = player[c]
    BY <1>1, <1>e, <1>t, <2>1 DEF Stays
  <2>2. CASE i \in s /\ i # player[c]
    <3>1. i \in AfterReading({}, mailbox[c])
      BY <1>3, <2>2 DEF AfterReading
    <3>2. Stays(i)
      BY <3>1 DEF NewMail
    <3> QED
      BY <1>e, <1>o, <1>t, <3>2 DEF Stays
  <2>3. CASE \E k \in DOMAIN info : Greets(info[k], i)
    <3>1. PICK j \in OtherPlayers(c) : i = Number(slots[j])
      BY <1>7, <2>3 DEF Greets
    <3>2. /\ j \in Slots /\ slots[j] \in Clients \ {c} /\ player[slots[j]] = j
          /\ thread[slots[j]] \in {"taking", "joining", "connected", "leaving"}
      BY <1>t DEF OtherPlayers, TypeInv, SlotsAreOwned
    <3>3. CASE thread[slots[j]] \in {"taking", "leaving"}
      BY <1>e, <3>1, <3>3 DEF GhostsFor
    <3>4. CASE thread[slots[j]] \in {"joining", "connected"}
      <4>1. i = j /\ slots[j] # NoOne /\ thread'[slots[j]] = thread[slots[j]]
        BY <1>e, <1>t, <3>1, <3>2, <3>4 DEF Number, OtherPlayers
      <4> QED
        BY <1>e, <1>t, <3>2, <3>4, <4>1 DEF Stays
    <3> QED
      BY <3>2, <3>3, <3>4
  <2> QED
    BY <1>8, <1>11, <2>1, <2>2, <2>3
<1> QED
  BY <1>10, <1>11 DEF known

\* ... and goes on to.
LEMMA RosterGoesOn ==
    ASSUME TypeInv, Naming, env' = env, [Next]_vars, NEW c \in Clients, thread[c] = "connected",
           thread'[c] = "connected", relay[c], OnItsWay(c), Roster(c), NEW i \in Numbers
    PROVE  LET belief == AfterReading(AfterReading(AfterReading(roster'[c], usb'[c]), toN64'[c]), mailbox'[c])
           IN  /\ Present(i)' => i \in belief
               /\ i \in belief => Stays(i)' \/ i \in ghosts[c]
<1> DEFINE known  == AfterReading(AfterReading(roster'[c], usb'[c]), toN64'[c])
           belief == AfterReading(known, mailbox'[c])
<1>t. DOMAIN mailbox = Clients /\ mailbox[c] \in Seq(Downward) /\ Slots' = Slots
  BY DEF TypeInv, QueueTypes, Slots
<1>b. Belief(c) = AfterReading(Known(c), mailbox[c]) /\ Belief(c) \subseteq Numbers
  BY DEF Belief, AfterReading
<1>r. (Present(i) => i \in Belief(c)) /\ (i \in Belief(c) => Stays(i) \/ i \in ghosts[c])
  BY DEF Roster, Present
<1>f. ~Fresh(c) /\ ~Introduce(c)
  BY DEF Fresh, TakenIn, Joined, Introduce
<1>1. CASE SendMessages(c)
  <2>1. Grows(c, mailbox[c])
    BY <1>1 DEF SendMessages, Send, netlib, program, TypeInv, QueueTypes, Grows, Still
  <2>2. known = Belief(c)
    BY <1>t, <1>b, <2>1, KnownKept
  <2>3. mailbox'[c] = <<>> /\ slots' = slots /\ thread' = thread
    BY <1>1, <1>t DEF SendMessages, room
  <2> HIDE DEF known
  <2>4. belief = Belief(c)
    BY <1>b, <2>2, <2>3, ReadingNothing
  <2>5. (Present(i)' <=> Present(i)) /\ (Stays(i)' <=> Stays(i))
    BY <1>t, <2>3 DEF Present, Stays
  <2> QED
    BY <1>r, <2>4, <2>5 DEF known
<1>2. CASE ~SendMessages(c)
  <2>1. Reads(c) \/ Arrives(c) \/ Unheard(c)
    BY <1>f, <1>2 DEF OnItsWay
  <2>2. known = Known(c)
    BY <2>1, KnownKept
  <2> HIDE DEF known
  <2>3. /\ (Present(i) => i \in Belief(c)) => (Present(i)' => i \in belief)
        /\ (i \in Belief(c) => Stays(i)) => (i \in belief => Stays(i)')
    BY <1>b, <1>f, <1>2, <2>2, MailGoesOn
  <2> QED
    BY <1>r, <2>3 DEF known
<1> QED
  BY <1>1, <1>2

\* A client's ghosts are those of its introduction.
LEMMA GhostsKept ==
    ASSUME DOMAIN ghosts = Clients, [Next]_vars, NEW c \in Clients, ~Introduce(c)
    PROVE  ghosts'[c] = ghosts[c]
<1>1. CASE UNCHANGED vars
  BY <1>1 DEF vars, server, room
<1>2. CASE GameThread
  BY <1>2 DEF GameThread, DoUpdate, SendUpdates, room
<1>3. ASSUME NEW d \in Clients,
             N64(d) \/ Boot(d) \/ SendInputs(d) \/ LoseServer(d) \/ Retry(d) \/ RelayUp(d)
      PROVE  ghosts' = ghosts
  BY <1>3 DEF N64, EnterInit, InitStage, RequestClock, DoneSync, Callback, PollEnds, Boot,
     SendInputs, LoseServer, Retry, RelayUp, server, room
<1>4. ASSUME NEW d \in Clients,
             Interface(d) \/ Unplug(d) \/ User(d) \/ DeviceThread(d) \/ UploadThread(d)
      PROVE  ghosts' = ghosts
  BY <1>4 DEF Interface, Unplug, User, DeviceThread, UploadThread, Upload, Others, server, room
<1>5. ASSUME NEW d \in Clients, HandleConnect(d) \/ HandleSync(d) \/ HandleDone(d) \/ SetNumber(d)
      PROVE  ghosts' = ghosts
  BY <1>5 DEF HandleConnect, HandleSync, HandleDone, SetNumber, room
<1>6. ASSUME NEW d \in Clients,
             \/ HandleUnexpected(d) \/ HandleNothing(d) \/ HandleInput(d) \/ SendMessages(d)
             \/ DisconnectPlayer(d) \/ SendHeartbeat(d) \/ TimeOut(d)
      PROVE  ghosts' = ghosts
  BY <1>6 DEF HandleUnexpected, HandleNothing, HandleInput, SendMessages, DisconnectPlayer,
     SendHeartbeat, TimeOut, room
<1>7. ASSUME NEW d \in Clients, Introduce(d) PROVE ghosts'[c] = ghosts[c]
  BY <1>7 DEF Introduce
<1> QED
  BY <1>1, <1>2, <1>3, <1>4, <1>5, <1>6, <1>7 DEF Next, ServerThread

LEMMA MembersKept ==
    ASSUME TypeInv, HandshakeInv, HandshakeInv', RosterInv, [Next]_vars, NEW c \in Clients,
           used'["unplug"] = 0, FirstTry(c)'
    PROVE  Member(c)'
<1>1. /\ used["unplug"] = 0 /\ env' = env /\ FirstTry(c)
  BY RareCounted, FirstTries DEF Rare
<1>2. Naming /\ Windows /\ Entered(c) /\ DOMAIN ghosts = Clients
  BY <1>1 DEF RosterInv, Member, TypeInv, OtherTypes
<1>3. OnItsWay(c)
  BY <1>1, <1>2, AllOnItsWay
<1>4. Entered(c)'
  BY <1>1, <1>2, <1>3, EnteredKept
<1>5. ASSUME relay'[c], thread'[c] = "connected" PROVE OwnNumber(c)'
  <2>1. thread[c] = "connected" /\ relay[c] => OwnNumber(c)
    BY <1>1 DEF RosterInv, Member
  <2> QED
    BY <1>2, <1>3, <1>5, <2>1, OwnNumberKept
<1>6. ASSUME relay'[c], thread'[c] = "connected" PROVE Roster(c)'
  <2> DEFINE known  == AfterReading(AfterReading(roster'[c], usb'[c]), toN64'[c])
             belief == AfterReading(known, mailbox'[c])
  <2>1. ~Fresh(c)
    BY <1>6 DEF Fresh, TakenIn, Joined
  <2>2. relay[c] /\ (thread[c] = "connected" \/ (Introduce(c) /\ Grows(c, OwnNews(c))))
    BY <1>3, <1>6, <2>1 DEF OnItsWay, SendMessages, Unheard
  <2>3. ASSUME NEW i \in Numbers
        PROVE  /\ Present(i)' => i \in belief
               /\ i \in belief => Stays(i)' \/ i \in ghosts'[c]
    <3>1. CASE thread[c] = "connected"
      <4>1. Roster(c)
        BY <1>1, <1>6, <2>2, <3>1 DEF RosterInv, Member
      <4>2. ghosts'[c] = ghosts[c]
        BY <1>2, <3>1, GhostsKept DEF Introduce
      <4> HIDE DEF belief
      <4>3. /\ Present(i)' => i \in belief
            /\ i \in belief => Stays(i)' \/ i \in ghosts[c]
        BY <1>1, <1>2, <1>3, <1>6, <2>2, <3>1, <4>1, RosterGoesOn DEF belief
      <4> QED
        BY <4>2, <4>3
    <3>2. CASE Introduce(c) /\ Grows(c, OwnNews(c))
      <4>1. NewMail(c)
        BY <3>2 DEF RosterInv, Introduce, Joins
      <4> QED
        BY <1>1, <1>2, <2>2, <3>2, <4>1, RosterBegins
    <3> QED
      BY <2>2, <3>1, <3>2
  <2>4. Belief(c)' = belief /\ Slots' = Slots /\ belief \subseteq Numbers
    <3>1. Slots' = Slots /\ Numbers' = Numbers
      BY <1>1 DEF Slots, Numbers
    <3> QED
      BY <3>1 DEF Belief, Known, AfterReading, Greets, Parts
  <2> HIDE DEF belief
  <2>5. Slots \subseteq Numbers
    BY DEF Numbers
  <2> QED
    BY <2>3, <2>4, <2>5 DEF Roster
<1> QED
  BY <1>1, <1>4, <1>5, <1>6 DEF Member

LEMMA RosterKept ==
    ASSUME TypeInv, HandshakeInv, HandshakeInv', RosterInv, [Next]_vars
    PROVE  RosterInv'
<1>1. env' = env
  BY RareCounted
<1>2. Naming' /\ Windows'
  BY <1>1, NamingKept, WindowsKept DEF RosterInv
<1>3. ASSUME NEW c \in Clients, thread'[c] \in Joins PROVE NewMail(c)'
  BY <1>1, <1>3, NewMailKept DEF RosterInv, HandshakeInv
<1>4. \A c \in Clients : used'["unplug"] = 0 /\ FirstTry(c)' => Member(c)'
  BY MembersKept
<1> QED
  BY <1>2, <1>3, <1>4 DEF RosterInv, Joins

LEMMA RosterInitially == Init => RosterInv
<1> SUFFICES ASSUME Init PROVE RosterInv
  OBVIOUS
<1>1. ASSUME NEW c \in Clients
      PROVE  /\ usb[c] = <<>> /\ toN64[c] = <<>> /\ mailbox[c] = <<>>
             /\ thread[c] = "none" /\ roster[c] = {} /\ clnumber[c] = 0 /\ stage[c] # "game"
             /\ device[c] = "none" => uploads[c] = 0
             /\ device[c] \notin {"dying", "dead"}
  BY DEF Init, NetLibInit, WindowInit, Started, ProgramInit, ServerInit
<1>2. Naming
  BY <1>1 DEF Naming, NamesSlots
<1>3. Windows
  BY <1>1 DEF Windows
<1>4. ASSUME NEW c \in Clients PROVE Member(c)
  BY <1>1, <1>4 DEF Member, Entered, Joins, SentAsPlayer, NumberComesFirst
<1> QED
  BY <1>1, <1>2, <1>3, <1>4 DEF RosterInv, Joins

LEMMA RosterInvariant == Spec => []RosterInv
<1>1. TypeInv /\ HandshakeInv /\ HandshakeInv' /\ RosterInv /\ [Next]_vars => RosterInv'
  BY RosterKept
<1> QED
  BY <1>1, RosterInitially, TypeInvariant, HandshakeInvariant, PTL DEF Spec

-----------------------------------------------------------------------------
\* An N64 reads an update only once it has its number: updates are for players, and a
\* player is told its number before all else (ClientConnectionThread, packets.c:323).
THEOREM UpdatesFindAPlayerTheorem == Spec => []UpdatesFindAPlayer
<1>1. TypeInv /\ RosterInv => UpdatesFindAPlayer
  <2> SUFFICES ASSUME TypeInv, RosterInv, used["unplug"] = 0, NEW c \in Clients, FirstTry(c),
                      usb[c] # <<>>, Head(usb[c]).type = "PLAYERUPDATE", clnumber[c] = 0
               PROVE  FALSE
    BY DEF UpdatesFindAPlayer
  <2>1. NumberComesFirst(usb[c]) /\ usb[c] \in Seq(Downward)
    BY DEF RosterInv, Member, Entered, TypeInv, QueueTypes
  <2>2. Head(usb[c]).type \notin NeedsNumber
    BY <2>1, FirstFacts
  <2> QED
    BY <2>2 DEF NeedsNumber, ForPlayers
<1> QED
  BY <1>1, TypeInvariant, RosterInvariant, PTL

\* Once everything that was sent has been read, a player's N64 knows its own number and
\* everybody who is there, in whatever order clients joined and left; and nobody else but
\* those who left, or had no number yet, when it was introduced (ConnectPlayer,
\* DisconnectPlayer and the client threads of the Realtime server).
THEOREM RosterIsRightTheorem == Spec => []RosterIsRight
<1>1. TypeInv /\ RosterInv => RosterIsRight
  <2> SUFFICES ASSUME TypeInv, RosterInv, used["unplug"] = 0, Settled,
                      NEW c \in Clients, FirstTry(c), relay[c], thread[c] = "connected",
                      stage[c] = "game"
               PROVE  LET present == { i \in Slots : slots[i] # NoOne }
                      IN  /\ clnumber[c] = player[c]
                          /\ present \subseteq roster[c]
                          /\ roster[c] \subseteq present \union ghosts[c]
    BY DEF RosterIsRight
  <2>1. Entered(c) /\ OwnNumber(c) /\ Roster(c) /\ roster[c] \subseteq Numbers
    BY DEF RosterInv, Member, Naming
  <2>2. clnumber[c] = player[c]
    BY <2>1 DEF Entered, OwnNumber
  <2>3. Belief(c) = roster[c]
    <3>1. usb[c] = <<>> /\ toN64[c] = <<>> /\ mailbox[c] = <<>>
      BY DEF Settled
    <3>2. AfterReading(roster[c], <<>>) = roster[c]
      BY <2>1, ReadingNothing
    <3> QED
      BY <3>1, <3>2 DEF Belief, Known
  <2>4. ASSUME NEW i \in Slots, slots[i] # NoOne PROVE i \in roster[c]
    <3>1. slots[i] \in Clients /\ thread[slots[i]] \in {"taking", "joining", "connected", "leaving"}
      BY <2>4 DEF TypeInv, SlotTypes, SlotsAreOwned
    <3>2. Present(i)
      BY <2>4, <3>1 DEF Settled, Present
    <3> QED
      BY <2>1, <2>3, <3>2 DEF Roster
  <2>5. ASSUME NEW i \in roster[c] PROVE (i \in Slots /\ slots[i] # NoOne) \/ i \in ghosts[c]
    BY <2>1, <2>3, <2>5 DEF Roster, Stays
  <2> QED
    BY <2>2, <2>4, <2>5
<1> QED
  BY <1>1, TypeInvariant, RosterInvariant, PTL

-----------------------------------------------------------------------------
(* The inputs on their way *)

IsInput(p) == p.type = "CLIENTINPUT"

\* What the game thread is still to take of c's inputs, in its queue, ...
Said(c) ==
    [k \in DOMAIN messages |->
        IF thread[c] \in Joined /\ messages[k].sender = player[c]
          THEN Packet("CLIENTINPUT", 0, messages[k].times) ELSE Plain("ACKBEAT")]

\* ... and all that is before it, back to the N64's write buffer.
Buffered(c) == IF sendafterpoll[c] THEN <<buffer[c]>> ELSE <<>>
Line(c)    == (((Said(c) \o msgqueue[c]) \o toServer[c]) \o wire[c]) \o Buffered(c)

\* The times of the inputs in a sequence of packets rise, and are between two times.
Rising(s) ==
    \A j, k \in DOMAIN s : j < k /\ IsInput(s[j]) /\ IsInput(s[k]) => s[j].times[2] < s[k].times[1]
Between(s, low, high) ==
    \A k \in DOMAIN s : IsInput(s[k]) =>
        low < s[k].times[1] /\ s[k].times[1] < s[k].times[2] /\ s[k].times[2] <= high

\* The last input of c that the server applied.
Applied(c) == IF thread[c] \in Joined THEN lastupdate[player[c]] ELSE 0

\* Nobody left, and every message is of somebody who is there.
NobodyLeft ==
    /\ \A c \in Clients : thread[c] # "leaving"
    /\ \A k \in DOMAIN messages : slots[messages[k].sender] # NoOne

InLine(c) == Rising(Line(c)) /\ Between(Line(c), Applied(c), time[c]) /\ Applied(c) <= time[c]

InputsInv == env.ordered /\ used["leave"] = 0 => NobodyLeft /\ \A c \in Clients : InLine(c)

\* A sequence whose inputs are among those of another, in their order.
InputsOf(s)   == { k \in DOMAIN s : IsInput(s[k]) }
Within(r, s) ==
    \E f \in [InputsOf(r) -> DOMAIN s] :
        /\ \A k \in InputsOf(r) : s[f[k]] = r[k]
        /\ \A j, k \in InputsOf(r) : j < k => f[j] < f[k]

\* What is true of the times of all is true of those that are left.
LEMMA WithinKept ==
    ASSUME NEW r, NEW s, Within(r, s), NEW low, NEW high
    PROVE  /\ Rising(s) => Rising(r)
           /\ Between(s, low, high) => Between(r, low, high)
<1>1. PICK f \in [InputsOf(r) -> DOMAIN s] :
         /\ \A k \in InputsOf(r) : s[f[k]] = r[k]
         /\ \A j, k \in InputsOf(r) : j < k => f[j] < f[k]
  BY DEF Within
<1>2. ASSUME NEW k \in InputsOf(r) PROVE k \in DOMAIN r /\ f[k] \in DOMAIN s /\ IsInput(s[f[k]]) /\ s[f[k]] = r[k]
  BY <1>1, <1>2 DEF InputsOf
<1>3. ASSUME Rising(s) PROVE Rising(r)
  <2> SUFFICES ASSUME NEW j \in DOMAIN r, NEW k \in DOMAIN r, j < k, IsInput(r[j]), IsInput(r[k])
               PROVE  r[j].times[2] < r[k].times[1]
    BY DEF Rising
  <2>1. j \in InputsOf(r) /\ k \in InputsOf(r)
    BY DEF InputsOf
  <2>2. s[f[j]].times[2] < s[f[k]].times[1]
    BY <1>1, <1>2, <1>3, <2>1 DEF Rising
  <2> QED
    BY <1>2, <2>1, <2>2
<1>4. ASSUME Between(s, low, high) PROVE Between(r, low, high)
  <2> SUFFICES ASSUME NEW k \in DOMAIN r, IsInput(r[k])
               PROVE  low < r[k].times[1] /\ r[k].times[1] < r[k].times[2] /\ r[k].times[2] <= high
    BY DEF Between
  <2>1. k \in InputsOf(r)
    BY DEF InputsOf
  <2>2. low < s[f[k]].times[1] /\ s[f[k]].times[1] < s[f[k]].times[2] /\ s[f[k]].times[2] <= high
    BY <1>2, <1>4, <2>1 DEF Between
  <2> QED
    BY <1>2, <2>1, <2>2
<1> QED
  BY <1>3, <1>4

\* No packet is gone, ...
LEMMA WithinItself ==
    ASSUME NEW s
    PROVE  Within(s, s)
<1> DEFINE f == [k \in InputsOf(s) |-> k]
<1>1. f \in [InputsOf(s) -> DOMAIN s]
  BY DEF InputsOf
<1> QED
  BY <1>1 DEF Within

\* ... all inputs are, ...
LEMMA WithinNothing ==
    ASSUME NEW r, NEW s, \A k \in DOMAIN r : ~IsInput(r[k])
    PROVE  Within(r, s)
<1> DEFINE f == [k \in InputsOf(r) |-> k]
<1>1. InputsOf(r) = {}
  BY DEF InputsOf
<1>2. f \in [InputsOf(r) -> DOMAIN s]
  BY <1>1
<1> QED
  BY <1>1, <1>2 DEF Within

\* ... the first is, ...
LEMMA WithinTail ==
    ASSUME NEW S, NEW s \in Seq(S), s # <<>>
    PROVE  Within(Tail(s), s)
<1> DEFINE r == Tail(s)
           f == [k \in InputsOf(r) |-> k + 1]
<1>1. r \in Seq(S) /\ \A k \in DOMAIN r : k \in Nat /\ k + 1 \in DOMAIN s /\ r[k] = s[k + 1]
  <2>1. r \in Seq(S) /\ \A k \in DOMAIN r : k + 1 \in DOMAIN s /\ r[k] = s[k + 1]
    BY TailFacts
  <2>2. \A k \in DOMAIN r : k \in Nat
    BY <2>1
  <2> QED
    BY <2>1, <2>2
<1> HIDE DEF r
<1>2. f \in [InputsOf(r) -> DOMAIN s]
  BY <1>1 DEF InputsOf
<1>3. \A k \in InputsOf(r) : s[f[k]] = r[k]
  BY <1>1 DEF InputsOf
<1>4. \A j, k \in InputsOf(r) : j < k => f[j] < f[k]
  BY <1>1 DEF InputsOf
<1>5. Within(r, s)
  BY <1>2, <1>3, <1>4 DEF Within
<1> QED
  BY <1>5 DEF r

\* Two sequences in a row.
LEMMA WithinBoth ==
    ASSUME NEW S, NEW r \in Seq(S), NEW s \in Seq(S), NEW p \in Seq(S), NEW q \in Seq(S),
           Within(r, s), Within(p, q)
    PROVE  Within(r \o p, s \o q)
<1>1. PICK f \in [InputsOf(r) -> DOMAIN s] :
         /\ \A k \in InputsOf(r) : s[f[k]] = r[k]
         /\ \A j, k \in InputsOf(r) : j < k => f[j] < f[k]
  BY DEF Within
<1>2. PICK g \in [InputsOf(p) -> DOMAIN q] :
         /\ \A k \in InputsOf(p) : q[g[k]] = p[k]
         /\ \A j, k \in InputsOf(p) : j < k => g[j] < g[k]
  BY DEF Within
<1>a. PICK n \in Nat : n = Len(r)
  OBVIOUS
<1>b. PICK m \in Nat : m = Len(s)
  OBVIOUS
<1>0. r \o p \in Seq(S) /\ s \o q \in Seq(S)
  OBVIOUS
<1>c. PICK a \in Seq(S) : a = r \o p
  BY <1>0
<1>d. PICK b \in Seq(S) : b = s \o q
  BY <1>0
<1>3. n = Len(r) /\ m = Len(s) /\ a = r \o p /\ b = s \o q
  BY <1>a, <1>b, <1>c, <1>d
<1>4. /\ DOMAIN r = 1..n /\ DOMAIN s = 1..m /\ DOMAIN p \subseteq Nat /\ DOMAIN q \subseteq Nat
      /\ \A k \in DOMAIN q : k > 0
      /\ \A k \in DOMAIN p : k > 0
  BY <1>3
<1>5. ASSUME NEW k \in DOMAIN a
      PROVE  \/ k \in DOMAIN r /\ k <= n /\ a[k] = r[k]
             \/ k > n /\ k - n \in DOMAIN p /\ a[k] = p[k - n]
  BY <1>3
<1>6. /\ \A k \in DOMAIN s : k \in DOMAIN b /\ b[k] = s[k]
      /\ \A k \in DOMAIN q : m + k \in DOMAIN b /\ b[m + k] = q[k]
  BY <1>3
<1> DEFINE h == [k \in InputsOf(a) |-> IF k <= n THEN f[k] ELSE m + g[k - n]]
<1>7. ASSUME NEW k \in InputsOf(a)
      PROVE  /\ k \in Nat
             /\ \/ k <= n /\ k \in InputsOf(r) /\ a[k] = r[k] /\ h[k] = f[k] /\ f[k] \in DOMAIN s
                \/ k > n /\ k - n \in InputsOf(p) /\ a[k] = p[k - n] /\ h[k] = m + g[k - n] /\ g[k - n] \in DOMAIN q
  <2>1. k \in DOMAIN a /\ IsInput(a[k]) /\ k \in Nat
    BY <1>3, <1>7 DEF InputsOf
  <2>2. CASE k <= n
    <3>1. k \in InputsOf(r) /\ a[k] = r[k]
      BY <1>5, <2>1, <2>2 DEF InputsOf
    <3> QED
      BY <1>1, <2>1, <2>2, <3>1
  <2>3. CASE k > n
    <3>1. k - n \in InputsOf(p) /\ a[k] = p[k - n] /\ ~(k <= n)
      BY <1>5, <2>1, <2>3 DEF InputsOf
    <3>2. h[k] = m + g[k - n]
      BY <1>7, <3>1
    <3> QED
      BY <1>2, <2>1, <2>3, <3>1, <3>2
  <2> QED
    BY <2>1, <2>2, <2>3
<1> HIDE DEF h
<1>8. h \in [InputsOf(a) -> DOMAIN b]
  <2>1. \A k \in InputsOf(a) : h[k] \in DOMAIN b
    BY <1>6, <1>7
  <2> QED
    BY <2>1 DEF h
<1>9. ASSUME NEW k \in InputsOf(a) PROVE b[h[k]] = a[k]
  <2>1. CASE k <= n /\ k \in InputsOf(r) /\ a[k] = r[k] /\ h[k] = f[k] /\ f[k] \in DOMAIN s
    BY <1>1, <1>6, <2>1
  <2>2. CASE k > n /\ k - n \in InputsOf(p) /\ a[k] = p[k - n] /\ h[k] = m + g[k - n] /\ g[k - n] \in DOMAIN q
    BY <1>2, <1>6, <2>2
  <2> QED
    BY <1>7, <2>1, <2>2
<1>10. ASSUME NEW j \in InputsOf(a), NEW k \in InputsOf(a), j < k PROVE h[j] < h[k]
  <2>1. CASE k <= n
    <3>1. j <= n /\ j \in Nat /\ k \in Nat
      BY <1>7, <1>10, <2>1
    <3>2. j \in InputsOf(r) /\ k \in InputsOf(r) /\ h[j] = f[j] /\ h[k] = f[k]
      BY <1>7, <2>1, <3>1
    <3> QED
      BY <1>1, <1>10, <3>2
  <2>2. CASE j > n
    <3>1. k > n /\ j \in Nat /\ k \in Nat
      BY <1>7, <1>10, <2>2
    <3>2. /\ j - n \in InputsOf(p) /\ k - n \in InputsOf(p) /\ h[j] = m + g[j - n] /\ h[k] = m + g[k - n]
          /\ g[j - n] \in Nat /\ g[k - n] \in Nat
      BY <1>4, <1>7, <2>2, <3>1
    <3>3. j - n < k - n
      BY <1>10, <3>1
    <3>4. g[j - n] < g[k - n]
      BY <1>2, <3>2, <3>3
    <3> QED
      BY <3>2, <3>4
  <2>3. CASE j <= n /\ k > n
    <3>1. h[j] = f[j] /\ f[j] \in 1..m /\ h[k] = m + g[k - n] /\ g[k - n] \in Nat /\ g[k - n] > 0
      BY <1>4, <1>7, <2>3
    <3> QED
      BY <3>1
  <2>4. j \in Nat /\ k \in Nat
    BY <1>7
  <2> QED
    BY <2>1, <2>2, <2>3, <2>4
<1>11. Within(a, b)
  BY <1>8, <1>9, <1>10 DEF Within
<1> QED
  BY <1>3, <1>11

\* A packet that is passed on from one queue to the next stays where it is in the line.
LEMMA PassedOn ==
    \A x, a, b \in Seq(Upward) : b # <<>> => (x \o Append(a, Head(b))) \o Tail(b) = (x \o a) \o b
<1> SUFFICES ASSUME NEW x \in Seq(Upward), NEW a \in Seq(Upward), NEW b \in Seq(Upward), b # <<>>
             PROVE  (x \o Append(a, Head(b))) \o Tail(b) = (x \o a) \o b
  OBVIOUS
<1>1. Head(b) \in Upward /\ Tail(b) \in Seq(Upward) /\ <<Head(b)>> \in Seq(Upward)
  OBVIOUS
<1>2. PICK h \in Upward, t \in Seq(Upward), o \in Seq(Upward) :
         h = Head(b) /\ t = Tail(b) /\ o = <<Head(b)>>
  BY <1>1
<1>3. b = o \o t
  BY <1>2, HeadAndTail
<1>4. x \o a \in Seq(Upward) /\ o \in Seq(Upward)
  OBVIOUS
<1>5. Append(a, h) = a \o o
  BY <1>2
<1>6. (x \o a) \o o = x \o (a \o o)
  BY Associates
<1>7. ((x \o a) \o o) \o t = (x \o a) \o (o \o t)
  BY <1>4, Associates
<1> QED
  BY <1>2, <1>3, <1>5, <1>6, <1>7

\* The parts of a client's line.
LineTypes ==
    \A c \in Clients :
        /\ Said(c) \in Seq(Upward) /\ msgqueue[c] \in Seq(Upward) /\ toServer[c] \in Seq(Upward)
        /\ wire[c] \in Seq(Upward) /\ Buffered(c) \in Seq(Upward)

LEMMA LineIsTyped == TypeInv => LineTypes
<1> SUFFICES ASSUME TypeInv, NEW c \in Clients
             PROVE  /\ Said(c) \in Seq(Upward) /\ msgqueue[c] \in Seq(Upward)
                    /\ toServer[c] \in Seq(Upward)
                    /\ wire[c] \in Seq(Upward) /\ Buffered(c) \in Seq(Upward)
  BY DEF LineTypes
<1>1. messages \in Seq(Inputs)
  BY DEF TypeInv, OtherTypes
<1>2. ASSUME NEW k \in DOMAIN messages PROVE Said(c)[k] \in Upward
  <2>1. messages[k].times \in Times
    <3>1. messages[k] \in Inputs
      BY <1>1
    <3> QED
      BY <3>1 DEF Inputs
  <2>2. Packet("CLIENTINPUT", 0, messages[k].times) \in Upward /\ Plain("ACKBEAT") \in Upward
    BY <2>1, PacketTypes DEF UpTypes
  <2> QED
    BY <2>2 DEF Said
<1>3. Said(c) \in Seq(Upward)
  <2>1. PICK n \in Nat : n = Len(messages) /\ DOMAIN messages = 1..n
    BY <1>1
  <2>2. Said(c) \in [1..n -> Upward]
    BY <1>2, <2>1 DEF Said
  <2> QED
    BY <2>2, IsASequence
<1>4. /\ msgqueue[c] \in Seq(Upward) /\ toServer[c] \in Seq(Upward) /\ wire[c] \in Seq(Upward)
  BY DEF TypeInv, QueueTypes
<1>5. Buffered(c) \in Seq(Upward)
  <2>1. sendafterpoll[c] => buffer[c] \in Upward
    BY DEF TypeInv, NetTypes
  <2> QED
    BY <2>1 DEF Buffered
<1> QED
  BY <1>3, <1>4, <1>5

\* Parts of a line may lose packets, ...
LEMMA LineShrinks ==
    ASSUME TypeInv, TypeInv', NEW c \in Clients, Within(Said(c)', Said(c)),
           Within(msgqueue'[c], msgqueue[c]), Within(toServer'[c], toServer[c]),
           Within(wire'[c], wire[c]), Within(Buffered(c)', Buffered(c))
    PROVE  Within(Line(c)', Line(c))
<1>1. PICK a, b, d, e, f : /\ a = Said(c)' /\ b = msgqueue'[c] /\ d = toServer'[c]
                           /\ e = wire'[c] /\ f = Buffered(c)'
  OBVIOUS
<1>2. PICK p, q, r, s, t : /\ p = Said(c) /\ q = msgqueue[c] /\ r = toServer[c]
                           /\ s = wire[c] /\ t = Buffered(c)
  OBVIOUS
<1>3. /\ a \in Seq(Upward) /\ b \in Seq(Upward) /\ d \in Seq(Upward) /\ e \in Seq(Upward) /\ f \in Seq(Upward)
      /\ a \o b \in Seq(Upward) /\ (a \o b) \o d \in Seq(Upward) /\ ((a \o b) \o d) \o e \in Seq(Upward)
  <2>1. /\ Said(c)' \in Seq(Upward) /\ msgqueue'[c] \in Seq(Upward) /\ toServer'[c] \in Seq(Upward)
        /\ wire'[c] \in Seq(Upward) /\ Buffered(c)' \in Seq(Upward)
    <3>1. LineTypes'
      BY LineIsTyped, PTL
    <3> QED
      BY <3>1 DEF LineTypes
  <2> QED
    BY <1>1, <2>1
<1>4. /\ p \in Seq(Upward) /\ q \in Seq(Upward) /\ r \in Seq(Upward) /\ s \in Seq(Upward) /\ t \in Seq(Upward)
      /\ p \o q \in Seq(Upward) /\ (p \o q) \o r \in Seq(Upward) /\ ((p \o q) \o r) \o s \in Seq(Upward)
  <2>1. /\ Said(c) \in Seq(Upward) /\ msgqueue[c] \in Seq(Upward) /\ toServer[c] \in Seq(Upward)
        /\ wire[c] \in Seq(Upward) /\ Buffered(c) \in Seq(Upward)
    BY LineIsTyped DEF LineTypes
  <2> QED
    BY <1>2, <2>1
<1>5. Within(a, p) /\ Within(b, q) /\ Within(d, r) /\ Within(e, s) /\ Within(f, t)
  BY <1>1, <1>2
<1>6. Within(a \o b, p \o q)
  BY <1>3, <1>4, <1>5, WithinBoth
<1>7. Within((a \o b) \o d, (p \o q) \o r)
  BY <1>3, <1>4, <1>5, <1>6, WithinBoth
<1>8. Within(((a \o b) \o d) \o e, ((p \o q) \o r) \o s)
  BY <1>3, <1>4, <1>5, <1>7, WithinBoth
<1>9. Within((((a \o b) \o d) \o e) \o f, (((p \o q) \o r) \o s) \o t)
  BY <1>3, <1>4, <1>5, <1>8, WithinBoth
<1> QED
  BY <1>1, <1>2, <1>9 DEF Line

\* ... which leaves the rest in line.
LEMMA StaysInLine ==
    ASSUME NEW c \in Clients, InLine(c), Within(Line(c)', Line(c)), Applied(c)' = Applied(c),
           time'[c] = time[c]
    PROVE  InLine(c)'
<1>1. Rising(Line(c)) /\ Between(Line(c), Applied(c), time[c]) /\ Applied(c) <= time[c]
  BY DEF InLine
<1>2. Rising(Line(c)') /\ Between(Line(c)', Applied(c), time[c])
  BY <1>1, WithinKept
<1> QED
  BY <1>1, <1>2 DEF InLine

\* The server took nothing of c from the game thread's queue, and applied nothing.
Rests(c) == Said(c)' = Said(c) /\ Applied(c)' = Applied(c)

LEMMA ServerRests ==
    ASSUME NEW c \in Clients, UNCHANGED <<messages, lastupdate>>, player'[c] = player[c],
           thread'[c] \in Joined <=> thread[c] \in Joined
    PROVE  Rests(c)
  BY DEF Rests, Said, Applied

\* An input that is later than all others goes to the end of the line.
LEMMA LaterInput ==
    ASSUME NEW s \in Seq(Upward), NEW low \in Nat, NEW n \in Nat, low <= n,
           Rising(s), Between(s, low, n), NEW p, p = Packet("CLIENTINPUT", 0, <<n + 1, n + 2>>)
    PROVE  Rising(s \o <<p>>) /\ Between(s \o <<p>>, low, n + 2)
<1>1. PICK m \in Nat : m = Len(s)
  OBVIOUS
<1>2. p \in Upward /\ p.times[1] = n + 1 /\ p.times[2] = n + 2
  <2>1. <<n + 1, n + 2>> \in Times
    BY DEF Times
  <2> QED
    BY <2>1, PacketTypes DEF Packet
<1>3. PICK l : l = s \o <<p>>
  OBVIOUS
<1>4. /\ DOMAIN l = 1..(m + 1) /\ l[m + 1] = p
      /\ \A k \in 1..m : k \in DOMAIN s /\ l[k] = s[k]
  BY <1>1, <1>2, <1>3
<1>5. ASSUME NEW k \in DOMAIN s, IsInput(s[k])
      PROVE  /\ s[k].times[1] \in Nat /\ s[k].times[2] \in Nat
             /\ low < s[k].times[1] /\ s[k].times[1] < s[k].times[2] /\ s[k].times[2] <= n
  <2>1. s[k] \in Upward /\ s[k].type = "CLIENTINPUT"
    BY <1>5 DEF IsInput
  <2>2. s[k].times \in Nat \X Nat
    BY <2>1 DEF Upward, UpTypes, Times
  <2> QED
    BY <1>5, <2>2 DEF Between
<1>6. Rising(l)
  <2> SUFFICES ASSUME NEW j \in DOMAIN l, NEW k \in DOMAIN l, j < k, IsInput(l[j]), IsInput(l[k])
               PROVE  l[j].times[2] < l[k].times[1]
    BY DEF Rising
  <2>1. j \in 1..m
    BY <1>4
  <2>2. CASE k \in 1..m
    <3>1. j \in DOMAIN s /\ k \in DOMAIN s /\ l[j] = s[j] /\ l[k] = s[k]
      BY <1>4, <2>1, <2>2
    <3> QED
      BY <3>1 DEF Rising
  <2>3. CASE k = m + 1
    <3>1. j \in DOMAIN s /\ l[j] = s[j] /\ l[k] = p
      BY <1>4, <2>1, <2>3
    <3>2. l[j].times[2] \in Nat /\ l[j].times[2] <= n
      BY <1>5, <3>1
    <3> QED
      BY <1>2, <3>1, <3>2
  <2> QED
    BY <1>4, <2>2, <2>3
<1>7. Between(l, low, n + 2)
  <2> SUFFICES ASSUME NEW k \in DOMAIN l, IsInput(l[k])
               PROVE  low < l[k].times[1] /\ l[k].times[1] < l[k].times[2] /\ l[k].times[2] <= n + 2
    BY DEF Between
  <2>1. CASE k \in 1..m
    <3>1. k \in DOMAIN s /\ l[k] = s[k]
      BY <1>4, <2>1
    <3> QED
      BY <1>5, <3>1
  <2>2. CASE k = m + 1
    BY <1>2, <1>4, <2>2
  <2> QED
    BY <1>4, <2>1, <2>2
<1> QED
  BY <1>3, <1>6, <1>7

\* The rest of a line is as it was, and only the N64's own part of it changes.
LEMMA ProgramRests ==
    ASSUME NEW c \in Clients, UNCHANGED <<window, server>>
    PROVE  /\ Rests(c) /\ Said(c)' = Said(c) /\ Applied(c)' = Applied(c)
           /\ msgqueue'[c] = msgqueue[c] /\ toServer'[c] = toServer[c]
<1>1. UNCHANGED <<messages, lastupdate, player, thread, msgqueue, toServer>>
  BY DEF window, server, threads, room, game
<1>2. Rests(c)
  BY <1>1, ServerRests
<1> QED
  BY <1>1, <1>2 DEF Rests

\* What the program does with its inputs: a new one is later than any before it.
LEMMA ProgramInLine ==
    ASSUME TypeInv, TypeInv', NEW c \in Clients, Booted(c), InLine(c),
           N64(c) \/ Boot(c) \/ SendInputs(c) \/ LoseServer(c) \/ Retry(c)
    PROVE  InLine(c)'
<1>t. /\ DOMAIN buffer = Clients /\ DOMAIN sendafterpoll = Clients /\ DOMAIN polls = Clients
      /\ wire \in [Clients -> Seq(Upward)] /\ time \in [Clients -> Nat] /\ lastupdate \in [Slots -> Nat]
  BY DEF TypeInv, NetTypes, QueueTypes, ProgramTypes, OtherTypes
<1>u. UNCHANGED <<window, server>>
  BY DEF N64, EnterInit, InitStage, RequestClock, DoneSync, Callback, PollEnds, Boot, SendInputs, LoseServer, Retry
<1>r. /\ Said(c)' = Said(c) /\ Applied(c)' = Applied(c)
      /\ msgqueue'[c] = msgqueue[c] /\ toServer'[c] = toServer[c]
  BY <1>u, ProgramRests
<1>w. Within(Said(c)', Said(c)) /\ Within(msgqueue'[c], msgqueue[c]) /\ Within(toServer'[c], toServer[c])
  BY <1>r, WithinItself
<1>1. ASSUME wire'[c] = wire[c], time'[c] = time[c], Within(Buffered(c)', Buffered(c))
      PROVE  InLine(c)'
  <2>1. Within(wire'[c], wire[c])
    BY <1>1, WithinItself
  <2>2. Within(Line(c)', Line(c))
    BY <1>1, <1>w, <2>1, LineShrinks
  <2> QED
    BY <1>1, <1>r, <2>2, StaysInLine
<1>2. CASE EnterInit(c) \/ Retry(c) \/ RequestClock(c) \/ DoneSync(c)
  <2>1. PICK type \in {"CLIENTCONNECT", "CLOCKSYNC", "DONESYNC"} : Call(c, Plain(type))
    BY <1>2 DEF EnterInit, InitStage, Retry, RequestClock, DoneSync
  <2>2. Buffered(c)' = <<Plain(type)>> /\ wire'[c] = wire[c]
    BY <1>t, <2>1 DEF Call, SendToServer, TakeBuffer, Buffered
  <2>3. Within(Buffered(c)', Buffered(c))
    <3>1. \A k \in DOMAIN <<Plain(type)>> : ~IsInput(<<Plain(type)>>[k])
      BY DEF IsInput, Plain, Packet
    <3> QED
      BY <2>2, <3>1, WithinNothing
  <2>4. time'[c] = time[c]
    BY <1>2 DEF EnterInit, InitStage, Retry, RequestClock, DoneSync
  <2> QED
    BY <1>1, <2>2, <2>3, <2>4
<1>3. CASE Callback(c)
  <2>1. time'[c] = time[c] /\ \E answer \in {Plain("ACKBEAT"), NoPacket} : ReadPacket(c, answer)
    BY <1>3 DEF Callback
  <2>2. wire'[c] = wire[c]
    BY <2>1 DEF ReadPacket
  <2>3. Buffered(c)' = Buffered(c) \/ Buffered(c)' = <<Plain("ACKBEAT")>>
    BY <1>t, <2>1 DEF ReadPacket, TakeBuffer, Buffered
  <2>4. Within(Buffered(c)', Buffered(c))
    <3>1. \A k \in DOMAIN <<Plain("ACKBEAT")>> : ~IsInput(<<Plain("ACKBEAT")>>[k])
      BY DEF IsInput, Plain, Packet
    <3> QED
      BY <2>3, <3>1, WithinNothing, WithinItself
  <2> QED
    BY <1>1, <2>1, <2>2, <2>4
<1>4. CASE PollEnds(c)
  <2>1. time'[c] = time[c] /\ EndPoll(c)
    BY <1>4 DEF PollEnds
  <2>2. CASE ~sendafterpoll[c]
    <3>1. Buffered(c)' = Buffered(c) /\ wire'[c] = wire[c]
      BY <1>t, <2>1, <2>2 DEF EndPoll, Buffered
    <3> QED
      BY <1>1, <2>1, <3>1, WithinItself
  <2>3. CASE sendafterpoll[c]
    <3>1. Buffered(c) = <<buffer[c]>> /\ Buffered(c)' = <<>> /\ wire'[c] = Append(wire[c], buffer[c])
      BY <1>t, <2>1, <2>3 DEF EndPoll, Buffered
    <3>2. PICK x \in Seq(Upward), w \in Seq(Upward), b \in Seq(Upward) :
             x = (Said(c) \o msgqueue[c]) \o toServer[c] /\ w = wire[c] /\ b = Buffered(c)
      <4>1. Said(c) \in Seq(Upward) /\ msgqueue[c] \in Seq(Upward) /\ toServer[c] \in Seq(Upward)
            /\ wire[c] \in Seq(Upward) /\ Buffered(c) \in Seq(Upward)
        BY LineIsTyped DEF LineTypes
      <4>2. (Said(c) \o msgqueue[c]) \o toServer[c] \in Seq(Upward)
        BY <4>1
      <4> QED
        BY <4>1, <4>2
    <3>3. b # <<>> /\ Head(b) = buffer[c] /\ Tail(b) = <<>>
      BY <3>1, <3>2
    <3>4. (x \o Append(w, Head(b))) \o Tail(b) = (x \o w) \o b
      BY <3>3, PassedOn, Zenon
    <3>5. Line(c) = (x \o w) \o b
      BY <3>2 DEF Line
    <3>6. Line(c)' = (x \o Append(w, Head(b))) \o Tail(b)
      <4>1. (Said(c)' \o msgqueue'[c]) \o toServer'[c] = x
        BY <1>r, <3>2
      <4>2. wire'[c] = Append(w, Head(b)) /\ Buffered(c)' = Tail(b)
        BY <3>1, <3>2, <3>3
      <4> QED
        BY <4>1, <4>2 DEF Line
    <3>7. Within(Line(c)', Line(c))
      BY <3>4, <3>5, <3>6, WithinItself
    <3> QED
      BY <1>r, <2>1, <3>7, StaysInLine
  <2> QED
    BY <2>2, <2>3
<1>5. CASE Boot(c)
  <2>1. Buffered(c)' = <<>> /\ wire'[c] = wire[c] /\ time'[c] = time[c]
    BY <1>5, <1>t DEF Boot, NetLibStarts, Buffered
  <2>2. Within(Buffered(c)', Buffered(c))
    BY <2>1, WithinNothing
  <2> QED
    BY <1>1, <2>1, <2>2
<1>6. CASE LoseServer(c)
  <2>1. Buffered(c)' = Buffered(c) /\ wire'[c] = wire[c] /\ time'[c] = time[c]
    BY <1>6 DEF LoseServer, Retry, netlib, Buffered
  <2> QED
    BY <1>1, <2>1, WithinItself
<1>7. CASE SendInputs(c)
  <2>1. PICK n \in Nat : n = time[c]
    BY <1>t
  <2>2. PICK p : p = Packet("CLIENTINPUT", 0, <<n + 1, n + 2>>)
    OBVIOUS
  <2>3. Call(c, p) /\ time'[c] = n + 2 /\ polls[c] = 0
    BY <1>7, <1>t, <2>1, <2>2 DEF SendInputs, Call, SendToServer
  <2>4. Buffered(c) = <<>> /\ Buffered(c)' = <<p>> /\ wire'[c] = wire[c]
    BY <1>t, <2>3 DEF Call, SendToServer, TakeBuffer, Buffered, Booted
  <2>5. PICK l \in Seq(Upward) : l = ((Said(c) \o msgqueue[c]) \o toServer[c]) \o wire[c]
    <3>1. Said(c) \in Seq(Upward) /\ msgqueue[c] \in Seq(Upward) /\ toServer[c] \in Seq(Upward)
          /\ wire[c] \in Seq(Upward)
      BY LineIsTyped DEF LineTypes
    <3>2. Said(c) \o msgqueue[c] \in Seq(Upward)
      BY <3>1
    <3>3. (Said(c) \o msgqueue[c]) \o toServer[c] \in Seq(Upward)
      BY <3>1, <3>2
    <3>4. ((Said(c) \o msgqueue[c]) \o toServer[c]) \o wire[c] \in Seq(Upward)
      BY <3>1, <3>3
    <3> QED
      BY <3>4
  <2>6. Line(c) = l /\ Line(c)' = l \o <<p>>
    <3>1. Line(c) = l \o <<>>
      BY <2>4, <2>5 DEF Line
    <3>2. l \o <<>> = l
      OBVIOUS
    <3>3. ((Said(c)' \o msgqueue'[c]) \o toServer'[c]) \o wire'[c] = l
      BY <1>r, <2>4, <2>5
    <3>4. Line(c)' = l \o <<p>>
      BY <2>4, <3>3 DEF Line
    <3> QED
      BY <3>1, <3>2, <3>4
  <2>7. PICK a \in Nat : a = Applied(c)
    <3>1. player[c] \in Slots => lastupdate[player[c]] \in Nat
      BY <1>t
    <3> QED
      BY <3>1 DEF TypeInv, SlotsAreOwned, Applied, Joined
  <2>8. Rising(l) /\ Between(l, a, n) /\ a <= n
    BY <2>1, <2>6, <2>7 DEF InLine
  <2>9. Rising(l \o <<p>>) /\ Between(l \o <<p>>, a, n + 2)
    BY <2>2, <2>8, LaterInput
  <2> QED
    BY <1>r, <2>3, <2>6, <2>7, <2>8, <2>9 DEF InLine
<1> QED
  BY <1>2, <1>3, <1>4, <1>5, <1>6, <1>7 DEF N64

\* The window passes inputs on, or throws them away.
LEMMA WindowInLine ==
    ASSUME TypeInv, TypeInv', NEW c \in Clients, InLine(c),
           Interface(c) \/ DeviceThread(c) \/ UploadThread(c) \/ Unplug(c) \/ User(c) \/ RelayUp(c)
    PROVE  InLine(c)'
<1>t. /\ wire \in [Clients -> Seq(Upward)] /\ toServer \in [Clients -> Seq(Upward)]
      /\ msgqueue \in [Clients -> Seq(Upward)] /\ DOMAIN thread = Clients
  BY DEF TypeInv, QueueTypes, SlotTypes
<1>s. Said(c) \in Seq(Upward) /\ Buffered(c) \in Seq(Upward)
  BY LineIsTyped DEF LineTypes
<1>1. ASSUME Rests(c), time'[c] = time[c], Buffered(c)' = Buffered(c), msgqueue'[c] = msgqueue[c],
             toServer'[c] = toServer[c] \/ toServer'[c] = <<>>, wire'[c] = wire[c] \/ wire'[c] = <<>>
      PROVE  InLine(c)'
  <2>1. Within(toServer'[c], toServer[c]) /\ Within(wire'[c], wire[c])
    BY <1>1, WithinItself, WithinNothing
  <2>2. Within(Said(c)', Said(c)) /\ Within(msgqueue'[c], msgqueue[c]) /\ Within(Buffered(c)', Buffered(c))
    BY <1>1, WithinItself DEF Rests
  <2>3. Within(Line(c)', Line(c))
    BY <2>1, <2>2, LineShrinks
  <2> QED
    BY <1>1, <2>3, StaysInLine DEF Rests
<1>2. CASE UNCHANGED <<netlib, program, server>> /\ (toServer'[c] = toServer[c] \/ toServer'[c] = <<>>)
  <2>1. UNCHANGED <<messages, lastupdate, player, thread, msgqueue, wire, buffer, sendafterpoll, time>>
    BY <1>2 DEF netlib, program, server, threads, room, game
  <2>2. Rests(c)
    BY <2>1, ServerRests
  <2>3. Buffered(c)' = Buffered(c)
    BY <2>1 DEF Buffered
  <2> QED
    BY <1>1, <1>2, <2>1, <2>2, <2>3
<1>3. CASE Upload(c)
  <2>1. UNCHANGED <<messages, lastupdate, player, thread, msgqueue, toServer, buffer, sendafterpoll, time>>
    BY <1>3 DEF Upload, StartUpload, server, threads, room, game
  <2>2. wire'[c] = <<>>
    BY <1>3, <1>t DEF Upload
  <2>3. Rests(c)
    BY <2>1, ServerRests
  <2>4. Buffered(c)' = Buffered(c)
    BY <2>1 DEF Buffered
  <2> QED
    BY <1>1, <2>1, <2>2, <2>3, <2>4
<1>4. CASE ReceiveUSB(c) /\ UNCHANGED Others
  <2>1. UNCHANGED <<messages, lastupdate, player, thread, msgqueue, buffer, sendafterpoll, time>>
    BY <1>4 DEF ReceiveUSB, Others, program, server, threads, room, game
  <2>2. Rests(c) /\ Buffered(c)' = Buffered(c)
    BY <2>1, ServerRests DEF Buffered
  <2>3. /\ wire[c] # <<>> /\ wire'[c] = Tail(wire[c])
        /\ toServer'[c] = Append(toServer[c], Head(wire[c]))
    BY <1>4, <1>t DEF ReceiveUSB, Post
  <2>4. PICK x \in Seq(Upward), a \in Seq(Upward), b \in Seq(Upward) :
           x = Said(c) \o msgqueue[c] /\ a = toServer[c] /\ b = wire[c]
    <3>1. Said(c) \o msgqueue[c] \in Seq(Upward) /\ toServer[c] \in Seq(Upward) /\ wire[c] \in Seq(Upward)
      BY <1>s, <1>t
    <3> QED
      BY <3>1
  <2>5. (x \o Append(a, Head(b))) \o Tail(b) = (x \o a) \o b
    <3>1. b # <<>>
      BY <2>3, <2>4
    <3> QED
      BY <3>1, PassedOn, Zenon
  <2>6. Line(c) = ((x \o a) \o b) \o Buffered(c)
    BY <2>4 DEF Line
  <2>7. Line(c)' = ((x \o Append(a, Head(b))) \o Tail(b)) \o Buffered(c)
    <3>1. Said(c)' \o msgqueue'[c] = x
      BY <2>1, <2>2, <2>4 DEF Rests
    <3>2. toServer'[c] = Append(a, Head(b)) /\ wire'[c] = Tail(b)
      BY <2>3, <2>4
    <3> QED
      BY <2>2, <3>1, <3>2 DEF Line
  <2>8. Within(Line(c)', Line(c))
    BY <2>5, <2>6, <2>7, WithinItself
  <2> QED
    BY <2>1, <2>2, <2>8, StaysInLine DEF Rests
<1>5. CASE RelayUp(c)
  <2>1. UNCHANGED <<messages, lastupdate, player, wire, buffer, sendafterpoll, time>>
    BY <1>5 DEF RelayUp, netlib, program, room, game
  <2>2. thread'[c] = thread[c] \/ (thread[c] = "none" /\ thread'[c] = "unconnected")
    BY <1>5, <1>t DEF RelayUp
  <2>3. Rests(c) /\ Buffered(c)' = Buffered(c)
    <3>1. thread'[c] \in Joined <=> thread[c] \in Joined
      BY <2>2 DEF Joined
    <3> QED
      BY <2>1, <3>1, ServerRests DEF Buffered
  <2>4. /\ toServer[c] # <<>> /\ toServer'[c] = Tail(toServer[c])
        /\ msgqueue'[c] = Append(msgqueue[c], Head(toServer[c]))
    BY <1>5, <1>t DEF RelayUp, Post
  <2>5. PICK x \in Seq(Upward), a \in Seq(Upward), b \in Seq(Upward) :
           x = Said(c) /\ a = msgqueue[c] /\ b = toServer[c]
    BY <1>s, <1>t
  <2>6. (x \o Append(a, Head(b))) \o Tail(b) = (x \o a) \o b
    <3>1. b # <<>>
      BY <2>4, <2>5
    <3> QED
      BY <3>1, PassedOn, Zenon
  <2>7. Line(c) = (((x \o a) \o b) \o wire[c]) \o Buffered(c)
    BY <2>5 DEF Line
  <2>8. Line(c)' = (((x \o Append(a, Head(b))) \o Tail(b)) \o wire[c]) \o Buffered(c)
    <3>1. Said(c)' = x /\ msgqueue'[c] = Append(a, Head(b)) /\ toServer'[c] = Tail(b)
      BY <2>3, <2>4, <2>5 DEF Rests
    <3> QED
      BY <2>1, <2>3, <3>1 DEF Line
  <2>9. Within(Line(c)', Line(c))
    BY <2>6, <2>7, <2>8, WithinItself
  <2> QED
    BY <2>1, <2>3, <2>9, StaysInLine DEF Rests
<1>6. CASE Interface(c) \/ UploadThread(c) \/ Unplug(c) \/ User(c)
  <2>1. UNCHANGED <<netlib, Others>>
    BY <1>6 DEF Interface, UploadThread, Unplug, User
  <2>2. toServer' = toServer \/ toServer' = [toServer EXCEPT ![c] = <<>>]
    BY <1>6 DEF Interface, UploadThread, Unplug, User, BeginWorking, ThreadEvent, RelayStops,
           SendROM, UploadEnds, LoseCart, Click, Close
  <2>3. toServer'[c] = toServer[c] \/ toServer'[c] = <<>>
    BY <1>t, <2>2
  <2> QED
    BY <1>2, <2>1, <2>3 DEF Others
<1>7. CASE /\ FindCart(c) \/ LeaveLoop(c) \/ DeviceEnds(c) \/ UploadOver(c)
              \/ InterruptUpload(c) \/ JoinUpload(c) \/ HandleMainInput(c)
           /\ UNCHANGED <<netlib, Others>>
  <2>1. toServer' = toServer
    BY <1>7 DEF FindCart, LeaveLoop, DeviceEnds, UploadOver, InterruptUpload, JoinUpload, HandleMainInput
  <2> QED
    BY <1>2, <1>7, <2>1 DEF Others
<1>8. CASE SendUSB(c) /\ UNCHANGED Others
  <2>1. UNCHANGED <<messages, lastupdate, player, thread, msgqueue, toServer, wire, buffer, sendafterpoll, time>>
    BY <1>8 DEF SendUSB, Others, program, server, threads, room, game
  <2>2. Rests(c) /\ Buffered(c)' = Buffered(c)
    BY <2>1, ServerRests DEF Buffered
  <2> QED
    BY <1>1, <2>1, <2>2
<1> QED
  BY <1>3, <1>4, <1>5, <1>6, <1>7, <1>8 DEF DeviceThread

\* Where packets stay in order the thread takes the first of its queue.
LEMMA FirstIsTaken ==
    ASSUME TypeInv, env.ordered, NEW c \in Clients, NEW k \in Places(c)
    PROVE  /\ msgqueue[c] # <<>> /\ k = 1 /\ msgqueue[c][k] = Head(msgqueue[c])
           /\ Without(msgqueue[c], k) = Tail(msgqueue[c])
           /\ [msgqueue EXCEPT ![c] = Without(@, k)][c] = Tail(msgqueue[c])
<1>1. PICK q \in Seq(Upward) : q = msgqueue[c]
  BY DEF TypeInv, QueueTypes
<1>2. k = 1 /\ 1 \in 1..Len(q)
  BY <1>1 DEF Places
<1>3. q # <<>> /\ q[1] = Head(q) /\ SubSeq(q, 1, 0) = <<>> /\ SubSeq(q, 2, Len(q)) = Tail(q)
  BY <1>1, <1>2
<1>4. Without(q, 1) = Tail(q)
  <2>1. SubSeq(q, 1, 1 - 1) = <<>> /\ SubSeq(q, 1 + 1, Len(q)) = Tail(q) /\ Tail(q) \in Seq(Upward)
    BY <1>3
  <2>2. <<>> \o Tail(q) = Tail(q)
    BY <2>1
  <2> QED
    BY <2>1, <2>2 DEF Without
<1>5. DOMAIN msgqueue = Clients
  BY DEF TypeInv, QueueTypes
<1> QED
  BY <1>1, <1>2, <1>3, <1>4, <1>5

\* The thread of a client takes an input for the game thread, which stays in its place,
\* and one that gets a slot begins with an empty queue there.
LEMMA ServerInLine ==
    ASSUME TypeInv, TypeInv', env.ordered, NobodyLeft, NEW c \in Clients, InLine(c),
           ServerThread(c) \/ SendHeartbeat(c)
    PROVE  InLine(c)'
<1>t. /\ msgqueue \in [Clients -> Seq(Upward)] /\ msgqueue[c] \in Seq(Upward)
      /\ DOMAIN thread = Clients /\ DOMAIN player = Clients
      /\ messages \in Seq(Inputs) /\ lastupdate \in [Slots -> Nat] /\ DOMAIN slots = Slots
  BY DEF TypeInv, QueueTypes, SlotTypes, OtherTypes
<1>s. Said(c) \in Seq(Upward)
  BY LineIsTyped DEF LineTypes
<1>l. thread[c] # "leaving"
  BY DEF NobodyLeft
<1>u. /\ UNCHANGED <<netlib, program, toServer>>
      /\ time'[c] = time[c] /\ wire'[c] = wire[c] /\ toServer'[c] = toServer[c]
      /\ Buffered(c)' = Buffered(c)
  <2>1. UNCHANGED <<netlib, program, toServer>>
    BY DEF ServerThread, HandleConnect, HandleSync, HandleDone, SetNumber, Introduce, HandleUnexpected,
           HandleNothing, HandleInput, SendMessages, DisconnectPlayer, SendHeartbeat, Send, window
  <2> QED
    BY <2>1 DEF netlib, program, Buffered
<1>1. ASSUME Within(Said(c)', Said(c)), Within(msgqueue'[c], msgqueue[c]) PROVE Within(Line(c)', Line(c))
  <2>1. Within(toServer'[c], toServer[c]) /\ Within(wire'[c], wire[c]) /\ Within(Buffered(c)', Buffered(c))
    BY <1>u, WithinItself
  <2> QED
    BY <1>1, <2>1, LineShrinks
<1>2. ASSUME Rests(c), Within(msgqueue'[c], msgqueue[c]) PROVE InLine(c)'
  <2>1. Within(Said(c)', Said(c))
    BY <1>2, WithinItself DEF Rests
  <2>2. Within(Line(c)', Line(c))
    BY <1>1, <1>2, <2>1
  <2> QED
    BY <1>2, <1>u, <2>2, StaysInLine DEF Rests
<1>3. \A k \in Places(c) :
         /\ msgqueue[c] # <<>> /\ msgqueue[c][k] = Head(msgqueue[c])
         /\ msgqueue' = [msgqueue EXCEPT ![c] = Without(@, k)] =>
               msgqueue'[c] = Tail(msgqueue[c]) /\ Within(msgqueue'[c], msgqueue[c])
  <2> TAKE k \in Places(c)
  <2>1. /\ msgqueue[c] # <<>> /\ k = 1 /\ msgqueue[c][k] = Head(msgqueue[c])
        /\ [msgqueue EXCEPT ![c] = Without(@, k)][c] = Tail(msgqueue[c])
    BY FirstIsTaken
  <2>2. Within(Tail(msgqueue[c]), msgqueue[c])
    BY <1>t, <2>1, WithinTail
  <2> QED
    BY <2>1, <2>2
<1>4. CASE HandleConnect(c) \/ HandleSync(c)
  <2>1. UNCHANGED <<messages, lastupdate, player>>
    BY <1>4 DEF HandleConnect, HandleSync, game, room
  <2>2. Within(msgqueue'[c], msgqueue[c])
    BY <1>3, <1>4 DEF HandleConnect, HandleSync, Takes
  <2>3. thread'[c] = thread[c] \/ (thread[c] = "unconnected" /\ thread'[c] = "connecting")
    BY <1>4, <1>t DEF HandleConnect, HandleSync
  <2>4. Rests(c)
    BY <2>1, <2>3, ServerRests DEF Joined
  <2> QED
    BY <1>2, <2>2, <2>4
<1>5. CASE HandleDone(c)
  <2>1. UNCHANGED messages /\ Within(msgqueue'[c], msgqueue[c]) /\ thread[c] = "connecting"
    BY <1>3, <1>5 DEF HandleDone, Takes, game
  <2>2. CASE UNCHANGED <<room, thread, player>>
    <3>1. Rests(c)
      BY <2>1, <2>2, ServerRests DEF room
    <3> QED
      BY <1>2, <2>1, <3>1
  <2>3. ASSUME NEW i \in Slots, slots[i] = NoOne, lastupdate' = [lastupdate EXCEPT ![i] = 0],
               player' = [player EXCEPT ![c] = i], thread' = [thread EXCEPT ![c] = "taking"]
        PROVE  InLine(c)'
    <3>1. player'[c] = i /\ thread'[c] = "taking" /\ lastupdate'[i] = 0
      BY <1>t, <2>3
    <3>2. Applied(c)' = 0 /\ Applied(c) = 0
      BY <2>1, <3>1 DEF Applied, Joined
    <3>3. ASSUME NEW k \in DOMAIN Said(c)' PROVE ~IsInput(Said(c)'[k])
      <4>1. k \in DOMAIN messages /\ messages' = messages
        BY <2>1 DEF Said
      <4>2. messages[k].sender # i
        BY <2>3, <4>1 DEF NobodyLeft
      <4> QED
        BY <3>1, <4>1, <4>2 DEF Said, IsInput, Plain, Packet
    <3>4. Within(Said(c)', Said(c))
      BY <3>3, WithinNothing
    <3>5. Within(Line(c)', Line(c))
      BY <1>1, <2>1, <3>4
    <3> QED
      BY <1>u, <3>2, <3>5, StaysInLine
  <2> QED
    BY <1>5, <2>2, <2>3 DEF HandleDone, room
<1>12. CASE SetNumber(c)
  <2>1. /\ UNCHANGED <<messages, lastupdate, player, msgqueue>>
        /\ thread[c] = "taking" /\ thread'[c] = "joining"
    BY <1>12, <1>t DEF SetNumber, room, game
  <2>2. Rests(c)
    BY <2>1, ServerRests DEF Joined
  <2> QED
    BY <1>2, <2>1, <2>2, WithinItself
<1>6. CASE Introduce(c)
  <2>1. /\ UNCHANGED <<messages, lastupdate, player, msgqueue>>
        /\ thread[c] = "joining" /\ thread'[c] = "connected"
    BY <1>6, <1>t DEF Introduce, game, room
  <2>2. Rests(c)
    BY <2>1, ServerRests DEF Joined
  <2> QED
    BY <1>2, <2>1, <2>2, WithinItself
<1>7. CASE HandleUnexpected(c)
  <2>1. /\ UNCHANGED <<messages, lastupdate, player>> /\ msgqueue'[c] = <<>>
        /\ thread[c] \in {"unconnected", "connecting"} /\ thread'[c] = "none"
    BY <1>7, <1>t DEF HandleUnexpected, game, room
  <2>2. Rests(c)
    BY <2>1, ServerRests DEF Joined
  <2>3. Within(msgqueue'[c], msgqueue[c])
    BY <2>1, WithinNothing
  <2> QED
    BY <1>2, <2>2, <2>3
<1>8. CASE HandleNothing(c)
  <2>1. /\ UNCHANGED <<messages, lastupdate, player, thread>>
        /\ Within(msgqueue'[c], msgqueue[c])
    BY <1>8, <1>3 DEF HandleNothing, game, room
  <2>2. Rests(c)
    BY <2>1, ServerRests
  <2> QED
    BY <1>2, <2>1, <2>2
<1>9. CASE SendMessages(c) \/ SendHeartbeat(c)
  <2>1. UNCHANGED <<messages, lastupdate, player, thread, msgqueue>>
    BY <1>9 DEF SendMessages, SendHeartbeat, game, room, threads
  <2>2. Rests(c)
    BY <2>1, ServerRests
  <2> QED
    BY <1>2, <2>1, <2>2, WithinItself
<1>10. CASE HandleInput(c)
  <2>1. PICK k \in Places(c) :
           /\ msgqueue[c][k].type = "CLIENTINPUT"
           /\ messages' = Append(messages, [sender |-> player[c], times |-> msgqueue[c][k].times])
           /\ msgqueue' = [msgqueue EXCEPT ![c] = Without(@, k)]
    BY <1>10 DEF HandleInput
  <2>2. PICK p : p = Head(msgqueue[c])
    OBVIOUS
  <2>3. /\ msgqueue[c] # <<>> /\ p \in Upward /\ p.type = "CLIENTINPUT"
        /\ messages' = Append(messages, [sender |-> player[c], times |-> p.times])
        /\ msgqueue'[c] = Tail(msgqueue[c])
    <3>1. msgqueue[c] # <<>> /\ msgqueue[c][k] = p /\ msgqueue'[c] = Tail(msgqueue[c])
      BY <1>3, <2>1, <2>2
    <3>2. p \in Upward
      BY <1>t, <2>2, <3>1
    <3> QED
      BY <2>1, <3>1, <3>2
  <2>4. p = Packet("CLIENTINPUT", 0, p.times)
    BY <2>3 DEF Upward, UpTypes, Packet
  <2>5. /\ thread[c] = "connected" /\ UNCHANGED <<thread, player, lastupdate>>
    BY <1>10 DEF HandleInput, room
  <2>6. Applied(c)' = Applied(c)
    BY <2>5 DEF Applied
  <2>7. Said(c)' = Append(Said(c), p)
    <3>1. PICK m \in Inputs : m = [sender |-> player[c], times |-> p.times]
      <4>1. p.times \in Times
        BY <2>3 DEF Upward, UpTypes
      <4>2. player[c] \in Slots
        BY <2>5 DEF TypeInv, SlotsAreOwned
      <4> QED
        BY <4>1, <4>2 DEF Inputs
    <3>2. PICK n \in Nat : n = Len(messages) /\ DOMAIN messages = 1..n
      BY <1>t
    <3>3. /\ messages' = Append(messages, m) /\ DOMAIN messages' = 1..(n + 1)
          /\ messages'[n + 1] = m /\ \A j \in 1..n : messages'[j] = messages[j]
      BY <1>t, <2>3, <3>1, <3>2
    <3>4. Said(c)' \in Seq(Upward) /\ Append(Said(c), p) \in Seq(Upward)
      <4>1. LineTypes'
        BY LineIsTyped, PTL
      <4> QED
        BY <1>s, <2>3, <4>1 DEF LineTypes
    <3>5. /\ DOMAIN Said(c)' = 1..(n + 1) /\ DOMAIN Said(c) = 1..n
          /\ Len(Said(c)') = n + 1 /\ Len(Said(c)) = n
      <4>1. DOMAIN Said(c)' = 1..(n + 1) /\ DOMAIN Said(c) = 1..n
        BY <3>2, <3>3 DEF Said
      <4> QED
        BY <1>s, <3>2, <3>4, <4>1
    <3>6. PICK q \in Seq(Upward) : q = Said(c)
      BY <1>s
    <3>7. /\ Len(Append(q, p)) = n + 1 /\ Append(q, p)[n + 1] = p
          /\ \A j \in 1..n : Append(q, p)[j] = q[j]
      BY <2>3, <3>5, <3>6
    <3>8. ASSUME NEW j \in 1..(n + 1) PROVE Said(c)'[j] = Append(q, p)[j]
      <4>1. CASE j = n + 1
        <5>1. Said(c)'[j] = Packet("CLIENTINPUT", 0, p.times)
          BY <2>5, <3>1, <3>3, <4>1 DEF Said, Joined
        <5> QED
          BY <2>4, <3>7, <4>1, <5>1
      <4>2. CASE j \in 1..n
        <5>1. Said(c)'[j] = Said(c)[j]
          BY <2>5, <3>2, <3>3, <4>2 DEF Said
        <5> QED
          BY <3>6, <3>7, <4>2, <5>1
      <4>3. j = n + 1 \/ j \in 1..n
        OBVIOUS
      <4> QED
        BY <4>1, <4>2, <4>3
    <3>9. Said(c)' = Append(q, p)
      BY <3>4, <3>5, <3>6, <3>7, <3>8, SameSequence
    <3> QED
      BY <3>6, <3>9
  <2>8. PICK x \in Seq(Upward), a \in Seq(Upward), b \in Seq(Upward) :
           x = <<>> /\ a = Said(c) /\ b = msgqueue[c]
    <3>1. <<>> \in Seq(Upward)
      OBVIOUS
    <3> QED
      BY <1>s, <1>t, <3>1
  <2>9. Append(a, Head(b)) \o Tail(b) = a \o b
    <3>1. b # <<>>
      BY <2>3, <2>8
    <3>2. (x \o Append(a, Head(b))) \o Tail(b) = (x \o a) \o b
      BY <3>1, PassedOn, Zenon
    <3>3. x \o a = a /\ x \o Append(a, Head(b)) = Append(a, Head(b))
      <4>1. Append(a, Head(b)) \in Seq(Upward)
        BY <3>1
      <4> QED
        BY <2>8, <4>1
    <3> QED
      BY <3>2, <3>3
  <2>10. Line(c) = (((a \o b) \o toServer[c]) \o wire[c]) \o Buffered(c)
    BY <2>8 DEF Line
  <2>11. Line(c)' = (((Append(a, Head(b)) \o Tail(b)) \o toServer[c]) \o wire[c]) \o Buffered(c)
    <3>1. Said(c)' = Append(a, Head(b)) /\ msgqueue'[c] = Tail(b)
      BY <2>2, <2>3, <2>7, <2>8
    <3> QED
      BY <1>u, <3>1 DEF Line
  <2>12. Within(Line(c)', Line(c))
    BY <2>9, <2>10, <2>11, WithinItself
  <2> QED
    BY <1>u, <2>6, <2>12, StaysInLine
<1>11. CASE DisconnectPlayer(c)
  BY <1>11, <1>l DEF DisconnectPlayer
<1> QED
  BY <1>4, <1>5, <1>6, <1>7, <1>8, <1>9, <1>10, <1>11, <1>12 DEF ServerThread

\* ... or other packets are in their places.
LEMMA WithinSame ==
    ASSUME NEW r, NEW s, \A k \in DOMAIN r : IsInput(r[k]) => k \in DOMAIN s /\ s[k] = r[k]
    PROVE  Within(r, s)
<1> DEFINE f == [k \in InputsOf(r) |-> k]
<1>1. f \in [InputsOf(r) -> DOMAIN s] /\ \A k \in InputsOf(r) : s[f[k]] = r[k]
  BY DEF InputsOf
<1> QED
  BY <1>1 DEF Within

\* What other threads do to the game thread's queue and to the players' times does not
\* concern a client's inputs.
LEMMA ElsewhereInLine ==
    ASSUME TypeInv, TypeInv', NEW c \in Clients, NEW d \in Clients, d # c, InLine(c),
           \/ N64(d) \/ Boot(d) \/ SendInputs(d) \/ LoseServer(d) \/ Retry(d)
           \/ Interface(d) \/ DeviceThread(d) \/ UploadThread(d) \/ RelayUp(d)
           \/ Unplug(d) \/ User(d)
           \/ ServerThread(d) \/ SendHeartbeat(d) \/ TimeOut(d)
    PROVE  InLine(c)'
<1>t. messages \in Seq(Inputs) /\ lastupdate \in [Slots -> Nat] /\ DOMAIN slots = Slots
  BY DEF TypeInv, SlotTypes, OtherTypes
<1>o. thread[c] \in Joined => player[c] \in Slots /\ slots[player[c]] = c
  BY DEF TypeInv, SlotsAreOwned, Joined
<1>u. /\ Unmoved(c) /\ Buffered(c)' = Buffered(c)
      /\ time'[c] = time[c] /\ wire'[c] = wire[c] /\ toServer'[c] = toServer[c]
      /\ msgqueue'[c] = msgqueue[c] /\ thread'[c] = thread[c] /\ player'[c] = player[c]
  <2>1. Unmoved(c)
    BY OnlyThere
  <2> QED
    BY <2>1 DEF Unmoved, Buffered
<1>1. ASSUME Within(Said(c)', Said(c)), Applied(c)' = Applied(c) PROVE InLine(c)'
  <2>1. /\ Within(msgqueue'[c], msgqueue[c]) /\ Within(toServer'[c], toServer[c])
        /\ Within(wire'[c], wire[c]) /\ Within(Buffered(c)', Buffered(c))
    BY <1>u, WithinItself
  <2>2. Within(Line(c)', Line(c))
    BY <1>1, <2>1, LineShrinks
  <2> QED
    BY <1>1, <1>u, <2>2, StaysInLine
<1>2. CASE UNCHANGED <<messages, lastupdate>>
  <2>1. Rests(c)
    BY <1>2, <1>u, ServerRests
  <2> QED
    BY <1>1, <2>1, WithinItself DEF Rests
<1>3. CASE HandleInput(d)
  <2>1. /\ thread[d] = "connected" /\ lastupdate' = lastupdate
        /\ \E x : messages' = Append(messages, [sender |-> player[d], times |-> x])
    BY <1>3 DEF HandleInput, room
  <2>2. PICK m : messages' = Append(messages, m) /\ m.sender = player[d]
    BY <2>1
  <2>3. Applied(c)' = Applied(c)
    BY <1>u, <2>1 DEF Applied
  <2>4. PICK n \in Nat : n = Len(messages) /\ DOMAIN messages = 1..n
    BY <1>t
  <2>5. DOMAIN messages' = 1..(n + 1) /\ messages'[n + 1] = m /\ \A j \in 1..n : messages'[j] = messages[j]
    BY <1>t, <2>2, <2>4
  <2>6. thread[c] \in Joined => m.sender # player[c]
    <3>1. player[d] \in Slots /\ slots[player[d]] = d
      BY <2>1 DEF TypeInv, SlotsAreOwned
    <3> QED
      BY <1>o, <2>2, <3>1
  <2>7. ASSUME NEW k \in DOMAIN Said(c)', IsInput(Said(c)'[k])
        PROVE  k \in DOMAIN Said(c) /\ Said(c)[k] = Said(c)'[k]
    <3>1. k \in 1..(n + 1)
      BY <2>5 DEF Said
    <3>2. CASE k = n + 1
      <4>1. Said(c)'[k] = Plain("ACKBEAT")
        BY <1>u, <2>5, <2>6, <3>2 DEF Said
      <4> QED
        BY <2>7, <4>1 DEF IsInput, Plain, Packet
    <3>3. CASE k \in 1..n
      BY <1>u, <2>4, <2>5, <3>3 DEF Said
    <3>4. k = n + 1 \/ k \in 1..n
      BY <3>1
    <3> QED
      BY <3>2, <3>3, <3>4
  <2>8. Within(Said(c)', Said(c))
    BY <2>7, WithinSame
  <2> QED
    BY <1>1, <2>3, <2>8
<1>4. CASE HandleDone(d)
  <2>1. messages' = messages
    BY <1>4 DEF HandleDone, game
  <2>2. \/ lastupdate' = lastupdate
        \/ \E i \in Slots : slots[i] = NoOne /\ lastupdate' = [lastupdate EXCEPT ![i] = 0]
    BY <1>4 DEF HandleDone, room
  <2>3. Said(c)' = Said(c)
    BY <1>u, <2>1 DEF Said
  <2>4. Applied(c)' = Applied(c)
    <3>1. thread[c] \in Joined => lastupdate'[player[c]] = lastupdate[player[c]]
      BY <1>o, <1>t, <2>2, RealtimeAssumption
    <3> QED
      BY <1>u, <3>1 DEF Applied
  <2> QED
    BY <1>1, <2>3, <2>4, WithinItself
<1>5. CASE N64(d) \/ Boot(d) \/ SendInputs(d) \/ LoseServer(d) \/ Retry(d)
  <2>1. UNCHANGED server
    BY <1>5 DEF N64, EnterInit, InitStage, RequestClock, DoneSync, Callback, PollEnds, Boot, SendInputs, LoseServer, Retry
  <2> QED
    BY <1>2, <2>1 DEF server, room, game
<1>6. CASE Interface(d) \/ DeviceThread(d) \/ UploadThread(d) \/ Unplug(d) \/ User(d) \/ RelayUp(d)
  <2>1. UNCHANGED <<messages, lastupdate>>
    BY <1>6 DEF Interface, DeviceThread, UploadThread, Unplug, User, RelayUp, Upload, Others,
           server, room, game
  <2> QED
    BY <1>2, <2>1
<1>7. CASE \/ HandleConnect(d) \/ HandleSync(d) \/ SetNumber(d) \/ Introduce(d) \/ HandleUnexpected(d) \/ HandleNothing(d)
           \/ SendMessages(d) \/ DisconnectPlayer(d) \/ SendHeartbeat(d) \/ TimeOut(d)
  <2>1. UNCHANGED <<messages, lastupdate>>
    BY <1>7 DEF HandleConnect, HandleSync, SetNumber, Introduce, HandleUnexpected, HandleNothing,
           SendMessages, DisconnectPlayer, SendHeartbeat, TimeOut, room, game
  <2> QED
    BY <1>2, <2>1
<1> QED
  BY <1>3, <1>4, <1>5, <1>6, <1>7 DEF ServerThread

\* An input at the head of the line is newer than the last that was applied.
LEMMA HeadIsNew ==
    ASSUME NEW s \in Seq(Upward), NEW low, NEW high \in Nat, s # <<>>, Rising(s), Between(s, low, high),
           IsInput(Head(s))
    PROVE  /\ low < Head(s).times[1] /\ Head(s).times[2] <= high
           /\ Rising(Tail(s)) /\ Between(Tail(s), Head(s).times[2], high)
<1>1. PICK h, t : h = Head(s) /\ t = Tail(s)
  OBVIOUS
<1>2. /\ h = s[1] /\ 1 \in DOMAIN s
      /\ \A k \in DOMAIN t : k \in Nat /\ k > 0 /\ k + 1 \in DOMAIN s /\ t[k] = s[k + 1]
  <2>1. /\ h = s[1] /\ 1 \in DOMAIN s /\ t \in Seq(Upward)
        /\ \A k \in DOMAIN t : k + 1 \in DOMAIN s /\ t[k] = s[k + 1]
    BY <1>1, TailFacts
  <2>2. \A k \in DOMAIN t : k \in Nat /\ k > 0
    BY <2>1
  <2> QED
    BY <2>1, <2>2
<1>3. IsInput(s[1])
  BY <1>1, <1>2
<1>4. low < h.times[1] /\ h.times[2] <= high
  BY <1>2, <1>3 DEF Between
<1>5. Rising(t)
  <2> SUFFICES ASSUME NEW j \in DOMAIN t, NEW k \in DOMAIN t, j < k, IsInput(t[j]), IsInput(t[k])
               PROVE  t[j].times[2] < t[k].times[1]
    BY DEF Rising
  <2>1. /\ j + 1 \in DOMAIN s /\ k + 1 \in DOMAIN s /\ j + 1 < k + 1
        /\ t[j] = s[j + 1] /\ t[k] = s[k + 1]
    BY <1>2
  <2> QED
    BY <2>1 DEF Rising
<1>6. Between(t, h.times[2], high)
  <2> SUFFICES ASSUME NEW k \in DOMAIN t, IsInput(t[k])
               PROVE  h.times[2] < t[k].times[1] /\ t[k].times[1] < t[k].times[2] /\ t[k].times[2] <= high
    BY DEF Between
  <2>1. k + 1 \in DOMAIN s /\ 1 < k + 1 /\ t[k] = s[k + 1]
    BY <1>2
  <2>2. s[1].times[2] < s[k + 1].times[1]
    BY <1>2, <1>3, <2>1 DEF Rising
  <2>3. s[k + 1].times[1] < s[k + 1].times[2] /\ s[k + 1].times[2] <= high
    BY <2>1 DEF Between
  <2> QED
    BY <1>2, <2>1, <2>2, <2>3
<1> QED
  BY <1>1, <1>4, <1>5, <1>6

\* The game thread applies the input at the head of the line.
LEMMA GameInLine ==
    ASSUME TypeInv, TypeInv', NEW c \in Clients, InLine(c), GameThread \/ UNCHANGED vars
    PROVE  InLine(c)'
<1>t. messages \in Seq(Inputs) /\ lastupdate \in [Slots -> Nat] /\ time \in [Clients -> Nat]
  BY DEF TypeInv, OtherTypes, ProgramTypes
<1>o. thread[c] \in Joined => player[c] \in Slots /\ slots[player[c]] = c /\ c # NoOne
  BY RealtimeAssumption DEF TypeInv, SlotsAreOwned, Joined
<1>u. /\ Unmoved(c) /\ Buffered(c)' = Buffered(c)
      /\ time'[c] = time[c] /\ wire'[c] = wire[c] /\ toServer'[c] = toServer[c]
      /\ msgqueue'[c] = msgqueue[c] /\ thread'[c] = thread[c] /\ player'[c] = player[c]
  <2>1. Unmoved(c)
    BY GameIsElsewhere
  <2> QED
    BY <2>1 DEF Unmoved, Buffered
<1>1. CASE UNCHANGED <<messages, lastupdate>>
  <2>1. Rests(c)
    BY <1>1, <1>u, ServerRests
  <2>2. Line(c)' = Line(c)
    BY <1>u, <2>1 DEF Line, Rests
  <2> QED
    BY <1>u, <2>1, <2>2, StaysInLine, WithinItself DEF Rests
<1>2. CASE DoUpdate
  <2>1. PICK p, i : p = Head(messages) /\ i = p.sender
    OBVIOUS
  <2>2. /\ messages # <<>> /\ messages' = Tail(messages)
        /\ lastupdate' = IF slots[i] = NoOne THEN lastupdate
                         ELSE [lastupdate EXCEPT ![i] = AfterInputs(@, p.times)]
    BY <1>2, <2>1 DEF DoUpdate
  <2>3. p \in Inputs /\ i \in Slots
    <3>1. p \in Inputs
      BY <1>t, <2>1, <2>2, TailFacts
    <3> QED
      BY <2>1, <3>1 DEF Inputs
  <2>4. PICK n \in Nat : n = Len(messages) /\ DOMAIN messages = 1..n /\ n > 0
    BY <1>t, <2>2
  <2>5. /\ messages' \in Seq(Inputs) /\ DOMAIN messages' = 1..(n - 1)
        /\ \A k \in 1..(n - 1) : k + 1 \in 1..n /\ messages'[k] = messages[k + 1]
    <3>1. Tail(messages) \in Seq(Inputs) /\ Len(Tail(messages)) = n - 1 /\ n - 1 \in Nat
      BY <1>t, <2>2, <2>4
    <3> QED
      BY <1>t, <2>2, <2>4, <3>1, TailFacts
  \* What is left in the queue, and the line, lose their heads.
  <2>6. PICK s, b, d, e, f : s = Said(c) /\ b = msgqueue[c] /\ d = toServer[c] /\ e = wire[c] /\ f = Buffered(c)
    OBVIOUS
  <2>7. /\ s \in Seq(Upward) /\ b \in Seq(Upward) /\ d \in Seq(Upward) /\ e \in Seq(Upward)
        /\ f \in Seq(Upward)
    <3>1. LineTypes
      BY LineIsTyped
    <3> QED
      BY <2>6, <3>1 DEF LineTypes
  <2>8. DOMAIN s = 1..n /\ Len(s) = n /\ s # <<>>
    <3>1. DOMAIN s = 1..n
      BY <2>4, <2>6 DEF Said
    <3> QED
      BY <2>4, <2>7, <3>1
  <2>9. Said(c)' = Tail(s)
    <3>1. Said(c)' \in Seq(Upward)
      <4>1. LineTypes'
        BY LineIsTyped, PTL
      <4> QED
        BY <4>1 DEF LineTypes
    <3>2. DOMAIN Said(c)' = 1..(n - 1)
      BY <2>5 DEF Said
    <3>3. Len(Said(c)') = n - 1
      BY <2>4, <3>1, <3>2
    <3>4. /\ Tail(s) \in Seq(Upward) /\ Len(Tail(s)) = n - 1 /\ DOMAIN Tail(s) = 1..(n - 1)
          /\ \A k \in DOMAIN Tail(s) : Tail(s)[k] = s[k + 1]
      <4>1. Tail(s) \in Seq(Upward) /\ Len(Tail(s)) = n - 1
        BY <2>7, <2>8
      <4> QED
        BY <2>7, <2>8, <4>1, TailFacts
    <3>5. ASSUME NEW k \in 1..(n - 1) PROVE Said(c)'[k] = Tail(s)[k]
      <4>1. Said(c)'[k] = Said(c)[k + 1]
        BY <1>u, <2>4, <2>5 DEF Said
      <4> QED
        BY <2>6, <3>4, <4>1
    <3> QED
      BY <3>1, <3>3, <3>4, <3>5, SameSequence
  <2>10. PICK l \in Seq(Upward) : l = Line(c)
    <3>1. s \o b \in Seq(Upward)
      BY <2>7
    <3>2. (s \o b) \o d \in Seq(Upward)
      BY <2>7, <3>1
    <3>3. ((s \o b) \o d) \o e \in Seq(Upward)
      BY <2>7, <3>2
    <3>4. (((s \o b) \o d) \o e) \o f \in Seq(Upward)
      BY <2>7, <3>3
    <3> QED
      BY <2>6, <3>4 DEF Line
  <2>11. /\ l = (((s \o b) \o d) \o e) \o f
         /\ Line(c)' = (((Tail(s) \o b) \o d) \o e) \o f
    BY <1>u, <2>6, <2>9, <2>10 DEF Line
  <2>12. l # <<>> /\ Head(l) = Head(s) /\ Line(c)' = Tail(l)
    <3>1. s \o b \in Seq(Upward) /\ Tail(s \o b) = Tail(s) \o b /\ Head(s \o b) = Head(s) /\ s \o b # <<>>
      BY <2>7, <2>8, TailOfBoth, SMTT(20)
    <3>2. PICK g \in Seq(Upward) : g = s \o b
      BY <3>1
    <3>3. g \o d \in Seq(Upward) /\ Tail(g \o d) = Tail(g) \o d /\ Head(g \o d) = Head(g) /\ g \o d # <<>>
      <4>1. g # <<>> /\ d \in Seq(Upward)
        BY <2>7, <3>1, <3>2
      <4>2. g \o d \in Seq(Upward)
        BY <4>1
      <4>3. Tail(g \o d) = Tail(g) \o d /\ Head(g \o d) = Head(g) /\ g \o d # <<>>
        BY <4>1, TailOfBoth
      <4> QED
        BY <4>2, <4>3
    <3>4. PICK h \in Seq(Upward) : h = g \o d
      BY <3>3
    <3>5. h \o e \in Seq(Upward) /\ Tail(h \o e) = Tail(h) \o e /\ Head(h \o e) = Head(h) /\ h \o e # <<>>
      <4>1. h # <<>> /\ e \in Seq(Upward)
        BY <2>7, <3>3, <3>4
      <4>2. h \o e \in Seq(Upward)
        BY <4>1
      <4>3. Tail(h \o e) = Tail(h) \o e /\ Head(h \o e) = Head(h) /\ h \o e # <<>>
        BY <4>1, TailOfBoth
      <4> QED
        BY <4>2, <4>3
    <3>6. PICK j \in Seq(Upward) : j = h \o e
      BY <3>5
    <3>7. Tail(j \o f) = Tail(j) \o f /\ Head(j \o f) = Head(j) /\ j \o f # <<>>
      BY <2>7, <3>5, <3>6, TailOfBoth
    <3> QED
      BY <2>11, <3>1, <3>2, <3>3, <3>4, <3>5, <3>6, <3>7
  <2>13. PICK a \in Nat, t \in Nat : a = Applied(c) /\ t = time[c]
    BY <1>o, <1>t DEF Applied
  <2>14. Rising(l) /\ Between(l, a, t) /\ a <= t
    BY <2>10, <2>13 DEF InLine
  <2>15. CASE thread[c] \in Joined /\ player[c] = i
    <3>1. Head(s) = Packet("CLIENTINPUT", 0, p.times)
      <4>1. Head(s) = s[1] /\ Head(messages) = messages[1] /\ 1 \in DOMAIN messages
        BY <1>t, <2>2, <2>7, <2>8, TailFacts
      <4> QED
        BY <2>1, <2>6, <2>15, <4>1 DEF Said
    <3>2. IsInput(Head(l)) /\ Head(l).times = p.times
      BY <2>12, <3>1 DEF IsInput, Packet
    <3>3. /\ a < p.times[1] /\ p.times[2] <= t
          /\ Rising(Tail(l)) /\ Between(Tail(l), p.times[2], t)
      BY <2>12, <2>14, <3>2, HeadIsNew
    <3>4. Applied(c)' = p.times[2]
      <4>1. lastupdate' = [lastupdate EXCEPT ![i] = AfterInputs(@, p.times)]
        BY <1>o, <2>2, <2>15
      <4>2. lastupdate'[i] = AfterInputs(a, p.times)
        BY <1>t, <2>3, <2>13, <2>15, <4>1 DEF Applied
      <4> QED
        BY <1>u, <2>15, <3>3, <4>2 DEF Applied, AfterInputs
    <3> QED
      BY <1>u, <2>12, <2>13, <3>3, <3>4 DEF InLine
  <2>16. CASE ~(thread[c] \in Joined /\ player[c] = i)
    <3>1. Applied(c)' = Applied(c)
      <4>1. thread[c] \in Joined => lastupdate'[player[c]] = lastupdate[player[c]]
        BY <1>t, <1>o, <2>2, <2>16
      <4> QED
        BY <1>u, <4>1 DEF Applied
    <3>2. Within(Line(c)', Line(c))
      <4>1. Within(Tail(l), l)
        BY <2>12, WithinTail
      <4> QED
        BY <2>10, <2>12, <4>1
    <3> QED
      BY <1>u, <3>1, <3>2, StaysInLine
  <2> QED
    BY <2>15, <2>16
<1>3. CASE SendUpdates \/ UNCHANGED vars
  BY <1>1, <1>3 DEF SendUpdates, vars, server, room, game
<1> QED
  BY <1>2, <1>3 DEF GameThread

\* Unless somebody stops acknowledging, nobody leaves.
LEMMA NobodyLeaves ==
    ASSUME TypeInv, [Next]_vars, NobodyLeft, used'["leave"] = 0
    PROVE  NobodyLeft'
<1>t. /\ messages \in Seq(Inputs) /\ DOMAIN thread = Clients
      /\ slots \in [Slots -> Clients \union {NoOne}] /\ used \in [Rare -> Nat] /\ NoOne \notin Clients
  BY RealtimeAssumption DEF TypeInv, SlotTypes, OtherTypes
<1>n. /\ \A c \in Clients : thread[c] # "leaving"
      /\ \A k \in DOMAIN messages : slots[messages[k].sender] # NoOne
  BY DEF NobodyLeft
<1>1. ASSUME messages' = messages \/ (messages # <<>> /\ messages' = Tail(messages)),
             slots' = slots, thread' = thread
      PROVE  NobodyLeft'
  <2>1. ASSUME NEW k \in DOMAIN messages' PROVE slots[messages'[k].sender] # NoOne
    <3>1. \/ k \in DOMAIN messages /\ messages'[k] = messages[k]
          \/ messages # <<>> /\ messages' = Tail(messages)
      BY <1>1
    <3> QED
      BY <1>1, <1>n, <1>t, <2>1, TailFacts
  <2> QED
    BY <1>1, <1>n, <2>1 DEF NobodyLeft
<1>2. ASSUME messages' = messages, slots' = slots \/ (\E i \in Slots, c \in Clients : slots' = [slots EXCEPT ![i] = c]),
             \A c \in Clients : thread'[c] = "leaving" => thread[c] = "leaving"
      PROVE  NobodyLeft'
  <2>1. ASSUME NEW k \in DOMAIN messages PROVE slots'[messages[k].sender] # NoOne
    <3>1. messages[k].sender \in Slots
      <4>1. messages[k] \in Inputs
        BY <1>t
      <4> QED
        BY <4>1 DEF Inputs
    <3> QED
      BY <1>2, <1>n, <1>t, <3>1
  <2> QED
    BY <1>2, <1>n, <2>1 DEF NobodyLeft
<1>3. CASE GameThread \/ UNCHANGED vars
  <2>1. /\ messages' = messages \/ (messages # <<>> /\ messages' = Tail(messages))
        /\ slots' = slots /\ thread' = thread
    BY <1>3 DEF GameThread, DoUpdate, SendUpdates, vars, server, room, threads, game
  <2> QED
    BY <1>1, <2>1
<1>4. ASSUME NEW d \in Clients,
             \/ N64(d) \/ Boot(d) \/ SendInputs(d) \/ LoseServer(d) \/ Retry(d)
             \/ Interface(d) \/ DeviceThread(d) \/ UploadThread(d) \/ Unplug(d) \/ User(d)
      PROVE  NobodyLeft'
  <2>1. UNCHANGED server
    BY <1>4 DEF N64, EnterInit, InitStage, RequestClock, DoneSync, Callback, PollEnds, Boot, SendInputs, LoseServer, Retry,
           Interface, DeviceThread, UploadThread, Unplug, User, Upload, Others
  <2> QED
    BY <1>1, <2>1 DEF server, room, threads, game
<1>5. ASSUME NEW d \in Clients, RelayUp(d) PROVE NobodyLeft'
  <2>1. /\ messages' = messages /\ slots' = slots
        /\ thread' = [thread EXCEPT ![d] = IF @ = "none" THEN "unconnected" ELSE @]
    BY <1>5 DEF RelayUp, room, game
  <2>2. \A c \in Clients : thread'[c] = "leaving" => thread[c] = "leaving"
    BY <1>t, <2>1
  <2> QED
    BY <1>2, <2>1, <2>2
<1>6. ASSUME NEW d \in Clients,
             \/ HandleConnect(d) \/ HandleSync(d) \/ HandleDone(d) \/ SetNumber(d)
             \/ Introduce(d) \/ HandleUnexpected(d) \/ HandleNothing(d) \/ SendMessages(d) \/ SendHeartbeat(d)
      PROVE  NobodyLeft'
  <2>1. messages' = messages
    BY <1>6 DEF HandleConnect, HandleSync, HandleDone, SetNumber, Introduce, HandleUnexpected, HandleNothing,
           SendMessages, SendHeartbeat, game
  <2>2. slots' = slots \/ \E i \in Slots, c \in Clients : slots' = [slots EXCEPT ![i] = c]
    BY <1>6 DEF HandleConnect, HandleSync, HandleDone, SetNumber, Introduce, HandleUnexpected, HandleNothing,
           SendMessages, SendHeartbeat, room
  <2>3. \/ thread' = thread
        \/ \E p \in {"connecting", "taking", "joining", "connected", "none"} : thread' = [thread EXCEPT ![d] = p]
    BY <1>6 DEF HandleConnect, HandleSync, HandleDone, SetNumber, Introduce, HandleUnexpected, HandleNothing,
           SendMessages, SendHeartbeat, threads
  <2>4. \A c \in Clients : thread'[c] = "leaving" => thread[c] = "leaving"
    BY <1>t, <2>3
  <2> QED
    BY <1>2, <2>1, <2>2, <2>4
<1>7. ASSUME NEW d \in Clients, HandleInput(d) PROVE NobodyLeft'
  <2>1. /\ thread[d] = "connected" /\ thread' = thread /\ slots' = slots
        /\ \E x : messages' = Append(messages, [sender |-> player[d], times |-> x])
    BY <1>7 DEF HandleInput, room
  <2>2. PICK m : messages' = Append(messages, m) /\ m.sender = player[d]
    BY <2>1
  <2>3. slots[m.sender] # NoOne
    <3>1. player[d] \in Slots /\ slots[player[d]] = d
      BY <2>1 DEF TypeInv, SlotsAreOwned
    <3> QED
      BY <1>t, <2>2, <3>1
  <2>4. ASSUME NEW k \in DOMAIN messages' PROVE slots[messages'[k].sender] # NoOne
    <3>1. \/ k \in DOMAIN messages /\ messages'[k] = messages[k]
          \/ messages'[k] = m
      BY <1>t, <2>2
    <3> QED
      BY <1>n, <2>3, <3>1
  <2> QED
    BY <1>n, <2>1, <2>4 DEF NobodyLeft
<1>8. ASSUME NEW d \in Clients, TimeOut(d) \/ DisconnectPlayer(d) PROVE NobodyLeft'
  <2>1. ~DisconnectPlayer(d)
    BY <1>n DEF DisconnectPlayer
  <2>2. used'["leave"] = used["leave"] + 1 /\ used["leave"] \in Nat
    BY <1>8, <1>t, <2>1 DEF TimeOut, Use, Rare
  <2> QED
    BY <2>2
<1> QED
  BY <1>3, <1>4, <1>5, <1>6, <1>7, <1>8 DEF Next, ServerThread

\* Nothing is in line at the start, and every step keeps the order.
LEMMA InputsBegin == Init => InputsInv
<1> SUFFICES ASSUME Init PROVE InputsInv
  OBVIOUS
<1>1. /\ messages = <<>> /\ \A c \in Clients : thread[c] = "none" /\ msgqueue[c] = <<>> /\ time[c] = 0
  BY DEF Init, ServerInit, ProgramInit
<1>2. \A c \in Clients : toServer[c] = <<>> /\ wire[c] = <<>> /\ ~sendafterpoll[c]
  BY DEF Init, NetLibInit, WindowInit, Started
<1>3. NobodyLeft
  BY <1>1 DEF NobodyLeft
<1>4. ASSUME NEW c \in Clients PROVE InLine(c)
  <2>1. Said(c) = <<>> /\ Buffered(c) = <<>>
    <3>1. DOMAIN Said(c) = {}
      BY <1>1 DEF Said
    <3> QED
      BY <1>1, <1>2, <3>1 DEF Said, Buffered
  <2>2. Line(c) = <<>>
    BY <1>1, <1>2, <2>1 DEF Line
  <2>3. Applied(c) = 0 /\ time[c] = 0
    BY <1>1 DEF Applied, Joined
  <2> QED
    BY <2>2, <2>3 DEF InLine, Rising, Between
<1> QED
  BY <1>3, <1>4 DEF InputsInv

LEMMA InputsKept ==
    ASSUME TypeInv, TypeInv', HandshakeInv, InputsInv, [Next]_vars
    PROVE  InputsInv'
<1> SUFFICES ASSUME env'.ordered, used'["leave"] = 0
             PROVE  NobodyLeft' /\ \A c \in Clients : InLine(c)'
  BY DEF InputsInv
<1>1. env.ordered /\ used["leave"] = 0
  BY RareCounted DEF Rare
<1>2. NobodyLeft /\ \A c \in Clients : InLine(c)
  BY <1>1 DEF InputsInv
<1>3. NobodyLeft'
  BY <1>2, NobodyLeaves
<1>4. ASSUME NEW c \in Clients PROVE InLine(c)'
  <2>1. InLine(c) /\ Booted(c)
    BY <1>2 DEF HandshakeInv
  <2>2. CASE GameThread \/ UNCHANGED vars
    BY <2>1, <2>2, GameInLine
  <2>3. ASSUME NEW d \in Clients,
               \/ N64(d) \/ Boot(d) \/ SendInputs(d) \/ LoseServer(d) \/ Retry(d)
               \/ Interface(d) \/ DeviceThread(d) \/ UploadThread(d) \/ RelayUp(d)
               \/ Unplug(d) \/ User(d)
               \/ ServerThread(d) \/ SendHeartbeat(d) \/ TimeOut(d)
        PROVE  InLine(c)'
    <3>1. CASE d # c
      BY <2>1, <2>3, <3>1, ElsewhereInLine
    <3>2. CASE d = c /\ TimeOut(c)
      <4>1. used'["leave"] = used["leave"] + 1
        BY <3>2 DEF TimeOut, Use, TypeInv, OtherTypes, Rare
      <4> QED
        BY <1>1, <4>1
    <3>3. CASE d = c /\ (ServerThread(c) \/ SendHeartbeat(c))
      BY <1>1, <1>2, <2>1, <3>3, ServerInLine
    <3>4. CASE d = c /\ (N64(c) \/ Boot(c) \/ SendInputs(c) \/ LoseServer(c) \/ Retry(c))
      BY <2>1, <3>4, ProgramInLine
    <3>5. CASE d = c /\ (Interface(c) \/ DeviceThread(c) \/ UploadThread(c) \/ Unplug(c) \/ User(c) \/ RelayUp(c))
      BY <2>1, <3>5, WindowInLine
    <3> QED
      BY <2>3, <3>1, <3>2, <3>3, <3>4, <3>5
  <2> QED
    BY <2>2, <2>3 DEF Next
<1> QED
  BY <1>3, <1>4

LEMMA InputsInvariant == Spec => []InputsInv
<1>1. TypeInv /\ TypeInv' /\ HandshakeInv /\ InputsInv /\ [Next]_vars => InputsInv'
  BY InputsKept
<1> QED
  BY <1>1, InputsBegin, TypeInvariant, HandshakeInvariant, PTL DEF Spec

\* Where packets stay in order and nobody leaves, what the server takes for the time of a
\* player's last input is a time at which its N64 made one (Game.java:123).
THEOREM UpdatesAreInputsTheorem == Spec => [](env.ordered /\ used["leave"] = 0 => UpdatesAreInputs)
<1>1. TypeInv /\ InputsInv => (env.ordered /\ used["leave"] = 0 => UpdatesAreInputs)
  <2> SUFFICES ASSUME TypeInv, InputsInv, env.ordered, used["leave"] = 0, NEW i \in Slots, slots[i] # NoOne
               PROVE  lastupdate[i] <= time[slots[i]]
    BY DEF UpdatesAreInputs
  <2>1. slots[i] \in Clients /\ player[slots[i]] = i /\ thread[slots[i]] \in Joined
    BY DEF TypeInv, SlotTypes, SlotsAreOwned, Joined
  <2>2. InLine(slots[i])
    BY <2>1 DEF InputsInv
  <2> QED
    BY <2>1, <2>2 DEF InLine, Applied
<1> QED
  BY <1>1, InputsInvariant, TypeInvariant, PTL
=============================================================================
