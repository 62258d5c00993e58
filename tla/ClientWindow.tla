---------------------------- MODULE ClientWindow ----------------------------
(***************************************************************************)
(* A window of the client application (clientwindow.cpp), one per client:  *)
(* its user interface, the device thread that owns the flashcart, the      *)
(* upload thread the device thread starts for a ROM, and the server        *)
(* connection thread, which talk through message queues and through events *)
(* to the interface.  The cart and the N64 behind it are those of NetLib.  *)
(*                                                                         *)
(* Left out: the console's text, data typed by the user (LOADDATA, a TODO  *)
(* in the source), threads that the system cannot create, and what the     *)
(* flashcart library does (external): finding a cart, sending a ROM and    *)
(* cancelling may each take any time, and sending may fail.                *)
(***************************************************************************)
EXTENDS NetLib

VARIABLES device,     \* device[c]: where the device thread is
          rompath,    \* rompath[c]: its path of the ROM to upload is set
          upload,     \* upload[c]: what became of the upload thread's transfer
          loaded,     \* loaded[c]: the cart has a whole ROM
          input,      \* input[c]: global_msgqueue_usbthread_input
          toN64,      \* toN64[c]: global_msgqueue_usbthread_pkt
          toServer,   \* toServer[c]: global_msgqueue_serverthread_pkt
          relay,      \* relay[c]: whether the server connection thread runs
          status,     \* status[c]: m_DeviceStatus, as the interface knows it
          events,     \* events[c]: statuses on their way to the interface
          closing,    \* closing[c]: the window is being closed
          asked,      \* history: LOADROM messages that were posted
          uploads     \* history: transfers that were started

window == <<device, rompath, upload, loaded, input, toN64, toServer, relay, status,
            events, closing, asked, uploads>>

WindowInit ==
    /\ device = [c \in Clients |-> "none"]
    /\ rompath = [c \in Clients |-> FALSE]
    /\ upload = [c \in Clients |-> "none"]
    /\ loaded = [c \in Clients |-> FALSE]
    /\ input = [c \in Clients |-> <<>>]
    /\ toN64 = [c \in Clients |-> <<>>]
    /\ toServer = [c \in Clients |-> <<>>]
    /\ relay = [c \in Clients |-> FALSE]
    /\ status = [c \in Clients |-> "DEAD"]
    /\ events = [c \in Clients |-> <<>>]
    /\ closing = [c \in Clients |-> FALSE]
    /\ asked = [c \in Clients |-> 0]
    /\ uploads = [c \in Clients |-> 0]

\* What the device thread tells the interface about itself.
Reported(c) ==
    CASE device[c] \in {"starting", "loop"}       -> "IDLE"
      [] device[c] \in {"upload", "joining"}      -> "UPLOADING"
      [] device[c] \in {"none", "dying", "dead"}  -> "DEAD"

Post(queue, c, m) == [queue EXCEPT ![c] = Append(@, m)]

-----------------------------------------------------------------------------
(* The user interface *)

\* LoadROM: the device thread is asked to upload.
LoadROM(c) ==
    /\ input' = Post(input, c, "LOADROM")
    /\ asked' = [asked EXCEPT ![c] = @ + 1]

\* A new device thread clears the packets for the N64, and is idle.
NewDeviceThread(c) ==
    /\ device' = [device EXCEPT ![c] = "starting"]
    /\ rompath' = [rompath EXCEPT ![c] = FALSE]
    /\ toN64' = [toN64 EXCEPT ![c] = <<>>]
    /\ events' = Post(events, c, "IDLE")

\* BeginWorking: both threads are started and the ROM is asked for.
BeginWorking(c) ==
    /\ device[c] = "none" /\ ~closing[c]
    /\ NewDeviceThread(c)
    /\ relay' = [relay EXCEPT ![c] = TRUE]
    /\ toServer' = [toServer EXCEPT ![c] = <<>>]
    /\ LoadROM(c)
    /\ UNCHANGED <<upload, loaded, status, closing, uploads>>

\* The status of the device thread arrives.
ThreadEvent(c) ==
    /\ events[c] # <<>> /\ ~closing[c]
    /\ status' = [status EXCEPT ![c] = Head(events[c])]
    /\ events' = [events EXCEPT ![c] = Tail(@)]
    /\ UNCHANGED <<device, rompath, upload, loaded, input, toN64, toServer, relay, closing,
                   asked, uploads>>

\* StartThread_Device: a thread that has ended is replaced.
StartThread(c) ==
    IF device[c] = "dead"
      THEN NewDeviceThread(c)
      ELSE UNCHANGED <<device, rompath, toN64, events>>

\* The button uploads the ROM again, or cancels, by the status that is shown.
Click(c) ==
    /\ device[c] # "none" /\ ~closing[c]
    /\ StartThread(c)
    /\ \/ /\ status[c] = "UPLOADING"
          /\ input' = Post(input, c, "CANCELLOAD")
          /\ UNCHANGED asked
       \/ /\ status[c] \in {"DEAD", "IDLE"}
          /\ LoadROM(c)
    /\ UNCHANGED <<upload, loaded, toServer, relay, status, closing, uploads>>

\* The window is closed: it stops the server connection thread, then the device
\* thread, and waits for both.
Close(c) ==
    /\ device[c] # "none" /\ ~closing[c]
    /\ closing' = [closing EXCEPT ![c] = TRUE]
    /\ UNCHANGED <<device, rompath, upload, loaded, input, toN64, toServer, relay, status,
                   events, asked, uploads>>

\* The server connection thread has been told to stop, and the device thread is
\* told only after that.
RelayStops(c) ==
    /\ closing[c] /\ relay[c]
    /\ relay' = [relay EXCEPT ![c] = FALSE]
    /\ UNCHANGED <<device, rompath, upload, loaded, input, toN64, toServer, status, events,
                   closing, asked, uploads>>

\* Mutant of TestDestroy: it is only looked at while a ROM is uploaded.
TestDestroyInUpload(c) == closing[c] /\ ~relay[c] /\ device[c] = "upload"

\* The device thread is told to stop.
TestDestroy(c) == closing[c] /\ ~relay[c]

-----------------------------------------------------------------------------
(* The device thread and the upload thread *)

\* The thread goes to place p, and says so if that changes its status.
Becomes(c, p, s) ==
    /\ device' = [device EXCEPT ![c] = p]
    /\ events' = Post(events, c, s)

\* A cart is found, opened and tested ...
FindCart(c) ==
    /\ device[c] = "starting"
    /\ device' = [device EXCEPT ![c] = "loop"]
    /\ UNCHANGED <<rompath, upload, loaded, input, toN64, toServer, relay, status, events,
                   closing, asked, uploads>>

\* ... or not, or it is closed later.
LoseCart(c) ==
    /\ device[c] \in {"starting", "loop"}
    /\ Becomes(c, "dying", "DEAD")
    /\ UNCHANGED <<rompath, upload, loaded, input, toN64, toServer, relay, status, closing,
                   asked, uploads>>

\* The loop ends: the thread was told to stop.
LeaveLoop(c) ==
    /\ device[c] = "loop" /\ TestDestroy(c)
    /\ Becomes(c, "dying", "DEAD")
    /\ UNCHANGED <<rompath, upload, loaded, input, toN64, toServer, relay, status, closing,
                   asked, uploads>>

\* The thread has ended.
DeviceEnds(c) ==
    /\ device[c] = "dying"
    /\ device' = [device EXCEPT ![c] = "dead"]
    /\ UNCHANGED <<rompath, upload, loaded, input, toN64, toServer, relay, status, events,
                   closing, asked, uploads>>

\* At the loop's head a path is set: the upload thread starts.
StartUpload(c) ==
    /\ device[c] = "loop" /\ rompath[c] /\ ~TestDestroy(c)
    /\ Becomes(c, "upload", "UPLOADING")
    /\ upload' = [upload EXCEPT ![c] = "sending"]
    /\ loaded' = [loaded EXCEPT ![c] = FALSE]
    /\ uploads' = [uploads EXCEPT ![c] = @ + 1]
    /\ UNCHANGED <<rompath, input, toN64, toServer, relay, status, closing, asked>>

\* The upload thread has sent the whole ROM, or was cancelled or failed.  That it did is
\* seen before it ends.
SendROM(c, result) ==
    /\ upload[c] = "sending"
    /\ upload' = [upload EXCEPT ![c] = result]
    /\ UNCHANGED <<device, rompath, loaded, input, toN64, toServer, relay, status, events,
                   closing, asked, uploads>>

\* It ends after a complete transfer too.
UploadEnds(c) ==
    /\ upload[c] = "complete"
    /\ upload' = [upload EXCEPT ![c] = "sent"]
    /\ UNCHANGED <<device, rompath, loaded, input, toN64, toServer, relay, status, events,
                   closing, asked, uploads>>

\* The upload thread is there.
Uploading == {"sending", "complete"}

\* Mutant of LeaveUpload: the path is still set afterwards.
KeepPath(c) ==
    /\ device' = [device EXCEPT ![c] = "joining"]
    /\ UNCHANGED rompath

\* The thread's loop around the upload is over: the path is forgotten, whatever was
\* read into it meanwhile, and the upload thread is waited for.
LeaveUpload(c) ==
    /\ device' = [device EXCEPT ![c] = "joining"]
    /\ rompath' = [rompath EXCEPT ![c] = FALSE]

\* The progress is complete, or the upload thread died ...
UploadOver(c) ==
    /\ device[c] = "upload" /\ upload[c] # "sending"
    /\ LeaveUpload(c)
    /\ UNCHANGED <<upload, loaded, input, toN64, toServer, relay, status, events, closing,
                   asked, uploads>>

Told(c, m) == \E i \in 1..Len(input[c]) : input[c][i] = m

\* ... or a message or a request to stop is seen: all that was posted is read.
InterruptUpload(c) ==
    /\ device[c] = "upload"
    /\ \/ /\ TestDestroy(c)
          /\ LeaveUpload(c)
          /\ UNCHANGED input
       \/ /\ ~TestDestroy(c) /\ Told(c, "CANCELLOAD")
          /\ LeaveUpload(c)
          /\ input' = [input EXCEPT ![c] = <<>>]
       \/ /\ ~TestDestroy(c) /\ input[c] # <<>> /\ ~Told(c, "CANCELLOAD")
          /\ rompath' = [rompath EXCEPT ![c] = TRUE]
          /\ input' = [input EXCEPT ![c] = <<>>]
          /\ UNCHANGED device
    /\ UNCHANGED <<upload, loaded, toN64, toServer, relay, status, events, closing, asked, uploads>>

\* Mutant of JoinUpload: the upload thread is told to stop but not waited for.
JoinUploadAtOnce(c) ==
    /\ device[c] = "joining"
    /\ Becomes(c, "loop", "IDLE")
    /\ loaded' = [loaded EXCEPT ![c] = upload[c] = "sent"]
    /\ UNCHANGED <<upload, rompath, input, toN64, toServer, relay, status, closing, asked, uploads>>

\* Mutant of JoinUpload: the interface is not told.
JoinUploadQuietly(c) ==
    /\ device[c] = "joining" /\ upload[c] \notin Uploading
    /\ device' = [device EXCEPT ![c] = "loop"]
    /\ loaded' = [loaded EXCEPT ![c] = upload[c] = "sent"]
    /\ upload' = [upload EXCEPT ![c] = "none"]
    /\ UNCHANGED <<rompath, input, toN64, toServer, relay, status, events, closing, asked, uploads>>

\* The upload thread has ended.
JoinUpload(c) ==
    /\ device[c] = "joining" /\ upload[c] \notin Uploading
    /\ Becomes(c, "loop", "IDLE")
    /\ loaded' = [loaded EXCEPT ![c] = upload[c] = "sent"]
    /\ upload' = [upload EXCEPT ![c] = "none"]
    /\ UNCHANGED <<rompath, input, toN64, toServer, relay, status, closing, asked, uploads>>

\* The loop itself, of which an iteration that is under way when the thread is told to
\* stop is taken to have ended before: a packet of the N64 is passed on ...
ReceiveUSB(c) ==
    /\ device[c] = "loop" /\ ~rompath[c] /\ ~TestDestroy(c)
    /\ wire[c] # <<>>
    /\ wire' = [wire EXCEPT ![c] = Tail(@)]
    /\ toServer' = Post(toServer, c, Head(wire[c]))
    /\ UNCHANGED <<device, rompath, upload, loaded, input, toN64, relay, status, events,
                   closing, asked, uploads, buffer, sendafterpoll, polls, usb, lost>>

\* ... or, if there is none, one for the N64 ...
SendUSB(c) ==
    /\ device[c] = "loop" /\ ~rompath[c] /\ ~TestDestroy(c)
    /\ wire[c] = <<>> /\ toN64[c] # <<>>
    /\ usb' = Post(usb, c, Head(toN64[c]))
    /\ toN64' = [toN64 EXCEPT ![c] = Tail(@)]
    /\ UNCHANGED <<device, rompath, upload, loaded, input, toServer, relay, status, events,
                   closing, asked, uploads, buffer, sendafterpoll, polls, wire, lost>>

\* ... and HandleMainInput reads what was posted; a cancellation means nothing here.
HandleMainInput(c) ==
    /\ device[c] = "loop" /\ ~rompath[c] /\ ~TestDestroy(c)
    /\ input[c] # <<>>
    /\ input' = [input EXCEPT ![c] = <<>>]
    /\ rompath' = [rompath EXCEPT ![c] = Told(c, "LOADROM")]
    /\ UNCHANGED <<device, upload, loaded, toN64, toServer, relay, status, events, closing,
                   asked, uploads>>
=============================================================================
