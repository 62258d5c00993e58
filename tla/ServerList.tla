----------------------------- MODULE ServerList -----------------------------
(***************************************************************************)
(* The browser's list of servers: the window with its list, the thread     *)
(* that asks the master server for the servers it knows and pings each of  *)
(* them (serverbrowser.cpp), the master server's thread that answers       *)
(* (ListServers), and the pings' answers of the game servers, over the     *)
(* registry of module MasterRegistry.                                      *)
(*                                                                         *)
(* A new thread has a new socket: what is on its way to an earlier one is  *)
(* never read, and what the master server still does for it is what module *)
(* MasterRegistry calls a packet of another client.  All packets are       *)
(* unreliable.  Datagrams of the browser are not repeated, and not         *)
(* reordered on their way to it.  Left out: packets that change nothing    *)
(* (DONELISTING), downloads (module RomDownload), what a row says.         *)
(***************************************************************************)
EXTENDS MasterRegistry

CONSTANT Clicks   \* Clicks[e]: how often buttons are pressed in environment e

ASSUME ServerListAssumption == Clicks \in [Environments -> Nat]

VARIABLES clicks,     \* what is left of Clicks
          finder,     \* the browser's ServerFinderThread
          wanted,     \* what the window does when the thread it waits for has ended
          posted,     \* requests for a list in the thread's message queue
          expected,   \* history: the servers there were when the thread began, and still
                      \* are; none once a packet of the thread, or to it, is lost
          lists,      \* LIST packets on their way to the master server
          lister,     \* the master server's thread for the browser
          toBrowser,  \* packets on their way to the browser
          pings,      \* pings[g]: DISCOVER packets on their way to g
          serversleft,  \* the servers that were pinged and have not answered
          events,     \* events with a server to add, on their way to the window
          rows        \* the servers the window shows

session == <<expected, lists, lister, toBrowser, pings, serversleft>>
window  == <<clicks, wanted, events, rows>>
browser == <<finder, posted, session, window>>
all     == <<vars, browser>>

\* The values at the beginning of every session of the thread.
NoLister == [pc |-> "none", todo |-> {}, ahead |-> NoOne, coming |-> FALSE]

ListInit ==
    /\ Init
    /\ clicks = Clicks[env]
    /\ finder = "none" /\ wanted = "nothing" /\ posted = 0
    /\ expected = {} /\ lists = 0 /\ lister = NoLister
    /\ toBrowser = <<>> /\ pings = [g \in Servers |-> 0] /\ serversleft = {}
    /\ events = <<>> /\ rows = {}

NewSession ==
    /\ expected' = Registered /\ lists' = 0 /\ lister' = NoLister
    /\ toBrowser' = <<>> /\ pings' = [g \in Servers |-> 0] /\ serversleft' = {}

-----------------------------------------------------------------------------
(* The window *)

\* A button can be pressed: the window is not waiting for the thread to end.
Press ==
    /\ clicks > 0 /\ finder # "stopping"
    /\ clicks' = clicks - 1

\* ConnectMaster, when the window opens and at the refresh button: the list is
\* cleared and the thread, if there is one, told to end; then a new one is
\* started, and asked for a list.
Refresh ==
    /\ Press
    /\ rows' = {}
    /\ IF finder = "running"
       THEN /\ finder' = "stopping" /\ wanted' = "list"
            /\ UNCHANGED <<posted, session>>
       ELSE /\ finder' = "running" /\ posted' = posted + 1
            /\ NewSession /\ UNCHANGED wanted
    /\ UNCHANGED <<events, vars>>

\* CreateClient: the user joins a server, and the thread is told to end.
Join ==
    /\ Press /\ finder = "running"
    /\ finder' = "stopping" /\ wanted' = "nothing"
    /\ UNCHANGED <<posted, session, events, rows, vars>>

\* Mutant of FinderEnds: the request is posted before the thread is replaced, which takes it.
FinderTakesRequest ==
    /\ finder = "stopping"
    /\ finder' = IF wanted = "list" THEN "running" ELSE "none"
    /\ wanted' = "nothing" /\ posted' = 0
    /\ NewSession
    /\ UNCHANGED <<clicks, events, rows, vars>>

\* The thread sees that it is to end, and does; the window, which waited for it, goes on.
FinderEnds ==
    /\ finder = "stopping"
    /\ finder' = IF wanted = "list" THEN "running" ELSE "none"
    /\ posted' = IF wanted = "list" THEN posted + 1 ELSE posted
    /\ wanted' = "nothing"
    /\ NewSession
    /\ UNCHANGED <<clicks, events, rows, vars>>

\* The window, when it is not waiting for the thread, adds a row.
ThreadEvent ==
    /\ finder # "stopping" /\ events # <<>>
    /\ rows' = rows \union {Head(events)} /\ events' = Tail(events)
    /\ UNCHANGED <<clicks, finder, wanted, posted, session, vars>>

-----------------------------------------------------------------------------
(* The finder thread, until it ends *)

\* HandleMainInput: the master server is asked.
HandleMainInput ==
    /\ finder # "none" /\ posted > 0
    /\ lists' = lists + posted
    /\ posted' = 0
    /\ UNCHANGED <<finder, expected, lister, toBrowser, pings, serversleft, window, vars>>

\* A server of the master's list is pinged.
ParsePacket_Server(g) ==
    /\ serversleft' = serversleft \union {g}
    /\ pings' = [pings EXCEPT ![g] = @ + 1]
    /\ UNCHANGED events

\* A server has answered; it counts only if it was pinged, and once.
DiscoveredServer(g) ==
    /\ serversleft' = serversleft \ {g}
    /\ events' = IF g \in serversleft THEN Append(events, g) ELSE events
    /\ UNCHANGED pings

\* The loop reads a packet.
ReadPacket_Finder ==
    /\ finder # "none" /\ toBrowser # <<>>
    /\ toBrowser' = Tail(toBrowser)
    /\ \/ Head(toBrowser).type = "SERVER" /\ ParsePacket_Server(Head(toBrowser).server)
       \/ Head(toBrowser).type = "DISCOVER" /\ DiscoveredServer(Head(toBrowser).server)
    /\ UNCHANGED <<finder, posted, expected, lists, lister, clicks, wanted, rows, vars>>

-----------------------------------------------------------------------------
(* The master server, and the game servers *)

\* A LIST packet arrives, and the sweep of the server table begins.
ReceiveList ==
    /\ up /\ main.pc = "receive" /\ lists > 0
    /\ lists' = lists - 1
    /\ main' = [Waiting EXCEPT !.pc = "sweep", !.todo = Registered]
    /\ lister' = [lister EXCEPT !.coming = TRUE]
    /\ UNCHANGED <<gameserver, network, up, thread, servertable, world, history,
                   finder, posted, expected, toBrowser, pings, serversleft, window>>

\* Mutant of Swept: the thread is given the packet before the sweep.
SweptOrNot == main.pc = "sweep"

\* The sweep before the packet is handed over is done.
Swept == main.pc = "sweep" /\ main.todo = {}

\* The main loop goes back to its socket: the packet has got to a new thread for the
\* browser, or to the one that is still alive, which dies with it in its queue.
DispatchList ==
    /\ lister.coming /\ Swept
    /\ main' = Waiting
    /\ lister' = IF lister.pc = "none" THEN [NoLister EXCEPT !.pc = "listing", !.todo = Servers]
                 ELSE [lister EXCEPT !.coming = FALSE]
    /\ UNCHANGED <<gameserver, network, up, thread, servertable, world, history, expected,
                   lists, toBrowser, pings, serversleft, finder, posted, window>>

\* ListServers: the iteration of the table is one entry ahead of the packet it sends.
\* It does not mind entries that come and go behind its back.
ListServers ==
    /\ lister.pc = "listing"
    /\ toBrowser' = IF lister.ahead = NoOne THEN toBrowser
                    ELSE Append(toBrowser, [type |-> "SERVER", server |-> lister.ahead])
    /\ \/ \E g \in lister.todo :
             lister' = [lister EXCEPT !.todo = @ \ {g},
                                      !.ahead = IF servertable[g] # NoEntry THEN g ELSE NoOne]
       \/ /\ lister.todo = {}
          /\ lister' = [lister EXCEPT !.pc = "leaving", !.ahead = NoOne]
    /\ UNCHANGED <<expected, lists, pings, serversleft, finder, posted, window, vars>>

\* The thread has left its loop and dies.
ListerEnds ==
    /\ lister.pc = "leaving"
    /\ lister' = [lister EXCEPT !.pc = "none"]
    /\ UNCHANGED <<expected, lists, toBrowser, pings, serversleft, finder, posted, window, vars>>

\* A game server's thread answers a ping and dies, with others in its queue.
Discover(g) ==
    /\ \E k \in 1..pings[g] : pings' = [pings EXCEPT ![g] = @ - k]
    /\ toBrowser' = Append(toBrowser, [type |-> "DISCOVER", server |-> g])
    /\ UNCHANGED <<expected, lists, lister, serversleft, finder, posted, window, vars>>

-----------------------------------------------------------------------------
(* The environment *)

\* A packet of the browser, or to it, is lost.
LoseList ==
    /\ \/ /\ lists > 0 /\ lists' = lists - 1
          /\ UNCHANGED <<toBrowser, pings>>
       \/ /\ \E i \in DOMAIN toBrowser : toBrowser' = RemoveAt(toBrowser, i)
          /\ UNCHANGED <<lists, pings>>
       \/ /\ \E g \in Servers : pings[g] > 0 /\ pings' = [pings EXCEPT ![g] = @ - 1]
          /\ UNCHANGED <<lists, toBrowser>>
    /\ IF ~up /\ lists' # lists THEN env' = env
       ELSE env.losses > 0 /\ env' = [env EXCEPT !.losses = @ - 1]
    /\ expected' = {}
    /\ UNCHANGED <<gameserver, network, master, clock, booted, history,
                   lister, serversleft, finder, posted, window>>

\* The browser has nothing on its way, and the master server is not busy with it.
ListSettled ==
    /\ lists = 0 /\ lister = NoLister /\ toBrowser = <<>>
    /\ \A g \in Servers : pings[g] = 0

\* A step of the registry: a prompt network leaves no time for a heartbeat interval
\* while the browser is served, and a master server that stops forgets its threads.
RegistryStep ==
    /\ Next
    /\ lister.coming => main' # Waiting \/ ~up'
    /\ env.prompt /\ clock' # clock => ListSettled
    /\ expected' = { g \in expected : servertable'[g] # NoEntry }
    /\ lister' = IF up' THEN lister ELSE NoLister
    /\ UNCHANGED <<lists, toBrowser, pings, serversleft>>
    /\ UNCHANGED <<finder, posted, window>>

-----------------------------------------------------------------------------

Finder == HandleMainInput \/ ReadPacket_Finder \/ FinderEnds
Lister == ListServers \/ ListerEnds

ListNext ==
    \/ RegistryStep
    \/ Refresh \/ Join \/ ThreadEvent
    \/ Finder \/ ReceiveList \/ DispatchList \/ Lister
    \/ \E g \in Servers : Discover(g)
    \/ LoseList

ListSpec == ListInit /\ [][ListNext]_all

\* Fairness is that of the registry, and the master server's for the browser's packets.
ListFairSpec ==
    /\ ListSpec
    /\ WF_vars(MainLoop)
    /\ \A g \in Servers :
          /\ WF_vars(GameServer(g)) /\ WF_vars(Thread(g))
          /\ SF_vars(Receive(g))
          /\ WF_vars(~up /\ Lose(g))
    /\ WF_vars(DispatchList)

-----------------------------------------------------------------------------
(* Properties *)

\* In a prompt environment the browser is told of no server that has been silent for
\* longer than TIME_KEEPSERVERS: the sweep has removed it before the request is
\* answered (MasterServer.java:92), although nobody sweeps while nothing arrives.
ListedIsLive ==
    env.prompt /\ lister.ahead # NoOne => clock - heard[lister.ahead] <= TIME_KEEPSERVERS

\* Every server that is registered when a finder thread starts, and stays so, has
\* a row once nothing is on its way any more, unless a packet was lost: no request
\* is taken by a thread that is about to end ("(Re)start the finder thread",
\* serverbrowser.cpp:533), none dies with the master server's thread for an
\* earlier one, and no answer is taken for one to an earlier ping.
EverybodyIsShown ==
    finder = "running" /\ posted = 0 /\ ListSettled /\ events = <<>>
      => expected \subseteq rows
=============================================================================
