------------------------- MODULE ServerList_proofs -------------------------
(***************************************************************************)
(* What the browser's list keeps, for any game servers and environments:   *)
(* the registry is not disturbed by who asks for its list, nobody is told  *)
(* of a server that was silent for too long, and every server that stays   *)
(* registered is shown in the end.                                         *)
(***************************************************************************)
EXTENDS ServerList, MasterRegistry_proofs

-----------------------------------------------------------------------------
(* The inductive invariants *)

Answers == [type: {"SERVER", "DISCOVER"}, server: Servers]

BrowserTypes ==
    /\ finder \in {"none", "running", "stopping"}
    /\ posted \in Nat /\ lists \in Nat
    /\ lister \in [pc: {"none", "listing", "leaving"}, todo: SUBSET Servers,
                   ahead: Servers \union {NoOne}, coming: BOOLEAN]
    /\ toBrowser \in Seq(Answers)
    /\ pings \in [Servers -> Nat]
    /\ events \in Seq(Servers)

\* A master server that is down knows nothing, and does nothing.
DownInv ==
    ~up => /\ main.pc = "receive" /\ lister.pc = "none"
           /\ \A g \in Servers : servertable[g] = NoEntry /\ thread[g].pc = "none"

\* While the browser's request is on its way to its thread, the main loop sweeps.
ArrivingInv == lister.coming => main.pc # "receive" /\ main.client = NoOne

BrowserInv == BrowserTypes /\ DownInv /\ ArrivingInv

\* While the list is sent no entry is expired, and the next to be sent was heard of.
LiveInv ==
    env.prompt =>
        /\ lister.pc = "listing" => \A g \in Servers : Fresh(g)
        /\ lister.ahead # NoOne =>
             /\ lister.pc = "listing"
             /\ clock - heard[lister.ahead] <= TIME_KEEPSERVERS

\* Something is on a line.
On(line, x) == \E i \in DOMAIN line : line[i] = x

Told(g)     == On(toBrowser, [type |-> "SERVER", server |-> g])
Answered(g) == On(toBrowser, [type |-> "DISCOVER", server |-> g])

\* How far the browser is with g: a request will be answered, g is on the list, the
\* browser is told of g, g was pinged, has answered, and is shown.
Underway(g) ==
    \/ lister.pc = "none" /\ posted + lists > 0
    \/ lister.pc = "none" /\ lister.coming
    \/ lister.pc = "listing" /\ (g \in lister.todo \/ lister.ahead = g)
    \/ Told(g)
    \/ g \in serversleft /\ (pings[g] > 0 \/ Answered(g))
    \/ On(events, g)
    \/ g \in rows

ShownInv ==
    /\ expected \subseteq Registered
    /\ finder = "running" => \A g \in expected : Underway(g)

-----------------------------------------------------------------------------
(* The registry under the browser *)

\* A step of the browser, as far as the registry is concerned.
Browsing ==
    /\ UNCHANGED <<gameserver, network, up, thread, servertable, clock, booted, history>>
    /\ \/ env' = env
       \/ env.losses > 0 /\ env' = [env EXCEPT !.losses = @ - 1]
    /\ \/ main' = main
       \/ ReceiveList
       \/ DispatchList

LEMMA StepIsBrowsing ==
    ASSUME [ListNext]_all
    PROVE  RegistryStep \/ Browsing
<1>1. CASE \/ Refresh \/ Join \/ ThreadEvent \/ Finder \/ Lister \/ UNCHANGED all
           \/ \E g \in Servers : Discover(g)
  <2>1. UNCHANGED vars
    BY <1>1 DEF Refresh, Join, ThreadEvent, Finder, HandleMainInput, ReadPacket_Finder, FinderEnds,
                Lister, ListServers, ListerEnds, Discover, all
  <2> QED
    BY <2>1 DEF vars, master, world, Browsing
<1>2. CASE ReceiveList \/ DispatchList
  BY <1>2 DEF ReceiveList, DispatchList, world, Browsing
<1>3. CASE LoseList
  BY <1>3 DEF LoseList, master, Browsing
<1> QED
  BY <1>1, <1>2, <1>3 DEF ListNext

LEMMA BrowsingTypes ==
    ASSUME TypeInv, Browsing
    PROVE  TypeInv' /\ env'.prompt = env.prompt
<1>1. UNCHANGED <<pc, firsttime, localseqnum, acksleft_tx, msgqueue, toMaster, toServer, up,
                  thread, servertable, clock, booted, heard, read, confirmed, unasked>>
  BY DEF Browsing, gameserver, handler, network, history
<1>2. /\ env' \in [servers: SUBSET Servers, prompt: BOOLEAN, reorders: BOOLEAN,
                   losses: Nat, crashes: Nat, clock: Nat]
      /\ env'.prompt = env.prompt
  <2>1. env \in [servers: SUBSET Servers, prompt: BOOLEAN, reorders: BOOLEAN,
                 losses: Nat, crashes: Nat, clock: Nat]
    BY DEF TypeInv, TypeOK
  <2>2. CASE env' = env
    BY <2>1, <2>2
  <2>3. CASE env.losses > 0 /\ env' = [env EXCEPT !.losses = @ - 1]
    BY <2>1, <2>3
  <2> QED
    BY <2>2, <2>3 DEF Browsing
<1>3. \/ main' = main
      \/ main' = [Waiting EXCEPT !.pc = "sweep", !.todo = Registered]
      \/ main' = Waiting
  BY DEF Browsing, ReceiveList, DispatchList
<1>4. /\ main' \in [pc: {"receive", "sweep", "remove"}, client: Servers \union {NoOne},
                    pkt: [type: {"REGISTER", "HEARTBEAT", "LIST"}, seqnum: Nat],
                    todo: SUBSET Servers, dead: Servers \union {NoOne}]
      /\ MainTyped'
  <2>1. CASE main' = main
    BY <2>1 DEF TypeInv, TypeOK, MainTyped
  <2>2. CASE main' = Waiting
    BY <2>2 DEF Waiting, MainTyped
  <2>3. CASE main' = [Waiting EXCEPT !.pc = "sweep", !.todo = Registered]
    <3>1. Registered \in SUBSET Servers
      BY DEF Registered
    <3> QED
      BY <2>3, <3>1 DEF Waiting, MainTyped
  <2> QED
    BY <1>3, <2>1, <2>2, <2>3
<1>5. TypeOK'
  BY <1>1, <1>2, <1>4 DEF TypeInv, TypeOK
<1>6. WaitsForPacket'
  BY <1>1 DEF TypeInv, WaitsForPacket, InWaitAck
<1> QED
  BY <1>2, <1>4, <1>5, <1>6 DEF TypeInv

LEMMA BrowsingTable ==
    ASSUME TypeInv, TableInv, Browsing
    PROVE  TableInv'
<1>1. TableTypes /\ env'.prompt = env.prompt
  BY TableTypesHold, BrowsingTypes
<1>2. UNCHANGED <<thread, servertable, heard, clock>>
  BY DEF Browsing, history
<1>3. CASE main' = main
  BY <1>1, <1>2, <1>3, TableAlone
<1>4. CASE main' = [Waiting EXCEPT !.pc = "sweep", !.todo = Registered] \/ main' = Waiting
  <2> SUFFICES ASSUME env.prompt, NEW g \in Servers
               PROVE  TableOf(g)' /\ SweepOf(g)'
    BY <1>1 DEF TableInv
  <2>1. TableOf(g)'
    BY <1>2 DEF TableInv, TableOf, Fresh, Expired
  <2>2. SweepOf(g)'
    <3>1. CASE main' = Waiting
      BY <3>1 DEF Waiting, SweepOf
    <3>2. CASE main' = [Waiting EXCEPT !.pc = "sweep", !.todo = Registered]
      <4>1. main'.pc = "sweep" /\ main'.todo = Registered
        BY <3>2 DEF Waiting
      <4>2. (g \in Registered) = (servertable[g] # NoEntry)
        BY DEF Registered
      <4> QED
        BY <1>2, <4>1, <4>2 DEF SweepOf, Fresh
    <3> QED
      BY <1>4, <3>1, <3>2
  <2> QED
    BY <2>1, <2>2
<1> QED
  BY <1>3, <1>4 DEF Browsing, ReceiveList, DispatchList

LEMMA BrowsingConfirm ==
    ASSUME TypeInv, ConfirmInv, ArrivingInv, Browsing
    PROVE  ConfirmInv'
<1> SUFFICES ASSUME env.prompt, NEW g \in Servers
             PROVE  TokenInv(g)'
  BY BrowsingTypes DEF ConfirmInv
<1>1. TokenTypes(g) /\ NoOne \notin Servers
  BY TokenTypesHold, MasterRegistryAssumption
<1>2. MainSame(g)
  <2>1. CASE main' = main
    BY <2>1 DEF MainSame
  <2>2. CASE ReceiveList
    BY <1>1, <2>2 DEF ReceiveList, Waiting, MainSame, TokenTypes
  <2>3. CASE DispatchList
    BY <1>1, <2>3 DEF DispatchList, ArrivingInv, Waiting, MainSame
  <2> QED
    BY <2>1, <2>2, <2>3 DEF Browsing
<1>3. Same(g)
  BY <1>2 DEF Browsing, gameserver, handler, network, history, Same
<1> QED
  BY <1>3, SameKeeps DEF ConfirmInv

LEMMA BrowsingListed ==
    ASSUME TypeInv, ListedInv, Browsing
    PROVE  ListedInv'
<1> SUFFICES ASSUME env.prompt, NEW g \in Servers
             PROVE  ListedOf(g)'
  BY BrowsingTypes DEF ListedInv
<1>1. ListedSame(g)
  BY DEF Browsing, gameserver, network, history, ListedSame
<1> QED
  BY <1>1, ListedSameKeeps DEF ListedInv

LEMMA RegistryKept ==
    ASSUME RegistryInv, ArrivingInv, [ListNext]_all
    PROVE  RegistryInv'
<1>1. CASE RegistryStep
  BY <1>1, RegistryInvStep DEF RegistryStep
<1>2. CASE Browsing
  BY <1>2, BrowsingTypes, BrowsingTable, BrowsingConfirm, BrowsingListed DEF RegistryInv
<1> QED
  BY <1>1, <1>2, StepIsBrowsing

-----------------------------------------------------------------------------
(* The browser's own state *)

LEMMA ListerTypes ==
    /\ NoLister \in [pc: {"none", "listing", "leaving"}, todo: SUBSET Servers,
                     ahead: Servers \union {NoOne}, coming: BOOLEAN]
    /\ NoLister.pc = "none" /\ NoLister.ahead = NoOne /\ ~NoLister.coming
    /\ [g \in Servers |-> 0] \in [Servers -> Nat]
  BY DEF NoLister

\* What the thread of the master server, or the one that takes its place, is after a step.
LEMMA BrowserTypesStep ==
    ASSUME BrowserTypes, [ListNext]_all
    PROVE  BrowserTypes'
<1> DEFINE L == [pc: {"none", "listing", "leaving"}, todo: SUBSET Servers,
                 ahead: Servers \union {NoOne}, coming: BOOLEAN]
<1>1. <<>> \in Seq(Answers)
  OBVIOUS
<1>2. CASE RegistryStep
  BY <1>2, ListerTypes DEF RegistryStep, BrowserTypes, window
<1>3. CASE Refresh
  <2>1. CASE finder = "running"
    BY <1>3, <2>1 DEF Refresh, BrowserTypes, session
  <2>2. CASE finder # "running"
    <3>1. posted' \in Nat /\ finder' = "running" /\ events' = events
      BY <1>3, <2>2 DEF Refresh, BrowserTypes
    <3>2. NewSession
      BY <1>3, <2>2 DEF Refresh
    <3> QED
      BY <1>1, <3>1, <3>2, ListerTypes DEF NewSession, BrowserTypes
  <2> QED
    BY <2>1, <2>2
<1>4. CASE Join
  BY <1>4 DEF Join, Press, BrowserTypes, session
<1>5. CASE FinderEnds
  BY <1>1, <1>5, ListerTypes DEF FinderEnds, NewSession, BrowserTypes
<1>6. CASE ThreadEvent
  BY <1>6 DEF ThreadEvent, BrowserTypes, session
<1>7. CASE HandleMainInput
  BY <1>7 DEF HandleMainInput, BrowserTypes, window
<1>8. CASE ReadPacket_Finder
  <2>1. Tail(toBrowser) \in Seq(Answers) /\ Head(toBrowser) \in Answers
    BY <1>8, TailFacts DEF ReadPacket_Finder, BrowserTypes
  <2>2. Head(toBrowser).server \in Servers
    BY <2>1 DEF Answers
  <2> DEFINE g == Head(toBrowser).server
  <2>3. pings' \in [Servers -> Nat] /\ events' \in Seq(Servers)
    <3>1. CASE ParsePacket_Server(g)
      <4>1. g \in Servers
        BY <2>2
      <4> HIDE DEF g
      <4> QED
        BY <3>1, <4>1 DEF ParsePacket_Server, BrowserTypes
    <3>2. CASE DiscoveredServer(g)
      <4>1. g \in Servers
        BY <2>2
      <4> HIDE DEF g
      <4> QED
        BY <3>2, <4>1, AppendFacts DEF DiscoveredServer, BrowserTypes
    <3> QED
      BY <1>8, <3>1, <3>2 DEF ReadPacket_Finder
  <2> QED
    BY <1>8, <2>1, <2>3 DEF ReadPacket_Finder, BrowserTypes
<1>9. CASE ReceiveList
  <2>1. lists' \in Nat
    BY <1>9 DEF ReceiveList, BrowserTypes
  <2>3. lister' \in L
    BY <1>9 DEF ReceiveList, BrowserTypes
  <2> QED
    BY <1>9, <2>1, <2>3 DEF ReceiveList, BrowserTypes, window
<1>10. CASE DispatchList
  <2>1. lister' \in L
    <3>1. CASE lister.pc = "none"
      BY <1>10, <3>1 DEF DispatchList, NoLister
    <3>2. CASE lister.pc # "none"
      BY <1>10, <3>2 DEF DispatchList, BrowserTypes
    <3> QED
      BY <3>1, <3>2
  <2> QED
    BY <1>10, <2>1 DEF DispatchList, BrowserTypes, window
<1>11. CASE ListServers
  <2>1. toBrowser' \in Seq(Answers)
    <3>1. CASE lister.ahead = NoOne
      BY <1>11, <3>1 DEF ListServers, BrowserTypes
    <3>2. CASE lister.ahead # NoOne
      <4>1. [type |-> "SERVER", server |-> lister.ahead] \in Answers
        BY <3>2 DEF BrowserTypes, Answers
      <4> QED
        BY <1>11, <3>2, <4>1, AppendFacts DEF ListServers, BrowserTypes
    <3> QED
      BY <3>1, <3>2
  <2>2. lister' \in L
    <3>1. CASE lister' = [lister EXCEPT !.pc = "leaving", !.ahead = NoOne]
      BY <3>1 DEF BrowserTypes
    <3>2. ASSUME NEW g \in lister.todo,
                 lister' = [lister EXCEPT !.todo = @ \ {g},
                              !.ahead = IF servertable[g] # NoEntry THEN g ELSE NoOne]
          PROVE  lister' \in L
      BY <3>2 DEF BrowserTypes
    <3> QED
      BY <1>11, <3>1, <3>2 DEF ListServers
  <2> QED
    BY <1>11, <2>1, <2>2 DEF ListServers, BrowserTypes, window
<1>12. CASE ListerEnds
  BY <1>12, ListerTypes DEF ListerEnds, BrowserTypes, window
<1>13. ASSUME NEW g \in Servers, Discover(g) PROVE BrowserTypes'
  <2>1. [type |-> "DISCOVER", server |-> g] \in Answers
    BY DEF Answers
  <2>2. toBrowser' \in Seq(Answers)
    BY <1>13, <2>1, AppendFacts DEF Discover, BrowserTypes
  <2>3. pings' \in [Servers -> Nat]
    BY <1>13 DEF Discover, BrowserTypes
  <2> QED
    BY <1>13, <2>2, <2>3 DEF Discover, BrowserTypes, window
<1>14. CASE LoseList
  <2>1. lists' \in Nat
    BY <1>14 DEF LoseList, BrowserTypes
  <2>2. pings' \in [Servers -> Nat]
    BY <1>14 DEF LoseList, BrowserTypes
  <2>3. toBrowser' \in Seq(Answers)
    BY <1>14, RemoveAtFacts DEF LoseList, BrowserTypes
  <2> QED
    BY <1>14, <2>1, <2>2, <2>3 DEF LoseList, BrowserTypes, window
<1>15. CASE UNCHANGED all
  BY <1>15 DEF all, browser, session, window, BrowserTypes
<1> QED
  BY <1>2, <1>3, <1>4, <1>5, <1>6, <1>7, <1>8, <1>9, <1>10, <1>11, <1>12, <1>13, <1>14, <1>15
     DEF ListNext, Finder, Lister

\* How the browser's thread at the master server gets from one state to the next, when
\* the registry does nothing.
LEMMA ListerSteps ==
    ASSUME [ListNext]_all
    PROVE  \/ RegistryStep \/ ReceiveList \/ DispatchList
           \/ /\ Browsing /\ main' = main
              /\ lister' = lister \/ lister' = NoLister \/ Lister
<1>1. CASE Refresh \/ FinderEnds \/ Join
  <2>1. UNCHANGED vars /\ (lister' = lister \/ lister' = NoLister)
    BY <1>1 DEF Refresh, FinderEnds, Join, NewSession, session
  <2> QED
    BY <2>1 DEF vars, master, world, Browsing
<1>2. CASE \/ ThreadEvent \/ HandleMainInput \/ ReadPacket_Finder \/ Lister \/ UNCHANGED all
           \/ \E g \in Servers : Discover(g)
  <2>1. UNCHANGED vars /\ (lister' = lister \/ lister' = NoLister \/ Lister)
    BY <1>2 DEF ThreadEvent, HandleMainInput, ReadPacket_Finder, Lister, ListerEnds, ListServers,
                Discover, session, all, browser
  <2> QED
    BY <2>1 DEF vars, master, world, Browsing
<1>3. CASE LoseList
  BY <1>3 DEF LoseList, master, Browsing
<1> QED
  BY <1>1, <1>2, <1>3 DEF ListNext, Finder

\* A master server that is down stays as it is until it comes up.
LEMMA DownStep ==
    ASSUME TypeInv, BrowserTypes, DownInv, [ListNext]_all
    PROVE  DownInv'
<1> SUFFICES ASSUME ~up'
             PROVE  /\ main'.pc = "receive" /\ lister'.pc = "none"
                    /\ \A g \in Servers : servertable'[g] = NoEntry /\ thread'[g].pc = "none"
  BY DEF DownInv
<1>1. CASE RegistryStep
  <2>1. lister'.pc = "none"
    BY <1>1, ListerTypes DEF RegistryStep
  <2>2. CASE Crash
    BY <2>1, <2>2 DEF Crash, Waiting, NoThread
  <2>3. CASE ~Crash
    <3>1. UNCHANGED <<up, main, thread, servertable>>
      <4>1. ASSUME ~up PROVE ~MainLoop /\ ~ReceiveOther /\ \A g \in Servers : ~Thread(g)
        BY <4>1 DEF DownInv, MainLoop, Receive, CheckServer, RemoveServer, Dispatch, ReceiveOther,
                    Thread, ReadPacket, RegisterServer, LookupServer, UpdateServer, Exit
      <4>2. ~up
        BY <1>1, <2>3 DEF RegistryStep, Next, GameServer, RegisterFirst, RegisterAgain, NothingAsked,
              Heartbeat, ReadReply, Resend, ReceiveReply, Thread, ReadPacket, RegisterServer,
              LookupServer, UpdateServer, Exit, Lose, MainLoop, Receive, CheckServer, RemoveServer,
              Dispatch, ReceiveOther, Boot, Tick, master
      <4>3. \/ \E g \in Servers : GameServer(g) \/ Lose(g)
            \/ Tick
        BY <1>1, <2>3, <4>1, <4>2 DEF RegistryStep, Next, Boot
      <4> QED
        BY <4>3 DEF GameServer, RegisterFirst, RegisterAgain, NothingAsked, Heartbeat, ReadReply,
                    Resend, ReceiveReply, Lose, Tick, master
    <3> QED
      BY <2>1, <3>1 DEF DownInv
  <2> QED
    BY <2>2, <2>3
<1>2. CASE ReceiveList \/ DispatchList
  BY <1>2 DEF ReceiveList, DispatchList, Swept, DownInv
<1>3. CASE /\ Browsing /\ main' = main
           /\ lister' = lister \/ lister' = NoLister \/ Lister
  <2>1. ~up /\ UNCHANGED <<thread, servertable>>
    BY <1>3 DEF Browsing
  <2>2. lister'.pc = "none"
    <3>1. ~Lister \/ lister' = [lister EXCEPT !.pc = "none"]
      BY <2>1 DEF DownInv, Lister, ListServers, ListerEnds
    <3> QED
      BY <1>3, <2>1, <3>1, ListerTypes DEF DownInv, BrowserTypes
  <2> QED
    BY <1>3, <2>1, <2>2 DEF DownInv
<1> QED
  BY <1>1, <1>2, <1>3, ListerSteps

LEMMA ArrivingStep ==
    ASSUME TypeInv, BrowserTypes, ArrivingInv, [ListNext]_all
    PROVE  ArrivingInv'
<1> SUFFICES ASSUME lister'.coming
             PROVE  main'.pc # "receive" /\ main'.client = NoOne
  BY DEF ArrivingInv
<1>1. CASE RegistryStep
  <2>1. up' /\ lister.coming /\ main' # Waiting
    BY <1>1, ListerTypes DEF RegistryStep
  <2>2. main.pc # "receive" /\ main.client = NoOne
    BY <2>1 DEF ArrivingInv
  <2>3. main' = main \/ RemoveServer \/ \E g \in Servers : CheckServer(g)
    BY <1>1, <2>1, <2>2 DEF RegistryStep, Next, GameServer, RegisterFirst, RegisterAgain, NothingAsked,
          Heartbeat, ReadReply, Resend, ReceiveReply, Thread, ReadPacket, RegisterServer,
          LookupServer, UpdateServer, Exit, Lose, MainLoop, Receive, ReceiveOther, Dispatch,
          Crash, Boot, Tick, master
  <2>4. main'.client = main.client /\ (main' = main \/ main'.pc \in {"sweep", "remove"})
    BY <2>3, DomainsHold DEF RemoveServer, CheckServer, Domains
  <2> QED
    BY <2>2, <2>4
<1>2. CASE ReceiveList
  BY <1>2 DEF ReceiveList, Waiting
<1>3. CASE DispatchList
  BY <1>3, ListerTypes DEF DispatchList, BrowserTypes, NoLister
<1>4. CASE /\ Browsing /\ main' = main
           /\ lister' = lister \/ lister' = NoLister \/ Lister
  <2>1. Lister => lister'.coming = lister.coming
    BY DEF Lister, ListServers, ListerEnds, BrowserTypes
  <2>2. lister.coming
    BY <1>4, <2>1, ListerTypes
  <2> QED
    BY <1>4, <2>2 DEF ArrivingInv
<1> QED
  BY <1>1, <1>2, <1>3, <1>4, ListerSteps

LEMMA BrowserStep ==
    ASSUME TypeInv, BrowserInv, [ListNext]_all
    PROVE  BrowserInv'
  BY BrowserTypesStep, DownStep, ArrivingStep DEF BrowserInv

LEMMA BrowserInit == ListInit => BrowserInv
<1> SUFFICES ASSUME ListInit PROVE BrowserInv
  OBVIOUS
<1>1. <<>> \in Seq(Answers) /\ <<>> \in Seq(Servers)
  OBVIOUS
<1>2. BrowserTypes
  BY <1>1, ListerTypes DEF ListInit, BrowserTypes
<1>3. DownInv /\ ArrivingInv
  BY ListerTypes DEF ListInit, Init, DownInv, ArrivingInv
<1> QED
  BY <1>2, <1>3 DEF BrowserInv

-----------------------------------------------------------------------------
(* Who is told of is alive *)

\* An entry is renewed, removed or left as it is.
LEMMA EntriesStay ==
    ASSUME TypeInv, [Next]_vars, up', NEW g \in Servers
    PROVE  /\ servertable'[g] \in {servertable[g], NoEntry, clock}
           /\ heard'[g] \in {heard[g], clock}
<1>1. servertable \in [Servers -> Nat] /\ heard \in [Servers -> Nat]
  BY DEF TypeInv, TypeOK
<1>2. ASSUME NEW h \in Servers, GameServer(h) \/ Lose(h)
      PROVE  UNCHANGED <<servertable, heard>>
  BY <1>2 DEF GameServer, RegisterFirst, RegisterAgain, NothingAsked, Heartbeat, ReadReply, Resend,
              ReceiveReply, Lose, master, history
<1>3. ASSUME NEW h \in Servers, Thread(h)
      PROVE  UNCHANGED heard /\ servertable'[g] \in {servertable[g], NoEntry, clock}
  BY <1>1, <1>3 DEF Thread, ReadPacket, RegisterServer, LookupServer, UpdateServer, Exit, history
<1>4. ASSUME MainLoop \/ ReceiveOther
      PROVE  /\ heard'[g] \in {heard[g], clock}
             /\ servertable'[g] \in {servertable[g], NoEntry}
  BY <1>1, <1>4 DEF MainLoop, Receive, CheckServer, RemoveServer, Dispatch, ReceiveOther, history
<1>5. CASE Boot \/ Tick \/ UNCHANGED vars
  BY <1>5 DEF Boot, Tick, vars, master, history
<1> QED
  BY <1>2, <1>3, <1>4, <1>5 DEF Next, Crash

LEMMA LiveStep ==
    ASSUME TypeInv, TableInv, BrowserInv, LiveInv, [ListNext]_all
    PROVE  LiveInv'
<1>1. env'.prompt = env.prompt
  BY PromptKept, StepIsBrowsing, BrowsingTypes DEF RegistryStep
<1> SUFFICES ASSUME env.prompt
             PROVE  /\ lister'.pc = "listing" => \A g \in Servers : Fresh(g)'
                    /\ lister'.ahead # NoOne =>
                         /\ lister'.pc = "listing"
                         /\ clock' - heard'[lister'.ahead] <= TIME_KEEPSERVERS
  BY <1>1 DEF LiveInv
<1>2. TableTypes /\ BrowserTypes
  BY TableTypesHold DEF BrowserInv
<1>3. CASE RegistryStep
  <2>1. CASE lister' = NoLister
    BY <2>1, ListerTypes
  <2>2. CASE lister' = lister /\ up' /\ lister.pc = "listing"
    <3>1. clock' = clock
      BY <1>3, <2>2, ListerTypes DEF RegistryStep, ListSettled
    <3>2. \A g \in Servers : /\ servertable'[g] \in {servertable[g], NoEntry, clock}
                             /\ heard'[g] \in {heard[g], clock}
      BY <1>3, <2>2, EntriesStay DEF RegistryStep
    <3>3. clock - clock <= TIME_KEEPSERVERS
      BY <1>2 DEF TableTypes
    <3>4. ASSUME NEW g \in Servers PROVE Fresh(g)'
      <4>1. Fresh(g) /\ servertable'[g] \in {servertable[g], NoEntry, clock}
        BY <2>2, <3>2 DEF LiveInv
      <4>2. CASE servertable'[g] = servertable[g]
        BY <3>1, <4>1, <4>2 DEF Fresh, Expired
      <4>3. CASE servertable'[g] = NoEntry
        BY <4>3 DEF Fresh
      <4>4. CASE servertable'[g] = clock
        BY <1>2, <3>1, <3>3, <4>4 DEF Fresh, Expired, TableTypes
      <4> QED
        BY <4>1, <4>2, <4>3, <4>4
    <3>5. lister.ahead # NoOne => clock' - heard'[lister.ahead] <= TIME_KEEPSERVERS
      BY <1>2, <3>1, <3>2, <3>3 DEF LiveInv, BrowserTypes
    <3> QED
      BY <2>2, <3>4, <3>5
  <2>3. CASE lister' = lister /\ lister.pc # "listing"
    BY <2>3 DEF LiveInv
  <2> QED
    BY <1>3, <2>1, <2>2, <2>3 DEF RegistryStep
<1>4. CASE ReceiveList
  BY <1>2, <1>4 DEF ReceiveList, LiveInv, BrowserTypes, Fresh, Expired, history, world
<1>5. CASE DispatchList
  <2>1. \A g \in Servers : Fresh(g)
    BY <1>5 DEF DispatchList, Swept, TableInv, SweepOf
  <2>2. UNCHANGED <<servertable, heard, clock>>
    BY <1>5 DEF DispatchList, history, world
  <2>3. CASE lister.pc = "none"
    <3>1. lister'.ahead = NoOne
      BY <1>5, <2>3 DEF DispatchList, NoLister
    <3> QED
      BY <2>1, <2>2, <3>1 DEF Fresh, Expired
  <2>4. CASE lister.pc # "none"
    <3>1. lister'.ahead = lister.ahead /\ lister'.pc = lister.pc
      BY <1>2, <1>5, <2>4 DEF DispatchList, BrowserTypes
    <3> QED
      BY <2>1, <2>2, <3>1 DEF LiveInv, Fresh, Expired
  <2> QED
    BY <2>3, <2>4
<1>6. CASE /\ Browsing /\ main' = main
           /\ lister' = lister \/ lister' = NoLister \/ Lister
  <2>1. UNCHANGED <<servertable, heard, clock>>
    BY <1>6 DEF Browsing, history
  <2>2. CASE lister' = NoLister
    BY <2>2, ListerTypes
  <2>3. CASE lister' = lister
    BY <2>1, <2>3 DEF LiveInv, Fresh, Expired
  <2>4. CASE ListServers
    <3>1. CASE lister' = [lister EXCEPT !.pc = "leaving", !.ahead = NoOne]
      BY <1>2, <3>1 DEF BrowserTypes
    <3>2. ASSUME NEW g \in lister.todo,
                 lister' = [lister EXCEPT !.todo = @ \ {g},
                              !.ahead = IF servertable[g] # NoEntry THEN g ELSE NoOne]
          PROVE  /\ lister'.pc = "listing" /\ \A h \in Servers : Fresh(h)'
                 /\ lister'.ahead # NoOne => clock' - heard'[lister'.ahead] <= TIME_KEEPSERVERS
      <4>1. g \in Servers /\ lister'.pc = "listing" /\ \A h \in Servers : Fresh(h)
        BY <1>2, <2>4, <3>2 DEF ListServers, BrowserTypes, LiveInv
      <4>2. lister'.ahead # NoOne => lister'.ahead = g /\ servertable[g] # NoEntry
        BY <1>2, <3>2 DEF BrowserTypes
      <4>3. servertable[g] # NoEntry => clock - heard[g] <= TIME_KEEPSERVERS
        <5>1. servertable[g] <= heard[g] /\ servertable[g] \in Nat /\ heard[g] \in Nat
              /\ clock \in Nat /\ TIME_KEEPSERVERS \in Nat
          BY <1>2, <4>1 DEF TableTypes, TableInv, TableOf
        <5>2. servertable[g] # NoEntry => ~(clock - servertable[g] > TIME_KEEPSERVERS)
          BY <4>1 DEF Fresh, Expired
        <5> QED
          BY <5>1, <5>2
      <4>4. \A h \in Servers : Fresh(h)'
        BY <2>1, <4>1 DEF Fresh, Expired
      <4> QED
        BY <2>1, <4>1, <4>2, <4>3, <4>4
    <3> QED
      BY <2>4, <3>1, <3>2 DEF ListServers
  <2>5. CASE ListerEnds
    BY <1>2, <2>5 DEF ListerEnds, LiveInv, BrowserTypes
  <2> QED
    BY <1>6, <2>2, <2>3, <2>4, <2>5 DEF Lister
<1> QED
  BY <1>3, <1>4, <1>5, <1>6, ListerSteps

LEMMA LiveInit == ListInit => LiveInv
  BY ListerTypes DEF ListInit, LiveInv

-----------------------------------------------------------------------------
(* Everybody is shown *)

\* What is on a line is still on it when something is added, and when something is
\* taken unless that is it.
LEMMA OnLine ==
    ASSUME NEW S, NEW s \in Seq(S), NEW x
    PROVE  /\ \A e \in S : On(s, x) => On(Append(s, e), x)
           /\ \A e \in S : On(Append(s, e), e)
           /\ s # <<>> /\ On(s, x) => Head(s) = x \/ On(Tail(s), x)
<1>1. ASSUME NEW e \in S
      PROVE  (On(s, x) => On(Append(s, e), x)) /\ On(Append(s, e), e)
  <2>1. /\ DOMAIN Append(s, e) = 1..(Len(s) + 1) /\ Append(s, e)[Len(s) + 1] = e
        /\ \A i \in DOMAIN s : Append(s, e)[i] = s[i]
        /\ DOMAIN s = 1..Len(s) /\ Len(s) \in Nat
    BY AppendFacts
  <2>2. Len(s) + 1 \in DOMAIN Append(s, e) /\ \A i \in DOMAIN s : i \in DOMAIN Append(s, e)
    BY <2>1
  <2> QED
    BY <2>1, <2>2 DEF On
<1>2. ASSUME s # <<>>, On(s, x), Head(s) # x
      PROVE  On(Tail(s), x)
  <2>1. PICK i \in DOMAIN s : s[i] = x
    BY <1>2 DEF On
  <2>2. /\ Head(s) = s[1] /\ DOMAIN s = 1..Len(s) /\ Len(s) \in Nat
        /\ DOMAIN Tail(s) = 1..(Len(s) - 1) /\ \A j \in DOMAIN Tail(s) : Tail(s)[j] = s[j + 1]
    BY <1>2
  <2>3. i - 1 \in DOMAIN Tail(s) /\ (i - 1) + 1 = i
    BY <1>2, <2>1, <2>2
  <2>4. Tail(s)[i - 1] = x
    BY <2>1, <2>2, <2>3
  <2> QED
    BY <2>3, <2>4 DEF On
<1> QED
  BY <1>1, <1>2

\* While a session lasts, nobody is forgotten: what becomes of g in a step of the browser
\* that loses nothing.
LEMMA UnderwayRequest ==
    ASSUME BrowserTypes, NEW g \in Servers, Underway(g), HandleMainInput \/ ReceiveList \/ DispatchList
    PROVE  Underway(g)'
<1>1. UNCHANGED <<toBrowser, pings, serversleft, events, rows>>
  BY DEF HandleMainInput, ReceiveList, DispatchList, window
<1>2. CASE HandleMainInput
  <2>1. posted' + lists' = posted + lists /\ lister' = lister
    BY <1>2 DEF HandleMainInput, BrowserTypes
  <2> QED
    BY <1>1, <2>1 DEF Underway, Told, Answered
<1>3. CASE ReceiveList
  <2>1. /\ lister'.pc = lister.pc /\ lister'.coming
        /\ lister'.todo = lister.todo /\ lister'.ahead = lister.ahead
    BY <1>3 DEF ReceiveList, BrowserTypes
  <2> QED
    BY <1>1, <2>1 DEF Underway, Told, Answered
<1>4. CASE DispatchList
  <2>1. CASE lister.pc = "none"
    <3>1. lister'.pc = "listing" /\ g \in lister'.todo
      BY <1>4, <2>1 DEF DispatchList, NoLister
    <3> QED
      BY <3>1 DEF Underway
  <2>2. CASE lister.pc # "none"
    <3>1. lister'.pc = lister.pc /\ lister'.todo = lister.todo /\ lister'.ahead = lister.ahead
      BY <1>4, <2>2 DEF DispatchList, BrowserTypes
    <3> QED
      BY <1>1, <2>2, <3>1 DEF Underway, Told, Answered
  <2> QED
    BY <2>1, <2>2
<1> QED
  BY <1>2, <1>3, <1>4

LEMMA UnderwayLister ==
    ASSUME BrowserTypes, NEW g \in Servers, Underway(g), servertable[g] # NoEntry, Lister
    PROVE  Underway(g)'
<1>1. UNCHANGED <<pings, serversleft, events, rows, posted, lists>>
  BY DEF Lister, ListServers, ListerEnds, window
<1>2. CASE ListerEnds
  BY <1>1, <1>2 DEF ListerEnds, Underway, Told, Answered
<1>3. CASE ListServers
  <2> DEFINE e == [type |-> "SERVER", server |-> lister.ahead]
  <2>1. \A x : On(toBrowser, x) => On(toBrowser', x)
    <3>1. CASE lister.ahead = NoOne
      BY <1>3, <3>1 DEF ListServers
    <3>2. CASE lister.ahead # NoOne
      <4>1. e \in Answers /\ toBrowser \in Seq(Answers)
        BY <3>2 DEF BrowserTypes, Answers
      <4>2. toBrowser' = Append(toBrowser, e)
        BY <1>3, <3>2 DEF ListServers
      <4> HIDE DEF e
      <4> QED
        BY <4>1, <4>2, OnLine
    <3> QED
      BY <3>1, <3>2
  <2>2. CASE lister.ahead = g
    <3>1. g # NoOne
      BY MasterRegistryAssumption
    <3>2. toBrowser' = Append(toBrowser, e) /\ e \in Answers /\ toBrowser \in Seq(Answers)
      BY <1>3, <2>2, <3>1 DEF ListServers, BrowserTypes, Answers
    <3>3. On(toBrowser', e)
      BY <3>2, OnLine
    <3> QED
      BY <2>2, <3>3 DEF Underway, Told
  <2>3. CASE lister.ahead # g /\ g \in lister.todo
    <3>1. PICK h \in lister.todo :
            lister' = [lister EXCEPT !.todo = @ \ {h},
                          !.ahead = IF servertable[h] # NoEntry THEN h ELSE NoOne]
      BY <1>3, <2>3 DEF ListServers
    <3>2. lister'.pc = "listing" /\ (g \in lister'.todo \/ lister'.ahead = g)
      BY <1>3, <2>3, <3>1 DEF ListServers, BrowserTypes
    <3> QED
      BY <3>2 DEF Underway
  <2>4. CASE lister.ahead # g /\ g \notin lister.todo
    BY <1>1, <1>3, <2>1, <2>4 DEF ListServers, Underway, Told, Answered
  <2> QED
    BY <2>2, <2>3, <2>4
<1> QED
  BY <1>2, <1>3 DEF Lister

LEMMA UnderwayRead ==
    ASSUME BrowserTypes, NEW g \in Servers, Underway(g), ReadPacket_Finder
    PROVE  Underway(g)'
<1> DEFINE e == Head(toBrowser)
<1>1. UNCHANGED <<posted, lists, lister, rows>> /\ toBrowser # <<>> /\ toBrowser \in Seq(Answers)
      /\ toBrowser' = Tail(toBrowser) /\ e \in Answers
  BY TailFacts DEF ReadPacket_Finder, BrowserTypes
<1>2. \A x : On(toBrowser, x) => e = x \/ On(toBrowser', x)
  BY <1>1, OnLine
<1>3. CASE e.type = "SERVER" /\ ParsePacket_Server(e.server)
  <2>1. CASE e.server = g
    <3>1. g \in serversleft' /\ pings'[g] > 0
      BY <1>3, <2>1 DEF ParsePacket_Server, BrowserTypes
    <3> QED
      BY <3>1 DEF Underway
  <2>2. CASE e.server # g
    <3>1. /\ e # [type |-> "SERVER", server |-> g] /\ e # [type |-> "DISCOVER", server |-> g]
          /\ g \in serversleft => g \in serversleft'
          /\ pings'[g] = pings[g] /\ events' = events
      BY <1>3, <2>2 DEF ParsePacket_Server, BrowserTypes
    <3> QED
      BY <1>1, <1>2, <3>1 DEF Underway, Told, Answered
  <2> QED
    BY <2>1, <2>2
<1>4. CASE e.type = "DISCOVER" /\ DiscoveredServer(e.server)
  <2>1. e.server \in Servers /\ events \in Seq(Servers)
    BY <1>1 DEF Answers, BrowserTypes
  <2>2. \A x : On(events, x) => On(events', x)
    BY <1>4, <2>1, OnLine DEF DiscoveredServer
  <2>3. CASE e.server = g /\ g \in serversleft
    <3>1. On(events', g)
      BY <1>4, <2>1, <2>3, OnLine DEF DiscoveredServer
    <3> QED
      BY <3>1 DEF Underway
  <2>4. CASE e.server = g /\ g \notin serversleft
    <3>1. e # [type |-> "SERVER", server |-> g]
      BY <1>4
    <3> QED
      BY <1>1, <1>2, <2>2, <2>4, <3>1 DEF Underway, Told
  <2>5. CASE e.server # g
    <3>1. /\ e # [type |-> "SERVER", server |-> g] /\ e # [type |-> "DISCOVER", server |-> g]
          /\ g \in serversleft => g \in serversleft'
          /\ pings' = pings
      BY <1>4, <2>5 DEF DiscoveredServer
    <3> QED
      BY <1>1, <1>2, <2>2, <3>1 DEF Underway, Told, Answered
  <2> QED
    BY <2>3, <2>4, <2>5
<1> QED
  BY <1>3, <1>4 DEF ReadPacket_Finder

LEMMA UnderwayAnswer ==
    ASSUME BrowserTypes, NEW g \in Servers, Underway(g), NEW h \in Servers, Discover(h)
    PROVE  Underway(g)'
<1> DEFINE e == [type |-> "DISCOVER", server |-> h]
<1>1. UNCHANGED <<posted, lists, lister, serversleft, events, rows>>
      /\ toBrowser' = Append(toBrowser, e)
  BY DEF Discover, window
<1>2. e \in Answers /\ toBrowser \in Seq(Answers)
  BY DEF Answers, BrowserTypes
<1>3. On(toBrowser', e) /\ \A x : On(toBrowser, x) => On(toBrowser', x)
  BY <1>1, <1>2, OnLine
<1>4. CASE g = h
  BY <1>1, <1>3, <1>4 DEF Underway, Told, Answered
<1>5. CASE g # h
  <2>1. pings'[g] = pings[g]
    BY <1>5 DEF Discover, BrowserTypes
  <2> QED
    BY <1>1, <1>3, <2>1 DEF Underway, Told, Answered
<1> QED
  BY <1>4, <1>5

LEMMA UnderwayRow ==
    ASSUME BrowserTypes, NEW g \in Servers, Underway(g), ThreadEvent
    PROVE  Underway(g)'
<1>1. /\ UNCHANGED <<posted, lists, lister, toBrowser, pings, serversleft>>
      /\ events # <<>> /\ events' = Tail(events) /\ rows' = rows \union {Head(events)}
  BY DEF ThreadEvent, session
<1>2. On(events, g) => Head(events) = g \/ On(events', g)
  BY <1>1, OnLine DEF BrowserTypes
<1> QED
  BY <1>1, <1>2 DEF Underway, Told, Answered

\* The registry does not take an expected server from the browser, unless it takes it
\* from the table.
LEMMA ShownRegistry ==
    ASSUME DownInv, ShownInv, RegistryStep
    PROVE  ShownInv'
<1>1. /\ expected' \subseteq Registered' /\ expected' \subseteq expected
      /\ UNCHANGED <<lists, toBrowser, pings, serversleft, finder, posted, events, rows>>
  BY DEF RegistryStep, ShownInv, Registered, window
<1>2. CASE lister' = lister
  BY <1>1, <1>2 DEF ShownInv, Underway, Told, Answered
<1>3. CASE ~up' /\ up
  <2>1. Crash
    BY <1>3 DEF RegistryStep, Next, GameServer, RegisterFirst, RegisterAgain, NothingAsked,
          Heartbeat, ReadReply, Resend, ReceiveReply, Thread, ReadPacket, RegisterServer,
          LookupServer, UpdateServer, Exit, Lose, MainLoop, Receive, CheckServer, RemoveServer,
          Dispatch, ReceiveOther, Boot, Tick, master
  <2>2. expected' = {}
    BY <1>1, <2>1 DEF Crash, Registered
  <2> QED
    BY <1>1, <2>2 DEF ShownInv
<1>4. CASE ~up' /\ ~up
  <2>1. expected = {}
    BY <1>4 DEF DownInv, ShownInv, Registered
  <2> QED
    BY <1>1, <2>1 DEF ShownInv
<1> QED
  BY <1>2, <1>3, <1>4 DEF RegistryStep

LEMMA ShownStep ==
    ASSUME BrowserInv, ShownInv, [ListNext]_all
    PROVE  ShownInv'
<1> USE DEF BrowserInv
<1>1. CASE RegistryStep
  BY <1>1, ShownRegistry
<1>2. CASE \/ HandleMainInput \/ ReceiveList \/ DispatchList \/ Lister
           \/ ReadPacket_Finder \/ ThreadEvent \/ \E h \in Servers : Discover(h)
  <2>1. UNCHANGED <<expected, finder, servertable>>
    BY <1>2 DEF HandleMainInput, ReceiveList, DispatchList, Lister, ListServers, ListerEnds,
                ReadPacket_Finder, ThreadEvent, Discover, session, vars, master
  <2>2. Registered' = Registered
    BY <2>1 DEF Registered
  <2>3. ASSUME NEW g \in Servers, servertable[g] # NoEntry, Underway(g)
        PROVE  Underway(g)'
    BY <1>2, <2>3, UnderwayRequest, UnderwayLister, UnderwayRead, UnderwayRow, UnderwayAnswer
  <2>4. \A g \in expected : g \in Servers /\ servertable[g] # NoEntry
    BY DEF ShownInv, Registered
  <2> QED
    BY <2>1, <2>2, <2>3, <2>4 DEF ShownInv
<1>3. CASE Refresh \/ FinderEnds \/ Join
  <2>1. UNCHANGED servertable
    BY <1>3 DEF Refresh, FinderEnds, Join, vars, master
  <2>2. Registered' = Registered
    BY <2>1 DEF Registered
  <2>3. CASE finder' # "running" /\ expected' = expected
    BY <2>2, <2>3 DEF ShownInv
  <2>4. CASE /\ finder' # "running" \/ (posted' = posted + 1 /\ lists' = 0)
             /\ NewSession
    <3>1. finder' = "running" => lister'.pc = "none" /\ posted' + lists' > 0
      BY <2>4, ListerTypes DEF NewSession, BrowserTypes
    <3> QED
      BY <2>2, <2>4, <3>1 DEF NewSession, ShownInv, Underway
  <2>5. CASE Refresh
    <3>1. CASE finder = "running"
      BY <2>3, <2>5, <3>1 DEF Refresh, session
    <3>2. CASE finder # "running"
      BY <2>4, <2>5, <3>2 DEF Refresh, NewSession
    <3> QED
      BY <3>1, <3>2
  <2>6. CASE FinderEnds
    BY <2>4, <2>6 DEF FinderEnds, NewSession
  <2>7. CASE Join
    BY <2>3, <2>7 DEF Join, session
  <2> QED
    BY <1>3, <2>5, <2>6, <2>7
<1>4. CASE LoseList
  BY <1>4 DEF LoseList, ShownInv
<1>5. CASE UNCHANGED all
  BY <1>5 DEF all, vars, master, browser, session, window, ShownInv, Underway, Told, Answered, Registered
<1> QED
  BY <1>1, <1>2, <1>3, <1>4, <1>5 DEF ListNext, Finder

LEMMA ShownInit == ListInit => ShownInv
  BY DEF ListInit, ShownInv

-----------------------------------------------------------------------------
(* The theorems *)

ListInv == RegistryInv /\ BrowserInv /\ LiveInv /\ ShownInv

LEMMA ListInvInit == ListInit => ListInv
  BY RegistryInit, BrowserInit, LiveInit, ShownInit DEF ListInit, ListInv

LEMMA ListInvStep == ListInv /\ [ListNext]_all => ListInv'
  BY RegistryKept, BrowserStep, LiveStep, ShownStep DEF ListInv, RegistryInv, BrowserInv

\* Whoever asks for the list, what the registry promises holds: types, that WaitAck is
\* satisfied only by the acknowledgement of what was read, and that who was heard of
\* is listed (MasterConnectionThread.java, MasterServer.java).
THEOREM BrowsedRegistryHolds == ListSpec => [](TypeOK /\ ConfirmedIsRead /\ HeardIsListed)
<1>1. ListInit => ListInv
  BY ListInvInit
<1>2. ListInv /\ [ListNext]_all => ListInv'
  BY ListInvStep
<1>3. ListInv => TypeOK /\ ConfirmedIsRead /\ HeardIsListed
  BY ListedIsHeard
     DEF ListInv, RegistryInv, TypeInv, ConfirmInv, TokenInv, ConfirmedIsRead
<1> QED
  BY <1>1, <1>2, <1>3, PTL DEF ListSpec

\* Nor does it make anybody be erased who was heard of (MasterServer.java:92-99).
THEOREM BrowsedRegistryErases == ListSpec => ErasedOnlyIfSilent
<1>1. ListInit => ListInv
  BY ListInvInit
<1>2. ListInv /\ [ListNext]_all => ListInv'
  BY ListInvStep
<1>3. ListInv /\ [ListNext]_all =>
        [\A g \in Servers : servertable[g] # NoEntry /\ servertable'[g] = NoEntry /\ up' /\ env.prompt
            => clock - heard[g] > TIME_KEEPSERVERS]_vars
  <2> SUFFICES ASSUME ListInv, [ListNext]_all, NEW g \in Servers,
                      servertable[g] # NoEntry, servertable'[g] = NoEntry, up', env.prompt
               PROVE  clock - heard[g] > TIME_KEEPSERVERS
    OBVIOUS
  <2>1. RegistryStep
    BY StepIsBrowsing DEF Browsing
  <2> QED
    BY <2>1, ErasedStep DEF RegistryStep, ListInv, RegistryInv
<1> QED
  BY <1>1, <1>2, <1>3, PTL DEF ListSpec, ErasedOnlyIfSilent

\* In a prompt environment no server is sent to the browser that was silent for longer
\* than TIME_KEEPSERVERS (ListServers, MasterServer.java:92).
THEOREM ListedAreLive == ListSpec => []ListedIsLive
<1>1. ListInit => ListInv
  BY ListInvInit
<1>2. ListInv /\ [ListNext]_all => ListInv'
  BY ListInvStep
<1>3. ListInv => ListedIsLive
  BY DEF ListInv, LiveInv, ListedIsLive
<1> QED
  BY <1>1, <1>2, <1>3, PTL DEF ListSpec

\* Every server that is registered when the finder thread starts, and stays so, has a row
\* once nothing is on its way, unless a packet was lost (serverbrowser.cpp).
THEOREM EverybodyShown == ListSpec => []EverybodyIsShown
<1>1. ListInit => ListInv
  BY ListInvInit
<1>2. ListInv /\ [ListNext]_all => ListInv'
  BY ListInvStep
<1>3. ListInv => EverybodyIsShown
  <2> SUFFICES ASSUME ListInv, finder = "running", posted = 0, ListSettled, events = <<>>,
                      NEW g \in expected
               PROVE  g \in rows
    BY DEF EverybodyIsShown
  <2>1. Underway(g) /\ g \in Servers
    BY DEF ListInv, ShownInv, Registered
  <2>2. ~Told(g) /\ ~Answered(g) /\ ~On(events, g)
    BY DEF ListSettled, Told, Answered, On
  <2> QED
    BY <2>1, <2>2, ListerTypes DEF Underway, ListSettled
<1> QED
  BY <1>1, <1>2, <1>3, PTL DEF ListSpec

=============================================================================
