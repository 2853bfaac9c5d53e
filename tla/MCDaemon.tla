------------------------------ MODULE MCDaemon -------------------------------
(***************************************************************************)
(* The parts of a daemon apart from its sources, one at a time: processes  *)
(* that come to own the socket path, processes that create the storage     *)
(* directory, and the loop that serves clients.  They follow one another   *)
(* in a process and share no variable; `setting` says which one it is.     *)
(***************************************************************************)
EXTENDS SocketOwner

CONSTANTS pa, pb, pc

VARIABLES
  setting,
  cStage, cLocked, seen, kept, receipts, cTroubles,
  backlog, sent, asked, gone, got, phase, budget, index, connections, out,
  expired, stopping, next_source, served, rows, health

creationState == <<cStage, cLocked, seen, kept, receipts, cTroubles>>
serverState ==
    <<backlog, sent, asked, gone, got, phase, budget, index, connections, out,
      expired, stopping, next_source, served, rows, health>>
daemonVars == <<setting, socketVars, creationState, serverState>>

(* All processes are given the same storage. *)
MCOneStorage == [x \in Processes |-> "store"]

(* "power": one process creates the storage, and power is lost.  "owners": *)
(* two create and open it, and stop.  "deaths": anything may happen.       *)
Creation(c) == INSTANCE StoreCreation WITH
    Processes <- c.processes, Troubles <- c.kinds, MaxTroubles <- c.troubles,
    MaxReceipts <- c.receipts,
    stage <- cStage, locked <- cLocked, troubles <- cTroubles
Power ==
    [processes |-> {pa}, kinds |-> {"stop", "power"}, troubles |-> 3, receipts |-> 4]
Owners ==
    [processes |-> {pa, pb}, kinds |-> {"stop"}, troubles |-> 2, receipts |-> 2]
Deaths ==
    [processes |-> {pa, pb}, kinds |-> {"stop", "death", "power"}, troubles |-> 3,
     receipts |-> 2]

(* The requests of clients: every kind of them, and one identity with two  *)
(* bodies; or one to store and one to stop.                                *)
Request(kind, id, body) == [kind |-> kind, id |-> id, body |-> body]
MCEvery ==
    {Request("submit", 1, 1), Request("submit", 1, 2), Request("submit", 2, 1)} \union
    {Request(kind, 0, 0) : kind \in
       {"reserved", "status", "read", "stop", "unknown", "garbage"}}
MCStops == {Request("submit", 1, 1), Request("stop", 0, 0)}

(* "requests": two clients that ask for anything.  "foreign": one of three *)
(* is of another user.  "limit": two clients, one connection and three     *)
(* sources, polled in turn by a counter that wraps.                        *)
Server(s) == INSTANCE SpindleServer WITH
    Clients <- s.clients, Foreign <- s.foreign, Requests <- s.requests,
    MaxConnections <- s.limit, SourceCount <- s.sources, Wrap <- s.wrap
Asking ==
    [clients |-> {pa, pb}, foreign |-> {}, requests |-> MCEvery, limit |-> 2,
     sources |-> 1, wrap |-> 1]
Crowded ==
    [clients |-> {pa, pb, pc}, foreign |-> {pc}, requests |-> {Request("stop", 0, 0)},
     limit |-> 2, sources |-> 0, wrap |-> 1]
Limited ==
    [clients |-> {pa, pb}, foreign |-> {}, requests |-> MCStops, limit |-> 1,
     sources |-> 3, wrap |-> 4]

Settings == {"socket", "power", "owners", "deaths", "requests", "foreign", "limit"}

DaemonInit ==
    /\ setting \in Settings
    /\ SocketInit
    /\ IF setting = "power" THEN Creation(Power)!CreationInit ELSE Creation(Owners)!CreationInit
    /\ CASE setting = "requests" -> Server(Asking)!ServerInit
         [] setting = "foreign" -> Server(Crowded)!ServerInit
         [] OTHER -> Server(Limited)!ServerInit

-----------------------------------------------------------------------------
Setting(s) == setting = s /\ UNCHANGED setting

Socket(action) == Setting("socket") /\ action /\ UNCHANGED <<creationState, serverState>>
Served(action) == Setting("limit") /\ action /\ UNCHANGED <<socketVars, creationState>>
Created(action) == Setting("owners") /\ action /\ UNCHANGED <<socketVars, serverState>>

SocketStep == Setting("socket") /\ SocketNext /\ UNCHANGED <<creationState, serverState>>
PowerStep == Setting("power") /\ Creation(Power)!CreationNext /\ UNCHANGED <<socketVars, serverState>>
OwnersStep == Setting("owners") /\ Creation(Owners)!CreationNext /\ UNCHANGED <<socketVars, serverState>>
DeathsStep == Setting("deaths") /\ Creation(Deaths)!CreationNext /\ UNCHANGED <<socketVars, serverState>>
RequestsStep == Setting("requests") /\ Server(Asking)!ServerNext /\ UNCHANGED <<socketVars, creationState>>
ForeignStep == Setting("foreign") /\ Server(Crowded)!ServerNext /\ UNCHANGED <<socketVars, creationState>>
LimitStep == Setting("limit") /\ Server(Limited)!ServerNext /\ UNCHANGED <<socketVars, creationState>>

DaemonNext ==
    \/ SocketStep \/ PowerStep \/ OwnersStep \/ DeathsStep
    \/ RequestsStep \/ ForeignStep \/ LimitStep

(* Processes that are down are started again and run on, the loop runs and *)
(* the clock goes on; clients need not do anything.                        *)
DaemonSpec ==
    /\ DaemonInit /\ [][DaemonNext]_daemonVars
    /\ \A x \in Processes : WF_daemonVars(Socket(Step(x)))
    /\ \A x \in {pa, pb} : WF_daemonVars(Created(Creation(Owners)!Step(x)))
    /\ WF_daemonVars(Served(Server(Limited)!Tick))
    /\ \A x \in {pa, pb} : WF_daemonVars(Served(Server(Limited)!Expire(x)))

-----------------------------------------------------------------------------
(* Replies are true, health counts what is stored, and nothing is stored   *)
(* of a client past its deadline.                                          *)
RequestsAreServed ==
    /\ [](Server(Asking)!RepliesAreTrue /\ Server(Asking)!HealthCountsRows)
    /\ [][Server(Asking)!LateIsNotStored]_serverState

(* Each connection is served once per tick, and a stop request is final.   *)
LoopIsOrderly ==
    /\ [](setting \in {"requests", "foreign", "limit"} => Server(Limited)!EachServedOnce)
    /\ [][Server(Limited)!StopIsFinal]_serverState

(* Clients that do nothing keep no connection for ever and no daemon from  *)
(* ending, and no source waits for ever.                                   *)
LoopGoesOn ==
    /\ []<>~(setting = "limit" /\ Server(Limited)!KeptByClients)
    /\ \A s \in 0..2 :
         []<>(setting # "limit" \/ Server(Limited)!TurnOf(s))

(* Nothing is stored in a directory that others may read, and a receipt    *)
(* outlives the loss of power, where no process died before.               *)
StorageIsSafe ==
    /\ setting = "power" => Creation(Power)!StorageIsSafe
    /\ setting = "owners" => Creation(Owners)!StorageIsSafe
    /\ setting = "deaths" => Creation(Deaths)!StorageIsSafe

(* Whatever files earlier processes left behind, one that is started again *)
(* comes up, and one that stops leaves the storage to the next.            *)
ComesUpAgain ==
    []<>~(\/ setting = "socket" /\ troubles = MaxTroubles
                /\ \A x \in Processes : stage[x] # "running"
          \/ setting = "owners" /\ cTroubles = 2
                /\ \A x \in {pa, pb} : cStage[x] # "open")

-----------------------------------------------------------------------------
(* What documents say and the code does not do (README, disagreements).    *)

(* Initial directory creation survives a crash: it is not left half done,  *)
(* for the next open to refuse.                                            *)
CreationSurvives == setting = "deaths" => Creation(Deaths)!CreationGoesOn

(* Initial directory creation survives a crash: receipts of later          *)
(* processes outlive the loss of power.                                    *)
ReceiptsSurvive == setting = "deaths" => Creation(Deaths)!ReceiptsOutliveOutage
=============================================================================
