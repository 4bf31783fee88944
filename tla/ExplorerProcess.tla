-------------------------- MODULE ExplorerProcess --------------------------
(***************************************************************************)
(* The explorer process and the sync processes it forks (app/main.ts,      *)
(* Explorer.ts, Platform.ts, sync/listener, sync/sender, sync.ts,          *)
(* Synchronizer.ts, SyncPlatform.ts, Proxy.processSyncMessage and          *)
(* PgService's connection): start-up, messages, failures and shutdown.     *)
(*                                                                         *)
(* One run of each process; an action is what runs from one callback,      *)
(* await or timer to the next.  Abstracted: what a sync process does with  *)
(* a block is storing it and telling the parent, or failing in between,    *)
(* since BlockSync has the rest; several 2 s timers of failures are one;   *)
(* an error of the database connection has no code                         *)
(* PROTOCOL_CONNECTION_LOST, which only MySQL clients use; the sync type   *)
(* is "local".                                                             *)
(***************************************************************************)
EXTENDS Integers, Sequences, FiniteSets

CONSTANTS
  Networks,    \* network_configs: one sync process each
  Explorer,    \* the explorer process, as a holder of a database connection
  Browsers,    \* connections to the server, all of them web sockets
  None,        \* no exit code yet
  MaxBlocks,   \* bound: blocks of one network
  MaxCommits,  \* bound: blocks of all networks together
  MaxFaults,   \* bound: exceptions and failed connections
  MaxKills     \* bound: times the explorer process is killed

Processes == {Explorer} \cup Networks
Codes     == {0, 1}

ASSUME ExplorerAssumption == Explorer \notin Networks
ASSUME CodeAssumption == None \notin Codes
ASSUME BoundAssumption == MaxBlocks \in Nat /\ MaxFaults \in Nat /\ MaxKills \in Nat

VARIABLES
  \* the explorer process
  parent,     \* "up", "exited" by itself, or "killed"
  stage,      \* where startExplorer is
  todo,       \* networks buildClients has still to visit
  client,     \* [network]: its entry of Platform.networks
  failing,    \* the 2 s timer set by an unhandled exception
  closeCode,  \* code the first call of shutDown was given
  destroyed,  \* the 5 s timer of shutDown has fired
  exitCode,   \* code the process ended with
  conn,       \* [browser]: its connection
  told,       \* [browser][network]: the blocks it was told of
  broadcasts, \* [network]: blocks that were broadcast
  \* the sync processes
  child,      \* [network]: its sync process
  asked,      \* [network]: SIGINT was sent to it by its parent
  ipc,        \* [network]: messages on their way to the parent
  stored,     \* [network]: blocks it has stored
  stranded,   \* [network]: blocks whose key is left in its blocksInProcess
  sent,       \* [network]: blocks it has sent a message for, in that order
  \* both
  db,         \* [process]: its database connection
  retry,      \* [process]: the 2 s timer of handleDisconnect is set
  \* outside
  height,     \* [network]: blocks committed
  faults,
  kills

server   == <<stage, todo, client>>
stopping == <<failing, closeCode, destroyed, exitCode>>
browsers == <<conn, told, broadcasts>>
blocks   == <<stored, stranded, sent>>
workers  == <<child, asked, ipc, stored, stranded, sent>>
base     == <<db, retry>>
bounds   == <<height, faults, kills>>
vars == <<parent, server, stopping, browsers, workers, base, bounds>>

Message == [type : {"block", "channel", "existChannel"}, block : 0 .. MaxBlocks]
Blocks  == 1 .. MaxBlocks
Sent(n) == {sent[n][i] : i \in 1 .. Len(sent[n])}

TypeOK ==
  /\ parent \in {"up", "exited", "killed"}
  /\ stage \in {"database", "clients", "serving", "rejected"}
  /\ todo \subseteq Networks
  /\ client \in [Networks -> {"none", "detached", "connected"}]
  /\ failing \in BOOLEAN /\ destroyed \in BOOLEAN
  /\ closeCode \in Codes \cup {None} /\ exitCode \in Codes \cup {None}
  /\ conn \in [Browsers -> {"none", "open", "ended"}]
  /\ told \in [Browsers -> [Networks -> Seq(Blocks)]]
  /\ broadcasts \in [Networks -> SUBSET Blocks]
  /\ child \in [Networks -> {"none", "loading", "running", "closing", "exited"}]
  /\ asked \in [Networks -> BOOLEAN]
  /\ ipc \in [Networks -> Seq(Message)]
  /\ stored \in [Networks -> SUBSET Blocks] /\ stranded \in [Networks -> SUBSET Blocks]
  /\ sent \in [Networks -> Seq(Blocks)]
  /\ db \in [Processes -> {"off", "up", "failed"}]
  /\ retry \in [Processes -> BOOLEAN]
  /\ height \in [Networks -> 0 .. MaxBlocks]
  /\ faults \in 0 .. MaxFaults /\ kills \in 0 .. MaxKills

Init ==
  /\ parent = "up"
  /\ stage = "database"
  /\ todo = Networks
  /\ client = [n \in Networks |-> "none"]
  /\ failing = FALSE /\ destroyed = FALSE
  /\ closeCode = None /\ exitCode = None
  /\ conn = [b \in Browsers |-> "none"]
  /\ told = [b \in Browsers |-> [n \in Networks |-> <<>>]]
  /\ broadcasts = [n \in Networks |-> {}]
  /\ child = [n \in Networks |-> "none"]
  /\ asked = [n \in Networks |-> FALSE]
  /\ ipc = [n \in Networks |-> <<>>]
  /\ stored = [n \in Networks |-> {}] /\ stranded = [n \in Networks |-> {}]
  /\ sent = [n \in Networks |-> <<>>]
  /\ db = [p \in Processes |-> "off"]
  /\ retry = [p \in Processes |-> FALSE]
  /\ height = [n \in Networks |-> 0]
  /\ faults = 0 /\ kills = 0

Up == parent = "up"

(* A fault happens; there are MaxFaults of them.                           *)
Fault == faults < MaxFaults /\ faults' = faults + 1

-----------------------------------------------------------------------------
(* startExplorer.  A server that does not listen yet is closed at once, so *)
(* start-up goes on only before shutDown.                                  *)

Starting == Up /\ closeCode = None

(* handleDisconnect resolves whether it has connected or not: after a      *)
(* failure the callers go on, with a timer behind their backs.             *)
ConnectDatabase ==
  /\ Starting /\ stage = "database"
  /\ stage' = "clients"
  /\ \/ /\ db' = [db EXCEPT ![Explorer] = "up"]
        /\ UNCHANGED <<retry, faults>>
     \/ /\ Fault
        /\ db' = [db EXCEPT ![Explorer] = "failed"]
        /\ retry' = [retry EXCEPT ![Explorer] = TRUE]
  /\ UNCHANGED <<parent, todo, client, stopping, browsers, workers, height, kills>>

(* createFabricClient: the peer answers, or the client is detached.        *)
CreateFabricClient(n, status) == client' = [client EXCEPT ![n] = status]

(* initializeDetachClient makes the client from the database, in a promise *)
(* nobody waits for; it is rejected when there is no channel (ERROR_2003). *)
InitializeDetachClient(n) ==
  /\ CreateFabricClient(n, "detached")
  /\ \/ UNCHANGED <<failing, faults>>
     \/ Fault /\ failing' = TRUE

(* One pass of buildClients; when the administrator cannot be registered   *)
(* the network is left out.                                                *)
BuildClient(n) ==
  /\ Starting /\ stage = "clients" /\ n \in todo
  /\ todo' = todo \ {n}
  /\ \/ UNCHANGED <<client, failing, faults>>
     \/ CreateFabricClient(n, "connected") /\ UNCHANGED <<failing, faults>>
     \/ InitializeDetachClient(n)
  /\ UNCHANGED <<parent, stage, closeCode, destroyed, exitCode, browsers, workers,
                 base, height, kills>>

(* initializeListener forks a sync process for each network whose peer     *)
(* answered, and the server listens; with no client at all ERROR_2008.     *)
InitializeListener ==
  /\ Starting /\ stage = "clients" /\ todo = {}
  /\ IF \A n \in Networks : client[n] = "none"
     THEN /\ stage' = "rejected" /\ failing' = TRUE
          /\ UNCHANGED child
     ELSE /\ stage' = "serving"
          /\ child' = [n \in Networks |->
                         IF client[n] = "connected" THEN "loading" ELSE child[n]]
          /\ UNCHANGED failing
  /\ UNCHANGED <<parent, todo, client, closeCode, destroyed, exitCode, browsers,
                 asked, ipc, blocks, base, bounds>>

(* An exception of initialize, of createFabricClient (ERROR_2014) or of a  *)
(* configuration without persistence: startExplorer is rejected.           *)
StartFails ==
  /\ Starting /\ stage \in {"database", "clients"} /\ Fault
  /\ stage' = "rejected" /\ failing' = TRUE
  /\ UNCHANGED <<parent, todo, client, closeCode, destroyed, exitCode, browsers,
                 workers, base, height, kills>>

StartExplorer ==
  \/ ConnectDatabase
  \/ \E n \in Networks : BuildClient(n)
  \/ InitializeListener
  \/ StartFails

-----------------------------------------------------------------------------
(* Messages of the sync processes and the web sockets.                     *)

Listening == Up /\ stage = "serving" /\ closeCode = None

OnConnection(b) ==
  /\ Listening /\ conn[b] = "none"
  /\ conn' = [conn EXCEPT ![b] = "open"]
  /\ UNCHANGED <<parent, server, stopping, told, broadcasts, workers, base, bounds>>

OnClose(b) ==
  /\ conn[b] # "none"
  /\ conn' = [conn EXCEPT ![b] = "none"]
  /\ UNCHANGED <<parent, server, stopping, told, broadcasts, workers, base, bounds>>

(* Every client that is connected gets it.                                 *)
Broadcast(n, k) ==
  /\ told' = [b \in Browsers |->
                IF conn[b] = "open" THEN [told[b] EXCEPT ![n] = Append(@, k)]
                                    ELSE told[b]]
  /\ broadcasts' = [broadcasts EXCEPT ![n] = @ \cup {k}]

(* MUTANT of ProcessSyncMessage: the message stays in the pipe.            *)
ProcessedTwice(n) ==
  /\ Up /\ ipc[n] # <<>> /\ Head(ipc[n]).type = "block"
  /\ Broadcast(n, Head(ipc[n]).block)
  /\ UNCHANGED <<parent, server, stopping, conn, workers, base, bounds>>

(* processSyncMessage: a block is broadcast.  What a message about a       *)
(* channel starts is not waited for and may be rejected (the genesis block *)
(* is null, a request fails); EXISTCHANNEL throws.  Both are exceptions    *)
(* nobody handles.                                                         *)
ProcessSyncMessage(n) ==
  /\ Up /\ ipc[n] # <<>>
  /\ ipc' = [ipc EXCEPT ![n] = Tail(@)]
  /\ LET msg == Head(ipc[n])
     IN  CASE msg.type = "block" ->
                /\ Broadcast(n, msg.block)
                /\ UNCHANGED <<failing, faults>>
           [] msg.type = "channel" ->
                /\ \/ UNCHANGED <<failing, faults>>
                   \/ Fault /\ failing' = TRUE
                /\ UNCHANGED <<told, broadcasts>>
           [] OTHER ->
                /\ failing' = TRUE
                /\ UNCHANGED <<told, broadcasts, faults>>
  /\ UNCHANGED <<parent, server, closeCode, destroyed, exitCode, conn, child, asked,
                 blocks, base, height, kills>>

-----------------------------------------------------------------------------
(* How the explorer process ends.                                          *)

(* The retry is called without its object: it throws where it would        *)
(* connect, and again where it would set its timer.                        *)
HandleDisconnect ==
  /\ Up /\ retry[Explorer]
  /\ retry' = [retry EXCEPT ![Explorer] = FALSE]
  /\ failing' = TRUE
  /\ UNCHANGED <<parent, server, closeCode, destroyed, exitCode, browsers, workers,
                 db, bounds>>

(* The listener of the connection's errors throws.                         *)
ConnectionLost ==
  /\ Up /\ db[Explorer] = "up" /\ Fault
  /\ db' = [db EXCEPT ![Explorer] = "failed"]
  /\ failing' = TRUE
  /\ UNCHANGED <<parent, server, closeCode, destroyed, exitCode, browsers, workers,
                 retry, height, kills>>

(* shutDown: no new connections, and an end to those there are.            *)
ShutDown(code) ==
  /\ closeCode' = IF closeCode = None THEN code ELSE closeCode
  /\ conn' = [b \in Browsers |-> IF conn[b] = "open" THEN "ended" ELSE conn[b]]

(* SIGTERM and SIGINT; the name of the signal as a code is 0.              *)
Signal ==
  /\ Up /\ closeCode = None /\ ShutDown(0)
  /\ UNCHANGED <<parent, server, failing, destroyed, exitCode, told, broadcasts,
                 workers, base, bounds>>

(* MUTANT of FailureTimer: the exception is only logged.                   *)
FailureLogged ==
  /\ Up /\ failing
  /\ failing' = FALSE
  /\ UNCHANGED <<parent, server, closeCode, destroyed, exitCode, browsers, workers,
                 base, bounds>>

(* 2 s after an unhandled rejection or an uncaught exception.              *)
FailureTimer ==
  /\ Up /\ failing /\ ShutDown(1)
  /\ failing' = FALSE
  /\ UNCHANGED <<parent, server, destroyed, exitCode, told, broadcasts, workers,
                 base, bounds>>

(* MUTANT of DestroyConnections: waits until the sockets have closed.      *)
DestroyClosed ==
  /\ Up /\ closeCode # None /\ ~destroyed
  /\ \A b \in Browsers : conn[b] = "none"
  /\ destroyed' = TRUE
  /\ UNCHANGED <<parent, server, failing, closeCode, exitCode, browsers,
                 workers, base, bounds>>

(* 5 s after shutDown.                                                     *)
DestroyConnections ==
  /\ Up /\ closeCode # None /\ ~destroyed
  /\ destroyed' = TRUE
  /\ conn' = [b \in Browsers |-> "none"]
  /\ UNCHANGED <<parent, server, failing, closeCode, exitCode, told, broadcasts,
                 workers, base, bounds>>

(* MUTANT of CloseExplorer: only processes that have started are asked.    *)
CloseStarted ==
  /\ db' = [db EXCEPT ![Explorer] = "off"]
  /\ asked' = [n \in Networks |-> asked[n] \/ child[n] = "running"]

(* explorer.close: the connection to the database is ended and SIGINT is   *)
(* sent to the sync process of each listener of the platforms.             *)
CloseExplorer ==
  /\ db' = [db EXCEPT ![Explorer] = "off"]
  /\ asked' = [n \in Networks |-> asked[n] \/ child[n] # "none"]

(* What a process that is gone leaves: nothing is read from the pipes.     *)
Gone(how, code) ==
  /\ parent' = how
  /\ exitCode' = code
  /\ conn' = [b \in Browsers |-> "none"]
  /\ ipc' = [n \in Networks |-> <<>>]
  /\ retry' = [retry EXCEPT ![Explorer] = FALSE]
  /\ failing' = FALSE
  /\ UNCHANGED <<server, closeCode, destroyed, told, broadcasts, child, blocks,
                 height, faults>>

(* The callback of server.close: the last connection is closed.            *)
ServerClosed ==
  /\ Up /\ closeCode # None
  /\ \A b \in Browsers : conn[b] = "none"
  /\ CloseExplorer /\ Gone("exited", closeCode)
  /\ UNCHANGED kills

(* MUTANT of ForcedExit: exits as if all had gone well.                    *)
ForcedExitSucceeds ==
  /\ Up /\ destroyed
  /\ CloseExplorer /\ Gone("exited", 0)
  /\ UNCHANGED kills

(* 10 s after shutDown.                                                    *)
ForcedExit ==
  /\ Up /\ destroyed
  /\ CloseExplorer /\ Gone("exited", 1)
  /\ UNCHANGED kills

Kill ==
  /\ Up /\ kills < MaxKills
  /\ kills' = kills + 1
  /\ db' = [db EXCEPT ![Explorer] = "off"]
  /\ Gone("killed", None)
  /\ UNCHANGED asked

Serve ==
  \/ \E b \in Browsers : OnConnection(b) \/ OnClose(b)
  \/ \E n \in Networks : ProcessSyncMessage(n)

Exit ==
  \/ HandleDisconnect
  \/ ConnectionLost
  \/ Signal
  \/ FailureTimer
  \/ DestroyConnections
  \/ ServerClosed
  \/ ForcedExit
  \/ Kill

-----------------------------------------------------------------------------
(* A sync process.                                                         *)

explorerOnly == <<parent, server, stopping, browsers>>

(* shutDown of sync.ts: the connection is ended, so nothing is stored any  *)
(* more, and the process exits 2 s later.                                  *)
ChildShutDown(n) ==
  /\ child' = [child EXCEPT ![n] = "closing"]
  /\ db' = [db EXCEPT ![n] = "off"]
  /\ retry' = [retry EXCEPT ![n] = FALSE]

(* Synchronizer.initialize, to the end of SyncPlatform.initialize.         *)
ChildStart(n) ==
  /\ child[n] = "loading"
  /\ child' = [child EXCEPT ![n] = "running"]
  /\ \/ /\ db' = [db EXCEPT ![n] = "up"]
        /\ UNCHANGED <<retry, faults>>
     \/ /\ Fault
        /\ db' = [db EXCEPT ![n] = "failed"]
        /\ retry' = [retry EXCEPT ![n] = TRUE]
  /\ UNCHANGED <<explorerOnly, asked, ipc, blocks, height, kills>>

(* A block gets its row.  Rounds and the listener are on their way with    *)
(* several blocks at once, blocksInProcess only keeps them from the same.  *)
ChildStore(n) ==
  /\ child[n] = "running" /\ db[n] = "up"
  /\ \E k \in (1 .. height[n]) \ (stored[n] \cup stranded[n]) :
       stored' = [stored EXCEPT ![n] = @ \cup {k}]
  /\ UNCHANGED <<explorerOnly, child, asked, ipc, stranded, sent, base, bounds>>

(* A statement is rejected after the key was pushed, before the row is     *)
(* inserted or with the counter that follows it: nothing takes the key     *)
(* away, so the block is not processed again and no message is sent.  What *)
(* a round rejects is logged, and so is a time-out: the process goes on.   *)
ChildStrands(n) ==
  /\ child[n] = "running" /\ Fault
  /\ \E k \in (1 .. height[n]) \ (Sent(n) \cup stranded[n]) :
       stranded' = [stranded EXCEPT ![n] = @ \cup {k}]
  /\ UNCHANGED <<explorerOnly, child, asked, ipc, stored, sent, base, height, kills>>

(* MUTANT of Send: the message is dropped when there is no parent.         *)
SendDrops(n, msg) ==
  /\ ipc' = IF Up THEN [ipc EXCEPT ![n] = Append(@, msg)] ELSE ipc
  /\ UNCHANGED <<child, base>>

(* process.send: without a parent an exception nobody handles.             *)
Send(n, msg) ==
  IF Up
  THEN /\ ipc' = [ipc EXCEPT ![n] = Append(@, msg)]
       /\ UNCHANGED <<child, base>>
  ELSE /\ ChildShutDown(n)
       /\ UNCHANGED ipc


(* A saveBlock that has inserted its row comes back.                       *)
ChildSendBlock(n) ==
  /\ child[n] = "running"
  /\ \E k \in stored[n] \ (stranded[n] \cup Sent(n)) :
       /\ Send(n, [type |-> "block", block |-> k])
       /\ sent' = [sent EXCEPT ![n] = Append(@, k)]
  /\ UNCHANGED <<explorerOnly, asked, stored, stranded, bounds>>

(* A channel was added or its configuration changed; a channel of the same *)
(* name has another genesis block.                                         *)
ChildSendOther(n) ==
  /\ child[n] = "running" /\ ipc[n] = <<>> /\ Fault
  /\ \E type \in {"channel", "existChannel"} : Send(n, [type |-> type, block |-> 0])
  /\ UNCHANGED <<explorerOnly, asked, blocks, height, kills>>

(* An exception that is no timeout, a lost connection, a signal from       *)
(* outside.                                                                *)
ChildFails(n) ==
  /\ child[n] \in {"loading", "running"} /\ Fault
  /\ ChildShutDown(n)
  /\ UNCHANGED <<explorerOnly, asked, ipc, blocks, height, kills>>

(* The retry after a failed connection, as in HandleDisconnect.            *)
ChildHandleDisconnect(n) ==
  /\ child[n] = "running" /\ retry[n]
  /\ ChildShutDown(n)
  /\ UNCHANGED <<explorerOnly, asked, ipc, blocks, bounds>>

(* The parent's SIGINT arrives; before sync.ts has set its handlers it     *)
(* ends the process.                                                       *)
ChildSignalled(n) ==
  /\ asked[n]
  /\ \/ child[n] \in {"loading", "running"} /\ ChildShutDown(n)
     \/ /\ child[n] = "loading"
        /\ child' = [child EXCEPT ![n] = "exited"]
        /\ UNCHANGED base
  /\ UNCHANGED <<explorerOnly, asked, ipc, blocks, bounds>>

(* 2 s after shutDown.                                                     *)
ChildExit(n) ==
  /\ child[n] = "closing"
  /\ child' = [child EXCEPT ![n] = "exited"]
  /\ UNCHANGED <<explorerOnly, asked, ipc, blocks, base, bounds>>

SyncProcess(n) ==
  \/ ChildStart(n) \/ ChildStore(n) \/ ChildStrands(n) \/ ChildSendBlock(n)
  \/ ChildSendOther(n) \/ ChildFails(n) \/ ChildHandleDisconnect(n)
  \/ ChildSignalled(n) \/ ChildExit(n)

Committed == {m \in Networks \X Blocks : m[2] <= height[m[1]]}

Commit(n) ==
  /\ height[n] < MaxBlocks /\ Cardinality(Committed) < MaxCommits
  /\ height' = [height EXCEPT ![n] = @ + 1]
  /\ UNCHANGED <<explorerOnly, workers, base, faults, kills>>

Next ==
  \/ StartExplorer
  \/ Serve
  \/ Exit
  \/ \E n \in Networks : SyncProcess(n) \/ Commit(n)

(* Timers fire, callbacks that are due run, a running process gets its     *)
(* turn.  Nothing is assumed of browsers, faults, signals or the ledger.   *)
Fairness ==
  /\ WF_vars(HandleDisconnect) /\ WF_vars(FailureTimer)
  /\ WF_vars(DestroyConnections) /\ WF_vars(ServerClosed) /\ WF_vars(ForcedExit)
  /\ \A n \in Networks :
       /\ WF_vars(ProcessSyncMessage(n))
       /\ WF_vars(ChildStart(n)) /\ WF_vars(ChildStore(n)) /\ WF_vars(ChildSendBlock(n))
       /\ WF_vars(ChildHandleDisconnect(n)) /\ WF_vars(ChildSignalled(n))
       /\ WF_vars(ChildExit(n))

Spec     == Init /\ [][Next]_vars
LiveSpec == Spec /\ Fairness

-----------------------------------------------------------------------------
(* Properties.                                                             *)

(* main.ts has two ways out after shutDown, the callback of server.close   *)
(* and the 10 s timer: by either, every sync process has been asked to end.*)
NoChildLeftBehind ==
  parent = "exited" => \A n \in Networks : child[n] # "none" => asked[n]

(* The exit code tells a stop that was asked for from a failure, whatever  *)
(* comes first: 0 only for a process that shut down because of a signal.   *)
CodeTellsFailure ==
  /\ exitCode = 0 => closeCode = 0
  /\ parent = "exited" /\ closeCode = 1 => exitCode = 1

(* In the sequence s block j comes before block k.                         *)
Precedes(s, j, k) == \E p, q \in 1 .. Len(s) : p < q /\ s[p] = j /\ s[q] = k

(* Whatever mixes in the pipes, however sockets come and go and in         *)
(* whatever order the blocks of a network are stored, a browser is told of *)
(* them in the order their messages were sent, of each at most once and    *)
(* only when its row can be read (saveBlock before platform.send, one pipe *)
(* for each network, Broadcaster).                                         *)
ToldAsSent ==
  \A n \in Networks :
    /\ \A k \in Sent(n) : ~Precedes(sent[n], k, k)
    /\ \A b \in Browsers :
         /\ \A i \in 1 .. Len(told[b][n]) : told[b][n][i] \in stored[n]
         /\ \A i, j \in 1 .. Len(told[b][n]) : i < j =>
              Precedes(sent[n], told[b][n][i], told[b][n][j])

(* Sockets that never close do not keep a process that is shutting down.   *)
ShutDownEnds == closeCode # None ~> parent # "up"

(* An exception nobody handles, and a failed connection to the database,   *)
(* end the explorer, wherever start-up was.                                *)
FailureEnds == failing \/ retry[Explorer] ~> parent # "up"

(* When the explorer has stopped by itself its sync processes stop too.    *)
ChildrenEnd ==
  \A n \in Networks :
    parent = "exited" ~> child[n] \in {"none", "exited"}

(* A sync process whose parent was killed stops when it next stores a      *)
(* block, unless the block is stranded: it cannot send the message.        *)
OrphanStops ==
  \A n \in Networks : \A k \in Blocks :
    parent # "up" /\ height[n] >= k /\ k \notin stored[n]
      ~> child[n] \in {"none", "exited"} \/ k \in stranded[n]


(* The states of the processes as Supervision sees them.                   *)
WorkerState(n) ==
  CASE child[n] = "none"   -> "none"
    [] child[n] = "exited" -> "down"
    [] OTHER               -> IF asked[n] THEN "asked" ELSE "up"

S == INSTANCE Supervision WITH
       parent <- IF Up THEN "up" ELSE "down",
       worker <- [n \in Networks |-> WorkerState(n)]

(* The explorer with its sync processes implements Supervision.            *)
SupervisionSpec == S!Spec

-----------------------------------------------------------------------------
(* What the documentation says and the code does not do (README, 5).       *)

(* When the timer of a failed connection fires, the explorer connects or   *)
(* waits again (PgService.ts:126, "We introduce a delay before attempting  *)
(* to reconnect").                                                         *)
RetryConnects ==
  [][Up' /\ retry[Explorer] /\ ~retry'[Explorer] => db'[Explorer] = "up"]_vars

=============================================================================
