--------------------------- MODULE SharedDatabase ---------------------------
(***************************************************************************)
(* Several sync processes on one database: one for each network profile of *)
(* a configuration whose profiles look at the same channel, and those an   *)
(* explorer that was killed has left behind beside those of the explorer   *)
(* that was started after it (SyncService.syncBlocks, processBlockEvent,   *)
(* CRUDService.saveBlock and isBlockAvailableInDB,                         *)
(* MetricService.findMissingBlockNumber, ForkSenderHandler.send, sync.ts). *)
(*                                                                         *)
(* An action is the code from one await to the next.  Abstracted: the      *)
(* transactions of a block, and answers and statements that fail, which    *)
(* are in BlockSync; a task is a round of syncBlocks, every block of the   *)
(* ledger is wanted; how processes start is in ExplorerProcess.            *)
(***************************************************************************)
EXTENDS Integers, FiniteSets

CONSTANTS
  Networks,     \* network profiles, all with the channel: one genesis hash
  Tasks,        \* rounds one sync process may have in flight at once
  MaxHeight,    \* bound: blocks the ledger grows to
  Generations,  \* bound: the explorer is started this often
  Histories     \* [start of the explorer -> network profiles of its configuration]

ASSUME NetworksAssumption == IsFiniteSet(Networks)
ASSUME TasksAssumption == IsFiniteSet(Tasks)
ASSUME HistoriesAssumption == Histories \subseteq [1 .. Generations -> SUBSET Networks]
ASSUME BoundAssumption == MaxHeight \in Nat \ {0} /\ Generations \in Nat \ {0}

Blocks    == 0 .. MaxHeight - 1
Processes == Networks \X (1 .. Generations)

VARIABLES
  height,     \* blocks in the ledger
  \* the database
  rows,       \* [network][block]: rows of table blocks
  counter,    \* [network]: column blocks of its row of table channel
  \* the explorers
  explorer,   \* the one started last: "up", "stopping" or "gone"
  generation, \* how often it was started
  configured, \* [start of the explorer]: network profiles in config.json then
  announced,  \* [network][block]: notifications the explorers were sent
  \* the sync processes
  status,     \* [process]
  asked,      \* [process]: SIGINT was sent to it
  busy,       \* [process]: blocksInProcess
  task,       \* [process][task]: where it is suspended
  orphaned    \* history, [process]: blocks stored when its parent was gone

database == <<rows, counter>>
parents  == <<explorer, generation, configured, announced>>
vars == <<height, database, parents, status, asked, busy, task, orphaned>>

Labels == {"off", "load", "missing", "enter", "count", "insert", "counter",
           "announce", "leave"}

(* pc: the await; latest: latestBlockHeight of the round; loop: its loop,  *)
(* and todo what that has still to visit; blk: the block it is at.         *)
Task == [pc : Labels, latest : Blocks, loop : {"load", "missing"}, blk : Blocks,
         todo : SUBSET Blocks]
Idle == [pc |-> "off", latest |-> 0, loop |-> "load", blk |-> 0, todo |-> {}]

TypeOK ==
  /\ height \in 1 .. MaxHeight
  /\ rows \in [Networks -> [Blocks -> Nat]] /\ counter \in [Networks -> Nat]
  /\ explorer \in {"up", "stopping", "gone"} /\ generation \in 1 .. Generations
  /\ configured \in Histories
  /\ announced \in [Networks -> [Blocks -> Nat]]
  /\ status \in [Processes -> {"off", "running", "closing", "exited"}]
  /\ asked \in [Processes -> BOOLEAN]
  /\ busy \in [Processes -> SUBSET Blocks]
  /\ task \in [Processes -> [Tasks -> Task]]
  /\ orphaned \in [Processes -> SUBSET Blocks]

(* Start g of the explorer forks a process for each profile configured.    *)
Forked(p, g) == p[2] = g /\ p[1] \in configured[g]

Init ==
  /\ height \in 1 .. MaxHeight
  /\ rows = [n \in Networks |-> [b \in Blocks |-> 0]]
  /\ counter = [n \in Networks |-> 0]
  /\ explorer = "up" /\ generation = 1 /\ configured \in Histories
  /\ announced = [n \in Networks |-> [b \in Blocks |-> 0]]
  /\ status = [p \in Processes |-> IF Forked(p, 1) THEN "running" ELSE "off"]
  /\ asked = [p \in Processes |-> FALSE]
  /\ busy = [p \in Processes |-> {}]
  /\ task = [p \in Processes |-> [t \in Tasks |-> Idle]]
  /\ orphaned = [p \in Processes |-> {}]

NetworkOf(p) == p[1]
HasParent(p) == explorer # "gone" /\ generation = p[2]
Running(p)   == status[p] = "running"

(* A task of a running process is at an await.                             *)
At(p, t, label) == Running(p) /\ task[p][t].pc = label

Goto(p, t, label) == task' = [task EXCEPT ![p][t].pc = label]

-----------------------------------------------------------------------------
(* External: the ledger.                                                   *)
Commit ==
  /\ height < MaxHeight
  /\ height' = height + 1
  /\ UNCHANGED <<database, parents, status, asked, busy, task, orphaned>>

-----------------------------------------------------------------------------
(* syncBlocks.                                                             *)

(* The timer fires and queryChainInfo is answered.                         *)
StartRound(p, t) ==
  /\ At(p, t, "off")
  /\ task' = [task EXCEPT ![p][t] = [Idle EXCEPT !.pc = "load", !.latest = height - 1,
                                                 !.todo = 0 .. height - 1]]
  /\ UNCHANGED <<height, database, parents, status, asked, busy, orphaned>>

(* isBlockAvailableInDB looks at the genesis hash and the number, and not  *)
(* at the network.                                                         *)
IsBlockAvailableInDB(b) == \E n \in Networks : rows[n][b] > 0

(* A turn of the first loop, from the newest block down.                   *)
LoadBlock(p, t) ==
  /\ At(p, t, "load")
  /\ \E b \in task[p][t].todo :
       /\ \A other \in task[p][t].todo : other <= b
       /\ task' = [task EXCEPT ![p][t].todo = @ \ {b}, ![p][t].blk = b,
                               ![p][t].pc = IF IsBlockAvailableInDB(b) THEN @ ELSE "enter"]
  /\ UNCHANGED <<height, database, parents, status, asked, busy, orphaned>>

(* MUTANT of FindMissing: the network is not looked at here either.        *)
FindMissingAnyNetwork(p, t) ==
  /\ At(p, t, "load") /\ task[p][t].todo = {}
  /\ task' = [task EXCEPT ![p][t].pc = "missing", ![p][t].loop = "missing",
                ![p][t].todo = {b \in 0 .. task[p][t].latest : ~IsBlockAvailableInDB(b)}]
  /\ UNCHANGED <<height, database, parents, status, asked, busy, orphaned>>

(* The first loop is done: findMissingBlockNumber, the blocks that have no *)
(* row for this network.                                                   *)
FindMissing(p, t) ==
  /\ At(p, t, "load") /\ task[p][t].todo = {}
  /\ task' = [task EXCEPT ![p][t].pc = "missing", ![p][t].loop = "missing",
                ![p][t].todo = {b \in 0 .. task[p][t].latest : rows[NetworkOf(p)][b] = 0}]
  /\ UNCHANGED <<height, database, parents, status, asked, busy, orphaned>>

NextMissing(p, t) ==
  /\ At(p, t, "missing")
  /\ \E b \in task[p][t].todo :
       task' = [task EXCEPT ![p][t].todo = @ \ {b}, ![p][t].blk = b, ![p][t].pc = "enter"]
  /\ UNCHANGED <<height, database, parents, status, asked, busy, orphaned>>

FinishRound(p, t) ==
  /\ At(p, t, "missing") /\ task[p][t].todo = {}
  /\ task' = [task EXCEPT ![p][t] = Idle]
  /\ UNCHANGED <<height, database, parents, status, asked, busy, orphaned>>

SyncBlocks(p, t) ==
  \/ LoadBlock(p, t)
  \/ FindMissing(p, t) \/ NextMissing(p, t) \/ FinishRound(p, t)

-----------------------------------------------------------------------------
(* processBlockEvent and saveBlock.                                        *)

(* A block this process works on already is an exception its caller        *)
(* catches; of other processes nothing is known.                           *)
Enter(p, t) ==
  /\ At(p, t, "enter")
  /\ IF task[p][t].blk \in busy[p]
     THEN Goto(p, t, task[p][t].loop) /\ UNCHANGED busy
     ELSE Goto(p, t, "count") /\ busy' = [busy EXCEPT ![p] = @ \cup {task[p][t].blk}]
  /\ UNCHANGED <<height, database, parents, status, asked, orphaned>>

(* MUTANT of Count: a block that is new is announced at once.              *)
CountAnnounces(p, t) ==
  /\ At(p, t, "count")
  /\ IF rows[NetworkOf(p)][task[p][t].blk] = 0
     THEN /\ Goto(p, t, "insert")
          /\ announced' = [announced EXCEPT ![NetworkOf(p)][task[p][t].blk] = @ + 1]
     ELSE Goto(p, t, "leave") /\ UNCHANGED announced
  /\ UNCHANGED <<height, database, explorer, generation, configured, status, asked, busy,
                 orphaned>>

(* select count(1) from blocks, for the network.                           *)
Count(p, t) ==
  /\ At(p, t, "count")
  /\ Goto(p, t, IF rows[NetworkOf(p)][task[p][t].blk] = 0 THEN "insert" ELSE "leave")
  /\ UNCHANGED <<height, database, parents, status, asked, busy, orphaned>>

(* insert into blocks                                                      *)
InsertRow(p, t) ==
  /\ rows' = [rows EXCEPT ![NetworkOf(p)][task[p][t].blk] = @ + 1]
  /\ orphaned' = [orphaned EXCEPT ![p] = IF HasParent(p) THEN @
                                              ELSE @ \cup {task[p][t].blk}]

(* MUTANT of CountUp: the column of every network's channel goes up.       *)
CountUpAll(p) == counter' = [n \in Networks |-> counter[n] + 1]

(* update channel set blocks = blocks + 1, for the network.                *)
CountUp(p) == counter' = [counter EXCEPT ![NetworkOf(p)] = @ + 1]

Insert(p, t) ==
  /\ At(p, t, "insert")
  /\ InsertRow(p, t)
  /\ Goto(p, t, "counter")
  /\ UNCHANGED <<height, counter, parents, status, asked, busy>>

Counter(p, t) ==
  /\ At(p, t, "counter")
  /\ CountUp(p)
  /\ Goto(p, t, "announce")
  /\ UNCHANGED <<height, rows, parents, status, asked, busy, orphaned>>

(* MUTANT of Send: the message is dropped when there is no parent.         *)
SendDrops(p, b) ==
  /\ announced' = IF HasParent(p) THEN [announced EXCEPT ![NetworkOf(p)][b] = @ + 1]
                  ELSE announced
  /\ UNCHANGED status

(* process.send: without a parent it fails, and the process shuts down.    *)
Send(p, b) ==
  IF HasParent(p)
  THEN announced' = [announced EXCEPT ![NetworkOf(p)][b] = @ + 1] /\ UNCHANGED status
  ELSE status' = [status EXCEPT ![p] = "closing"] /\ UNCHANGED announced

Finish(p, t) ==
  /\ \/ At(p, t, "announce") /\ Send(p, task[p][t].blk)
     \/ At(p, t, "leave") /\ UNCHANGED <<announced, status>>
  /\ busy' = [busy EXCEPT ![p] = @ \ {task[p][t].blk}]
  /\ Goto(p, t, task[p][t].loop)
  /\ UNCHANGED <<height, database, explorer, generation, configured, asked, orphaned>>

ProcessBlockEvent(p, t) ==
  Enter(p, t) \/ Count(p, t) \/ Insert(p, t) \/ Counter(p, t) \/ Finish(p, t)

-----------------------------------------------------------------------------
(* Processes start and end.                                                *)

(* The explorer is stopped, and asks its sync processes to end.            *)
StopExplorer ==
  /\ explorer = "up"
  /\ explorer' = "stopping"
  /\ asked' = [p \in Processes |-> asked[p] \/ p[2] = generation]
  /\ UNCHANGED <<height, database, generation, configured, announced, status, busy, task,
                 orphaned>>

(* It exits, or is killed at any time.                                     *)
ExplorerGone ==
  /\ explorer # "gone"
  /\ explorer' = "gone"
  /\ UNCHANGED <<height, database, generation, configured, announced, status, asked, busy,
                 task, orphaned>>

(* It is started again, and forks its own sync processes.                  *)
StartExplorer ==
  /\ explorer = "gone" /\ generation < Generations
  /\ explorer' = "up" /\ generation' = generation + 1
  /\ status' = [p \in Processes |->
       IF Forked(p, generation + 1) THEN "running" ELSE status[p]]
  /\ UNCHANGED <<height, database, configured, announced, asked, busy, task, orphaned>>

(* The signal arrives: the connection is ended.                            *)
ShutDown(p) ==
  /\ Running(p) /\ asked[p]
  /\ status' = [status EXCEPT ![p] = "closing"]
  /\ UNCHANGED <<height, database, parents, asked, busy, task, orphaned>>

(* The process exits.  Of the statements of its tasks one was on its way   *)
(* when the connection was ended, and may have taken effect.               *)
Exit(p) ==
  /\ status[p] = "closing"
  /\ status' = [status EXCEPT ![p] = "exited"]
  /\ \/ UNCHANGED <<database, orphaned>>
     \/ \E t \in Tasks : task[p][t].pc = "insert" /\ InsertRow(p, t) /\ UNCHANGED counter
     \/ /\ \E t \in Tasks : task[p][t].pc = "counter"
        /\ CountUp(p)
        /\ UNCHANGED <<rows, orphaned>>
  /\ task' = [task EXCEPT ![p] = [t \in Tasks |-> Idle]]
  /\ busy' = [busy EXCEPT ![p] = {}]
  /\ UNCHANGED <<height, parents, asked>>

Next ==
  \/ Commit
  \/ \E p \in Processes, t \in Tasks :
       StartRound(p, t) \/ SyncBlocks(p, t) \/ ProcessBlockEvent(p, t)
  \/ StopExplorer \/ ExplorerGone \/ StartExplorer
  \/ \E p \in Processes : ShutDown(p) \/ Exit(p)

(* The timer fires, statements are answered, signals arrive.  Nothing is   *)
(* assumed of the ledger and of the explorers.                             *)
Fairness ==
  \A p \in Processes :
    /\ WF_vars(ShutDown(p)) /\ WF_vars(Exit(p))
    /\ \A t \in Tasks : /\ WF_vars(StartRound(p, t)) /\ WF_vars(SyncBlocks(p, t))
                        /\ WF_vars(ProcessBlockEvent(p, t))

Spec     == Init /\ [][Next]_vars
FairSpec == Spec /\ Fairness

-----------------------------------------------------------------------------
(* Properties.                                                             *)

(* Profiles that look at one channel (README-CONFIG.md:335, "Monitoring    *)
(* multiple organizations") each get their own rows: that a block is there *)
(* for another network only puts it off to the list of missing blocks.     *)
EveryNetworkComplete ==
  \A n \in Networks, b \in Blocks :
    b < height /\ explorer = "up" /\ n \in configured[generation]
      ~> rows[n][b] > 0 \/ explorer # "up"

Orphans(n, b) == {p \in Processes : NetworkOf(p) = n /\ b \in orphaned[p]}

(* A block is stored twice for a network only by sync processes whose      *)
(* explorer was gone, and once by each, however rounds overlap.            *)
BoundedDuplicates ==
  \A n \in Networks, b \in Blocks : rows[n][b] <= 1 + Cardinality(Orphans(n, b))

(* Over all explorers a block of a network is announced at most once, even *)
(* when its row is there twice.                                            *)
AnnouncedOnce ==
  \A n \in Networks, b \in Blocks :
    announced[n][b] <= 1 /\ (announced[n][b] > 0 => rows[n][b] > 0)

(* A sync process that was left behind stores no more than the rows its    *)
(* tasks had begun with: the first message it sends ends it.               *)
OrphanStoresFew ==
  \A p \in Processes : Cardinality(orphaned[p]) <= Cardinality(Tasks)

(* The rows of a network: a block, and a number for each of its copies.    *)
RowsOf(n) == UNION {{b} \X (1 .. rows[n][b]) : b \in Blocks}

(* The counter of a network counts its own rows.                           *)
CounterWithinRows == \A n \in Networks : counter[n] <= Cardinality(RowsOf(n))

=============================================================================
