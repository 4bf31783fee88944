------------------------------ MODULE BlockSync ------------------------------
(***************************************************************************)
(* How the blocks of one channel get from the peer's ledger into the       *)
(* database (app/platform/fabric/sync/SyncService.ts, syncBlocks and       *)
(* processBlockEvent; the SQL of app/persistence/fabric/CRUDService.ts and *)
(* MetricService.ts; the rounds of SyncPlatform.ts and the listeners of    *)
(* FabricEvent.ts).                                                        *)
(*                                                                         *)
(* Two kinds of task run interleaved in the event loop of the sync         *)
(* process, and both end in processBlockEvent:                             *)
(*   - a ROUND of syncBlocks, started by the validateMissingBlocks timer.  *)
(*     Nothing waits for a round before the timer is armed again, so       *)
(*     rounds overlap; Rounds bounds how many are in flight at once;       *)
(*   - a LISTENER, the callback of a block listener, which is handed the   *)
(*     blocks one after the other (external: fabric-network awaits the     *)
(*     callback and swallows what it throws).                              *)
(*                                                                         *)
(* An action is the code from one await to the next; every SQL statement   *)
(* is an await, so other tasks, a crash or a failure may come between any  *)
(* two statements.  Abstracted: a block is its number and the ids of its   *)
(* transactions; the other columns are left out, and of what discovery     *)
(* does only when a chaincode gets its row, which some updates need.       *)
(***************************************************************************)
EXTENDS Integers, Sequences, FiniteSets

CONSTANTS
  Listeners,    \* block listeners that may be registered for the channel
  Rounds,       \* rounds of syncBlocks that may be in flight at once
  MaxHeight,    \* bound: the ledger never holds more blocks than this
  Txs,          \* transaction ids
  TxsOf,        \* block number -> ids of its transactions, in block order
  Chaincodes,   \* chaincodes, by name and version, that get a row some time
  ChaincodeOf,  \* transaction -> its chaincode, if it names one of these
  NoChaincode,  \* what the others name: '', lscc, _lifecycle
  Boots,        \* network configurations tried: [mode, noOfBlocks]
  NaN,          \* what parseInt makes of a noOfBlocks that is no number
  MaxCrashes,   \* bound: times the sync process dies
  MaxFails,     \* bound: SQL statements that are rejected
  MaxNulls      \* bound: ledger queries that are answered with null

Proc   == Listeners \cup Rounds
Blocks == 0 .. MaxHeight - 1

(* Every block has a transaction: the first one names the channel.  The   *)
(* same id may occur twice in a block, the second marked invalid.          *)
ASSUME ProcAssumption   == Listeners \cap Rounds = {}
ASSUME FiniteAssumption == IsFiniteSet(Proc)
ASSUME HeightAssumption == MaxHeight \in Nat \ {0}
ASSUME TxsAssumption    == /\ TxsOf \in [Blocks -> Seq(Txs)]
                           /\ \A b \in Blocks : Len(TxsOf[b]) > 0
ASSUME ChaincodeAssumption == /\ NoChaincode \notin Chaincodes
                              /\ ChaincodeOf \in [Txs -> Chaincodes \cup {NoChaincode}]
ASSUME BootAssumption   == /\ NaN \notin Int
                           /\ Boots \subseteq [mode : {"ALL", "CUSTOM"},
                                               noOfBlocks : Int \cup {NaN}]
ASSUME BoundsAssumption == MaxCrashes \in Nat /\ MaxFails \in Nat /\ MaxNulls \in Nat

VARIABLES
  height,           \* number of blocks in the peer's ledger
  \* the database, which survives a crash
  txRows,           \* [block][tx id]: rows of table transactions
  blockRows,        \* [block]: rows of table blocks
  chaincodes,       \* rows of table chaincodes
  counters,         \* columns channel.blocks, channel.trans, chaincodes.txcount
  \* what the sync process has sent to its parent
  announced,        \* [block]: NOTITY_TYPE_BLOCK messages sent
  \* the sync process, whose state a crash erases
  up,               \* the process runs
  boot,             \* bootMode and noOfBlocks of the network configuration
  blocksInProcess,  \* SyncService.blocksInProcess
  synchInProcess,   \* SyncService.synchInProcess
  nextEvent,        \* [listener]: number of the next block it is handed
  pc,               \* [task]: the await it is suspended at
  blk,              \* [task]: the block it works on, or a round's loop index
  txi,              \* [task]: txIndex of processBlockEvent
  latest,           \* [round]: latestBlockHeight
  phase,            \* [round]: the loop of syncBlocks it is in
  todo,             \* [round]: missingBlocksToSync still to be visited
  \* faults so far
  crashes, fails, nulls,
  \* recorded for the properties only
  early,            \* [chaincode]: updates of its txcount before it had a row
  silent            \* blocks whose task was stopped between row and message

ledger    == <<height>>
database  == <<txRows, blockRows, chaincodes, counters>>
parent    == <<announced>>
shared    == <<blocksInProcess, synchInProcess>>
roundVars == <<latest, phase, todo>>
faults    == <<crashes, fails, nulls>>
recorded  == <<early, silent>>
vars == <<ledger, database, parent, up, boot, shared, nextEvent, pc, blk, txi,
          roundVars, faults, recorded>>

(* The loops of syncBlocks; a round suspended in one is at the top of it.  *)
Loops == {"load", "missing"}

(* The awaits of processBlockEvent, behind the check of blocksInProcess.   *)
InTransaction == {"txCount", "txInsert", "txChaincode", "txChannel"}
InBlock       == {"blockCount", "blockInsert", "blockCounter", "announce", "leave"}
Processing    == InTransaction \cup InBlock

Labels == {"off", "listening", "chainInfo", "findMissing", "enter"} \cup Loops
            \cup Processing

(* The awaits between the row of a block and the message that tells of it. *)
Announcing == {"blockCounter", "announce"}

At(labels) == {p \in Proc : pc[p] \in labels}

(* The one key of synchInProcess: this model has one channel.              *)
SynchKey == "network_channel"

TxIdsOf(b) == {TxsOf[b][i] : i \in 1 .. Len(TxsOf[b])}

LedgerOK == height \in 1 .. MaxHeight

DatabaseOK ==
  /\ txRows \in [Blocks -> [Txs -> Nat]]
  /\ blockRows \in [Blocks -> Nat]
  /\ chaincodes \subseteq Chaincodes
  /\ counters \in [blocks : Nat, trans : Nat, chaincode : [Chaincodes -> Nat]]

ProcessOK ==
  /\ announced \in [Blocks -> Nat]
  /\ up \in BOOLEAN
  /\ boot \in Boots
  /\ blocksInProcess \subseteq Blocks
  /\ synchInProcess \subseteq {SynchKey}
  /\ nextEvent \in [Listeners -> Nat]

TasksOK ==
  /\ pc \in [Proc -> Labels]
  /\ blk \in [Proc -> -1 .. MaxHeight - 1]
  /\ txi \in [Proc -> Nat]

RoundsOK ==
  /\ latest \in [Rounds -> Blocks]
  /\ phase \in [Rounds -> Loops]
  /\ todo \in [Rounds -> SUBSET Blocks]

FaultsOK ==
  /\ crashes \in 0 .. MaxCrashes
  /\ fails \in 0 .. MaxFails
  /\ nulls \in 0 .. MaxNulls

RecordedOK ==
  /\ early \in [Chaincodes -> Nat]
  /\ silent \subseteq Blocks

TypeOK ==
  /\ LedgerOK /\ DatabaseOK /\ ProcessOK /\ TasksOK /\ RoundsOK
  /\ FaultsOK /\ RecordedOK

-----------------------------------------------------------------------------
(* The sync process at its start.                                          *)

FreshProcess ==
  /\ blocksInProcess = {}
  /\ synchInProcess = {}
  /\ nextEvent = [l \in Listeners |-> 0]
  /\ pc = [p \in Proc |-> "off"]
  /\ blk = [p \in Proc |-> 0]
  /\ txi = [p \in Proc |-> 0]
  /\ latest = [r \in Rounds |-> 0]
  /\ phase = [r \in Rounds |-> "load"]
  /\ todo = [r \in Rounds |-> {}]

(* The channel was there when the process started, so it has its row       *)
(* before the first round or listener: the initialization awaits           *)
(* synchNetworkConfigToDB (RowBeforeBlocks of ChannelRegistry; what becomes*)
(* of the counters of a channel that joins later is in that module too).   *)
(* The chaincodes discovery knew then have their rows as well.             *)
Init ==
  /\ height \in 1 .. MaxHeight
  /\ txRows = [b \in Blocks |-> [t \in Txs |-> 0]]
  /\ blockRows = [b \in Blocks |-> 0]
  /\ chaincodes \in SUBSET Chaincodes
  /\ counters = [blocks |-> 0, trans |-> 0, chaincode |-> [c \in Chaincodes |-> 0]]
  /\ announced = [b \in Blocks |-> 0]
  /\ up = TRUE
  /\ boot \in Boots
  /\ FreshProcess
  /\ crashes = 0 /\ fails = 0 /\ nulls = 0
  /\ early = [c \in Chaincodes |-> 0] /\ silent = {}

-----------------------------------------------------------------------------
(* External: the ledger.                                                   *)

Commit ==
  /\ height < MaxHeight
  /\ height' = height + 1
  /\ UNCHANGED <<database, parent, up, boot, shared, nextEvent, pc, blk, txi, roundVars,
                 faults, recorded>>

(* insertFromDiscoveryResults gives a chaincode its row, ten seconds after  *)
(* a transaction of lscc or _lifecycle was met: whatever has been stored    *)
(* by then (its look-up and insert are in ChannelRegistry).                 *)
RegisterChaincode(c) ==
  /\ up /\ c \notin chaincodes
  /\ chaincodes' = chaincodes \cup {c}
  /\ UNCHANGED <<ledger, txRows, blockRows, counters, parent, up, boot, shared,
                 nextEvent, pc, blk, txi, roundVars, faults, recorded>>

-----------------------------------------------------------------------------
(* Where processBlockEvent gives control back, by return or by throw: each *)
(* caller catches what it throws and goes on with its next block.          *)
Resume(p) ==
  /\ pc' = [pc EXCEPT ![p] = IF p \in Listeners THEN "listening" ELSE phase[p]]
  /\ blk' = [blk EXCEPT ![p] =
               IF p \in Rounds /\ phase[p] = "load" THEN @ - 1 ELSE 0]
  /\ txi' = [txi EXCEPT ![p] = 0]

Goto(p, label) == pc' = [pc EXCEPT ![p] = label]

(* The transaction the task is at.                                         *)
TxAt(p)        == TxsOf[blk[p]][txi[p]]
ChaincodeAt(p) == ChaincodeOf[TxAt(p)]

-----------------------------------------------------------------------------
(* processBlockEvent.                                                      *)

(* MUTANT of Enter: the check of blocksInProcess is dropped.               *)
EnterUnchecked(p) ==
  /\ pc[p] = "enter"
  /\ blocksInProcess' = blocksInProcess \cup {blk[p]}
  /\ Goto(p, "txCount")
  /\ txi' = [txi EXCEPT ![p] = 1]
  /\ UNCHANGED <<ledger, database, parent, up, boot, synchInProcess, nextEvent, blk,
                 roundVars, faults, recorded>>

(* The check and the push are one step: there is no await between them.    *)
Enter(p) ==
  /\ pc[p] = "enter"
  /\ IF blk[p] \in blocksInProcess
       THEN /\ Resume(p)                \* throws 'Block already in processing'
            /\ UNCHANGED blocksInProcess
       ELSE /\ blocksInProcess' = blocksInProcess \cup {blk[p]}
            /\ Goto(p, "txCount")
            /\ txi' = [txi EXCEPT ![p] = 1]
            /\ UNCHANGED blk
  /\ UNCHANGED <<ledger, database, parent, up, boot, synchInProcess, nextEvent,
                 roundVars, faults, recorded>>

(* saveTransaction is done with one transaction: the next one, or the      *)
(* block once txIndex has passed the last.                                 *)
NextTx(p) ==
  IF txi[p] < Len(TxsOf[blk[p]])
    THEN /\ Goto(p, "txCount")
         /\ txi' = [txi EXCEPT ![p] = @ + 1]
    ELSE /\ Goto(p, "blockCount")
         /\ txi' = [txi EXCEPT ![p] = 0]

(* MUTANT of TxCount: the row is inserted whatever the count is.           *)
TxCountIgnored(p) ==
  /\ pc[p] = "txCount"
  /\ Goto(p, "txInsert")
  /\ UNCHANGED <<ledger, database, parent, up, boot, shared, nextEvent, blk, txi,
                 roundVars, faults, recorded>>

(* MUTANT of TxCount: a transaction that is there is counted once more.    *)
TxCountCountsAgain(p) ==
  /\ pc[p] = "txCount"
  /\ Goto(p, IF txRows[blk[p]][TxAt(p)] = 0 THEN "txInsert" ELSE "txChaincode")
  /\ UNCHANGED <<ledger, database, parent, up, boot, shared, nextEvent, blk, txi,
                 roundVars, faults, recorded>>

(* select count(1) from transactions where blockid, txhash, ...            *)
TxCount(p) ==
  /\ pc[p] = "txCount"
  /\ IF txRows[blk[p]][TxAt(p)] = 0
       THEN Goto(p, "txInsert") /\ UNCHANGED txi
       ELSE NextTx(p)
  /\ UNCHANGED <<ledger, database, parent, up, boot, shared, nextEvent, blk, roundVars,
                 faults, recorded>>

(* insert into transactions                                                *)
TxInsert(p) ==
  /\ pc[p] = "txInsert"
  /\ txRows' = [txRows EXCEPT ![blk[p]][TxAt(p)] = @ + 1]
  /\ Goto(p, "txChaincode")
  /\ UNCHANGED <<ledger, blockRows, chaincodes, counters, parent, up, boot, shared,
                 nextEvent, blk, txi, roundVars, faults, recorded>>

(* update chaincodes set txcount = txcount + 1 where name = ... and        *)
(* version = ...: it matches no row for a transaction that names no        *)
(* chaincode, nor for one whose chaincode gets its row later.              *)
TxChaincode(p) ==
  /\ pc[p] = "txChaincode"
  /\ counters' = IF ChaincodeAt(p) \in chaincodes
                    THEN [counters EXCEPT !.chaincode[ChaincodeAt(p)] = @ + 1]
                    ELSE counters
  /\ early' = IF ChaincodeAt(p) \in Chaincodes \ chaincodes
                 THEN [early EXCEPT ![ChaincodeAt(p)] = @ + 1] ELSE early
  /\ Goto(p, "txChannel")
  /\ UNCHANGED <<ledger, txRows, blockRows, chaincodes, parent, up, boot, shared,
                 nextEvent, blk, txi, roundVars, faults, silent>>

(* update channel set trans = trans + 1                                    *)
TxChannel(p) ==
  /\ pc[p] = "txChannel"
  /\ counters' = [counters EXCEPT !.trans = @ + 1]
  /\ NextTx(p)
  /\ UNCHANGED <<ledger, txRows, blockRows, chaincodes, parent, up, boot, shared,
                 nextEvent, blk, roundVars, faults, recorded>>

(* MUTANT of BlockCount: the row is inserted whatever the count is.        *)
BlockCountIgnored(p) ==
  /\ pc[p] = "blockCount"
  /\ Goto(p, "blockInsert")
  /\ UNCHANGED <<ledger, database, parent, up, boot, shared, nextEvent, blk, txi,
                 roundVars, faults, recorded>>

(* select count(1) from blocks where blocknum, txcount, hashes, ...        *)
BlockCount(p) ==
  /\ pc[p] = "blockCount"
  /\ Goto(p, IF blockRows[blk[p]] = 0 THEN "blockInsert" ELSE "leave")
  /\ UNCHANGED <<ledger, database, parent, up, boot, shared, nextEvent, blk, txi,
                 roundVars, faults, recorded>>

(* insert into blocks                                                      *)
BlockInsert(p) ==
  /\ pc[p] = "blockInsert"
  /\ blockRows' = [blockRows EXCEPT ![blk[p]] = @ + 1]
  /\ Goto(p, "blockCounter")
  /\ UNCHANGED <<ledger, txRows, chaincodes, counters, parent, up, boot, shared,
                 nextEvent, blk, txi, roundVars, faults, recorded>>

(* MUTANT of BlockCounter: saveBlock does not return true.                 *)
BlockCounterReturnsFalse(p) ==
  /\ pc[p] = "blockCounter"
  /\ counters' = [counters EXCEPT !.blocks = @ + 1]
  /\ Goto(p, "leave")
  /\ UNCHANGED <<ledger, txRows, blockRows, chaincodes, parent, up, boot, shared,
                 nextEvent, blk, txi, roundVars, faults, recorded>>

(* update channel set blocks = blocks + 1                                  *)
BlockCounter(p) ==
  /\ pc[p] = "blockCounter"
  /\ counters' = [counters EXCEPT !.blocks = @ + 1]
  /\ Goto(p, "announce")
  /\ UNCHANGED <<ledger, txRows, blockRows, chaincodes, parent, up, boot, shared,
                 nextEvent, blk, txi, roundVars, faults, recorded>>

(* The message to the parent, only if saveBlock returned true, and the     *)
(* splice of blocksInProcess: no await between them.                       *)
Finish(p) ==
  /\ pc[p] \in {"announce", "leave"}
  /\ announced' = IF pc[p] = "announce"
                    THEN [announced EXCEPT ![blk[p]] = @ + 1] ELSE announced
  /\ blocksInProcess' = blocksInProcess \ {blk[p]}
  /\ Resume(p)
  /\ UNCHANGED <<ledger, database, up, boot, synchInProcess, nextEvent, roundVars,
                 faults, recorded>>

-----------------------------------------------------------------------------
(* FabricEvent: the block listeners.                                       *)

(* addBlockListener with startBlock undefined: delivery starts at the end  *)
(* of the ledger, with its newest block or the one after it.               *)
Connect(l) ==
  /\ up /\ pc[l] = "off"
  /\ Goto(l, "listening")
  /\ \E first \in {height - 1, height} : nextEvent' = [nextEvent EXCEPT ![l] = first]
  /\ UNCHANGED <<ledger, database, parent, up, boot, shared, blk, txi, roundVars,
                 faults, recorded>>

(* The next block is handed to the callback, which skips block 0.          *)
Deliver(l) ==
  /\ pc[l] = "listening"
  /\ nextEvent[l] < height
  /\ nextEvent' = [nextEvent EXCEPT ![l] = @ + 1]
  /\ IF nextEvent[l] = 0
       THEN UNCHANGED <<pc, blk>>
       ELSE /\ Goto(l, "enter")
            /\ blk' = [blk EXCEPT ![l] = nextEvent[l]]
  /\ UNCHANGED <<ledger, database, parent, up, boot, shared, txi, roundVars, faults,
                 recorded>>

(* channelEventHubs has the channel: some listener has been registered.    *)
IsChannelEventHubConnected == \E l \in Listeners : pc[l] # "off"

-----------------------------------------------------------------------------
(* syncBlocks.                                                             *)

NoOfBlocks(l) ==
  CASE boot.mode = "ALL"    -> l + 1
    [] boot.mode = "CUSTOM" -> boot.noOfBlocks

StartingBlockHeight(l) ==
  LET first == l - NoOfBlocks(l) + 1 IN IF first > 0 THEN first ELSE 0

(* The timer of validateMissingBlocks fires: the hub is connected and      *)
(* synchInProcess does not hold the channel's key.  Nothing pushes it.     *)
StartRound(r) ==
  /\ up /\ pc[r] = "off"
  /\ IsChannelEventHubConnected
  /\ SynchKey \notin synchInProcess
  /\ Goto(r, "chainInfo")
  /\ UNCHANGED <<ledger, database, parent, up, boot, shared, nextEvent, blk, txi,
                 roundVars, faults, recorded>>

(* A return from syncBlocks.                                               *)
EndRound(r) ==
  /\ Goto(r, "off")
  /\ blk' = [blk EXCEPT ![r] = 0]
  /\ latest' = [latest EXCEPT ![r] = 0]
  /\ phase' = [phase EXCEPT ![r] = "load"]

(* queryChainInfo is answered and the window is known.                     *)
ChainInfo(r) ==
  /\ pc[r] = "chainInfo"
  /\ boot.mode = "CUSTOM" => boot.noOfBlocks # NaN
  /\ latest' = [latest EXCEPT ![r] = height - 1]
  /\ blk' = [blk EXCEPT ![r] = height - 1]
  /\ Goto(r, "load")
  /\ UNCHANGED <<ledger, database, parent, up, boot, shared, nextEvent, txi, phase,
                 todo, faults, recorded>>

(* noOfBlocks is no number: syncBlocks returns.                            *)
InvalidNoOfBlocks(r) ==
  /\ pc[r] = "chainInfo"
  /\ boot.mode = "CUSTOM" /\ boot.noOfBlocks = NaN
  /\ EndRound(r)
  /\ UNCHANGED <<ledger, database, parent, up, boot, shared, nextEvent, txi, todo,
                 faults, recorded>>

(* One turn of the loop from the newest block down: the block is queried   *)
(* and isBlockAvailableInDB asked.  What it answers is used one step       *)
(* later, when processBlockEvent is entered.                               *)
LoadBlock(r) ==
  /\ pc[r] = "load"
  /\ blk[r] >= StartingBlockHeight(latest[r])
  /\ IF blockRows[blk[r]] > 0
       THEN Resume(r)
       ELSE Goto(r, "enter") /\ UNCHANGED <<blk, txi>>
  /\ UNCHANGED <<ledger, database, parent, up, boot, shared, nextEvent, roundVars,
                 faults, recorded>>

(* The loop is over: findMissingBlockNumber is called.                     *)
LoadDone(r) ==
  /\ pc[r] = "load"
  /\ blk[r] < StartingBlockHeight(latest[r])
  /\ Goto(r, "findMissing")
  /\ blk' = [blk EXCEPT ![r] = 0]
  /\ UNCHANGED <<ledger, database, parent, up, boot, shared, nextEvent, txi, roundVars,
                 faults, recorded>>

(* The blocks up to the height the round has seen that have no row, less   *)
(* those before the window.                                                *)
MissingBlocks(r) ==
  {b \in 0 .. latest[r] : blockRows[b] = 0 /\ b >= StartingBlockHeight(latest[r])}

FindMissing(r) ==
  /\ pc[r] = "findMissing"
  /\ todo' = [todo EXCEPT ![r] = MissingBlocks(r)]
  /\ phase' = [phase EXCEPT ![r] = "missing"]
  /\ Goto(r, "missing")
  /\ UNCHANGED <<ledger, database, parent, up, boot, shared, nextEvent, blk, txi,
                 latest, faults, recorded>>

(* The next block of a list that may be stale by now is queried and goes   *)
(* to processBlockEvent unseen.  The SQL orders nothing: any one is next.  *)
NextMissing(r) ==
  /\ pc[r] = "missing"
  /\ \E b \in todo[r] :
       /\ todo' = [todo EXCEPT ![r] = @ \ {b}]
       /\ blk' = [blk EXCEPT ![r] = b]
  /\ Goto(r, "enter")
  /\ UNCHANGED <<ledger, database, parent, up, boot, shared, nextEvent, txi, latest,
                 phase, faults, recorded>>

(* syncBlocks: Finish.  The splice of a key that is not there does nothing *)
(* to an empty synchInProcess.                                             *)
FinishRound(r) ==
  /\ pc[r] = "missing" /\ todo[r] = {}
  /\ synchInProcess' = synchInProcess \ {SynchKey}
  /\ EndRound(r)
  /\ UNCHANGED <<ledger, database, parent, up, boot, blocksInProcess, nextEvent, txi,
                 todo, faults, recorded>>

-----------------------------------------------------------------------------
(* Faults.  FabricGateway answers null when the peer cannot be asked.      *)

ChainInfoNull(r) ==
  /\ pc[r] = "chainInfo" /\ nulls < MaxNulls
  /\ nulls' = nulls + 1
  /\ EndRound(r)
  /\ UNCHANGED <<ledger, database, parent, up, boot, shared, nextEvent, txi, todo,
                 crashes, fails, recorded>>

LoadBlockNull(r) ==
  /\ pc[r] = "load" /\ nulls < MaxNulls
  /\ blk[r] >= StartingBlockHeight(latest[r])
  /\ nulls' = nulls + 1
  /\ Resume(r)
  /\ UNCHANGED <<ledger, database, parent, up, boot, shared, nextEvent, roundVars,
                 crashes, fails, recorded>>

NextMissingNull(r) ==
  /\ pc[r] = "missing" /\ nulls < MaxNulls
  /\ \E b \in todo[r] : todo' = [todo EXCEPT ![r] = @ \ {b}]
  /\ nulls' = nulls + 1
  /\ UNCHANGED <<ledger, database, parent, up, boot, shared, nextEvent, pc, blk, txi,
                 latest, phase, crashes, fails, recorded>>

(* A statement of processBlockEvent is rejected (for "announce": the last  *)
(* update took effect and its answer is lost).  The exception passes the   *)
(* splice, so the key stays in blocksInProcess, and past the row of the    *)
(* block the message to the parent is lost with it.                        *)
ProcessingFails(p) ==
  /\ pc[p] \in Processing \ {"leave"} /\ fails < MaxFails
  /\ fails' = fails + 1
  /\ silent' = silent \cup (IF pc[p] \in Announcing THEN {blk[p]} ELSE {})
  /\ Resume(p)
  /\ UNCHANGED <<ledger, database, parent, up, boot, shared, nextEvent, roundVars,
                 crashes, nulls, early>>

(* isBlockAvailableInDB is rejected: the loop goes on.                     *)
LoadBlockFails(r) ==
  /\ pc[r] = "load" /\ fails < MaxFails
  /\ blk[r] >= StartingBlockHeight(latest[r])
  /\ fails' = fails + 1
  /\ Resume(r)
  /\ UNCHANGED <<ledger, database, parent, up, boot, shared, nextEvent, roundVars,
                 crashes, nulls, recorded>>

(* findMissingBlockNumber is rejected: syncBlocks is left.                 *)
FindMissingFails(r) ==
  /\ pc[r] = "findMissing" /\ fails < MaxFails
  /\ fails' = fails + 1
  /\ EndRound(r)
  /\ UNCHANGED <<ledger, database, parent, up, boot, shared, nextEvent, txi, todo,
                 crashes, nulls, recorded>>

(* MUTANT of Crash: the blocks in process are remembered.                 *)
CrashKeepsKeys ==
  /\ up /\ crashes < MaxCrashes
  /\ crashes' = crashes + 1
  /\ up' = FALSE
  /\ UNCHANGED blocksInProcess /\ synchInProcess' = {}
  /\ nextEvent' = [l \in Listeners |-> 0]
  /\ pc' = [p \in Proc |-> "off"]
  /\ blk' = [p \in Proc |-> 0]
  /\ txi' = [p \in Proc |-> 0]
  /\ latest' = [r \in Rounds |-> 0]
  /\ phase' = [r \in Rounds |-> "load"]
  /\ todo' = [r \in Rounds |-> {}]
  /\ silent' = silent \cup {blk[p] : p \in At(Announcing)}
  /\ UNCHANGED <<ledger, database, parent, boot, fails, nulls, early>>

(* The process dies: every task stops where it is and only the tables and  *)
(* what was sent survive.                                                  *)
Crash ==
  /\ up /\ crashes < MaxCrashes
  /\ crashes' = crashes + 1
  /\ up' = FALSE
  /\ blocksInProcess' = {} /\ synchInProcess' = {}
  /\ nextEvent' = [l \in Listeners |-> 0]
  /\ pc' = [p \in Proc |-> "off"]
  /\ blk' = [p \in Proc |-> 0]
  /\ txi' = [p \in Proc |-> 0]
  /\ latest' = [r \in Rounds |-> 0]
  /\ phase' = [r \in Rounds |-> "load"]
  /\ todo' = [r \in Rounds |-> {}]
  /\ silent' = silent \cup {blk[p] : p \in At(Announcing)}
  /\ UNCHANGED <<ledger, database, parent, boot, fails, nulls, early>>

(* Somebody starts the process again: nothing in the code does.            *)
Restart ==
  /\ ~up
  /\ up' = TRUE
  /\ UNCHANGED <<ledger, database, parent, boot, shared, nextEvent, pc, blk, txi,
                 roundVars, faults, recorded>>

-----------------------------------------------------------------------------

ProcessBlockEvent(p) ==
  \/ Enter(p) \/ TxCount(p) \/ TxInsert(p) \/ TxChaincode(p) \/ TxChannel(p)
  \/ BlockCount(p) \/ BlockInsert(p) \/ BlockCounter(p) \/ Finish(p)

SyncBlocks(r) ==
  \/ ChainInfo(r) \/ InvalidNoOfBlocks(r) \/ LoadBlock(r) \/ LoadDone(r)
  \/ FindMissing(r) \/ NextMissing(r) \/ FinishRound(r)

Fault ==
  \/ \E r \in Rounds : \/ ChainInfoNull(r) \/ LoadBlockNull(r) \/ NextMissingNull(r)
                       \/ LoadBlockFails(r) \/ FindMissingFails(r)
  \/ \E p \in Proc : ProcessingFails(p)
  \/ Crash

Next ==
  \/ Commit
  \/ \E c \in Chaincodes : RegisterChaincode(c)
  \/ \E l \in Listeners : Connect(l) \/ Deliver(l)
  \/ \E r \in Rounds : StartRound(r) \/ SyncBlocks(r)
  \/ \E p \in Proc : ProcessBlockEvent(p)
  \/ Fault
  \/ Restart

Spec == Init /\ [][Next]_vars

(* The event loop runs every task whose await is answered, and the         *)
(* database and the ledger answer; the timer is armed again by every run   *)
(* of its callback; a listener is registered again until one is.  Nothing  *)
(* is assumed of Commit, of chaincodes, of faults, of further listeners or *)
(* of Restart.                                                             *)
Fairness ==
  /\ \A p \in Proc : WF_vars(ProcessBlockEvent(p))
  /\ \A l \in Listeners : WF_vars(Deliver(l))
  /\ \A r \in Rounds : WF_vars(SyncBlocks(r)) /\ WF_vars(StartRound(r))
  /\ WF_vars(~IsChannelEventHubConnected /\ \E l \in Listeners : Connect(l))

FairSpec == Spec /\ Fairness

-----------------------------------------------------------------------------
(* Safety.                                                                 *)

(* blocksInProcess does what it is for: no two tasks process one block at  *)
(* the same time, and the key of a block being processed is in the list.   *)
OneTaskPerBlock ==
  /\ \A p, q \in Proc :
       p # q /\ pc[p] \in Processing /\ pc[q] \in Processing => blk[p] # blk[q]
  /\ \A p \in Proc : pc[p] \in Processing => blk[p] \in blocksInProcess

(* No unique constraint protects the tables: that a block or a transaction *)
(* is never stored twice, through overlapping rounds, several listeners,   *)
(* stale lists of missing blocks, failures half way and restarts, rests on *)
(* the counts saveTransaction and saveBlock read before they insert.       *)
NoDuplicateRows ==
  \A b \in Blocks : blockRows[b] <= 1 /\ \A t \in Txs : txRows[b][t] <= 1

(* A block with a row is never looked at again, so its row must come after *)
(* the rows of all its transactions.                                       *)
StoredBlockIsComplete ==
  \A b \in Blocks : blockRows[b] > 0 => \A t \in TxIdsOf(b) : txRows[b][t] > 0

(* The explorer is told of a block at most once over all restarts, and     *)
(* only when it can be read from the database.                             *)
AnnouncedOnceStored ==
  \A b \in Blocks : announced[b] <= 1 /\ (announced[b] > 0 => blockRows[b] > 0)

(* What a crash, which stops every task, or a failure, which stops one,    *)
(* may have kept from being counted or announced.                          *)
Lost == crashes * Cardinality(Proc) + fails

StoredBlocks == {b \in Blocks : blockRows[b] > 0}
StoredTxs    == {bt \in Blocks \X Txs : txRows[bt[1]][bt[2]] > 0}

TxsNaming(c) == {bt \in StoredTxs : ChaincodeOf[bt[2]] = c}

(* The counters the dashboard shows never run ahead of the rows, and stay  *)
(* behind them only by the tasks between an insert and its update, plus    *)
(* what faults lost for good: without faults they agree at rest.  A        *)
(* chaincode counts the transactions that name it, except those stored     *)
(* before it had its row, which nothing ever counts (early).               *)
CountersTrackRows ==
  LET behind(rows, n, labels) ==
        Cardinality(rows) - n \in 0 .. Cardinality(At(labels)) + Lost
  IN  /\ behind(StoredBlocks, counters.blocks, {"blockCounter"})
      /\ \A c \in Chaincodes :
            behind(TxsNaming(c), counters.chaincode[c] + early[c], {"txChaincode"})
      /\ behind(StoredTxs, counters.trans, {"txChaincode", "txChannel"})

(* "Filter missing blocks to start syncing from 'startingBlockHeight'"     *)
(* (SyncService.ts:457): a round works only on blocks of the window it     *)
(* computed when it began, however the ledger has grown since and          *)
(* whichever of its two loops found the block.                             *)
WindowRespected ==
  \A r \in Rounds : pc[r] \in {"enter"} \cup Processing =>
                      blk[r] \in StartingBlockHeight(latest[r]) .. latest[r]

(* The key of a block is given up only by the task that processes it, or   *)
(* by the death of the process: a task that is turned away by the check    *)
(* never opens the block to a third one while the first is half way.       *)
KeyFreedByItsTask ==
  [][\A b \in blocksInProcess \ blocksInProcess' :
       \/ up /\ ~up'
       \/ \E p \in Proc : pc[p] \in Processing /\ blk[p] = b /\ pc'[p] \notin Processing]_vars

-----------------------------------------------------------------------------
(* Liveness.                                                               *)

(* The blocks the configuration wants of the ledger as it is now: all, or  *)
(* the newest noOfBlocks.                                                  *)
Wanted(b) ==
  /\ b < height
  /\ boot.noOfBlocks # NaN \/ boot.mode = "ALL"
  /\ height - b <= NoOfBlocks(height - 1)

(* A statement was rejected while the block was processed: its key stays   *)
(* in blocksInProcess, and every later round is turned away from it.       *)
Stranded(b) ==
  /\ fails > 0 /\ b \in blocksInProcess
  /\ \A p \in At(Processing) : blk[p] # b

(* In a process that stays up, a block that stays wanted is stored,        *)
(* whatever crash came before, whatever queries went unanswered and        *)
(* whatever the listeners missed, unless a rejected statement has stranded *)
(* it for as long as the process lives (README, 5).                        *)
WantedBlocksGetStored ==
  <>[]up => \A b \in Blocks :
              <>[]Wanted(b) => <>(blockRows[b] > 0) \/ <>[]Stranded(b)

(* A stored block is announced, unless the very task that stored it was    *)
(* stopped before its message, by the death of the process or by the       *)
(* update of the channel's counter, which is rejected behind the insert    *)
(* (CRUDService.ts:294): nothing makes up for that message.                *)
StoredBlocksGetAnnounced ==
  \A b \in Blocks : blockRows[b] > 0 ~> (announced[b] > 0 \/ b \in silent)

-----------------------------------------------------------------------------
(* Seen from outside, the sync process mirrors the ledger (Mirror.tla).    *)
M == INSTANCE Mirror WITH
       height <- height, txRows <- txRows, blockRows <- blockRows, announced <- announced

MirrorSpec == M!Spec

-----------------------------------------------------------------------------
(* What the documentation says and the code does not do (README, 5).       *)

(* The second check of syncBlocks ("Check if block synchronization is      *)
(* already in process", SyncService.ts:379): one round per channel.        *)
AtMostOneRound ==
  \A r, s \in Rounds : pc[r] # "off" /\ pc[s] # "off" => r = s

(* "validating any missing block from the current client ledger"           *)
(* (SyncPlatform.ts:117): in a process that stays up, every block that     *)
(* stays wanted is stored, failures or not.                                *)
MissingBlocksGetStored ==
  <>[]up => \A b \in Blocks : <>[]Wanted(b) => <>(blockRows[b] > 0)

=============================================================================
