--------------------------- MODULE ChannelRegistry ---------------------------
(***************************************************************************)
(* How channels, and the peers, orderers and chaincodes of a channel, get  *)
(* into the database (app/platform/fabric/sync/SyncService.ts,             *)
(* synchNetworkConfigToDB, insertNewChannel, insertFromDiscoveryResults    *)
(* and what they call; the timers of SyncPlatform.ts; the channel list of  *)
(* FabricClient.ts; the SQL of CRUDService.ts).                            *)
(*                                                                         *)
(* Two kinds of task run interleaved in the sync process:                  *)
(*   - a SYNCHRONISATION, one call of updateNetworkConfig, which arms its  *)
(*     own timer again when it is done and only if nothing was thrown;     *)
(*   - an UPDATE, the timer callback a configuration block sets.           *)
(* Neither uses a database transaction, and the tables have no unique      *)
(* constraint: every row is a count and then an insert.                    *)
(*                                                                         *)
(* An action is the code from one await to the next.  Abstracted: a row is *)
(* a key; a channel's genesis hash is its name and how often the network   *)
(* was rebuilt; a stored block is a number, since BlockSync has the steps. *)
(* insertDiscoveredChannel has no action: it is set off by a block of a    *)
(* channel without a genesis hash, and listeners and rounds only handle    *)
(* channels of the client's list, which have one (initializeNewChannel).   *)
(***************************************************************************)
EXTENDS Integers, Sequences, FiniteSets

CONSTANTS
  Channels,     \* names of the channels
  Syncs,        \* tasks that run updateNetworkConfig
  Updates,      \* tasks that run updateDiscoveredChannel
  Peers,        \* endpoints of the peers discovery finds, in its order
  Orderers,     \* [host, endpoint] of the orderers it finds, in its order
  Chaincodes,   \* names of the chaincodes
  CodeRows,     \* rows for the chaincodes of a channel
  CodeRefRows,  \* the same with the peers that discovery says have them
  None,         \* chan of a task that is at no channel
  MaxRebuilds,  \* bound: times a channel is made anew
  MaxBlocks,    \* bound: blocks stored of one making of a channel
  MaxFaults     \* bound: times a request to the peer times out, a statement
                \* is rejected, or the sync process is killed

Task        == Syncs \cup Updates
Generations == 0 .. MaxRebuilds
Hashes      == Channels \X Generations

(* The rows, by what identifies them: a peer or an orderer by its          *)
(* endpoint, a reference by what it is a reference to.                     *)
NodeRow(endpoint)         == <<"peer", endpoint>>
ChannelRef(peerid)        == <<"peer_ref_channel", peerid>>
CodeRow(name)             == <<"chaincodes", name>>
CodeRef(name, endpoint)   == <<"peer_ref_chaincode", name, endpoint>>

(* insertNewPeer and insertNewOrderers: a row, and then its reference to   *)
(* the channel, which names a peer by its endpoint and an orderer by its   *)
(* host.                                                                   *)
Elements(s) == {s[i] : i \in 1 .. Len(s)}
PeerRows ==
  [i \in 1 .. 2 * Len(Peers) |->
     IF i % 2 = 1 THEN NodeRow(Peers[(i + 1) \div 2]) ELSE ChannelRef(Peers[i \div 2])]
OrdererRows ==
  [i \in 1 .. 2 * Len(Orderers) |->
     IF i % 2 = 1 THEN NodeRow(Orderers[(i + 1) \div 2].endpoint)
                  ELSE ChannelRef(Orderers[i \div 2].host)]
NodeRows == PeerRows \o OrdererRows
Keys     == Elements(NodeRows) \cup Elements(CodeRows) \cup Elements(CodeRefRows)

ASSUME TaskAssumption == Syncs \cap Updates = {}
ASSUME NoneAssumption == None \notin Channels
(* The references to a chaincode are saved after its row, and name peers   *)
(* of the discovery results (SyncService.ts:301-340).                      *)
ASSUME CodeAssumption ==
  /\ Peers \in Seq(Elements(Peers)) /\ Orderers \in Seq(Elements(Orderers))
  /\ CodeRows \in Seq({CodeRow(c) : c \in Chaincodes})
  /\ CodeRefRows \in Seq(Elements(CodeRefRows))
  /\ \A i \in 1 .. Len(CodeRefRows) :
       \/ \E c \in Chaincodes : CodeRefRows[i] = CodeRow(c)
       \/ \E c \in Chaincodes, e \in Elements(Peers) :
            /\ CodeRefRows[i] = CodeRef(c, e)
            /\ \E j \in 1 .. i - 1 : CodeRefRows[j] = CodeRow(c)
ASSUME UpdatesAssumption == IsFiniteSet(Updates)
ASSUME LimitAssumption ==
  /\ MaxRebuilds \in Nat /\ MaxBlocks \in Nat
  /\ MaxFaults \in Nat

VARIABLES
  \* the network
  joined,        \* channels the peer has joined
  genesis,       \* [channel]: how often it was made anew
  \* the database
  channelRows,   \* [hash]: rows of table channel
  rows,          \* [hash][key]: rows of the other tables
  blockRows,     \* [hash]: rows of table blocks
  blockCounter,  \* [hash]: column channel.blocks
  \* what the sync process has sent to its parent
  existing,      \* channels of the NOTITY_TYPE_EXISTCHANNEL messages
  \* the sync process
  up,            \* it runs
  channels,      \* FabricClient.channels
  atBoot,        \* history: the channels the client found when it started
  armed,         \* the timer of updateNetworkConfig is set, or was never
  initialized,   \* SyncPlatform.initialize is past the first updateNetworkConfig
  hub,           \* FabricEvent.channelEventHubs
  pc,            \* [task]: the await it is suspended at
  chan,          \* [task]: channel_name
  todo,          \* [synchronisation]: channels its loop has still to visit
  work,          \* [task]: rows still to be saved
  stage,         \* [task]: which of the loops over rows it is in
  \* faults so far
  deaths, timeouts

network  == <<joined, genesis>>
tables   == <<rows, blockRows>>
database == <<channelRows, blockCounter, tables>>
process  == <<up, channels, atBoot, hub>>
locals   == <<chan, todo, work, stage>>
faults   == <<deaths, timeouts>>
vars == <<network, database, existing, process, armed, initialized, pc, locals, faults>>

SyncLabels == {"queryChannels", "initialize", "nextChannel", "getChannel",
               "existChannel", "saveChannel", "insertChannel", "resetChannel"}
Labels     == {"off", "discover", "rows", "insert", "chaincodes"} \cup SyncLabels

(* The loops over rows: what discovery found, the chaincodes with the      *)
(* peers that have them, and the chaincodes once more without.             *)
Stages == {"nodes", "codeRefs", "code"}

NetworkOK ==
  /\ joined \subseteq Channels
  /\ genesis \in [Channels -> Generations]

TablesOK ==
  /\ channelRows \in [Hashes -> Nat]
  /\ rows \in [Hashes -> [Keys -> Nat]]
  /\ blockRows \in [Hashes -> Nat]
  /\ blockCounter \in [Hashes -> Nat]

ProcessOK ==
  /\ existing \subseteq Channels
  /\ up \in BOOLEAN
  /\ channels \subseteq Channels /\ atBoot \subseteq Channels
  /\ armed \in BOOLEAN /\ initialized \in BOOLEAN
  /\ hub \subseteq Channels

TasksOK ==
  /\ pc \in [Task -> Labels]
  /\ chan \in [Task -> Channels \cup {None}]
  /\ todo \in [Syncs -> SUBSET Channels]
  /\ work \in [Task -> Seq(Keys)]
  /\ stage \in [Task -> Stages]

FaultsOK ==
  /\ deaths \in 0 .. MaxFaults
  /\ timeouts \in 0 .. MaxFaults

RegistryTypeOK == NetworkOK /\ TablesOK /\ ProcessOK /\ TasksOK /\ FaultsOK

-----------------------------------------------------------------------------
(* The sync process is not running: what a crash or an exit leaves of it.  *)

NoProcess ==
  /\ up' = FALSE
  /\ channels' = {} /\ atBoot' = {} /\ hub' = {}
  /\ armed' = FALSE /\ initialized' = FALSE
  /\ pc' = [t \in Task |-> "off"]
  /\ chan' = [t \in Task |-> None]
  /\ todo' = [s \in Syncs |-> {}]
  /\ work' = [t \in Task |-> <<>>]
  /\ stage' = [t \in Task |-> "nodes"]

Init ==
  /\ joined = {}
  /\ genesis = [c \in Channels |-> 0]
  /\ channelRows = [h \in Hashes |-> 0]
  /\ rows = [h \in Hashes |-> [k \in Keys |-> 0]]
  /\ blockRows = [h \in Hashes |-> 0]
  /\ blockCounter = [h \in Hashes |-> 0]
  /\ existing = {}
  /\ up = FALSE
  /\ channels = {} /\ atBoot = {} /\ hub = {}
  /\ armed = FALSE /\ initialized = FALSE
  /\ pc = [t \in Task |-> "off"]
  /\ chan = [t \in Task |-> None]
  /\ todo = [s \in Syncs |-> {}]
  /\ work = [t \in Task |-> <<>>]
  /\ stage = [t \in Task |-> "nodes"]
  /\ deaths = 0 /\ timeouts = 0

-----------------------------------------------------------------------------
(* External: the network.                                                  *)

Join(c) ==
  /\ c \notin joined
  /\ joined' = joined \cup {c}
  /\ UNCHANGED <<genesis, database, existing, process, armed, initialized, pc,
                 locals, faults>>

(* A channel is made anew only while the sync process is stopped.          *)
Rebuild(c) ==
  /\ ~up
  /\ c \in joined /\ genesis[c] < MaxRebuilds
  /\ genesis' = [genesis EXCEPT ![c] = @ + 1]
  /\ UNCHANGED <<joined, database, existing, process, armed, initialized, pc,
                 locals, faults>>

-----------------------------------------------------------------------------
(* The process starts.  FabricClient.initialize asks for the channels and  *)
(* leaves out those whose genesis block it cannot get (or all, when the    *)
(* peer does not answer); updateNetworkConfig is then called, not timed.   *)
Boot ==
  /\ ~up
  /\ up' = TRUE
  /\ armed' = TRUE
  /\ \E known \in SUBSET joined : channels' = known /\ atBoot' = known
  /\ UNCHANGED <<network, database, existing, hub, initialized, pc, locals, faults>>

-----------------------------------------------------------------------------
(* updateNetworkConfig and synchNetworkConfigToDB.                         *)

Goto(t, label) == pc' = [pc EXCEPT ![t] = label]

(* The genesis hash of the channel the task is at.                         *)
Hash(t) == <<chan[t], genesis[chan[t]]>>

FreeSync == CHOOSE s \in Syncs : pc[s] = "off"

(* MUTANT of StartSync: the timer is armed before the await, not after.    *)
StartSyncArmed(s) ==
  /\ armed /\ pc[s] = "off" /\ s = FreeSync
  /\ Goto(s, "queryChannels")
  /\ UNCHANGED <<network, database, existing, process, armed, initialized, locals,
                 faults>>

(* The call of initialize or the timer: both are used up by it.  Which of  *)
(* the tasks that are off stands for the call does not matter.             *)
StartSync(s) ==
  /\ armed /\ pc[s] = "off" /\ s = FreeSync
  /\ armed' = FALSE
  /\ Goto(s, "queryChannels")
  /\ UNCHANGED <<network, database, existing, process, initialized, locals, faults>>

(* queryChannels is answered: the channels the client does not know.       *)
QueryChannels(s) ==
  /\ pc[s] = "queryChannels"
  /\ todo' = [todo EXCEPT ![s] = joined \ channels]
  /\ Goto(s, "initialize")
  /\ UNCHANGED <<network, database, existing, process, armed, initialized, chan, work,
                 stage, faults>>

(* initializeNewChannel: the genesis block has come, hash and name are set *)
(* in one step.                                                            *)
InitializeNewChannel(s) ==
  /\ pc[s] = "initialize"
  /\ \E c \in todo[s] :
       /\ channels' = channels \cup {c}
       /\ todo' = [todo EXCEPT ![s] = @ \ {c}]
  /\ UNCHANGED <<network, database, existing, up, atBoot, hub, armed, initialized, pc,
                 chan, work, stage, faults>>

(* The loop over all channels begins; it sees those just added.            *)
BeginLoop(s) ==
  /\ pc[s] = "initialize" /\ todo[s] = {}
  /\ todo' = [todo EXCEPT ![s] = channels]
  /\ Goto(s, "nextChannel")
  /\ UNCHANGED <<network, database, existing, process, armed, initialized, chan, work,
                 stage, faults>>

(* The genesis block of the next channel has come.                         *)
NextChannel(s) ==
  /\ pc[s] = "nextChannel"
  /\ \E c \in todo[s] :
       /\ chan' = [chan EXCEPT ![s] = c]
       /\ todo' = [todo EXCEPT ![s] = @ \ {c}]
  /\ Goto(s, "getChannel")
  /\ UNCHANGED <<network, database, existing, process, armed, initialized, work, stage,
                 faults>>

(* MUTANT of EndSync: the timer is not armed again.                        *)
EndSyncUnarmed(s) ==
  /\ pc[s] = "nextChannel" /\ todo[s] = {}
  /\ initialized' = TRUE
  /\ Goto(s, "off")
  /\ UNCHANGED <<network, database, existing, process, armed, locals, faults>>

(* The loop is over: the timer is armed, and initialize, which awaits the  *)
(* first call, goes on to the listeners.                                   *)
EndSync(s) ==
  /\ pc[s] = "nextChannel" /\ todo[s] = {}
  /\ armed' = TRUE
  /\ initialized' = TRUE
  /\ Goto(s, "off")
  /\ UNCHANGED <<network, database, existing, process, locals, faults>>

-----------------------------------------------------------------------------
(* insertNewChannel.                                                       *)

(* getChannel: by name and genesis hash.                                   *)
GetChannel(s) ==
  /\ pc[s] = "getChannel"
  /\ Goto(s, IF channelRows[Hash(s)] > 0 THEN "discover" ELSE "existChannel")
  /\ UNCHANGED <<network, database, existing, process, armed, initialized, locals,
                 faults>>

(* existChannel: by name only.                                             *)
NameTaken(c) == \E g \in Generations : channelRows[<<c, g>>] > 0

(* MUTANT of ExistChannel: existChannel looks for the genesis hash too.    *)
ExistChannelByHash(s) ==
  /\ pc[s] = "existChannel"
  /\ channelRows[Hash(s)] = 0
  /\ Goto(s, "saveChannel")
  /\ UNCHANGED <<network, database, existing, process, armed, initialized, locals,
                 faults>>

(* The name is free.                                                       *)
ExistChannel(s) ==
  /\ pc[s] = "existChannel"
  /\ ~NameTaken(chan[s])
  /\ Goto(s, "saveChannel")
  /\ UNCHANGED <<network, database, existing, process, armed, initialized, locals,
                 faults>>

(* The name has a row with another genesis hash: the parent is told, and   *)
(* the exception, which nobody catches, shuts the sync process down.       *)
ChannelExists(s) ==
  /\ pc[s] = "existChannel"
  /\ NameTaken(chan[s])
  /\ existing' = existing \cup {chan[s]}
  /\ NoProcess
  /\ UNCHANGED <<network, database, faults>>

(* saveChannel: the count.                                                 *)
SaveChannel(s) ==
  /\ pc[s] = "saveChannel"
  /\ Goto(s, IF channelRows[Hash(s)] = 0 THEN "insertChannel" ELSE "resetChannel")
  /\ UNCHANGED <<network, database, existing, process, armed, initialized, locals,
                 faults>>

(* saveChannel: the insert with its counters at 0, or the update that sets *)
(* the counters of the row that is there to 0.                             *)
WriteChannel(s) ==
  /\ pc[s] \in {"insertChannel", "resetChannel"}
  /\ channelRows' = [channelRows EXCEPT ![Hash(s)] =
                       IF pc[s] = "insertChannel" THEN @ + 1 ELSE @]
  /\ blockCounter' = [blockCounter EXCEPT ![Hash(s)] = 0]
  /\ Goto(s, "discover")
  /\ UNCHANGED <<network, tables, existing, process, armed, initialized, locals, faults>>

-----------------------------------------------------------------------------
(* insertFromDiscoveryResults and insertNewChannelChaincode.               *)

(* A task has its discovery results in the tables.  A synchronisation      *)
(* queries the chaincodes once more, an update tells the parent and ends.  *)
DiscoveryInserted(t) ==
  IF t \in Syncs
    THEN /\ Goto(t, "chaincodes")
         /\ stage' = [stage EXCEPT ![t] = "code"]
         /\ UNCHANGED <<chan, work>>
    ELSE /\ Goto(t, "off")
         /\ chan' = [chan EXCEPT ![t] = None]
         /\ work' = [work EXCEPT ![t] = <<>>]
         /\ stage' = [stage EXCEPT ![t] = "nodes"]

(* getDiscoveryResult is answered.                                         *)
Discover(t) ==
  /\ pc[t] = "discover"
  /\ work' = [work EXCEPT ![t] = NodeRows]
  /\ stage' = [stage EXCEPT ![t] = "nodes"]
  /\ Goto(t, "rows")
  /\ UNCHANGED <<network, database, existing, process, armed, initialized, chan, todo,
                 faults>>

(* getDiscoveryResult caught an error, or a timeout, and returns null.     *)
DiscoverNull(t) ==
  /\ pc[t] = "discover"
  /\ DiscoveryInserted(t)
  /\ UNCHANGED <<network, database, existing, process, armed, initialized, todo, faults>>

(* MUTANT of CountRow: the row is inserted whatever the count is.          *)
CountRowIgnored(t) ==
  /\ pc[t] = "rows" /\ work[t] # <<>>
  /\ Goto(t, "insert")
  /\ UNCHANGED <<network, database, existing, process, armed, initialized, locals,
                 faults>>

(* savePeer, savePeerChannelRef, saveChaincode, saveChaincodPeerRef: the   *)
(* count of the next row.                                                  *)
CountRow(t) ==
  /\ pc[t] = "rows" /\ work[t] # <<>>
  /\ IF rows[Hash(t)][Head(work[t])] = 0
       THEN Goto(t, "insert") /\ UNCHANGED work
       ELSE work' = [work EXCEPT ![t] = Tail(@)] /\ UNCHANGED pc
  /\ UNCHANGED <<network, database, existing, process, armed, initialized, chan, todo,
                 stage, faults>>

(* The same: the insert.                                                   *)
InsertRow(t) ==
  /\ pc[t] = "insert"
  /\ rows' = [rows EXCEPT ![Hash(t)][Head(work[t])] = @ + 1]
  /\ work' = [work EXCEPT ![t] = Tail(@)]
  /\ Goto(t, "rows")
  /\ UNCHANGED <<network, channelRows, blockRows, blockCounter, existing, process,
                 armed, initialized, chan, todo, stage, faults>>

(* A loop over rows is over: the peers and orderers, with the chaincodes   *)
(* to come; the chaincodes with their peers; the chaincodes alone.         *)
NodesInserted(t) ==
  /\ pc[t] = "rows" /\ work[t] = <<>> /\ stage[t] = "nodes"
  /\ Goto(t, "chaincodes")
  /\ stage' = [stage EXCEPT ![t] = "codeRefs"]
  /\ UNCHANGED <<network, database, existing, process, armed, initialized, chan, todo,
                 work, faults>>

CodeRefsInserted(t) ==
  /\ pc[t] = "rows" /\ work[t] = <<>> /\ stage[t] = "codeRefs"
  /\ DiscoveryInserted(t)
  /\ UNCHANGED <<network, database, existing, process, armed, initialized, todo, faults>>

CodeInserted(s) ==
  /\ pc[s] = "rows" /\ work[s] = <<>> /\ stage[s] = "code"
  /\ Goto(s, "nextChannel")
  /\ chan' = [chan EXCEPT ![s] = None]
  /\ stage' = [stage EXCEPT ![s] = "nodes"]
  /\ UNCHANGED <<network, database, existing, process, armed, initialized, todo, work,
                 faults>>

(* MUTANT of QueryChaincodes: the references are saved first.              *)
QueryChaincodesReversed(t) ==
  /\ pc[t] = "chaincodes"
  /\ work' = [work EXCEPT ![t] =
                IF stage[t] = "code" THEN CodeRows
                ELSE [i \in 1 .. Len(CodeRefRows) |-> CodeRefRows[Len(CodeRefRows) + 1 - i]]]
  /\ Goto(t, "rows")
  /\ UNCHANGED <<network, database, existing, process, armed, initialized, chan, todo,
                 stage, faults>>

(* queryInstantiatedChaincodes is answered.                                *)
QueryChaincodes(t) ==
  /\ pc[t] = "chaincodes"
  /\ work' = [work EXCEPT ![t] = IF stage[t] = "code" THEN CodeRows ELSE CodeRefRows]
  /\ Goto(t, "rows")
  /\ UNCHANGED <<network, database, existing, process, armed, initialized, chan, todo,
                 stage, faults>>

-----------------------------------------------------------------------------
(* What the listeners do that matters here.                                *)

(* MUTANT of ConnectHub: the listeners do not wait for the first           *)
(* updateNetworkConfig.                                                    *)
ConnectHubAtOnce(c) ==
  /\ up /\ c \in channels \ hub
  /\ hub' = hub \cup {c}
  /\ UNCHANGED <<network, database, existing, up, channels, atBoot, armed, initialized,
                 pc, locals, faults>>

(* FabricEvent.initialize, or the timer that finds no listener for one of  *)
(* the client's channels: the listener is there.                           *)
ConnectHub(c) ==
  /\ initialized /\ c \in channels \ hub
  /\ hub' = hub \cup {c}
  /\ UNCHANGED <<network, database, existing, up, channels, atBoot, armed, initialized,
                 pc, locals, faults>>

(* A block is stored and counted in the channel's row, if there is one     *)
(* (BlockSync has the steps of it).                                        *)
StoreBlock(c) ==
  LET h == <<c, genesis[c]>> IN
    /\ c \in hub /\ \A g \in Generations : blockRows[<<c, g>>] < MaxBlocks
    /\ blockRows' = [blockRows EXCEPT ![h] = @ + 1]
    /\ blockCounter' = [blockCounter EXCEPT ![h] =
                          IF channelRows[h] > 0 THEN @ + 1 ELSE @]
    /\ UNCHANGED <<network, channelRows, rows, existing, process, armed, initialized,
                   pc, locals, faults>>

(* A configuration block arrives: updateDiscoveredChannel is set to run.   *)
ScheduleUpdate(u) ==
  /\ pc[u] = "off"
  /\ \E c \in hub : chan' = [chan EXCEPT ![u] = c]
  /\ Goto(u, "discover")
  /\ UNCHANGED <<network, database, existing, process, armed, initialized, todo, work,
                 stage, faults>>

-----------------------------------------------------------------------------
(* Faults.                                                                 *)

(* A request to the peer times out.  Nobody catches the exception, and the *)
(* handler of unhandled rejections lets exactly this one pass: the task is *)
(* gone and the process goes on.                                           *)
Timeout(t) ==
  /\ pc[t] \in {"queryChannels", "chaincodes"} /\ deaths + timeouts < MaxFaults
  /\ timeouts' = timeouts + 1
  /\ Goto(t, "off")
  /\ chan' = [chan EXCEPT ![t] = None]
  /\ work' = [work EXCEPT ![t] = <<>>]
  /\ stage' = [stage EXCEPT ![t] = "nodes"]
  /\ todo' = [s \in Syncs |-> IF s = t THEN {} ELSE todo[s]]
  /\ UNCHANGED <<network, database, existing, process, armed, initialized, deaths>>

(* A statement is rejected, or the peer has no genesis block to give: the  *)
(* handler of unhandled rejections shuts the process down.                 *)
Fail(t) ==
  /\ pc[t] # "off" /\ deaths + timeouts < MaxFaults
  /\ deaths' = deaths + 1
  /\ NoProcess
  /\ UNCHANGED <<network, database, existing, timeouts>>

Crash ==
  /\ up /\ deaths + timeouts < MaxFaults
  /\ deaths' = deaths + 1
  /\ NoProcess
  /\ UNCHANGED <<network, database, existing, timeouts>>

-----------------------------------------------------------------------------

InsertNewChannel(s) ==
  \/ GetChannel(s) \/ ExistChannel(s) \/ ChannelExists(s)
  \/ SaveChannel(s) \/ WriteChannel(s)

SynchNetworkConfigToDB(s) ==
  \/ QueryChannels(s) \/ InitializeNewChannel(s) \/ BeginLoop(s)
  \/ NextChannel(s) \/ EndSync(s) \/ InsertNewChannel(s) \/ CodeInserted(s)

InsertFromDiscoveryResults(t) ==
  \/ Discover(t) \/ DiscoverNull(t) \/ CountRow(t) \/ InsertRow(t)
  \/ NodesInserted(t) \/ CodeRefsInserted(t) \/ QueryChaincodes(t)

Next ==
  \/ \E c \in Channels : Join(c) \/ Rebuild(c) \/ ConnectHub(c) \/ StoreBlock(c)
  \/ Boot
  \/ \E s \in Syncs : StartSync(s) \/ SynchNetworkConfigToDB(s)
  \/ \E u \in Updates : ScheduleUpdate(u)
  \/ \E t \in Task : InsertFromDiscoveryResults(t) \/ Timeout(t) \/ Fail(t)
  \/ Crash

Spec == Init /\ [][Next]_vars

(* Every await of a synchronisation is answered and every timer that is    *)
(* set goes off, while the process runs.  Nothing is assumed of updates,   *)
(* of the network, of the listeners, of faults or of Boot.                 *)
Fairness ==
  /\ WF_vars(\E s \in Syncs : StartSync(s))
  /\ \A s \in Syncs : WF_vars(SynchNetworkConfigToDB(s) \/ InsertFromDiscoveryResults(s))

FairSpec == Spec /\ Fairness

-----------------------------------------------------------------------------
(* Safety.                                                                 *)

(* No unique constraint protects table channel: that a name never has two  *)
(* rows, not even when its ledger was made anew, rests on the two queries  *)
(* insertNewChannel makes before it inserts, and on the timer being armed  *)
(* only when the synchronisation before it is over.                        *)
OneRowPerName ==
  /\ \A h \in Hashes : channelRows[h] <= 1
  /\ \A c \in Channels, g, h \in Generations :
       channelRows[<<c, g>>] > 0 /\ channelRows[<<c, h>>] > 0 => g = h

(* The message that a channel exists already makes the explorer close      *)
(* ("Explorer is closing due to channel name [%s] is already exist in DB", *)
(* ExplorerMessage.ts:30).  It is never sent because the row was inserted  *)
(* between the two queries: the ledger really was made anew.               *)
NoFalseAlarm ==
  \A c \in existing : \E g \in Generations : g < genesis[c] /\ channelRows[<<c, g>>] > 0

(* saveChannel is never reached with the row there: its update, which      *)
(* would set the channel's counters back to 0 while blocks are stored,     *)
(* does not happen.                                                        *)
CountersNeverReset == \A s \in Syncs : pc[s] # "resetChannel"

(* A peer's reference to the channel is never there without the peer's    *)
(* row, nor a reference to a chaincode without the rows of the chaincode   *)
(* and of the peer that has it, which an earlier loop saves: whichever     *)
(* tasks interleave, time out, and die on the way.  An orderer's reference *)
(* is not among them (OrderersResolve).                                    *)
ReferencesResolve ==
  \A h \in Hashes :
    /\ \A e \in Elements(Peers) :
         rows[h][ChannelRef(e)] > 0 => rows[h][NodeRow(e)] > 0
    /\ \A c \in Chaincodes, e \in Elements(Peers) :
         CodeRef(c, e) \in Keys =>
           (rows[h][CodeRef(c, e)] > 0 =>
              rows[h][CodeRow(c)] > 0 /\ rows[h][NodeRow(e)] > 0)

(* Updates race with the synchronisation, and count-then-insert lets both  *)
(* insert a row.  The damage is bounded for good: once the row is there no *)
(* task inserts it again, so however many tasks run over time, a row has   *)
(* at most one copy for each task that can be at it at the same moment.    *)
BoundedDuplicates ==
  \A h \in Hashes, k \in Keys : rows[h][k] <= 1 + Cardinality(Updates)

(* initialize awaits the first synchronisation before it registers         *)
(* listeners, so a block of a channel the client found when it started is  *)
(* never stored before the channel has its row, whose counter the block is *)
(* to raise.                                                               *)
RowBeforeBlocks ==
  [][\A c \in atBoot, g \in Generations :
       blockRows'[<<c, g>>] > blockRows[<<c, g>>] => channelRows[<<c, g>>] > 0]_vars

-----------------------------------------------------------------------------
(* Liveness.                                                               *)

(* "Dynamically discover new channels" (introduction.rst:25): in a process *)
(* that stays up a channel the peer has joined gets its row, if no request *)
(* of a synchronisation timed out, which ends the loop for good            *)
(* (SyncPlatform.ts:105).                                                  *)
NewChannelsGetRegistered ==
  <>[](up /\ timeouts = 0) =>
    \A c \in Channels : c \in joined ~> channelRows[<<c, genesis[c]>>] > 0

-----------------------------------------------------------------------------
(* Seen from outside, the table of channels is a registry (Registry.tla).  *)
R == INSTANCE Registry WITH
       joined <- joined, genesis <- genesis, channelRows <- channelRows

RegistrySpec == R!Spec

-----------------------------------------------------------------------------
(* What the documentation says and the code does not do (README, 5).       *)

(* "Each channel will be synchronized with explorer database, for the      *)
(* following: existence of the channel, blocks per channel"                *)
(* (synchronizer.rst:43-45): the counter agrees with the blocks.           *)
CounterAgrees ==
  \A h \in Hashes : channelRows[h] > 0 => blockCounter[h] = blockRows[h]

(* What ReferencesResolve says of the peers is not so of the orderers: the *)
(* row has host and port, the reference the host (SyncService.ts:260-280). *)
OrderersResolve ==
  \A h \in Hashes, i \in 1 .. Len(Orderers) :
    rows[h][ChannelRef(Orderers[i].host)] > 0 =>
      NodeRow(Orderers[i].host) \in Keys /\ rows[h][NodeRow(Orderers[i].host)] > 0

=============================================================================
