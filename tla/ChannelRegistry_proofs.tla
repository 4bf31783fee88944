----------------------- MODULE ChannelRegistry_proofs -----------------------
(***************************************************************************)
(* Proofs about ChannelRegistry, for every set of channels and tasks and   *)
(* every number of rebuilds, blocks, crashes, failures and timeouts.       *)
(***************************************************************************)
EXTENDS ChannelRegistry, FiniteSetTheorems, TLAPS

(* Where a synchronisation is inside insertNewChannel, and where a task is *)
(* at one channel.                                                         *)
InNewChannel == {"getChannel", "existChannel", "saveChannel", "insertChannel",
                 "resetChannel"}
AtChannel    == InNewChannel \cup {"discover", "rows", "insert", "chaincodes"}

(* The timer is what keeps synchronisations apart: while one runs it is    *)
(* not armed.  Without a process there is nothing.                         *)
OneSync ==
  /\ armed => \A s \in Syncs : pc[s] = "off"
  /\ \A s, q \in Syncs : pc[s] # "off" /\ pc[q] # "off" => s = q
  /\ ~up => /\ \A t \in Task : pc[t] = "off"
            /\ ~armed /\ ~initialized
            /\ hub = {} /\ channels = {}

(* Tasks are at channels the peer has joined, and at a row when they       *)
(* insert one; they are at chaincodes after the nodes; only                *)
(* synchronisations insert channels.                                       *)
TasksPlaced ==
  /\ channels \subseteq joined /\ hub \subseteq joined
  /\ \A s \in Syncs : todo[s] \subseteq joined
  /\ \A t \in Task : /\ pc[t] \in AtChannel => chan[t] \in joined
                     /\ pc[t] = "insert" => work[t] # <<>>
                     /\ pc[t] = "chaincodes" => stage[t] # "nodes"
                     /\ stage[t] = "codeRefs" => pc[t] \in {"chaincodes", "rows", "insert"}
  /\ \A u \in Updates : pc[u] \notin SyncLabels

(* What a synchronisation has established of the rows of its channel by    *)
(* the await it has reached, and that rows are not of the future.          *)
NamesKnown ==
  /\ \A h \in Hashes : channelRows[h] > 0 => h[2] <= genesis[h[1]]
  /\ \A s \in Syncs : /\ pc[s] = "existChannel" => channelRows[Hash(s)] = 0
                      /\ pc[s] \in {"saveChannel", "insertChannel"} => ~NameTaken(chan[s])

(* What the first synchronisation has yet to do for the channels the       *)
(* client found, and that it is over when the first listener is there.     *)
Registered(c) == channelRows[<<c, genesis[c]>>] > 0

StartupOrder ==
  /\ hub # {} => initialized
  /\ up => atBoot \subseteq channels
  /\ initialized => \A c \in atBoot : Registered(c)
  /\ \A s \in Syncs : pc[s] \in {"nextChannel"} \cup AtChannel =>
       \A c \in atBoot : \/ c \in todo[s]
                         \/ Registered(c)
                         \/ c = chan[s] /\ pc[s] \in InNewChannel

RegistryInv ==
  /\ RegistryTypeOK /\ OneSync /\ TasksPlaced
  /\ OneRowPerName /\ NoFalseAlarm /\ CountersNeverReset
  /\ NamesKnown /\ StartupOrder

-----------------------------------------------------------------------------

(* The lists of rows a task goes through.                                  *)
Lists == {NodeRows, CodeRows, CodeRefRows}

(* Where the rows of peers and of orderers are in the list of both.        *)
LEMMA NodePlaces ==
  /\ PeerRows \in Seq(Elements(PeerRows)) /\ OrdererRows \in Seq(Elements(OrdererRows))
  /\ Len(Peers) \in Nat /\ Len(Orderers) \in Nat
  /\ NodeRows \in Seq(Elements(PeerRows) \cup Elements(OrdererRows))
  /\ Len(NodeRows) = 2 * Len(Peers) + 2 * Len(Orderers)
  /\ \A i \in 1 .. 2 * Len(Peers) : NodeRows[i] = PeerRows[i]
  /\ \A i \in 2 * Len(Peers) + 1 .. Len(NodeRows) :
       NodeRows[i] = OrdererRows[i - 2 * Len(Peers)]
<1>1. Len(Peers) \in Nat /\ Len(Orderers) \in Nat
  BY CodeAssumption
<1>2. /\ DOMAIN PeerRows = 1 .. 2 * Len(Peers)
      /\ DOMAIN OrdererRows = 1 .. 2 * Len(Orderers)
  BY DEF PeerRows, OrdererRows
<1>3. Len(PeerRows) = 2 * Len(Peers) /\ Len(OrdererRows) = 2 * Len(Orderers)
  BY <1>1, <1>2 DEF PeerRows, OrdererRows
<1>4. /\ PeerRows = [i \in 1 .. 2 * Len(Peers) |-> PeerRows[i]]
      /\ OrdererRows = [i \in 1 .. 2 * Len(Orderers) |-> OrdererRows[i]]
  BY DEF PeerRows, OrdererRows
<1>5. PeerRows \in Seq(Elements(PeerRows)) /\ OrdererRows \in Seq(Elements(OrdererRows))
  BY <1>1, <1>3, <1>4 DEF Elements
<1>6. PeerRows \in Seq(Elements(PeerRows) \cup Elements(OrdererRows))
  BY <1>5
<1>7. OrdererRows \in Seq(Elements(PeerRows) \cup Elements(OrdererRows))
  BY <1>5
<1> QED BY <1>1, <1>3, <1>5, <1>6, <1>7 DEF NodeRows

(* A sequence is one of its elements, and of any set that has them.        *)
LEMMA SeqOfElements ==
  ASSUME NEW S, NEW s \in Seq(S), NEW T, Elements(s) \subseteq T
  PROVE  s \in Seq(T)
<1>1. Len(s) \in Nat /\ s = [i \in 1 .. Len(s) |-> s[i]]
  OBVIOUS
<1>2. \A i \in 1 .. Len(s) : s[i] \in T
  BY DEF Elements
<1> QED BY <1>1, <1>2

(* The lists are sequences of rows.                                        *)
LEMMA ListsType == \A s \in Lists : s \in Seq(Keys)
<1>1. Elements(NodeRows) \subseteq Keys
  BY DEF Keys
<1>2. Elements(CodeRows) \subseteq Keys
  BY DEF Keys
<1>3. Elements(CodeRefRows) \subseteq Keys
  BY DEF Keys
<1>4. NodeRows \in Seq(Keys)
  BY <1>1, NodePlaces, SeqOfElements
<1>5. CodeRows \in Seq(Keys)
  BY <1>2, CodeAssumption, SeqOfElements
<1>6. CodeRefRows \in Seq(Keys)
  BY <1>3, CodeAssumption, SeqOfElements
<1> QED BY <1>4, <1>5, <1>6 DEF Lists

(* An even number is twice its half.                                       *)
LEMMA EvenHalf ==
  ASSUME NEW n \in Nat, n % 2 # 1
  PROVE  n \div 2 \in Nat /\ n = 2 * (n \div 2)
<1>1. n \div 2 \in Nat /\ 2 * (n \div 2) <= n /\ n <= 2 * (n \div 2) + 1
  OBVIOUS
<1>2. \A m \in Nat : n = 2 * m + 1 => n % 2 = 1
  OBVIOUS
<1>3. n # 2 * (n \div 2) + 1
  BY <1>1, <1>2
<1> QED BY <1>1, <1>3

(* Every peer has its row in the list, and before any reference to it.     *)
LEMMA PeerInList ==
  ASSUME NEW e \in Elements(Peers)
  PROVE  /\ \E j \in 1 .. Len(NodeRows) : NodeRows[j] = NodeRow(e)
         /\ \A n \in 1 .. Len(NodeRows) : NodeRows[n] = ChannelRef(e) =>
              \E j \in 1 .. n - 1 : NodeRows[j] = NodeRow(e)
<1>1. PICK k \in 1 .. Len(Peers) : e = Peers[k]
  BY DEF Elements
<1>2. /\ 2 * k - 1 \in 1 .. 2 * Len(Peers) /\ (2 * k - 1) % 2 = 1
      /\ ((2 * k - 1) + 1) \div 2 = k /\ 2 * k - 1 \in 1 .. Len(NodeRows)
  BY <1>1, NodePlaces
<1>3. NodeRows[2 * k - 1] = NodeRow(e)
  BY <1>1, <1>2, NodePlaces DEF PeerRows
<1>4. ASSUME NEW n \in 1 .. Len(NodeRows), NodeRows[n] = ChannelRef(e)
      PROVE  \E j \in 1 .. n - 1 : NodeRows[j] = NodeRow(e)
  <2>1. CASE n > 2 * Len(Peers)
    <3>1. 2 * k - 1 \in 1 .. n - 1
      BY <1>2, <2>1, NodePlaces
    <3> QED BY <1>3, <3>1
  <2>2. CASE n <= 2 * Len(Peers)
    <3>1. n \in 1 .. 2 * Len(Peers) /\ NodeRows[n] = PeerRows[n]
      BY <2>2, NodePlaces
    <3>2. n % 2 # 1
      <4> SUFFICES ASSUME n % 2 = 1 PROVE FALSE
        OBVIOUS
      <4>1. NodeRows[n] = NodeRow(Peers[(n + 1) \div 2])
        BY <3>1 DEF PeerRows
      <4> QED BY <1>4, <4>1 DEF NodeRow, ChannelRef
    <3>3. NodeRows[n] = ChannelRef(Peers[n \div 2])
      BY <3>1, <3>2 DEF PeerRows
    <3>4. Peers[n \div 2] = e
      BY <1>4, <3>3 DEF ChannelRef
    <3>5. /\ n - 1 \in 1 .. 2 * Len(Peers) /\ (n - 1) % 2 = 1
          /\ ((n - 1) + 1) \div 2 = n \div 2
      <4> DEFINE m == n \div 2
      <4>1. m \in Nat /\ n = 2 * m /\ n \in Nat /\ n >= 1
        BY <3>1, <3>2, NodePlaces, EvenHalf
      <4>2. n \div 2 = m
        OBVIOUS
      <4> HIDE DEF m
      <4>3. (2 * m - 1) % 2 = 1 /\ ((2 * m - 1) + 1) \div 2 = m
        BY <4>1
      <4>4. n - 1 = 2 * m - 1 /\ n - 1 \in 1 .. 2 * Len(Peers)
        BY <3>1, <4>1, NodePlaces
      <4> QED BY <4>2, <4>3, <4>4
    <3>6. NodeRows[n - 1] = NodeRow(e)
      BY <3>4, <3>5, NodePlaces DEF PeerRows
    <3> QED BY <3>5, <3>6
  <2> QED BY <2>1, <2>2, NodePlaces
<1> QED BY <1>2, <1>3, <1>4

(* No reference to a chaincode is in the list of nodes.                    *)
LEMMA NoCodeInNodes ==
  ASSUME NEW n \in 1 .. Len(NodeRows), NEW c, NEW e
  PROVE  NodeRows[n] # CodeRef(c, e)
<1>1. CASE n \in 1 .. 2 * Len(Peers)
  <2>1. \/ \E x : NodeRows[n] = NodeRow(x)
        \/ \E x : NodeRows[n] = ChannelRef(x)
    BY <1>1, NodePlaces DEF PeerRows
  <2> QED BY <2>1 DEF NodeRow, ChannelRef, CodeRef
<1>2. CASE n \notin 1 .. 2 * Len(Peers)
  <2>1. /\ n \in 2 * Len(Peers) + 1 .. Len(NodeRows)
        /\ n - 2 * Len(Peers) \in 1 .. 2 * Len(Orderers)
    BY <1>2, NodePlaces
  <2>2. \/ \E x : NodeRows[n] = NodeRow(x)
        \/ \E x : NodeRows[n] = ChannelRef(x)
    BY <2>1, NodePlaces DEF OrdererRows
  <2> QED BY <2>2 DEF NodeRow, ChannelRef, CodeRef
<1> QED BY <1>1, <1>2

(* The row of a chaincode is in the list before any reference to it.       *)
LEMMA CodeRowFirst ==
  ASSUME NEW c \in Chaincodes, NEW e \in Elements(Peers),
         NEW n \in 1 .. Len(CodeRefRows), CodeRefRows[n] = CodeRef(c, e)
  PROVE  \E j \in 1 .. n - 1 : CodeRefRows[j] = CodeRow(c)
<1>1. ~\E d \in Chaincodes : CodeRefRows[n] = CodeRow(d)
  BY DEF CodeRef, CodeRow
<1>2. PICK d \in Chaincodes, x \in Elements(Peers) :
        /\ CodeRefRows[n] = CodeRef(d, x)
        /\ \E j \in 1 .. n - 1 : CodeRefRows[j] = CodeRow(d)
  BY <1>1, CodeAssumption
<1>3. d = c
  BY <1>2 DEF CodeRef
<1> QED BY <1>2, <1>3

(* The rows ReferencesResolve speaks of are rows of the model.             *)
LEMMA ReferredRows ==
  /\ \A e \in Elements(Peers) : ChannelRef(e) \in Keys /\ NodeRow(e) \in Keys
  /\ \A c \in Chaincodes, e \in Elements(Peers) : CodeRef(c, e) \in Keys => CodeRow(c) \in Keys
<1>1. ASSUME NEW e \in Elements(Peers)
      PROVE  ChannelRef(e) \in Keys /\ NodeRow(e) \in Keys
  <2>1. NodeRow(e) \in Elements(NodeRows)
    BY PeerInList DEF Elements
  <2>2. PICK k \in 1 .. Len(Peers) : e = Peers[k]
    BY DEF Elements
  <2>3. /\ 2 * k \in 1 .. 2 * Len(Peers) /\ (2 * k) % 2 # 1 /\ (2 * k) \div 2 = k
        /\ 2 * k \in 1 .. Len(NodeRows)
    BY <2>2, NodePlaces
  <2>4. NodeRows[2 * k] = ChannelRef(e)
    BY <2>2, <2>3, NodePlaces DEF PeerRows
  <2> QED BY <2>1, <2>3, <2>4 DEF Elements, Keys
<1>2. ASSUME NEW c \in Chaincodes, NEW e \in Elements(Peers), CodeRef(c, e) \in Keys
      PROVE  CodeRow(c) \in Keys
  <2>1. CodeRef(c, e) \notin Elements(NodeRows)
    BY NoCodeInNodes DEF Elements
  <2>2. CodeRef(c, e) \notin Elements(CodeRows)
    BY CodeAssumption DEF Elements, CodeRow, CodeRef
  <2>3. PICK n \in 1 .. Len(CodeRefRows) : CodeRefRows[n] = CodeRef(c, e)
    BY <1>2, <2>1, <2>2 DEF Keys, Elements
  <2>4. PICK j \in 1 .. n - 1 : CodeRefRows[j] = CodeRow(c)
    BY <2>3, CodeRowFirst
  <2>5. j \in 1 .. Len(CodeRefRows)
    BY CodeAssumption
  <2> QED BY <2>4, <2>5 DEF Keys, Elements
<1> QED BY <1>1, <1>2

(* A task that moves to a label keeps the type of pc.                      *)
LEMMA GotoType ==
  ASSUME TasksOK, NEW t \in Task, NEW label \in Labels, Goto(t, label)
  PROVE  pc' \in [Task -> Labels]
BY DEF TasksOK, Goto

(* A task at a channel is at a genesis hash.                               *)
LEMMA HashOfTask ==
  ASSUME RegistryTypeOK, TasksPlaced, NEW t \in Task, pc[t] \in AtChannel
  PROVE  /\ chan[t] \in Channels
         /\ Hash(t) \in Hashes
BY DEF RegistryTypeOK, NetworkOK, TasksPlaced, Hash, Hashes

(* A task at a row has a row to save.                                      *)
LEMMA RowOfTask ==
  ASSUME RegistryTypeOK, NEW t \in Task, work[t] # <<>>
  PROVE  Head(work[t]) \in Keys /\ Tail(work[t]) \in Seq(Keys)
<1>1. work[t] \in Seq(Keys)
  BY DEF RegistryTypeOK, TasksOK
<1> QED BY <1>1

(* What is left when the process ends has the right types.                 *)
LEMMA NoProcessType ==
  ASSUME NoProcess
  PROVE  /\ up' \in BOOLEAN
         /\ channels' \subseteq Channels /\ atBoot' \subseteq Channels
         /\ armed' \in BOOLEAN /\ initialized' \in BOOLEAN
         /\ hub' \subseteq Channels
         /\ TasksOK'
<1>1. <<>> \in Seq(Keys) /\ "off" \in Labels /\ "nodes" \in Stages
  BY DEF Labels, Stages
<1> QED BY <1>1 DEF NoProcess, TasksOK

(* So has the state of a task whose discovery results are in the tables.   *)
LEMMA DiscoveryInsertedType ==
  ASSUME RegistryTypeOK, NEW t \in Task, DiscoveryInserted(t), todo' = todo
  PROVE  TasksOK'
<1>1. {"chaincodes", "off"} \subseteq Labels /\ {"code", "nodes"} \subseteq Stages
  BY DEF Labels, Stages
<1>2. pc' \in [Task -> Labels]
  BY <1>1, GotoType DEF DiscoveryInserted, RegistryTypeOK
<1>3. <<>> \in Seq(Keys)
  OBVIOUS
<1>4. /\ chan' \in [Task -> Channels \cup {None}]
      /\ work' \in [Task -> Seq(Keys)]
      /\ stage' \in [Task -> Stages]
  BY <1>1, <1>3 DEF RegistryTypeOK, TasksOK, DiscoveryInserted
<1> QED BY <1>2, <1>4 DEF RegistryTypeOK, TasksOK

(* Every step keeps the types.                                             *)
LEMMA RegistryTypePreserved ==
  ASSUME RegistryTypeOK, TasksPlaced, [Next]_vars
  PROVE  RegistryTypeOK'
<1> USE DEF network, tables, database, process, locals, faults
<1>0. NetworkOK /\ TablesOK /\ ProcessOK /\ TasksOK /\ FaultsOK
  BY DEF RegistryTypeOK
<1>1. \A label \in {"off", "discover", "rows", "insert", "chaincodes"} \cup SyncLabels :
        label \in Labels
  BY DEF Labels
<1>2. ASSUME NEW s \in Syncs, StartSync(s) \/ SynchNetworkConfigToDB(s)
      PROVE  RegistryTypeOK'
  <2>0. s \in Task
    BY DEF Task
  <2>1. CASE StartSync(s)
    <3>1. pc' \in [Task -> Labels]
      BY <1>0, <1>1, <2>0, <2>1, GotoType DEF StartSync, SyncLabels
    <3> QED BY <1>0, <2>1, <3>1
         DEF StartSync, RegistryTypeOK, NetworkOK, TablesOK, ProcessOK, TasksOK, FaultsOK
  <2>2. CASE QueryChannels(s)
    <3>1. pc' \in [Task -> Labels]
      BY <1>0, <1>1, <2>0, <2>2, GotoType DEF QueryChannels, SyncLabels
    <3> QED BY <1>0, <2>2, <3>1
         DEF QueryChannels, RegistryTypeOK, NetworkOK, TablesOK, ProcessOK, TasksOK,
             FaultsOK
  <2>3. CASE InitializeNewChannel(s)
    BY <1>0, <2>3 DEF InitializeNewChannel, RegistryTypeOK, NetworkOK, TablesOK,
                      ProcessOK, TasksOK, FaultsOK
  <2>4. CASE BeginLoop(s)
    <3>1. pc' \in [Task -> Labels]
      BY <1>0, <1>1, <2>0, <2>4, GotoType DEF BeginLoop, SyncLabels
    <3> QED BY <1>0, <2>4, <3>1
         DEF BeginLoop, RegistryTypeOK, NetworkOK, TablesOK, ProcessOK, TasksOK, FaultsOK
  <2>5. CASE NextChannel(s)
    <3>1. pc' \in [Task -> Labels]
      BY <1>0, <1>1, <2>0, <2>5, GotoType DEF NextChannel, SyncLabels
    <3>2. /\ chan' \in [Task -> Channels \cup {None}]
          /\ todo' \in [Syncs -> SUBSET Channels]
      BY <1>0, <2>0, <2>5 DEF NextChannel, TasksOK
    <3> QED BY <1>0, <2>5, <3>1, <3>2
         DEF NextChannel, RegistryTypeOK, NetworkOK, TablesOK, ProcessOK, TasksOK,
             FaultsOK
  <2>6. CASE EndSync(s)
    <3>1. pc' \in [Task -> Labels]
      BY <1>0, <1>1, <2>0, <2>6, GotoType DEF EndSync, SyncLabels
    <3> QED BY <1>0, <2>6, <3>1
         DEF EndSync, RegistryTypeOK, NetworkOK, TablesOK, ProcessOK, TasksOK, FaultsOK
  <2>7. CASE GetChannel(s) \/ ExistChannel(s) \/ SaveChannel(s)
    <3>1. pc' \in [Task -> Labels]
      BY <1>0, <1>1, <2>0, <2>7, GotoType
         DEF GetChannel, ExistChannel, SaveChannel, SyncLabels
    <3> QED BY <1>0, <2>7, <3>1
         DEF GetChannel, ExistChannel, SaveChannel, RegistryTypeOK, NetworkOK, TablesOK,
             ProcessOK, TasksOK, FaultsOK
  <2>8. CASE ChannelExists(s)
    <3>1. chan[s] \in Channels
      BY <2>0, <2>8, HashOfTask DEF ChannelExists, AtChannel, InNewChannel
    <3> QED BY <1>0, <2>8, <3>1, NoProcessType
         DEF ChannelExists, RegistryTypeOK, NetworkOK, TablesOK, ProcessOK, FaultsOK
  <2>9. CASE WriteChannel(s)
    <3>1. pc' \in [Task -> Labels]
      BY <1>0, <1>1, <2>0, <2>9, GotoType DEF WriteChannel
    <3>2. Hash(s) \in Hashes
      BY <2>0, <2>9, HashOfTask DEF WriteChannel, AtChannel, InNewChannel
    <3>3. channelRows' \in [Hashes -> Nat] /\ blockCounter' \in [Hashes -> Nat]
      BY <1>0, <2>9, <3>2 DEF WriteChannel, TablesOK
    <3> QED BY <1>0, <2>9, <3>1, <3>3
         DEF WriteChannel, RegistryTypeOK, NetworkOK, TablesOK, ProcessOK, TasksOK,
             FaultsOK
  <2>10. CASE CodeInserted(s)
    <3>1. pc' \in [Task -> Labels]
      BY <1>0, <1>1, <2>0, <2>10, GotoType DEF CodeInserted, SyncLabels
    <3> QED BY <1>0, <2>0, <2>10, <3>1
         DEF CodeInserted, RegistryTypeOK, NetworkOK, TablesOK, ProcessOK, TasksOK,
             FaultsOK, Stages
  <2> QED BY <1>2, <2>1, <2>2, <2>3, <2>4, <2>5, <2>6, <2>7, <2>8, <2>9, <2>10
       DEF SynchNetworkConfigToDB, InsertNewChannel
<1>3. ASSUME NEW t \in Task, InsertFromDiscoveryResults(t)
      PROVE  RegistryTypeOK'
  <2>1. CASE Discover(t) \/ QueryChaincodes(t)
    <3>1. pc' \in [Task -> Labels]
      BY <1>0, <1>1, <2>1, GotoType DEF Discover, QueryChaincodes
    <3>2. work' \in [Task -> Seq(Keys)] /\ stage' \in [Task -> Stages]
      BY <1>0, <2>1, ListsType DEF Discover, QueryChaincodes, TasksOK, Stages, Lists
    <3> QED BY <1>0, <2>1, <3>1, <3>2
         DEF Discover, QueryChaincodes, RegistryTypeOK, NetworkOK, TablesOK, ProcessOK,
             TasksOK, FaultsOK
  <2>2. CASE DiscoverNull(t) \/ CodeRefsInserted(t)
    <3>1. TasksOK'
      BY <1>0, <2>2, DiscoveryInsertedType DEF DiscoverNull, CodeRefsInserted
    <3> QED BY <1>0, <2>2, <3>1
         DEF DiscoverNull, CodeRefsInserted, RegistryTypeOK, NetworkOK, TablesOK,
             ProcessOK, FaultsOK
  <2>3. CASE CountRow(t)
    <3>1. pc' \in [Task -> Labels]
      BY <1>0, <1>1, <2>3, GotoType DEF CountRow, TasksOK
    <3>2. work' \in [Task -> Seq(Keys)]
      BY <1>0, <2>3, RowOfTask DEF CountRow, TasksOK
    <3> QED BY <1>0, <2>3, <3>1, <3>2
         DEF CountRow, RegistryTypeOK, NetworkOK, TablesOK, ProcessOK, TasksOK, FaultsOK
  <2>4. CASE InsertRow(t)
    <3>1. pc' \in [Task -> Labels]
      BY <1>0, <1>1, <2>4, GotoType DEF InsertRow
    <3>2. work[t] # <<>> /\ Hash(t) \in Hashes
      BY <2>4, HashOfTask DEF InsertRow, TasksPlaced, AtChannel
    <3>3. work' \in [Task -> Seq(Keys)]
      BY <1>0, <2>4, <3>2, RowOfTask DEF InsertRow, TasksOK
    <3>4. rows' \in [Hashes -> [Keys -> Nat]]
      BY <1>0, <2>4, <3>2, RowOfTask DEF InsertRow, TablesOK
    <3> QED BY <1>0, <2>4, <3>1, <3>3, <3>4
         DEF InsertRow, RegistryTypeOK, NetworkOK, TablesOK, ProcessOK, TasksOK, FaultsOK
  <2>5. CASE NodesInserted(t)
    <3>1. pc' \in [Task -> Labels]
      BY <1>0, <1>1, <2>5, GotoType DEF NodesInserted
    <3> QED BY <1>0, <2>5, <3>1
         DEF NodesInserted, RegistryTypeOK, NetworkOK, TablesOK, ProcessOK, TasksOK,
             FaultsOK, Stages
  <2> QED BY <1>3, <2>1, <2>2, <2>3, <2>4, <2>5 DEF InsertFromDiscoveryResults
<1>4. ASSUME NEW t \in Task, Timeout(t) \/ Fail(t)
      PROVE  RegistryTypeOK'
  <2>1. CASE Timeout(t)
    <3>1. pc' \in [Task -> Labels]
      BY <1>0, <1>1, <2>1, GotoType DEF Timeout
    <3>2. /\ chan' \in [Task -> Channels \cup {None}]
          /\ work' \in [Task -> Seq(Keys)]
          /\ stage' \in [Task -> Stages]
          /\ todo' \in [Syncs -> SUBSET Channels]
      BY <1>0, <2>1 DEF Timeout, TasksOK, Stages
    <3>3. timeouts' \in 0 .. MaxFaults
      BY <1>0, <2>1, LimitAssumption DEF Timeout, FaultsOK
    <3> QED BY <1>0, <2>1, <3>1, <3>2, <3>3
         DEF Timeout, RegistryTypeOK, NetworkOK, TablesOK, ProcessOK, TasksOK, FaultsOK
  <2>2. CASE Fail(t)
    <3>1. deaths' \in 0 .. MaxFaults
      BY <1>0, <2>2, LimitAssumption DEF Fail, FaultsOK
    <3> QED BY <1>0, <2>2, <3>1, NoProcessType
         DEF Fail, RegistryTypeOK, NetworkOK, TablesOK, ProcessOK, FaultsOK
  <2> QED BY <1>4, <2>1, <2>2
<1>5. CASE Crash
  <2>1. deaths' \in 0 .. MaxFaults
    BY <1>0, <1>5, LimitAssumption DEF Crash, FaultsOK
  <2> QED BY <1>0, <1>5, <2>1, NoProcessType
       DEF Crash, RegistryTypeOK, NetworkOK, TablesOK, ProcessOK, FaultsOK
<1>6. ASSUME NEW c \in Channels, Join(c) \/ Rebuild(c) \/ ConnectHub(c) \/ StoreBlock(c)
      PROVE  RegistryTypeOK'
  <2>1. CASE Join(c) \/ ConnectHub(c)
    BY <1>0, <2>1 DEF Join, ConnectHub, RegistryTypeOK, NetworkOK, TablesOK, ProcessOK,
                      TasksOK, FaultsOK
  <2>2. CASE Rebuild(c)
    <3>1. genesis' \in [Channels -> Generations]
      BY <1>0, <2>2, LimitAssumption DEF Rebuild, NetworkOK, Generations
    <3> QED BY <1>0, <2>2, <3>1
         DEF Rebuild, RegistryTypeOK, NetworkOK, TablesOK, ProcessOK, TasksOK, FaultsOK
  <2>3. CASE StoreBlock(c)
    <3>1. <<c, genesis[c]>> \in Hashes
      BY <1>0 DEF NetworkOK, Hashes
    <3>2. blockRows' \in [Hashes -> Nat] /\ blockCounter' \in [Hashes -> Nat]
      BY <1>0, <2>3, <3>1 DEF StoreBlock, TablesOK
    <3> QED BY <1>0, <2>3, <3>2
         DEF StoreBlock, RegistryTypeOK, NetworkOK, TablesOK, ProcessOK, TasksOK, FaultsOK
  <2> QED BY <1>6, <2>1, <2>2, <2>3
<1>7. CASE Boot
  <2>1. channels' \subseteq Channels /\ atBoot' \subseteq Channels
    BY <1>0, <1>7 DEF Boot, NetworkOK
  <2> QED BY <1>0, <1>7, <2>1
       DEF Boot, RegistryTypeOK, NetworkOK, TablesOK, ProcessOK, TasksOK, FaultsOK
<1>8. ASSUME NEW u \in Updates, ScheduleUpdate(u)
      PROVE  RegistryTypeOK'
  <2>1. u \in Task
    BY DEF Task
  <2>2. pc' \in [Task -> Labels]
    BY <1>0, <1>1, <1>8, <2>1, GotoType DEF ScheduleUpdate
  <2>3. chan' \in [Task -> Channels \cup {None}]
    BY <1>0, <1>8, <2>1 DEF ScheduleUpdate, TasksOK, ProcessOK
  <2> QED BY <1>0, <1>8, <2>2, <2>3
       DEF ScheduleUpdate, RegistryTypeOK, NetworkOK, TablesOK, ProcessOK, TasksOK,
           FaultsOK
<1>9. CASE UNCHANGED vars
  BY <1>0, <1>9 DEF vars, RegistryTypeOK, NetworkOK, TablesOK, ProcessOK, TasksOK,
                    FaultsOK
<1> QED BY <1>2, <1>3, <1>4, <1>5, <1>6, <1>7, <1>8, <1>9 DEF Next

-----------------------------------------------------------------------------

(* What most steps do to a task: it moves, the timer stays as it is.       *)
Moves(t) ==
  /\ up /\ UNCHANGED <<up, armed>>
  /\ t \in Syncs => pc[t] # "off"
  /\ \E label \in Labels : Goto(t, label)

(* The steps of the row loops move the task or leave it where it is.       *)
LEMMA RowStepsMove ==
  ASSUME RegistryInv, NEW t \in Task, InsertFromDiscoveryResults(t) \/ Timeout(t)
  PROVE  Moves(t) \/ (up /\ UNCHANGED <<up, armed, pc>>)
<1>1. pc[t] # "off" /\ up
  <2>1. pc[t] # "off"
    BY DEF InsertFromDiscoveryResults, Discover, DiscoverNull, CountRow, InsertRow,
           NodesInserted, CodeRefsInserted, QueryChaincodes, Timeout
  <2> QED BY <2>1 DEF RegistryInv, OneSync, RegistryTypeOK, ProcessOK
<1>2. {"off", "rows", "insert", "chaincodes"} \subseteq Labels
  BY DEF Labels
<1> QED BY <1>1, <1>2
     DEF Moves, InsertFromDiscoveryResults, Discover, DiscoverNull, CountRow, InsertRow,
         NodesInserted, CodeRefsInserted, QueryChaincodes, Timeout, DiscoveryInserted,
         process

(* So do the steps of a synchronisation between its first and its last.    *)
LEMMA SyncStepsMove ==
  ASSUME RegistryInv, NEW s \in Syncs, SynchNetworkConfigToDB(s)
  PROVE  \/ Moves(s) /\ UNCHANGED initialized
         \/ up /\ UNCHANGED <<up, armed, pc>>
         \/ EndSync(s)
         \/ ChannelExists(s)
<1>1. pc[s] # "off" /\ up
  <2>1. pc[s] # "off"
    BY DEF SynchNetworkConfigToDB, QueryChannels, InitializeNewChannel, BeginLoop,
           NextChannel, EndSync, InsertNewChannel, GetChannel, ExistChannel,
           ChannelExists, SaveChannel, WriteChannel, CodeInserted
  <2> QED BY <2>1 DEF RegistryInv, OneSync, Task
<1>2. SyncLabels \cup {"discover"} \subseteq Labels
  BY DEF Labels
<1>3. \A label \in {"initialize", "nextChannel", "getChannel", "existChannel",
                    "saveChannel", "insertChannel", "resetChannel"} : label \in SyncLabels
  BY DEF SyncLabels
<1> QED BY <1>1, <1>2, <1>3
     DEF Moves, SynchNetworkConfigToDB, QueryChannels, InitializeNewChannel, BeginLoop,
         NextChannel, InsertNewChannel, GetChannel, ExistChannel, SaveChannel,
         WriteChannel, CodeInserted, process

(* A synchronisation runs alone: it takes the timer with it.               *)
LEMMA OneSyncPreserved ==
  ASSUME RegistryInv, [Next]_vars
  PROVE  OneSync'
<1>0. /\ OneSync /\ RegistryTypeOK /\ StartupOrder
      /\ pc \in [Task -> Labels] /\ Syncs \subseteq Task
  BY DEF RegistryInv, RegistryTypeOK, TasksOK, Task
<1>1. CASE NoProcess
  BY <1>1 DEF NoProcess, OneSync, Task
<1>2. ASSUME NEW s \in Syncs, StartSync(s)
      PROVE  OneSync'
  BY <1>0, <1>2 DEF StartSync, OneSync, Goto, process
<1>3. ASSUME NEW s \in Syncs, EndSync(s)
      PROVE  OneSync'
  BY <1>0, <1>3 DEF EndSync, OneSync, Goto, process
<1>4. CASE Boot
  BY <1>0, <1>4 DEF Boot, OneSync
<1>5. ASSUME NEW t \in Task, Moves(t)
      PROVE  OneSync'
  BY <1>0, <1>5, TaskAssumption DEF Moves, Goto, OneSync, Task
<1>6. CASE up /\ UNCHANGED <<up, armed, pc>>
  BY <1>0, <1>6 DEF OneSync
<1>7. CASE UNCHANGED <<up, armed, pc, initialized, hub, channels>>
  BY <1>0, <1>7 DEF OneSync
<1>8. ASSUME NEW c \in Channels, ConnectHub(c) \/ Join(c) \/ Rebuild(c) \/ StoreBlock(c)
      PROVE  \/ UNCHANGED <<up, armed, pc, initialized, hub, channels>>
             \/ up /\ UNCHANGED <<up, armed, pc>>
  BY <1>0, <1>8 DEF ConnectHub, Join, Rebuild, StoreBlock, process, OneSync
<1>9. ASSUME NEW u \in Updates, ScheduleUpdate(u)
      PROVE  Moves(u)
  BY <1>0, <1>9, TaskAssumption DEF ScheduleUpdate, Moves, OneSync, Labels, process
<1>10. ASSUME NEW t \in Task, Fail(t)
       PROVE  NoProcess
  BY <1>10 DEF Fail
<1>11. CASE Crash
  BY <1>1, <1>11 DEF Crash
<1>12. ASSUME NEW s \in Syncs, ChannelExists(s)
       PROVE  NoProcess
  BY <1>12 DEF ChannelExists
<1>13. CASE UNCHANGED vars
  BY <1>7, <1>13 DEF vars, process
<1> QED
  BY <1>0, <1>1, <1>2, <1>3, <1>4, <1>5, <1>6, <1>7, <1>8, <1>9, <1>10, <1>11, <1>12,
     <1>13, RowStepsMove, SyncStepsMove DEF Next, Task

(* Tasks stay at channels the peer has joined.                             *)
LEMMA PlacesPreserved ==
  ASSUME RegistryInv, [Next]_vars
  PROVE  TasksPlaced'
<1> USE DEF process, locals, network
<1>0. /\ TasksPlaced /\ OneSync
      /\ pc \in [Task -> Labels] /\ Syncs \subseteq Task /\ Updates \subseteq Task
      /\ chan \in [Task -> Channels \cup {None}] /\ todo \in [Syncs -> SUBSET Channels]
      /\ work \in [Task -> Seq(Keys)] /\ stage \in [Task -> Stages]
  BY DEF RegistryInv, RegistryTypeOK, TasksOK, Task
<1>1. CASE NoProcess /\ UNCHANGED joined
  BY <1>0, <1>1 DEF NoProcess, TasksPlaced, AtChannel, InNewChannel, SyncLabels
<1>2. ASSUME NEW s \in Syncs, StartSync(s) \/ SynchNetworkConfigToDB(s)
      PROVE  TasksPlaced'
  <2>1. s \in Task /\ s \notin Updates
    BY TaskAssumption DEF Task
  <2>2. CASE StartSync(s) \/ BeginLoop(s) \/ EndSync(s) \/ CodeInserted(s)
    BY <1>0, <2>1, <2>2
       DEF StartSync, BeginLoop, EndSync, CodeInserted, Goto, TasksPlaced, AtChannel,
           InNewChannel
  <2>3. CASE QueryChannels(s)
    BY <1>0, <2>1, <2>3 DEF QueryChannels, Goto, TasksPlaced, AtChannel, InNewChannel
  <2>7. CASE InitializeNewChannel(s)
    BY <1>0, <2>1, <2>7 DEF InitializeNewChannel, TasksPlaced
  <2>4. CASE NextChannel(s)
    BY <1>0, <2>1, <2>4 DEF NextChannel, Goto, TasksPlaced, AtChannel, InNewChannel
  <2>5. CASE GetChannel(s) \/ ExistChannel(s) \/ SaveChannel(s) \/ WriteChannel(s)
    BY <1>0, <2>1, <2>5
       DEF GetChannel, ExistChannel, SaveChannel, WriteChannel, Goto, TasksPlaced,
           AtChannel, InNewChannel
  <2>6. CASE ChannelExists(s)
    BY <1>1, <2>6 DEF ChannelExists
  <2> QED BY <1>2, <2>2, <2>3, <2>4, <2>5, <2>6, <2>7
       DEF SynchNetworkConfigToDB, InsertNewChannel
<1>3. ASSUME NEW t \in Task, InsertFromDiscoveryResults(t) \/ Timeout(t)
      PROVE  TasksPlaced'
  <2>1. CASE Discover(t) \/ QueryChaincodes(t) \/ NodesInserted(t)
    BY <1>0, <2>1
       DEF Discover, QueryChaincodes, NodesInserted, Goto, TasksPlaced, AtChannel,
           InNewChannel, SyncLabels
  <2>2. CASE CountRow(t) \/ InsertRow(t)
    BY <1>0, <2>2
       DEF CountRow, InsertRow, Goto, TasksPlaced, AtChannel, InNewChannel, SyncLabels
  <2>3. CASE (DiscoverNull(t) \/ CodeRefsInserted(t)) /\ t \in Syncs
    <3>1. t \notin Updates
      BY <2>3, TaskAssumption
    <3>2. /\ Goto(t, "chaincodes") /\ stage' = [stage EXCEPT ![t] = "code"]
          /\ chan' = chan /\ work' = work
          /\ UNCHANGED <<channels, hub, todo, joined>> /\ pc[t] \in AtChannel
      BY <2>3 DEF DiscoverNull, CodeRefsInserted, DiscoveryInserted, AtChannel
    <3> QED BY <1>0, <3>1, <3>2 DEF Goto, TasksPlaced, AtChannel, InNewChannel, SyncLabels
  <2>5. CASE (DiscoverNull(t) \/ CodeRefsInserted(t)) /\ t \notin Syncs
    <3>1. /\ Goto(t, "off") /\ stage' = [stage EXCEPT ![t] = "nodes"]
          /\ chan' = [chan EXCEPT ![t] = None] /\ work' = [work EXCEPT ![t] = <<>>]
          /\ UNCHANGED <<channels, hub, todo, joined>>
      BY <2>5 DEF DiscoverNull, CodeRefsInserted, DiscoveryInserted
    <3> QED BY <1>0, <3>1 DEF Goto, TasksPlaced, AtChannel, InNewChannel, SyncLabels
  <2>4. CASE Timeout(t)
    BY <1>0, <2>4 DEF Timeout, Goto, TasksPlaced, AtChannel, InNewChannel, SyncLabels
  <2> QED BY <1>3, <2>1, <2>2, <2>3, <2>4, <2>5 DEF InsertFromDiscoveryResults
<1>4. ASSUME NEW t \in Task, Fail(t)
      PROVE  TasksPlaced'
  BY <1>1, <1>4 DEF Fail
<1>5. CASE Crash
  BY <1>1, <1>5 DEF Crash
<1>6. ASSUME NEW c \in Channels, Join(c) \/ Rebuild(c) \/ ConnectHub(c) \/ StoreBlock(c)
      PROVE  TasksPlaced'
  BY <1>0, <1>6 DEF Join, Rebuild, ConnectHub, StoreBlock, TasksPlaced
<1>7. CASE Boot
  BY <1>0, <1>7 DEF Boot, TasksPlaced
<1>8. ASSUME NEW u \in Updates, ScheduleUpdate(u)
      PROVE  TasksPlaced'
  BY <1>0, <1>8 DEF ScheduleUpdate, Goto, TasksPlaced, AtChannel, InNewChannel, SyncLabels
<1>9. CASE UNCHANGED vars
  BY <1>0, <1>9 DEF vars, TasksPlaced
<1> QED BY <1>2, <1>3, <1>4, <1>5, <1>6, <1>7, <1>8, <1>9 DEF Next

-----------------------------------------------------------------------------

(* What an insert does: the name is free, and its channel gets a row.      *)
Inserted(s) ==
  /\ pc[s] = "insertChannel"
  /\ chan[s] \in joined
  /\ ~NameTaken(chan[s])
  /\ channelRows' = [channelRows EXCEPT ![Hash(s)] = 1]
  /\ UNCHANGED network

(* The types the proofs below reason with.                                 *)
LEMMA RowTypes ==
  ASSUME RegistryInv
  PROVE  /\ channelRows \in [Hashes -> Nat] /\ genesis \in [Channels -> Generations]
         /\ Generations \subseteq Nat
         /\ \A c \in Channels : genesis[c] \in Nat
         /\ \A c \in Channels, g \in Generations :
               <<c, g>> \in Hashes /\ channelRows[<<c, g>>] \in Nat
         /\ \A h \in Hashes : /\ h[1] \in Channels /\ h[2] \in Generations /\ h[2] \in Nat
                            /\ h = <<h[1], h[2]>>
                            /\ channelRows[h] \in Nat
         /\ joined \subseteq Channels /\ existing \subseteq Channels
<1>1. /\ channelRows \in [Hashes -> Nat] /\ genesis \in [Channels -> Generations]
      /\ Generations \subseteq Nat
      /\ joined \subseteq Channels /\ existing \subseteq Channels
  BY LimitAssumption
     DEF RegistryInv, RegistryTypeOK, TablesOK, NetworkOK, ProcessOK, Generations
<1>2. \A c \in Channels, g \in Generations :
        <<c, g>> \in Hashes /\ channelRows[<<c, g>>] \in Nat
  BY <1>1 DEF Hashes
<1>3. \A h \in Hashes : /\ h[1] \in Channels /\ h[2] \in Generations
                      /\ h = <<h[1], h[2]>> /\ channelRows[h] \in Nat
  BY <1>1 DEF Hashes
<1> QED BY <1>1, <1>2, <1>3

(* A name that is free has no row, whatever the genesis hash.              *)
LEMMA FreeName ==
  ASSUME RegistryInv, NEW c \in Channels, ~NameTaken(c)
  PROVE  \A g \in Generations : channelRows[<<c, g>>] = 0
<1> TAKE g \in Generations
<1>1. channelRows[<<c, g>>] \in Nat
  BY RowTypes
<1>2. ~(channelRows[<<c, g>>] > 0)
  BY DEF NameTaken
<1> QED BY <1>1, <1>2

(* The rows of table channel change by the insert of a free name only.     *)
LEMMA RowsChange ==
  ASSUME RegistryInv, [Next]_vars
  PROVE  \/ UNCHANGED channelRows
         \/ \E s \in Syncs : WriteChannel(s) /\ Inserted(s)
<1> USE DEF database
<1>1. ASSUME NEW s \in Syncs, WriteChannel(s), ~UNCHANGED channelRows
      PROVE  Inserted(s)
  <2>1. pc[s] = "insertChannel"
    BY <1>1 DEF WriteChannel, RegistryInv, CountersNeverReset
  <2>2. s \in Task /\ pc[s] \in AtChannel
    BY <2>1 DEF Task, AtChannel, InNewChannel
  <2>3. Hash(s) \in Hashes /\ chan[s] \in joined /\ chan[s] \in Channels
    BY <2>2, HashOfTask DEF RegistryInv, TasksPlaced
  <2>4. ~NameTaken(chan[s])
    BY <2>1 DEF RegistryInv, NamesKnown
  <2>5. genesis[chan[s]] \in Generations
    BY <2>3, RowTypes
  <2>6. channelRows[Hash(s)] = 0
    BY <2>3, <2>4, <2>5, FreeName DEF Hash
  <2> QED BY <1>1, <2>1, <2>3, <2>4, <2>6 DEF WriteChannel, Inserted
<1> QED BY <1>1
     DEF Next, vars, Join, Rebuild, ConnectHub, StoreBlock, Boot, StartSync,
         SynchNetworkConfigToDB, QueryChannels, InitializeNewChannel, BeginLoop,
         NextChannel, EndSync, InsertNewChannel, GetChannel, ExistChannel, ChannelExists,
         SaveChannel, CodeInserted, InsertFromDiscoveryResults, Discover, DiscoverNull,
         CountRow, InsertRow, NodesInserted, CodeRefsInserted, QueryChaincodes,
         ScheduleUpdate, Timeout, Fail, Crash

(* The network's genesis hashes only grow, and not under a running process.*)
LEMMA GenesisChange ==
  ASSUME RegistryInv, [Next]_vars
  PROVE  \/ UNCHANGED genesis
         \/ /\ ~up /\ UNCHANGED <<database, existing, process, pc>>
            /\ \E c \in Channels : genesis' = [genesis EXCEPT ![c] = @ + 1]
BY DEF Next, vars, network, process, Join, Rebuild, ConnectHub, StoreBlock, Boot,
       StartSync,
       SynchNetworkConfigToDB, QueryChannels, InitializeNewChannel, BeginLoop,
       NextChannel, EndSync, InsertNewChannel, GetChannel, ExistChannel, ChannelExists,
       SaveChannel, WriteChannel, CodeInserted, InsertFromDiscoveryResults, Discover,
       DiscoverNull, CountRow, InsertRow, NodesInserted, CodeRefsInserted,
       QueryChaincodes, ScheduleUpdate, Timeout, Fail, Crash

(* The effect of an insert, hash by hash.                                  *)
LEMMA InsertedRows ==
  ASSUME RegistryInv, NEW s \in Syncs, Inserted(s)
  PROVE  /\ chan[s] \in Channels /\ genesis[chan[s]] \in Generations
         /\ Hash(s) \in Hashes /\ Hash(s) = <<chan[s], genesis[chan[s]]>>
         /\ \A g \in Generations : channelRows[<<chan[s], g>>] = 0
         /\ \A h \in Hashes : channelRows'[h] = IF h = Hash(s) THEN 1 ELSE channelRows[h]
<1>1. chan[s] \in Channels
  BY RowTypes DEF Inserted
<1>2. genesis[chan[s]] \in Generations
  BY <1>1, RowTypes
<1>3. Hash(s) \in Hashes /\ Hash(s) = <<chan[s], genesis[chan[s]]>>
  BY <1>1, <1>2 DEF Hash, Hashes
<1>4. \A g \in Generations : channelRows[<<chan[s], g>>] = 0
  BY <1>1, FreeName DEF Inserted
<1>5. channelRows' = [channelRows EXCEPT ![Hash(s)] = 1]
  BY DEF Inserted
<1>6. channelRows \in [Hashes -> Nat]
  BY RowTypes
<1>7. \A h \in Hashes : channelRows'[h] = IF h = Hash(s) THEN 1 ELSE channelRows[h]
  BY <1>5, <1>6
<1> QED BY <1>1, <1>2, <1>3, <1>4, <1>7

(* No row is lost and no genesis hash comes back.                          *)
LEMMA NothingLost ==
  ASSUME RegistryInv, [Next]_vars
  PROVE  /\ \A h \in Hashes : channelRows[h] > 0 => channelRows'[h] > 0
         /\ \A c \in Channels : genesis'[c] \in Nat /\ genesis[c] <= genesis'[c]
<1>1. \A h \in Hashes : channelRows[h] > 0 => channelRows'[h] > 0
  BY RowsChange, InsertedRows
<1>2. \A c \in Channels : genesis'[c] \in Nat /\ genesis[c] <= genesis'[c]
  <2> TAKE c \in Channels
  <2>1. genesis[c] \in Nat /\ genesis \in [Channels -> Generations]
    BY RowTypes
  <2>2. ASSUME NEW d \in Channels, genesis' = [genesis EXCEPT ![d] = @ + 1]
        PROVE  genesis'[c] = genesis[c] \/ genesis'[c] = genesis[c] + 1
    BY <2>1, <2>2
  <2> QED BY <2>1, <2>2, GenesisChange
<1> QED BY <1>1, <1>2

(* A name has one row: an insert finds the name free, and nothing else     *)
(* adds rows.                                                              *)
LEMMA NamesPreserved ==
  ASSUME RegistryInv, [Next]_vars
  PROVE  /\ OneRowPerName'
         /\ (\A h \in Hashes : channelRows[h] > 0 => h[2] <= genesis[h[1]])'
<1>0. /\ \A h \in Hashes : channelRows[h] <= 1
      /\ \A c \in Channels, g, h \in Generations :
           channelRows[<<c, g>>] > 0 /\ channelRows[<<c, h>>] > 0 => g = h
      /\ \A h \in Hashes : channelRows[h] > 0 => h[2] <= genesis[h[1]]
  BY DEF RegistryInv, NamesKnown, OneRowPerName
<1>1. CASE UNCHANGED channelRows
  <2>1. OneRowPerName'
    BY <1>0, <1>1 DEF OneRowPerName
  <2>2. ASSUME NEW h \in Hashes, channelRows'[h] > 0
        PROVE  h[2] <= genesis'[h[1]]
    <3>1. h[1] \in Channels /\ h[2] \in Nat /\ h[2] <= genesis[h[1]]
      BY <1>0, <1>1, <2>2, RowTypes
    <3>2. genesis[h[1]] \in Nat /\ genesis'[h[1]] \in Nat /\ genesis[h[1]] <= genesis'[h[1]]
      BY <3>1, RowTypes, NothingLost
    <3> QED BY <3>1, <3>2
  <2> QED BY <2>1, <2>2
<1>2. ASSUME NEW s \in Syncs, Inserted(s)
      PROVE  /\ OneRowPerName'
             /\ (\A h \in Hashes : channelRows[h] > 0 => h[2] <= genesis[h[1]])'
  <2>1. \A h \in Hashes : channelRows'[h] <= 1
    BY <1>0, <1>2, InsertedRows
  <2>2. \A c \in Channels, g \in Generations :
          channelRows'[<<c, g>>] > 0 =>
            IF c = chan[s] THEN g = genesis[chan[s]] ELSE channelRows[<<c, g>>] > 0
    <3> TAKE c \in Channels, g \in Generations
    <3>1. <<c, g>> \in Hashes
      BY RowTypes
    <3>2. channelRows'[<<c, g>>] = IF <<c, g>> = Hash(s) THEN 1 ELSE channelRows[<<c, g>>]
      BY <1>2, <3>1, InsertedRows
    <3>3. c = chan[s] => channelRows[<<c, g>>] = 0
      BY <1>2, InsertedRows
    <3>4. <<c, g>> = Hash(s) <=> c = chan[s] /\ g = genesis[chan[s]]
      BY <1>2, InsertedRows
    <3> QED BY <3>2, <3>3, <3>4
  <2>3. OneRowPerName'
    BY <1>0, <2>1, <2>2 DEF OneRowPerName
  <2>4. ASSUME NEW h \in Hashes, channelRows'[h] > 0
        PROVE  h[2] <= genesis'[h[1]]
    <3>1. genesis' = genesis
      BY <1>2 DEF Inserted, network
    <3>2. CASE h = Hash(s)
      <4>1. h[1] = chan[s] /\ h[2] = genesis[chan[s]] /\ genesis[chan[s]] \in Nat
        BY <1>2, <3>2, InsertedRows, RowTypes
      <4> QED BY <3>1, <4>1
    <3>3. CASE h # Hash(s)
      BY <1>0, <1>2, <2>4, <3>1, <3>3, InsertedRows
    <3> QED BY <3>2, <3>3
  <2> QED BY <2>3, <2>4
<1> QED BY <1>1, <1>2, RowsChange

-----------------------------------------------------------------------------

(* A running synchronisation keeps the ledgers as they are, and nobody     *)
(* else inserts channels.                                                  *)
LEMMA SyncAlone ==
  ASSUME RegistryInv, [Next]_vars, NEW s \in Syncs, pc[s] # "off"
  PROVE  /\ up /\ UNCHANGED genesis
         /\ WriteChannel(s) \/ UNCHANGED channelRows
<1>1. up
  BY DEF RegistryInv, OneSync, Task
<1>2. ASSUME NEW q \in Syncs, WriteChannel(q)
      PROVE  q = s
  BY <1>2 DEF RegistryInv, OneSync, WriteChannel
<1> QED BY <1>1, <1>2, RowsChange, GenesisChange

(* How a synchronisation gets to the awaits of insertNewChannel: it was    *)
(* there before, at the same channel, or has made the step before it.      *)
LEMMA SyncArrives ==
  ASSUME RegistryInv, [Next]_vars, NEW s \in Syncs
  PROVE  /\ pc'[s] = "existChannel" =>
              GetChannel(s) \/ (pc[s] = "existChannel" /\ chan'[s] = chan[s])
         /\ pc'[s] \in {"saveChannel", "insertChannel"} =>
              \/ ExistChannel(s)
              \/ pc[s] \in {"saveChannel", "insertChannel"} /\ chan'[s] = chan[s]
         /\ pc'[s] = "resetChannel" => SaveChannel(s) \/ pc[s] = "resetChannel"
<1> USE DEF process, locals
<1>0. /\ pc \in [Task -> Labels] /\ chan \in [Task -> Channels \cup {None}]
      /\ Syncs \subseteq Task /\ Updates \subseteq Task /\ s \in Task /\ s \notin Updates
  BY TaskAssumption DEF RegistryInv, RegistryTypeOK, TasksOK, Task
<1>1. CASE NoProcess
  BY <1>0, <1>1 DEF NoProcess
<1>2. CASE UNCHANGED <<pc, chan>>
  BY <1>2
<1>3. ASSUME NEW q \in Syncs, StartSync(q) \/ SynchNetworkConfigToDB(q),
             ~GetChannel(q), ~ExistChannel(q), ~SaveChannel(q), ~NoProcess
      PROVE  \/ UNCHANGED <<pc, chan>>
             \/ /\ q # s => pc'[s] = pc[s] /\ chan'[s] = chan[s]
                /\ q = s => pc'[s] \notin InNewChannel \ {"getChannel"}
  BY <1>0, <1>3
     DEF StartSync, SynchNetworkConfigToDB, QueryChannels, InitializeNewChannel,
         BeginLoop,
         NextChannel, EndSync, InsertNewChannel, ChannelExists, WriteChannel,
              CodeInserted,
         Goto, InNewChannel
<1>4. ASSUME NEW q \in Syncs, GetChannel(q) \/ ExistChannel(q) \/ SaveChannel(q)
      PROVE  /\ UNCHANGED chan
             /\ q # s => pc'[s] = pc[s]
             /\ q = s =>
                  \/ GetChannel(s) /\ pc'[s] \in {"discover", "existChannel"}
                  \/ ExistChannel(s) /\ pc'[s] = "saveChannel"
                  \/ /\ SaveChannel(s) /\ pc[s] = "saveChannel"
                     /\ pc'[s] \in {"insertChannel", "resetChannel"}
  <2>1. \A label : Goto(q, label) => pc'[q] = label /\ (q # s => pc'[s] = pc[s])
    BY <1>0 DEF Goto
  <2>2. CASE GetChannel(q)
    BY <2>1, <2>2 DEF GetChannel
  <2>3. CASE ExistChannel(q)
    BY <2>1, <2>3 DEF ExistChannel
  <2>4. CASE SaveChannel(q)
    BY <2>1, <2>4 DEF SaveChannel
  <2> QED BY <1>4, <2>2, <2>3, <2>4
<1>5. ASSUME NEW t \in Task, InsertFromDiscoveryResults(t) \/ Timeout(t)
      PROVE  \/ UNCHANGED <<pc, chan>>
             \/ /\ t # s => pc'[s] = pc[s] /\ chan'[s] = chan[s]
                /\ t = s => pc'[s] \notin InNewChannel
  BY <1>0, <1>5
     DEF InsertFromDiscoveryResults, Discover, DiscoverNull, CountRow, InsertRow,
         NodesInserted, CodeRefsInserted, QueryChaincodes, DiscoveryInserted, Timeout,
         Goto, InNewChannel
<1>6. ASSUME NEW u \in Updates, ScheduleUpdate(u)
      PROVE  pc'[s] = pc[s] /\ chan'[s] = chan[s]
  BY <1>0, <1>6 DEF ScheduleUpdate, Goto
<1>7. ASSUME \/ \E c \in Channels : Join(c) \/ Rebuild(c) \/ ConnectHub(c) \/ StoreBlock(c)
             \/ Boot \/ UNCHANGED vars
      PROVE  UNCHANGED <<pc, chan>>
  BY <1>7 DEF Join, Rebuild, ConnectHub, StoreBlock, Boot, vars
<1>8. ASSUME Crash \/ \E t \in Task : Fail(t)
      PROVE  NoProcess
  BY <1>8 DEF Crash, Fail
<1> QED
  BY <1>1, <1>2, <1>3, <1>4, <1>5, <1>6, <1>7, <1>8 DEF Next, InNewChannel

(* saveChannel finds no row to reset: existChannel found the name free,    *)
(* and no other synchronisation ran since.                                 *)
LEMMA CountersPreserved ==
  ASSUME RegistryInv, [Next]_vars
  PROVE  CountersNeverReset'
<1> SUFFICES ASSUME NEW s \in Syncs, pc'[s] = "resetChannel"
             PROVE  FALSE
  BY DEF CountersNeverReset
<1>1. SaveChannel(s)
  BY SyncArrives DEF RegistryInv, CountersNeverReset
<1>2. s \in Task /\ pc[s] = "saveChannel"
  BY <1>1 DEF SaveChannel, Task
<1>3. chan[s] \in Channels
  BY <1>2, HashOfTask DEF RegistryInv, AtChannel, InNewChannel
<1>4. channelRows[Hash(s)] = 0
  BY <1>2, <1>3, FreeName, RowTypes DEF RegistryInv, NamesKnown, Hash
<1> QED BY <1>1, <1>2, <1>4 DEF SaveChannel, Goto, RegistryInv, RegistryTypeOK, TasksOK

(* What a synchronisation knows of its channel's rows stays true.          *)
LEMMA KnownPreserved ==
  ASSUME RegistryInv, [Next]_vars
  PROVE  NamesKnown'
<1>1. (\A h \in Hashes : channelRows[h] > 0 => h[2] <= genesis[h[1]])'
  BY NamesPreserved
<1>2. ASSUME NEW s \in Syncs, pc'[s] = "existChannel"
      PROVE  channelRows'[Hash(s)'] = 0
  <2>1. GetChannel(s) \/ (pc[s] = "existChannel" /\ chan'[s] = chan[s])
    BY <1>2, SyncArrives
  <2>2. pc[s] \in {"getChannel", "existChannel"} /\ chan'[s] = chan[s]
    BY <2>1 DEF GetChannel, locals
  <2>3. UNCHANGED <<genesis, channelRows>>
    BY <2>2, SyncAlone DEF WriteChannel
  <2>4. s \in Task /\ Hash(s) \in Hashes /\ pc \in [Task -> Labels]
    BY <2>2, HashOfTask
       DEF Task, RegistryInv, RegistryTypeOK, TasksOK, AtChannel, InNewChannel
  <2>5. CASE GetChannel(s)
    <3>1. ~(channelRows[Hash(s)] > 0)
      BY <1>2, <2>4, <2>5 DEF GetChannel, Goto
    <3>2. channelRows[Hash(s)] = 0
      BY <2>4, <3>1, RowTypes
    <3> QED BY <2>2, <2>3, <3>2 DEF Hash
  <2>6. CASE pc[s] = "existChannel"
    BY <2>2, <2>3, <2>6 DEF RegistryInv, NamesKnown, Hash
  <2> QED BY <2>1, <2>5, <2>6
<1>3. ASSUME NEW s \in Syncs, pc'[s] \in {"saveChannel", "insertChannel"}
      PROVE  ~NameTaken(chan[s])'
  <2>1. \/ ExistChannel(s)
        \/ pc[s] \in {"saveChannel", "insertChannel"} /\ chan'[s] = chan[s]
    BY <1>3, SyncArrives
  <2>2. chan'[s] = chan[s] /\ pc[s] # "off" /\ ~NameTaken(chan[s])
    BY <2>1 DEF ExistChannel, locals, RegistryInv, NamesKnown
  <2>3. ~WriteChannel(s)
    <3>1. s \in Task /\ pc \in [Task -> Labels]
      BY DEF Task, RegistryInv, RegistryTypeOK, TasksOK
    <3> QED BY <1>3, <3>1 DEF WriteChannel, Goto
  <2>4. UNCHANGED channelRows
    BY <2>2, <2>3, SyncAlone
  <2> QED BY <2>2, <2>4 DEF NameTaken
<1> QED BY <1>1, <1>2, <1>3 DEF NamesKnown

(* The parent is told of a channel only when its name has a row with an    *)
(* older genesis hash, and that row stays.                                 *)
LEMMA AlarmsPreserved ==
  ASSUME RegistryInv, [Next]_vars
  PROVE  NoFalseAlarm'
<1> DEFINE Older(c) == \E g \in Generations : g < genesis[c] /\ channelRows[<<c, g>>] > 0
<1>1. ASSUME NEW c \in Channels, Older(c)
      PROVE  Older(c)'
  <2>1. PICK g \in Generations : g < genesis[c] /\ channelRows[<<c, g>>] > 0
    BY <1>1
  <2>2. channelRows'[<<c, g>>] > 0
    BY <2>1, RowTypes, NothingLost
  <2>3. /\ g \in Nat /\ genesis[c] \in Nat
        /\ genesis'[c] \in Nat /\ genesis[c] <= genesis'[c]
    BY RowTypes, NothingLost
  <2>4. g < genesis'[c]
    BY <2>1, <2>3
  <2> QED BY <2>2, <2>4
<1>2. ASSUME NEW s \in Syncs, ChannelExists(s)
      PROVE  chan[s] \in Channels /\ Older(chan[s])
  <2>1. s \in Task /\ pc[s] = "existChannel" /\ NameTaken(chan[s])
    BY <1>2 DEF ChannelExists, Task
  <2>2. chan[s] \in Channels
    BY <2>1, HashOfTask DEF RegistryInv, AtChannel, InNewChannel
  <2>3. PICK g \in Generations : channelRows[<<chan[s], g>>] > 0
    BY <2>1 DEF NameTaken
  <2>4. channelRows[<<chan[s], genesis[chan[s]]>>] = 0
    BY <2>1 DEF RegistryInv, NamesKnown, Hash
  <2>5. g <= genesis[chan[s]]
    <3> DEFINE h == <<chan[s], g>>
    <3>1. h \in Hashes /\ h[1] = chan[s] /\ h[2] = g /\ channelRows[h] > 0
      BY <2>2, <2>3, RowTypes
    <3> HIDE DEF h
    <3> QED BY <3>1 DEF RegistryInv, NamesKnown
  <2>6. g # genesis[chan[s]]
    BY <2>3, <2>4
  <2>7. g \in Nat /\ genesis[chan[s]] \in Nat
    BY <2>2, RowTypes
  <2>8. g < genesis[chan[s]]
    BY <2>5, <2>6, <2>7
  <2> QED BY <2>2, <2>3, <2>8
<1>3. \/ UNCHANGED existing
      \/ \E s \in Syncs : ChannelExists(s) /\ existing' = existing \cup {chan[s]}
  BY DEF Next, vars, Join, Rebuild, ConnectHub, StoreBlock, Boot, StartSync,
         SynchNetworkConfigToDB, QueryChannels, InitializeNewChannel, BeginLoop,
         NextChannel, EndSync, InsertNewChannel, GetChannel, ExistChannel, ChannelExists,
         SaveChannel, WriteChannel, CodeInserted, InsertFromDiscoveryResults, Discover,
         DiscoverNull, CountRow, InsertRow, NodesInserted, CodeRefsInserted,
         QueryChaincodes, ScheduleUpdate, Timeout, Fail, Crash
<1>4. \A c \in existing : c \in Channels /\ Older(c)
  BY RowTypes DEF RegistryInv, NoFalseAlarm
<1>5. \A c \in existing' : c \in Channels /\ Older(c)
  BY <1>2, <1>3, <1>4
<1>6. \A c \in existing' : Older(c)'
  BY <1>1, <1>5
<1> QED BY <1>6 DEF NoFalseAlarm

-----------------------------------------------------------------------------

(* What is left to do for a channel the client found: a synchronisation    *)
(* will come to it, it has its row, or the synchronisation is inserting it.*)
Settled(s, c) ==
  \/ c \in todo[s]
  \/ Registered(c)
  \/ c = chan[s] /\ pc[s] \in InNewChannel

(* A row stays while the process runs, with the hash the ledger has.       *)
LEMMA RegisteredStays ==
  ASSUME RegistryInv, [Next]_vars, up, NEW c \in Channels, Registered(c)
  PROVE  Registered(c)'
<1>1. UNCHANGED genesis
  BY GenesisChange
<1>2. <<c, genesis[c]>> \in Hashes
  BY RowTypes
<1> QED BY <1>1, <1>2, NothingLost DEF Registered

(* A synchronisation that is in its loop skips no channel and leaves no    *)
(* channel without its row.                                                *)
LEMMA SettledPreserved ==
  ASSUME RegistryInv, [Next]_vars, NEW s \in Syncs,
         pc'[s] \in {"nextChannel"} \cup AtChannel, NEW c \in atBoot', atBoot' = atBoot
  PROVE  Settled(s, c)'
<1> USE DEF process, locals
<1>0. /\ pc \in [Task -> Labels] /\ chan \in [Task -> Channels \cup {None}]
      /\ todo \in [Syncs -> SUBSET Channels]
      /\ Syncs \subseteq Task /\ Updates \subseteq Task /\ s \in Task /\ s \notin Updates
      /\ atBoot \subseteq Channels /\ c \in atBoot /\ c \in Channels
  BY TaskAssumption DEF RegistryInv, RegistryTypeOK, ProcessOK, TasksOK, Task
<1>1. ASSUME pc[s] # "off", Registered(c)
      PROVE  Settled(s, c)'
  BY <1>0, <1>1, RegisteredStays DEF Settled, RegistryInv, OneSync
<1>2. pc[s] \in {"nextChannel"} \cup AtChannel => Settled(s, c)
  BY <1>0 DEF RegistryInv, StartupOrder, Settled
<1>3. CASE NoProcess
  BY <1>0, <1>3 DEF NoProcess, AtChannel, InNewChannel
<1>4. ASSUME pc'[s] = pc[s], chan'[s] = chan[s], todo'[s] = todo[s]
      PROVE  Settled(s, c)'
  <2>1. Settled(s, c) /\ pc[s] # "off"
    BY <1>2, <1>4 DEF AtChannel, InNewChannel
  <2> QED BY <1>1, <1>4, <2>1 DEF Settled
<1>5. ASSUME pc[s] \in AtChannel \ InNewChannel, todo'[s] = todo[s]
      PROVE  Settled(s, c)'
  <2>1. c \in todo[s] \/ Registered(c)
    BY <1>2, <1>5 DEF Settled
  <2> QED BY <1>1, <1>5, <2>1 DEF Settled, AtChannel, InNewChannel
<1>6. ASSUME NEW q \in Syncs, StartSync(q) \/ SynchNetworkConfigToDB(q), q # s
      PROVE  Settled(s, c)' \/ NoProcess
  <2>1. \/ pc'[s] = pc[s] /\ chan'[s] = chan[s] /\ todo'[s] = todo[s]
        \/ NoProcess
    BY <1>0, <1>6
       DEF StartSync, SynchNetworkConfigToDB, QueryChannels, InitializeNewChannel,
           BeginLoop, NextChannel, EndSync, InsertNewChannel, GetChannel, ExistChannel,
           ChannelExists, SaveChannel, WriteChannel, CodeInserted, Goto
  <2> QED BY <1>4, <2>1
<1>7. CASE StartSync(s) \/ QueryChannels(s) \/ InitializeNewChannel(s) \/ EndSync(s)
  BY <1>0, <1>7
     DEF StartSync, QueryChannels, InitializeNewChannel, EndSync, Goto, AtChannel,
         InNewChannel
<1>8. CASE BeginLoop(s)
  <2>1. up
    BY <1>0, <1>8 DEF BeginLoop, RegistryInv, OneSync
  <2>2. c \in channels
    BY <1>0, <2>1 DEF RegistryInv, StartupOrder
  <2> QED BY <1>0, <1>8, <2>2 DEF BeginLoop, Settled
<1>9. CASE NextChannel(s)
  <2>1. c \in todo[s] \/ Registered(c)
    BY <1>2, <1>9 DEF NextChannel, Settled, InNewChannel
  <2>2. CASE c \in todo[s]
    BY <1>0, <1>9, <2>2 DEF NextChannel, Goto, Settled, InNewChannel
  <2> QED BY <1>1, <1>9, <2>1, <2>2 DEF NextChannel
<1>10. CASE GetChannel(s)
  <2>1. /\ Settled(s, c) /\ pc[s] # "off"
        /\ UNCHANGED <<chan, todo>>
        /\ pc'[s] = "existChannel" \/ channelRows[Hash(s)] > 0
    BY <1>0, <1>2, <1>10 DEF GetChannel, Goto, AtChannel, InNewChannel
  <2>2. c = chan[s] /\ channelRows[Hash(s)] > 0 => Registered(c)
    BY DEF Hash, Registered
  <2> QED BY <1>1, <2>1, <2>2 DEF Settled, InNewChannel
<1>11. CASE ExistChannel(s) \/ SaveChannel(s)
  <2>1. /\ Settled(s, c) /\ pc[s] # "off"
        /\ UNCHANGED <<chan, todo>>
        /\ pc'[s] \in InNewChannel
    BY <1>0, <1>2, <1>11 DEF ExistChannel, SaveChannel, Goto, AtChannel, InNewChannel
  <2> QED BY <1>1, <2>1 DEF Settled
<1>12. CASE WriteChannel(s)
  <2>1. Settled(s, c) /\ pc[s] = "insertChannel" /\ UNCHANGED <<chan, todo, genesis>>
    BY <1>2, <1>12
       DEF WriteChannel, network, AtChannel, InNewChannel, RegistryInv, CountersNeverReset
  <2>2. ASSUME c = chan[s]
        PROVE  Registered(c)'
    <3>1. Hash(s) \in Hashes /\ channelRows \in [Hashes -> Nat]
      BY <1>0, <2>1, HashOfTask, RowTypes DEF RegistryInv, AtChannel, InNewChannel
    <3>2. channelRows'[Hash(s)] = channelRows[Hash(s)] + 1 /\ channelRows[Hash(s)] \in Nat
      BY <1>12, <2>1, <3>1 DEF WriteChannel
    <3>3. channelRows'[Hash(s)] > 0
      BY <3>2
    <3> QED BY <2>1, <2>2, <3>3 DEF Registered, Hash
  <2> QED BY <1>1, <2>1, <2>2 DEF Settled
<1>13. CASE ChannelExists(s)
  BY <1>3, <1>13 DEF ChannelExists
<1>14. CASE CodeInserted(s)
  BY <1>5, <1>14 DEF CodeInserted, AtChannel, InNewChannel
<1>15. ASSUME NEW t \in Task, InsertFromDiscoveryResults(t) \/ Timeout(t)
       PROVE  Settled(s, c)'
  <2>1. CASE t # s
    <3>1. pc'[s] = pc[s] /\ chan'[s] = chan[s] /\ todo'[s] = todo[s]
      BY <1>0, <1>15, <2>1
         DEF InsertFromDiscoveryResults, Discover, DiscoverNull, CountRow, InsertRow,
             NodesInserted, CodeRefsInserted, QueryChaincodes, DiscoveryInserted, Timeout,
             Goto
    <3> QED BY <1>4, <3>1
  <2>2. CASE t = s /\ ~Timeout(t)
    <3>1. pc[s] \in {"discover", "rows", "insert", "chaincodes"} /\ UNCHANGED todo
      BY <1>15, <2>2
         DEF InsertFromDiscoveryResults, Discover, DiscoverNull, CountRow, InsertRow,
             NodesInserted, CodeRefsInserted, QueryChaincodes
    <3> QED BY <1>5, <3>1 DEF AtChannel, InNewChannel
  <2>3. CASE t = s /\ Timeout(t)
    BY <1>0, <2>3 DEF Timeout, Goto, AtChannel, InNewChannel
  <2> QED BY <2>1, <2>2, <2>3
<1>16. ASSUME NEW u \in Updates, ScheduleUpdate(u)
       PROVE  Settled(s, c)'
  <2>1. pc'[s] = pc[s] /\ chan'[s] = chan[s] /\ UNCHANGED todo
    BY <1>0, <1>16 DEF ScheduleUpdate, Goto
  <2> QED BY <1>4, <2>1
<1>17. CASE \/ \E d \in Channels : Join(d) \/ Rebuild(d) \/ ConnectHub(d) \/ StoreBlock(d)
            \/ Boot \/ UNCHANGED vars
  <2>1. UNCHANGED <<pc, chan, todo>>
    BY <1>17 DEF Join, Rebuild, ConnectHub, StoreBlock, Boot, vars
  <2> QED BY <1>4, <2>1
<1>18. ASSUME Crash \/ \E t \in Task : Fail(t)
       PROVE  NoProcess
  BY <1>18 DEF Crash, Fail
<1>19. ASSUME SynchNetworkConfigToDB(s)
       PROVE  Settled(s, c)'
  BY <1>7, <1>8, <1>9, <1>10, <1>11, <1>12, <1>13, <1>14, <1>19
     DEF SynchNetworkConfigToDB, InsertNewChannel
<1> QED BY <1>3, <1>6, <1>7, <1>15, <1>16, <1>17, <1>18, <1>19 DEF Next

(* The listeners wait for the first synchronisation, and that has seen to  *)
(* every channel the client found.                                         *)
LEMMA StartupPreserved ==
  ASSUME RegistryInv, [Next]_vars
  PROVE  StartupOrder'
<1> USE DEF process, locals
<1>0. /\ StartupOrder /\ OneSync
      /\ pc \in [Task -> Labels] /\ Syncs \subseteq Task
      /\ todo \in [Syncs -> SUBSET Channels]
      /\ atBoot \subseteq Channels
  BY DEF RegistryInv, RegistryTypeOK, ProcessOK, TasksOK, Task
<1>1. CASE NoProcess
  BY <1>0, <1>1 DEF NoProcess, StartupOrder, AtChannel, InNewChannel
<1>2. CASE Boot
  BY <1>0, <1>2 DEF Boot, StartupOrder, OneSync, AtChannel, InNewChannel
<1>3. ASSUME ~NoProcess, ~Boot
      PROVE  /\ atBoot' = atBoot /\ up' = up /\ channels \subseteq channels'
             /\ initialized' # initialized =>
                  initialized' /\ \E s \in Syncs : EndSync(s)
             /\ hub' # hub => initialized /\ initialized'
  <2>1. atBoot' = atBoot /\ up' = up /\ channels \subseteq channels'
    BY <1>3
       DEF Next, vars, Join, Rebuild, ConnectHub, StoreBlock, StartSync,
           SynchNetworkConfigToDB, QueryChannels, InitializeNewChannel, BeginLoop,
           NextChannel, EndSync, InsertNewChannel, GetChannel, ExistChannel,
                ChannelExists,
           SaveChannel, WriteChannel, CodeInserted, InsertFromDiscoveryResults, Discover,
           DiscoverNull, CountRow, InsertRow, NodesInserted, CodeRefsInserted,
           QueryChaincodes, ScheduleUpdate, Timeout, Fail, Crash
  <2>2. initialized' # initialized => initialized' /\ \E s \in Syncs : EndSync(s)
    <3>1. UNCHANGED initialized \/ \E s \in Syncs : EndSync(s)
      BY <1>3
         DEF Next, vars, Join, Rebuild, ConnectHub, StoreBlock, StartSync,
             SynchNetworkConfigToDB, QueryChannels, InitializeNewChannel, BeginLoop,
             NextChannel, InsertNewChannel, GetChannel, ExistChannel, ChannelExists,
             SaveChannel, WriteChannel, CodeInserted, InsertFromDiscoveryResults,
                  Discover,
             DiscoverNull, CountRow, InsertRow, NodesInserted, CodeRefsInserted,
             QueryChaincodes, ScheduleUpdate, Timeout, Fail, Crash
    <3> QED BY <3>1 DEF EndSync
  <2>3. hub' # hub => initialized /\ initialized'
    <3>1. UNCHANGED hub \/ \E c \in Channels : ConnectHub(c)
      BY <1>3
         DEF Next, vars, Join, Rebuild, StoreBlock, StartSync,
             SynchNetworkConfigToDB, QueryChannels, InitializeNewChannel, BeginLoop,
             NextChannel, EndSync, InsertNewChannel, GetChannel, ExistChannel,
                  ChannelExists,
             SaveChannel, WriteChannel, CodeInserted, InsertFromDiscoveryResults,
                  Discover,
             DiscoverNull, CountRow, InsertRow, NodesInserted, CodeRefsInserted,
             QueryChaincodes, ScheduleUpdate, Timeout, Fail, Crash
    <3> QED BY <3>1 DEF ConnectHub
  <2> QED BY <2>1, <2>2, <2>3
<1>4. ASSUME ~NoProcess, ~Boot
      PROVE  StartupOrder'
  <2>1. (hub # {} => initialized)'
    BY <1>0, <1>3, <1>4 DEF StartupOrder
  <2>2. (up => atBoot \subseteq channels)'
    BY <1>0, <1>3, <1>4 DEF StartupOrder
  <2>3. ASSUME initialized', NEW c \in atBoot'
        PROVE  Registered(c)'
    <3>1. c \in atBoot /\ c \in Channels
      BY <1>0, <1>3, <1>4, <2>3
    <3>2. CASE initialized
      <4>1. Registered(c) /\ up
        BY <1>0, <3>1, <3>2 DEF StartupOrder, OneSync
      <4> QED BY <3>1, <4>1, RegisteredStays
    <3>3. CASE ~initialized
      <4>1. PICK s \in Syncs : EndSync(s)
        BY <1>3, <1>4, <2>3, <3>3
      <4>2. pc[s] = "nextChannel" /\ todo[s] = {}
        BY <4>1 DEF EndSync
      <4>3. Registered(c)
        BY <1>0, <3>1, <4>2 DEF StartupOrder, InNewChannel
      <4>4. up
        BY <1>0, <4>2 DEF OneSync
      <4> QED BY <3>1, <4>3, <4>4, RegisteredStays
    <3> QED BY <3>2, <3>3
  <2>4. ASSUME NEW s \in Syncs, pc'[s] \in {"nextChannel"} \cup AtChannel, NEW c \in atBoot'
        PROVE  Settled(s, c)'
    BY <1>3, <1>4, <2>4, SettledPreserved
  <2> QED BY <2>1, <2>2, <2>3, <2>4 DEF StartupOrder, Settled
<1> QED BY <1>1, <1>2, <1>4

-----------------------------------------------------------------------------

(* The invariant holds at the start.                                       *)
LEMMA RegistryInit ==
  ASSUME Init
  PROVE  RegistryInv
<1>1. RegistryTypeOK
  <2>1. 0 \in Generations /\ 0 \in 0 .. MaxFaults
    BY LimitAssumption DEF Generations
  <2>2. NetworkOK /\ TablesOK /\ ProcessOK /\ FaultsOK
    BY <2>1 DEF Init, NetworkOK, TablesOK, ProcessOK, FaultsOK
  <2>3. <<>> \in Seq(Keys) /\ "off" \in Labels /\ "nodes" \in Stages
    BY DEF Labels, Stages
  <2>4. TasksOK
    BY <2>3 DEF Init, TasksOK
  <2> QED BY <2>2, <2>4 DEF RegistryTypeOK
<1>2. Syncs \subseteq Task /\ Updates \subseteq Task
  BY DEF Task
<1>3. OneSync /\ TasksPlaced /\ CountersNeverReset /\ StartupOrder
  BY <1>2 DEF Init, OneSync, TasksPlaced, CountersNeverReset, StartupOrder, SyncLabels,
              AtChannel, InNewChannel
<1>4. OneRowPerName
  BY DEF Init, OneRowPerName, Hashes
<1>5. NoFalseAlarm
  BY DEF Init, NoFalseAlarm
<1>6. NamesKnown
  BY <1>2 DEF Init, NamesKnown
<1> QED BY <1>1, <1>3, <1>4, <1>5, <1>6 DEF RegistryInv

(* The inductive invariant of the registration of channels.                *)
THEOREM RegistryCorrect == Spec => []RegistryInv
<1>1. ASSUME RegistryInv, [Next]_vars
      PROVE  RegistryInv'
  <2>1. RegistryTypeOK'
    BY <1>1, RegistryTypePreserved DEF RegistryInv
  <2>2. OneSync' /\ TasksPlaced'
    BY <1>1, OneSyncPreserved, PlacesPreserved
  <2>3. OneRowPerName' /\ NoFalseAlarm' /\ CountersNeverReset'
    BY <1>1, NamesPreserved, AlarmsPreserved, CountersPreserved
  <2>4. NamesKnown' /\ StartupOrder'
    BY <1>1, KnownPreserved, StartupPreserved
  <2> QED BY <2>1, <2>2, <2>3, <2>4 DEF RegistryInv
<1> QED BY <1>1, RegistryInit, PTL DEF Spec

(* The registry's variables keep their types.                              *)
THEOREM RegistryTypeOKAlways == Spec => []RegistryTypeOK
<1>1. RegistryInv => RegistryTypeOK
  BY DEF RegistryInv
<1> QED BY <1>1, RegistryCorrect, PTL

(* No name ever has two rows in table channel (insertNewChannel), however  *)
(* many synchronisations, updates, rebuilds, crashes and failures there    *)
(* are.                                                                    *)
THEOREM OneRowPerNameAlways == Spec => []OneRowPerName
<1>1. RegistryInv => OneRowPerName
  BY DEF RegistryInv
<1> QED BY <1>1, RegistryCorrect, PTL

(* The explorer is closed over an existing channel (existChannel) only if  *)
(* the ledger was made anew under a name that has a row.                   *)
THEOREM NoFalseAlarmAlways == Spec => []NoFalseAlarm
<1>1. RegistryInv => NoFalseAlarm
  BY DEF RegistryInv
<1> QED BY <1>1, RegistryCorrect, PTL

(* saveChannel never resets the counters of a channel.                     *)
THEOREM CountersNeverResetAlways == Spec => []CountersNeverReset
<1>1. RegistryInv => CountersNeverReset
  BY DEF RegistryInv
<1> QED BY <1>1, RegistryCorrect, PTL

(* A block of a channel that was there at the start is never stored before *)
(* the channel has its row: the order of SyncPlatform.initialize.          *)
THEOREM RowBeforeBlocksAlways == Spec => RowBeforeBlocks
<1>1. ASSUME RegistryInv, [Next]_vars
      PROVE  [\A c \in atBoot, g \in Generations :
                blockRows'[<<c, g>>] > blockRows[<<c, g>>] => channelRows[<<c, g>>] > 0]_vars
  <2>1. SUFFICES ASSUME NEW c \in atBoot, NEW g \in Generations,
                        blockRows'[<<c, g>>] > blockRows[<<c, g>>]
                 PROVE  channelRows[<<c, g>>] > 0
    OBVIOUS
  <2>2. /\ c \in Channels /\ <<c, g>> \in Hashes
        /\ blockRows \in [Hashes -> Nat] /\ genesis \in [Channels -> Generations]
    BY <1>1 DEF RegistryInv, RegistryTypeOK, ProcessOK, TablesOK, NetworkOK, Hashes
  <2>3. ~(blockRows[<<c, g>>] > blockRows[<<c, g>>])
    BY <2>2
  <2>4. blockRows' # blockRows
    BY <2>1, <2>3
  <2>5. PICK d \in Channels : StoreBlock(d)
    BY <1>1, <2>4
       DEF Next, vars, database, tables, Join, Rebuild, ConnectHub, Boot, StartSync,
           SynchNetworkConfigToDB, QueryChannels, InitializeNewChannel, BeginLoop,
           NextChannel, EndSync, InsertNewChannel, GetChannel, ExistChannel,
           ChannelExists, SaveChannel, WriteChannel, CodeInserted,
           InsertFromDiscoveryResults, Discover, DiscoverNull, CountRow, InsertRow,
           NodesInserted, CodeRefsInserted, QueryChaincodes, ScheduleUpdate, Timeout,
           Fail, Crash
  <2>6. <<c, g>> = <<d, genesis[d]>>
    BY <2>1, <2>2, <2>3, <2>5 DEF StoreBlock
  <2>7. Registered(c)
    BY <1>1, <2>5 DEF StoreBlock, RegistryInv, StartupOrder
  <2> QED BY <2>6, <2>7 DEF Registered
<1> QED BY <1>1, RegistryCorrect, PTL DEF Spec, RowBeforeBlocks

(* Seen from outside, the table of channels is the registry of             *)
(* Registry.tla: every step of the tasks is an insert or invisible.        *)
THEOREM ImplementsRegistry == Spec => RegistrySpec
<1>1. Init => R!Init
  BY DEF Init, R!Init, Hashes, Generations, R!Generations
<1>2. ASSUME RegistryInv, [Next]_vars
      PROVE  [R!Next]_(R!vars)
  <2>1. ASSUME NEW s \in Syncs, Inserted(s)
        PROVE  R!Next
    <3>1. chan[s] \in Channels /\ \A g \in Generations : channelRows[<<chan[s], g>>] = 0
      BY <1>2, <2>1, InsertedRows
    <3>2. R!Register(chan[s])
      BY <2>1, <3>1 DEF Inserted, Hash, network, R!Register, R!Generations, Generations
    <3> QED BY <3>1, <3>2 DEF R!Next
  <2>2. ASSUME NEW c \in Channels, Join(c) \/ Rebuild(c)
        PROVE  R!Next
    BY <2>2 DEF Join, Rebuild, database, R!Next, R!Join, R!Rebuild
  <2>3. \/ \E c \in Channels : Join(c) \/ Rebuild(c)
        \/ UNCHANGED network
    BY <1>2
       DEF Next, vars, ConnectHub, StoreBlock, Boot, StartSync,
           SynchNetworkConfigToDB, QueryChannels, InitializeNewChannel, BeginLoop,
           NextChannel, EndSync, InsertNewChannel, GetChannel, ExistChannel,
           ChannelExists, SaveChannel, WriteChannel, CodeInserted,
           InsertFromDiscoveryResults, Discover, DiscoverNull, CountRow, InsertRow,
           NodesInserted, CodeRefsInserted, QueryChaincodes, ScheduleUpdate, Timeout,
           Fail, Crash
  <2>4. UNCHANGED <<network, channelRows>> => UNCHANGED R!vars
    BY DEF network, R!vars
  <2> QED BY <1>2, <2>1, <2>2, <2>3, <2>4, RowsChange
<1> QED BY <1>1, <1>2, RegistryCorrect, PTL DEF Spec, RegistrySpec, R!Spec

-----------------------------------------------------------------------------
(* The rows of the other tables.                                           *)

(* A task that saves rows is in the list of its stage, and what is before  *)
(* its place in the list has rows.                                         *)
List(t) ==
  IF stage[t] = "nodes" THEN NodeRows
  ELSE IF stage[t] = "codeRefs" THEN CodeRefRows ELSE CodeRows

InList(t, s, n) ==
  /\ s = List(t)
  /\ Len(work[t]) = Len(s) - n
  /\ \A i \in 1 .. Len(work[t]) : work[t][i] = s[n + i]
  /\ \A i \in 1 .. n : rows[Hash(t)][s[i]] > 0

SavedInOrder ==
  \A t \in Task : pc[t] \in {"rows", "insert"} =>
    \E s \in Lists : \E n \in 0 .. Len(s) : InList(t, s, n)

(* A task whose label, list and channel a step leaves as they are.         *)
Unmoved(t) ==
  /\ pc'[t] = pc[t] /\ work'[t] = work[t] /\ stage'[t] = stage[t]
  /\ Hash(t)' = Hash(t)

(* Most steps write no row and move no task among its rows.                *)
Quiet == rows' = rows /\ \A t \in Task : pc'[t] \in {"rows", "insert"} => Unmoved(t)

(* The steps that begin a list, look at a row of it, and insert one.       *)
RowStep(t) == Discover(t) \/ QueryChaincodes(t) \/ CountRow(t) \/ InsertRow(t)

(* Without a process no task is among its rows.                            *)
LEMMA QuietEnd ==
  ASSUME NoProcess, rows' = rows
  PROVE  Quiet
BY DEF NoProcess, Quiet

(* A task that leaves its rows leaves the others where they are.           *)
LEMMA QuietMove ==
  ASSUME RegistryInv, NEW t \in Task, pc'[t] \notin {"rows", "insert"},
         rows' = rows, genesis' = genesis,
         \A q \in Task \ {t} : /\ pc'[q] = pc[q] /\ work'[q] = work[q]
                                /\ chan'[q] = chan[q] /\ stage'[q] = stage[q]
  PROVE  Quiet
BY DEF Quiet, Unmoved, Hash

(* Only row steps are not quiet.                                           *)
LEMMA QuietSteps ==
  ASSUME RegistryInv, [Next]_vars, \A t \in Task : ~RowStep(t)
  PROVE  Quiet
<1> USE DEF network, tables, database, process, locals, faults
<1>0. /\ pc \in [Task -> Labels] /\ work \in [Task -> Seq(Keys)]
      /\ chan \in [Task -> Channels \cup {None}] /\ stage \in [Task -> Stages]
      /\ Syncs \subseteq Task /\ Updates \subseteq Task
  BY DEF RegistryInv, RegistryTypeOK, TasksOK, Task
<1>1. CASE UNCHANGED <<rows, pc, work, stage, chan, genesis>>
  BY <1>1 DEF Quiet, Unmoved, Hash
<1>2. ASSUME NEW c \in Channels, Join(c) \/ Rebuild(c) \/ ConnectHub(c) \/ StoreBlock(c)
      PROVE  Quiet
  <2>1. CASE Rebuild(c)
    BY <2>1 DEF Rebuild, RegistryInv, OneSync, Quiet
  <2> QED BY <1>1, <1>2, <2>1 DEF Join, ConnectHub, StoreBlock
<1>3. CASE Boot
  BY <1>1, <1>3 DEF Boot
<1>4. ASSUME NEW s \in Syncs, StartSync(s) PROVE Quiet
  BY <1>0, <1>4, QuietMove DEF StartSync, Goto
<1>5. ASSUME NEW s \in Syncs, SynchNetworkConfigToDB(s) PROVE Quiet
  <2>1. CASE QueryChannels(s) \/ InitializeNewChannel(s) \/ BeginLoop(s)
             \/ NextChannel(s) \/ EndSync(s) \/ CodeInserted(s)
    BY <1>0, <1>1, <2>1, QuietMove
       DEF QueryChannels, InitializeNewChannel, BeginLoop, NextChannel, EndSync,
           CodeInserted, Goto
  <2>2. CASE GetChannel(s) \/ ExistChannel(s) \/ SaveChannel(s) \/ WriteChannel(s)
    BY <1>0, <2>2, QuietMove DEF GetChannel, ExistChannel, SaveChannel, WriteChannel, Goto
  <2>3. CASE ChannelExists(s)
    BY <2>3, QuietEnd DEF ChannelExists
  <2> QED BY <1>5, <2>1, <2>2, <2>3 DEF SynchNetworkConfigToDB, InsertNewChannel
<1>6. ASSUME NEW u \in Updates, ScheduleUpdate(u) PROVE Quiet
  BY <1>0, <1>6, QuietMove DEF ScheduleUpdate, Goto
<1>7. ASSUME NEW t \in Task, InsertFromDiscoveryResults(t) PROVE Quiet
  <2>1. DiscoverNull(t) \/ NodesInserted(t) \/ CodeRefsInserted(t)
    BY <1>7 DEF InsertFromDiscoveryResults, RowStep
  <2> QED BY <1>0, <2>1, QuietMove
          DEF DiscoverNull, NodesInserted, CodeRefsInserted, DiscoveryInserted, Goto
<1>8. ASSUME NEW t \in Task, Timeout(t) PROVE Quiet
  BY <1>0, <1>8, QuietMove DEF Timeout, Goto
<1>9. ASSUME NEW t \in Task, Fail(t) PROVE Quiet
  BY <1>9, QuietEnd DEF Fail
<1>10. CASE Crash
  BY <1>10, QuietEnd DEF Crash
<1>11. CASE UNCHANGED vars
  BY <1>1, <1>11 DEF vars
<1> QED BY <1>2, <1>3, <1>4, <1>5, <1>6, <1>7, <1>8, <1>9, <1>10, <1>11 DEF Next

(* What a row step does: it moves its task only, and a row is inserted     *)
(* only for the head of the task's list.                                   *)
LEMMA RowStepMoves ==
  ASSUME RegistryInv, NEW t \in Task, RowStep(t)
  PROVE  /\ \A q \in Task \ {t} : Unmoved(q)
         /\ Hash(t)' = Hash(t) /\ Hash(t) \in Hashes
         /\ \/ /\ rows' = rows /\ pc'[t] = "rows" /\ work'[t] = List(t)'
            \/ /\ rows' = rows /\ work[t] # <<>> /\ pc[t] = "rows"
               /\ stage' = stage
               /\ IF rows[Hash(t)][Head(work[t])] = 0
                    THEN pc'[t] = "insert" /\ work'[t] = work[t]
                    ELSE pc'[t] = "rows" /\ work'[t] = Tail(work[t])
            \/ /\ pc[t] = "insert" /\ pc'[t] = "rows" /\ work[t] # <<>>
               /\ stage' = stage
               /\ rows' = [rows EXCEPT ![Hash(t)][Head(work[t])] = @ + 1]
               /\ work'[t] = Tail(work[t])
<1> USE DEF network, tables, database, process, locals, faults
<1>0. /\ pc \in [Task -> Labels] /\ work \in [Task -> Seq(Keys)]
      /\ stage \in [Task -> Stages]
  BY DEF RegistryInv, RegistryTypeOK, TasksOK
<1>1. Hash(t) \in Hashes
  <2>1. pc[t] \in AtChannel
    BY DEF RowStep, Discover, QueryChaincodes, CountRow, InsertRow, AtChannel
  <2> QED BY <2>1, HashOfTask DEF RegistryInv
<1>2. chan' = chan /\ genesis' = genesis
  BY DEF RowStep, Discover, QueryChaincodes, CountRow, InsertRow
<1>3. CASE Discover(t)
  BY <1>0, <1>1, <1>2, <1>3 DEF Discover, Goto, Unmoved, Hash, List
<1>6. CASE QueryChaincodes(t)
  <2>1. stage[t] # "nodes"
    BY <1>6 DEF QueryChaincodes, RegistryInv, TasksPlaced
  <2> QED BY <1>0, <1>1, <1>2, <1>6, <2>1
          DEF QueryChaincodes, Goto, Unmoved, Hash, List, Stages
<1>4. CASE CountRow(t)
  BY <1>0, <1>1, <1>2, <1>4 DEF CountRow, Goto, Unmoved, Hash
<1>5. CASE InsertRow(t)
  BY <1>0, <1>1, <1>2, <1>5 DEF InsertRow, Goto, Unmoved, Hash, RegistryInv, TasksPlaced
<1> QED BY <1>3, <1>4, <1>5, <1>6 DEF RowStep

(* No row is ever removed.                                                 *)
LEMMA RowsStay ==
  ASSUME RegistryInv, [Next]_vars, NEW h \in Hashes, NEW k \in Keys
  PROVE  rows'[h][k] >= rows[h][k]
<1>0. rows \in [Hashes -> [Keys -> Nat]]
  BY DEF RegistryInv, RegistryTypeOK, TablesOK
<1>1. CASE rows' = rows
  BY <1>0, <1>1
<1>2. ASSUME NEW t \in Task, rows' = [rows EXCEPT ![Hash(t)][Head(work[t])] = @ + 1],
             Hash(t) \in Hashes
      PROVE  rows'[h][k] >= rows[h][k]
  BY <1>0, <1>2
<1>3. CASE \A t \in Task : ~RowStep(t)
  BY <1>1, <1>3, QuietSteps DEF Quiet
<1> QED BY <1>1, <1>2, <1>3, RowStepMoves

(* A task that is not moved keeps its place in its list.                   *)
LEMMA PlaceStays ==
  ASSUME RegistryInv, SavedInOrder, [Next]_vars, NEW t \in Task,
         pc[t] \in {"rows", "insert"}, Unmoved(t)
  PROVE  \E s \in Lists : \E n \in 0 .. Len(s) : InList(t, s, n)'
<1>0. PICK s \in Lists : \E n \in 0 .. Len(s) : InList(t, s, n)
  BY DEF SavedInOrder
<1>1. PICK n \in 0 .. Len(s) : InList(t, s, n)
  BY <1>0
<1>2. Hash(t) \in Hashes
  BY HashOfTask DEF RegistryInv, AtChannel
<1>3. rows \in [Hashes -> [Keys -> Nat]]
  BY DEF RegistryInv, RegistryTypeOK, TablesOK
<1>4. \A i \in 1 .. n : rows'[Hash(t)][s[i]] > 0
  <2> TAKE i \in 1 .. n
  <2>1. s[i] \in Keys
    BY <1>1, ListsType
  <2>2. rows[Hash(t)][s[i]] > 0 /\ rows[Hash(t)][s[i]] \in Nat
    BY <1>1, <1>2, <1>3, <2>1 DEF InList
  <2>3. rows'[Hash(t)][s[i]] >= rows[Hash(t)][s[i]]
    BY <1>2, <2>1, RowsStay
  <2>4. rows'[Hash(t)][s[i]] \in Nat
    BY <1>2, <2>1, RegistryTypePreserved DEF RegistryInv, RegistryTypeOK, TablesOK
  <2> QED BY <2>2, <2>3, <2>4
<1>5. InList(t, s, n)'
  BY <1>1, <1>4 DEF InList, List, Unmoved
<1> QED BY <1>5

(* The list of a task that steps to the next row: the row it leaves is in  *)
(* the tables.                                                             *)
LEMMA NextPlace ==
  ASSUME RegistryInv, SavedInOrder, [Next]_vars, NEW t \in Task,
         pc[t] \in {"rows", "insert"}, work[t] # <<>>, work'[t] = Tail(work[t]),
         stage'[t] = stage[t], Hash(t)' = Hash(t), rows'[Hash(t)][Head(work[t])] > 0
  PROVE  \E s \in Lists : \E n \in 0 .. Len(s) : InList(t, s, n)'
<1>0. PICK s \in Lists : \E n \in 0 .. Len(s) : InList(t, s, n)
  BY DEF SavedInOrder
<1>1. PICK n \in 0 .. Len(s) : InList(t, s, n)
  BY <1>0
<1>2. Hash(t) \in Hashes
  BY HashOfTask DEF RegistryInv, AtChannel
<1>3. rows \in [Hashes -> [Keys -> Nat]] /\ work[t] \in Seq(Keys)
  BY DEF RegistryInv, RegistryTypeOK, TablesOK, TasksOK
<1>4. s \in Seq(Keys) /\ Len(s) \in Nat
  BY ListsType
<1>5. Len(work[t]) \in Nat \ {0} /\ Head(work[t]) = work[t][1]
  BY <1>3
<1>6. n + 1 \in 0 .. Len(s) /\ Head(work[t]) = s[n + 1]
  BY <1>1, <1>4, <1>5 DEF InList
<1>7. /\ Len(Tail(work[t])) = Len(work[t]) - 1
      /\ \A i \in 1 .. Len(work[t]) - 1 : Tail(work[t])[i] = work[t][i + 1]
  BY <1>3, <1>5
<1>8. Len(work'[t]) = Len(s) - (n + 1)
  BY <1>1, <1>4, <1>7 DEF InList
<1>9. \A i \in 1 .. Len(work'[t]) : work'[t][i] = s[(n + 1) + i]
  <2> TAKE i \in 1 .. Len(work'[t])
  <2>1. i \in 1 .. Len(work[t]) - 1 /\ i + 1 \in 1 .. Len(work[t])
    BY <1>5, <1>7
  <2>2. work'[t][i] = work[t][i + 1]
    BY <1>7, <2>1
  <2>3. work[t][i + 1] = s[n + (i + 1)]
    BY <1>1, <2>1 DEF InList
  <2>4. n + (i + 1) = (n + 1) + i
    BY <1>5
  <2> QED BY <2>2, <2>3, <2>4
<1>10. \A i \in 1 .. n + 1 : rows'[Hash(t)][s[i]] > 0
  <2> TAKE i \in 1 .. n + 1
  <2>1. CASE i = n + 1
    BY <1>6, <2>1
  <2>2. CASE i \in 1 .. n
    <3>1. s[i] \in Keys
      BY <1>1, <1>4, <2>2
    <3>2. rows[Hash(t)][s[i]] > 0 /\ rows[Hash(t)][s[i]] \in Nat
      BY <1>1, <1>2, <1>3, <2>2, <3>1 DEF InList
    <3>3. rows'[Hash(t)][s[i]] >= rows[Hash(t)][s[i]]
      BY <1>2, <3>1, RowsStay
    <3>4. rows'[Hash(t)][s[i]] \in Nat
      BY <1>2, <3>1, RegistryTypePreserved DEF RegistryInv, RegistryTypeOK, TablesOK
    <3> QED BY <3>2, <3>3, <3>4
  <2> QED BY <1>1, <1>4, <2>1, <2>2
<1>11. InList(t, s, n + 1)'
  BY <1>1, <1>8, <1>9, <1>10 DEF InList, List
<1> QED BY <1>6, <1>11

(* Every task goes through its list in order.                              *)
LEMMA OrderPreserved ==
  ASSUME RegistryInv, SavedInOrder, [Next]_vars
  PROVE  SavedInOrder'
<1>1. CASE \A t \in Task : ~RowStep(t)
  BY <1>1, QuietSteps, PlaceStays DEF SavedInOrder, Quiet, Unmoved
<1>2. ASSUME NEW t \in Task, RowStep(t) PROVE SavedInOrder'
  <2> SUFFICES ASSUME NEW q \in Task, pc'[q] \in {"rows", "insert"}
               PROVE  \E s \in Lists : \E n \in 0 .. Len(s) : InList(q, s, n)'
    BY DEF SavedInOrder, InList, List, Hash
  <2>0. List(t)' \in Lists
    BY DEF List, Lists
  <2>1. CASE q # t
    BY <1>2, <2>1, RowStepMoves, PlaceStays DEF Unmoved
  <2>2. CASE q = t /\ work'[t] = List(t)'
    <3>1. PICK s \in Lists : s = work'[t] /\ s = List(t)'
      BY <2>0, <2>2
    <3>2. Len(s) \in Nat
      BY ListsType
    <3>3. InList(t, s, 0)'
      BY <3>1, <3>2 DEF InList
    <3> QED BY <2>2, <3>2, <3>3
  <2>3. CASE q = t /\ work'[t] = work[t] /\ pc[t] = "rows" /\ rows' = rows /\ stage' = stage
    <3>1. Hash(t)' = Hash(t)
      BY <1>2, RowStepMoves
    <3>2. PICK s \in Lists : \E n \in 0 .. Len(s) : InList(t, s, n)
      BY <2>3 DEF SavedInOrder
    <3>3. PICK n \in 0 .. Len(s) : InList(t, s, n)
      BY <3>2
    <3>4. InList(t, s, n)'
      BY <2>3, <3>1, <3>3 DEF InList, List
    <3> QED BY <2>3, <3>4
  <2>4. CASE q = t /\ work[t] # <<>> /\ work'[t] = Tail(work[t]) /\ stage' = stage
             /\ pc[t] \in {"rows", "insert"} /\ rows'[Hash(t)][Head(work[t])] > 0
    BY <1>2, <2>4, RowStepMoves, NextPlace
  <2>5. work[t] # <<>> => Head(work[t]) \in Keys
    BY RowOfTask DEF RegistryInv
  <2>6. /\ Hash(t) \in Hashes
        /\ rows \in [Hashes -> [Keys -> Nat]]
    BY <1>2, RowStepMoves DEF RegistryInv, RegistryTypeOK, TablesOK
  <2>7. CASE pc[t] = "insert"
    <3>1. /\ pc'[t] = "rows" /\ work[t] # <<>> /\ work'[t] = Tail(work[t])
          /\ stage' = stage
          /\ rows' = [rows EXCEPT ![Hash(t)][Head(work[t])] = @ + 1]
      BY <1>2, <2>7 DEF RowStep, Discover, QueryChaincodes, CountRow, InsertRow, Goto,
                        RegistryInv, RegistryTypeOK, TasksOK, TasksPlaced
    <3>2. rows'[Hash(t)][Head(work[t])] > 0
      BY <2>5, <2>6, <3>1
    <3> QED BY <2>1, <2>4, <2>7, <3>1, <3>2
  <2>8. CASE pc[t] # "insert"
    <3>1. \/ work'[t] = List(t)'
          \/ /\ rows' = rows /\ work[t] # <<>> /\ pc[t] = "rows" /\ stage' = stage
             /\ IF rows[Hash(t)][Head(work[t])] = 0
                  THEN work'[t] = work[t]
                  ELSE work'[t] = Tail(work[t])
      BY <1>2, <2>8, RowStepMoves
    <3>2. rows[Hash(t)][Head(work[t])] # 0 /\ work[t] # <<>> =>
            rows[Hash(t)][Head(work[t])] > 0
      BY <2>5, <2>6
    <3> QED BY <2>1, <2>2, <2>3, <2>4, <3>1, <3>2
  <2> QED BY <2>7, <2>8
<1> QED BY <1>1, <1>2

(* A task that saves references to chaincodes has saved the nodes of its   *)
(* channel before.                                                         *)
NodesSaved ==
  \A t \in Task : stage[t] = "codeRefs" =>
    \A i \in 1 .. Len(NodeRows) : rows[Hash(t)][NodeRows[i]] > 0

(* A task that is at this stage after a step was so before, at the same    *)
(* channel.                                                                *)
StageKept == \A t \in Task : stage'[t] = "codeRefs" =>
               stage[t] = "codeRefs" /\ Hash(t)' = Hash(t)

(* Only the end of the loop over nodes begins the stage.                   *)
LEMMA StageSteps ==
  ASSUME RegistryInv, [Next]_vars, \A t \in Task : ~NodesInserted(t)
  PROVE  StageKept
<1> USE DEF network, tables, database, process, locals, faults
<1>0. /\ pc \in [Task -> Labels] /\ stage \in [Task -> Stages]
      /\ chan \in [Task -> Channels \cup {None}]
      /\ Syncs \subseteq Task /\ Updates \subseteq Task
      /\ \A t \in Task : stage[t] = "codeRefs" => pc[t] \in {"chaincodes", "rows", "insert"}
  BY DEF RegistryInv, RegistryTypeOK, TasksOK, Task, TasksPlaced
<1>1. CASE UNCHANGED <<stage, chan, genesis>>
  BY <1>1 DEF StageKept, Hash
<1>2. ASSUME NEW c \in Channels, Join(c) \/ Rebuild(c) \/ ConnectHub(c) \/ StoreBlock(c)
      PROVE  StageKept
  <2>1. CASE Rebuild(c)
    BY <1>0, <2>1 DEF Rebuild, RegistryInv, OneSync, StageKept
  <2> QED BY <1>1, <1>2, <2>1 DEF Join, ConnectHub, StoreBlock
<1>3. CASE Boot
  BY <1>1, <1>3 DEF Boot
<1>4. ASSUME NEW s \in Syncs, StartSync(s) PROVE StageKept
  BY <1>1, <1>4 DEF StartSync
<1>5. ASSUME NEW s \in Syncs, SynchNetworkConfigToDB(s) PROVE StageKept
  <2>1. CASE QueryChannels(s) \/ InitializeNewChannel(s) \/ BeginLoop(s) \/ EndSync(s)
             \/ GetChannel(s) \/ ExistChannel(s) \/ SaveChannel(s) \/ WriteChannel(s)
    BY <1>1, <2>1
       DEF QueryChannels, InitializeNewChannel, BeginLoop, EndSync, GetChannel,
           ExistChannel, SaveChannel, WriteChannel
  <2>2. CASE NextChannel(s)
    BY <1>0, <2>2 DEF NextChannel, StageKept, Hash
  <2>3. CASE CodeInserted(s)
    BY <1>0, <2>3 DEF CodeInserted, StageKept, Hash
  <2>4. CASE ChannelExists(s)
    BY <2>4 DEF ChannelExists, NoProcess, StageKept
  <2> QED BY <1>5, <2>1, <2>2, <2>3, <2>4 DEF SynchNetworkConfigToDB, InsertNewChannel
<1>6. ASSUME NEW u \in Updates, ScheduleUpdate(u) PROVE StageKept
  BY <1>0, <1>6 DEF ScheduleUpdate, StageKept, Hash
<1>7. ASSUME NEW t \in Task, InsertFromDiscoveryResults(t) PROVE StageKept
  <2>1. CASE CountRow(t) \/ InsertRow(t) \/ QueryChaincodes(t)
    BY <1>1, <2>1 DEF CountRow, InsertRow, QueryChaincodes
  <2>2. CASE Discover(t)
    BY <1>0, <2>2 DEF Discover, StageKept, Hash
  <2>3. CASE DiscoverNull(t) \/ CodeRefsInserted(t)
    BY <1>0, <2>3 DEF DiscoverNull, CodeRefsInserted, DiscoveryInserted, StageKept, Hash
  <2> QED BY <1>7, <2>1, <2>2, <2>3 DEF InsertFromDiscoveryResults
<1>8. ASSUME NEW t \in Task, Timeout(t) PROVE StageKept
  BY <1>0, <1>8 DEF Timeout, StageKept, Hash
<1>9. ASSUME NEW t \in Task, Fail(t) PROVE StageKept
  BY <1>9 DEF Fail, NoProcess, StageKept
<1>10. CASE Crash
  BY <1>10 DEF Crash, NoProcess, StageKept
<1>11. CASE UNCHANGED vars
  BY <1>1, <1>11 DEF vars
<1> QED BY <1>2, <1>3, <1>4, <1>5, <1>6, <1>7, <1>8, <1>9, <1>10, <1>11 DEF Next

(* A row that is there is there after a step.                              *)
LEMMA RowsRemain ==
  ASSUME RegistryInv, [Next]_vars, NEW h \in Hashes, NEW k \in Keys, rows[h][k] > 0
  PROVE  rows'[h][k] > 0
<1>1. rows[h][k] \in Nat /\ rows'[h][k] \in Nat
  BY RegistryTypePreserved DEF RegistryInv, RegistryTypeOK, TablesOK
<1>2. rows'[h][k] >= rows[h][k]
  BY RowsStay
<1> QED BY <1>1, <1>2

(* The nodes a task has saved stay saved.                                  *)
LEMMA NodesPreserved ==
  ASSUME RegistryInv, SavedInOrder, NodesSaved, [Next]_vars
  PROVE  NodesSaved'
<1> SUFFICES ASSUME NEW t \in Task, stage'[t] = "codeRefs",
                    NEW i \in 1 .. Len(NodeRows)
             PROVE  rows'[Hash(t)'][NodeRows[i]] > 0
  BY DEF NodesSaved, Hash
<1>0. NodeRows[i] \in Keys /\ Len(NodeRows) \in Nat
  BY ListsType DEF Lists
<1>1. CASE stage[t] = "codeRefs" /\ Hash(t)' = Hash(t)
  <2>1. Hash(t) \in Hashes
    BY <1>1, HashOfTask DEF RegistryInv, TasksPlaced, AtChannel
  <2>2. rows[Hash(t)][NodeRows[i]] > 0
    BY <1>1 DEF NodesSaved
  <2> QED BY <1>0, <1>1, <2>1, <2>2, RowsRemain
<1>2. CASE NodesInserted(t)
  <2>1. /\ pc[t] = "rows" /\ work[t] = <<>> /\ stage[t] = "nodes"
        /\ Hash(t)' = Hash(t)
    BY <1>2 DEF NodesInserted, Hash, network, locals
  <2>2. Hash(t) \in Hashes
    BY <2>1, HashOfTask DEF RegistryInv, AtChannel
  <2>3. PICK s \in Lists : \E n \in 0 .. Len(s) : InList(t, s, n)
    BY <2>1 DEF SavedInOrder
  <2>4. PICK n \in 0 .. Len(s) : InList(t, s, n)
    BY <2>3
  <2>5. s = NodeRows
    BY <2>1, <2>4 DEF InList, List
  <2>6. n = Len(NodeRows)
    BY <1>0, <2>1, <2>4, <2>5 DEF InList
  <2>7. rows[Hash(t)][NodeRows[i]] > 0
    BY <2>4, <2>5, <2>6 DEF InList
  <2> QED BY <1>0, <2>1, <2>2, <2>7, RowsRemain
<1>3. ASSUME NEW q \in Task, NodesInserted(q), q # t
      PROVE  stage[t] = "codeRefs" /\ Hash(t)' = Hash(t)
  BY <1>3 DEF NodesInserted, Hash, network, locals, RegistryInv, RegistryTypeOK, TasksOK
<1>4. CASE \A q \in Task : ~NodesInserted(q)
  BY <1>1, <1>4, StageSteps DEF StageKept
<1> QED BY <1>1, <1>2, <1>3, <1>4

(* A row is inserted by a task that is in its list, with what is before it *)
(* in the list there.                                                      *)
LEMMA InsertedInOrder ==
  ASSUME RegistryInv, SavedInOrder, [Next]_vars, NEW h \in Hashes, NEW k \in Keys,
         ~(rows[h][k] > 0), rows'[h][k] > 0
  PROVE  \E t \in Task, s \in Lists :
           /\ s = List(t) /\ Hash(t) = h /\ pc[t] = "insert"
           /\ \E n \in 1 .. Len(s) : /\ s[n] = k
                                     /\ \A j \in 1 .. n - 1 : rows[h][s[j]] > 0
<1>0. rows \in [Hashes -> [Keys -> Nat]]
  BY DEF RegistryInv, RegistryTypeOK, TablesOK
<1>1. PICK t \in Task : RowStep(t)
  BY QuietSteps DEF Quiet
<1>2. /\ pc[t] = "insert" /\ work[t] # <<>> /\ h = Hash(t) /\ k = Head(work[t])
  BY <1>0, <1>1, RowStepMoves
<1>3. PICK s \in Lists : \E n \in 0 .. Len(s) : InList(t, s, n)
  BY <1>2 DEF SavedInOrder
<1>4. PICK n \in 0 .. Len(s) : InList(t, s, n)
  BY <1>3
<1>5. s \in Seq(Keys) /\ Len(s) \in Nat /\ work[t] \in Seq(Keys)
  BY ListsType DEF RegistryInv, RegistryTypeOK, TasksOK
<1>6. Len(work[t]) \in Nat \ {0} /\ Head(work[t]) = work[t][1]
  BY <1>2, <1>5
<1>7. n + 1 \in 1 .. Len(s) /\ s[n + 1] = k /\ (n + 1) - 1 = n
  BY <1>2, <1>4, <1>5, <1>6 DEF InList
<1>8. \A j \in 1 .. (n + 1) - 1 : rows[h][s[j]] > 0
  BY <1>2, <1>4, <1>7 DEF InList
<1> QED BY <1>2, <1>4, <1>7, <1>8 DEF InList

(* A reference is inserted when the rows it refers to are there.           *)
LEMMA ReferencesPreserved ==
  ASSUME RegistryInv, SavedInOrder, NodesSaved, ReferencesResolve, [Next]_vars
  PROVE  ReferencesResolve'
<1>1. ASSUME NEW h \in Hashes, NEW e \in Elements(Peers),
             ChannelRef(e) \in Keys, NodeRow(e) \in Keys, rows'[h][ChannelRef(e)] > 0
      PROVE  rows'[h][NodeRow(e)] > 0
  <2>1. CASE rows[h][ChannelRef(e)] > 0
    <3>1. rows[h][NodeRow(e)] > 0
      BY <2>1 DEF ReferencesResolve
    <3> QED BY <1>1, <3>1, RowsRemain
  <2>2. CASE ~(rows[h][ChannelRef(e)] > 0)
    <3>1. PICK t \in Task, s \in Lists :
            /\ s = List(t) /\ Hash(t) = h /\ pc[t] = "insert"
            /\ \E n \in 1 .. Len(s) : /\ s[n] = ChannelRef(e)
                                      /\ \A j \in 1 .. n - 1 : rows[h][s[j]] > 0
      BY <1>1, <2>2, InsertedInOrder
    <3>2. PICK n \in 1 .. Len(s) : /\ s[n] = ChannelRef(e)
                                   /\ \A j \in 1 .. n - 1 : rows[h][s[j]] > 0
      BY <3>1
    <3>3. s # CodeRows
      <4> SUFFICES ASSUME s = CodeRows PROVE FALSE
        OBVIOUS
      <4>1. \E c \in Chaincodes : s[n] = CodeRow(c)
        BY <3>2, CodeAssumption
      <4> QED BY <3>2, <4>1 DEF ChannelRef, CodeRow
    <3>4. s # CodeRefRows
      <4> SUFFICES ASSUME s = CodeRefRows PROVE FALSE
        OBVIOUS
      <4>1. \/ \E c \in Chaincodes : s[n] = CodeRow(c)
            \/ \E c \in Chaincodes, x \in Elements(Peers) : s[n] = CodeRef(c, x)
        BY <3>2, CodeAssumption
      <4> QED BY <3>2, <4>1 DEF ChannelRef, CodeRow, CodeRef
    <3>5. s = NodeRows
      BY <3>3, <3>4 DEF Lists
    <3>6. PICK j \in 1 .. n - 1 : s[j] = NodeRow(e)
      BY <3>2, <3>5, PeerInList
    <3>7. rows[h][NodeRow(e)] > 0
      BY <3>2, <3>6
    <3> QED BY <1>1, <3>7, RowsRemain
  <2> QED BY <2>1, <2>2
<1>2. ASSUME NEW h \in Hashes, NEW c \in Chaincodes, NEW e \in Elements(Peers),
             CodeRef(c, e) \in Keys, CodeRow(c) \in Keys, NodeRow(e) \in Keys,
             rows'[h][CodeRef(c, e)] > 0
      PROVE  rows'[h][CodeRow(c)] > 0 /\ rows'[h][NodeRow(e)] > 0
  <2>1. CASE rows[h][CodeRef(c, e)] > 0
    <3>1. rows[h][CodeRow(c)] > 0 /\ rows[h][NodeRow(e)] > 0
      BY <1>2, <2>1 DEF ReferencesResolve
    <3> QED BY <1>2, <3>1, RowsRemain
  <2>2. CASE ~(rows[h][CodeRef(c, e)] > 0)
    <3>1. PICK t \in Task, s \in Lists :
            /\ s = List(t) /\ Hash(t) = h /\ pc[t] = "insert"
            /\ \E n \in 1 .. Len(s) : /\ s[n] = CodeRef(c, e)
                                      /\ \A j \in 1 .. n - 1 : rows[h][s[j]] > 0
      BY <1>2, <2>2, InsertedInOrder
    <3>2. PICK n \in 1 .. Len(s) : /\ s[n] = CodeRef(c, e)
                                   /\ \A j \in 1 .. n - 1 : rows[h][s[j]] > 0
      BY <3>1
    <3>3. s # CodeRows
      <4> SUFFICES ASSUME s = CodeRows PROVE FALSE
        OBVIOUS
      <4>1. \E d \in Chaincodes : s[n] = CodeRow(d)
        BY <3>2, CodeAssumption
      <4> QED BY <3>2, <4>1 DEF CodeRef, CodeRow
    <3>4. s # NodeRows
      BY <3>2, NoCodeInNodes
    <3>5. s = CodeRefRows /\ stage[t] = "codeRefs"
      BY <3>1, <3>3, <3>4 DEF Lists, List
    <3>6. PICK j \in 1 .. n - 1 : s[j] = CodeRow(c)
      BY <3>2, <3>5, CodeRowFirst
    <3>7. rows[h][CodeRow(c)] > 0
      BY <3>2, <3>6
    <3>8. PICK i \in 1 .. Len(NodeRows) : NodeRows[i] = NodeRow(e)
      BY PeerInList
    <3>9. rows[h][NodeRow(e)] > 0
      BY <3>1, <3>5, <3>8 DEF NodesSaved
    <3> QED BY <1>2, <3>7, <3>9, RowsRemain
  <2> QED BY <2>1, <2>2
<1> QED BY <1>1, <1>2, ReferredRows DEF ReferencesResolve

(* Peers' references and chaincodes' always find the rows they refer to.   *)
THEOREM ReferencesResolveAlways == Spec => []ReferencesResolve
<1>1. Init => SavedInOrder /\ NodesSaved /\ ReferencesResolve
  <2> SUFFICES ASSUME Init PROVE SavedInOrder /\ NodesSaved /\ ReferencesResolve
    OBVIOUS
  <2>1. SavedInOrder /\ NodesSaved
    BY DEF Init, SavedInOrder, NodesSaved
  <2>2. \A h \in Hashes, k \in Keys : ~(rows[h][k] > 0)
    BY DEF Init
  <2> QED BY <2>1, <2>2, ReferredRows DEF ReferencesResolve
<1>2. RegistryInv /\ SavedInOrder /\ NodesSaved /\ ReferencesResolve /\ [Next]_vars
        => SavedInOrder' /\ NodesSaved' /\ ReferencesResolve'
  BY OrderPreserved, NodesPreserved, ReferencesPreserved
<1> QED BY <1>1, <1>2, RegistryCorrect, PTL DEF Spec

(* The tasks about to insert a row, and the tasks that run at all.         *)
Inserting(h, k) ==
  {t \in Task : pc[t] = "insert" /\ Hash(t) = h /\ Head(work[t]) = k}
Running == {t \in Task : pc[t] # "off"}

(* A row's copies and the tasks about to make one are no more than the     *)
(* updates and one synchronisation.                                        *)
CopiesCounted ==
  \A h \in Hashes, k \in Keys :
    rows[h][k] + Cardinality(Inserting(h, k)) <= 1 + Cardinality(Updates)

(* At most one synchronisation runs next to the updates.                   *)
LEMMA RunningTasks ==
  ASSUME RegistryInv
  PROVE  /\ IsFiniteSet(Running)
         /\ Cardinality(Running) \in Nat /\ Cardinality(Updates) \in Nat
         /\ Cardinality(Running) <= 1 + Cardinality(Updates)
<1>0. IsFiniteSet(Updates) /\ Cardinality(Updates) \in Nat
  BY UpdatesAssumption, FS_CardinalityType
<1>1. PICK s : Running \subseteq Updates \cup {s}
  <2>1. CASE \E s \in Syncs : pc[s] # "off"
    <3>1. PICK s \in Syncs : pc[s] # "off"
      BY <2>1
    <3>2. Running \subseteq Updates \cup {s}
      BY <3>1 DEF RegistryInv, OneSync, Running, Task
    <3> QED BY <3>2
  <2>2. CASE ~\E s \in Syncs : pc[s] # "off"
    BY <2>2 DEF Running, Task
  <2> QED BY <2>1, <2>2
<1>2. /\ IsFiniteSet(Updates \cup {s})
      /\ Cardinality(Updates \cup {s}) <= 1 + Cardinality(Updates)
      /\ Cardinality(Updates \cup {s}) \in Nat
  BY <1>0, FS_AddElement, FS_CardinalityType
<1>3. IsFiniteSet(Running) /\ Cardinality(Running) <= Cardinality(Updates \cup {s})
  BY <1>1, <1>2, FS_Subset
<1>4. Cardinality(Running) \in Nat
  BY <1>3, FS_CardinalityType
<1> QED BY <1>0, <1>2, <1>3, <1>4

(* The tasks about to insert a row run.                                    *)
LEMMA InsertingRun ==
  ASSUME RegistryInv, NEW h \in Hashes, NEW k \in Keys
  PROVE  /\ IsFiniteSet(Inserting(h, k))
         /\ Cardinality(Inserting(h, k)) \in Nat
         /\ Cardinality(Inserting(h, k)) <= 1 + Cardinality(Updates)
<1>1. Inserting(h, k) \subseteq Running
  BY DEF Inserting, Running
<1>2. /\ IsFiniteSet(Inserting(h, k))
      /\ Cardinality(Inserting(h, k)) <= Cardinality(Running)
  BY <1>1, RunningTasks, FS_Subset
<1>3. Cardinality(Inserting(h, k)) \in Nat
  BY <1>2, FS_CardinalityType
<1> QED BY <1>2, <1>3, RunningTasks

(* The same as one formula.                                                *)
InsertingFew ==
  \A h \in Hashes, k \in Keys : /\ IsFiniteSet(Inserting(h, k))
                               /\ Cardinality(Inserting(h, k)) \in Nat
                               /\ Cardinality(Inserting(h, k)) <= 1 + Cardinality(Updates)

(* InsertingRun for all rows at once.                                      *)
LEMMA InsertingAreFew == RegistryInv => InsertingFew
BY InsertingRun DEF InsertingFew

(* A row that is there gets no new task that inserts it, and each insert   *)
(* is the end of one.                                                      *)
LEMMA InsertingChange ==
  ASSUME RegistryInv, [Next]_vars, NEW h \in Hashes, NEW k \in Keys
  PROVE  \/ rows'[h][k] = 0
         \/ rows'[h][k] = rows[h][k] /\ Inserting(h, k)' \subseteq Inserting(h, k)
         \/ /\ rows'[h][k] = rows[h][k] + 1
            /\ \E t \in Inserting(h, k) : Inserting(h, k)' \subseteq Inserting(h, k) \ {t}
<1>0. rows \in [Hashes -> [Keys -> Nat]]
  BY DEF RegistryInv, RegistryTypeOK, TablesOK
<1>1. CASE \A t \in Task : ~RowStep(t)
  BY <1>1, QuietSteps DEF Quiet, Unmoved, Inserting
<1>2. ASSUME NEW t \in Task, RowStep(t),
             ~(rows'[h][k] = 0)
      PROVE  \/ rows'[h][k] = rows[h][k] /\ Inserting(h, k)' \subseteq Inserting(h, k)
             \/ /\ rows'[h][k] = rows[h][k] + 1
                /\ \E q \in Inserting(h, k) : Inserting(h, k)' \subseteq Inserting(h, k) \ {q}
  <2>1. /\ \A q \in Task \ {t} : q \in Inserting(h, k)' <=> q \in Inserting(h, k)
        /\ Hash(t)' = Hash(t) /\ Hash(t) \in Hashes
    BY <1>2, RowStepMoves DEF Unmoved, Inserting
  <2>2. CASE rows' = rows /\ pc'[t] # "insert"
    <3>1. t \notin Inserting(h, k)'
      BY <2>2 DEF Inserting
    <3>2. Inserting(h, k)' \subseteq Inserting(h, k)
      BY <2>1, <3>1 DEF Inserting
    <3> QED BY <2>2, <3>2
  <2>3. CASE rows' = rows /\ pc'[t] = "insert"
    <3>1. rows[Hash(t)][Head(work[t])] = 0 /\ work'[t] = work[t]
      BY <1>2, <2>3, RowStepMoves
    <3>2. t \notin Inserting(h, k)'
      BY <1>2, <2>1, <2>3, <3>1 DEF Inserting
    <3>3. Inserting(h, k)' \subseteq Inserting(h, k)
      BY <2>1, <3>2 DEF Inserting
    <3> QED BY <2>3, <3>3
  <2>4. CASE /\ pc[t] = "insert" /\ pc'[t] = "rows" /\ work[t] # <<>>
             /\ rows' = [rows EXCEPT ![Hash(t)][Head(work[t])] = @ + 1]
    <3>1. t \notin Inserting(h, k)'
      BY <2>4 DEF Inserting
    <3>2. Inserting(h, k)' \subseteq Inserting(h, k) \ {t}
      BY <2>1, <3>1 DEF Inserting
    <3>3. CASE h = Hash(t) /\ k = Head(work[t])
      <4>1. t \in Inserting(h, k)
        BY <2>4, <3>3 DEF Inserting
      <4>2. rows'[h][k] = rows[h][k] + 1
        BY <1>0, <2>4, <3>3
      <4> QED BY <3>2, <4>1, <4>2
    <3>4. CASE ~(h = Hash(t) /\ k = Head(work[t]))
      <4>1. rows'[h][k] = rows[h][k]
        BY <1>0, <2>1, <2>4, <3>4
      <4> QED BY <3>2, <4>1
    <3> QED BY <3>3, <3>4
  <2> QED BY <1>2, <2>2, <2>3, <2>4, RowStepMoves
<1> QED BY <1>1, <1>2

(* Every step keeps the count.                                             *)
LEMMA CopiesPreserved ==
  ASSUME RegistryInv, RegistryInv', CopiesCounted, [Next]_vars
  PROVE  CopiesCounted'
<1> SUFFICES ASSUME NEW h \in Hashes, NEW k \in Keys
             PROVE  (rows[h][k] + Cardinality(Inserting(h, k)) <= 1 + Cardinality(Updates))'
  BY DEF CopiesCounted
<1> DEFINE I == Inserting(h, k)
           J == Inserting(h, k)'
<1>1. InsertingFew'
  BY InsertingAreFew, PTL
<1>2. /\ IsFiniteSet(J) /\ Cardinality(J) \in Nat
      /\ Cardinality(J) <= 1 + Cardinality(Updates)
  BY <1>1 DEF InsertingFew
<1>3. /\ IsFiniteSet(I) /\ Cardinality(I) \in Nat
  BY InsertingRun
<1>4. rows[h][k] \in Nat /\ Cardinality(Updates) \in Nat
  BY RunningTasks DEF RegistryInv, RegistryTypeOK, TablesOK
<1>5. rows[h][k] + Cardinality(I) <= 1 + Cardinality(Updates)
  BY DEF CopiesCounted
<1> HIDE DEF I, J
<1>6. CASE rows'[h][k] = 0
  BY <1>2, <1>4, <1>6 DEF J
<1>7. CASE rows'[h][k] = rows[h][k] /\ J \subseteq I
  <2>1. Cardinality(J) <= Cardinality(I)
    BY <1>3, <1>7, FS_Subset
  <2> QED BY <1>2, <1>3, <1>4, <1>5, <1>7, <2>1 DEF J
<1>8. ASSUME NEW t \in I, rows'[h][k] = rows[h][k] + 1, J \subseteq I \ {t}
      PROVE  rows'[h][k] + Cardinality(J) <= 1 + Cardinality(Updates)
  <2>1. IsFiniteSet(I \ {t}) /\ Cardinality(I \ {t}) = Cardinality(I) - 1
    BY <1>3, FS_RemoveElement
  <2>2. Cardinality(J) <= Cardinality(I) - 1
    BY <1>8, <2>1, FS_Subset
  <2> QED BY <1>2, <1>3, <1>4, <1>5, <1>8, <2>2
<1> QED BY <1>6, <1>7, <1>8, InsertingChange DEF I, J

(* A row has at most one copy for each task that can be at it.             *)
THEOREM BoundedDuplicatesAlways == Spec => []BoundedDuplicates
<1>1. Init => CopiesCounted
  <2> SUFFICES ASSUME Init, NEW h \in Hashes, NEW k \in Keys
               PROVE  rows[h][k] + Cardinality(Inserting(h, k)) <= 1 + Cardinality(Updates)
    BY DEF CopiesCounted
  <2>1. rows[h][k] = 0 /\ Inserting(h, k) = {}
    BY DEF Init, Inserting
  <2>2. Cardinality(Updates) \in Nat
    BY UpdatesAssumption, FS_CardinalityType
  <2> QED BY <2>1, <2>2, FS_EmptySet
<1>2. RegistryInv /\ RegistryInv' /\ CopiesCounted /\ [Next]_vars => CopiesCounted'
  BY CopiesPreserved
<1>3. RegistryInv /\ CopiesCounted => BoundedDuplicates
  <2> SUFFICES ASSUME RegistryInv, CopiesCounted, NEW h \in Hashes, NEW k \in Keys
               PROVE  rows[h][k] <= 1 + Cardinality(Updates)
    BY DEF BoundedDuplicates
  <2>1. rows[h][k] \in Nat /\ Cardinality(Updates) \in Nat
    BY RunningTasks DEF RegistryInv, RegistryTypeOK, TablesOK
  <2>2. Cardinality(Inserting(h, k)) \in Nat
    BY InsertingRun
  <2>3. rows[h][k] + Cardinality(Inserting(h, k)) <= 1 + Cardinality(Updates)
    BY DEF CopiesCounted
  <2> QED BY <2>1, <2>2, <2>3
<1> QED BY <1>1, <1>2, <1>3, RegistryCorrect, PTL DEF Spec

=============================================================================
