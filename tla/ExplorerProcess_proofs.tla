----------------------- MODULE ExplorerProcess_proofs -----------------------
(***************************************************************************)
(* Proofs about ExplorerProcess, for every set of networks and browsers,   *)
(* any number of blocks, faults and kills: types, the way out of the       *)
(* explorer process, the notifications, and that the processes implement   *)
(* Supervision.                                                            *)
(***************************************************************************)
EXTENDS ExplorerProcess, SequenceTheorems, TLAPS

(* A block is sent once, when it has its row; a message about a block is   *)
(* about one that was sent, and messages are in the order they were sent.  *)
BlockAt(n, i) == i \in 1 .. Len(ipc[n]) /\ ipc[n][i].type = "block"

Pipes ==
  \A n \in Networks :
    /\ Sent(n) \subseteq stored[n]
    /\ \A k \in Sent(n) : ~Precedes(sent[n], k, k)
    /\ \A i \in 1 .. Len(ipc[n]) : BlockAt(n, i) => ipc[n][i].block \in Sent(n)
    /\ \A i, j \in 1 .. Len(ipc[n]) :
         BlockAt(n, i) /\ BlockAt(n, j) /\ i < j =>
           Precedes(sent[n], ipc[n][i].block, ipc[n][j].block)

(* What a browser was told was sent, before what is still in the pipe.     *)
ToldBefore ==
  \A b \in Browsers : \A n \in Networks : \A i \in 1 .. Len(told[b][n]) :
    /\ told[b][n][i] \in Sent(n)
    /\ \A j \in 1 .. Len(ipc[n]) :
         BlockAt(n, j) => Precedes(sent[n], told[b][n][i], ipc[n][j].block)

(* Nothing is asked while the explorer runs, no process is forked before   *)
(* it serves, and there is no exit code before its end.                    *)
Lifecycle ==
  /\ Up => exitCode = None /\ \A n \in Networks : ~asked[n]
  /\ stage # "serving" => \A n \in Networks : child[n] = "none"

ProcessInv ==
  /\ TypeOK /\ Lifecycle /\ Pipes /\ ToldBefore
  /\ NoChildLeftBehind /\ CodeTellsFailure /\ ToldAsSent

-----------------------------------------------------------------------------
(* Types.                                                                  *)

(* A message at the head of a pipe and what it leaves.                     *)
LEMMA PipeHead ==
  ASSUME TypeOK, NEW n \in Networks, ipc[n] # <<>>
  PROVE  /\ Head(ipc[n]) \in Message /\ Tail(ipc[n]) \in Seq(Message)
         /\ Head(ipc[n]) = ipc[n][1] /\ Len(Tail(ipc[n])) = Len(ipc[n]) - 1
         /\ Len(ipc[n]) \in Nat \ {0}
         /\ \A i \in 1 .. Len(Tail(ipc[n])) : Tail(ipc[n])[i] = ipc[n][i + 1]
<1>1. ipc[n] \in Seq(Message)
  BY DEF TypeOK
<1> QED BY <1>1, HeadTailProperties, LenProperties, EmptySeq

(* What a block that was sent adds to a browser's notifications.           *)
LEMMA ToldType ==
  ASSUME TypeOK, NEW n \in Networks, NEW k \in Blocks
  PROVE  \A b \in Browsers :
           [told[b] EXCEPT ![n] = Append(@, k)] \in [Networks -> Seq(Blocks)]
<1> SUFFICES ASSUME NEW b \in Browsers
             PROVE  [told[b] EXCEPT ![n] = Append(@, k)] \in [Networks -> Seq(Blocks)]
  OBVIOUS
<1>1. told[b] \in [Networks -> Seq(Blocks)] /\ told[b][n] \in Seq(Blocks)
  BY DEF TypeOK
<1>2. Append(told[b][n], k) \in Seq(Blocks)
  BY <1>1, AppendProperties
<1> QED BY <1>1, <1>2

(* The faults stay within their bound.                                     *)
LEMMA FaultType ==
  ASSUME TypeOK
  PROVE  Fault => faults' \in 0 .. MaxFaults
BY BoundAssumption DEF TypeOK, Fault

(* What the end of the explorer process leaves has its types.              *)
LEMMA GoneType ==
  ASSUME TypeOK, NEW how \in {"exited", "killed"}, NEW code \in Codes \cup {None},
         Gone(how, code), db' = [db EXCEPT ![Explorer] = "off"],
         asked' \in [Networks -> BOOLEAN], kills' \in 0 .. MaxKills
  PROVE  TypeOK'
<1>1. /\ parent' \in {"up", "exited", "killed"} /\ failing' \in BOOLEAN
      /\ exitCode' \in Codes \cup {None}
      /\ UNCHANGED <<stage, todo, client, closeCode, destroyed, told, broadcasts, child,
                     blocks, height, faults>>
  BY DEF Gone, server
<1>2. conn' \in [Browsers -> {"none", "open", "ended"}]
  BY DEF Gone
<1>3. ipc' \in [Networks -> Seq(Message)]
  BY EmptySeq DEF Gone
<1>4. retry' \in [Processes -> BOOLEAN] /\ db' \in [Processes -> {"off", "up", "failed"}]
  BY DEF TypeOK, Gone
<1> QED BY <1>1, <1>2, <1>3, <1>4 DEF TypeOK, blocks

(* What process.send leaves, with a parent or without, has its types.      *)
LEMMA SendType ==
  ASSUME TypeOK, NEW n \in Networks, NEW msg \in Message, Send(n, msg)
  PROVE  /\ child' \in [Networks -> {"none", "loading", "running", "closing", "exited"}]
         /\ db' \in [Processes -> {"off", "up", "failed"}] /\ retry' \in [Processes -> BOOLEAN]
         /\ ipc' \in [Networks -> Seq(Message)]
<1>1. Append(ipc[n], msg) \in Seq(Message)
  BY AppendProperties DEF TypeOK
<1> QED BY <1>1 DEF TypeOK, Send, ChildShutDown, base

(* Types, after a step of startExplorer.                                   *)
LEMMA StartType ==
  ASSUME TypeOK, StartExplorer
  PROVE  TypeOK'
<1> USE BoundAssumption
<1>1. CASE ConnectDatabase
  <2>1. /\ stage' = "clients" /\ faults' \in 0 .. MaxFaults
        /\ UNCHANGED <<parent, todo, client, stopping, browsers, workers, height, kills>>
    BY <1>1, FaultType DEF ConnectDatabase, TypeOK
  <2>2. db' \in [Processes -> {"off", "up", "failed"}] /\ retry' \in [Processes -> BOOLEAN]
    BY <1>1 DEF TypeOK, ConnectDatabase
  <2> QED BY <2>1, <2>2 DEF TypeOK, stopping, browsers, workers
<1>2. ASSUME NEW n \in Networks, BuildClient(n) PROVE TypeOK'
  <2>1. faults' \in 0 .. MaxFaults /\ failing' \in BOOLEAN
    BY <1>2, FaultType DEF BuildClient, CreateFabricClient, InitializeDetachClient, TypeOK
  <2>2. client' \in [Networks -> {"none", "detached", "connected"}]
    BY <1>2 DEF BuildClient, CreateFabricClient, InitializeDetachClient, TypeOK
  <2> QED BY <1>2, <2>1, <2>2 DEF TypeOK, BuildClient, browsers, workers, base
<1>3. CASE InitializeListener
  BY <1>3 DEF TypeOK, InitializeListener, browsers, base, bounds, blocks
<1>4. CASE StartFails
  BY <1>4 DEF TypeOK, StartFails, Fault, browsers, workers, base
<1> QED BY <1>1, <1>2, <1>3, <1>4 DEF StartExplorer

(* Types, after a step of a browser or a message of a sync process.        *)
LEMMA ServeType ==
  ASSUME TypeOK, Pipes, Serve
  PROVE  TypeOK'
<1> USE BoundAssumption
<1>1. ASSUME NEW b \in Browsers, OnConnection(b) \/ OnClose(b) PROVE TypeOK'
  BY <1>1 DEF TypeOK, OnConnection, OnClose, server, stopping, workers, base, bounds
<1>2. ASSUME NEW n \in Networks, ProcessSyncMessage(n) PROVE TypeOK'
  <2>1. /\ ipc[n] # <<>> /\ ipc' = [ipc EXCEPT ![n] = Tail(@)]
        /\ UNCHANGED <<parent, server, closeCode, destroyed, exitCode, conn, child, asked,
                       blocks, base, height, kills>>
    BY <1>2 DEF ProcessSyncMessage
  <2>2. ipc' \in [Networks -> Seq(Message)]
    BY <2>1, PipeHead DEF TypeOK
  <2>3. CASE Head(ipc[n]).type = "block"
    <3>1. Head(ipc[n]).block \in Blocks
      <4>1. BlockAt(n, 1) /\ 1 \in 1 .. Len(ipc[n]) /\ Head(ipc[n]) = ipc[n][1]
        BY <2>1, <2>3, PipeHead DEF BlockAt
      <4>2. ipc[n][1].block \in Sent(n) /\ Sent(n) \subseteq stored[n]
        BY <4>1 DEF Pipes
      <4> QED BY <4>1, <4>2 DEF TypeOK
    <3>2. Broadcast(n, Head(ipc[n]).block) /\ UNCHANGED <<failing, faults>>
      BY <1>2, <2>3 DEF ProcessSyncMessage
    <3>3. /\ told' \in [Browsers -> [Networks -> Seq(Blocks)]]
          /\ broadcasts' \in [Networks -> SUBSET Blocks]
      BY <3>1, <3>2, ToldType DEF Broadcast, TypeOK
    <3> QED BY <2>1, <2>2, <3>2, <3>3 DEF TypeOK, server, base, blocks
  <2>4. CASE Head(ipc[n]).type # "block"
    <3>1. UNCHANGED <<told, broadcasts>> /\ failing' \in BOOLEAN /\ faults' \in 0 .. MaxFaults
      <4>1. \/ UNCHANGED <<failing, faults, told, broadcasts>>
            \/ Fault /\ failing' = TRUE /\ UNCHANGED <<told, broadcasts>>
            \/ failing' = TRUE /\ UNCHANGED <<told, broadcasts, faults>>
        BY <1>2, <2>4 DEF ProcessSyncMessage
      <4> QED BY <4>1, FaultType DEF TypeOK
    <3> QED BY <2>1, <2>2, <3>1 DEF TypeOK, server, base, blocks
  <2> QED BY <2>3, <2>4
<1> QED BY <1>1, <1>2 DEF Serve

(* Types, after a step of the shutdown or the end of the explorer.         *)
LEMMA ExitType ==
  ASSUME TypeOK, Exit
  PROVE  TypeOK'
<1> USE BoundAssumption
<1>1. CASE HandleDisconnect
  BY <1>1 DEF TypeOK, HandleDisconnect, server, browsers, workers, bounds
<1>2. CASE ConnectionLost
  BY <1>2, FaultType DEF TypeOK, ConnectionLost, server, browsers, workers
<1>3. CASE Signal
  BY <1>3 DEF TypeOK, Signal, ShutDown, Codes, server, workers, base, bounds
<1>4. CASE FailureTimer
  BY <1>4 DEF TypeOK, FailureTimer, ShutDown, Codes, server, workers, base, bounds
<1>5. CASE DestroyConnections
  BY <1>5 DEF TypeOK, DestroyConnections, server, workers, base, bounds
<1>6. CASE ServerClosed
  <2>1. /\ closeCode \in Codes \cup {None} /\ Gone("exited", closeCode)
        /\ db' = [db EXCEPT ![Explorer] = "off"]
        /\ asked' \in [Networks -> BOOLEAN] /\ kills' \in 0 .. MaxKills
    BY <1>6 DEF TypeOK, ServerClosed, CloseExplorer
  <2> QED BY <2>1, GoneType
<1>7. CASE ForcedExit
  <2>1. /\ 1 \in Codes /\ Gone("exited", 1) /\ db' = [db EXCEPT ![Explorer] = "off"]
        /\ asked' \in [Networks -> BOOLEAN] /\ kills' \in 0 .. MaxKills
    BY <1>7 DEF TypeOK, ForcedExit, CloseExplorer, Codes
  <2> QED BY <2>1, GoneType
<1>8. CASE Kill
  <2>1. /\ Gone("killed", None) /\ db' = [db EXCEPT ![Explorer] = "off"]
        /\ asked' \in [Networks -> BOOLEAN] /\ kills' \in 0 .. MaxKills
    BY <1>8 DEF TypeOK, Kill
  <2> QED BY <2>1, GoneType
<1> QED BY <1>1, <1>2, <1>3, <1>4, <1>5, <1>6, <1>7, <1>8 DEF Exit

(* Types, after a step of a sync process or a commit.                      *)
LEMMA ChildType ==
  ASSUME TypeOK, Pipes, NEW n \in Networks, SyncProcess(n) \/ Commit(n)
  PROVE  TypeOK'
<1> USE BoundAssumption
<1>0. n \in Processes
  BY DEF Processes
<1>1. CASE ChildStart(n)
  <2>1. faults' \in 0 .. MaxFaults
    BY <1>1, FaultType DEF ChildStart, TypeOK
  <2>2. db' \in [Processes -> {"off", "up", "failed"}] /\ retry' \in [Processes -> BOOLEAN]
    BY <1>0, <1>1 DEF ChildStart, TypeOK
  <2> QED BY <1>1, <2>1, <2>2
          DEF TypeOK, ChildStart, explorerOnly, server, stopping, browsers, blocks
<1>2. CASE ChildStore(n)
  <2>1. PICK k \in 1 .. height[n] : stored' = [stored EXCEPT ![n] = @ \cup {k}]
    BY <1>2 DEF ChildStore
  <2>2. k \in Blocks
    BY <2>1 DEF TypeOK, Blocks
  <2>3. stored' \in [Networks -> SUBSET Blocks]
    BY <2>1, <2>2 DEF TypeOK
  <2> QED BY <1>2, <2>3
          DEF TypeOK, ChildStore, explorerOnly, server, stopping, browsers, base, bounds
<1>3. CASE ChildSendBlock(n)
  <2>1. PICK k \in stored[n] : /\ Send(n, [type |-> "block", block |-> k])
                              /\ sent' = [sent EXCEPT ![n] = Append(@, k)]
    BY <1>3 DEF ChildSendBlock
  <2>2. k \in Blocks /\ [type |-> "block", block |-> k] \in Message
    BY DEF TypeOK, Message, Blocks
  <2>3. sent' \in [Networks -> Seq(Blocks)]
    <3>1. Append(sent[n], k) \in Seq(Blocks)
      BY <2>2, AppendProperties DEF TypeOK
    <3> QED BY <2>1, <3>1 DEF TypeOK
  <2> QED BY <1>3, <2>1, <2>2, <2>3, SendType
          DEF TypeOK, ChildSendBlock, explorerOnly, server, stopping, browsers, bounds
<1>10. CASE ChildStrands(n)
  <2>1. PICK k \in 1 .. height[n] : stranded' = [stranded EXCEPT ![n] = @ \cup {k}]
    BY <1>10 DEF ChildStrands
  <2>2. k \in Blocks
    BY <2>1 DEF TypeOK, Blocks
  <2>3. stranded' \in [Networks -> SUBSET Blocks]
    BY <2>1, <2>2 DEF TypeOK
  <2> QED BY <1>10, <2>3, FaultType
          DEF TypeOK, ChildStrands, explorerOnly, server, stopping, browsers, base
<1>4. CASE ChildSendOther(n)
  <2>1. PICK msg \in Message : Send(n, msg)
    BY <1>4 DEF ChildSendOther, Message
  <2>2. /\ faults' \in 0 .. MaxFaults
        /\ UNCHANGED <<explorerOnly, asked, blocks, height, kills>>
    BY <1>4, FaultType DEF ChildSendOther
  <2> QED BY <2>1, <2>2, SendType
          DEF TypeOK, explorerOnly, server, stopping, browsers, blocks
<1>5. CASE ChildFails(n)
  BY <1>5, FaultType
     DEF TypeOK, ChildFails, ChildShutDown, explorerOnly, server, stopping, browsers,
         blocks
<1>6. CASE ChildHandleDisconnect(n)
  BY <1>6 DEF TypeOK, ChildHandleDisconnect, ChildShutDown, explorerOnly, server, stopping,
              browsers, bounds, blocks
<1>7. CASE ChildSignalled(n)
  BY <1>7 DEF TypeOK, ChildSignalled, ChildShutDown, explorerOnly, server, stopping,
              browsers, bounds, base, blocks
<1>8. CASE ChildExit(n)
  BY <1>8 DEF TypeOK, ChildExit, explorerOnly, server, stopping, browsers, base, bounds,
              blocks
<1>9. CASE Commit(n)
  BY <1>9 DEF TypeOK, Commit, explorerOnly, server, stopping, browsers, workers, base
<1> QED BY <1>1, <1>2, <1>3, <1>4, <1>5, <1>6, <1>7, <1>8, <1>9, <1>10 DEF SyncProcess

(* The initial states.                                                     *)
LEMMA InitInv == Init => ProcessInv
<1> SUFFICES ASSUME Init PROVE ProcessInv
  OBVIOUS
<1>1. TypeOK
  <2>1. <<>> \in Seq(Message) /\ <<>> \in Seq(Blocks)
    BY EmptySeq
  <2>2. /\ told \in [Browsers -> [Networks -> Seq(Blocks)]]
        /\ ipc \in [Networks -> Seq(Message)] /\ sent \in [Networks -> Seq(Blocks)]
    BY <2>1 DEF Init
  <2>3. /\ stored \in [Networks -> SUBSET Blocks]
        /\ stranded \in [Networks -> SUBSET Blocks]
        /\ height \in [Networks -> 0 .. MaxBlocks]
        /\ broadcasts \in [Networks -> SUBSET Blocks]
        /\ faults \in 0 .. MaxFaults /\ kills \in 0 .. MaxKills
    BY BoundAssumption DEF Init
  <2>4. /\ client \in [Networks -> {"none", "detached", "connected"}]
        /\ conn \in [Browsers -> {"none", "open", "ended"}]
        /\ child \in [Networks -> {"none", "loading", "running", "closing", "exited"}]
        /\ asked \in [Networks -> BOOLEAN] /\ retry \in [Processes -> BOOLEAN]
        /\ db \in [Processes -> {"off", "up", "failed"}]
    BY DEF Init
  <2>5. /\ parent \in {"up", "exited", "killed"} /\ todo \subseteq Networks
        /\ stage \in {"database", "clients", "serving", "rejected"}
        /\ failing \in BOOLEAN /\ destroyed \in BOOLEAN
        /\ closeCode \in Codes \cup {None} /\ exitCode \in Codes \cup {None}
    BY DEF Init
  <2> QED BY <2>2, <2>3, <2>4, <2>5 DEF TypeOK
<1>2. \A n \in Networks : Len(ipc[n]) = 0 /\ Sent(n) = {}
  BY DEF Init, Sent
<1>3. \A b \in Browsers : \A n \in Networks : Len(told[b][n]) = 0
  BY DEF Init
<1>4. Pipes
  BY <1>2 DEF Pipes
<1>5. ToldBefore /\ ToldAsSent
  BY <1>2, <1>3 DEF ToldBefore, ToldAsSent
<1>6. Lifecycle /\ NoChildLeftBehind /\ CodeTellsFailure
  BY CodeAssumption DEF Init, Lifecycle, NoChildLeftBehind, CodeTellsFailure, Codes
<1> QED BY <1>1, <1>4, <1>5, <1>6 DEF ProcessInv

(* Types, after any step.                                                  *)
LEMMA NextType ==
  ASSUME TypeOK, Pipes, [Next]_vars
  PROVE  TypeOK'
<1>1. CASE UNCHANGED vars
  BY <1>1 DEF TypeOK, vars, server, stopping, browsers, workers, base, bounds
<1>2. CASE Next
  BY <1>2, StartType, ServeType, ExitType, ChildType DEF Next
<1> QED BY <1>1, <1>2

-----------------------------------------------------------------------------
(* The start and the end of the explorer process.                          *)

(* A sync process changes its own state only, and has been forked.         *)
LEMMA ChildStep ==
  ASSUME TypeOK, NEW n \in Networks, SyncProcess(n)
  PROVE  /\ UNCHANGED <<explorerOnly, asked>>
         /\ child[n] # "none" /\ child'[n] # "none"
         /\ \A o \in Networks \ {n} : child'[o] = child[o]
<1>1. UNCHANGED <<explorerOnly, asked>>
  BY DEF SyncProcess, ChildStart, ChildStore, ChildStrands, ChildSendBlock, ChildSendOther,
         ChildFails, ChildHandleDisconnect, ChildSignalled, ChildExit
<1>2. /\ child[n] # "none"
      /\ child' = child \/ \E s \in {"running", "closing", "exited"} :
                             child' = [child EXCEPT ![n] = s]
  BY DEF SyncProcess, ChildStart, ChildStore, ChildStrands, ChildSendBlock, ChildSendOther,
         ChildFails, ChildHandleDisconnect, ChildSignalled, ChildExit, ChildShutDown, Send
<1> QED BY <1>1, <1>2 DEF TypeOK

(* Steps that concern neither start-up nor the end.                        *)
LEMMA QuietStep ==
  ASSUME Lifecycle, NoChildLeftBehind, CodeTellsFailure,
         UNCHANGED <<parent, stage, closeCode, exitCode, child, asked>>
  PROVE  Lifecycle' /\ NoChildLeftBehind' /\ CodeTellsFailure'
BY DEF Lifecycle, NoChildLeftBehind, CodeTellsFailure, Up

(* A step of start-up: the explorer is up, no process has been forked.     *)
LEMMA StartStep ==
  ASSUME TypeOK, Lifecycle, StartExplorer
  PROVE  /\ Up /\ stage # "serving" /\ UNCHANGED <<parent, closeCode, exitCode, asked>>
         /\ stage' = "serving" \/ UNCHANGED child
BY DEF StartExplorer, ConnectDatabase, BuildClient, InitializeListener, StartFails, Starting,
       TypeOK, stopping, workers

(* By either way out every sync process is asked to end.                   *)
LEMMA EndStep ==
  ASSUME TypeOK, Lifecycle, ServerClosed \/ ForcedExit
  PROVE  /\ Up /\ parent' = "exited" /\ UNCHANGED <<stage, closeCode, child>>
         /\ asked' = [n \in Networks |-> child[n] # "none"]
         /\ exitCode' \in {1, closeCode} /\ closeCode \in Codes \cup {None}
<1>1. Up /\ asked' = [n \in Networks |-> asked[n] \/ child[n] # "none"]
  BY DEF ServerClosed, ForcedExit, CloseExplorer
<1>2. asked' = [n \in Networks |-> child[n] # "none"]
  BY <1>1 DEF Lifecycle
<1> QED BY <1>1, <1>2 DEF ServerClosed, ForcedExit, Gone, TypeOK, server

(* What is known of the process, its code and its sync processes, kept by  *)
(* every step.                                                             *)
LEMMA LifecycleInv ==
  ASSUME TypeOK, Lifecycle, NoChildLeftBehind, CodeTellsFailure, [Next]_vars
  PROVE  Lifecycle' /\ NoChildLeftBehind' /\ CodeTellsFailure'
<1>0. CASE UNCHANGED vars
  BY <1>0, QuietStep DEF vars, server, stopping, workers
<1>1. CASE StartExplorer
  <2>1. /\ Up /\ stage # "serving" /\ UNCHANGED <<parent, closeCode, exitCode, asked>>
        /\ stage' = "serving" \/ UNCHANGED child
    BY <1>1, StartStep
  <2>2. Lifecycle'
    BY <2>1 DEF Lifecycle, Up
  <2> QED BY <2>1, <2>2, CodeAssumption
          DEF Lifecycle, NoChildLeftBehind, CodeTellsFailure, Up, Codes
<1>2. CASE Serve
  BY <1>2, QuietStep DEF Serve, OnConnection, OnClose, ProcessSyncMessage, server, stopping,
                         workers
<1>3. CASE HandleDisconnect \/ ConnectionLost \/ DestroyConnections
  BY <1>3, QuietStep DEF HandleDisconnect, ConnectionLost, DestroyConnections, server,
                         stopping, workers
<1>4. CASE Signal \/ FailureTimer
  <2>1. Up /\ UNCHANGED <<parent, stage, exitCode, child, asked>>
    BY <1>4 DEF Signal, FailureTimer, server, workers
  <2> QED BY <2>1, CodeAssumption DEF Lifecycle, NoChildLeftBehind, CodeTellsFailure, Up, Codes
<1>5. CASE ServerClosed \/ ForcedExit
  <2>1. /\ Up /\ parent' = "exited" /\ UNCHANGED <<stage, closeCode, child>>
        /\ asked' = [n \in Networks |-> child[n] # "none"]
        /\ exitCode' \in {1, closeCode} /\ closeCode \in Codes \cup {None}
    BY <1>5, EndStep
  <2>2. Lifecycle'
    BY <2>1 DEF Lifecycle, Up
  <2>3. NoChildLeftBehind'
    BY <2>1 DEF NoChildLeftBehind
  <2>4. CodeTellsFailure'
    BY <2>1 DEF CodeTellsFailure
  <2> QED BY <2>2, <2>3, <2>4
<1>6. CASE Kill
  <2>1. parent' = "killed" /\ exitCode' = None /\ UNCHANGED <<stage, child>>
    BY <1>6 DEF Kill, Gone, server
  <2> QED BY <2>1, CodeAssumption DEF Lifecycle, NoChildLeftBehind, CodeTellsFailure, Up, Codes
<1>7. ASSUME NEW n \in Networks, SyncProcess(n)
      PROVE  Lifecycle' /\ NoChildLeftBehind' /\ CodeTellsFailure'
  <2>1. /\ UNCHANGED <<parent, stage, closeCode, exitCode, asked>>
        /\ child[n] # "none" /\ \A o \in Networks \ {n} : child'[o] = child[o]
    BY <1>7, ChildStep DEF explorerOnly, server, stopping
  <2> QED BY <2>1 DEF Lifecycle, NoChildLeftBehind, CodeTellsFailure, Up
<1>8. ASSUME NEW n \in Networks, Commit(n)
      PROVE  Lifecycle' /\ NoChildLeftBehind' /\ CodeTellsFailure'
  BY <1>8, QuietStep DEF Commit, explorerOnly, server, stopping, workers
<1> QED BY <1>0, <1>1, <1>2, <1>3, <1>4, <1>5, <1>6, <1>7, <1>8 DEF Next, Exit

-----------------------------------------------------------------------------
(* The notifications.                                                      *)

Notifications == Pipes /\ ToldBefore /\ ToldAsSent

(* Steps that leave the pipes, the rows and the notifications alone.       *)
LEMMA UntoldStep ==
  ASSUME Notifications, UNCHANGED <<ipc, sent, stored, told>>
  PROVE  Notifications'
<1>1. \A o \in Networks : Sent(o)' = Sent(o)
  BY DEF Sent
<1>2. Pipes' /\ ToldBefore'
  BY <1>1 DEF Notifications, Pipes, BlockAt, ToldBefore
<1>3. ToldAsSent'
  BY <1>1 DEF Notifications, ToldAsSent
<1> QED BY <1>2, <1>3 DEF Notifications

(* Nothing is left in the pipes of an explorer that is gone.               *)
LEMMA GoneStep ==
  ASSUME Notifications, NEW how, NEW code, Gone(how, code)
  PROVE  Notifications'
<1>1. (\A n \in Networks : Len(ipc'[n]) = 0) /\ UNCHANGED <<told, stored, sent>>
  BY DEF Gone, blocks
<1>2. \A n \in Networks : Sent(n)' = Sent(n)
  BY <1>1 DEF Sent
<1>3. Pipes' /\ ToldBefore'
  BY <1>1, <1>2 DEF Notifications, Pipes, ToldBefore
<1>4. ToldAsSent'
  BY <1>1, <1>2 DEF Notifications, ToldAsSent
<1> QED BY <1>3, <1>4 DEF Notifications

(* A block gets its row: what may be told only grows.                      *)
LEMMA StoreStep ==
  ASSUME TypeOK, Notifications, NEW n \in Networks, ChildStore(n)
  PROVE  Notifications'
<1>1. UNCHANGED <<ipc, sent, told>>
  BY DEF ChildStore, explorerOnly, browsers
<1>2. PICK k : stored' = [stored EXCEPT ![n] = @ \cup {k}]
  BY DEF ChildStore
<1>3. \A o \in Networks : stored[o] \subseteq stored'[o]
  BY <1>2 DEF TypeOK
<1>4. \A o \in Networks : Sent(o)' = Sent(o)
  BY <1>1 DEF Sent
<1>5. Pipes' /\ ToldBefore'
  BY <1>1, <1>3, <1>4 DEF Notifications, Pipes, BlockAt, ToldBefore
<1>6. ToldAsSent'
  BY <1>1, <1>3, <1>4 DEF Notifications, ToldAsSent
<1> QED BY <1>5, <1>6 DEF Notifications

(* A message goes to the end of the pipe of its network, or nowhere.       *)
LEMMA SendStep ==
  ASSUME TypeOK, NEW n \in Networks, NEW msg \in Message, Send(n, msg)
  PROVE  \/ UNCHANGED ipc
         \/ /\ \A o \in Networks \ {n} : ipc'[o] = ipc[o]
            /\ Len(ipc'[n]) = Len(ipc[n]) + 1 /\ Len(ipc[n]) \in Nat
            /\ ipc'[n][Len(ipc[n]) + 1] = msg
            /\ \A i \in 1 .. Len(ipc[n]) : ipc'[n][i] = ipc[n][i]
<1>1. ipc[n] \in Seq(Message) /\ ipc \in [Networks -> Seq(Message)]
  BY DEF TypeOK
<1>2. UNCHANGED ipc \/ ipc' = [ipc EXCEPT ![n] = Append(ipc[n], msg)]
  BY DEF Send
<1>3. /\ Len(Append(ipc[n], msg)) = Len(ipc[n]) + 1 /\ Len(ipc[n]) \in Nat
      /\ Append(ipc[n], msg)[Len(ipc[n]) + 1] = msg
      /\ \A i \in 1 .. Len(ipc[n]) : Append(ipc[n], msg)[i] = ipc[n][i]
  BY <1>1, AppendProperties, LenProperties
<1> QED BY <1>1, <1>2, <1>3

(* A message sent about a block: the others keep their order before it.    *)
LEMMA SentStep ==
  ASSUME TypeOK, NEW n \in Networks, NEW k \in Blocks \ Sent(n),
         sent' = [sent EXCEPT ![n] = Append(@, k)]
  PROVE  /\ \A o \in Networks \ {n} : Sent(o)' = Sent(o) /\ sent'[o] = sent[o]
         /\ Sent(n)' = Sent(n) \cup {k}
         /\ \A j, l :
           Precedes(sent'[n], j, l) <=> Precedes(sent[n], j, l) \/ (j \in Sent(n) /\ l = k)
<1>1. /\ sent[n] \in Seq(Blocks) /\ Len(sent[n]) \in Nat
      /\ sent'[n] = Append(sent[n], k) /\ \A o \in Networks \ {n} : sent'[o] = sent[o]
  BY LenProperties DEF TypeOK
<1>2. /\ Len(sent'[n]) = Len(sent[n]) + 1 /\ sent'[n][Len(sent[n]) + 1] = k
      /\ \A i \in 1 .. Len(sent[n]) : sent'[n][i] = sent[n][i]
  BY <1>1, AppendProperties
<1>3. \A o \in Networks \ {n} : Sent(o)' = Sent(o) /\ sent'[o] = sent[o]
  BY <1>1 DEF Sent
<1>4. Sent(n)' = Sent(n) \cup {k}
  BY <1>1, <1>2 DEF Sent
<1>5. ASSUME NEW j, NEW l
      PROVE  Precedes(sent'[n], j, l)
               <=> Precedes(sent[n], j, l) \/ (j \in Sent(n) /\ l = k)
  <2>1. ASSUME Precedes(sent'[n], j, l)
        PROVE  Precedes(sent[n], j, l) \/ (j \in Sent(n) /\ l = k)
    <3>1. PICK p \in 1 .. Len(sent'[n]), q \in 1 .. Len(sent'[n]) :
                 p < q /\ sent'[n][p] = j /\ sent'[n][q] = l
      BY <2>1 DEF Precedes
    <3>2. p \in 1 .. Len(sent[n]) /\ sent[n][p] = j
      BY <1>1, <1>2, <3>1
    <3>3. CASE q = Len(sent[n]) + 1
      BY <1>2, <3>1, <3>2, <3>3 DEF Sent
    <3>4. CASE q \in 1 .. Len(sent[n])
      BY <1>2, <3>1, <3>2, <3>4 DEF Precedes
    <3> QED BY <1>1, <1>2, <3>1, <3>3, <3>4
  <2>2. ASSUME Precedes(sent[n], j, l) PROVE Precedes(sent'[n], j, l)
    <3>1. PICK p \in 1 .. Len(sent[n]), q \in 1 .. Len(sent[n]) :
                 p < q /\ sent[n][p] = j /\ sent[n][q] = l
      BY <2>2 DEF Precedes
    <3>2. p \in 1 .. Len(sent'[n]) /\ q \in 1 .. Len(sent'[n])
      BY <1>1, <1>2, <3>1
    <3> QED BY <1>2, <3>1, <3>2 DEF Precedes
  <2>3. ASSUME j \in Sent(n), l = k PROVE Precedes(sent'[n], j, l)
    <3>1. PICK p \in 1 .. Len(sent[n]) : sent[n][p] = j
      BY <2>3 DEF Sent
    <3>2. /\ p \in 1 .. Len(sent'[n]) /\ Len(sent[n]) + 1 \in 1 .. Len(sent'[n])
          /\ p < Len(sent[n]) + 1
      BY <1>1, <1>2, <3>1
    <3> QED BY <1>2, <2>3, <3>1, <3>2 DEF Precedes
  <2> QED BY <2>1, <2>2, <2>3
<1> QED BY <1>3, <1>4, <1>5

(* What was sent before another block was sent itself.                     *)
LEMMA BeforeSent ==
  ASSUME NEW n \in Networks, NEW j, NEW l, Precedes(sent[n], j, l)
  PROVE  j \in Sent(n) /\ l \in Sent(n)
BY DEF Precedes, Sent

(* The message of a block follows those of the blocks before it, and no    *)
(* browser has been told of it.                                            *)
LEMMA SendBlockStep ==
  ASSUME TypeOK, Notifications, NEW n \in Networks, ChildSendBlock(n)
  PROVE  Notifications'
<1>1. UNCHANGED <<told, stored>>
  BY DEF ChildSendBlock, explorerOnly, browsers
<1>2. PICK k \in stored[n] \ Sent(n) : /\ Send(n, [type |-> "block", block |-> k])
                                       /\ sent' = [sent EXCEPT ![n] = Append(@, k)]
  BY DEF ChildSendBlock
<1> DEFINE msg == [type |-> "block", block |-> k]
<1>3. k \in Blocks \ Sent(n) /\ msg \in Message /\ msg.type = "block" /\ msg.block = k
  BY <1>2 DEF TypeOK, Message, Blocks
<1>4. /\ \A o \in Networks \ {n} : Sent(o)' = Sent(o) /\ sent'[o] = sent[o]
      /\ Sent(n)' = Sent(n) \cup {k}
      /\ \A j, l :
           Precedes(sent'[n], j, l) <=> Precedes(sent[n], j, l) \/ (j \in Sent(n) /\ l = k)
  BY <1>2, <1>3, SentStep
<1> HIDE DEF msg
<1>5. \A o \in Networks : /\ Sent(o) \subseteq Sent(o)' /\ Sent(o)' \subseteq stored[o]
                          /\ \A j, l : Precedes(sent[o], j, l) => Precedes(sent'[o], j, l)
  BY <1>2, <1>4 DEF Notifications, Pipes
<1>6. \A o \in Networks : \A l \in Sent(o)' : ~Precedes(sent'[o], l, l)
  <2>1. \A l \in Sent(n) : ~Precedes(sent[n], l, l)
    BY DEF Notifications, Pipes
  <2>2. ~Precedes(sent[n], k, k)
    BY <1>3, BeforeSent
  <2>3. \A l \in Sent(n)' : ~Precedes(sent'[n], l, l)
    BY <1>3, <1>4, <2>1, <2>2
  <2> QED BY <1>4, <2>3 DEF Notifications, Pipes
<1>7. \A o \in Networks : \A j \in 1 .. Len(ipc'[o]) : BlockAt(o, j)' =>
        \/ j \in 1 .. Len(ipc[o]) /\ BlockAt(o, j) /\ ipc'[o][j] = ipc[o][j]
        \/ /\ o = n /\ ipc'[o][j].block = k /\ j \notin 1 .. Len(ipc[o])
           /\ \A i \in 1 .. Len(ipc'[o]) : i < j => i \in 1 .. Len(ipc[o])
  <2>1. \A o \in Networks : Len(ipc[o]) \in Nat
    BY LenProperties DEF TypeOK
  <2>2. CASE UNCHANGED ipc
    BY <2>2 DEF BlockAt
  <2>3. CASE /\ \A o \in Networks \ {n} : ipc'[o] = ipc[o]
             /\ Len(ipc'[n]) = Len(ipc[n]) + 1 /\ Len(ipc[n]) \in Nat
             /\ ipc'[n][Len(ipc[n]) + 1] = msg
             /\ \A i \in 1 .. Len(ipc[n]) : ipc'[n][i] = ipc[n][i]
    BY <1>3, <2>1, <2>3 DEF BlockAt
  <2>4. Send(n, msg)
    BY <1>2 DEF msg
  <2> QED BY <1>3, <2>2, <2>3, <2>4, SendStep
<1>8. Pipes'
  <2>1. \A o \in Networks : \A j \in 1 .. Len(ipc'[o]) :
          BlockAt(o, j)' => ipc'[o][j].block \in Sent(o)'
    BY <1>4, <1>5, <1>7 DEF Notifications, Pipes
  <2>2. ASSUME NEW o \in Networks, NEW i \in 1 .. Len(ipc'[o]), NEW j \in 1 .. Len(ipc'[o]),
               BlockAt(o, i)', BlockAt(o, j)', i < j
        PROVE  Precedes(sent'[o], ipc'[o][i].block, ipc'[o][j].block)
    <3>1. CASE j \in 1 .. Len(ipc[o]) /\ BlockAt(o, j) /\ ipc'[o][j] = ipc[o][j]
      <4>1. i \in 1 .. Len(ipc[o])
        BY <2>2, <3>1
      <4>2. BlockAt(o, i) /\ ipc'[o][i] = ipc[o][i]
        BY <1>7, <2>2, <4>1
      <4>3. Precedes(sent[o], ipc[o][i].block, ipc[o][j].block)
        BY <2>2, <3>1, <4>1, <4>2 DEF Notifications, Pipes
      <4> QED BY <1>5, <3>1, <4>2, <4>3
    <3>2. CASE /\ o = n /\ ipc'[o][j].block = k
               /\ \A m \in 1 .. Len(ipc'[o]) : m < j => m \in 1 .. Len(ipc[o])
      <4>1. i \in 1 .. Len(ipc[o])
        BY <2>2, <3>2
      <4>2. BlockAt(o, i) /\ ipc'[o][i] = ipc[o][i]
        BY <1>7, <2>2, <4>1
      <4>3. ipc[o][i].block \in Sent(o)
        BY <4>1, <4>2 DEF Notifications, Pipes
      <4> QED BY <1>4, <3>2, <4>2, <4>3
    <3> QED BY <1>7, <2>2, <3>1, <3>2
  <2> QED BY <1>1, <1>5, <1>6, <2>1, <2>2 DEF Pipes
<1>9. ToldBefore'
  <2> SUFFICES ASSUME NEW b \in Browsers, NEW o \in Networks, NEW i \in 1 .. Len(told[b][o])
               PROVE  /\ told[b][o][i] \in Sent(o)'
                      /\ \A j \in 1 .. Len(ipc'[o]) : BlockAt(o, j)' =>
                           Precedes(sent'[o], told[b][o][i], ipc'[o][j].block)
    BY <1>1 DEF ToldBefore
  <2>1. /\ told[b][o][i] \in Sent(o)
        /\ \A j \in 1 .. Len(ipc[o]) :
             BlockAt(o, j) => Precedes(sent[o], told[b][o][i], ipc[o][j].block)
    BY DEF Notifications, ToldBefore
  <2> QED BY <1>4, <1>5, <1>7, <2>1
<1>10. ToldAsSent'
  <2>1. \A b \in Browsers, o \in Networks :
          told'[b][o] = told[b][o] /\ stored'[o] = stored[o]
    BY <1>1
  <2>2. ASSUME NEW b \in Browsers, NEW o \in Networks, NEW i \in 1 .. Len(told[b][o]),
               NEW j \in 1 .. Len(told[b][o]), i < j
        PROVE  Precedes(sent'[o], told[b][o][i], told[b][o][j])
    BY <1>5, <2>2 DEF Notifications, ToldAsSent
  <2>3. \A b \in Browsers, o \in Networks : \A i \in 1 .. Len(told[b][o]) :
          told[b][o][i] \in stored[o]
    BY DEF Notifications, ToldAsSent
  <2> QED BY <1>6, <2>1, <2>2, <2>3 DEF ToldAsSent
<1> QED BY <1>8, <1>9, <1>10 DEF Notifications

(* Another message is about no block.                                      *)
LEMMA SendOtherStep ==
  ASSUME TypeOK, Notifications, NEW n \in Networks, ChildSendOther(n)
  PROVE  Notifications'
<1>1. PICK msg \in Message : Send(n, msg) /\ msg.type # "block"
  BY BoundAssumption DEF ChildSendOther, Message
<1>2. UNCHANGED <<told, stored, sent>>
  BY DEF ChildSendOther, explorerOnly, browsers, blocks
<1>3. \A o \in Networks : Len(ipc[o]) \in Nat
  BY LenProperties DEF TypeOK
<1>4. CASE UNCHANGED ipc
  BY <1>2, <1>4, UntoldStep
<1>5. CASE /\ \A o \in Networks \ {n} : ipc'[o] = ipc[o]
           /\ Len(ipc'[n]) = Len(ipc[n]) + 1 /\ Len(ipc[n]) \in Nat
           /\ ipc'[n][Len(ipc[n]) + 1] = msg
           /\ \A i \in 1 .. Len(ipc[n]) : ipc'[n][i] = ipc[n][i]
  <2>1. \A o \in Networks : \A j \in 1 .. Len(ipc'[o]) : BlockAt(o, j)' =>
          j \in 1 .. Len(ipc[o]) /\ BlockAt(o, j) /\ ipc'[o][j] = ipc[o][j]
    BY <1>1, <1>3, <1>5 DEF BlockAt
  <2>2. \A o \in Networks : Sent(o)' = Sent(o)
    BY <1>2 DEF Sent
  <2>3. Pipes'
    BY <1>2, <2>1, <2>2 DEF Notifications, Pipes
  <2>4. ToldBefore'
    BY <1>2, <2>1, <2>2 DEF Notifications, ToldBefore
  <2>5. ToldAsSent'
    BY <1>2, <2>2 DEF Notifications, ToldAsSent
  <2> QED BY <2>3, <2>4, <2>5 DEF Notifications
<1> QED BY <1>1, <1>4, <1>5, SendStep

(* A browser is told of the block at the head of a pipe, after all those   *)
(* before it.                                                              *)
LEMMA BroadcastStep ==
  ASSUME TypeOK, Notifications, NEW n \in Networks, ProcessSyncMessage(n)
  PROVE  Notifications'
<1> DEFINE msg == Head(ipc[n])
<1>1. /\ ipc[n] # <<>> /\ ipc' = [ipc EXCEPT ![n] = Tail(@)] /\ UNCHANGED <<stored, sent>>
      /\ IF msg.type = "block" THEN Broadcast(n, msg.block) ELSE UNCHANGED told
  BY DEF ProcessSyncMessage, blocks
<1>2. /\ msg = ipc[n][1] /\ Len(ipc'[n]) = Len(ipc[n]) - 1 /\ Len(ipc[n]) \in Nat \ {0}
      /\ \A i \in 1 .. Len(ipc'[n]) : ipc'[n][i] = ipc[n][i + 1]
      /\ \A o \in Networks \ {n} : ipc'[o] = ipc[o]
  BY <1>1, PipeHead DEF TypeOK
<1> HIDE DEF msg
<1>3. \A o \in Networks : Len(ipc[o]) \in Nat
  BY LenProperties DEF TypeOK
<1>4. \A o \in Networks : \A i \in 1 .. Len(ipc'[o]) : BlockAt(o, i)' =>
        \E k \in {i, i + 1} : k \in 1 .. Len(ipc[o]) /\ BlockAt(o, k)
                              /\ ipc'[o][i] = ipc[o][k] /\ (o = n <=> k = i + 1)
  BY <1>2, <1>3 DEF BlockAt
<1>5. \A o \in Networks : Sent(o)' = Sent(o)
  BY <1>1 DEF Sent
<1>6. Pipes'
  <2>1. \A o \in Networks : \A i \in 1 .. Len(ipc'[o]) :
          BlockAt(o, i)' => ipc'[o][i].block \in Sent(o)'
    BY <1>4, <1>5 DEF Notifications, Pipes
  <2>2. ASSUME NEW o \in Networks, NEW i \in 1 .. Len(ipc'[o]), NEW j \in 1 .. Len(ipc'[o]),
               BlockAt(o, i)', BlockAt(o, j)', i < j
        PROVE  Precedes(sent'[o], ipc'[o][i].block, ipc'[o][j].block)
    <3>1. PICK k \in {i, i + 1} : k \in 1 .. Len(ipc[o]) /\ BlockAt(o, k)
                                  /\ ipc'[o][i] = ipc[o][k] /\ (o = n <=> k = i + 1)
      BY <1>4, <2>2
    <3>2. PICK l \in {j, j + 1} : l \in 1 .. Len(ipc[o]) /\ BlockAt(o, l)
                                  /\ ipc'[o][j] = ipc[o][l] /\ (o = n <=> l = j + 1)
      BY <1>4, <2>2
    <3>3. k < l
      BY <2>2, <3>1, <3>2
    <3>4. Precedes(sent[o], ipc[o][k].block, ipc[o][l].block)
      BY <3>1, <3>2, <3>3 DEF Notifications, Pipes
    <3> QED BY <1>1, <3>1, <3>2, <3>4
  <2> QED BY <1>1, <1>5, <2>1, <2>2 DEF Notifications, Pipes
<1>7. \A b \in Browsers, o \in Networks : \A i \in 1 .. Len(told[b][o]) :
        /\ told[b][o][i] \in Sent(o)'
        /\ \A j \in 1 .. Len(ipc'[o]) :
             BlockAt(o, j)' => Precedes(sent'[o], told[b][o][i], ipc'[o][j].block)
  <2> SUFFICES ASSUME NEW b \in Browsers, NEW o \in Networks, NEW i \in 1 .. Len(told[b][o])
               PROVE  /\ told[b][o][i] \in Sent(o)'
                      /\ \A j \in 1 .. Len(ipc'[o]) : BlockAt(o, j)' =>
                           Precedes(sent'[o], told[b][o][i], ipc'[o][j].block)
    OBVIOUS
  <2>1. /\ told[b][o][i] \in Sent(o)
        /\ \A j \in 1 .. Len(ipc[o]) :
             BlockAt(o, j) => Precedes(sent[o], told[b][o][i], ipc[o][j].block)
    BY DEF Notifications, ToldBefore
  <2>2. \A j \in 1 .. Len(ipc'[o]) :
          BlockAt(o, j)' => Precedes(sent[o], told[b][o][i], ipc'[o][j].block)
    BY <1>4, <2>1
  <2> QED BY <1>1, <1>5, <2>1, <2>2
<1>8. CASE msg.type # "block"
  <2>1. UNCHANGED told
    BY <1>1, <1>8
  <2>2. ToldBefore'
    BY <1>7, <2>1 DEF ToldBefore
  <2>3. ToldAsSent'
    BY <1>1, <1>5, <2>1 DEF Notifications, ToldAsSent
  <2> QED BY <1>6, <2>2, <2>3 DEF Notifications
<1>9. CASE msg.type = "block"
  <2>1. /\ msg.block \in Sent(n)' /\ msg.block \in stored[n] /\ msg.block \in Blocks
        /\ \A j \in 1 .. Len(ipc'[n]) :
             BlockAt(n, j)' => Precedes(sent'[n], msg.block, ipc'[n][j].block)
        /\ \A b \in Browsers : \A i \in 1 .. Len(told[b][n]) :
             Precedes(sent'[n], told[b][n][i], msg.block)
    <3>1. BlockAt(n, 1) /\ 1 \in 1 .. Len(ipc[n])
      BY <1>2, <1>9 DEF BlockAt
    <3>2. \A j \in 1 .. Len(ipc'[n]) : BlockAt(n, j)' =>
            /\ j + 1 \in 1 .. Len(ipc[n]) /\ BlockAt(n, j + 1) /\ 1 < j + 1
            /\ ipc'[n][j] = ipc[n][j + 1]
      BY <1>2 DEF BlockAt
    <3>3. msg.block \in Sent(n) /\ msg.block \in stored[n]
      BY <1>2, <3>1 DEF Notifications, Pipes
    <3>4. \A j \in 1 .. Len(ipc'[n]) :
            BlockAt(n, j)' => Precedes(sent[n], msg.block, ipc'[n][j].block)
      BY <1>2, <3>1, <3>2 DEF Notifications, Pipes
    <3>5. \A b \in Browsers : \A i \in 1 .. Len(told[b][n]) :
            Precedes(sent[n], told[b][n][i], msg.block)
      BY <1>2, <3>1 DEF Notifications, ToldBefore
    <3> QED BY <1>1, <1>5, <3>3, <3>4, <3>5 DEF TypeOK
  <2>2. \A b \in Browsers :
          \/ told'[b] = told[b]
          \/ told'[b] = [told[b] EXCEPT ![n] = Append(@, msg.block)]
    BY <1>1, <1>9 DEF Broadcast
  <2>3. \A b \in Browsers, o \in Networks : \A i \in 1 .. Len(told'[b][o]) :
          \/ i \in 1 .. Len(told[b][o]) /\ told'[b][o][i] = told[b][o][i]
          \/ i = Len(told[b][o]) + 1 /\ o = n /\ told'[b][o][i] = msg.block
    <3> SUFFICES ASSUME NEW b \in Browsers, NEW o \in Networks,
                        NEW i \in 1 .. Len(told'[b][o])
                 PROVE  \/ i \in 1 .. Len(told[b][o]) /\ told'[b][o][i] = told[b][o][i]
                        \/ i = Len(told[b][o]) + 1 /\ o = n /\ told'[b][o][i] = msg.block
      OBVIOUS
    <3>1. /\ told[b] \in [Networks -> Seq(Blocks)] /\ told[b][n] \in Seq(Blocks)
          /\ Len(told[b][n]) \in Nat
      BY LenProperties DEF TypeOK
    <3>2. /\ Len(Append(told[b][n], msg.block)) = Len(told[b][n]) + 1
          /\ Append(told[b][n], msg.block)[Len(told[b][n]) + 1] = msg.block
          /\ \A k \in 1 .. Len(told[b][n]) :
               Append(told[b][n], msg.block)[k] = told[b][n][k]
      BY <2>1, <3>1, AppendProperties
    <3>3. CASE told'[b][o] = told[b][o]
      BY <3>3
    <3>4. CASE o = n /\ told'[b][n] = Append(told[b][n], msg.block)
      BY <3>1, <3>2, <3>4
    <3>5. told'[b][o] = told[b][o] \/ (o = n /\ told'[b][n] = Append(told[b][n], msg.block))
      BY <2>2, <3>1
    <3> QED BY <3>3, <3>4, <3>5
  <2>4. ToldBefore'
    <3> SUFFICES ASSUME NEW b \in Browsers, NEW o \in Networks,
                        NEW i \in 1 .. Len(told'[b][o])
                 PROVE  /\ told'[b][o][i] \in Sent(o)'
                        /\ \A j \in 1 .. Len(ipc'[o]) : BlockAt(o, j)' =>
                             Precedes(sent'[o], told'[b][o][i], ipc'[o][j].block)
      BY DEF ToldBefore
    <3> QED BY <1>7, <2>1, <2>3
  <2>5. ASSUME NEW b \in Browsers, NEW o \in Networks, NEW i \in 1 .. Len(told'[b][o])
        PROVE  told'[b][o][i] \in stored'[o]
    BY <1>1, <2>1, <2>3 DEF Notifications, ToldAsSent
  <2>6. ASSUME NEW b \in Browsers, NEW o \in Networks, NEW i \in 1 .. Len(told'[b][o]),
               NEW j \in 1 .. Len(told'[b][o]), i < j
        PROVE  Precedes(sent'[o], told'[b][o][i], told'[b][o][j])
    <3>1. Len(told[b][o]) \in Nat
      BY LenProperties DEF TypeOK
    <3>2. i \in 1 .. Len(told[b][o]) /\ told'[b][o][i] = told[b][o][i]
      BY <2>3, <2>6, <3>1
    <3>3. CASE j \in 1 .. Len(told[b][o]) /\ told'[b][o][j] = told[b][o][j]
      <4>1. Precedes(sent[o], told[b][o][i], told[b][o][j])
        BY <2>6, <3>2, <3>3 DEF Notifications, ToldAsSent
      <4> QED BY <1>1, <3>2, <3>3, <4>1
    <3>4. CASE o = n /\ told'[b][o][j] = msg.block
      BY <2>1, <3>2, <3>4
    <3> QED BY <2>3, <3>3, <3>4
  <2>7. ToldAsSent'
    <3>1. \A o \in Networks : \A k \in Sent(o)' : ~Precedes(sent'[o], k, k)
      BY <1>1, <1>5 DEF Notifications, ToldAsSent
    <3> QED BY <2>5, <2>6, <3>1 DEF ToldAsSent
  <2> QED BY <1>6, <2>4, <2>7 DEF Notifications
<1> QED BY <1>8, <1>9

(* The notifications stay in order, whatever step is taken.                *)
LEMMA NotificationsInv ==
  ASSUME TypeOK, Notifications, [Next]_vars
  PROVE  Notifications'
<1>0. CASE UNCHANGED vars
  BY <1>0, UntoldStep DEF vars, workers, browsers
<1>1. CASE StartExplorer
  BY <1>1, UntoldStep DEF StartExplorer, ConnectDatabase, BuildClient, InitializeListener,
                          StartFails, workers, browsers, blocks
<1>2. ASSUME NEW b \in Browsers, OnConnection(b) \/ OnClose(b) PROVE Notifications'
  BY <1>2, UntoldStep DEF OnConnection, OnClose, workers
<1>3. ASSUME NEW n \in Networks, ProcessSyncMessage(n) PROVE Notifications'
  BY <1>3, BroadcastStep
<1>4. CASE \/ HandleDisconnect \/ ConnectionLost \/ Signal \/ FailureTimer
           \/ DestroyConnections
  BY <1>4, UntoldStep DEF HandleDisconnect, ConnectionLost, Signal, FailureTimer,
                          DestroyConnections, workers, browsers
<1>5. CASE ServerClosed \/ ForcedExit \/ Kill
  BY <1>5, GoneStep DEF ServerClosed, ForcedExit, Kill
<1>6. ASSUME NEW n \in Networks, SyncProcess(n) PROVE Notifications'
  <2>1. CASE \/ ChildStart(n) \/ ChildStrands(n) \/ ChildFails(n)
             \/ ChildHandleDisconnect(n) \/ ChildSignalled(n) \/ ChildExit(n)
    BY <2>1, UntoldStep DEF ChildStart, ChildStrands, ChildFails, ChildHandleDisconnect,
                            ChildSignalled, ChildExit, explorerOnly, browsers, blocks
  <2> QED BY <1>6, <2>1, StoreStep, SendBlockStep, SendOtherStep DEF SyncProcess
<1>7. ASSUME NEW n \in Networks, Commit(n) PROVE Notifications'
  BY <1>7, UntoldStep DEF Commit, explorerOnly, workers, browsers
<1> QED BY <1>0, <1>1, <1>2, <1>3, <1>4, <1>5, <1>6, <1>7 DEF Next, Serve, Exit

-----------------------------------------------------------------------------
(* Theorems.                                                               *)

(* What is kept by every step of the processes.                            *)
THEOREM ProcessInvariant == Spec => []ProcessInv
<1>1. ProcessInv /\ [Next]_vars => ProcessInv'
  <2> SUFFICES ASSUME ProcessInv, [Next]_vars PROVE ProcessInv'
    OBVIOUS
  <2>1. TypeOK'
    BY NextType DEF ProcessInv
  <2>2. Lifecycle' /\ NoChildLeftBehind' /\ CodeTellsFailure'
    BY LifecycleInv DEF ProcessInv
  <2>3. Notifications'
    BY NotificationsInv DEF ProcessInv, Notifications
  <2> QED BY <2>1, <2>2, <2>3 DEF ProcessInv, Notifications
<1> QED BY <1>1, InitInv, PTL DEF Spec

(* The state of the explorer process and of its sync processes has its     *)
(* types.                                                                  *)
THEOREM ProcessTypeCorrect == Spec => []TypeOK
<1>1. ProcessInv => TypeOK
  BY DEF ProcessInv
<1> QED BY <1>1, ProcessInvariant, PTL

(* By either way out of main.ts every sync process is asked to end.        *)
THEOREM NoChildLeftBehindAlways == Spec => []NoChildLeftBehind
<1>1. ProcessInv => NoChildLeftBehind
  BY DEF ProcessInv
<1> QED BY <1>1, ProcessInvariant, PTL

(* The exit code tells a stop that was asked for from a failure.           *)
THEOREM CodeTellsFailureAlways == Spec => []CodeTellsFailure
<1>1. ProcessInv => CodeTellsFailure
  BY DEF ProcessInv
<1> QED BY <1>1, ProcessInvariant, PTL

(* A browser is told of the blocks of a network in the order their         *)
(* messages were sent, of each at most once and only when it has its row.  *)
THEOREM ToldAsSentAlways == Spec => []ToldAsSent
<1>1. ProcessInv => ToldAsSent
  BY DEF ProcessInv
<1> QED BY <1>1, ProcessInvariant, PTL

-----------------------------------------------------------------------------
(* The processes implement Supervision.                                    *)

(* Steps Supervision does not see.                                         *)
LEMMA UnseenStep ==
  ASSUME UNCHANGED <<parent, child, asked>>
  PROVE  UNCHANGED S!vars
BY DEF S!vars, Up, WorkerState

(* The states of a worker, while the explorer is up.                       *)
LEMMA WorkerWhileUp ==
  ASSUME TypeOK, Lifecycle, Up, NEW n \in Networks
  PROVE  WorkerState(n) = IF child[n] = "none" THEN "none"
                          ELSE IF child[n] = "exited" THEN "down" ELSE "up"
BY DEF Lifecycle, WorkerState

(* initializeListener is the one Fork.                                     *)
LEMMA ForkStep ==
  ASSUME TypeOK, Lifecycle, InitializeListener
  PROVE  [S!Next]_(S!vars)
<1> DEFINE Connected == {n \in Networks : client[n] = "connected"}
<1>1. /\ Up /\ Up' /\ UNCHANGED <<parent, asked>>
      /\ \A n \in Networks : child[n] = "none" /\ ~asked[n]
  BY DEF InitializeListener, Starting, Lifecycle, Up
<1>2. CASE UNCHANGED child
  BY <1>1, <1>2, UnseenStep
<1>3. CASE child' = [n \in Networks |-> IF client[n] = "connected" THEN "loading"
                                        ELSE child[n]]
  <2>1. \A n \in Networks : WorkerState(n) = "none"
    BY <1>1 DEF WorkerState
  <2>2. \A n \in Networks : WorkerState(n)' = IF n \in Connected THEN "up" ELSE "none"
    BY <1>1, <1>3 DEF WorkerState
  <2>3. S!Fork(Connected)
    BY <1>1, <2>1, <2>2 DEF S!Fork
  <2> QED BY <2>3 DEF S!Next
<1> QED BY <1>2, <1>3 DEF InitializeListener

(* Both ways out of main.ts are a Stop.                                    *)
LEMMA StopStep ==
  ASSUME TypeOK, Lifecycle, ServerClosed \/ ForcedExit
  PROVE  [S!Next]_(S!vars)
<1>1. /\ Up /\ parent' = "exited" /\ UNCHANGED child
      /\ asked' = [n \in Networks |-> child[n] # "none"]
  BY EndStep
<1>2. ~Up'
  BY <1>1 DEF Up
<1>3. \A n \in Networks :
        WorkerState(n)' = IF WorkerState(n) = "up" THEN "asked" ELSE WorkerState(n)
  BY <1>1, WorkerWhileUp DEF WorkerState
<1>4. S!Stop
  BY <1>1, <1>2, <1>3 DEF S!Stop
<1> QED BY <1>4 DEF S!Next

(* A sync process ends, or Supervision sees nothing.                       *)
LEMMA WorkerStep ==
  ASSUME TypeOK, NEW n \in Networks, SyncProcess(n)
  PROVE  [S!Next]_(S!vars)
<1>1. /\ UNCHANGED <<parent, asked>> /\ child[n] # "none" /\ child'[n] # "none"
      /\ \A o \in Networks \ {n} : child'[o] = child[o]
  BY ChildStep DEF explorerOnly
<1>2. \A o \in Networks \ {n} : WorkerState(o)' = WorkerState(o)
  BY <1>1 DEF WorkerState
<1>3. CASE child'[n] = "exited" <=> child[n] = "exited"
  <2>1. WorkerState(n)' = WorkerState(n)
    BY <1>1, <1>3 DEF WorkerState
  <2>2. \A o \in Networks : WorkerState(o)' = WorkerState(o)
    BY <1>2, <2>1
  <2> QED BY <1>1, <2>2 DEF S!vars, Up
<1>4. CASE child[n] # "exited" /\ child'[n] = "exited"
  <2>1. WorkerState(n) \in {"up", "asked"} /\ WorkerState(n)' = "down"
    BY <1>1, <1>4 DEF WorkerState
  <2>2. S!WorkerEnds(n)
    BY <1>1, <1>2, <2>1 DEF S!WorkerEnds, Up
  <2> QED BY <2>2 DEF S!Next
<1>5. child[n] = "exited" => child'[n] = "exited"
  BY DEF SyncProcess, ChildStart, ChildStore, ChildStrands, ChildSendBlock, ChildSendOther,
         ChildFails, ChildHandleDisconnect, ChildSignalled, ChildExit
<1> QED BY <1>3, <1>4, <1>5

(* The explorer with its sync processes implements Supervision: they are   *)
(* forked once, and a stop leaves none that was not asked to end.          *)
THEOREM ImplementsSupervision == Spec => SupervisionSpec
<1>1. Init => S!Init
  BY DEF Init, S!Init, Up, WorkerState
<1>2. ProcessInv /\ [Next]_vars => [S!Next]_(S!vars)
  <2> SUFFICES ASSUME ProcessInv, [Next]_vars PROVE [S!Next]_(S!vars)
    OBVIOUS
  <2>0. TypeOK /\ Lifecycle
    BY DEF ProcessInv
  <2>1. CASE UNCHANGED vars
    BY <2>1, UnseenStep DEF vars, workers
  <2>2. CASE ConnectDatabase \/ (\E n \in Networks : BuildClient(n)) \/ StartFails
    BY <2>2, UnseenStep DEF ConnectDatabase, BuildClient, StartFails, workers
  <2>3. CASE Serve
    BY <2>3, UnseenStep DEF Serve, OnConnection, OnClose, ProcessSyncMessage, workers
  <2>4. CASE \/ HandleDisconnect \/ ConnectionLost \/ Signal \/ FailureTimer
             \/ DestroyConnections
    BY <2>4, UnseenStep DEF HandleDisconnect, ConnectionLost, Signal, FailureTimer,
                            DestroyConnections, workers
  <2>5. CASE Kill
    <3>1. Up /\ ~Up' /\ UNCHANGED <<child, asked>>
      BY <2>5 DEF Kill, Gone, Up
    <3>2. \A n \in Networks : WorkerState(n)' = WorkerState(n)
      BY <3>1 DEF WorkerState
    <3>3. S!Kill
      BY <3>1, <3>2 DEF S!Kill
    <3> QED BY <3>3 DEF S!Next
  <2>6. ASSUME NEW n \in Networks, Commit(n) PROVE [S!Next]_(S!vars)
    BY <2>6, UnseenStep DEF Commit, explorerOnly, workers
  <2> QED BY <2>0, <2>1, <2>2, <2>3, <2>4, <2>5, <2>6, ForkStep, StopStep, WorkerStep
          DEF Next, StartExplorer, Exit
<1> QED BY <1>1, <1>2, ProcessInvariant, PTL DEF Spec, SupervisionSpec, S!Spec

=============================================================================
