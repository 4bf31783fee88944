------------------------ MODULE SharedDatabase_proofs ------------------------
(***************************************************************************)
(* Proofs about SharedDatabase, for every finite set of networks and of    *)
(* tasks and any number of blocks and of starts of the explorer: types,    *)
(* how often a block is stored and how often it is announced, what         *)
(* processes without an explorer store, and the counter of a network.      *)
(***************************************************************************)
EXTENDS SharedDatabase, FiniteSetTheorems, TLAPS

Storing == {"count", "insert", "counter", "announce", "leave"}

(* A process of an explorer that has not been started has done nothing.    *)
NotStarted ==
  \A p \in Processes : p[2] > generation =>
    status[p] = "off" /\ task[p] = [t \in Tasks |-> Idle]

(* blocksInProcess keeps the tasks of one process apart.                   *)
KeysHeld ==
  \A p \in Processes, t \in Tasks : task[p][t].pc \in Storing => task[p][t].blk \in busy[p]
TasksApart ==
  \A p \in Processes, t, u \in Tasks :
    t # u /\ task[p][t].pc \in Storing /\ task[p][u].pc \in Storing =>
      task[p][t].blk # task[p][u].blk

(* What is stored has a row.                                               *)
StoredHasRow ==
  /\ \A p \in Processes, t \in Tasks : task[p][t].pc \in {"counter", "announce"} =>
       rows[NetworkOf(p)][task[p][t].blk] > 0
  /\ \A p \in Processes : \A b \in orphaned[p] : rows[NetworkOf(p)][b] > 0

(* A task that is about to insert is the first of its process; and if its  *)
(* parent lives, only orphans have stored the block before.                *)
FirstOfProcess ==
  \A p \in Processes, t \in Tasks : task[p][t].pc = "insert" =>
    /\ task[p][t].blk \notin orphaned[p]
    /\ HasParent(p) => rows[NetworkOf(p)][task[p][t].blk] <=
                         Cardinality(Orphans(NetworkOf(p), task[p][t].blk))

(* A block on its way to a living parent has not been announced.           *)
NotYetAnnounced ==
  \A p \in Processes, t \in Tasks :
    HasParent(p) /\ task[p][t].pc \in {"insert", "counter", "announce"} =>
      announced[NetworkOf(p)][task[p][t].blk] = 0

SharedInv ==
  /\ TypeOK /\ NotStarted /\ KeysHeld /\ TasksApart /\ StoredHasRow /\ FirstOfProcess
  /\ BoundedDuplicates /\ NotYetAnnounced /\ AnnouncedOnce

-----------------------------------------------------------------------------
(* Finite sets of processes.                                               *)

(* The orphans that have stored a block are finitely many.                 *)
LEMMA OrphansFinite ==
  ASSUME NEW n, NEW b
  PROVE  IsFiniteSet(Orphans(n, b)) /\ Cardinality(Orphans(n, b)) \in Nat
<1>1. IsFiniteSet(1 .. Generations)
  BY FS_Interval, BoundAssumption
<1>2. IsFiniteSet(Processes)
  BY <1>1, FS_Product, NetworksAssumption DEF Processes
<1>3. Orphans(n, b) \in SUBSET Processes
  BY DEF Orphans
<1> QED BY <1>2, <1>3, FS_Subset, FS_CardinalityType

(* A process is a network and the number of a start.                       *)
LEMMA ProcessParts ==
  ASSUME NEW p \in Processes
  PROVE  NetworkOf(p) \in Networks /\ p[2] \in 1 .. Generations /\ p = <<NetworkOf(p), p[2]>>
BY DEF Processes, NetworkOf

(* One process of a network at most has a parent.                          *)
LEMMA OneParent ==
  ASSUME NEW p \in Processes, NEW q \in Processes, HasParent(p), HasParent(q),
         NetworkOf(p) = NetworkOf(q)
  PROVE  p = q
BY ProcessParts DEF HasParent

-----------------------------------------------------------------------------
(* Types.                                                                  *)

(* The initial states.                                                     *)
LEMMA InitType == Init => TypeOK
BY BoundAssumption DEF Init, TypeOK, Task, Idle, Labels, Blocks

(* A task takes any value of its type.                                     *)
LEMMA TaskType ==
  ASSUME TypeOK, NEW p \in Processes, NEW t \in Tasks, NEW r \in Task,
         task' = [task EXCEPT ![p][t] = r]
  PROVE  task' \in [Processes -> [Tasks -> Task]]
BY DEF TypeOK

(* A task moves to another label.                                          *)
LEMMA GotoType ==
  ASSUME TypeOK, NEW p \in Processes, NEW t \in Tasks, NEW label \in Labels,
         Goto(p, t, label)
  PROVE  task' \in [Processes -> [Tasks -> Task]]
<1>1. task[p][t] \in Task
  BY DEF TypeOK
<1>2. [task[p][t] EXCEPT !.pc = label] \in Task
  BY <1>1 DEF Task
<1>3. task' = [task EXCEPT ![p][t] = [task[p][t] EXCEPT !.pc = label]]
  BY DEF Goto
<1> QED BY <1>2, <1>3, TaskType

(* Every step keeps the types.                                             *)
LEMMA NextType == TypeOK /\ [Next]_vars => TypeOK'
<1> SUFFICES ASSUME TypeOK, [Next]_vars PROVE TypeOK'
  OBVIOUS
<1> USE BoundAssumption
<1>1. CASE Commit
  BY <1>1 DEF Commit, TypeOK, database, parents
<1>2. ASSUME NEW p \in Processes, NEW t \in Tasks, StartRound(p, t) PROVE TypeOK'
  <2> DEFINE r == [Idle EXCEPT !.pc = "load", !.latest = height - 1, !.todo = 0 .. height - 1]
  <2>1. height - 1 \in Blocks /\ 0 .. height - 1 \subseteq Blocks
    BY DEF TypeOK, Blocks
  <2>2. Idle \in Task
    BY DEF Idle, Task, Labels, Blocks
  <2>3. r \in Task
    BY <2>1, <2>2 DEF Task, Labels, Idle
  <2>4. task' \in [Processes -> [Tasks -> Task]]
    BY <1>2, <2>3, TaskType DEF StartRound
  <2> QED BY <1>2, <2>4 DEF StartRound, TypeOK, database, parents
<1>3. ASSUME NEW p \in Processes, NEW t \in Tasks, LoadBlock(p, t) PROVE TypeOK'
  <2>0. task[p][t] \in Task
    BY DEF TypeOK
  <2>1. PICK b \in task[p][t].todo :
          task' = [task EXCEPT ![p][t].todo = @ \ {b}, ![p][t].blk = b,
                     ![p][t].pc = IF IsBlockAvailableInDB(b) THEN @ ELSE "enter"]
    BY <1>3 DEF LoadBlock
  <2> DEFINE r == [task[p][t] EXCEPT !.todo = @ \ {b}, !.blk = b,
                     !.pc = IF IsBlockAvailableInDB(b) THEN @ ELSE "enter"]
  <2>2. r \in Task
    BY <2>0 DEF Task, Labels
  <2>3. task' = [task EXCEPT ![p][t] = r]
    BY <2>1
  <2>4. task' \in [Processes -> [Tasks -> Task]]
    BY <2>2, <2>3, TaskType
  <2> QED BY <1>3, <2>4 DEF LoadBlock, TypeOK, database, parents
<1>4. ASSUME NEW p \in Processes, NEW t \in Tasks, FindMissing(p, t) PROVE TypeOK'
  <2>1. {b \in 0 .. task[p][t].latest : rows[NetworkOf(p)][b] = 0} \subseteq Blocks
    BY DEF TypeOK, Task, Blocks
  <2> DEFINE r == [task[p][t] EXCEPT !.pc = "missing", !.loop = "missing",
                !.todo = {b \in 0 .. task[p][t].latest : rows[NetworkOf(p)][b] = 0}]
  <2>2. task[p][t] \in Task
    BY DEF TypeOK
  <2>3. r \in Task
    BY <2>1, <2>2 DEF Task, Labels
  <2>4. task' = [task EXCEPT ![p][t] = r]
    BY <1>4 DEF FindMissing
  <2>5. task' \in [Processes -> [Tasks -> Task]]
    BY <2>3, <2>4, TaskType
  <2> QED BY <1>4, <2>5 DEF FindMissing, TypeOK, database, parents
<1>5. ASSUME NEW p \in Processes, NEW t \in Tasks, NextMissing(p, t) PROVE TypeOK'
  <2>0. task[p][t] \in Task
    BY DEF TypeOK
  <2>1. PICK b \in task[p][t].todo :
          task' = [task EXCEPT ![p][t].todo = @ \ {b}, ![p][t].blk = b, ![p][t].pc = "enter"]
    BY <1>5 DEF NextMissing
  <2> DEFINE r == [task[p][t] EXCEPT !.todo = @ \ {b}, !.blk = b, !.pc = "enter"]
  <2>2. r \in Task
    BY <2>0 DEF Task, Labels
  <2>3. task' = [task EXCEPT ![p][t] = r]
    BY <2>1
  <2>4. task' \in [Processes -> [Tasks -> Task]]
    BY <2>2, <2>3, TaskType
  <2> QED BY <1>5, <2>4 DEF NextMissing, TypeOK, database, parents
<1>6. ASSUME NEW p \in Processes, NEW t \in Tasks, FinishRound(p, t) PROVE TypeOK'
  <2>1. Idle \in Task
    BY DEF Idle, Task, Labels, Blocks
  <2>2. task' \in [Processes -> [Tasks -> Task]]
    BY <1>6, <2>1, TaskType DEF FinishRound
  <2> QED BY <1>6, <2>2 DEF FinishRound, TypeOK, database, parents
<1>7. ASSUME NEW p \in Processes, NEW t \in Tasks, Enter(p, t) PROVE TypeOK'
  <2>1. task[p][t] \in Task
    BY DEF TypeOK
  <2>2. busy' \in [Processes -> SUBSET Blocks]
    <3>1. task[p][t].blk \in Blocks
      BY <2>1 DEF Task
    <3>2. \/ busy' = busy
          \/ busy' = [busy EXCEPT ![p] = @ \cup {task[p][t].blk}]
      BY <1>7 DEF Enter
    <3>3. busy \in [Processes -> SUBSET Blocks]
      BY DEF TypeOK
    <3> QED BY <3>1, <3>2, <3>3
  <2>3. task[p][t].loop \in Labels /\ "count" \in Labels
    BY <2>1 DEF Task, Labels
  <2>4. task' \in [Processes -> [Tasks -> Task]]
    BY <1>7, <2>3, GotoType DEF Enter
  <2> QED BY <1>7, <2>2, <2>4 DEF Enter, TypeOK, database, parents
<1>8. ASSUME NEW p \in Processes, NEW t \in Tasks, Count(p, t) PROVE TypeOK'
  <2>1. task' \in [Processes -> [Tasks -> Task]]
    BY <1>8, GotoType DEF Count, Labels
  <2> QED BY <1>8, <2>1 DEF Count, TypeOK, database, parents
<1>9. ASSUME NEW p \in Processes, NEW t \in Tasks, InsertRow(p, t)
      PROVE  /\ rows' \in [Networks -> [Blocks -> Nat]]
             /\ orphaned' \in [Processes -> SUBSET Blocks]
  BY <1>9, ProcessParts DEF InsertRow, TypeOK, Task
<1>10. ASSUME NEW p \in Processes, CountUp(p) PROVE counter' \in [Networks -> Nat]
  BY <1>10, ProcessParts DEF CountUp, TypeOK
<1>11. ASSUME NEW p \in Processes, NEW t \in Tasks, Insert(p, t) PROVE TypeOK'
  <2>1. task' \in [Processes -> [Tasks -> Task]]
    BY <1>11, GotoType DEF Insert, Labels
  <2> QED BY <1>11, <1>9, <2>1 DEF Insert, TypeOK, parents
<1>12. ASSUME NEW p \in Processes, NEW t \in Tasks, Counter(p, t) PROVE TypeOK'
  <2>1. task' \in [Processes -> [Tasks -> Task]]
    BY <1>12, GotoType DEF Counter, Labels
  <2> QED BY <1>12, <1>10, <2>1 DEF Counter, TypeOK, parents
<1>13. ASSUME NEW p \in Processes, NEW t \in Tasks, Finish(p, t) PROVE TypeOK'
  <2>1. task[p][t] \in Task
    BY DEF TypeOK
  <2>2. /\ announced' \in [Networks -> [Blocks -> Nat]]
        /\ status' \in [Processes -> {"off", "running", "closing", "exited"}]
    <3>1. task[p][t].blk \in Blocks /\ NetworkOf(p) \in Networks
      BY <2>1, ProcessParts DEF Task
    <3>2. CASE UNCHANGED <<announced, status>>
      BY <3>2 DEF TypeOK
    <3>3. CASE Send(p, task[p][t].blk)
      <4>1. CASE HasParent(p)
        <5>1. /\ announced' = [announced EXCEPT ![NetworkOf(p)][task[p][t].blk] = @ + 1]
              /\ status' = status
          BY <3>3, <4>1 DEF Send
        <5> QED BY <3>1, <5>1 DEF TypeOK
      <4>2. CASE ~HasParent(p)
        BY <3>3, <4>2 DEF Send, TypeOK
      <4> QED BY <4>1, <4>2
    <3> QED BY <1>13, <3>2, <3>3 DEF Finish
  <2>3. task[p][t].loop \in Labels
    BY <2>1 DEF Task, Labels
  <2>4. task' \in [Processes -> [Tasks -> Task]]
    BY <1>13, <2>3, GotoType DEF Finish
  <2>5. busy' \in [Processes -> SUBSET Blocks]
    BY <1>13 DEF Finish, TypeOK
  <2> QED BY <1>13, <2>2, <2>4, <2>5 DEF Finish, TypeOK, database
<1>14. CASE StopExplorer
  BY <1>14 DEF StopExplorer, TypeOK, database
<1>15. CASE ExplorerGone
  BY <1>15 DEF ExplorerGone, TypeOK, database
<1>16. CASE StartExplorer
  <2>1. generation' \in 1 .. Generations
    BY <1>16 DEF StartExplorer, TypeOK
  <2>2. status' \in [Processes -> {"off", "running", "closing", "exited"}]
    BY <1>16 DEF StartExplorer, TypeOK
  <2> QED BY <1>16, <2>1, <2>2 DEF StartExplorer, TypeOK, database
<1>17. ASSUME NEW p \in Processes, ShutDown(p) PROVE TypeOK'
  BY <1>17 DEF ShutDown, TypeOK, database, parents
<1>18. ASSUME NEW p \in Processes, Exit(p) PROVE TypeOK'
  <2>1. Idle \in Task
    BY DEF Idle, Task, Labels, Blocks
  <2>2. task' \in [Processes -> [Tasks -> Task]] /\ busy' \in [Processes -> SUBSET Blocks]
    BY <1>18, <2>1 DEF Exit, TypeOK
  <2>3. /\ rows' \in [Networks -> [Blocks -> Nat]] /\ counter' \in [Networks -> Nat]
        /\ orphaned' \in [Processes -> SUBSET Blocks]
    BY <1>18, <1>9, <1>10 DEF Exit, TypeOK, database
  <2>4. status' \in [Processes -> {"off", "running", "closing", "exited"}]
    BY <1>18 DEF Exit, TypeOK
  <2> QED BY <1>18, <2>2, <2>3, <2>4 DEF Exit, TypeOK, parents
<1>19. CASE UNCHANGED vars
  BY <1>19 DEF vars, TypeOK, database, parents
<1> QED
  BY <1>1, <1>2, <1>3, <1>4, <1>5, <1>6, <1>7, <1>8, <1>11, <1>12, <1>13, <1>14, <1>15, <1>16,
     <1>17, <1>18, <1>19 DEF Next, SyncBlocks, ProcessBlockEvent

(* THEOREM 1.  Every variable keeps its type.                              *)
THEOREM SharedTypeCorrect == Spec => []TypeOK
BY InitType, NextType, PTL DEF Spec

-----------------------------------------------------------------------------
(* Keys of blocks.                                                         *)

(* Tasks that stay with their block, or are not at one, stay apart.        *)
LEMMA KeysStep ==
  ASSUME KeysHeld, TasksApart, busy' = busy,
         \A p \in Processes, t \in Tasks :
           \/ task'[p][t].pc \notin Storing
           \/ task[p][t].pc \in Storing /\ task'[p][t].blk = task[p][t].blk
  PROVE  KeysHeld' /\ TasksApart'
<1>1. KeysHeld'
  BY DEF KeysHeld
<1>2. TasksApart'
  BY DEF TasksApart
<1> QED BY <1>1, <1>2

-----------------------------------------------------------------------------
(* Rows and announcements.                                                 *)

(* What an insert does.                                                    *)
LEMMA RowAdded ==
  ASSUME TypeOK, NEW p \in Processes, NEW t \in Tasks, InsertRow(p, t)
  PROVE  /\ \A n \in Networks, b \in Blocks :
              rows'[n][b] = IF n = NetworkOf(p) /\ b = task[p][t].blk THEN rows[n][b] + 1
                            ELSE rows[n][b]
         /\ \A q \in Processes :
              orphaned'[q] = IF q = p /\ ~HasParent(p)
                             THEN orphaned[q] \cup {task[p][t].blk} ELSE orphaned[q]
<1>1. task[p][t].blk \in Blocks /\ NetworkOf(p) \in Networks
  BY ProcessParts DEF TypeOK, Task
<1>2. /\ rows' = [rows EXCEPT ![NetworkOf(p)][task[p][t].blk] = @ + 1]
      /\ orphaned' = [orphaned EXCEPT ![p] = IF HasParent(p) THEN @
                                              ELSE @ \cup {task[p][t].blk}]
  BY DEF InsertRow
<1>3. \A n \in Networks, b \in Blocks :
        rows'[n][b] = IF n = NetworkOf(p) /\ b = task[p][t].blk THEN rows[n][b] + 1
                      ELSE rows[n][b]
  BY <1>1, <1>2 DEF TypeOK
<1>4. \A q \in Processes :
        orphaned'[q] = IF q = p /\ ~HasParent(p)
                       THEN orphaned[q] \cup {task[p][t].blk} ELSE orphaned[q]
  BY <1>2 DEF TypeOK
<1> QED BY <1>3, <1>4

(* An orphan that inserts a block it had not is one more.                  *)
LEMMA OrphanAdded ==
  ASSUME TypeOK, NEW p \in Processes, NEW t \in Tasks, InsertRow(p, t),
         task[p][t].blk \notin orphaned[p], NEW n \in Networks, NEW b \in Blocks
  PROVE  Cardinality(Orphans(n, b)') =
           IF n = NetworkOf(p) /\ b = task[p][t].blk /\ ~HasParent(p)
           THEN Cardinality(Orphans(n, b)) + 1 ELSE Cardinality(Orphans(n, b))
<1> DEFINE Gains == n = NetworkOf(p) /\ b = task[p][t].blk /\ ~HasParent(p)
<1>0. \A q \in Processes :
        orphaned'[q] = IF q = p /\ ~HasParent(p)
                       THEN orphaned[q] \cup {task[p][t].blk} ELSE orphaned[q]
  BY RowAdded
<1>1. CASE Gains
  <2>1. Orphans(n, b)' = {q \in Processes : NetworkOf(q) = n /\ b \in orphaned'[q]}
    BY DEF Orphans, NetworkOf
  <2>2. \A q \in Processes : b \in orphaned'[q] <=> b \in orphaned[q] \/ q = p
    BY <1>0, <1>1
  <2>3. Orphans(n, b)' = Orphans(n, b) \cup {p}
    BY <1>1, <2>1, <2>2 DEF Orphans
  <2>4. p \notin Orphans(n, b)
    BY <1>1 DEF Orphans
  <2>5. IsFiniteSet(Orphans(n, b))
    BY OrphansFinite
  <2>6. Cardinality(Orphans(n, b) \cup {p}) = Cardinality(Orphans(n, b)) + 1
    BY <2>4, <2>5, FS_AddElement
  <2> QED BY <1>1, <2>3, <2>6
<1>2. CASE ~Gains
  <2>1. Orphans(n, b)' = {q \in Processes : NetworkOf(q) = n /\ b \in orphaned'[q]}
    BY DEF Orphans, NetworkOf
  <2>2. \A q \in Processes : NetworkOf(q) = n => (b \in orphaned'[q] <=> b \in orphaned[q])
    BY <1>0, <1>2
  <2>3. Orphans(n, b)' = Orphans(n, b)
    BY <2>1, <2>2 DEF Orphans
  <2> QED BY <1>2, <2>3
<1> QED BY <1>1, <1>2

RowInv == StoredHasRow /\ FirstOfProcess /\ BoundedDuplicates /\ NotYetAnnounced /\ AnnouncedOnce

(* A step without an insert and without a message.                         *)
LEMMA QuietStep ==
  ASSUME SharedInv, TypeOK', UNCHANGED <<rows, orphaned, announced>>,
         \A p \in Processes, t \in Tasks :
           HasParent(p)' => HasParent(p) \/ task'[p][t].pc = "off",
         \A p \in Processes, t \in Tasks :
           \/ task'[p][t].pc \notin {"insert", "counter", "announce"}
           \/ task'[p][t].pc = task[p][t].pc /\ task'[p][t].blk = task[p][t].blk
           \/ /\ task[p][t].pc = "counter" /\ task'[p][t].pc = "announce"
              /\ task'[p][t].blk = task[p][t].blk
           \/ /\ task'[p][t].pc = "insert"
              /\ rows[NetworkOf(p)][task'[p][t].blk] = 0
  PROVE  RowInv'
<1>1. \A n, b : Orphans(n, b)' = Orphans(n, b)
  BY DEF Orphans, NetworkOf
<1>2. \A p \in Processes, t \in Tasks :
        task'[p][t].blk \in Blocks /\ NetworkOf(p) \in Networks
  BY ProcessParts DEF TypeOK, Task
<1>3. BoundedDuplicates' /\ AnnouncedOnce'
  BY <1>1 DEF SharedInv, BoundedDuplicates, AnnouncedOnce
<1>4. StoredHasRow'
  BY DEF SharedInv, StoredHasRow, NetworkOf
<1>5. FirstOfProcess'
  <2> SUFFICES ASSUME NEW p \in Processes, NEW t \in Tasks, task'[p][t].pc = "insert"
               PROVE  /\ task'[p][t].blk \notin orphaned[p]
                      /\ HasParent(p)' => rows[NetworkOf(p)][task'[p][t].blk] <=
                           Cardinality(Orphans(NetworkOf(p), task'[p][t].blk))
    BY <1>1 DEF FirstOfProcess, NetworkOf
  <2>1. CASE task'[p][t].pc = task[p][t].pc /\ task'[p][t].blk = task[p][t].blk
    BY <2>1 DEF SharedInv, FirstOfProcess
  <2>2. CASE rows[NetworkOf(p)][task'[p][t].blk] = 0
    BY <1>2, <2>2, OrphansFinite DEF SharedInv, StoredHasRow
  <2> QED BY <2>1, <2>2
<1>6. NotYetAnnounced'
  <2> SUFFICES ASSUME NEW p \in Processes, NEW t \in Tasks, HasParent(p)',
                      task'[p][t].pc \in {"insert", "counter", "announce"}
               PROVE  announced[NetworkOf(p)][task'[p][t].blk] = 0
    BY DEF NotYetAnnounced, NetworkOf
  <2>1. HasParent(p)
    OBVIOUS
  <2>2. CASE /\ task[p][t].pc \in {"insert", "counter", "announce"}
             /\ task'[p][t].blk = task[p][t].blk
    BY <2>1, <2>2 DEF SharedInv, NotYetAnnounced
  <2>3. CASE rows[NetworkOf(p)][task'[p][t].blk] = 0
    <3>1. announced[NetworkOf(p)][task'[p][t].blk] \in Nat
      BY <1>2 DEF SharedInv, TypeOK
    <3>2. ~(announced[NetworkOf(p)][task'[p][t].blk] > 0)
      BY <1>2, <2>3 DEF SharedInv, AnnouncedOnce
    <3> QED BY <3>1, <3>2
  <2> QED BY <2>2, <2>3
<1> QED BY <1>3, <1>4, <1>5, <1>6 DEF RowInv

(* A step with an insert, after which its task is at the counter, or gone. *)
LEMMA StoreStep ==
  ASSUME SharedInv, TypeOK', NEW p \in Processes, NEW t \in Tasks, InsertRow(p, t),
         task[p][t].pc = "insert", UNCHANGED parents,
         \A q \in Processes, u \in Tasks :
           \/ task'[q][u].pc = "off"
           \/ /\ task'[q][u].blk = task[q][u].blk
              /\ task'[q][u].pc = IF q = p /\ u = t THEN "counter" ELSE task[q][u].pc
  PROVE  RowInv'
<1> DEFINE n == NetworkOf(p)
           b == task[p][t].blk
<1>1. n \in Networks /\ b \in Blocks
  BY ProcessParts DEF SharedInv, TypeOK, Task
<1>2. b \notin orphaned[p]
  BY DEF SharedInv, FirstOfProcess
<1>3. \A m \in Networks, c \in Blocks :
        rows'[m][c] = IF m = n /\ c = b THEN rows[m][c] + 1 ELSE rows[m][c]
  BY RowAdded DEF SharedInv
<1>4. \A m \in Networks, c \in Blocks :
        Cardinality(Orphans(m, c)') =
          IF m = n /\ c = b /\ ~HasParent(p)
          THEN Cardinality(Orphans(m, c)) + 1 ELSE Cardinality(Orphans(m, c))
  BY <1>2, OrphanAdded DEF SharedInv
<1>5. \A q \in Processes :
        orphaned'[q] = IF q = p /\ ~HasParent(p) THEN orphaned[q] \cup {b} ELSE orphaned[q]
  BY RowAdded DEF SharedInv
<1>6. \A q \in Processes : NetworkOf(q) \in Networks /\ (HasParent(q)' <=> HasParent(q))
  BY ProcessParts DEF HasParent, parents
<1>7. \A q \in Processes, u \in Tasks : task[q][u].blk \in Blocks
  BY DEF SharedInv, TypeOK, Task
<1>8. /\ \A m \in Networks, c \in Blocks : rows[m][c] \in Nat
      /\ \A m, c : Cardinality(Orphans(m, c)) \in Nat
      /\ \A m \in Networks, c \in Blocks : announced[m][c] \in Nat
  BY OrphansFinite DEF SharedInv, TypeOK
<1>9. BoundedDuplicates'
  <2> SUFFICES ASSUME NEW m \in Networks, NEW c \in Blocks
               PROVE  rows'[m][c] <= 1 + Cardinality(Orphans(m, c)')
    BY DEF BoundedDuplicates
  <2>1. rows[m][c] <= 1 + Cardinality(Orphans(m, c))
    BY DEF SharedInv, BoundedDuplicates
  <2>2. CASE m = n /\ c = b /\ HasParent(p)
    <3>1. rows[m][c] <= Cardinality(Orphans(m, c))
      BY <2>2 DEF SharedInv, FirstOfProcess
    <3> QED BY <1>3, <1>4, <1>8, <2>2, <3>1
  <2>3. CASE ~(m = n /\ c = b /\ HasParent(p))
    BY <1>3, <1>4, <1>8, <2>1, <2>3
  <2> QED BY <2>2, <2>3
<1>10. AnnouncedOnce'
  <2>1. announced' = announced
    BY DEF parents
  <2> QED BY <1>3, <1>8, <2>1 DEF SharedInv, AnnouncedOnce
<1>11. StoredHasRow'
  <2>1. ASSUME NEW q \in Processes, NEW u \in Tasks, task'[q][u].pc \in {"counter", "announce"}
        PROVE  rows'[NetworkOf(q)][task'[q][u].blk] > 0
    <3>1. task'[q][u].blk = task[q][u].blk
      BY <2>1
    <3>2. CASE q = p /\ u = t
      BY <1>1, <1>3, <1>8, <3>1, <3>2
    <3>3. CASE ~(q = p /\ u = t)
      <4>1. rows[NetworkOf(q)][task[q][u].blk] > 0
        BY <2>1, <3>3 DEF SharedInv, StoredHasRow
      <4> QED BY <1>3, <1>6, <1>7, <1>8, <3>1, <4>1
    <3> QED BY <3>2, <3>3
  <2>2. ASSUME NEW q \in Processes, NEW c \in orphaned'[q]
        PROVE  rows'[NetworkOf(q)][c] > 0
    <3>1. c \in Blocks
      BY <2>2 DEF TypeOK
    <3>2. CASE q = p /\ c = b
      BY <1>1, <1>3, <1>8, <3>2
    <3>3. CASE ~(q = p /\ c = b)
      <4>1. c \in orphaned[q]
        BY <1>5, <3>3
      <4>2. rows[NetworkOf(q)][c] > 0
        BY <4>1 DEF SharedInv, StoredHasRow
      <4> QED BY <1>3, <1>6, <1>8, <3>1, <4>2
    <3> QED BY <3>2, <3>3
  <2> QED BY <2>1, <2>2 DEF StoredHasRow, NetworkOf
<1>12. \A q \in Processes, u \in Tasks :
         task'[q][u].pc = "insert" =>
           /\ task[q][u].pc = "insert" /\ task'[q][u].blk = task[q][u].blk
           /\ ~(q = p /\ u = t)
           /\ q = p => task[q][u].blk # b
  BY DEF SharedInv, TasksApart, Storing
<1>13. FirstOfProcess'
  <2> SUFFICES ASSUME NEW q \in Processes, NEW u \in Tasks, task'[q][u].pc = "insert"
               PROVE  /\ task[q][u].blk \notin orphaned'[q]
                      /\ HasParent(q) => rows'[NetworkOf(q)][task[q][u].blk] <=
                           Cardinality(Orphans(NetworkOf(q), task[q][u].blk)')
    BY <1>6, <1>12 DEF FirstOfProcess, NetworkOf
  <2>1. /\ task[q][u].blk \notin orphaned[q]
        /\ HasParent(q) => rows[NetworkOf(q)][task[q][u].blk] <=
             Cardinality(Orphans(NetworkOf(q), task[q][u].blk))
    BY <1>12 DEF SharedInv, FirstOfProcess
  <2>2. task[q][u].blk \notin orphaned'[q]
    <3>1. q = p => task[q][u].blk # b
      BY <1>12
    <3>2. CASE q = p /\ ~HasParent(p)
      BY <1>5, <2>1, <3>1, <3>2
    <3>3. CASE ~(q = p /\ ~HasParent(p))
      BY <1>5, <2>1, <3>3
    <3> QED BY <3>2, <3>3
  <2>3. CASE HasParent(q) /\ NetworkOf(q) = n /\ task[q][u].blk = b
    <3>1. ~HasParent(p)
      BY <1>12, <2>3, OneParent
    <3> QED BY <1>3, <1>4, <1>6, <1>7, <1>8, <2>1, <2>2, <2>3, <3>1
  <2>4. CASE HasParent(q) /\ ~(NetworkOf(q) = n /\ task[q][u].blk = b)
    BY <1>3, <1>4, <1>6, <1>7, <2>1, <2>2, <2>4
  <2> QED BY <2>2, <2>3, <2>4
<1>14. NotYetAnnounced'
  <2> SUFFICES ASSUME NEW q \in Processes, NEW u \in Tasks, HasParent(q),
                      task'[q][u].pc \in {"insert", "counter", "announce"}
               PROVE  announced[NetworkOf(q)][task'[q][u].blk] = 0
    BY <1>6 DEF NotYetAnnounced, NetworkOf, parents
  <2>1. /\ task'[q][u].blk = task[q][u].blk
        /\ task[q][u].pc \in {"insert", "counter", "announce"}
    OBVIOUS
  <2> QED BY <2>1 DEF SharedInv, NotYetAnnounced
<1> QED BY <1>9, <1>10, <1>11, <1>13, <1>14 DEF RowInv

-----------------------------------------------------------------------------
(* The invariant.                                                          *)

(* The initial states.                                                     *)
LEMMA InitInv == Init => SharedInv
<1> SUFFICES ASSUME Init PROVE SharedInv
  OBVIOUS
<1>1. TypeOK
  BY InitType
<1>2. \A p \in Processes : NetworkOf(p) \in Networks /\ p[2] \in 1 .. Generations
  BY ProcessParts
<1>3. /\ \A p \in Processes, t \in Tasks : task[p][t] = Idle
      /\ \A p \in Processes : orphaned[p] = {}
      /\ \A n \in Networks, b \in Blocks : rows[n][b] = 0 /\ announced[n][b] = 0
  BY DEF Init
<1>4. NotStarted
  BY <1>2, BoundAssumption DEF Init, NotStarted, Forked
<1>5. KeysHeld /\ TasksApart /\ StoredHasRow /\ FirstOfProcess /\ NotYetAnnounced
  BY <1>3 DEF KeysHeld, TasksApart, StoredHasRow, FirstOfProcess, NotYetAnnounced, Idle, Storing
<1>6. BoundedDuplicates /\ AnnouncedOnce
  BY <1>3, OrphansFinite DEF BoundedDuplicates, AnnouncedOnce
<1> QED BY <1>1, <1>4, <1>5, <1>6 DEF SharedInv

(* Processes that were not started stay so while others move.              *)
LEMMA NotStartedStep ==
  ASSUME NotStarted, TypeOK, generation' \in {generation, generation + 1},
         \A p \in Processes :
           p[2] > generation' => status'[p] = status[p] /\ task'[p] = task[p]
  PROVE  NotStarted'
<1>1. generation \in Nat
  BY BoundAssumption DEF TypeOK
<1>2. \A p \in Processes : p[2] \in Nat
  BY ProcessParts, BoundAssumption
<1>3. \A p \in Processes : p[2] > generation' => p[2] > generation
  BY <1>1, <1>2
<1> QED BY <1>3 DEF NotStarted

(* One task changes.                                                       *)
LEMMA TaskSet ==
  ASSUME TypeOK, NEW p \in Processes, NEW t \in Tasks, NEW r,
         task' = [task EXCEPT ![p][t] = r]
  PROVE  /\ task'[p][t] = r
         /\ \A u \in Tasks \ {t} : task'[p][u] = task[p][u]
         /\ \A q \in Processes \ {p} : task'[q] = task[q]
BY DEF TypeOK

(* Goto as a change of one task.                                           *)
LEMMA GotoSets ==
  ASSUME NEW p \in Processes, NEW t \in Tasks, NEW label, Goto(p, t, label)
  PROVE  task' = [task EXCEPT ![p][t] = [task[p][t] EXCEPT !.pc = label]]
BY DEF Goto

(* A running process was started.                                          *)
LEMMA RunningStarted ==
  ASSUME SharedInv, NEW p \in Processes, status[p] # "off"
  PROVE  ~(p[2] > generation)
BY DEF SharedInv, NotStarted

(* A task of a running process moves on, without an insert or a message.   *)
LEMMA TaskMoves ==
  ASSUME SharedInv, TypeOK', NEW p \in Processes, NEW t \in Tasks, Running(p), NEW r \in Task,
         task' = [task EXCEPT ![p][t] = r],
         UNCHANGED <<rows, parents, status, busy, orphaned>>,
         r.pc \in Storing => task[p][t].pc \in Storing /\ r.blk = task[p][t].blk,
         \/ r.pc \notin {"insert", "counter", "announce"}
         \/ r.pc = "announce" /\ task[p][t].pc = "counter"
         \/ r.pc = "insert" /\ rows[NetworkOf(p)][r.blk] = 0
  PROVE  SharedInv'
<1>1. /\ task'[p][t] = r
      /\ \A u \in Tasks \ {t} : task'[p][u] = task[p][u]
      /\ \A q \in Processes \ {p} : task'[q] = task[q]
  BY TaskSet DEF SharedInv
<1>2. r.pc = "announce" => r.blk = task[p][t].blk
  BY DEF Storing
<1>3. \A q \in Processes, u \in Tasks :
        \/ task'[q][u].pc \notin Storing
        \/ task[q][u].pc \in Storing /\ task'[q][u].blk = task[q][u].blk
  BY <1>1
<1>4. KeysHeld' /\ TasksApart'
  BY <1>3, KeysStep DEF SharedInv
<1>5. ~(p[2] > generation)
  BY RunningStarted DEF Running
<1>6. NotStarted'
  BY <1>1, <1>5, NotStartedStep DEF SharedInv, parents
<1>7. \A q \in Processes : HasParent(q)' = HasParent(q)
  BY DEF HasParent, parents
<1>8. \A q \in Processes, u \in Tasks :
        \/ task'[q][u].pc \notin {"insert", "counter", "announce"}
        \/ task'[q][u].pc = task[q][u].pc /\ task'[q][u].blk = task[q][u].blk
        \/ /\ task[q][u].pc = "counter" /\ task'[q][u].pc = "announce"
           /\ task'[q][u].blk = task[q][u].blk
        \/ /\ task'[q][u].pc = "insert"
           /\ rows[NetworkOf(q)][task'[q][u].blk] = 0
  BY <1>1, <1>2
<1>9. RowInv'
  BY <1>7, <1>8, QuietStep DEF parents
<1> QED BY <1>4, <1>6, <1>9 DEF SharedInv, RowInv

(* Processes and explorers change, but no task, row or key.                *)
LEMMA OthersMove ==
  ASSUME SharedInv, TypeOK', UNCHANGED <<rows, announced, busy, task, orphaned>>,
         generation' \in {generation, generation + 1},
         \A p \in Processes : p[2] > generation' => status'[p] = status[p],
         \A p \in Processes : HasParent(p)' => HasParent(p) \/ p[2] > generation
  PROVE  SharedInv'
<1>1. NotStarted'
  BY NotStartedStep DEF SharedInv
<1>2. KeysHeld' /\ TasksApart'
  BY DEF SharedInv, KeysHeld, TasksApart
<1>3. \A p \in Processes, t \in Tasks :
        HasParent(p)' => HasParent(p) \/ task'[p][t].pc = "off"
  BY DEF SharedInv, NotStarted, Idle
<1>4. RowInv'
  BY <1>3, QuietStep
<1> QED BY <1>1, <1>2, <1>4 DEF SharedInv, RowInv

(* A block is entered into blocksInProcess.                                *)
LEMMA EnterKeepsInv ==
  ASSUME SharedInv, TypeOK', NEW p \in Processes, NEW t \in Tasks, Enter(p, t)
  PROVE  SharedInv'
<1>1. task[p][t] \in Task
  BY DEF SharedInv, TypeOK
<1>2. CASE task[p][t].blk \in busy[p]
  <2> DEFINE r == [task[p][t] EXCEPT !.pc = task[p][t].loop]
  <2>1. r \in Task /\ r.pc \in {"load", "missing"}
    BY <1>1 DEF Task, Labels
  <2>2. task' = [task EXCEPT ![p][t] = r]
    BY <1>2, GotoSets DEF Enter
  <2>3. UNCHANGED <<rows, parents, status, busy, orphaned>> /\ Running(p)
    BY <1>2 DEF Enter, database, At
  <2> QED BY <2>1, <2>2, <2>3, TaskMoves DEF Storing
<1>3. CASE task[p][t].blk \notin busy[p]
  <2> DEFINE r == [task[p][t] EXCEPT !.pc = "count"]
  <2>1. task' = [task EXCEPT ![p][t] = r]
    BY <1>3, GotoSets DEF Enter
  <2>2. r.pc = "count" /\ r.blk = task[p][t].blk
    BY <1>1 DEF Task
  <2>3. /\ task'[p][t] = r
        /\ \A u \in Tasks \ {t} : task'[p][u] = task[p][u]
        /\ \A q \in Processes \ {p} : task'[q] = task[q]
    BY <2>1, TaskSet DEF SharedInv
  <2>4. \A q \in Processes :
          busy'[q] = IF q = p THEN busy[q] \cup {task[p][t].blk} ELSE busy[q]
    BY <1>3 DEF Enter, SharedInv, TypeOK
  <2> HIDE DEF r
  <2>5. KeysHeld'
    <3> SUFFICES ASSUME NEW q \in Processes, NEW u \in Tasks, task'[q][u].pc \in Storing
                 PROVE  task'[q][u].blk \in busy'[q]
      BY DEF KeysHeld
    <3>1. CASE q = p /\ u = t
      BY <2>2, <2>3, <2>4, <3>1
    <3>2. CASE ~(q = p /\ u = t)
      <4>1. task'[q][u] = task[q][u]
        BY <2>3, <3>2
      <4>2. task[q][u].blk \in busy[q]
        BY <4>1 DEF SharedInv, KeysHeld
      <4> QED BY <2>4, <4>1, <4>2
    <3> QED BY <3>1, <3>2
  <2>6. \A u \in Tasks \ {t} : task[p][u].pc \in Storing => task[p][u].blk # task[p][t].blk
    BY <1>3 DEF SharedInv, KeysHeld
  <2>7. TasksApart'
    BY <2>2, <2>3, <2>6 DEF SharedInv, TasksApart
  <2>8. ~(p[2] > generation)
    BY RunningStarted DEF Enter, At, Running
  <2>9. NotStarted'
    BY <2>3, <2>8, NotStartedStep DEF SharedInv, Enter, parents
  <2>10. \A q \in Processes, u \in Tasks :
           \/ task'[q][u].pc \notin {"insert", "counter", "announce"}
           \/ task'[q][u].pc = task[q][u].pc /\ task'[q][u].blk = task[q][u].blk
    BY <2>2, <2>3
  <2>11. \A q \in Processes : HasParent(q)' = HasParent(q)
    BY DEF HasParent, Enter, parents
  <2>12. UNCHANGED <<rows, orphaned, announced>>
    BY DEF Enter, database, parents
  <2>13. RowInv'
    BY <2>10, <2>11, <2>12, QuietStep
  <2> QED BY <2>5, <2>7, <2>9, <2>13 DEF SharedInv, RowInv
<1> QED BY <1>2, <1>3

(* A block is inserted.                                                    *)
LEMMA InsertKeepsInv ==
  ASSUME SharedInv, TypeOK', NEW p \in Processes, NEW t \in Tasks, Insert(p, t)
  PROVE  SharedInv'
<1>1. task[p][t] \in Task /\ task[p][t].pc = "insert"
  BY DEF SharedInv, TypeOK, Insert, At
<1> DEFINE r == [task[p][t] EXCEPT !.pc = "counter"]
<1>2. r.pc = "counter" /\ r.blk = task[p][t].blk
  BY <1>1 DEF Task
<1>3. task' = [task EXCEPT ![p][t] = r]
  BY GotoSets DEF Insert
<1>4. /\ task'[p][t] = r
      /\ \A u \in Tasks \ {t} : task'[p][u] = task[p][u]
      /\ \A q \in Processes \ {p} : task'[q] = task[q]
  BY <1>3, TaskSet DEF SharedInv
<1>5. \A q \in Processes, u \in Tasks :
        /\ task'[q][u].blk = task[q][u].blk
        /\ task'[q][u].pc = IF q = p /\ u = t THEN "counter" ELSE task[q][u].pc
  BY <1>2, <1>4
<1>6. RowInv'
  BY <1>1, <1>5, StoreStep DEF Insert
<1>7. KeysHeld' /\ TasksApart'
  <2>1. \A q \in Processes, u \in Tasks :
          \/ task'[q][u].pc \notin Storing
          \/ task[q][u].pc \in Storing /\ task'[q][u].blk = task[q][u].blk
    BY <1>1, <1>5 DEF Storing
  <2> QED BY <2>1, KeysStep DEF SharedInv, Insert
<1>8. ~(p[2] > generation)
  BY RunningStarted DEF Insert, At, Running
<1>9. NotStarted'
  BY <1>4, <1>8, NotStartedStep DEF SharedInv, Insert, parents
<1> QED BY <1>6, <1>7, <1>9 DEF SharedInv, RowInv

(* A block is done with, and announced if it was stored.                   *)
LEMMA FinishKeepsInv ==
  ASSUME SharedInv, TypeOK', NEW p \in Processes, NEW t \in Tasks, Finish(p, t)
  PROVE  SharedInv'
<1> DEFINE n == NetworkOf(p)
           b == task[p][t].blk
           r == [task[p][t] EXCEPT !.pc = task[p][t].loop]
<1>1. task[p][t] \in Task /\ task[p][t].pc \in {"announce", "leave"} /\ Running(p)
  BY DEF SharedInv, TypeOK, Finish, At
<1>2. r.pc \in {"load", "missing"} /\ n \in Networks /\ b \in Blocks
  BY <1>1, ProcessParts DEF Task
<1>3. task' = [task EXCEPT ![p][t] = r]
  BY GotoSets DEF Finish
<1>4. /\ task'[p][t] = r
      /\ \A u \in Tasks \ {t} : task'[p][u] = task[p][u]
      /\ \A q \in Processes \ {p} : task'[q] = task[q]
  BY <1>3, TaskSet DEF SharedInv
<1>5. \A q \in Processes, u \in Tasks :
        \/ q = p /\ u = t /\ task'[q][u].pc \notin Storing
        \/ ~(q = p /\ u = t) /\ task'[q][u] = task[q][u]
  BY <1>2, <1>4 DEF Storing
<1>6. \A u \in Tasks \ {t} : task[p][u].pc \in Storing => task[p][u].blk # b
  BY <1>1 DEF SharedInv, TasksApart, Storing
<1>7. KeysHeld'
  <2>1. \A q \in Processes : busy'[q] = IF q = p THEN busy[q] \ {b} ELSE busy[q]
    BY DEF Finish, SharedInv, TypeOK
  <2>2. ASSUME NEW q \in Processes, NEW u \in Tasks, task'[q][u].pc \in Storing
        PROVE  task'[q][u].blk \in busy'[q]
    <3>1. ~(q = p /\ u = t) /\ task'[q][u] = task[q][u]
      BY <1>5, <2>2
    <3>2. task[q][u].blk \in busy[q]
      BY <2>2, <3>1 DEF SharedInv, KeysHeld
    <3> QED BY <1>6, <2>1, <2>2, <3>1, <3>2
  <2> QED BY <2>2 DEF KeysHeld
<1>8. TasksApart'
  BY <1>5 DEF SharedInv, TasksApart
<1>9. NotStarted'
  <2>1. ~(p[2] > generation)
    BY <1>1, RunningStarted DEF Running
  <2>2. \A q \in Processes \ {p} : status'[q] = status[q]
    BY DEF Finish, Send, SharedInv, TypeOK
  <2>3. generation' = generation
    BY DEF Finish
  <2> QED BY <1>4, <2>1, <2>2, <2>3, NotStartedStep DEF SharedInv
<1>10. /\ UNCHANGED <<rows, orphaned>>
       /\ \A q \in Processes : HasParent(q)' = HasParent(q)
  BY DEF Finish, database, HasParent
<1>11. \A q \in Processes, u \in Tasks :
         \/ task'[q][u].pc \notin {"insert", "counter", "announce"}
         \/ task'[q][u].pc = task[q][u].pc /\ task'[q][u].blk = task[q][u].blk
  BY <1>5 DEF Storing
<1>12. CASE announced' = announced
  <2>1. RowInv'
    BY <1>10, <1>11, <1>12, QuietStep
  <2> QED BY <1>7, <1>8, <1>9, <2>1 DEF SharedInv, RowInv
<1>13. CASE announced' # announced
  <2>1. /\ task[p][t].pc = "announce" /\ HasParent(p)
        /\ announced' = [announced EXCEPT ![n][b] = @ + 1]
    BY <1>13 DEF Finish, Send, At
  <2>2. announced[n][b] = 0 /\ rows[n][b] > 0
    BY <1>1, <2>1 DEF SharedInv, NotYetAnnounced, StoredHasRow
  <2>3. \A m \in Networks, c \in Blocks :
          announced'[m][c] = IF m = n /\ c = b THEN 1 ELSE announced[m][c]
    BY <1>2, <2>1, <2>2 DEF SharedInv, TypeOK
  <2>4. AnnouncedOnce'
    BY <1>10, <2>2, <2>3 DEF SharedInv, AnnouncedOnce
  <2>5. \A m, c : Orphans(m, c)' = Orphans(m, c)
    BY <1>10 DEF Orphans, NetworkOf
  <2>6. BoundedDuplicates'
    BY <1>10, <2>5 DEF SharedInv, BoundedDuplicates
  <2>7. StoredHasRow'
    BY <1>10, <1>11 DEF SharedInv, StoredHasRow, NetworkOf
  <2>8. FirstOfProcess'
    BY <1>10, <1>11, <2>5 DEF SharedInv, FirstOfProcess, NetworkOf
  <2>9. NotYetAnnounced'
    <3> SUFFICES ASSUME NEW q \in Processes, NEW u \in Tasks, HasParent(q),
                        task'[q][u].pc \in {"insert", "counter", "announce"}
                 PROVE  announced'[NetworkOf(q)][task'[q][u].blk] = 0
      BY <1>10 DEF NotYetAnnounced, NetworkOf
    <3>1. ~(q = p /\ u = t) /\ task'[q][u] = task[q][u]
      BY <1>5 DEF Storing
    <3>2. announced[NetworkOf(q)][task[q][u].blk] = 0
      BY <3>1 DEF SharedInv, NotYetAnnounced
    <3>3. NetworkOf(q) \in Networks /\ task[q][u].blk \in Blocks
      BY ProcessParts DEF SharedInv, TypeOK, Task
    <3>4. ~(NetworkOf(q) = n /\ task[q][u].blk = b)
      <4>1. CASE q = p
        BY <1>6, <3>1, <4>1 DEF Storing
      <4>2. CASE q # p
        BY <2>1, <4>2, OneParent
      <4> QED BY <4>1, <4>2
    <3> QED BY <2>3, <3>1, <3>2, <3>3, <3>4
  <2> QED BY <1>7, <1>8, <1>9, <2>4, <2>6, <2>7, <2>8, <2>9 DEF SharedInv
<1> QED BY <1>12, <1>13

(* A process exits, and its last statement may take effect.                *)
LEMMA ExitKeepsInv ==
  ASSUME SharedInv, TypeOK', NEW p \in Processes, Exit(p)
  PROVE  SharedInv'
<1>1. /\ \A t \in Tasks : task'[p][t] = Idle
      /\ \A q \in Processes \ {p} : task'[q] = task[q] /\ busy'[q] = busy[q]
                                    /\ status'[q] = status[q]
  BY DEF Exit, SharedInv, TypeOK
<1>2. UNCHANGED parents /\ status[p] = "closing"
  BY DEF Exit
<1>3. ~(p[2] > generation)
  BY <1>2, RunningStarted
<1>4. NotStarted'
  BY <1>1, <1>2, <1>3, NotStartedStep DEF SharedInv, parents
<1>5. KeysHeld' /\ TasksApart'
  BY <1>1 DEF SharedInv, KeysHeld, TasksApart, Storing, Idle
<1>6. CASE UNCHANGED <<rows, orphaned>>
  <2>1. \A q \in Processes : HasParent(q)' = HasParent(q)
    BY <1>2 DEF HasParent, parents
  <2>2. \A q \in Processes, t \in Tasks :
          \/ task'[q][t].pc \notin {"insert", "counter", "announce"}
          \/ task'[q][t].pc = task[q][t].pc /\ task'[q][t].blk = task[q][t].blk
    BY <1>1 DEF Idle
  <2>3. RowInv'
    BY <1>2, <1>6, <2>1, <2>2, QuietStep DEF parents
  <2> QED BY <1>4, <1>5, <2>3 DEF SharedInv, RowInv
<1>7. ASSUME NEW t \in Tasks, task[p][t].pc = "insert", InsertRow(p, t)
      PROVE  SharedInv'
  <2>1. \A q \in Processes, u \in Tasks :
          \/ task'[q][u].pc = "off"
          \/ /\ task'[q][u].blk = task[q][u].blk
             /\ task'[q][u].pc = IF q = p /\ u = t THEN "counter" ELSE task[q][u].pc
    BY <1>1 DEF Idle
  <2>2. RowInv'
    BY <1>2, <1>7, <2>1, StoreStep
  <2> QED BY <1>4, <1>5, <2>2 DEF SharedInv, RowInv
<1> QED BY <1>6, <1>7 DEF Exit, database

(* Every step keeps the invariant.                                         *)
LEMMA NextInv == SharedInv /\ [Next]_vars => SharedInv'
<1> SUFFICES ASSUME SharedInv, [Next]_vars PROVE SharedInv'
  OBVIOUS
<1>0. TypeOK'
  BY NextType DEF SharedInv
<1> USE <1>0
<1>1. \A p \in Processes, t \in Tasks : task[p][t] \in Task
  BY DEF SharedInv, TypeOK
<1>2. CASE Commit
  BY <1>2, OthersMove DEF Commit, database, parents, HasParent
<1>3. ASSUME NEW p \in Processes, NEW t \in Tasks, StartRound(p, t) PROVE SharedInv'
  <2> DEFINE r == [Idle EXCEPT !.pc = "load", !.latest = height - 1, !.todo = 0 .. height - 1]
  <2>1. task' = [task EXCEPT ![p][t] = r] /\ r.pc = "load"
    BY <1>3 DEF StartRound, Idle
  <2> HIDE DEF r
  <2>2. r = task'[p][t]
    BY <2>1 DEF SharedInv, TypeOK
  <2>3. r \in Task
    BY <2>2 DEF TypeOK
  <2>4. UNCHANGED <<rows, parents, status, busy, orphaned>> /\ Running(p)
    BY <1>3 DEF StartRound, At, database
  <2>5. task' = [task EXCEPT ![p][t] = r]
    BY <2>1
  <2>6. r.pc \notin Storing /\ r.pc \notin {"insert", "counter", "announce"}
    BY <2>1 DEF Storing
  <2> QED BY <2>3, <2>4, <2>5, <2>6, TaskMoves
<1>4. ASSUME NEW p \in Processes, NEW t \in Tasks, LoadBlock(p, t) PROVE SharedInv'
  <2>1. PICK b \in task[p][t].todo :
          task' = [task EXCEPT ![p][t].todo = @ \ {b}, ![p][t].blk = b,
                     ![p][t].pc = IF IsBlockAvailableInDB(b) THEN @ ELSE "enter"]
    BY <1>4 DEF LoadBlock
  <2> DEFINE r == [task[p][t] EXCEPT !.todo = @ \ {b}, !.blk = b,
                     !.pc = IF IsBlockAvailableInDB(b) THEN @ ELSE "enter"]
  <2>2. r \in Task
    BY <1>1 DEF Task, Labels
  <2>3. task' = [task EXCEPT ![p][t] = r]
    BY <2>1
  <2>4. r.pc \in {"load", "enter"}
    BY <1>1, <1>4 DEF LoadBlock, At, Task
  <2> HIDE DEF r
  <2> QED BY <1>4, <2>2, <2>3, <2>4, TaskMoves DEF LoadBlock, At, Storing, database
<1>5. ASSUME NEW p \in Processes, NEW t \in Tasks, FindMissing(p, t) PROVE SharedInv'
  <2> DEFINE r == [task[p][t] EXCEPT !.pc = "missing", !.loop = "missing",
                !.todo = {b \in 0 .. task[p][t].latest : rows[NetworkOf(p)][b] = 0}]
  <2>1. task' = [task EXCEPT ![p][t] = r] /\ r.pc = "missing"
    <3>1. r.pc = "missing"
      BY <1>1 DEF Task
    <3> QED BY <1>5, <3>1 DEF FindMissing
  <2> HIDE DEF r
  <2>2. r = task'[p][t]
    BY <2>1 DEF SharedInv, TypeOK
  <2>3. r \in Task
    BY <2>2 DEF TypeOK
  <2>4. UNCHANGED <<rows, parents, status, busy, orphaned>> /\ Running(p)
    BY <1>5 DEF FindMissing, At, database
  <2>5. task' = [task EXCEPT ![p][t] = r]
    BY <2>1
  <2>6. r.pc \notin Storing /\ r.pc \notin {"insert", "counter", "announce"}
    BY <2>1 DEF Storing
  <2> QED BY <2>3, <2>4, <2>5, <2>6, TaskMoves
<1>6. ASSUME NEW p \in Processes, NEW t \in Tasks, NextMissing(p, t) PROVE SharedInv'
  <2>1. PICK b \in task[p][t].todo :
          task' = [task EXCEPT ![p][t].todo = @ \ {b}, ![p][t].blk = b, ![p][t].pc = "enter"]
    BY <1>6 DEF NextMissing
  <2> DEFINE r == [task[p][t] EXCEPT !.todo = @ \ {b}, !.blk = b, !.pc = "enter"]
  <2>2. task' = [task EXCEPT ![p][t] = r]
    BY <2>1
  <2>3. r \in Task /\ r.pc = "enter"
    BY <1>1 DEF Task, Labels
  <2> HIDE DEF r
  <2> QED BY <1>6, <2>2, <2>3, TaskMoves DEF NextMissing, At, Storing, database
<1>7. ASSUME NEW p \in Processes, NEW t \in Tasks, FinishRound(p, t) PROVE SharedInv'
  <2>1. Idle \in Task /\ Idle.pc = "off"
    BY BoundAssumption DEF Idle, Task, Labels, Blocks
  <2>2. task' = [task EXCEPT ![p][t] = Idle]
    BY <1>7 DEF FinishRound
  <2> QED BY <1>7, <2>1, <2>2, TaskMoves DEF FinishRound, At, Storing, database
<1>8. ASSUME NEW p \in Processes, NEW t \in Tasks, Enter(p, t) PROVE SharedInv'
  BY <1>8, EnterKeepsInv
<1>9. ASSUME NEW p \in Processes, NEW t \in Tasks, Count(p, t) PROVE SharedInv'
  <2> DEFINE label == IF rows[NetworkOf(p)][task[p][t].blk] = 0 THEN "insert" ELSE "leave"
             r == [task[p][t] EXCEPT !.pc = label]
  <2>1. task' = [task EXCEPT ![p][t] = r]
    BY <1>9, GotoSets DEF Count
  <2>2. r \in Task /\ r.pc = label /\ r.blk = task[p][t].blk
    BY <1>1 DEF Task, Labels
  <2>3. task[p][t].pc = "count" /\ Running(p)
    BY <1>9 DEF Count, At
  <2>4. UNCHANGED <<rows, parents, status, busy, orphaned>>
    BY <1>9 DEF Count, database
  <2>5. /\ r.pc \in {"insert", "leave"}
        /\ r.pc = "insert" => rows[NetworkOf(p)][r.blk] = 0
    BY <2>2
  <2> HIDE DEF r
  <2> QED BY <2>1, <2>2, <2>3, <2>4, <2>5, TaskMoves DEF Storing
<1>10. ASSUME NEW p \in Processes, NEW t \in Tasks, Insert(p, t) PROVE SharedInv'
  BY <1>10, InsertKeepsInv
<1>11. ASSUME NEW p \in Processes, NEW t \in Tasks, Counter(p, t) PROVE SharedInv'
  <2> DEFINE r == [task[p][t] EXCEPT !.pc = "announce"]
  <2>1. task' = [task EXCEPT ![p][t] = r]
    BY <1>11, GotoSets DEF Counter
  <2>2. r \in Task /\ r.pc = "announce" /\ r.blk = task[p][t].blk
    BY <1>1 DEF Task, Labels
  <2>3. task[p][t].pc = "counter" /\ Running(p)
    BY <1>11 DEF Counter, At
  <2> QED BY <1>11, <2>1, <2>2, <2>3, TaskMoves DEF Counter, Storing
<1>12. ASSUME NEW p \in Processes, NEW t \in Tasks, Finish(p, t) PROVE SharedInv'
  BY <1>12, FinishKeepsInv
<1>13. CASE StopExplorer
  <2>1. \A p \in Processes : HasParent(p)' => HasParent(p)
    BY <1>13 DEF StopExplorer, HasParent
  <2> QED BY <1>13, <2>1, OthersMove DEF StopExplorer, database
<1>14. CASE ExplorerGone
  <2>1. \A p \in Processes : HasParent(p)' => HasParent(p)
    BY <1>14 DEF ExplorerGone, HasParent
  <2> QED BY <1>14, <2>1, OthersMove DEF ExplorerGone, database
<1>15. CASE StartExplorer
  <2>1. generation \in Nat /\ generation' = generation + 1
    BY <1>15, BoundAssumption DEF StartExplorer, SharedInv, TypeOK
  <2>2. \A p \in Processes : p[2] \in Nat
    BY ProcessParts, BoundAssumption
  <2>3. \A p \in Processes : p[2] > generation' => status'[p] = status[p]
    BY <1>15, <2>1, <2>2 DEF StartExplorer, Forked, SharedInv, TypeOK
  <2>4. \A p \in Processes : HasParent(p)' => p[2] > generation
    BY <2>1, <2>2 DEF HasParent
  <2> QED BY <1>15, <2>1, <2>3, <2>4, OthersMove DEF StartExplorer, database
<1>16. ASSUME NEW p \in Processes, ShutDown(p) PROVE SharedInv'
  <2>1. ~(p[2] > generation)
    BY <1>16, RunningStarted DEF ShutDown, Running
  <2>2. \A q \in Processes : HasParent(q)' = HasParent(q)
    BY <1>16 DEF ShutDown, HasParent, parents
  <2>3. \A q \in Processes : q[2] > generation' => status'[q] = status[q]
    BY <1>16, <2>1 DEF ShutDown, parents, SharedInv, TypeOK
  <2> QED BY <1>16, <2>2, <2>3, OthersMove DEF ShutDown, database, parents
<1>17. ASSUME NEW p \in Processes, Exit(p) PROVE SharedInv'
  BY <1>17, ExitKeepsInv
<1>18. CASE UNCHANGED vars
  BY <1>18, OthersMove DEF vars, database, parents, HasParent
<1> QED
  BY <1>2, <1>3, <1>4, <1>5, <1>6, <1>7, <1>8, <1>9, <1>10, <1>11, <1>12, <1>13, <1>14, <1>15,
     <1>16, <1>17, <1>18 DEF Next, SyncBlocks, ProcessBlockEvent

(* THEOREM 2.  The invariant the following rest on: keys hold the tasks of *)
(* a process apart, a living parent is the parent of one process only, and *)
(* rows from before a task's count are those it has counted.               *)
THEOREM SharedInvariant == Spec => []SharedInv
BY InitInv, NextInv, PTL DEF Spec

(* THEOREM 3.  saveBlock: a block has one row in a network, and one more   *)
(* at most for each sync process that was at work without its explorer.    *)
THEOREM BoundedDuplicatesAlways == Spec => []BoundedDuplicates
<1>1. SharedInv => BoundedDuplicates
  BY DEF SharedInv
<1> QED BY <1>1, SharedInvariant, PTL

(* THEOREM 4.  processBlockEvent: over all explorers and rounds a block of *)
(* a network is announced once at most, and after its row.                 *)
THEOREM AnnouncedOnceAlways == Spec => []AnnouncedOnce
<1>1. SharedInv => AnnouncedOnce
  BY DEF SharedInv
<1> QED BY <1>1, SharedInvariant, PTL

-----------------------------------------------------------------------------
(* Steps, by what they do to the database.                                 *)

(* One task of a running process moves on: it was not past an insert, it   *)
(* is not then, and database, processes and explorers stay as they are.    *)
TaskStep(p, t) ==
  /\ Running(p)
  /\ task[p][t].pc \notin {"counter", "announce"}
  /\ task'[p][t].pc \notin {"counter", "announce"}
  /\ \A u \in Tasks \ {t} : task'[p][u] = task[p][u]
  /\ \A q \in Processes \ {p} : task'[q] = task[q]
  /\ UNCHANGED <<database, parents, status, orphaned>>

(* The rounds, and blocks up to the insert, make such steps.               *)
LEMMA RoundsMoveTasks ==
  ASSUME TypeOK, NEW p \in Processes, NEW t \in Tasks,
         StartRound(p, t) \/ SyncBlocks(p, t) \/ Enter(p, t) \/ Count(p, t)
  PROVE  TaskStep(p, t)
<1>1. task[p][t] \in Task
  BY DEF TypeOK
<1>2. ASSUME NEW r, task' = [task EXCEPT ![p][t] = r], r.pc \notin {"counter", "announce"},
             Running(p), task[p][t].pc \notin {"counter", "announce"},
             UNCHANGED <<database, parents, status, orphaned>>
      PROVE  TaskStep(p, t)
  BY <1>2, TaskSet DEF TaskStep
<1>3. CASE StartRound(p, t)
  <2> DEFINE r == [Idle EXCEPT !.pc = "load", !.latest = height - 1, !.todo = 0 .. height - 1]
  <2>1. task' = [task EXCEPT ![p][t] = r] /\ r.pc = "load"
    BY <1>3 DEF StartRound, Idle
  <2> HIDE DEF r
  <2> QED BY <1>2, <1>3, <2>1 DEF StartRound, At
<1>4. CASE LoadBlock(p, t)
  <2>1. PICK b \in task[p][t].todo :
          task' = [task EXCEPT ![p][t].todo = @ \ {b}, ![p][t].blk = b,
                     ![p][t].pc = IF IsBlockAvailableInDB(b) THEN @ ELSE "enter"]
    BY <1>4 DEF LoadBlock
  <2> DEFINE r == [task[p][t] EXCEPT !.todo = @ \ {b}, !.blk = b,
                     !.pc = IF IsBlockAvailableInDB(b) THEN @ ELSE "enter"]
  <2>2. task' = [task EXCEPT ![p][t] = r]
    BY <2>1
  <2>3. r.pc \in {"load", "enter"}
    BY <1>1, <1>4 DEF LoadBlock, At, Task
  <2> HIDE DEF r
  <2> QED BY <1>2, <1>4, <2>2, <2>3 DEF LoadBlock, At
<1>5. CASE FindMissing(p, t)
  <2> DEFINE r == [task[p][t] EXCEPT !.pc = "missing", !.loop = "missing",
                !.todo = {b \in 0 .. task[p][t].latest : rows[NetworkOf(p)][b] = 0}]
  <2>1. task' = [task EXCEPT ![p][t] = r]
    BY <1>5 DEF FindMissing
  <2>2. r.pc = "missing"
    BY <1>1 DEF Task
  <2> HIDE DEF r
  <2> QED BY <1>2, <1>5, <2>1, <2>2 DEF FindMissing, At
<1>6. CASE NextMissing(p, t)
  <2>1. PICK b \in task[p][t].todo :
          task' = [task EXCEPT ![p][t].todo = @ \ {b}, ![p][t].blk = b, ![p][t].pc = "enter"]
    BY <1>6 DEF NextMissing
  <2> DEFINE r == [task[p][t] EXCEPT !.todo = @ \ {b}, !.blk = b, !.pc = "enter"]
  <2>2. task' = [task EXCEPT ![p][t] = r]
    BY <2>1
  <2>3. r.pc = "enter"
    BY <1>1 DEF Task
  <2> HIDE DEF r
  <2> QED BY <1>2, <1>6, <2>2, <2>3 DEF NextMissing, At
<1>7. CASE FinishRound(p, t)
  <2>1. Idle.pc = "off"
    BY DEF Idle
  <2> QED BY <1>2, <1>7, <2>1 DEF FinishRound, At
<1>8. CASE Enter(p, t)
  <2>1. PICK label \in {task[p][t].loop, "count"} : Goto(p, t, label)
    BY <1>8 DEF Enter
  <2> DEFINE r == [task[p][t] EXCEPT !.pc = label]
  <2>2. task' = [task EXCEPT ![p][t] = r]
    BY <2>1, GotoSets
  <2>3. r.pc \notin {"counter", "announce"}
    BY <1>1 DEF Task
  <2> HIDE DEF r
  <2> QED BY <1>2, <1>8, <2>2, <2>3 DEF Enter, At
<1>9. CASE Count(p, t)
  <2>1. PICK label \in {"insert", "leave"} : Goto(p, t, label)
    BY <1>9 DEF Count
  <2> DEFINE r == [task[p][t] EXCEPT !.pc = label]
  <2>2. task' = [task EXCEPT ![p][t] = r]
    BY <2>1, GotoSets
  <2>3. r.pc \notin {"counter", "announce"}
    BY <1>1 DEF Task
  <2> HIDE DEF r
  <2> QED BY <1>2, <1>9, <2>2, <2>3 DEF Count, At
<1> QED BY <1>3, <1>4, <1>5, <1>6, <1>7, <1>8, <1>9 DEF SyncBlocks

(* A task of a running process goes to another label.                      *)
LEMMA LabelSet ==
  ASSUME TypeOK, NEW p \in Processes, NEW t \in Tasks, NEW label, Goto(p, t, label)
  PROVE  /\ task'[p][t].pc = label /\ task'[p][t].blk = task[p][t].blk
         /\ \A u \in Tasks \ {t} : task'[p][u] = task[p][u]
         /\ \A q \in Processes \ {p} : task'[q] = task[q]
<1> DEFINE r == [task[p][t] EXCEPT !.pc = label]
<1>1. task[p][t] \in Task
  BY DEF TypeOK
<1>2. r.pc = label /\ r.blk = task[p][t].blk
  BY <1>1 DEF Task
<1>3. task' = [task EXCEPT ![p][t] = r]
  BY GotoSets
<1> HIDE DEF r
<1>4. /\ task'[p][t] = r
      /\ \A u \in Tasks \ {t} : task'[p][u] = task[p][u]
      /\ \A q \in Processes \ {p} : task'[q] = task[q]
  BY <1>3, TaskSet
<1> QED BY <1>2, <1>4

-----------------------------------------------------------------------------
(* Blocks stored without an explorer.                                      *)

(* The blocks p has stored without its explorer: as long as it runs each   *)
(* is still at the task that stored it; when it ends the tasks still name  *)
(* them.                                                                   *)
OrphanAt(p) ==
  /\ orphaned[p] # {} => ~HasParent(p) /\ status[p] # "off"
  /\ Running(p) => \A b \in orphaned[p] :
       \E t \in Tasks : task[p][t].pc \in {"counter", "announce"} /\ task[p][t].blk = b
  /\ status[p] # "exited" => orphaned[p] \subseteq {task[p][t].blk : t \in Tasks}

OrphansAtTasks == \A p \in Processes : OrphanAt(p)

(* Tasks name no more blocks than there are tasks.                         *)
LEMMA FewBlocksNamed ==
  ASSUME NEW tasks, NEW S, S \subseteq {tasks[t].blk : t \in Tasks}
  PROVE  Cardinality(S) <= Cardinality(Tasks)
<1> DEFINE Named == {tasks[t].blk : t \in Tasks}
           f == [t \in Tasks |-> tasks[t].blk]
<1>1. f \in Surjection(Tasks, Named)
  BY DEF Surjection
<1>2. IsFiniteSet(Named) /\ Cardinality(Named) <= Cardinality(Tasks)
  BY <1>1, FS_Surjection, TasksAssumption
<1>3. Cardinality(S) <= Cardinality(Named)
  BY <1>2, FS_Subset
<1>4. Cardinality(S) \in Nat /\ Cardinality(Named) \in Nat /\ Cardinality(Tasks) \in Nat
  BY <1>2, TasksAssumption, FS_Subset, FS_CardinalityType
<1> QED BY <1>2, <1>3, <1>4

(* A process that stores nothing stays in order: it does not come back to  *)
(* its explorer nor to life, and keeps its tasks where they were.          *)
LEMMA StaysOrphan ==
  ASSUME SharedInv, NEW q \in Processes, OrphanAt(q), orphaned'[q] = orphaned[q],
         HasParent(q)' => HasParent(q) \/ q[2] > generation,
         q[2] > generation' => q[2] > generation,
         status'[q] = status[q] \/ status[q] = "off" \/ status'[q] = "exited",
         status'[q] # "exited" => \A t \in Tasks :
           \/ task'[q][t] = task[q][t]
           \/ Running(q) /\ task[q][t].pc \notin {"counter", "announce"}
           \/ /\ task'[q][t].blk = task[q][t].blk
              /\ task'[q][t].pc \in {"counter", "announce"}
  PROVE  OrphanAt(q)'
<1>1. q[2] > generation => status[q] = "off"
  BY DEF SharedInv, NotStarted
<1>2. CASE orphaned[q] = {}
  BY <1>2 DEF OrphanAt
<1>3. CASE orphaned[q] # {}
  <2>1. ~HasParent(q) /\ status[q] # "off" /\ ~HasParent(q)'
    BY <1>1, <1>3 DEF OrphanAt
  <2>2. status'[q] = status[q] \/ status'[q] = "exited"
    BY <2>1
  <2>3. Running(q)' => \A b \in orphaned[q] :
          \E t \in Tasks : task'[q][t].pc \in {"counter", "announce"} /\ task'[q][t].blk = b
    <3> SUFFICES ASSUME Running(q)', NEW b \in orphaned[q]
                 PROVE  \E t \in Tasks : /\ task'[q][t].pc \in {"counter", "announce"}
                                         /\ task'[q][t].blk = b
      OBVIOUS
    <3>1. Running(q) /\ status'[q] # "exited"
      BY <2>2 DEF Running
    <3>2. PICK t \in Tasks : task[q][t].pc \in {"counter", "announce"} /\ task[q][t].blk = b
      BY <3>1 DEF OrphanAt
    <3> QED BY <3>1, <3>2
  <2>4. status'[q] # "exited" => orphaned[q] \subseteq {task'[q][t].blk : t \in Tasks}
    <3> SUFFICES ASSUME status'[q] # "exited", NEW b \in orphaned[q]
                 PROVE  \E t \in Tasks : task'[q][t].blk = b
      OBVIOUS
    <3>1. CASE Running(q)
      <4>1. Running(q)'
        BY <2>2, <3>1 DEF Running
      <4> QED BY <2>3, <4>1
    <3>2. CASE ~Running(q)
      <4>1. PICK t \in Tasks : task[q][t].blk = b
        BY <2>2 DEF OrphanAt
      <4> QED BY <3>2, <4>1
    <3> QED BY <3>1, <3>2
  <2> QED BY <2>1, <2>2, <2>3, <2>4 DEF OrphanAt
<1> QED BY <1>2, <1>3

(* A row is inserted: an orphan's is at its task.                          *)
LEMMA InsertKeepsOrphans ==
  ASSUME SharedInv, OrphansAtTasks, NEW p \in Processes, NEW t \in Tasks, Insert(p, t)
  PROVE  OrphansAtTasks'
<1>1. /\ task'[p][t].pc = "counter" /\ task'[p][t].blk = task[p][t].blk
      /\ \A u \in Tasks \ {t} : task'[p][u] = task[p][u]
      /\ \A q \in Processes \ {p} : task'[q] = task[q]
  BY LabelSet DEF Insert, SharedInv
<1>2. \A q \in Processes :
        orphaned'[q] = IF q = p /\ ~HasParent(p)
                       THEN orphaned[q] \cup {task[p][t].blk} ELSE orphaned[q]
  BY RowAdded DEF Insert, SharedInv
<1>3. /\ \A q \in Processes : HasParent(q)' = HasParent(q)
      /\ status' = status /\ generation' = generation
      /\ Running(p) /\ task[p][t].pc = "insert"
  BY DEF Insert, HasParent, parents, At
<1>4. ASSUME NEW q \in Processes, orphaned'[q] = orphaned[q]
      PROVE  OrphanAt(q)'
  <2>1. OrphanAt(q)
    BY DEF OrphansAtTasks
  <2>2. \A u \in Tasks :
          \/ task'[q][u] = task[q][u]
          \/ Running(q) /\ task[q][u].pc \notin {"counter", "announce"}
    BY <1>1, <1>3
  <2> QED BY <1>3, <1>4, <2>1, <2>2, StaysOrphan
<1>5. CASE orphaned'[p] # orphaned[p]
  <2>1. ~HasParent(p) /\ orphaned'[p] = orphaned[p] \cup {task[p][t].blk}
    BY <1>2, <1>5
  <2>2. \A b \in orphaned'[p] :
          \E u \in Tasks : task'[p][u].pc \in {"counter", "announce"} /\ task'[p][u].blk = b
    <3>1. \A b \in orphaned[p] :
            \E u \in Tasks : task[p][u].pc \in {"counter", "announce"} /\ task[p][u].blk = b
      BY <1>3 DEF OrphansAtTasks, OrphanAt
    <3>2. \A b \in orphaned[p] :
            \E u \in Tasks : task'[p][u].pc \in {"counter", "announce"} /\ task'[p][u].blk = b
      BY <1>1, <1>3, <3>1
    <3> QED BY <1>1, <2>1, <3>2
  <2>3. OrphanAt(p)'
    BY <1>3, <2>1, <2>2 DEF OrphanAt, Running
  <2> QED BY <1>2, <1>4, <2>3 DEF OrphansAtTasks
<1>6. CASE orphaned'[p] = orphaned[p]
  BY <1>2, <1>4, <1>6 DEF OrphansAtTasks
<1> QED BY <1>5, <1>6

(* A block is done with: the message of an orphan fails, and ends it.      *)
LEMMA FinishKeepsOrphans ==
  ASSUME SharedInv, OrphansAtTasks, NEW p \in Processes, NEW t \in Tasks, Finish(p, t)
  PROVE  OrphansAtTasks'
<1>1. /\ task'[p][t].blk = task[p][t].blk
      /\ \A u \in Tasks \ {t} : task'[p][u] = task[p][u]
      /\ \A q \in Processes \ {p} : task'[q] = task[q]
  BY LabelSet DEF Finish, SharedInv
<1>2. /\ \A q \in Processes : HasParent(q)' = HasParent(q)
      /\ UNCHANGED <<orphaned, generation>>
      /\ Running(p) /\ task[p][t].pc \in {"announce", "leave"}
  BY DEF Finish, HasParent, At
<1>3. \A q \in Processes \ {p} : status'[q] = status[q]
  BY DEF Finish, Send, SharedInv, TypeOK
<1>4. ASSUME NEW q \in Processes, q # p PROVE OrphanAt(q)'
  BY <1>1, <1>2, <1>3, <1>4, StaysOrphan DEF OrphansAtTasks
<1>5. CASE orphaned[p] = {}
  <2>1. OrphanAt(p)'
    BY <1>2, <1>5 DEF OrphanAt
  <2> QED BY <1>4, <2>1 DEF OrphansAtTasks
<1>6. CASE orphaned[p] # {} /\ task[p][t].pc = "announce"
  <2>1. ~HasParent(p) /\ orphaned[p] \subseteq {task[p][u].blk : u \in Tasks}
    BY <1>2, <1>6 DEF OrphansAtTasks, OrphanAt, Running
  <2>2. status'[p] = "closing"
    BY <1>6, <2>1 DEF Finish, At, Send, SharedInv, TypeOK
  <2>3. \A u \in Tasks : task'[p][u].blk = task[p][u].blk
    BY <1>1
  <2>4. OrphanAt(p)'
    BY <1>2, <2>1, <2>2, <2>3 DEF OrphanAt, Running
  <2> QED BY <1>4, <2>4 DEF OrphansAtTasks
<1>7. CASE task[p][t].pc = "leave"
  <2>1. status' = status
    BY <1>7 DEF Finish, At
  <2>2. \A u \in Tasks :
          \/ task'[p][u] = task[p][u]
          \/ Running(p) /\ task[p][u].pc \notin {"counter", "announce"}
    BY <1>1, <1>2, <1>7
  <2>3. OrphanAt(p)'
    BY <1>2, <2>1, <2>2, StaysOrphan DEF OrphansAtTasks
  <2> QED BY <1>4, <2>3 DEF OrphansAtTasks
<1> QED BY <1>2, <1>5, <1>6, <1>7

(* A process exits: what it stores last a task of it had named.            *)
LEMMA ExitKeepsOrphans ==
  ASSUME SharedInv, OrphansAtTasks, OrphanStoresFew, NEW p \in Processes, Exit(p)
  PROVE  OrphansAtTasks' /\ OrphanStoresFew'
<1>1. /\ status[p] = "closing" /\ status'[p] = "exited"
      /\ \A q \in Processes \ {p} : task'[q] = task[q] /\ status'[q] = status[q]
      /\ \A q \in Processes : HasParent(q)' = HasParent(q)
      /\ generation' = generation
  BY DEF Exit, SharedInv, TypeOK, HasParent, parents
<1>2. /\ \A q \in Processes \ {p} : orphaned'[q] = orphaned[q]
      /\ \/ orphaned'[p] = orphaned[p]
         \/ /\ ~HasParent(p)
            /\ \E t \in Tasks : orphaned'[p] = orphaned[p] \cup {task[p][t].blk}
  <2>1. CASE UNCHANGED orphaned
    BY <2>1
  <2>2. ASSUME NEW t \in Tasks, InsertRow(p, t)
        PROVE  \A q \in Processes :
                 orphaned'[q] = IF q = p /\ ~HasParent(p)
                                THEN orphaned[q] \cup {task[p][t].blk} ELSE orphaned[q]
    BY <2>2, RowAdded DEF SharedInv
  <2> QED BY <2>1, <2>2 DEF Exit
<1>3. \A q \in Processes \ {p} : OrphanAt(q)'
  BY <1>1, <1>2, StaysOrphan DEF OrphansAtTasks
<1>4. OrphanAt(p)'
  BY <1>1, <1>2 DEF OrphansAtTasks, OrphanAt, Running
<1>5. Cardinality(orphaned'[p]) <= Cardinality(Tasks)
  <2>1. orphaned[p] \subseteq {task[p][t].blk : t \in Tasks}
    BY <1>1 DEF OrphansAtTasks, OrphanAt
  <2>2. orphaned'[p] \subseteq {task[p][t].blk : t \in Tasks}
    BY <1>2, <2>1
  <2> QED BY <2>2, FewBlocksNamed
<1> QED BY <1>2, <1>3, <1>4, <1>5 DEF OrphansAtTasks, OrphanStoresFew

(* Every step keeps orphans at their tasks, and their blocks few.          *)
LEMMA NextOrphans ==
  SharedInv /\ OrphansAtTasks /\ OrphanStoresFew /\ [Next]_vars
    => OrphansAtTasks' /\ OrphanStoresFew'
<1> SUFFICES ASSUME SharedInv, OrphansAtTasks, OrphanStoresFew, [Next]_vars
             PROVE  OrphansAtTasks' /\ OrphanStoresFew'
  OBVIOUS
<1>1. ASSUME OrphansAtTasks', \A q \in Processes :
               orphaned'[q] = orphaned[q] \/ status'[q] # "exited"
      PROVE  OrphanStoresFew'
  <2> SUFFICES ASSUME NEW q \in Processes
               PROVE  Cardinality(orphaned'[q]) <= Cardinality(Tasks)
    BY DEF OrphanStoresFew
  <2>1. CASE orphaned'[q] = orphaned[q]
    BY <2>1 DEF OrphanStoresFew
  <2>2. CASE status'[q] # "exited"
    <3>1. orphaned'[q] \subseteq {task'[q][t].blk : t \in Tasks}
      BY <1>1, <2>2 DEF OrphansAtTasks, OrphanAt
    <3> QED BY <3>1, FewBlocksNamed
  <2> QED BY <1>1, <2>1, <2>2
<1>2. ASSUME UNCHANGED <<task, orphaned>>,
             \A q \in Processes : q[2] > generation' => q[2] > generation,
             \A q \in Processes : HasParent(q)' => HasParent(q) \/ q[2] > generation,
             \A q \in Processes :
               status'[q] = status[q] \/ status[q] = "off"
      PROVE  OrphansAtTasks' /\ OrphanStoresFew'
  <2>1. OrphansAtTasks'
    BY <1>2, StaysOrphan DEF OrphansAtTasks
  <2> QED BY <1>1, <1>2, <2>1
<1>3. CASE Commit
  BY <1>2, <1>3 DEF Commit, database, parents, HasParent
<1>4. ASSUME NEW p \in Processes, NEW t \in Tasks,
             StartRound(p, t) \/ SyncBlocks(p, t) \/ Enter(p, t) \/ Count(p, t)
      PROVE  OrphansAtTasks' /\ OrphanStoresFew'
  <2>1. TaskStep(p, t)
    BY <1>4, RoundsMoveTasks DEF SharedInv
  <2>2. ASSUME NEW q \in Processes PROVE OrphanAt(q)'
    BY <2>1, StaysOrphan DEF TaskStep, OrphansAtTasks, HasParent, parents
  <2>3. OrphansAtTasks'
    BY <2>2 DEF OrphansAtTasks
  <2> QED BY <1>1, <2>1, <2>3 DEF TaskStep
<1>5. ASSUME NEW p \in Processes, NEW t \in Tasks, Insert(p, t)
      PROVE  OrphansAtTasks' /\ OrphanStoresFew'
  <2>1. OrphansAtTasks'
    BY <1>5, InsertKeepsOrphans
  <2>2. \A q \in Processes : orphaned'[q] = orphaned[q] \/ status'[q] # "exited"
    <3>1. \A q \in Processes : orphaned'[q] = orphaned[q] \/ q = p
      BY <1>5, RowAdded DEF Insert, SharedInv
    <3> QED BY <1>5, <3>1 DEF Insert, At, Running
  <2> QED BY <1>1, <2>1, <2>2
<1>6. ASSUME NEW p \in Processes, NEW t \in Tasks, Counter(p, t)
      PROVE  OrphansAtTasks' /\ OrphanStoresFew'
  <2>1. /\ task'[p][t].pc = "announce" /\ task'[p][t].blk = task[p][t].blk
        /\ \A u \in Tasks \ {t} : task'[p][u] = task[p][u]
        /\ \A q \in Processes \ {p} : task'[q] = task[q]
    BY <1>6, LabelSet DEF Counter, SharedInv
  <2>2. ASSUME NEW q \in Processes PROVE OrphanAt(q)'
    BY <1>6, <2>1, StaysOrphan DEF Counter, OrphansAtTasks, HasParent, parents
  <2>3. OrphansAtTasks'
    BY <2>2 DEF OrphansAtTasks
  <2> QED BY <1>1, <1>6, <2>3 DEF Counter
<1>7. ASSUME NEW p \in Processes, NEW t \in Tasks, Finish(p, t)
      PROVE  OrphansAtTasks' /\ OrphanStoresFew'
  BY <1>1, <1>7, FinishKeepsOrphans DEF Finish
<1>8. CASE StopExplorer
  BY <1>2, <1>8 DEF StopExplorer, HasParent
<1>9. CASE ExplorerGone
  BY <1>2, <1>9 DEF ExplorerGone, HasParent
<1>10. CASE StartExplorer
  <2>1. generation \in Nat /\ generation' = generation + 1
    BY <1>10, BoundAssumption DEF StartExplorer, SharedInv, TypeOK
  <2>2. \A q \in Processes : q[2] \in Nat
    BY ProcessParts, BoundAssumption
  <2>3. \A q \in Processes : q[2] = generation + 1 => status[q] = "off"
    BY <2>1, <2>2 DEF SharedInv, NotStarted
  <2>4. \A q \in Processes : status'[q] = status[q] \/ status[q] = "off"
    BY <1>10, <2>3 DEF StartExplorer, Forked, SharedInv, TypeOK
  <2>5. \A q \in Processes : HasParent(q)' => q[2] > generation
    BY <2>1, <2>2 DEF HasParent
  <2> QED BY <1>2, <1>10, <2>1, <2>2, <2>4, <2>5 DEF StartExplorer
<1>11. ASSUME NEW p \in Processes, ShutDown(p)
       PROVE  OrphansAtTasks' /\ OrphanStoresFew'
  <2>1. /\ status[p] = "running" /\ status'[p] = "closing"
        /\ \A q \in Processes \ {p} : status'[q] = status[q]
        /\ UNCHANGED <<task, orphaned, generation>>
        /\ \A q \in Processes : HasParent(q)' = HasParent(q)
    BY <1>11 DEF ShutDown, Running, SharedInv, TypeOK, HasParent, parents
  <2>2. \A q \in Processes \ {p} : OrphanAt(q)'
    BY <2>1, StaysOrphan DEF OrphansAtTasks
  <2>3. OrphanAt(p)'
    BY <2>1 DEF OrphansAtTasks, OrphanAt, Running
  <2>4. OrphansAtTasks'
    BY <2>2, <2>3 DEF OrphansAtTasks
  <2> QED BY <1>1, <2>1, <2>4
<1>12. ASSUME NEW p \in Processes, Exit(p) PROVE OrphansAtTasks' /\ OrphanStoresFew'
  BY <1>12, ExitKeepsOrphans
<1>13. CASE UNCHANGED vars
  BY <1>2, <1>13 DEF vars, database, parents, HasParent
<1> QED
  BY <1>3, <1>4, <1>5, <1>6, <1>7, <1>8, <1>9, <1>10, <1>11, <1>12, <1>13
     DEF Next, ProcessBlockEvent

(* THEOREM 5.  process.send: a sync process whose explorer is gone stores  *)
(* no more blocks than it has rounds in flight, because the first message  *)
(* it sends ends it.                                                       *)
THEOREM OrphanStoresFewAlways == Spec => []OrphanStoresFew
<1>1. Init => OrphansAtTasks /\ OrphanStoresFew
  <2> SUFFICES ASSUME Init PROVE OrphansAtTasks /\ OrphanStoresFew
    OBVIOUS
  <2>1. \A p \in Processes : orphaned[p] = {}
    BY DEF Init
  <2>2. Cardinality(Tasks) \in Nat /\ Cardinality({}) = 0
    BY TasksAssumption, FS_CardinalityType, FS_EmptySet
  <2> QED BY <2>1, <2>2 DEF OrphansAtTasks, OrphanAt, OrphanStoresFew
<1> QED BY <1>1, NextOrphans, SharedInvariant, PTL DEF Spec

-----------------------------------------------------------------------------
(* The counter of a network.                                               *)

(* The rows of network n the counter does not count yet: each is at a task *)
(* that updates it next.                                                   *)
Uncounted(n) ==
  {x \in Processes \X Tasks : NetworkOf(x[1]) = n /\ task[x[1]][x[2]].pc = "counter"}

CountedLater ==
  \A n \in Networks :
    /\ IsFiniteSet(RowsOf(n))
    /\ counter[n] + Cardinality(Uncounted(n)) <= Cardinality(RowsOf(n))

(* Tasks are finitely many.                                                *)
LEMMA UncountedFinite ==
  ASSUME NEW S \in SUBSET (Processes \X Tasks)
  PROVE  IsFiniteSet(S) /\ Cardinality(S) \in Nat
<1>1. IsFiniteSet(1 .. Generations)
  BY FS_Interval, BoundAssumption
<1>2. IsFiniteSet(Processes \X Tasks)
  BY <1>1, FS_Product, NetworksAssumption, TasksAssumption DEF Processes
<1> QED BY <1>2, FS_Subset, FS_CardinalityType

(* An insert adds one row, and no other.                                   *)
LEMMA OneRowMore ==
  ASSUME TypeOK, NEW p \in Processes, NEW t \in Tasks, InsertRow(p, t),
         NEW n \in Networks, IsFiniteSet(RowsOf(n))
  PROVE  /\ IsFiniteSet(RowsOf(n)')
         /\ Cardinality(RowsOf(n)') =
              IF n = NetworkOf(p) THEN Cardinality(RowsOf(n)) + 1 ELSE Cardinality(RowsOf(n))
<1> DEFINE b == task[p][t].blk
           new == <<b, rows[n][b] + 1>>
<1>1. b \in Blocks /\ \A c \in Blocks : rows[n][c] \in Nat
  BY DEF TypeOK, Task
<1>2. \A c \in Blocks :
        rows'[n][c] = IF n = NetworkOf(p) /\ c = b THEN rows[n][c] + 1 ELSE rows[n][c]
  BY RowAdded
<1>3. RowsOf(n)' = UNION {{c} \X (1 .. rows'[n][c]) : c \in Blocks}
  BY DEF RowsOf
<1>4. CASE n = NetworkOf(p)
  <2>1. \A c \in Blocks :
          {c} \X (1 .. rows'[n][c]) =
            IF c = b THEN ({c} \X (1 .. rows[n][c])) \cup {new} ELSE {c} \X (1 .. rows[n][c])
    <3> SUFFICES ASSUME NEW c \in Blocks
                 PROVE  {c} \X (1 .. rows'[n][c]) =
                          IF c = b THEN ({c} \X (1 .. rows[n][c])) \cup {new}
                          ELSE {c} \X (1 .. rows[n][c])
      OBVIOUS
    <3>1. CASE c = b
      <4>1. 1 .. rows'[n][c] = (1 .. rows[n][c]) \cup {rows[n][c] + 1}
        BY <1>1, <1>2, <1>4, <3>1
      <4> QED BY <3>1, <4>1
    <3>2. CASE c # b
      BY <1>2, <3>2
    <3> QED BY <3>1, <3>2
  <2>2. RowsOf(n)' = RowsOf(n) \cup {new}
    BY <1>1, <1>3, <2>1 DEF RowsOf
  <2>3. new \notin RowsOf(n)
    <3> SUFFICES ASSUME NEW c \in Blocks, new \in {c} \X (1 .. rows[n][c]) PROVE FALSE
      BY DEF RowsOf
    <3>1. c = b /\ rows[n][b] + 1 \in 1 .. rows[n][b]
      OBVIOUS
    <3> QED BY <1>1, <3>1
  <2> HIDE DEF new
  <2>4. /\ IsFiniteSet(RowsOf(n) \cup {new})
        /\ Cardinality(RowsOf(n) \cup {new}) = Cardinality(RowsOf(n)) + 1
    BY <2>3, FS_AddElement
  <2> QED BY <1>4, <2>2, <2>4
<1>5. CASE n # NetworkOf(p)
  <2>1. \A c \in Blocks : rows'[n][c] = rows[n][c]
    BY <1>2, <1>5
  <2>2. RowsOf(n)' = RowsOf(n)
    BY <1>3, <2>1 DEF RowsOf
  <2> QED BY <1>5, <2>2
<1> QED BY <1>4, <1>5

(* Steps without an insert, and without a task that comes to the update.   *)
LEMMA NothingOwed ==
  ASSUME CountedLater, TypeOK, UNCHANGED database,
         \A p \in Processes, t \in Tasks :
           task'[p][t].pc = "counter" => task[p][t].pc = "counter"
  PROVE  CountedLater'
<1> SUFFICES ASSUME NEW n \in Networks
             PROVE  /\ IsFiniteSet(RowsOf(n)')
                    /\ counter'[n] + Cardinality(Uncounted(n)') <= Cardinality(RowsOf(n)')
  BY DEF CountedLater
<1>1. RowsOf(n)' = RowsOf(n) /\ counter' = counter
  BY DEF RowsOf, database
<1>2. Uncounted(n)' \subseteq Uncounted(n) /\ Uncounted(n) \in SUBSET (Processes \X Tasks)
  BY DEF Uncounted, NetworkOf
<1>3. /\ Cardinality(Uncounted(n)') <= Cardinality(Uncounted(n))
      /\ Cardinality(Uncounted(n)') \in Nat /\ Cardinality(Uncounted(n)) \in Nat
  BY <1>2, UncountedFinite, FS_Subset
<1>4. /\ IsFiniteSet(RowsOf(n))
      /\ counter[n] + Cardinality(Uncounted(n)) <= Cardinality(RowsOf(n))
  BY DEF CountedLater
<1>5. counter[n] \in Nat /\ Cardinality(RowsOf(n)) \in Nat
  BY <1>4, FS_CardinalityType DEF TypeOK
<1> QED BY <1>1, <1>3, <1>4, <1>5

(* An insert, after which one task more at most is at the update.          *)
LEMMA InsertOwed ==
  ASSUME CountedLater, TypeOK, NEW p \in Processes, NEW t \in Tasks, InsertRow(p, t),
         UNCHANGED counter,
         \A q \in Processes, u \in Tasks :
           task'[q][u].pc = "counter" => task[q][u].pc = "counter" \/ (q = p /\ u = t)
  PROVE  CountedLater'
<1> SUFFICES ASSUME NEW n \in Networks
             PROVE  /\ IsFiniteSet(RowsOf(n)')
                    /\ counter'[n] + Cardinality(Uncounted(n)') <= Cardinality(RowsOf(n)')
  BY DEF CountedLater
<1>1. /\ IsFiniteSet(RowsOf(n))
      /\ counter[n] + Cardinality(Uncounted(n)) <= Cardinality(RowsOf(n))
  BY DEF CountedLater
<1>2. counter[n] \in Nat /\ Cardinality(RowsOf(n)) \in Nat
  BY <1>1, FS_CardinalityType DEF TypeOK
<1>3. /\ IsFiniteSet(RowsOf(n)')
      /\ Cardinality(RowsOf(n)') =
           IF n = NetworkOf(p) THEN Cardinality(RowsOf(n)) + 1 ELSE Cardinality(RowsOf(n))
  BY <1>1, OneRowMore
<1>4. /\ Uncounted(n) \in SUBSET (Processes \X Tasks)
      /\ Uncounted(n)' \in SUBSET (Processes \X Tasks)
      /\ Uncounted(n)' \subseteq
           IF n = NetworkOf(p) THEN Uncounted(n) \cup {<<p, t>>} ELSE Uncounted(n)
  BY DEF Uncounted, NetworkOf
<1>5. /\ IsFiniteSet(Uncounted(n)) /\ Cardinality(Uncounted(n)) \in Nat
      /\ Cardinality(Uncounted(n)') \in Nat
  BY <1>4, UncountedFinite
<1>6. /\ IsFiniteSet(Uncounted(n) \cup {<<p, t>>})
      /\ Cardinality(Uncounted(n) \cup {<<p, t>>}) <= Cardinality(Uncounted(n)) + 1
      /\ Cardinality(Uncounted(n) \cup {<<p, t>>}) \in Nat
  <2>1. /\ IsFiniteSet(Uncounted(n) \cup {<<p, t>>})
        /\ Cardinality(Uncounted(n) \cup {<<p, t>>}) =
             IF <<p, t>> \in Uncounted(n) THEN Cardinality(Uncounted(n))
             ELSE Cardinality(Uncounted(n)) + 1
    BY <1>5, FS_AddElement
  <2> QED BY <1>5, <2>1
<1>7. Cardinality(Uncounted(n)') <=
        IF n = NetworkOf(p) THEN Cardinality(Uncounted(n)) + 1 ELSE Cardinality(Uncounted(n))
  <2>1. CASE n = NetworkOf(p)
    <3>1. Cardinality(Uncounted(n)') <= Cardinality(Uncounted(n) \cup {<<p, t>>})
      BY <1>4, <1>6, <2>1, FS_Subset
    <3> QED BY <1>5, <1>6, <2>1, <3>1
  <2>2. CASE n # NetworkOf(p)
    BY <1>4, <1>5, <2>2, FS_Subset
  <2> QED BY <2>1, <2>2
<1> QED BY <1>1, <1>2, <1>3, <1>5, <1>7

(* An update, after which the task of it is no longer there.               *)
LEMMA UpdateOwed ==
  ASSUME CountedLater, TypeOK, NEW p \in Processes, NEW t \in Tasks, CountUp(p),
         UNCHANGED rows, task[p][t].pc = "counter", task'[p][t].pc # "counter",
         \A q \in Processes, u \in Tasks :
           task'[q][u].pc = "counter" => task[q][u].pc = "counter"
  PROVE  CountedLater'
<1> SUFFICES ASSUME NEW n \in Networks
             PROVE  /\ IsFiniteSet(RowsOf(n)')
                    /\ counter'[n] + Cardinality(Uncounted(n)') <= Cardinality(RowsOf(n)')
  BY DEF CountedLater
<1>1. /\ IsFiniteSet(RowsOf(n))
      /\ counter[n] + Cardinality(Uncounted(n)) <= Cardinality(RowsOf(n))
  BY DEF CountedLater
<1>2. counter[n] \in Nat /\ Cardinality(RowsOf(n)) \in Nat
  BY <1>1, FS_CardinalityType DEF TypeOK
<1>3. RowsOf(n)' = RowsOf(n)
  BY DEF RowsOf
<1>4. counter'[n] = IF n = NetworkOf(p) THEN counter[n] + 1 ELSE counter[n]
  BY DEF CountUp, TypeOK
<1>5. /\ Uncounted(n) \in SUBSET (Processes \X Tasks)
      /\ Uncounted(n)' \in SUBSET (Processes \X Tasks)
      /\ Uncounted(n)' \subseteq Uncounted(n) \ {<<p, t>>}
      /\ n = NetworkOf(p) => <<p, t>> \in Uncounted(n)
  BY DEF Uncounted, NetworkOf
<1>6. /\ IsFiniteSet(Uncounted(n)) /\ Cardinality(Uncounted(n)) \in Nat
      /\ Cardinality(Uncounted(n)') \in Nat
  BY <1>5, UncountedFinite
<1>7. /\ IsFiniteSet(Uncounted(n) \ {<<p, t>>})
      /\ Cardinality(Uncounted(n) \ {<<p, t>>}) =
           IF <<p, t>> \in Uncounted(n) THEN Cardinality(Uncounted(n)) - 1
           ELSE Cardinality(Uncounted(n))
  BY <1>6, FS_RemoveElement
<1>8. Cardinality(Uncounted(n)') <= Cardinality(Uncounted(n) \ {<<p, t>>})
  BY <1>5, <1>7, FS_Subset
<1> QED BY <1>1, <1>2, <1>3, <1>4, <1>5, <1>6, <1>7, <1>8

(* Every step keeps the balance.                                           *)
LEMMA NextCounted == TypeOK /\ CountedLater /\ [Next]_vars => CountedLater'
<1> SUFFICES ASSUME TypeOK, CountedLater, [Next]_vars PROVE CountedLater'
  OBVIOUS
<1>1. CASE UNCHANGED <<database, task>>
  BY <1>1, NothingOwed
<1>2. ASSUME NEW p \in Processes, NEW t \in Tasks,
             StartRound(p, t) \/ SyncBlocks(p, t) \/ Enter(p, t) \/ Count(p, t)
      PROVE  CountedLater'
  <2>1. TaskStep(p, t)
    BY <1>2, RoundsMoveTasks
  <2>2. \A q \in Processes, u \in Tasks :
          task'[q][u].pc = "counter" => task[q][u].pc = "counter"
    BY <2>1 DEF TaskStep
  <2> QED BY <2>1, <2>2, NothingOwed DEF TaskStep
<1>3. ASSUME NEW p \in Processes, NEW t \in Tasks, Insert(p, t) PROVE CountedLater'
  <2>1. /\ \A u \in Tasks \ {t} : task'[p][u] = task[p][u]
        /\ \A q \in Processes \ {p} : task'[q] = task[q]
    BY <1>3, LabelSet DEF Insert
  <2>2. \A q \in Processes, u \in Tasks :
          task'[q][u].pc = "counter" => task[q][u].pc = "counter" \/ (q = p /\ u = t)
    BY <2>1
  <2> QED BY <1>3, <2>2, InsertOwed DEF Insert
<1>4. ASSUME NEW p \in Processes, NEW t \in Tasks, Counter(p, t) PROVE CountedLater'
  <2>1. /\ task'[p][t].pc = "announce"
        /\ \A q \in Processes, u \in Tasks :
             task'[q][u].pc = "counter" => task[q][u].pc = "counter"
    BY <1>4, LabelSet DEF Counter
  <2> QED BY <1>4, <2>1, UpdateOwed DEF Counter, At
<1>5. ASSUME NEW p \in Processes, NEW t \in Tasks, Finish(p, t) PROVE CountedLater'
  <2>1. task[p][t].loop # "counter"
    BY DEF TypeOK, Task
  <2>2. \A q \in Processes, u \in Tasks :
          task'[q][u].pc = "counter" => task[q][u].pc = "counter"
    BY <1>5, <2>1, LabelSet DEF Finish
  <2> QED BY <1>5, <2>2, NothingOwed DEF Finish
<1>6. ASSUME NEW p \in Processes, Exit(p) PROVE CountedLater'
  <2>1. /\ \A u \in Tasks : task'[p][u].pc = "off"
        /\ \A q \in Processes \ {p} : task'[q] = task[q]
    BY <1>6 DEF Exit, TypeOK, Idle
  <2>2. \A q \in Processes, u \in Tasks :
          task'[q][u].pc = "counter" => task[q][u].pc = "counter"
    BY <2>1
  <2>3. CASE UNCHANGED database
    BY <2>2, <2>3, NothingOwed
  <2>4. ASSUME NEW t \in Tasks, InsertRow(p, t), UNCHANGED counter PROVE CountedLater'
    <3>1. \A q \in Processes, u \in Tasks :
            task'[q][u].pc = "counter" => task[q][u].pc = "counter" \/ (q = p /\ u = t)
      BY <2>2
    <3> QED BY <2>4, <3>1, InsertOwed
  <2>5. ASSUME NEW t \in Tasks, task[p][t].pc = "counter", CountUp(p), UNCHANGED rows
        PROVE  CountedLater'
    BY <2>1, <2>2, <2>5, UpdateOwed
  <2> QED BY <1>6, <2>3, <2>4, <2>5 DEF Exit
<1>7. CASE Commit \/ StopExplorer \/ ExplorerGone \/ StartExplorer
            \/ \E p \in Processes : ShutDown(p)
  BY <1>1, <1>7 DEF Commit, StopExplorer, ExplorerGone, StartExplorer, ShutDown
<1>8. CASE UNCHANGED vars
  BY <1>1, <1>8 DEF vars
<1> QED BY <1>2, <1>3, <1>4, <1>5, <1>6, <1>7, <1>8 DEF Next, ProcessBlockEvent

(* THEOREM 6.  updateChannel: the counter of a network never passes its    *)
(* rows, whichever processes store them and wherever they end.             *)
THEOREM CounterWithinRowsAlways == Spec => []CounterWithinRows
<1>1. Init => CountedLater
  <2> SUFFICES ASSUME Init, NEW n \in Networks
               PROVE  /\ IsFiniteSet(RowsOf(n))
                      /\ counter[n] + Cardinality(Uncounted(n)) <= Cardinality(RowsOf(n))
    BY DEF CountedLater
  <2>1. RowsOf(n) = {}
    BY DEF Init, RowsOf
  <2>2. Uncounted(n) = {}
    BY DEF Init, Uncounted, Idle
  <2> QED BY <2>1, <2>2, FS_EmptySet DEF Init
<1>2. TypeOK /\ CountedLater => CounterWithinRows
  <2> SUFFICES ASSUME TypeOK, CountedLater, NEW n \in Networks
               PROVE  counter[n] <= Cardinality(RowsOf(n))
    BY DEF CounterWithinRows
  <2>1. /\ IsFiniteSet(RowsOf(n)) /\ counter[n] \in Nat
        /\ counter[n] + Cardinality(Uncounted(n)) <= Cardinality(RowsOf(n))
    BY DEF CountedLater, TypeOK
  <2>2. Uncounted(n) \in SUBSET (Processes \X Tasks)
    BY DEF Uncounted
  <2>3. Cardinality(Uncounted(n)) \in Nat /\ Cardinality(RowsOf(n)) \in Nat
    BY <2>1, <2>2, UncountedFinite, FS_CardinalityType
  <2> QED BY <2>1, <2>3
<1> QED BY <1>1, <1>2, NextCounted, SharedTypeCorrect, PTL DEF Spec

=============================================================================
