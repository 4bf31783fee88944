-------------------------- MODULE BlockSync_proofs --------------------------
(***************************************************************************)
(* Proofs about BlockSync, for every finite set of listeners and rounds,   *)
(* every ledger and every number of crashes and failures.                  *)
(***************************************************************************)
EXTENDS BlockSync, FiniteSetTheorems, TLAPS

(* A round that is past queryChainInfo has a window.                       *)
WindowKnown ==
  \A r \in Rounds : pc[r] \notin {"off", "chainInfo"} =>
                      boot.mode = "ALL" \/ boot.noOfBlocks # NaN

(* The tasks only ever name blocks the ledger has.                         *)
TasksInLedger ==
  /\ \A p \in Proc : pc[p] \in {"enter"} \cup Processing => blk[p] \in 0 .. height - 1
  /\ \A r \in Rounds : /\ pc[r] = "load" => blk[r] < height
                       /\ latest[r] < height
                       /\ todo[r] \subseteq 0 .. height - 1

(* txIndex is inside the block while its transactions are written.         *)
TxIndexInBlock ==
  \A p \in Proc : pc[p] \in InTransaction => txi[p] \in 1 .. Len(TxsOf[blk[p]])

TypeInv == TypeOK /\ WindowKnown /\ TasksInLedger /\ TxIndexInBlock

(* What a task has established of the rows by the await it has reached.    *)
TaskRows(p) ==
  LET b == blk[p] IN
  /\ pc[p] \in InTransaction =>
       \A i \in 1 .. Len(TxsOf[b]) : i < txi[p] => txRows[b][TxsOf[b][i]] > 0
  /\ pc[p] = "txInsert" => txRows[b][TxAt(p)] = 0
  /\ pc[p] \in {"txChaincode", "txChannel"} => txRows[b][TxAt(p)] > 0
  /\ pc[p] \in InBlock =>
       \A i \in 1 .. Len(TxsOf[b]) : txRows[b][TxsOf[b][i]] > 0
  /\ pc[p] = "blockInsert" => blockRows[b] = 0
  /\ pc[p] \in {"blockCounter", "announce"} => blockRows[b] > 0 /\ announced[b] = 0
  /\ pc[p] = "leave" => blockRows[b] > 0

RowsInv ==
  /\ OneTaskPerBlock
  /\ \A p \in Proc : TaskRows(p)
  /\ NoDuplicateRows
  /\ StoredBlockIsComplete
  /\ AnnouncedOnceStored

-----------------------------------------------------------------------------

(* The ids of a block's transactions, from TxsAssumption.                  *)
LEMMA TxsOfType ==
  \A b \in Blocks : /\ Len(TxsOf[b]) \in Nat \ {0}
                    /\ \A i \in 1 .. Len(TxsOf[b]) : TxsOf[b][i] \in Txs
<1>1. TAKE b \in Blocks
<1>2. TxsOf[b] \in Seq(Txs) /\ Len(TxsOf[b]) > 0
  BY <1>1, TxsAssumption
<1> QED BY <1>2

(* Moving a task to another await keeps the type of pc.                    *)
LEMMA GotoType ==
  ASSUME TasksOK, NEW p \in Proc, NEW label \in Labels, Goto(p, label)
  PROVE  pc' \in [Proc -> Labels]
BY DEF TasksOK, Goto

(* A task in processBlockEvent works on a block of the ledger.             *)
LEMMA BlockOfTask ==
  ASSUME TypeInv, NEW p \in Proc, pc[p] \in {"enter"} \cup Processing
  PROVE  blk[p] \in Blocks /\ blk[p] < height
BY HeightAssumption DEF TypeInv, TypeOK, LedgerOK, TasksInLedger, Blocks

(* The transaction a task is at is one of its block.                       *)
LEMMA TxOfTask ==
  ASSUME TypeInv, NEW p \in Proc, pc[p] \in InTransaction
  PROVE  /\ txi[p] \in 1 .. Len(TxsOf[blk[p]])
         /\ TxAt(p) \in Txs
BY BlockOfTask, TxsOfType DEF TypeInv, TxIndexInBlock, TxAt, Processing

(* The index of the loop that loads the window is the number of a block.   *)
LEMMA LoadedBlock ==
  ASSUME TypeInv, NEW r \in Rounds, pc[r] = "load",
         blk[r] >= StartingBlockHeight(latest[r])
  PROVE  blk[r] \in Blocks /\ blk[r] < height
<1>1. boot.mode = "ALL" \/ (boot.mode = "CUSTOM" /\ boot.noOfBlocks \in Int)
  BY BootAssumption DEF TypeInv, TypeOK, ProcessOK, WindowKnown
<1>2. latest[r] \in Int /\ blk[r] \in -1 .. MaxHeight - 1
  BY DEF TypeInv, TypeOK, RoundsOK, TasksOK, Blocks, Proc
<1>3. StartingBlockHeight(latest[r]) \in Nat
  BY <1>1, <1>2 DEF StartingBlockHeight, NoOfBlocks
<1> QED BY <1>2, <1>3, HeightAssumption DEF TypeInv, TasksInLedger, Blocks

(* Giving control back to the caller keeps the types of the task's state.  *)
LEMMA ResumeType ==
  ASSUME TypeOK, NEW p \in Proc, blk[p] \in Blocks, Resume(p)
  PROVE  TasksOK'
<1>1. p \in Listeners \/ phase[p] \in Loops
  BY DEF TypeOK, RoundsOK, Proc
<1>2. pc' \in [Proc -> Labels]
  BY <1>1 DEF TypeOK, TasksOK, Resume, Labels
<1>3. blk' \in [Proc -> -1 .. MaxHeight - 1]
  BY HeightAssumption DEF TypeOK, TasksOK, Resume, Blocks
<1> QED BY <1>2, <1>3 DEF TypeOK, TasksOK, Resume

(* So does going on to the next transaction.                               *)
LEMMA NextTxType ==
  ASSUME TasksOK, NEW p \in Proc, NextTx(p)
  PROVE  pc' \in [Proc -> Labels] /\ txi' \in [Proc -> Nat]
<1>1. {"txCount", "blockCount"} \subseteq Labels
  BY DEF Labels, Processing, InTransaction, InBlock
<1>2. \/ Goto(p, "txCount") /\ txi' = [txi EXCEPT ![p] = txi[p] + 1]
      \/ Goto(p, "blockCount") /\ txi' = [txi EXCEPT ![p] = 0]
  BY DEF NextTx
<1>3. pc' \in [Proc -> Labels]
  BY <1>1, <1>2, GotoType
<1>4. txi[p] \in Nat
  BY DEF TasksOK
<1> QED BY <1>2, <1>3, <1>4 DEF TasksOK

(* So does leaving syncBlocks.                                             *)
LEMMA EndRoundType ==
  ASSUME TypeOK, NEW r \in Rounds, EndRound(r)
  PROVE  /\ pc' \in [Proc -> Labels]
         /\ blk' \in [Proc -> -1 .. MaxHeight - 1]
         /\ latest' \in [Rounds -> Blocks]
         /\ phase' \in [Rounds -> Loops]
<1>1. "off" \in Labels /\ "load" \in Loops /\ 0 \in Blocks /\ 0 \in -1 .. MaxHeight - 1
  BY HeightAssumption DEF Labels, Loops, Blocks
<1> QED BY <1>1, GotoType DEF EndRound, TypeOK, TasksOK, RoundsOK, Proc

(* The missing blocks are blocks the round has seen in the ledger.         *)
LEMMA MissingBlocksType ==
  ASSUME TypeOK, NEW r \in Rounds
  PROVE  MissingBlocks(r) \subseteq 0 .. latest[r] /\ 0 .. latest[r] \subseteq Blocks
<1>1. latest[r] \in Blocks
  BY DEF TypeOK, RoundsOK
<1> QED BY <1>1, HeightAssumption DEF MissingBlocks, Blocks

(* Every step keeps the types: one step per action, and under it one per   *)
(* part of TypeOK that the action touches.                                 *)
LEMMA TypePreserved ==
  ASSUME TypeInv, [Next]_vars
  PROVE  TypeOK'
<1> USE DEF ledger, database, parent, shared, roundVars, faults, recorded
<1>0. TypeOK
  BY DEF TypeInv
<1>1. CASE Commit
  <2>1. LedgerOK'
    BY <1>0, <1>1, HeightAssumption DEF TypeOK, LedgerOK, Commit
  <2> QED BY <1>0, <1>1, <2>1
       DEF Commit, TypeOK, DatabaseOK, ProcessOK, TasksOK, RoundsOK, FaultsOK, RecordedOK
<1>2. ASSUME NEW l \in Listeners, Connect(l) PROVE TypeOK'
  <2>1. ProcessOK'
    BY <1>0, <1>2 DEF TypeOK, LedgerOK, ProcessOK, Connect
  <2>2. TasksOK'
    BY <1>0, <1>2, GotoType DEF TypeOK, TasksOK, Connect, Proc, Labels
  <2> QED BY <1>0, <1>2, <2>1, <2>2
       DEF Connect, TypeOK, LedgerOK, DatabaseOK, RoundsOK, FaultsOK, RecordedOK
<1>3. ASSUME NEW l \in Listeners, Deliver(l) PROVE TypeOK'
  <2>1. ProcessOK'
    BY <1>0, <1>3 DEF TypeOK, ProcessOK, Deliver
  <2>2. TasksOK'
    BY <1>0, <1>3, HeightAssumption, GotoType
         DEF TypeOK, LedgerOK, ProcessOK, TasksOK, Deliver, Proc, Labels
  <2> QED BY <1>0, <1>3, <2>1, <2>2
       DEF Deliver, TypeOK, LedgerOK, DatabaseOK, RoundsOK, FaultsOK, RecordedOK
<1>4. ASSUME NEW r \in Rounds, StartRound(r) PROVE TypeOK'
  <2>1. TasksOK'
    BY <1>0, <1>4, GotoType
         DEF TypeOK, TasksOK, StartRound, Proc, Labels, Processing, InTransaction, InBlock
  <2> QED BY <1>0, <1>4, <2>1
       DEF StartRound, TypeOK, LedgerOK, DatabaseOK, ProcessOK, RoundsOK, FaultsOK, RecordedOK
<1>5. ASSUME NEW r \in Rounds, ChainInfo(r) PROVE TypeOK'
  <2>1. TasksOK'
    BY <1>0, <1>5, HeightAssumption, GotoType
         DEF TypeOK, LedgerOK, TasksOK, ChainInfo, Proc, Labels, Processing,
             InTransaction, InBlock, Loops
  <2>2. RoundsOK'
    BY <1>0, <1>5, HeightAssumption DEF TypeOK, LedgerOK, RoundsOK, ChainInfo, Blocks
  <2> QED BY <1>0, <1>5, <2>1, <2>2
       DEF ChainInfo, TypeOK, LedgerOK, DatabaseOK, ProcessOK, FaultsOK, RecordedOK
<1>6. ASSUME NEW r \in Rounds, InvalidNoOfBlocks(r) PROVE TypeOK'
  <2>1. TasksOK'
    BY <1>0, <1>6, EndRoundType DEF TypeOK, TasksOK, InvalidNoOfBlocks
  <2>2. RoundsOK'
    BY <1>0, <1>6, EndRoundType DEF TypeOK, RoundsOK, InvalidNoOfBlocks
  <2> QED BY <1>0, <1>6, <2>1, <2>2
       DEF InvalidNoOfBlocks, TypeOK, LedgerOK, DatabaseOK, ProcessOK, FaultsOK, RecordedOK
<1>7. ASSUME NEW r \in Rounds, LoadBlock(r) PROVE TypeOK'
  <2>1. TasksOK'
    BY <1>0, <1>7, LoadedBlock, GotoType, ResumeType
         DEF TypeOK, TasksOK, LoadBlock, Proc, Labels
  <2> QED BY <1>0, <1>7, <2>1
       DEF LoadBlock, TypeOK, LedgerOK, DatabaseOK, ProcessOK, RoundsOK, FaultsOK, RecordedOK
<1>8. ASSUME NEW r \in Rounds, LoadDone(r) PROVE TypeOK'
  <2>1. TasksOK'
    BY <1>0, <1>8, HeightAssumption, GotoType
         DEF TypeOK, TasksOK, LoadDone, Proc, Labels, Processing, InTransaction, InBlock,
             Loops
  <2> QED BY <1>0, <1>8, <2>1
       DEF LoadDone, TypeOK, LedgerOK, DatabaseOK, ProcessOK, RoundsOK, FaultsOK, RecordedOK
<1>9. ASSUME NEW r \in Rounds, FindMissing(r) PROVE TypeOK'
  <2>1. TasksOK'
    BY <1>0, <1>9, GotoType
         DEF TypeOK, TasksOK, FindMissing, Proc, Labels, Processing, InTransaction,
             InBlock, Loops
  <2>2. RoundsOK'
    BY <1>0, <1>9, MissingBlocksType DEF TypeOK, RoundsOK, FindMissing, Loops
  <2> QED BY <1>0, <1>9, <2>1, <2>2
       DEF FindMissing, TypeOK, LedgerOK, DatabaseOK, ProcessOK, FaultsOK, RecordedOK
<1>10. ASSUME NEW r \in Rounds, NextMissing(r) PROVE TypeOK'
  <2>1. TasksOK'
    BY <1>0, <1>10, GotoType, HeightAssumption
         DEF TypeOK, RoundsOK, Blocks, TasksOK, NextMissing, Proc, Labels, Processing,
             InTransaction, InBlock, Loops
  <2>2. RoundsOK'
    BY <1>0, <1>10 DEF TypeOK, RoundsOK, NextMissing
  <2> QED BY <1>0, <1>10, <2>1, <2>2
       DEF NextMissing, TypeOK, LedgerOK, DatabaseOK, ProcessOK, FaultsOK, RecordedOK
<1>11. ASSUME NEW r \in Rounds, FinishRound(r) PROVE TypeOK'
  <2>1. ProcessOK'
    BY <1>0, <1>11 DEF TypeOK, ProcessOK, FinishRound
  <2>2. TasksOK'
    BY <1>0, <1>11, EndRoundType DEF TypeOK, TasksOK, FinishRound
  <2>3. RoundsOK'
    BY <1>0, <1>11, EndRoundType DEF TypeOK, RoundsOK, FinishRound
  <2> QED BY <1>0, <1>11, <2>1, <2>2, <2>3
       DEF FinishRound, TypeOK, LedgerOK, DatabaseOK, FaultsOK, RecordedOK
<1>12. ASSUME NEW p \in Proc, Enter(p) PROVE TypeOK'
  <2>1. ProcessOK'
    BY <1>0, <1>12, BlockOfTask DEF TypeOK, ProcessOK, Enter
  <2>2. TasksOK'
    BY <1>0, <1>12, BlockOfTask, GotoType, ResumeType
         DEF TypeOK, TasksOK, Enter, Labels, Processing, InTransaction
  <2> QED BY <1>0, <1>12, <2>1, <2>2
       DEF Enter, TypeOK, LedgerOK, DatabaseOK, RoundsOK, FaultsOK, RecordedOK
<1>13. ASSUME NEW p \in Proc, TxCount(p) PROVE TypeOK'
  <2>1. TasksOK'
    BY <1>0, <1>13, GotoType, NextTxType
         DEF TypeOK, TasksOK, TxCount, Labels, Processing, InTransaction
  <2> QED BY <1>0, <1>13, <2>1
       DEF TxCount, TypeOK, LedgerOK, DatabaseOK, ProcessOK, RoundsOK, FaultsOK, RecordedOK
<1>14. ASSUME NEW p \in Proc, TxInsert(p) PROVE TypeOK'
  <2>1. DatabaseOK'
    BY <1>0, <1>14, BlockOfTask, TxOfTask
         DEF TypeOK, DatabaseOK, TxInsert, Processing, InTransaction
  <2>2. TasksOK'
    BY <1>0, <1>14, GotoType
         DEF TypeOK, TasksOK, TxInsert, Proc, Labels, Processing, InTransaction, InBlock,
             Loops
  <2> QED BY <1>0, <1>14, <2>1, <2>2
       DEF TxInsert, TypeOK, LedgerOK, ProcessOK, RoundsOK, FaultsOK, RecordedOK
<1>15. ASSUME NEW p \in Proc, TxChaincode(p) PROVE TypeOK'
  <2>1. DatabaseOK'
    BY <1>0, <1>15 DEF TypeOK, DatabaseOK, TxChaincode
  <2>3. RecordedOK'
    BY <1>0, <1>15 DEF TypeOK, RecordedOK, TxChaincode
  <2>2. TasksOK'
    BY <1>0, <1>15, GotoType
         DEF TypeOK, TasksOK, TxChaincode, Proc, Labels, Processing, InTransaction,
             InBlock, Loops
  <2> QED BY <1>0, <1>15, <2>1, <2>2, <2>3
       DEF TxChaincode, TypeOK, LedgerOK, ProcessOK, RoundsOK, FaultsOK, RecordedOK
<1>16. ASSUME NEW p \in Proc, TxChannel(p) PROVE TypeOK'
  <2>1. DatabaseOK'
    BY <1>0, <1>16 DEF TypeOK, DatabaseOK, TxChannel
  <2>2. TasksOK'
    BY <1>0, <1>16, NextTxType DEF TypeOK, TasksOK, TxChannel
  <2> QED BY <1>0, <1>16, <2>1, <2>2
       DEF TxChannel, TypeOK, LedgerOK, ProcessOK, RoundsOK, FaultsOK, RecordedOK
<1>17. ASSUME NEW p \in Proc, BlockCount(p) PROVE TypeOK'
  <2>1. TasksOK'
    BY <1>0, <1>17, GotoType
         DEF TypeOK, TasksOK, BlockCount, Proc, Labels, Processing, InTransaction, InBlock
  <2> QED BY <1>0, <1>17, <2>1
       DEF BlockCount, TypeOK, LedgerOK, DatabaseOK, ProcessOK, RoundsOK, FaultsOK, RecordedOK
<1>18. ASSUME NEW p \in Proc, BlockInsert(p) PROVE TypeOK'
  <2>1. DatabaseOK'
    BY <1>0, <1>18, BlockOfTask DEF TypeOK, DatabaseOK, BlockInsert, Processing, InBlock
  <2>2. TasksOK'
    BY <1>0, <1>18, GotoType
         DEF TypeOK, TasksOK, BlockInsert, Proc, Labels, Processing, InTransaction,
             InBlock, Loops
  <2> QED BY <1>0, <1>18, <2>1, <2>2
       DEF BlockInsert, TypeOK, LedgerOK, ProcessOK, RoundsOK, FaultsOK, RecordedOK
<1>19. ASSUME NEW p \in Proc, BlockCounter(p) PROVE TypeOK'
  <2>1. DatabaseOK'
    BY <1>0, <1>19 DEF TypeOK, DatabaseOK, BlockCounter
  <2>2. TasksOK'
    BY <1>0, <1>19, GotoType
         DEF TypeOK, TasksOK, BlockCounter, Proc, Labels, Processing, InTransaction,
             InBlock, Loops
  <2> QED BY <1>0, <1>19, <2>1, <2>2
       DEF BlockCounter, TypeOK, LedgerOK, ProcessOK, RoundsOK, FaultsOK, RecordedOK
<1>20. ASSUME NEW p \in Proc, Finish(p) PROVE TypeOK'
  <2>1. ProcessOK'
    BY <1>0, <1>20, BlockOfTask DEF TypeOK, ProcessOK, Finish, Processing, InBlock
  <2>2. TasksOK'
    BY <1>0, <1>20, BlockOfTask, ResumeType DEF TypeOK, Finish, Processing, InBlock
  <2> QED BY <1>0, <1>20, <2>1, <2>2
       DEF Finish, TypeOK, LedgerOK, DatabaseOK, RoundsOK, FaultsOK, RecordedOK
<1>21. ASSUME NEW r \in Rounds, ChainInfoNull(r) PROVE TypeOK'
  <2>1. TasksOK'
    BY <1>0, <1>21, EndRoundType DEF TypeOK, TasksOK, ChainInfoNull
  <2>2. RoundsOK'
    BY <1>0, <1>21, EndRoundType DEF TypeOK, RoundsOK, ChainInfoNull
  <2>3. FaultsOK'
    BY <1>0, <1>21, BoundsAssumption DEF TypeOK, FaultsOK, ChainInfoNull
  <2> QED BY <1>0, <1>21, <2>1, <2>2, <2>3
       DEF ChainInfoNull, TypeOK, LedgerOK, DatabaseOK, ProcessOK, RecordedOK
<1>22. ASSUME NEW r \in Rounds, LoadBlockNull(r) PROVE TypeOK'
  <2>1. TasksOK'
    BY <1>0, <1>22, LoadedBlock, ResumeType DEF TypeOK, LoadBlockNull, Proc
  <2>2. FaultsOK'
    BY <1>0, <1>22, BoundsAssumption DEF TypeOK, FaultsOK, LoadBlockNull
  <2> QED BY <1>0, <1>22, <2>1, <2>2
       DEF LoadBlockNull, TypeOK, LedgerOK, DatabaseOK, ProcessOK, RoundsOK, RecordedOK
<1>23. ASSUME NEW r \in Rounds, NextMissingNull(r) PROVE TypeOK'
  <2>1. RoundsOK'
    BY <1>0, <1>23 DEF TypeOK, RoundsOK, NextMissingNull
  <2>2. FaultsOK'
    BY <1>0, <1>23, BoundsAssumption DEF TypeOK, FaultsOK, NextMissingNull
  <2> QED BY <1>0, <1>23, <2>1, <2>2
       DEF NextMissingNull, TypeOK, LedgerOK, DatabaseOK, ProcessOK, TasksOK, RecordedOK
<1>24. ASSUME NEW p \in Proc, ProcessingFails(p) PROVE TypeOK'
  <2>1. TasksOK'
    BY <1>0, <1>24, BlockOfTask, ResumeType DEF TypeOK, ProcessingFails
  <2>2. FaultsOK'
    BY <1>0, <1>24, BoundsAssumption DEF TypeOK, FaultsOK, ProcessingFails
  <2>3. RecordedOK'
    <3>1. blk[p] \in Blocks
      BY <1>24, BlockOfTask DEF ProcessingFails
    <3> QED BY <1>0, <1>24, <3>1 DEF TypeOK, RecordedOK, ProcessingFails
  <2> QED BY <1>0, <1>24, <2>1, <2>2, <2>3
       DEF ProcessingFails, TypeOK, LedgerOK, DatabaseOK, ProcessOK, RoundsOK
<1>25. ASSUME NEW r \in Rounds, LoadBlockFails(r) PROVE TypeOK'
  <2>1. TasksOK'
    BY <1>0, <1>25, LoadedBlock, ResumeType DEF TypeOK, LoadBlockFails, Proc
  <2>2. FaultsOK'
    BY <1>0, <1>25, BoundsAssumption DEF TypeOK, FaultsOK, LoadBlockFails
  <2> QED BY <1>0, <1>25, <2>1, <2>2
       DEF LoadBlockFails, TypeOK, LedgerOK, DatabaseOK, ProcessOK, RoundsOK, RecordedOK
<1>26. ASSUME NEW r \in Rounds, FindMissingFails(r) PROVE TypeOK'
  <2>1. TasksOK'
    BY <1>0, <1>26, EndRoundType DEF TypeOK, TasksOK, FindMissingFails
  <2>2. RoundsOK'
    BY <1>0, <1>26, EndRoundType DEF TypeOK, RoundsOK, FindMissingFails
  <2>3. FaultsOK'
    BY <1>0, <1>26, BoundsAssumption DEF TypeOK, FaultsOK, FindMissingFails
  <2> QED BY <1>0, <1>26, <2>1, <2>2, <2>3
       DEF FindMissingFails, TypeOK, LedgerOK, DatabaseOK, ProcessOK, RecordedOK
<1>27. CASE Crash
  <2>1. ProcessOK'
    BY <1>0, <1>27 DEF TypeOK, ProcessOK, Crash
  <2>2. TasksOK'
    BY <1>0, <1>27, HeightAssumption DEF TypeOK, TasksOK, Crash, Labels
  <2>3. RoundsOK'
    BY <1>0, <1>27, HeightAssumption DEF TypeOK, RoundsOK, Crash, Blocks, Loops
  <2>4. FaultsOK'
    BY <1>0, <1>27, BoundsAssumption DEF TypeOK, FaultsOK, Crash
  <2>5. RecordedOK'
    <3>1. \A p \in At(Announcing) : p \in Proc /\ pc[p] \in Processing
      BY DEF At, Announcing, Processing, InBlock
    <3>2. \A p \in At(Announcing) : blk[p] \in Blocks
      BY <3>1, BlockOfTask
    <3> QED BY <1>0, <1>27, <3>2 DEF TypeOK, RecordedOK, Crash
  <2> QED BY <1>0, <1>27, <2>1, <2>2, <2>3, <2>4, <2>5
       DEF Crash, TypeOK, LedgerOK, DatabaseOK
<1>28. CASE Restart
  <2>1. ProcessOK'
    BY <1>0, <1>28 DEF TypeOK, ProcessOK, Restart
  <2> QED BY <1>0, <1>28, <2>1
       DEF Restart, TypeOK, LedgerOK, DatabaseOK, TasksOK, RoundsOK, FaultsOK, RecordedOK
<1>29. CASE UNCHANGED vars
  BY <1>0, <1>29
       DEF vars, TypeOK, LedgerOK, DatabaseOK, ProcessOK, TasksOK, RoundsOK, FaultsOK, RecordedOK
<1>30. ASSUME NEW c \in Chaincodes, RegisterChaincode(c) PROVE TypeOK'
  <2>1. DatabaseOK'
    BY <1>0, <1>30 DEF TypeOK, DatabaseOK, RegisterChaincode
  <2> QED BY <1>0, <1>30, <2>1
       DEF RegisterChaincode, TypeOK, LedgerOK, ProcessOK, TasksOK, RoundsOK, FaultsOK,
           RecordedOK
<1> QED
  BY <1>1, <1>2, <1>3, <1>4, <1>5, <1>6, <1>7, <1>8, <1>9, <1>10, <1>11, <1>12, <1>13,
       <1>14, <1>15, <1>16, <1>17, <1>18, <1>19, <1>20, <1>21, <1>22, <1>23, <1>24,
            <1>25, <1>26, <1>27, <1>28, <1>29, <1>30
     DEF Next, SyncBlocks, ProcessBlockEvent, Fault

(* What Resume leaves behind, task by task.                                *)
LEMMA ResumeAt ==
  ASSUME TypeOK, NEW p \in Proc, Resume(p)
  PROVE  /\ pc'[p] \in {"listening", "load", "missing"}
         /\ pc'[p] = "load" => blk'[p] = blk[p] - 1
         /\ \A q \in Proc \ {p} : pc'[q] = pc[q] /\ blk'[q] = blk[q] /\ txi'[q] = txi[q]
<1>1. p \in Listeners \/ phase[p] \in Loops
  BY DEF TypeOK, RoundsOK, Proc
<1> QED BY <1>1, ProcAssumption DEF TypeOK, TasksOK, Resume, Loops, Proc

(* A round leaves queryChainInfo only with a valid configuration.          *)
LEMMA WindowPreserved ==
  ASSUME TypeInv, [Next]_vars
  PROVE  WindowKnown'
<1> USE DEF ledger, database, parent, shared, roundVars, faults, recorded
<1>0. TypeOK /\ WindowKnown
  BY DEF TypeInv
<1>1. CASE Commit
  BY <1>0, <1>1, ProcAssumption
     DEF TypeOK, TasksOK, Commit, WindowKnown, Proc, Processing, InTransaction, InBlock
<1>2. ASSUME NEW l \in Listeners, Connect(l) PROVE WindowKnown'
  BY <1>0, <1>2, ProcAssumption
     DEF TypeOK, TasksOK, Connect, Goto, WindowKnown, Proc, Processing, InTransaction,
         InBlock
<1>3. ASSUME NEW l \in Listeners, Deliver(l) PROVE WindowKnown'
  BY <1>0, <1>3, ProcAssumption
     DEF TypeOK, TasksOK, Deliver, Goto, WindowKnown, Proc, Processing, InTransaction,
         InBlock
<1>4. ASSUME NEW r \in Rounds, StartRound(r) PROVE WindowKnown'
  BY <1>0, <1>4, ProcAssumption
     DEF TypeOK, TasksOK, StartRound, Goto, WindowKnown, Proc, Processing, InTransaction,
         InBlock
<1>5. ASSUME NEW r \in Rounds, ChainInfo(r) PROVE WindowKnown'
  BY <1>0, <1>5, ProcAssumption, BootAssumption
     DEF TypeOK, TasksOK, ChainInfo, Goto, ProcessOK, WindowKnown, Proc, Processing,
         InTransaction, InBlock
<1>6. ASSUME NEW r \in Rounds, InvalidNoOfBlocks(r) PROVE WindowKnown'
  BY <1>0, <1>6, ProcAssumption
     DEF TypeOK, TasksOK, InvalidNoOfBlocks, Goto, EndRound, WindowKnown, Proc,
         Processing, InTransaction, InBlock
<1>7. ASSUME NEW r \in Rounds, LoadBlock(r) PROVE WindowKnown'
  BY <1>0, <1>7, ProcAssumption, ResumeAt
     DEF TypeOK, TasksOK, LoadBlock, Goto, WindowKnown, Proc, Processing, InTransaction,
         InBlock
<1>8. ASSUME NEW r \in Rounds, LoadDone(r) PROVE WindowKnown'
  BY <1>0, <1>8, ProcAssumption
     DEF TypeOK, TasksOK, LoadDone, Goto, WindowKnown, Proc, Processing, InTransaction,
         InBlock
<1>9. ASSUME NEW r \in Rounds, FindMissing(r) PROVE WindowKnown'
  BY <1>0, <1>9, ProcAssumption
     DEF TypeOK, TasksOK, FindMissing, Goto, WindowKnown, Proc, Processing,
         InTransaction, InBlock
<1>10. ASSUME NEW r \in Rounds, NextMissing(r) PROVE WindowKnown'
  BY <1>0, <1>10, ProcAssumption
     DEF TypeOK, TasksOK, NextMissing, Goto, WindowKnown, Proc, Processing,
         InTransaction, InBlock
<1>11. ASSUME NEW r \in Rounds, FinishRound(r) PROVE WindowKnown'
  BY <1>0, <1>11, ProcAssumption
     DEF TypeOK, TasksOK, FinishRound, Goto, EndRound, WindowKnown, Proc, Processing,
         InTransaction, InBlock
<1>12. ASSUME NEW p \in Proc, Enter(p) PROVE WindowKnown'
  BY <1>0, <1>12, ProcAssumption, ResumeAt
     DEF TypeOK, TasksOK, Enter, Goto, WindowKnown, Proc, Processing, InTransaction,
         InBlock
<1>13. ASSUME NEW p \in Proc, TxCount(p) PROVE WindowKnown'
  BY <1>0, <1>13, ProcAssumption
     DEF TypeOK, TasksOK, TxCount, Goto, NextTx, WindowKnown, Proc, Processing,
         InTransaction, InBlock
<1>14. ASSUME NEW p \in Proc, TxInsert(p) PROVE WindowKnown'
  BY <1>0, <1>14, ProcAssumption
     DEF TypeOK, TasksOK, TxInsert, Goto, WindowKnown, Proc, Processing, InTransaction,
         InBlock
<1>15. ASSUME NEW p \in Proc, TxChaincode(p) PROVE WindowKnown'
  BY <1>0, <1>15, ProcAssumption
     DEF TypeOK, TasksOK, TxChaincode, Goto, WindowKnown, Proc, Processing,
         InTransaction, InBlock
<1>16. ASSUME NEW p \in Proc, TxChannel(p) PROVE WindowKnown'
  BY <1>0, <1>16, ProcAssumption
     DEF TypeOK, TasksOK, TxChannel, Goto, NextTx, WindowKnown, Proc, Processing,
         InTransaction, InBlock
<1>17. ASSUME NEW p \in Proc, BlockCount(p) PROVE WindowKnown'
  BY <1>0, <1>17, ProcAssumption
     DEF TypeOK, TasksOK, BlockCount, Goto, WindowKnown, Proc, Processing, InTransaction,
         InBlock
<1>18. ASSUME NEW p \in Proc, BlockInsert(p) PROVE WindowKnown'
  BY <1>0, <1>18, ProcAssumption
     DEF TypeOK, TasksOK, BlockInsert, Goto, WindowKnown, Proc, Processing,
         InTransaction, InBlock
<1>19. ASSUME NEW p \in Proc, BlockCounter(p) PROVE WindowKnown'
  BY <1>0, <1>19, ProcAssumption
     DEF TypeOK, TasksOK, BlockCounter, Goto, WindowKnown, Proc, Processing,
         InTransaction, InBlock
<1>20. ASSUME NEW p \in Proc, Finish(p) PROVE WindowKnown'
  BY <1>0, <1>20, ProcAssumption, ResumeAt
     DEF TypeOK, TasksOK, Finish, WindowKnown, Proc, Processing, InTransaction, InBlock
<1>21. ASSUME NEW r \in Rounds, ChainInfoNull(r) PROVE WindowKnown'
  BY <1>0, <1>21, ProcAssumption
     DEF TypeOK, TasksOK, ChainInfoNull, Goto, EndRound, WindowKnown, Proc, Processing,
         InTransaction, InBlock
<1>22. ASSUME NEW r \in Rounds, LoadBlockNull(r) PROVE WindowKnown'
  BY <1>0, <1>22, ProcAssumption, ResumeAt
     DEF TypeOK, TasksOK, LoadBlockNull, WindowKnown, Proc, Processing, InTransaction,
         InBlock
<1>23. ASSUME NEW r \in Rounds, NextMissingNull(r) PROVE WindowKnown'
  BY <1>0, <1>23, ProcAssumption
     DEF TypeOK, TasksOK, NextMissingNull, WindowKnown, Proc, Processing, InTransaction,
         InBlock
<1>24. ASSUME NEW p \in Proc, ProcessingFails(p) PROVE WindowKnown'
  BY <1>0, <1>24, ProcAssumption, ResumeAt
     DEF TypeOK, TasksOK, ProcessingFails, WindowKnown, Proc, Processing, InTransaction,
         InBlock
<1>25. ASSUME NEW r \in Rounds, LoadBlockFails(r) PROVE WindowKnown'
  BY <1>0, <1>25, ProcAssumption, ResumeAt
     DEF TypeOK, TasksOK, LoadBlockFails, WindowKnown, Proc, Processing, InTransaction,
         InBlock
<1>26. ASSUME NEW r \in Rounds, FindMissingFails(r) PROVE WindowKnown'
  BY <1>0, <1>26, ProcAssumption
     DEF TypeOK, TasksOK, FindMissingFails, Goto, EndRound, WindowKnown, Proc,
         Processing, InTransaction, InBlock
<1>27. CASE Crash
  BY <1>0, <1>27, ProcAssumption
     DEF TypeOK, TasksOK, Crash, WindowKnown, Proc, Processing, InTransaction, InBlock
<1>28. CASE Restart
  BY <1>0, <1>28, ProcAssumption
     DEF TypeOK, TasksOK, Restart, WindowKnown, Proc, Processing, InTransaction, InBlock
<1>29. CASE UNCHANGED vars
  BY <1>0, <1>29 DEF vars, WindowKnown
<1>30. ASSUME NEW c \in Chaincodes, RegisterChaincode(c) PROVE WindowKnown'
  BY <1>0, <1>30, ProcAssumption
     DEF TypeOK, TasksOK, RegisterChaincode, WindowKnown, Proc, Processing, InTransaction, InBlock
<1> QED
  BY <1>1, <1>2, <1>3, <1>4, <1>5, <1>6, <1>7, <1>8, <1>9, <1>10, <1>11, <1>12, <1>13,
       <1>14, <1>15, <1>16, <1>17, <1>18, <1>19, <1>20, <1>21, <1>22, <1>23, <1>24,
            <1>25, <1>26, <1>27, <1>28, <1>29, <1>30
     DEF Next, SyncBlocks, ProcessBlockEvent, Fault

(* No step makes a task name a block that the ledger does not have.        *)
LEMMA LedgerPreserved ==
  ASSUME TypeInv, [Next]_vars
  PROVE  TasksInLedger'
<1> USE DEF ledger, database, parent, shared, roundVars, faults, recorded
<1>0. TypeOK /\ TasksInLedger
  BY DEF TypeInv
<1>1. CASE Commit
  BY <1>0, <1>1, ProcAssumption, HeightAssumption
     DEF TypeOK, TasksOK, Commit, TasksInLedger, LedgerOK, RoundsOK, Proc, Processing,
         InTransaction, InBlock, Blocks
<1>2. ASSUME NEW l \in Listeners, Connect(l) PROVE TasksInLedger'
  BY <1>0, <1>2, ProcAssumption, HeightAssumption
     DEF TypeOK, TasksOK, Connect, Goto, TasksInLedger, LedgerOK, RoundsOK, Proc,
         Processing, InTransaction, InBlock, Blocks
<1>3. ASSUME NEW l \in Listeners, Deliver(l) PROVE TasksInLedger'
  <2>1. l \in Proc /\ l \notin Rounds /\ nextEvent[l] \in Nat
    BY <1>0, ProcAssumption DEF Proc, TypeOK, ProcessOK
  <2>2. CASE nextEvent[l] = 0
    BY <1>0, <1>3, <2>2 DEF Deliver, TasksInLedger
  <2>3. CASE nextEvent[l] # 0
    <3>1. nextEvent[l] \in 0 .. height - 1
      BY <1>0, <1>3, <2>1 DEF Deliver, TypeOK, LedgerOK
    <3>2. /\ pc' = [pc EXCEPT ![l] = "enter"] /\ blk' = [blk EXCEPT ![l] = nextEvent[l]]
          /\ height' = height /\ UNCHANGED roundVars
      BY <1>3, <2>3 DEF Deliver, Goto
    <3> QED BY <1>0, <2>1, <3>1, <3>2 DEF TypeOK, TasksOK, TasksInLedger, Proc
  <2> QED BY <2>2, <2>3
<1>4. ASSUME NEW r \in Rounds, StartRound(r) PROVE TasksInLedger'
  BY <1>0, <1>4, ProcAssumption, HeightAssumption
     DEF TypeOK, TasksOK, StartRound, Goto, TasksInLedger, LedgerOK, RoundsOK, Proc,
         Processing, InTransaction, InBlock, Blocks
<1>5. ASSUME NEW r \in Rounds, ChainInfo(r) PROVE TasksInLedger'
  BY <1>0, <1>5, ProcAssumption, HeightAssumption
     DEF TypeOK, TasksOK, ChainInfo, Goto, TasksInLedger, LedgerOK, RoundsOK, Proc,
         Processing, InTransaction, InBlock, Blocks
<1>6. ASSUME NEW r \in Rounds, InvalidNoOfBlocks(r) PROVE TasksInLedger'
  BY <1>0, <1>6, ProcAssumption, HeightAssumption
     DEF TypeOK, TasksOK, InvalidNoOfBlocks, Goto, EndRound, TasksInLedger, LedgerOK,
         RoundsOK, Proc, Processing, InTransaction, InBlock, Blocks
<1>7. ASSUME NEW r \in Rounds, LoadBlock(r) PROVE TasksInLedger'
  BY <1>0, <1>7, ProcAssumption, HeightAssumption, ResumeAt, LoadedBlock
     DEF TypeOK, TasksOK, LoadBlock, Goto, TasksInLedger, LedgerOK, RoundsOK, Proc,
         Processing, InTransaction, InBlock, Blocks
<1>8. ASSUME NEW r \in Rounds, LoadDone(r) PROVE TasksInLedger'
  BY <1>0, <1>8, ProcAssumption, HeightAssumption
     DEF TypeOK, TasksOK, LoadDone, Goto, TasksInLedger, LedgerOK, RoundsOK, Proc,
         Processing, InTransaction, InBlock, Blocks
<1>9. ASSUME NEW r \in Rounds, FindMissing(r) PROVE TasksInLedger'
  BY <1>0, <1>9, ProcAssumption, HeightAssumption, MissingBlocksType
     DEF TypeOK, TasksOK, FindMissing, Goto, TasksInLedger, LedgerOK, RoundsOK, Proc,
         Processing, InTransaction, InBlock, Blocks
<1>10. ASSUME NEW r \in Rounds, NextMissing(r) PROVE TasksInLedger'
  BY <1>0, <1>10, ProcAssumption, HeightAssumption
     DEF TypeOK, TasksOK, NextMissing, Goto, TasksInLedger, LedgerOK, RoundsOK, Proc,
         Processing, InTransaction, InBlock, Blocks
<1>11. ASSUME NEW r \in Rounds, FinishRound(r) PROVE TasksInLedger'
  BY <1>0, <1>11, ProcAssumption, HeightAssumption
     DEF TypeOK, TasksOK, FinishRound, Goto, EndRound, TasksInLedger, LedgerOK, RoundsOK,
         Proc, Processing, InTransaction, InBlock, Blocks
<1>12. ASSUME NEW p \in Proc, Enter(p) PROVE TasksInLedger'
  BY <1>0, <1>12, ProcAssumption, HeightAssumption, ResumeAt
     DEF TypeOK, TasksOK, Enter, Goto, TasksInLedger, LedgerOK, RoundsOK, Proc,
         Processing, InTransaction, InBlock, Blocks
<1>13. ASSUME NEW p \in Proc, TxCount(p) PROVE TasksInLedger'
  BY <1>0, <1>13, ProcAssumption, HeightAssumption
     DEF TypeOK, TasksOK, TxCount, Goto, NextTx, TasksInLedger, LedgerOK, RoundsOK, Proc,
         Processing, InTransaction, InBlock, Blocks
<1>14. ASSUME NEW p \in Proc, TxInsert(p) PROVE TasksInLedger'
  BY <1>0, <1>14, ProcAssumption, HeightAssumption
     DEF TypeOK, TasksOK, TxInsert, Goto, TasksInLedger, LedgerOK, RoundsOK, Proc,
         Processing, InTransaction, InBlock, Blocks
<1>15. ASSUME NEW p \in Proc, TxChaincode(p) PROVE TasksInLedger'
  BY <1>0, <1>15, ProcAssumption, HeightAssumption
     DEF TypeOK, TasksOK, TxChaincode, Goto, TasksInLedger, LedgerOK, RoundsOK, Proc,
         Processing, InTransaction, InBlock, Blocks
<1>16. ASSUME NEW p \in Proc, TxChannel(p) PROVE TasksInLedger'
  BY <1>0, <1>16, ProcAssumption, HeightAssumption
     DEF TypeOK, TasksOK, TxChannel, Goto, NextTx, TasksInLedger, LedgerOK, RoundsOK,
         Proc, Processing, InTransaction, InBlock, Blocks
<1>17. ASSUME NEW p \in Proc, BlockCount(p) PROVE TasksInLedger'
  BY <1>0, <1>17, ProcAssumption, HeightAssumption
     DEF TypeOK, TasksOK, BlockCount, Goto, TasksInLedger, LedgerOK, RoundsOK, Proc,
         Processing, InTransaction, InBlock, Blocks
<1>18. ASSUME NEW p \in Proc, BlockInsert(p) PROVE TasksInLedger'
  BY <1>0, <1>18, ProcAssumption, HeightAssumption
     DEF TypeOK, TasksOK, BlockInsert, Goto, TasksInLedger, LedgerOK, RoundsOK, Proc,
         Processing, InTransaction, InBlock, Blocks
<1>19. ASSUME NEW p \in Proc, BlockCounter(p) PROVE TasksInLedger'
  BY <1>0, <1>19, ProcAssumption, HeightAssumption
     DEF TypeOK, TasksOK, BlockCounter, Goto, TasksInLedger, LedgerOK, RoundsOK, Proc,
         Processing, InTransaction, InBlock, Blocks
<1>20. ASSUME NEW p \in Proc, Finish(p) PROVE TasksInLedger'
  BY <1>0, <1>20, ProcAssumption, HeightAssumption, ResumeAt
     DEF TypeOK, TasksOK, Finish, TasksInLedger, LedgerOK, RoundsOK, Proc, Processing,
         InTransaction, InBlock, Blocks
<1>21. ASSUME NEW r \in Rounds, ChainInfoNull(r) PROVE TasksInLedger'
  BY <1>0, <1>21, ProcAssumption, HeightAssumption
     DEF TypeOK, TasksOK, ChainInfoNull, Goto, EndRound, TasksInLedger, LedgerOK,
         RoundsOK, Proc, Processing, InTransaction, InBlock, Blocks
<1>22. ASSUME NEW r \in Rounds, LoadBlockNull(r) PROVE TasksInLedger'
  BY <1>0, <1>22, ProcAssumption, HeightAssumption, ResumeAt, LoadedBlock
     DEF TypeOK, TasksOK, LoadBlockNull, TasksInLedger, LedgerOK, RoundsOK, Proc,
         Processing, InTransaction, InBlock, Blocks
<1>23. ASSUME NEW r \in Rounds, NextMissingNull(r) PROVE TasksInLedger'
  BY <1>0, <1>23, ProcAssumption, HeightAssumption
     DEF TypeOK, TasksOK, NextMissingNull, TasksInLedger, LedgerOK, RoundsOK, Proc,
         Processing, InTransaction, InBlock, Blocks
<1>24. ASSUME NEW p \in Proc, ProcessingFails(p) PROVE TasksInLedger'
  BY <1>0, <1>24, ProcAssumption, HeightAssumption, ResumeAt
     DEF TypeOK, TasksOK, ProcessingFails, TasksInLedger, LedgerOK, RoundsOK, Proc,
         Processing, InTransaction, InBlock, Blocks
<1>25. ASSUME NEW r \in Rounds, LoadBlockFails(r) PROVE TasksInLedger'
  BY <1>0, <1>25, ProcAssumption, HeightAssumption, ResumeAt, LoadedBlock
     DEF TypeOK, TasksOK, LoadBlockFails, TasksInLedger, LedgerOK, RoundsOK, Proc,
         Processing, InTransaction, InBlock, Blocks
<1>26. ASSUME NEW r \in Rounds, FindMissingFails(r) PROVE TasksInLedger'
  BY <1>0, <1>26, ProcAssumption, HeightAssumption
     DEF TypeOK, TasksOK, FindMissingFails, Goto, EndRound, TasksInLedger, LedgerOK,
         RoundsOK, Proc, Processing, InTransaction, InBlock, Blocks
<1>27. CASE Crash
  BY <1>0, <1>27, ProcAssumption, HeightAssumption
     DEF TypeOK, TasksOK, Crash, TasksInLedger, LedgerOK, RoundsOK, Proc, Processing,
         InTransaction, InBlock, Blocks
<1>28. CASE Restart
  BY <1>0, <1>28, ProcAssumption, HeightAssumption
     DEF TypeOK, TasksOK, Restart, TasksInLedger, LedgerOK, RoundsOK, Proc, Processing,
         InTransaction, InBlock, Blocks
<1>29. CASE UNCHANGED vars
  BY <1>0, <1>29 DEF vars, TasksInLedger
<1>30. ASSUME NEW c \in Chaincodes, RegisterChaincode(c) PROVE TasksInLedger'
  BY <1>0, <1>30, ProcAssumption, HeightAssumption
     DEF TypeOK, TasksOK, RegisterChaincode, TasksInLedger, LedgerOK, RoundsOK, Proc, Processing,
         InTransaction, InBlock, Blocks
<1> QED
  BY <1>1, <1>2, <1>3, <1>4, <1>5, <1>6, <1>7, <1>8, <1>9, <1>10, <1>11, <1>12, <1>13,
       <1>14, <1>15, <1>16, <1>17, <1>18, <1>19, <1>20, <1>21, <1>22, <1>23, <1>24,
            <1>25, <1>26, <1>27, <1>28, <1>29, <1>30
     DEF Next, SyncBlocks, ProcessBlockEvent, Fault

(* No step moves txIndex out of the block.                                 *)
LEMMA IndexPreserved ==
  ASSUME TypeInv, [Next]_vars
  PROVE  TxIndexInBlock'
<1> USE DEF ledger, database, parent, shared, roundVars, faults, recorded
<1>0. TypeOK /\ TxIndexInBlock
  BY DEF TypeInv
<1>1. CASE Commit
  BY <1>0, <1>1, ProcAssumption, TxsOfType, BlockOfTask
     DEF TypeOK, TasksOK, Commit, TxIndexInBlock, InTransaction, InBlock, Processing, Proc
<1>2. ASSUME NEW l \in Listeners, Connect(l) PROVE TxIndexInBlock'
  BY <1>0, <1>2, ProcAssumption, TxsOfType, BlockOfTask
     DEF TypeOK, TasksOK, Connect, Goto, TxIndexInBlock, InTransaction, InBlock,
         Processing, Proc
<1>3. ASSUME NEW l \in Listeners, Deliver(l) PROVE TxIndexInBlock'
  BY <1>0, <1>3, ProcAssumption, TxsOfType, BlockOfTask
     DEF TypeOK, TasksOK, Deliver, Goto, TxIndexInBlock, InTransaction, InBlock,
         Processing, Proc
<1>4. ASSUME NEW r \in Rounds, StartRound(r) PROVE TxIndexInBlock'
  BY <1>0, <1>4, ProcAssumption, TxsOfType, BlockOfTask
     DEF TypeOK, TasksOK, StartRound, Goto, TxIndexInBlock, InTransaction, InBlock,
         Processing, Proc
<1>5. ASSUME NEW r \in Rounds, ChainInfo(r) PROVE TxIndexInBlock'
  BY <1>0, <1>5, ProcAssumption, TxsOfType, BlockOfTask
     DEF TypeOK, TasksOK, ChainInfo, Goto, TxIndexInBlock, InTransaction, InBlock,
         Processing, Proc
<1>6. ASSUME NEW r \in Rounds, InvalidNoOfBlocks(r) PROVE TxIndexInBlock'
  BY <1>0, <1>6, ProcAssumption, TxsOfType, BlockOfTask
     DEF TypeOK, TasksOK, InvalidNoOfBlocks, Goto, EndRound, TxIndexInBlock,
         InTransaction, InBlock, Processing, Proc
<1>7. ASSUME NEW r \in Rounds, LoadBlock(r) PROVE TxIndexInBlock'
  BY <1>0, <1>7, ProcAssumption, TxsOfType, BlockOfTask, ResumeAt
     DEF TypeOK, TasksOK, LoadBlock, Goto, TxIndexInBlock, InTransaction, InBlock,
         Processing, Proc
<1>8. ASSUME NEW r \in Rounds, LoadDone(r) PROVE TxIndexInBlock'
  BY <1>0, <1>8, ProcAssumption, TxsOfType, BlockOfTask
     DEF TypeOK, TasksOK, LoadDone, Goto, TxIndexInBlock, InTransaction, InBlock,
         Processing, Proc
<1>9. ASSUME NEW r \in Rounds, FindMissing(r) PROVE TxIndexInBlock'
  BY <1>0, <1>9, ProcAssumption, TxsOfType, BlockOfTask
     DEF TypeOK, TasksOK, FindMissing, Goto, TxIndexInBlock, InTransaction, InBlock,
         Processing, Proc
<1>10. ASSUME NEW r \in Rounds, NextMissing(r) PROVE TxIndexInBlock'
  BY <1>0, <1>10, ProcAssumption, TxsOfType, BlockOfTask
     DEF TypeOK, TasksOK, NextMissing, Goto, TxIndexInBlock, InTransaction, InBlock,
         Processing, Proc
<1>11. ASSUME NEW r \in Rounds, FinishRound(r) PROVE TxIndexInBlock'
  BY <1>0, <1>11, ProcAssumption, TxsOfType, BlockOfTask
     DEF TypeOK, TasksOK, FinishRound, Goto, EndRound, TxIndexInBlock, InTransaction,
         InBlock, Processing, Proc
<1>12. ASSUME NEW p \in Proc, Enter(p) PROVE TxIndexInBlock'
  <2>1. blk[p] \in Blocks
    BY <1>12, BlockOfTask DEF Enter
  <2>2. CASE blk[p] \in blocksInProcess
    BY <1>0, <1>12, <2>2, ResumeAt DEF Enter, TxIndexInBlock, InTransaction
  <2>3. CASE blk[p] \notin blocksInProcess
    BY <1>0, <1>12, <2>1, <2>3, TxsOfType
       DEF Enter, Goto, TypeOK, TasksOK, TxIndexInBlock, InTransaction
  <2> QED BY <2>2, <2>3
<1>13. ASSUME NEW p \in Proc, TxCount(p) PROVE TxIndexInBlock'
  BY <1>0, <1>13, ProcAssumption, TxsOfType, BlockOfTask
     DEF TypeOK, TasksOK, TxCount, Goto, NextTx, TxIndexInBlock, InTransaction, InBlock,
         Processing, Proc
<1>14. ASSUME NEW p \in Proc, TxInsert(p) PROVE TxIndexInBlock'
  BY <1>0, <1>14, ProcAssumption, TxsOfType, BlockOfTask
     DEF TypeOK, TasksOK, TxInsert, Goto, TxIndexInBlock, InTransaction, InBlock,
         Processing, Proc
<1>15. ASSUME NEW p \in Proc, TxChaincode(p) PROVE TxIndexInBlock'
  BY <1>0, <1>15, ProcAssumption, TxsOfType, BlockOfTask
     DEF TypeOK, TasksOK, TxChaincode, Goto, TxIndexInBlock, InTransaction, InBlock,
         Processing, Proc
<1>16. ASSUME NEW p \in Proc, TxChannel(p) PROVE TxIndexInBlock'
  BY <1>0, <1>16, ProcAssumption, TxsOfType, BlockOfTask
     DEF TypeOK, TasksOK, TxChannel, Goto, NextTx, TxIndexInBlock, InTransaction,
         InBlock, Processing, Proc
<1>17. ASSUME NEW p \in Proc, BlockCount(p) PROVE TxIndexInBlock'
  BY <1>0, <1>17, ProcAssumption, TxsOfType, BlockOfTask
     DEF TypeOK, TasksOK, BlockCount, Goto, TxIndexInBlock, InTransaction, InBlock,
         Processing, Proc
<1>18. ASSUME NEW p \in Proc, BlockInsert(p) PROVE TxIndexInBlock'
  BY <1>0, <1>18, ProcAssumption, TxsOfType, BlockOfTask
     DEF TypeOK, TasksOK, BlockInsert, Goto, TxIndexInBlock, InTransaction, InBlock,
         Processing, Proc
<1>19. ASSUME NEW p \in Proc, BlockCounter(p) PROVE TxIndexInBlock'
  BY <1>0, <1>19, ProcAssumption, TxsOfType, BlockOfTask
     DEF TypeOK, TasksOK, BlockCounter, Goto, TxIndexInBlock, InTransaction, InBlock,
         Processing, Proc
<1>20. ASSUME NEW p \in Proc, Finish(p) PROVE TxIndexInBlock'
  BY <1>0, <1>20, ProcAssumption, TxsOfType, BlockOfTask, ResumeAt
     DEF TypeOK, TasksOK, Finish, TxIndexInBlock, InTransaction, InBlock, Processing, Proc
<1>21. ASSUME NEW r \in Rounds, ChainInfoNull(r) PROVE TxIndexInBlock'
  BY <1>0, <1>21, ProcAssumption, TxsOfType, BlockOfTask
     DEF TypeOK, TasksOK, ChainInfoNull, Goto, EndRound, TxIndexInBlock, InTransaction,
         InBlock, Processing, Proc
<1>22. ASSUME NEW r \in Rounds, LoadBlockNull(r) PROVE TxIndexInBlock'
  BY <1>0, <1>22, ProcAssumption, TxsOfType, BlockOfTask, ResumeAt
     DEF TypeOK, TasksOK, LoadBlockNull, TxIndexInBlock, InTransaction, InBlock,
         Processing, Proc
<1>23. ASSUME NEW r \in Rounds, NextMissingNull(r) PROVE TxIndexInBlock'
  BY <1>0, <1>23, ProcAssumption, TxsOfType, BlockOfTask
     DEF TypeOK, TasksOK, NextMissingNull, TxIndexInBlock, InTransaction, InBlock,
         Processing, Proc
<1>24. ASSUME NEW p \in Proc, ProcessingFails(p) PROVE TxIndexInBlock'
  BY <1>0, <1>24, ProcAssumption, TxsOfType, BlockOfTask, ResumeAt
     DEF TypeOK, TasksOK, ProcessingFails, TxIndexInBlock, InTransaction, InBlock,
         Processing, Proc
<1>25. ASSUME NEW r \in Rounds, LoadBlockFails(r) PROVE TxIndexInBlock'
  BY <1>0, <1>25, ProcAssumption, TxsOfType, BlockOfTask, ResumeAt
     DEF TypeOK, TasksOK, LoadBlockFails, TxIndexInBlock, InTransaction, InBlock,
         Processing, Proc
<1>26. ASSUME NEW r \in Rounds, FindMissingFails(r) PROVE TxIndexInBlock'
  BY <1>0, <1>26, ProcAssumption, TxsOfType, BlockOfTask
     DEF TypeOK, TasksOK, FindMissingFails, Goto, EndRound, TxIndexInBlock,
         InTransaction, InBlock, Processing, Proc
<1>27. CASE Crash
  BY <1>0, <1>27, ProcAssumption, TxsOfType, BlockOfTask
     DEF TypeOK, TasksOK, Crash, TxIndexInBlock, InTransaction, InBlock, Processing, Proc
<1>28. CASE Restart
  BY <1>0, <1>28, ProcAssumption, TxsOfType, BlockOfTask
     DEF TypeOK, TasksOK, Restart, TxIndexInBlock, InTransaction, InBlock, Processing,
         Proc
<1>29. CASE UNCHANGED vars
  BY <1>0, <1>29 DEF vars, TxIndexInBlock
<1>30. ASSUME NEW c \in Chaincodes, RegisterChaincode(c) PROVE TxIndexInBlock'
  BY <1>0, <1>30, ProcAssumption, TxsOfType, BlockOfTask
     DEF TypeOK, TasksOK, RegisterChaincode, TxIndexInBlock, InTransaction, InBlock, Processing,
         Proc
<1> QED
  BY <1>1, <1>2, <1>3, <1>4, <1>5, <1>6, <1>7, <1>8, <1>9, <1>10, <1>11, <1>12, <1>13,
       <1>14, <1>15, <1>16, <1>17, <1>18, <1>19, <1>20, <1>21, <1>22, <1>23, <1>24,
            <1>25, <1>26, <1>27, <1>28, <1>29, <1>30
     DEF Next, SyncBlocks, ProcessBlockEvent, Fault

(* Types, and that tasks only work on blocks the ledger has.               *)
THEOREM TypeCorrect == Spec => []TypeInv
<1>1. Init => TypeInv
  BY HeightAssumption, BoundsAssumption
     DEF Init, FreshProcess, TypeInv, TypeOK, LedgerOK, DatabaseOK, ProcessOK, TasksOK,
         RoundsOK, FaultsOK, RecordedOK, Labels, Loops, Blocks, WindowKnown, TasksInLedger,
         TxIndexInBlock, Processing, InTransaction, InBlock, Proc
<1>2. TypeInv /\ [Next]_vars => TypeInv'
  BY TypePreserved, WindowPreserved, LedgerPreserved, IndexPreserved DEF TypeInv
<1> QED BY <1>1, <1>2, PTL DEF Spec

-----------------------------------------------------------------------------
(* The rows.                                                               *)

(* A task outside processBlockEvent claims nothing of the rows.            *)
LEMMA IdleTask ==
  ASSUME NEW q \in Proc, pc'[q] \notin Processing
  PROVE  TaskRows(q)'
BY DEF TaskRows, Processing, InTransaction, InBlock

(* A step that neither moves a task nor touches the rows of its block      *)
(* takes nothing away from what the task knows of them.                    *)
LEMMA UnmovedTask ==
  ASSUME NEW q \in Proc, TaskRows(q),
         pc'[q] = pc[q], blk'[q] = blk[q], txi'[q] = txi[q],
         pc[q] \in Processing => /\ txRows'[blk[q]] = txRows[blk[q]]
                                /\ blockRows'[blk[q]] = blockRows[blk[q]]
                                /\ announced'[blk[q]] = announced[blk[q]]
  PROVE  TaskRows(q)'
BY DEF TaskRows, TxAt, Processing, InTransaction, InBlock

(* Where the loop over the transactions goes next.                         *)
LEMMA NextTxAt ==
  ASSUME TypeInv, NEW p \in Proc, pc[p] \in InTransaction, NextTx(p)
  PROVE  /\ \/ pc'[p] = "txCount" /\ txi'[p] = txi[p] + 1
            \/ pc'[p] = "blockCount" /\ txi[p] = Len(TxsOf[blk[p]])
         /\ \A q \in Proc \ {p} : pc'[q] = pc[q] /\ txi'[q] = txi[q]
<1>1. txi[p] \in 1 .. Len(TxsOf[blk[p]]) /\ Len(TxsOf[blk[p]]) \in Nat
  BY TxOfTask, BlockOfTask, TxsOfType DEF Processing
<1>2. CASE txi[p] < Len(TxsOf[blk[p]])
  BY <1>1, <1>2 DEF NextTx, Goto, TypeInv, TypeOK, TasksOK
<1>3. CASE txi[p] = Len(TxsOf[blk[p]])
  BY <1>1, <1>3 DEF NextTx, Goto, TypeInv, TypeOK, TasksOK
<1> QED BY <1>1, <1>2, <1>3

(* A task moves on from a transaction that has its row.                    *)
LEMMA NextTxRows ==
  ASSUME TypeInv, NEW p \in Proc, pc[p] \in InTransaction, TaskRows(p), NextTx(p),
         txRows[blk[p]][TxAt(p)] > 0, blk'[p] = blk[p], txRows' = txRows
  PROVE  TaskRows(p)'
<1>1. txi[p] \in 1 .. Len(TxsOf[blk[p]]) /\ Len(TxsOf[blk[p]]) \in Nat
  BY TxOfTask, BlockOfTask, TxsOfType DEF Processing
<1>2. CASE pc'[p] = "txCount" /\ txi'[p] = txi[p] + 1
  <2>1. ASSUME NEW i \in 1 .. Len(TxsOf[blk[p]]), i < txi[p] + 1
        PROVE  txRows[blk[p]][TxsOf[blk[p]][i]] > 0
    <3>1. i < txi[p] \/ i = txi[p]
      BY <1>1, <2>1
    <3> QED BY <3>1 DEF TaskRows, TxAt
  <2> QED BY <1>2, <2>1 DEF TaskRows, InTransaction, InBlock
<1>3. CASE pc'[p] = "blockCount" /\ txi[p] = Len(TxsOf[blk[p]])
  <2>1. ASSUME NEW i \in 1 .. Len(TxsOf[blk[p]])
        PROVE  txRows[blk[p]][TxsOf[blk[p]][i]] > 0
    <3>1. i < txi[p] \/ i = txi[p]
      BY <1>1, <1>3
    <3> QED BY <3>1 DEF TaskRows, TxAt
  <2> QED BY <1>3, <2>1 DEF TaskRows, InTransaction, InBlock
<1> QED BY <1>2, <1>3, NextTxAt

(* Enter is the only step into processBlockEvent, and the keys it checks   *)
(* are those of the tasks inside.                                          *)
LEMMA OneTaskPreserved ==
  ASSUME TypeInv, RowsInv, [Next]_vars
  PROVE  OneTaskPerBlock'
<1> USE DEF ledger, database, parent, shared, roundVars, faults, recorded
<1>0. TypeOK /\ OneTaskPerBlock
  BY DEF TypeInv, RowsInv
<1>1. CASE Commit
  BY <1>0, <1>1, ProcAssumption
     DEF Commit, TypeOK, TasksOK, OneTaskPerBlock, Proc, Processing, InTransaction,
         InBlock
<1>2. ASSUME NEW l \in Listeners, Connect(l) PROVE OneTaskPerBlock'
  BY <1>0, <1>2, ProcAssumption
     DEF Connect, Goto, TypeOK, TasksOK, OneTaskPerBlock, Proc, Processing,
         InTransaction, InBlock
<1>3. ASSUME NEW l \in Listeners, Deliver(l) PROVE OneTaskPerBlock'
  BY <1>0, <1>3, ProcAssumption
     DEF Deliver, Goto, TypeOK, TasksOK, OneTaskPerBlock, Proc, Processing,
         InTransaction, InBlock
<1>4. ASSUME NEW r \in Rounds, StartRound(r) PROVE OneTaskPerBlock'
  BY <1>0, <1>4, ProcAssumption
     DEF StartRound, Goto, TypeOK, TasksOK, OneTaskPerBlock, Proc, Processing,
         InTransaction, InBlock
<1>5. ASSUME NEW r \in Rounds, ChainInfo(r) PROVE OneTaskPerBlock'
  BY <1>0, <1>5, ProcAssumption
     DEF ChainInfo, Goto, TypeOK, TasksOK, OneTaskPerBlock, Proc, Processing,
         InTransaction, InBlock
<1>6. ASSUME NEW r \in Rounds, InvalidNoOfBlocks(r) PROVE OneTaskPerBlock'
  BY <1>0, <1>6, ProcAssumption
     DEF InvalidNoOfBlocks, Goto, EndRound, TypeOK, TasksOK, OneTaskPerBlock, Proc,
         Processing, InTransaction, InBlock
<1>7. ASSUME NEW r \in Rounds, LoadBlock(r) PROVE OneTaskPerBlock'
  BY <1>0, <1>7, ProcAssumption, ResumeAt
     DEF LoadBlock, Goto, TypeOK, TasksOK, OneTaskPerBlock, Proc, Processing,
         InTransaction, InBlock
<1>8. ASSUME NEW r \in Rounds, LoadDone(r) PROVE OneTaskPerBlock'
  BY <1>0, <1>8, ProcAssumption
     DEF LoadDone, Goto, TypeOK, TasksOK, OneTaskPerBlock, Proc, Processing,
         InTransaction, InBlock
<1>9. ASSUME NEW r \in Rounds, FindMissing(r) PROVE OneTaskPerBlock'
  BY <1>0, <1>9, ProcAssumption
     DEF FindMissing, Goto, TypeOK, TasksOK, OneTaskPerBlock, Proc, Processing,
         InTransaction, InBlock
<1>10. ASSUME NEW r \in Rounds, NextMissing(r) PROVE OneTaskPerBlock'
  BY <1>0, <1>10, ProcAssumption
     DEF NextMissing, Goto, TypeOK, TasksOK, OneTaskPerBlock, Proc, Processing,
         InTransaction, InBlock
<1>11. ASSUME NEW r \in Rounds, FinishRound(r) PROVE OneTaskPerBlock'
  BY <1>0, <1>11, ProcAssumption
     DEF FinishRound, Goto, EndRound, TypeOK, TasksOK, OneTaskPerBlock, Proc, Processing,
         InTransaction, InBlock
<1>12. ASSUME NEW p \in Proc, Enter(p) PROVE OneTaskPerBlock'
  BY <1>0, <1>12, ProcAssumption, ResumeAt
     DEF Enter, Goto, TypeOK, TasksOK, OneTaskPerBlock, Proc, Processing, InTransaction,
         InBlock
<1>13. ASSUME NEW p \in Proc, TxCount(p) PROVE OneTaskPerBlock'
  <2>1. pc[p] \in InTransaction /\ UNCHANGED <<blk, blocksInProcess>>
    BY <1>13 DEF TxCount, InTransaction
  <2>2. \A q \in Proc : pc'[q] \in Processing => pc[q] \in Processing
    <3>1. CASE Goto(p, "txInsert")
      BY <1>0, <2>1, <3>1 DEF Goto, TypeOK, TasksOK, Processing
    <3>2. CASE NextTx(p)
      BY <2>1, <3>2, NextTxAt DEF Processing
    <3> QED BY <1>13, <3>1, <3>2 DEF TxCount
  <2> QED BY <1>0, <2>1, <2>2 DEF OneTaskPerBlock
<1>14. ASSUME NEW p \in Proc, TxInsert(p) PROVE OneTaskPerBlock'
  BY <1>0, <1>14, ProcAssumption
     DEF TxInsert, Goto, TypeOK, TasksOK, OneTaskPerBlock, Proc, Processing,
         InTransaction, InBlock
<1>15. ASSUME NEW p \in Proc, TxChaincode(p) PROVE OneTaskPerBlock'
  BY <1>0, <1>15, ProcAssumption
     DEF TxChaincode, Goto, TypeOK, TasksOK, OneTaskPerBlock, Proc, Processing,
         InTransaction, InBlock
<1>16. ASSUME NEW p \in Proc, TxChannel(p) PROVE OneTaskPerBlock'
  <2>1. /\ blk' = blk /\ blocksInProcess' = blocksInProcess /\ NextTx(p)
        /\ pc[p] \in InTransaction
    BY <1>16 DEF TxChannel, InTransaction
  <2>2. pc \in [Proc -> Labels]
    BY <1>0 DEF TypeOK, TasksOK
  <2> QED BY <1>0, <2>1, <2>2, NextTxAt
          DEF OneTaskPerBlock, Processing, InTransaction, InBlock
<1>17. ASSUME NEW p \in Proc, BlockCount(p) PROVE OneTaskPerBlock'
  BY <1>0, <1>17, ProcAssumption
     DEF BlockCount, Goto, TypeOK, TasksOK, OneTaskPerBlock, Proc, Processing,
         InTransaction, InBlock
<1>18. ASSUME NEW p \in Proc, BlockInsert(p) PROVE OneTaskPerBlock'
  BY <1>0, <1>18, ProcAssumption
     DEF BlockInsert, Goto, TypeOK, TasksOK, OneTaskPerBlock, Proc, Processing,
         InTransaction, InBlock
<1>19. ASSUME NEW p \in Proc, BlockCounter(p) PROVE OneTaskPerBlock'
  BY <1>0, <1>19, ProcAssumption
     DEF BlockCounter, Goto, TypeOK, TasksOK, OneTaskPerBlock, Proc, Processing,
         InTransaction, InBlock
<1>20. ASSUME NEW p \in Proc, Finish(p) PROVE OneTaskPerBlock'
  BY <1>0, <1>20, ProcAssumption, ResumeAt
     DEF Finish, TypeOK, TasksOK, OneTaskPerBlock, Proc, Processing, InTransaction,
         InBlock
<1>21. ASSUME NEW r \in Rounds, ChainInfoNull(r) PROVE OneTaskPerBlock'
  BY <1>0, <1>21, ProcAssumption
     DEF ChainInfoNull, Goto, EndRound, TypeOK, TasksOK, OneTaskPerBlock, Proc,
         Processing, InTransaction, InBlock
<1>22. ASSUME NEW r \in Rounds, LoadBlockNull(r) PROVE OneTaskPerBlock'
  BY <1>0, <1>22, ProcAssumption, ResumeAt
     DEF LoadBlockNull, TypeOK, TasksOK, OneTaskPerBlock, Proc, Processing,
         InTransaction, InBlock
<1>23. ASSUME NEW r \in Rounds, NextMissingNull(r) PROVE OneTaskPerBlock'
  BY <1>0, <1>23, ProcAssumption
     DEF NextMissingNull, TypeOK, TasksOK, OneTaskPerBlock, Proc, Processing,
         InTransaction, InBlock
<1>24. ASSUME NEW p \in Proc, ProcessingFails(p) PROVE OneTaskPerBlock'
  BY <1>0, <1>24, ProcAssumption, ResumeAt
     DEF ProcessingFails, TypeOK, TasksOK, OneTaskPerBlock, Proc, Processing,
         InTransaction, InBlock
<1>25. ASSUME NEW r \in Rounds, LoadBlockFails(r) PROVE OneTaskPerBlock'
  BY <1>0, <1>25, ProcAssumption, ResumeAt
     DEF LoadBlockFails, TypeOK, TasksOK, OneTaskPerBlock, Proc, Processing,
         InTransaction, InBlock
<1>26. ASSUME NEW r \in Rounds, FindMissingFails(r) PROVE OneTaskPerBlock'
  BY <1>0, <1>26, ProcAssumption
     DEF FindMissingFails, Goto, EndRound, TypeOK, TasksOK, OneTaskPerBlock, Proc,
         Processing, InTransaction, InBlock
<1>27. CASE Crash
  BY <1>0, <1>27, ProcAssumption
     DEF Crash, TypeOK, TasksOK, OneTaskPerBlock, Proc, Processing, InTransaction, InBlock
<1>28. CASE Restart
  BY <1>0, <1>28, ProcAssumption
     DEF Restart, TypeOK, TasksOK, OneTaskPerBlock, Proc, Processing, InTransaction,
         InBlock
<1>29. CASE UNCHANGED vars
  BY <1>0, <1>29, ProcAssumption
       DEF vars, TypeOK, TasksOK, OneTaskPerBlock, Proc, Processing, InTransaction,
           InBlock
<1>30. ASSUME NEW c \in Chaincodes, RegisterChaincode(c) PROVE OneTaskPerBlock'
  BY <1>0, <1>30, ProcAssumption
     DEF RegisterChaincode, TypeOK, TasksOK, OneTaskPerBlock, Proc, Processing, InTransaction,
         InBlock
<1> QED
  BY <1>1, <1>2, <1>3, <1>4, <1>5, <1>6, <1>7, <1>8, <1>9, <1>10, <1>11, <1>12, <1>13,
       <1>14, <1>15, <1>16, <1>17, <1>18, <1>19, <1>20, <1>21, <1>22, <1>23, <1>24,
            <1>25, <1>26, <1>27, <1>28, <1>29, <1>30
     DEF Next, SyncBlocks, ProcessBlockEvent, Fault

(* What a task knows of the rows stays true: its own statements establish  *)
(* it, and no other task writes to its block.                              *)
LEMMA TaskRowsPreserved ==
  ASSUME TypeInv, RowsInv, [Next]_vars, NEW q \in Proc
  PROVE  TaskRows(q)'
<1> USE DEF ledger, database, parent, shared, roundVars, faults, recorded
<1>0. TypeOK /\ OneTaskPerBlock /\ AnnouncedOnceStored /\ TaskRows(q)
  BY DEF TypeInv, RowsInv
<1>1. CASE Commit
  BY <1>0, <1>1, ProcAssumption, IdleTask, UnmovedTask
     DEF Commit, TypeOK, TasksOK, Proc, Processing, InTransaction, InBlock
<1>2. ASSUME NEW l \in Listeners, Connect(l) PROVE TaskRows(q)'
  BY <1>0, <1>2, ProcAssumption, IdleTask, UnmovedTask
     DEF Connect, Goto, TypeOK, TasksOK, Proc, Processing, InTransaction, InBlock
<1>3. ASSUME NEW l \in Listeners, Deliver(l) PROVE TaskRows(q)'
  BY <1>0, <1>3, ProcAssumption, IdleTask, UnmovedTask
     DEF Deliver, Goto, TypeOK, TasksOK, Proc, Processing, InTransaction, InBlock
<1>4. ASSUME NEW r \in Rounds, StartRound(r) PROVE TaskRows(q)'
  BY <1>0, <1>4, ProcAssumption, IdleTask, UnmovedTask
     DEF StartRound, Goto, TypeOK, TasksOK, Proc, Processing, InTransaction, InBlock
<1>5. ASSUME NEW r \in Rounds, ChainInfo(r) PROVE TaskRows(q)'
  BY <1>0, <1>5, ProcAssumption, IdleTask, UnmovedTask
     DEF ChainInfo, Goto, TypeOK, TasksOK, Proc, Processing, InTransaction, InBlock
<1>6. ASSUME NEW r \in Rounds, InvalidNoOfBlocks(r) PROVE TaskRows(q)'
  BY <1>0, <1>6, ProcAssumption, IdleTask, UnmovedTask
     DEF InvalidNoOfBlocks, Goto, EndRound, TypeOK, TasksOK, Proc, Processing,
         InTransaction, InBlock
<1>7. ASSUME NEW r \in Rounds, LoadBlock(r) PROVE TaskRows(q)'
  BY <1>0, <1>7, ProcAssumption, IdleTask, UnmovedTask, ResumeAt
     DEF LoadBlock, Goto, TypeOK, TasksOK, Proc, Processing, InTransaction, InBlock
<1>8. ASSUME NEW r \in Rounds, LoadDone(r) PROVE TaskRows(q)'
  BY <1>0, <1>8, ProcAssumption, IdleTask, UnmovedTask
     DEF LoadDone, Goto, TypeOK, TasksOK, Proc, Processing, InTransaction, InBlock
<1>9. ASSUME NEW r \in Rounds, FindMissing(r) PROVE TaskRows(q)'
  BY <1>0, <1>9, ProcAssumption, IdleTask, UnmovedTask
     DEF FindMissing, Goto, TypeOK, TasksOK, Proc, Processing, InTransaction, InBlock
<1>10. ASSUME NEW r \in Rounds, NextMissing(r) PROVE TaskRows(q)'
  BY <1>0, <1>10, ProcAssumption, IdleTask, UnmovedTask
     DEF NextMissing, Goto, TypeOK, TasksOK, Proc, Processing, InTransaction, InBlock
<1>11. ASSUME NEW r \in Rounds, FinishRound(r) PROVE TaskRows(q)'
  BY <1>0, <1>11, ProcAssumption, IdleTask, UnmovedTask
     DEF FinishRound, Goto, EndRound, TypeOK, TasksOK, Proc, Processing, InTransaction,
         InBlock
<1>12. ASSUME NEW p \in Proc, Enter(p) PROVE TaskRows(q)'
  <2>1. CASE q # p
    BY <1>0, <1>12, <2>1, UnmovedTask, ResumeAt DEF Enter, Goto, TypeOK, TasksOK
  <2>2. CASE q = p
    <3>1. CASE blk[p] \in blocksInProcess
      BY <1>0, <1>12, <2>2, <3>1, IdleTask, ResumeAt
     DEF Enter, Processing, InTransaction, InBlock
    <3>2. CASE blk[p] \notin blocksInProcess
      <4>1. pc'[p] = "txCount" /\ txi'[p] = 1 /\ blk'[p] = blk[p] /\ txRows' = txRows
        BY <1>0, <1>12, <3>2 DEF Enter, Goto, TypeOK, TasksOK
      <4>2. \A i \in 1 .. Len(TxsOf[blk[p]]) : ~(i < 1)
        OBVIOUS
      <4> QED BY <2>2, <4>1, <4>2 DEF TaskRows, InTransaction, InBlock
    <3> QED BY <3>1, <3>2
  <2> QED BY <2>1, <2>2
<1>13. ASSUME NEW p \in Proc, TxCount(p) PROVE TaskRows(q)'
  <2>1. CASE q # p
    BY <1>0, <1>13, <2>1, UnmovedTask, NextTxAt
       DEF TxCount, Goto, TypeOK, TasksOK, InTransaction
  <2>2. CASE q = p
    <3>1. pc[p] \in InTransaction
      BY <1>13 DEF TxCount, InTransaction
    <3>2. CASE txRows[blk[p]][TxAt(p)] = 0
      <4>1. pc'[p] = "txInsert" /\ txi' = txi /\ blk' = blk /\ txRows' = txRows
        BY <1>0, <1>13, <3>2 DEF TxCount, Goto, TypeOK, TasksOK
      <4> QED BY <1>0, <2>2, <3>1, <3>2, <4>1 DEF TaskRows, TxAt, InTransaction, InBlock
    <3>3. CASE txRows[blk[p]][TxAt(p)] # 0
      <4>1. txRows[blk[p]][TxAt(p)] > 0
        BY <1>0, <3>1, <3>3, BlockOfTask, TxOfTask DEF TypeOK, DatabaseOK, Processing
      <4> QED BY <1>0, <1>13, <2>2, <3>1, <3>3, <4>1, NextTxRows DEF TxCount
    <3> QED BY <3>2, <3>3
  <2> QED BY <2>1, <2>2
<1>14. ASSUME NEW p \in Proc, TxInsert(p) PROVE TaskRows(q)'
  <2>1. CASE q # p
    BY <1>0, <1>14, <2>1, UnmovedTask
       DEF TxInsert, Goto, TypeOK, TasksOK, DatabaseOK, OneTaskPerBlock, Processing,
           InTransaction
  <2>2. CASE q = p
    <3>1. blk[p] \in Blocks /\ TxAt(p) \in Txs
      BY <1>14, BlockOfTask, TxOfTask DEF TxInsert, Processing, InTransaction
    <3>2. /\ pc'[p] = "txChaincode" /\ txi' = txi /\ blk' = blk
          /\ txRows'[blk[p]] = [txRows[blk[p]] EXCEPT ![TxAt(p)] = @ + 1]
      BY <1>0, <1>14, <3>1 DEF TxInsert, Goto, TypeOK, TasksOK, DatabaseOK
    <3>3. txRows[blk[p]] \in [Txs -> Nat]
      BY <1>0, <3>1 DEF TypeOK, DatabaseOK
    <3>4. /\ txRows'[blk[p]][TxAt(p)] > 0
          /\ \A t \in Txs : txRows[blk[p]][t] > 0 => txRows'[blk[p]][t] > 0
      BY <3>1, <3>2, <3>3
    <3>5. \A i \in 1 .. Len(TxsOf[blk[p]]) : TxsOf[blk[p]][i] \in Txs
      BY <3>1, TxsOfType
    <3> QED BY <1>0, <1>14, <2>2, <3>2, <3>4, <3>5
           DEF TxInsert, TaskRows, TxAt, InTransaction, InBlock
  <2> QED BY <2>1, <2>2
<1>15. ASSUME NEW p \in Proc, TxChaincode(p) PROVE TaskRows(q)'
  <2>1. CASE q # p
    BY <1>0, <1>15, <2>1, UnmovedTask DEF TxChaincode, Goto, TypeOK, TasksOK
  <2>2. CASE q = p
    <3>1. pc'[p] = "txChannel" /\ txi' = txi /\ blk' = blk /\ txRows' = txRows
      BY <1>0, <1>15 DEF TxChaincode, Goto, TypeOK, TasksOK
    <3> QED BY <1>0, <1>15, <2>2, <3>1
           DEF TxChaincode, TaskRows, TxAt, InTransaction, InBlock
  <2> QED BY <2>1, <2>2
<1>16. ASSUME NEW p \in Proc, TxChannel(p) PROVE TaskRows(q)'
  <2>1. CASE q # p
    BY <1>0, <1>16, <2>1, UnmovedTask, NextTxAt
       DEF TxChannel, TypeOK, TasksOK, InTransaction
  <2>2. CASE q = p
    <3>1. pc[p] \in InTransaction /\ txRows[blk[p]][TxAt(p)] > 0
      BY <1>0, <1>16, <2>2 DEF TxChannel, InTransaction, TaskRows
    <3> QED BY <1>0, <1>16, <2>2, <3>1, NextTxRows DEF TxChannel
  <2> QED BY <2>1, <2>2
<1>17. ASSUME NEW p \in Proc, BlockCount(p) PROVE TaskRows(q)'
  <2>1. CASE q # p
    BY <1>0, <1>17, <2>1, UnmovedTask DEF BlockCount, Goto, TypeOK, TasksOK
  <2>2. CASE q = p
    <3>1. blockRows[blk[p]] \in Nat
      BY <1>0, <1>17, BlockOfTask DEF BlockCount, TypeOK, DatabaseOK, Processing, InBlock
    <3>2. /\ pc'[p] = IF blockRows[blk[p]] = 0 THEN "blockInsert" ELSE "leave"
          /\ blk' = blk /\ txRows' = txRows /\ blockRows' = blockRows
      BY <1>0, <1>17 DEF BlockCount, Goto, TypeOK, TasksOK
    <3> QED BY <1>0, <1>17, <2>2, <3>1, <3>2
           DEF BlockCount, TaskRows, InTransaction, InBlock
  <2> QED BY <2>1, <2>2
<1>18. ASSUME NEW p \in Proc, BlockInsert(p) PROVE TaskRows(q)'
  <2>1. CASE q # p
    BY <1>0, <1>18, <2>1, UnmovedTask
       DEF BlockInsert, Goto, TypeOK, TasksOK, DatabaseOK, OneTaskPerBlock, Processing,
           InBlock
  <2>2. CASE q = p
    <3>1. blk[p] \in Blocks /\ blockRows[blk[p]] = 0
      BY <1>0, <1>18, <2>2, BlockOfTask DEF BlockInsert, TaskRows, Processing, InBlock
    <3>2. announced[blk[p]] = 0
      BY <1>0, <3>1 DEF AnnouncedOnceStored, TypeOK, ProcessOK
    <3>3. /\ pc'[p] = "blockCounter" /\ blk' = blk /\ txRows' = txRows
          /\ blockRows'[blk[p]] = 1 /\ announced' = announced
      BY <1>0, <1>18, <3>1 DEF BlockInsert, Goto, TypeOK, TasksOK, DatabaseOK
    <3> QED BY <1>0, <1>18, <2>2, <3>2, <3>3
           DEF BlockInsert, TaskRows, InTransaction, InBlock
  <2> QED BY <2>1, <2>2
<1>19. ASSUME NEW p \in Proc, BlockCounter(p) PROVE TaskRows(q)'
  <2>1. CASE q # p
    BY <1>0, <1>19, <2>1, UnmovedTask DEF BlockCounter, Goto, TypeOK, TasksOK
  <2>2. CASE q = p
    <3>1. /\ pc'[p] = "announce" /\ blk' = blk /\ txRows' = txRows
          /\ blockRows' = blockRows /\ announced' = announced
      BY <1>0, <1>19 DEF BlockCounter, Goto, TypeOK, TasksOK
    <3> QED BY <1>0, <1>19, <2>2, <3>1
           DEF BlockCounter, TaskRows, InTransaction, InBlock
  <2> QED BY <2>1, <2>2
<1>20. ASSUME NEW p \in Proc, Finish(p) PROVE TaskRows(q)'
  <2>1. CASE q # p
    BY <1>0, <1>20, <2>1, UnmovedTask, ResumeAt
       DEF Finish, TypeOK, TasksOK, ProcessOK, OneTaskPerBlock, Processing, InBlock
  <2>2. CASE q = p
    BY <1>0, <1>20, <2>2, IdleTask, ResumeAt
         DEF Finish, Processing, InTransaction, InBlock
  <2> QED BY <2>1, <2>2
<1>21. ASSUME NEW r \in Rounds, ChainInfoNull(r) PROVE TaskRows(q)'
  BY <1>0, <1>21, ProcAssumption, IdleTask, UnmovedTask
     DEF ChainInfoNull, Goto, EndRound, TypeOK, TasksOK, Proc, Processing, InTransaction,
         InBlock
<1>22. ASSUME NEW r \in Rounds, LoadBlockNull(r) PROVE TaskRows(q)'
  BY <1>0, <1>22, ProcAssumption, IdleTask, UnmovedTask, ResumeAt
     DEF LoadBlockNull, TypeOK, TasksOK, Proc, Processing, InTransaction, InBlock
<1>23. ASSUME NEW r \in Rounds, NextMissingNull(r) PROVE TaskRows(q)'
  BY <1>0, <1>23, ProcAssumption, IdleTask, UnmovedTask
     DEF NextMissingNull, TypeOK, TasksOK, Proc, Processing, InTransaction, InBlock
<1>24. ASSUME NEW p \in Proc, ProcessingFails(p) PROVE TaskRows(q)'
  BY <1>0, <1>24, ProcAssumption, IdleTask, UnmovedTask, ResumeAt
     DEF ProcessingFails, TypeOK, TasksOK, Proc, Processing, InTransaction, InBlock
<1>25. ASSUME NEW r \in Rounds, LoadBlockFails(r) PROVE TaskRows(q)'
  BY <1>0, <1>25, ProcAssumption, IdleTask, UnmovedTask, ResumeAt
     DEF LoadBlockFails, TypeOK, TasksOK, Proc, Processing, InTransaction, InBlock
<1>26. ASSUME NEW r \in Rounds, FindMissingFails(r) PROVE TaskRows(q)'
  BY <1>0, <1>26, ProcAssumption, IdleTask, UnmovedTask
     DEF FindMissingFails, Goto, EndRound, TypeOK, TasksOK, Proc, Processing,
         InTransaction, InBlock
<1>27. CASE Crash
  BY <1>0, <1>27, ProcAssumption, IdleTask, UnmovedTask
     DEF Crash, TypeOK, TasksOK, Proc, Processing, InTransaction, InBlock
<1>28. CASE Restart
  BY <1>0, <1>28, ProcAssumption, IdleTask, UnmovedTask
     DEF Restart, TypeOK, TasksOK, Proc, Processing, InTransaction, InBlock
<1>29. CASE UNCHANGED vars
  BY <1>0, <1>29, ProcAssumption, IdleTask, UnmovedTask
       DEF vars, TypeOK, TasksOK, Proc, Processing, InTransaction, InBlock
<1>30. ASSUME NEW c \in Chaincodes, RegisterChaincode(c) PROVE TaskRows(q)'
  BY <1>0, <1>30, ProcAssumption, IdleTask, UnmovedTask
     DEF RegisterChaincode, TypeOK, TasksOK, Proc, Processing, InTransaction, InBlock
<1> QED
  BY <1>1, <1>2, <1>3, <1>4, <1>5, <1>6, <1>7, <1>8, <1>9, <1>10, <1>11, <1>12, <1>13,
       <1>14, <1>15, <1>16, <1>17, <1>18, <1>19, <1>20, <1>21, <1>22, <1>23, <1>24,
            <1>25, <1>26, <1>27, <1>28, <1>29, <1>30
     DEF Next, SyncBlocks, ProcessBlockEvent, Fault

(* An insert finds no row, the row of a block finds all its transactions,  *)
(* and an announcement finds the block stored and not announced.           *)
LEMMA RowsPreserved ==
  ASSUME TypeInv, RowsInv, [Next]_vars
  PROVE  (NoDuplicateRows /\ StoredBlockIsComplete /\ AnnouncedOnceStored)'
<1> USE DEF ledger, database, parent, shared, roundVars, faults, recorded
<1>0. /\ TypeOK /\ NoDuplicateRows /\ StoredBlockIsComplete /\ AnnouncedOnceStored
      /\ \A p \in Proc : TaskRows(p)
  BY DEF TypeInv, RowsInv
<1>1. CASE UNCHANGED <<txRows, blockRows, announced>>
  BY <1>0, <1>1 DEF NoDuplicateRows, StoredBlockIsComplete, AnnouncedOnceStored
<1>2. ASSUME NEW p \in Proc, TxInsert(p)
      PROVE  (NoDuplicateRows /\ StoredBlockIsComplete /\ AnnouncedOnceStored)'
  <2>1. blk[p] \in Blocks /\ TxAt(p) \in Txs
    BY <1>2, BlockOfTask, TxOfTask DEF TxInsert, Processing, InTransaction
  <2>2. txRows[blk[p]][TxAt(p)] = 0
    BY <1>0, <1>2 DEF TxInsert, TaskRows
  <2>3. /\ txRows' = [txRows EXCEPT ![blk[p]][TxAt(p)] = 1]
        /\ blockRows' = blockRows /\ announced' = announced
    BY <1>0, <1>2, <2>1, <2>2 DEF TxInsert, TypeOK, DatabaseOK
  <2>4. \A b \in Blocks, t \in Txs :
          txRows'[b][t] = IF b = blk[p] /\ t = TxAt(p) THEN 1 ELSE txRows[b][t]
    BY <1>0, <2>1, <2>3 DEF TypeOK, DatabaseOK
  <2>5. \A b \in Blocks : TxIdsOf(b) \subseteq Txs
    BY TxsOfType DEF TxIdsOf
  <2> QED BY <1>0, <2>3, <2>4, <2>5
          DEF NoDuplicateRows, StoredBlockIsComplete, AnnouncedOnceStored
<1>3. ASSUME NEW p \in Proc, BlockInsert(p)
      PROVE  (NoDuplicateRows /\ StoredBlockIsComplete /\ AnnouncedOnceStored)'
  <2>1. blk[p] \in Blocks /\ blockRows[blk[p]] = 0
    BY <1>0, <1>3, BlockOfTask DEF BlockInsert, TaskRows, Processing, InBlock
  <2>2. /\ txRows' = txRows /\ announced' = announced
        /\ \A b \in Blocks : blockRows'[b] = IF b = blk[p] THEN 1 ELSE blockRows[b]
    BY <1>0, <1>3, <2>1 DEF BlockInsert, TypeOK, DatabaseOK
  <2>3. \A t \in TxIdsOf(blk[p]) : txRows[blk[p]][t] > 0
    BY <1>0, <1>3 DEF BlockInsert, TaskRows, InBlock, TxIdsOf
  <2> QED BY <1>0, <2>1, <2>2, <2>3
          DEF NoDuplicateRows, StoredBlockIsComplete, AnnouncedOnceStored
<1>4. ASSUME NEW p \in Proc, Finish(p)
      PROVE  (NoDuplicateRows /\ StoredBlockIsComplete /\ AnnouncedOnceStored)'
  <2>1. CASE pc[p] = "leave"
    BY <1>1, <1>4, <2>1 DEF Finish
  <2>2. CASE pc[p] = "announce"
    <3>1. blk[p] \in Blocks /\ blockRows[blk[p]] > 0 /\ announced[blk[p]] = 0
      BY <1>0, <2>2, BlockOfTask DEF TaskRows, Processing, InBlock
    <3>2. /\ txRows' = txRows /\ blockRows' = blockRows
          /\ \A b \in Blocks : announced'[b] = IF b = blk[p] THEN 1 ELSE announced[b]
      BY <1>0, <1>4, <2>2, <3>1 DEF Finish, TypeOK, ProcessOK
    <3> QED BY <1>0, <3>1, <3>2
            DEF NoDuplicateRows, StoredBlockIsComplete, AnnouncedOnceStored
  <2> QED BY <1>4, <2>1, <2>2 DEF Finish
<1> QED
  <2>1. \/ UNCHANGED <<txRows, blockRows, announced>>
        \/ \E p \in Proc : TxInsert(p) \/ BlockInsert(p) \/ Finish(p)
    BY DEF Next, SyncBlocks, ProcessBlockEvent, Fault, vars, Commit, RegisterChaincode, Connect, Deliver,
           StartRound, ChainInfo, InvalidNoOfBlocks, LoadBlock, LoadDone, FindMissing,
           NextMissing, FinishRound, ChainInfoNull, LoadBlockNull, NextMissingNull,
           ProcessingFails, LoadBlockFails, FindMissingFails, Crash, Restart,
           Enter, TxCount, TxChaincode, TxChannel, BlockCount, BlockCounter
  <2> QED BY <1>1, <1>2, <1>3, <1>4, <2>1

(* The strengthened invariant from which the properties of the rows follow.*)
THEOREM RowsCorrect == Spec => [](TypeInv /\ RowsInv)
<1>1. Init => RowsInv
  BY DEF Init, FreshProcess, RowsInv, OneTaskPerBlock, TaskRows, NoDuplicateRows,
         StoredBlockIsComplete, AnnouncedOnceStored, Processing, InTransaction, InBlock
<1>2. TypeInv /\ RowsInv /\ [Next]_vars => RowsInv'
  BY OneTaskPreserved, TaskRowsPreserved, RowsPreserved DEF RowsInv
<1> QED BY TypeCorrect, <1>1, <1>2, PTL DEF Spec

-----------------------------------------------------------------------------
(* The properties that TLC checks of small instances, for all of them.     *)

(* Every variable keeps its type.                                          *)
THEOREM TypeOKAlways == Spec => []TypeOK
BY TypeCorrect, PTL DEF TypeInv

(* blocksInProcess excludes two tasks from one block.                      *)
THEOREM OneTaskPerBlockAlways == Spec => []OneTaskPerBlock
BY RowsCorrect, PTL DEF RowsInv

(* No row of blocks or transactions is ever written twice.                 *)
THEOREM NoDuplicateRowsAlways == Spec => []NoDuplicateRows
BY RowsCorrect, PTL DEF RowsInv

(* The row of a block comes after the rows of its transactions.            *)
THEOREM StoredBlockIsCompleteAlways == Spec => []StoredBlockIsComplete
BY RowsCorrect, PTL DEF RowsInv

(* A block is announced at most once, and stored by then.                  *)
THEOREM AnnouncedOnceStoredAlways == Spec => []AnnouncedOnceStored
BY RowsCorrect, PTL DEF RowsInv

(* Only the task of a block, or the death of the process, frees its key.   *)
THEOREM KeyFreedByItsTaskAlways == Spec => KeyFreedByItsTask
<1> DEFINE Freed == \A b \in blocksInProcess \ blocksInProcess' :
                      \/ up /\ ~up'
                      \/ \E p \in Proc :
                           pc[p] \in Processing /\ blk[p] = b /\ pc'[p] \notin Processing
<1>1. ASSUME TypeInv, [Next]_vars
      PROVE  [Freed]_vars
  <2>1. CASE Crash
    BY <2>1 DEF Crash
  <2>2. ASSUME NEW p \in Proc, Finish(p)
        PROVE  Freed
    <3>1. pc[p] \in Processing
      BY <2>2 DEF Finish, Processing, InBlock
    <3>2. pc'[p] \notin Processing
      BY <1>1, <2>2, ResumeAt DEF TypeInv, Finish, Processing, InTransaction, InBlock
    <3> QED BY <2>2, <3>1, <3>2 DEF Finish
  <2>3. CASE blocksInProcess \subseteq blocksInProcess'
    BY <2>3
  <2>4. \/ blocksInProcess \subseteq blocksInProcess'
        \/ Crash
        \/ \E p \in Proc : Finish(p)
    BY <1>1
       DEF Next, SyncBlocks, ProcessBlockEvent, Fault, vars, shared, Commit, RegisterChaincode,
           Connect,
           Deliver, StartRound, ChainInfo, InvalidNoOfBlocks, LoadBlock, LoadDone,
           FindMissing, NextMissing, FinishRound, ChainInfoNull, LoadBlockNull,
           NextMissingNull, ProcessingFails, LoadBlockFails, FindMissingFails, Restart,
           Enter, TxCount, TxInsert, TxChaincode, TxChannel, BlockCount, BlockInsert,
           BlockCounter
  <2> QED BY <2>1, <2>2, <2>3, <2>4
<1> QED BY <1>1, TypeCorrect, PTL DEF Spec, KeyFreedByItsTask

-----------------------------------------------------------------------------
(* The sync process implements the mirror.                                 *)

(* The initial states map to initial states of Mirror.                     *)
LEMMA MirrorInit ==
  ASSUME Init
  PROVE  M!Init
BY DEF Init, M!Init, Blocks, M!Blocks

(* Every step maps to a step of Mirror or changes nothing it sees.         *)
LEMMA MirrorStep ==
  ASSUME TypeInv, RowsInv, [Next]_vars
  PROVE  [M!Next]_(M!vars)
<1> USE DEF ledger, database, parent, shared, roundVars, faults, recorded
<1>0. /\ TypeOK
      /\ \A p \in Proc : TaskRows(p)
      /\ NoDuplicateRows /\ StoredBlockIsComplete /\ AnnouncedOnceStored
  BY DEF TypeInv, RowsInv
<1>1. CASE UNCHANGED <<height, txRows, blockRows, announced>>
  BY <1>1 DEF M!vars
<1>2. CASE Commit
  BY <1>2 DEF Commit, M!Next, M!Grow
<1>3. ASSUME NEW p \in Proc, TxInsert(p)
      PROVE  M!Next
  <2>1. /\ blk[p] \in Blocks /\ blk[p] < height
        /\ txi[p] \in 1 .. Len(TxsOf[blk[p]]) /\ TxAt(p) \in Txs
    BY <1>3, BlockOfTask, TxOfTask DEF TxInsert, Processing, InTransaction
  <2>2. txRows[blk[p]][TxAt(p)] = 0
    BY <1>0, <1>3 DEF TxInsert, TaskRows
  <2>3. M!StoreTx(blk[p], txi[p])
    BY <1>0, <1>3, <2>1, <2>2
       DEF TxInsert, TxAt, M!StoreTx, TypeOK, DatabaseOK
  <2> QED BY <2>1, <2>3 DEF M!Next, M!Blocks, Blocks
<1>4. ASSUME NEW p \in Proc, BlockInsert(p)
      PROVE  M!Next
  <2>1. blk[p] \in Blocks /\ blockRows[blk[p]] = 0
    BY <1>0, <1>4, BlockOfTask DEF BlockInsert, TaskRows, Processing, InBlock
  <2>2. \A i \in 1 .. Len(TxsOf[blk[p]]) : txRows[blk[p]][TxsOf[blk[p]][i]] = 1
    <3>1. TAKE i \in 1 .. Len(TxsOf[blk[p]])
    <3>2. TxsOf[blk[p]][i] \in Txs
      BY <2>1, TxsOfType
    <3>3. txRows[blk[p]][TxsOf[blk[p]][i]] \in Nat
      BY <1>0, <2>1, <3>2 DEF TypeOK, DatabaseOK
    <3>4. txRows[blk[p]][TxsOf[blk[p]][i]] <= 1
      BY <1>0, <2>1, <3>2 DEF NoDuplicateRows
    <3>5. txRows[blk[p]][TxsOf[blk[p]][i]] > 0
      BY <1>0, <1>4 DEF BlockInsert, TaskRows, InBlock
    <3> QED BY <3>3, <3>4, <3>5
  <2>3. M!StoreBlock(blk[p])
    BY <1>0, <1>4, <2>1, <2>2 DEF BlockInsert, M!StoreBlock, TypeOK, DatabaseOK
  <2> QED BY <2>1, <2>3 DEF M!Next, M!Blocks, Blocks
<1>5. ASSUME NEW p \in Proc, Finish(p)
      PROVE  [M!Next]_(M!vars)
  <2>1. CASE pc[p] = "leave"
    BY <1>1, <1>5, <2>1 DEF Finish
  <2>2. CASE pc[p] = "announce"
    <3>1. blk[p] \in Blocks /\ blockRows[blk[p]] > 0 /\ announced[blk[p]] = 0
      BY <1>0, <2>2, BlockOfTask DEF TaskRows, Processing, InBlock
    <3>2. blockRows[blk[p]] = 1
      BY <1>0, <3>1 DEF NoDuplicateRows, TypeOK, DatabaseOK
    <3>3. M!Announce(blk[p])
      BY <1>0, <1>5, <2>2, <3>1, <3>2 DEF Finish, M!Announce, TypeOK, ProcessOK
    <3> QED BY <3>1, <3>3 DEF M!Next, M!Blocks, Blocks
  <2> QED BY <1>5, <2>1, <2>2 DEF Finish
<1> QED
  <2>1. \/ UNCHANGED <<height, txRows, blockRows, announced>>
        \/ Commit
        \/ \E p \in Proc : TxInsert(p) \/ BlockInsert(p) \/ Finish(p)
    BY DEF Next, SyncBlocks, ProcessBlockEvent, Fault, vars, RegisterChaincode, Connect, Deliver,
           StartRound, ChainInfo, InvalidNoOfBlocks, LoadBlock, LoadDone, FindMissing,
           NextMissing, FinishRound, ChainInfoNull, LoadBlockNull, NextMissingNull,
           ProcessingFails, LoadBlockFails, FindMissingFails, Crash, Restart,
           Enter, TxCount, TxChaincode, TxChannel, BlockCount, BlockCounter
  <2> QED BY <1>1, <1>2, <1>3, <1>4, <1>5, <2>1

(* Overlapping rounds, listeners, crashes and failures all amount to       *)
(* storing transactions, then their block, then announcing it, each once.  *)
THEOREM ImplementsMirror == Spec => MirrorSpec
<1>1. Init => M!Init
  BY MirrorInit
<1>2. TypeInv /\ RowsInv /\ [Next]_vars => [M!Next]_(M!vars)
  BY MirrorStep
<1> QED BY <1>1, <1>2, RowsCorrect, PTL DEF Spec, MirrorSpec, M!Spec

-----------------------------------------------------------------------------
(* The window of a round.                                                  *)

Window(r) == StartingBlockHeight(latest[r]) .. latest[r]

(* What a round knows of its window: the loop that loads it is below the   *)
(* height the round has seen, the list it made lies in it, and so does the *)
(* block it has in hand.                                                   *)
RoundInWindow(r) ==
  /\ pc[r] \in {"off", "chainInfo", "load", "findMissing"} => phase[r] = "load"
  /\ pc[r] = "missing" => phase[r] = "missing"
  /\ pc[r] = "load" => blk[r] <= latest[r]
  /\ phase[r] = "missing" => todo[r] \subseteq Window(r)
  /\ pc[r] \in {"enter"} \cup Processing => blk[r] \in Window(r)

(* A step that leaves a round alone leaves it its window.                  *)
LEMMA OtherRound ==
  ASSUME NEW r \in Rounds, RoundInWindow(r),
         pc'[r] = pc[r], blk'[r] = blk[r], boot' = boot, UNCHANGED roundVars
  PROVE  RoundInWindow(r)'
BY DEF RoundInWindow, Window, StartingBlockHeight, NoOfBlocks, roundVars

(* A round that ends has no window any more.                               *)
LEMMA EndedRound ==
  ASSUME TypeInv, NEW r \in Rounds, EndRound(r)
  PROVE  RoundInWindow(r)'
<1>1. pc'[r] = "off" /\ phase'[r] = "load"
  BY DEF TypeInv, TypeOK, TasksOK, RoundsOK, EndRound, Goto, Proc
<1> QED BY <1>1 DEF RoundInWindow, Processing, InTransaction, InBlock

(* A block that was skipped, stored or given up leads back to the loop it  *)
(* was taken from.                                                         *)
LEMMA ResumedRound ==
  ASSUME TypeInv, NEW r \in Rounds, RoundInWindow(r), Resume(r),
         pc[r] \in {"enter", "load"} \cup Processing, boot' = boot, UNCHANGED roundVars
  PROVE  RoundInWindow(r)'
<1>1. pc'[r] = phase[r] /\ phase[r] \in Loops
  BY ProcAssumption DEF TypeInv, TypeOK, TasksOK, RoundsOK, Resume, Proc
<1>2. phase'[r] = phase[r] /\ latest'[r] = latest[r] /\ todo'[r] = todo[r]
  BY DEF roundVars
<1>3. Window(r)' = Window(r)
  BY <1>2 DEF Window, StartingBlockHeight, NoOfBlocks
<1>4. CASE phase[r] = "missing"
  BY <1>1, <1>2, <1>3, <1>4 DEF RoundInWindow, Processing, InTransaction, InBlock
<1>5. CASE phase[r] = "load"
  <2>1. blk'[r] = blk[r] - 1 /\ blk[r] \in Int /\ latest[r] \in Int
    BY <1>5 DEF TypeInv, TypeOK, TasksOK, RoundsOK, Blocks, Resume, Proc
  <2>2. blk[r] <= latest[r]
    BY <2>1 DEF RoundInWindow, Window
  <2>3. blk'[r] <= latest'[r]
    BY <1>2, <2>1, <2>2
  <2> QED BY <1>1, <1>2, <1>5, <2>3 DEF RoundInWindow, Processing, InTransaction, InBlock
<1> QED BY <1>1, <1>4, <1>5 DEF Loops

(* A task only moves itself.                                               *)
LEMMA OneMoves ==
  ASSUME TypeInv, NEW p \in Proc,
         ProcessBlockEvent(p) \/ ProcessingFails(p)
  PROVE  /\ boot' = boot /\ UNCHANGED roundVars
         /\ \A r \in Rounds \ {p} : pc'[r] = pc[r] /\ blk'[r] = blk[r]
         /\ pc[p] \in {"enter"} \cup Processing
         /\ \/ Resume(p)
            \/ pc'[p] \in Processing /\ blk'[p] = blk[p]
<1> USE DEF TypeInv, TypeOK, TasksOK, Proc, Processing, InTransaction, InBlock, Goto
<1>1. CASE Enter(p)
  BY <1>1 DEF Enter, Resume
<1>2. CASE TxCount(p)
  BY <1>2 DEF TxCount, NextTx
<1>3. CASE TxInsert(p) \/ TxChaincode(p) \/ BlockCount(p) \/ BlockInsert(p) \/ BlockCounter(p)
  BY <1>3 DEF TxInsert, TxChaincode, BlockCount, BlockInsert, BlockCounter
<1>4. CASE TxChannel(p)
  BY <1>4 DEF TxChannel, NextTx
<1>5. CASE Finish(p)
  BY <1>5 DEF Finish, Resume
<1>6. CASE ProcessingFails(p)
  BY <1>6 DEF ProcessingFails, Resume
<1> QED BY <1>1, <1>2, <1>3, <1>4, <1>5, <1>6 DEF ProcessBlockEvent

(* The start of a window is a block number.                                *)
LEMMA WindowStart ==
  ASSUME TypeInv, NEW r \in Rounds, pc[r] \notin {"off", "chainInfo"}
  PROVE  StartingBlockHeight(latest[r]) \in Nat
<1>1. boot.mode = "ALL" \/ (boot.mode = "CUSTOM" /\ boot.noOfBlocks \in Int)
  BY BootAssumption DEF TypeInv, TypeOK, ProcessOK, WindowKnown
<1>2. latest[r] \in Int
  BY DEF TypeInv, TypeOK, RoundsOK, Blocks
<1> QED BY <1>1, <1>2 DEF StartingBlockHeight, NoOfBlocks

(* The other steps of a round.                                             *)
LEMMA RoundMoves ==
  ASSUME TypeInv, NEW r \in Rounds, RoundInWindow(r),
         \/ StartRound(r) \/ SyncBlocks(r) \/ ChainInfoNull(r) \/ LoadBlockNull(r)
         \/ NextMissingNull(r) \/ LoadBlockFails(r) \/ FindMissingFails(r)
  PROVE  /\ RoundInWindow(r)'
         /\ boot' = boot
         /\ \A q \in Rounds \ {r} : /\ pc'[q] = pc[q] /\ blk'[q] = blk[q]
                                    /\ latest'[q] = latest[q] /\ phase'[q] = phase[q]
                                    /\ todo'[q] = todo[q]
<1> DEFINE Others ==
      /\ boot' = boot
      /\ \A q \in Rounds \ {r} : /\ pc'[q] = pc[q] /\ blk'[q] = blk[q]
                                 /\ latest'[q] = latest[q] /\ phase'[q] = phase[q]
                                 /\ todo'[q] = todo[q]
<1> USE DEF Proc, roundVars
<1>0. /\ pc \in [Proc -> Labels] /\ blk \in [Proc -> -1 .. MaxHeight - 1]
      /\ latest \in [Rounds -> Blocks] /\ phase \in [Rounds -> Loops]
      /\ todo \in [Rounds -> SUBSET Blocks] /\ height \in 1 .. MaxHeight
  BY DEF TypeInv, TypeOK, LedgerOK, TasksOK, RoundsOK
<1>1. CASE StartRound(r)
  <2>1. Others
    BY <1>0, <1>1 DEF StartRound, Goto
  <2>2. pc'[r] = "chainInfo" /\ pc[r] = "off" /\ phase'[r] = phase[r]
    BY <1>0, <1>1 DEF StartRound, Goto
  <2> QED BY <2>1, <2>2 DEF RoundInWindow, Processing, InTransaction, InBlock
<1>2. CASE ChainInfo(r)
  <2>1. Others
    BY <1>0, <1>2 DEF ChainInfo, Goto
  <2>2. /\ pc'[r] = "load" /\ pc[r] = "chainInfo" /\ phase'[r] = phase[r]
        /\ blk'[r] = height - 1 /\ latest'[r] = height - 1
    BY <1>0, <1>2 DEF ChainInfo, Goto
  <2>3. blk'[r] <= latest'[r]
    BY <1>0, <2>2
  <2> QED BY <2>1, <2>2, <2>3 DEF RoundInWindow, Processing, InTransaction, InBlock
<1>3. CASE InvalidNoOfBlocks(r) \/ ChainInfoNull(r) \/ FindMissingFails(r) \/ FinishRound(r)
  <2>1. Others
    BY <1>0, <1>3 DEF InvalidNoOfBlocks, ChainInfoNull, FindMissingFails, FinishRound,
                      EndRound, Goto
  <2>2. EndRound(r)
    BY <1>3 DEF InvalidNoOfBlocks, ChainInfoNull, FindMissingFails, FinishRound
  <2> QED BY <2>1, <2>2, EndedRound
<1>4. CASE LoadBlock(r) \/ LoadBlockNull(r) \/ LoadBlockFails(r)
  <2>1. Others
    BY <1>0, <1>4 DEF LoadBlock, LoadBlockNull, LoadBlockFails, Resume, Goto
  <2>2. /\ pc[r] = "load" /\ blk[r] >= StartingBlockHeight(latest[r])
        /\ UNCHANGED roundVars
    BY <1>4 DEF LoadBlock, LoadBlockNull, LoadBlockFails
  <2>3. CASE Resume(r)
    BY <2>1, <2>2, <2>3, ResumedRound
  <2>4. CASE Goto(r, "enter") /\ UNCHANGED blk
    <3>1. blk[r] \in Window(r)
      BY <1>0, <2>2, WindowStart DEF RoundInWindow, Window, Blocks
    <3>2. Window(r)' = Window(r)
      BY <2>1, <2>2 DEF Window, StartingBlockHeight, NoOfBlocks
    <3>3. pc'[r] = "enter" /\ phase'[r] = phase[r] /\ phase[r] = "load" /\ blk'[r] = blk[r]
      BY <1>0, <2>2, <2>4 DEF RoundInWindow, Goto
    <3> QED BY <2>1, <3>1, <3>2, <3>3 DEF RoundInWindow
  <2> QED BY <1>4, <2>3, <2>4 DEF LoadBlock, LoadBlockNull, LoadBlockFails
<1>5. CASE LoadDone(r)
  <2>1. Others
    BY <1>0, <1>5 DEF LoadDone, Goto
  <2>2. pc'[r] = "findMissing" /\ pc[r] = "load" /\ phase'[r] = phase[r]
    BY <1>0, <1>5 DEF LoadDone, Goto
  <2> QED BY <2>1, <2>2 DEF RoundInWindow, Processing, InTransaction, InBlock
<1>6. CASE FindMissing(r)
  <2>1. Others
    BY <1>0, <1>6 DEF FindMissing, Goto
  <2>2. /\ pc'[r] = "missing" /\ pc[r] = "findMissing" /\ phase'[r] = "missing"
        /\ todo'[r] = MissingBlocks(r) /\ latest'[r] = latest[r]
    BY <1>0, <1>6 DEF FindMissing, Goto
  <2>3. MissingBlocks(r) \subseteq Window(r)
    BY <1>0, <2>2, WindowStart DEF MissingBlocks, Window, Blocks
  <2>4. Window(r)' = Window(r)
    BY <2>1, <2>2 DEF Window, StartingBlockHeight, NoOfBlocks
  <2> QED BY <2>1, <2>2, <2>3, <2>4 DEF RoundInWindow, Processing, InTransaction, InBlock
<1>7. CASE NextMissing(r) \/ NextMissingNull(r)
  <2>1. Others
    BY <1>0, <1>7 DEF NextMissing, NextMissingNull, Goto
  <2>2. /\ phase'[r] = phase[r] /\ latest'[r] = latest[r] /\ todo'[r] \subseteq todo[r]
        /\ pc[r] = "missing"
    BY <1>0, <1>7 DEF NextMissing, NextMissingNull
  <2>3. \/ pc'[r] = "enter" /\ blk'[r] \in todo[r]
        \/ pc'[r] = "missing"
    BY <1>0, <1>7 DEF NextMissing, NextMissingNull, Goto
  <2>4. Window(r)' = Window(r)
    BY <2>1, <2>2 DEF Window, StartingBlockHeight, NoOfBlocks
  <2> QED BY <2>1, <2>2, <2>3, <2>4 DEF RoundInWindow, Processing, InTransaction, InBlock
<1> QED BY <1>1, <1>2, <1>3, <1>4, <1>5, <1>6, <1>7 DEF SyncBlocks

(* A round works on blocks of its window only.                             *)
THEOREM WindowRespectedAlways == Spec => []WindowRespected
<1> DEFINE Inv == \A r \in Rounds : RoundInWindow(r)
<1>1. Init => Inv
  BY DEF Init, FreshProcess, RoundInWindow, Proc, Processing, InTransaction, InBlock
<1>2. TypeInv /\ Inv /\ [Next]_vars => Inv'
  <2> SUFFICES ASSUME TypeInv, Inv, [Next]_vars, NEW r \in Rounds
               PROVE  RoundInWindow(r)'
    OBVIOUS
  <2> r \in Proc
    BY DEF Proc
  <2>1. CASE \/ UNCHANGED vars \/ Commit \/ Restart
             \/ \E c \in Chaincodes : RegisterChaincode(c)
    BY <2>1, OtherRound DEF vars, Commit, Restart, RegisterChaincode
  <2>2. ASSUME NEW l \in Listeners, Connect(l) \/ Deliver(l) PROVE RoundInWindow(r)'
    <3>1. pc'[r] = pc[r] /\ blk'[r] = blk[r]
      BY <2>2, ProcAssumption
         DEF TypeInv, TypeOK, TasksOK, Connect, Deliver, Goto, Proc
    <3> QED BY <2>2, <3>1, OtherRound DEF Connect, Deliver
  <2>3. ASSUME NEW q \in Rounds, \/ StartRound(q) \/ SyncBlocks(q) \/ ChainInfoNull(q)
                                 \/ LoadBlockNull(q) \/ NextMissingNull(q)
                                 \/ LoadBlockFails(q) \/ FindMissingFails(q)
        PROVE  RoundInWindow(r)'
    <3>1. CASE q = r
      BY <2>3, <3>1, RoundMoves
    <3>2. CASE q # r
      <4>1. /\ pc'[r] = pc[r] /\ blk'[r] = blk[r] /\ boot' = boot
            /\ latest'[r] = latest[r] /\ phase'[r] = phase[r] /\ todo'[r] = todo[r]
        BY <2>3, <3>2, RoundMoves
      <4> QED BY <4>1 DEF RoundInWindow, Window, StartingBlockHeight, NoOfBlocks
    <3> QED BY <3>1, <3>2
  <2>4. ASSUME NEW p \in Proc, ProcessBlockEvent(p) \/ ProcessingFails(p)
        PROVE  RoundInWindow(r)'
    <3>1. CASE p # r
      BY <2>4, <3>1, OneMoves, OtherRound
    <3>2. CASE p = r /\ Resume(p)
      BY <2>4, <3>2, OneMoves, ResumedRound
    <3>3. CASE p = r /\ pc'[p] \in Processing /\ blk'[p] = blk[p]
      <4>1. /\ boot' = boot /\ UNCHANGED roundVars /\ pc[r] \in {"enter"} \cup Processing
        BY <2>4, <3>3, OneMoves
      <4> QED BY <3>3, <4>1 DEF RoundInWindow, Window, StartingBlockHeight, NoOfBlocks,
                            roundVars, Processing, InTransaction, InBlock
    <3> QED BY <2>4, <3>1, <3>2, <3>3, OneMoves
  <2>5. CASE Crash
    BY <2>5 DEF Crash, RoundInWindow, Proc, Processing, InTransaction, InBlock
  <2> QED BY <2>1, <2>2, <2>3, <2>4, <2>5 DEF Next, Fault
<1>3. Inv => WindowRespected
  BY DEF RoundInWindow, WindowRespected, Window
<1> QED BY TypeCorrect, <1>1, <1>2, <1>3, PTL DEF Spec

-----------------------------------------------------------------------------
(* The counters.                                                           *)

(* The awaits between the insert of a row and the update of its counters.  *)
Counting == {"blockCounter", "txChaincode", "txChannel"}

(* The tasks that have inserted a row the counter does not count yet.      *)
BlocksOwed   == At({"blockCounter"})
TransOwed    == At({"txChaincode", "txChannel"})

OwedTo(c)    == {p \in At({"txChaincode"}) : ChaincodeAt(p) = c}

(* A counter, the rows it counts, and the tasks that owe it one: what is   *)
(* left was lost.                                                          *)
Balanced(rows, n, owed) ==
  IsFiniteSet(rows) /\ Cardinality(rows) - n - Cardinality(owed) \in 0 .. Lost

Balances ==
  /\ Balanced(StoredBlocks, counters.blocks, BlocksOwed)
  /\ Balanced(StoredTxs, counters.trans, TransOwed)
  /\ \A c \in Chaincodes :
       Balanced(TxsNaming(c), counters.chaincode[c] + early[c], OwedTo(c))

(* A step leaves the other tasks at their block and transaction.           *)
Alone(p) == \A q \in Proc \ {p} : blk'[q] = blk[q] /\ txi'[q] = txi[q]

(* Tasks are finitely many, and so is what faults have lost.               *)
LEMMA TasksFinite ==
  ASSUME NEW labels
  PROVE  /\ IsFiniteSet(At(labels)) /\ Cardinality(At(labels)) \in Nat
         /\ Cardinality(Proc) \in Nat /\ Cardinality(At(labels)) <= Cardinality(Proc)
<1>1. At(labels) \in SUBSET Proc
  BY DEF At
<1> QED BY <1>1, FiniteAssumption, FS_Subset, FS_CardinalityType

(* What is lost is a number.                                               *)
LEMMA LostNat == TypeOK => Lost \in Nat
<1> SUFFICES ASSUME TypeOK PROVE Lost \in Nat
  OBVIOUS
<1>1. crashes \in Nat /\ fails \in Nat /\ Cardinality(Proc) \in Nat
  BY TasksFinite, BoundsAssumption DEF TypeOK, FaultsOK
<1>2. crashes * Cardinality(Proc) \in Nat
  BY <1>1
<1> QED BY <1>1, <1>2 DEF Lost

(* The types of the counters.                                              *)
LEMMA CountersNat ==
  ASSUME TypeOK
  PROVE  /\ counters.blocks \in Nat /\ counters.trans \in Nat
         /\ \A c \in Chaincodes : counters.chaincode[c] + early[c] \in Nat
BY DEF TypeOK, DatabaseOK, RecordedOK

(* The tasks that owe a chaincode one are finitely many as well.           *)
LEMMA OwedFinite ==
  ASSUME NEW c
  PROVE  /\ IsFiniteSet(OwedTo(c)) /\ Cardinality(OwedTo(c)) \in Nat
         /\ Cardinality(OwedTo(c)) <= Cardinality(At({"txChaincode"}))
         /\ Cardinality(OwedTo(c)) <= Cardinality(Proc)
<1>1. OwedTo(c) \subseteq At({"txChaincode"})
  BY DEF OwedTo
<1>2. IsFiniteSet(At({"txChaincode"}))
  BY TasksFinite
<1>3. /\ Cardinality(At({"txChaincode"})) \in Nat /\ Cardinality(Proc) \in Nat
      /\ Cardinality(At({"txChaincode"})) <= Cardinality(Proc)
  BY TasksFinite
<1>4. /\ IsFiniteSet(OwedTo(c)) /\ Cardinality(OwedTo(c)) \in Nat
      /\ Cardinality(OwedTo(c)) <= Cardinality(At({"txChaincode"}))
  BY <1>1, <1>2, FS_Subset, FS_CardinalityType
<1> QED BY <1>3, <1>4

(* Whom a task owes depends on where it is in its block.                   *)
LEMMA OwedSame ==
  ASSUME NEW c,
         \A q \in Proc : \/ pc'[q] = pc[q] /\ blk'[q] = blk[q] /\ txi'[q] = txi[q]
                         \/ pc[q] # "txChaincode" /\ pc'[q] # "txChaincode"
  PROVE  OwedTo(c)' = OwedTo(c)
BY DEF OwedTo, At, ChaincodeAt, TxAt

(* One task goes to another await: the tasks at labels, before and after.  *)
LEMMA TaskCounted ==
  ASSUME TasksOK, NEW p \in Proc, NEW label, pc' = [pc EXCEPT ![p] = label], NEW labels
  PROVE  Cardinality(At(labels)') =
           Cardinality(At(labels)) + (IF label \in labels THEN 1 ELSE 0)
                                   - (IF pc[p] \in labels THEN 1 ELSE 0)
<1>1. /\ pc'[p] = label
      /\ \A q \in Proc \ {p} : pc'[q] = pc[q]
  BY DEF TasksOK
<1>2. At(labels)' = IF label \in labels THEN At(labels) \cup {p} ELSE At(labels) \ {p}
  <2>1. At(labels)' = {q \in Proc : pc'[q] \in labels}
    BY DEF At
  <2>2. CASE label \in labels
    BY <1>1, <2>1, <2>2 DEF At
  <2>3. CASE label \notin labels
    BY <1>1, <2>1, <2>3 DEF At
  <2> QED BY <2>2, <2>3
<1>3. p \in At(labels) <=> pc[p] \in labels
  BY DEF At
<1>4. IsFiniteSet(At(labels)) /\ Cardinality(At(labels)) \in Nat
  BY TasksFinite
<1>5. /\ Cardinality(At(labels) \cup {p}) =
           IF p \in At(labels) THEN Cardinality(At(labels)) ELSE Cardinality(At(labels)) + 1
      /\ Cardinality(At(labels) \ {p}) =
           IF p \in At(labels) THEN Cardinality(At(labels)) - 1 ELSE Cardinality(At(labels))
  BY <1>4, FS_AddElement, FS_RemoveElement
<1> QED BY <1>2, <1>3, <1>4, <1>5

(* A block's row is inserted: it is new.                                   *)
LEMMA BlockStored ==
  ASSUME TypeInv, RowsInv, NEW p \in Proc, BlockInsert(p), IsFiniteSet(StoredBlocks)
  PROVE  /\ IsFiniteSet(StoredBlocks')
         /\ Cardinality(StoredBlocks') = Cardinality(StoredBlocks) + 1
<1>1. blk[p] \in Blocks /\ blockRows[blk[p]] = 0
  BY BlockOfTask DEF BlockInsert, RowsInv, TaskRows, Processing, InBlock
<1>2. \A b \in Blocks : blockRows'[b] = IF b = blk[p] THEN 1 ELSE blockRows[b]
  BY <1>1 DEF BlockInsert, TypeInv, TypeOK, DatabaseOK
<1>3. StoredBlocks' = StoredBlocks \cup {blk[p]}
  BY <1>1, <1>2 DEF StoredBlocks
<1>4. blk[p] \notin StoredBlocks
  BY <1>1 DEF StoredBlocks
<1> QED BY <1>3, <1>4, FS_AddElement

(* So is a transaction's.                                                  *)
LEMMA NewTx ==
  ASSUME TypeInv, RowsInv, NEW p \in Proc, TxInsert(p)
  PROVE  /\ StoredTxs' = StoredTxs \cup {<<blk[p], TxAt(p)>>}
         /\ <<blk[p], TxAt(p)>> \notin StoredTxs
<1> DEFINE new == <<blk[p], TxAt(p)>>
<1>1. blk[p] \in Blocks /\ TxAt(p) \in Txs /\ txRows[blk[p]][TxAt(p)] = 0
  BY BlockOfTask, TxOfTask DEF TxInsert, RowsInv, TaskRows, Processing, InTransaction
<1>2. txRows' = [txRows EXCEPT ![blk[p]][TxAt(p)] = @ + 1]
  BY DEF TxInsert
<1>3. \A b \in Blocks, t \in Txs :
        txRows'[b][t] = IF b = blk[p] /\ t = TxAt(p) THEN 1 ELSE txRows[b][t]
  BY <1>1, <1>2 DEF TypeInv, TypeOK, DatabaseOK
<1>4. StoredTxs' = {bt \in Blocks \X Txs : txRows'[bt[1]][bt[2]] > 0}
  BY DEF StoredTxs
<1>5. StoredTxs' = StoredTxs \cup {new}
  <2>1. ASSUME NEW bt \in Blocks \X Txs
        PROVE  txRows'[bt[1]][bt[2]] > 0 <=> txRows[bt[1]][bt[2]] > 0 \/ bt = new
    <3>1. bt = <<bt[1], bt[2]>> /\ bt[1] \in Blocks /\ bt[2] \in Txs
      OBVIOUS
    <3>2. bt = new <=> bt[1] = blk[p] /\ bt[2] = TxAt(p)
      BY <3>1
    <3> QED BY <1>1, <1>3, <3>1, <3>2
  <2>2. new \in Blocks \X Txs
    BY <1>1
  <2> QED BY <1>4, <2>1, <2>2 DEF StoredTxs
<1>6. new \notin StoredTxs
  BY <1>1 DEF StoredTxs
<1> QED BY <1>5, <1>6

(* One more transaction is stored.                                         *)
LEMMA TxStored ==
  ASSUME TypeInv, RowsInv, NEW p \in Proc, TxInsert(p), IsFiniteSet(StoredTxs)
  PROVE  /\ IsFiniteSet(StoredTxs')
         /\ Cardinality(StoredTxs') = Cardinality(StoredTxs) + 1
<1> DEFINE new == <<blk[p], TxAt(p)>>
<1>1. StoredTxs' = StoredTxs \cup {new} /\ new \notin StoredTxs
  BY NewTx
<1>2. IsFiniteSet(StoredTxs')
  BY <1>1, FS_AddElement
<1>3. Cardinality(StoredTxs \cup {new})
      = IF new \in StoredTxs THEN Cardinality(StoredTxs) ELSE Cardinality(StoredTxs) + 1
  BY FS_AddElement
<1> QED BY <1>1, <1>2, <1>3

(* Steps that neither store, count nor lose anything.                      *)
LEMMA NothingCounted ==
  ASSUME Balances, UNCHANGED <<txRows, blockRows, counters, crashes, fails, early>>,
         \A q \in Proc : \/ pc'[q] = pc[q] /\ blk'[q] = blk[q] /\ txi'[q] = txi[q]
                         \/ pc[q] \notin Counting /\ pc'[q] \notin Counting
  PROVE  Balances'
<1>1. \A labels \in SUBSET Counting : At(labels)' = At(labels)
  BY DEF At
<1>2. BlocksOwed' = BlocksOwed /\ TransOwed' = TransOwed
  BY <1>1 DEF Counting, BlocksOwed, TransOwed
<1>3. \A c : OwedTo(c)' = OwedTo(c)
  BY OwedSame DEF Counting
<1>4. /\ StoredBlocks' = StoredBlocks /\ StoredTxs' = StoredTxs /\ counters' = counters
      /\ Lost' = Lost /\ early' = early
  BY DEF StoredBlocks, StoredTxs, Lost
<1>5. \A c : TxsNaming(c)' = TxsNaming(c)
  BY <1>4 DEF TxsNaming
<1> QED BY <1>2, <1>3, <1>4, <1>5 DEF Balances, Balanced

(* A statement is rejected: what its task had still to count is lost.      *)
LEMMA FailureCounted ==
  ASSUME TypeOK, Balances, UNCHANGED <<database, crashes, early>>, fails' = fails + 1,
         NEW p \in Proc, NEW label, label \notin Counting, pc' = [pc EXCEPT ![p] = label],
         Alone(p)
  PROVE  Balances'
<1>1. /\ StoredBlocks' = StoredBlocks /\ StoredTxs' = StoredTxs /\ counters' = counters
      /\ \A c : TxsNaming(c)' = TxsNaming(c)
  BY DEF StoredBlocks, StoredTxs, TxsNaming, database
<1>2. Lost \in Nat /\ Lost' = Lost + 1
  <2>1. crashes * Cardinality(Proc) \in Nat /\ fails \in Nat
    BY TasksFinite, BoundsAssumption DEF TypeOK, FaultsOK
  <2> QED BY <2>1, LostNat DEF Lost
<1>3. ASSUME NEW labels \in SUBSET Counting, NEW rows, NEW n \in Nat,
             Balanced(rows, n, At(labels))
      PROVE  Cardinality(rows) - n - Cardinality(At(labels)') \in 0 .. Lost'
  <2>1. Cardinality(At(labels)') =
          Cardinality(At(labels)) + (IF label \in labels THEN 1 ELSE 0)
                                  - (IF pc[p] \in labels THEN 1 ELSE 0)
    BY TaskCounted DEF TypeOK
  <2>3. label \notin labels /\ Cardinality(At(labels)) \in Nat
    BY TasksFinite
  <2>2. Cardinality(rows) \in Nat /\ Cardinality(rows) - n - Cardinality(At(labels)) \in 0 .. Lost
    BY <1>3, FS_CardinalityType DEF Balanced
  <2> QED BY <1>2, <2>1, <2>2, <2>3
<1>4. ASSUME NEW c \in Chaincodes
      PROVE  Balanced(TxsNaming(c), counters.chaincode[c] + early[c], OwedTo(c))'
  <2>1. /\ pc'[p] # "txChaincode"
        /\ \A q \in Proc \ {p} : pc'[q] = pc[q] /\ blk'[q] = blk[q] /\ txi'[q] = txi[q]
    BY DEF TypeOK, TasksOK, Alone, Counting
  <2>2. OwedTo(c)' = OwedTo(c) \ {p}
    BY <2>1 DEF OwedTo, At, ChaincodeAt, TxAt
  <2>3. /\ Cardinality(OwedTo(c)) \in Nat
        /\ Cardinality(OwedTo(c)') \in {Cardinality(OwedTo(c)), Cardinality(OwedTo(c)) - 1}
    BY <2>2, OwedFinite, FS_RemoveElement
  <2>4. /\ IsFiniteSet(TxsNaming(c))
        /\ Cardinality(TxsNaming(c)) - (counters.chaincode[c] + early[c])
             - Cardinality(OwedTo(c)) \in 0 .. Lost
    BY DEF Balances, Balanced
  <2>5. Cardinality(TxsNaming(c)) \in Nat /\ counters.chaincode[c] + early[c] \in Nat
    BY <2>4, CountersNat, FS_CardinalityType
  <2>6. Cardinality(TxsNaming(c)) - (counters.chaincode[c] + early[c])
             - Cardinality(OwedTo(c)') \in 0 .. Lost'
    BY <1>2, <2>3, <2>4, <2>5
  <2> QED BY <1>1, <2>4, <2>6 DEF Balanced
<1> QED BY <1>1, <1>3, <1>4, CountersNat
      DEF Balances, Balanced, Counting, BlocksOwed, TransOwed

(* A crash stops all tasks: what they had still to count is lost.          *)
LEMMA CrashCounted ==
  ASSUME TypeOK, Balances, Crash
  PROVE  Balances'
<1>1. /\ StoredBlocks' = StoredBlocks /\ StoredTxs' = StoredTxs /\ counters' = counters
      /\ early' = early
      /\ \A c : TxsNaming(c)' = TxsNaming(c)
  BY DEF Crash, StoredBlocks, StoredTxs, TxsNaming, database
<1>2. Lost \in Nat /\ Lost' = Lost + Cardinality(Proc) /\ Cardinality(Proc) \in Nat
  <2>1. crashes \in Nat /\ fails \in Nat /\ Cardinality(Proc) \in Nat
    BY TasksFinite, BoundsAssumption DEF TypeOK, FaultsOK
  <2>2. (crashes + 1) * Cardinality(Proc) = crashes * Cardinality(Proc) + Cardinality(Proc)
    BY <2>1
  <2>3. crashes' = crashes + 1 /\ fails' = fails
    BY DEF Crash
  <2>4. Lost' = (crashes + 1) * Cardinality(Proc) + fails
    BY <2>3 DEF Lost
  <2>5. crashes * Cardinality(Proc) \in Nat
    BY <2>1
  <2> QED BY <2>1, <2>2, <2>4, <2>5, LostNat DEF Lost
<1>3. ASSUME NEW rows, NEW n \in Nat, NEW owed, Balanced(rows, n, owed),
             Cardinality(owed) \in 0 .. Cardinality(Proc), NEW left, left = {}
      PROVE  Cardinality(rows) - n - Cardinality(left) \in 0 .. Lost'
  <2>1. Cardinality(left) = 0
    BY <1>3, FS_EmptySet
  <2>2. Cardinality(rows) \in Nat /\ Cardinality(rows) - n - Cardinality(owed) \in 0 .. Lost
    BY <1>3, FS_CardinalityType DEF Balanced
  <2> QED BY <1>2, <1>3, <2>1, <2>2
<1>4. \A labels \in SUBSET Counting :
        At(labels)' = {} /\ Cardinality(At(labels)) \in 0 .. Cardinality(Proc)
  <2>1. \A labels \in SUBSET Counting : At(labels)' = {}
    BY DEF Crash, At, Counting
  <2> QED BY <2>1, TasksFinite
<1>5. \A c : OwedTo(c)' = {} /\ Cardinality(OwedTo(c)) \in 0 .. Cardinality(Proc)
  <2>1. \A c : OwedTo(c)' = {}
    BY DEF Crash, OwedTo, At
  <2> QED BY <2>1, OwedFinite
<1>6. /\ BlocksOwed' = {} /\ Cardinality(BlocksOwed) \in 0 .. Cardinality(Proc)
      /\ TransOwed' = {} /\ Cardinality(TransOwed) \in 0 .. Cardinality(Proc)
  BY <1>4 DEF BlocksOwed, TransOwed, Counting
<1>7. ASSUME NEW c \in Chaincodes
      PROVE  /\ IsFiniteSet(TxsNaming(c)')
             /\ Cardinality(TxsNaming(c)') - (counters'.chaincode[c] + early'[c])
                  - Cardinality(OwedTo(c)') \in 0 .. Lost'
  BY <1>1, <1>3, <1>5, CountersNat DEF Balances, Balanced
<1> QED BY <1>1, <1>3, <1>6, <1>7, CountersNat DEF Balances, Balanced

(* The same for the two sets of labels of the balances.                    *)
LEMMA CountersOwed ==
  ASSUME TasksOK, NEW p \in Proc, NEW label, Goto(p, label)
  PROVE  /\ Cardinality(BlocksOwed') =
              Cardinality(BlocksOwed) + (IF label = "blockCounter" THEN 1 ELSE 0)
                                      - (IF pc[p] = "blockCounter" THEN 1 ELSE 0)
         /\ Cardinality(TransOwed') =
              Cardinality(TransOwed)
                + (IF label \in {"txChaincode", "txChannel"} THEN 1 ELSE 0)
                - (IF pc[p] \in {"txChaincode", "txChannel"} THEN 1 ELSE 0)
<1>1. ASSUME NEW labels
      PROVE  Cardinality(At(labels)') =
               Cardinality(At(labels)) + (IF label \in labels THEN 1 ELSE 0)
                                       - (IF pc[p] \in labels THEN 1 ELSE 0)
  BY TaskCounted DEF Goto
<1>2. ASSUME NEW name
      PROVE  Cardinality(At({name})') =
               Cardinality(At({name})) + (IF label = name THEN 1 ELSE 0)
                                       - (IF pc[p] = name THEN 1 ELSE 0)
  BY <1>1
<1> QED BY <1>1, <1>2 DEF BlocksOwed, TransOwed

(* The row of a transaction counts for the chaincode it names.             *)
LEMMA NamingStored ==
  ASSUME TypeInv, RowsInv, NEW p \in Proc, TxInsert(p), NEW c,
         IsFiniteSet(TxsNaming(c))
  PROVE  /\ IsFiniteSet(TxsNaming(c)')
         /\ Cardinality(TxsNaming(c)') =
              Cardinality(TxsNaming(c)) + (IF ChaincodeAt(p) = c THEN 1 ELSE 0)
<1> DEFINE new == <<blk[p], TxAt(p)>>
<1>1. StoredTxs' = StoredTxs \cup {new} /\ new \notin StoredTxs
  BY NewTx
<1>2. new[2] = TxAt(p)
  OBVIOUS
<1> HIDE DEF new
<1>3. TxsNaming(c)' = {bt \in StoredTxs' : ChaincodeOf[bt[2]] = c}
  BY DEF TxsNaming
<1>4. CASE ChaincodeAt(p) = c
  <2>1. TxsNaming(c)' = TxsNaming(c) \cup {new} /\ new \notin TxsNaming(c)
    BY <1>1, <1>2, <1>3, <1>4 DEF TxsNaming, ChaincodeAt
  <2> QED BY <1>4, <2>1, FS_AddElement
<1>5. CASE ChaincodeAt(p) # c
  <2>1. TxsNaming(c)' = TxsNaming(c)
    BY <1>1, <1>2, <1>3, <1>5 DEF TxsNaming, ChaincodeAt
  <2>2. Cardinality(TxsNaming(c)) \in Nat
    BY FS_CardinalityType
  <2> QED BY <1>5, <2>1, <2>2
<1> QED BY <1>4, <1>5

(* The steps of one task, for the counter of one chaincode: an insert is   *)
(* owed to the chaincode it names, an update pays it or comes too early.   *)
LEMMA ChaincodeCounted ==
  ASSUME TypeInv, RowsInv, Balances, NEW p \in Proc,
         TxInsert(p) \/ TxChaincode(p) \/ TxChannel(p) \/ BlockInsert(p) \/ BlockCounter(p)
  PROVE  \A c \in Chaincodes :
           /\ IsFiniteSet(TxsNaming(c)')
           /\ Cardinality(TxsNaming(c)') - (counters'.chaincode[c] + early'[c])
                - Cardinality(OwedTo(c)') \in 0 .. Lost
<1> SUFFICES ASSUME NEW c \in Chaincodes
             PROVE  /\ IsFiniteSet(TxsNaming(c)')
                    /\ Cardinality(TxsNaming(c)') - (counters'.chaincode[c] + early'[c])
                         - Cardinality(OwedTo(c)') \in 0 .. Lost
  OBVIOUS
<1>0. /\ IsFiniteSet(TxsNaming(c)) /\ Cardinality(TxsNaming(c)) \in Nat
      /\ IsFiniteSet(OwedTo(c)) /\ Cardinality(OwedTo(c)) \in Nat
      /\ Cardinality(TxsNaming(c)) - (counters.chaincode[c] + early[c])
           - Cardinality(OwedTo(c)) \in 0 .. Lost
      /\ counters.chaincode[c] + early[c] \in Nat /\ Lost \in Nat
  BY OwedFinite, CountersNat, LostNat, FS_CardinalityType DEF TypeInv, Balances, Balanced
<1>1. CASE TxInsert(p)
  <2>1. /\ pc[p] = "txInsert" /\ pc'[p] = "txChaincode" /\ blk' = blk /\ txi' = txi
        /\ \A q \in Proc \ {p} : pc'[q] = pc[q]
        /\ counters' = counters /\ early' = early
    BY <1>1 DEF TxInsert, Goto, TypeInv, TypeOK, TasksOK, recorded
  <2>2. /\ ChaincodeAt(p) = c => OwedTo(c)' = OwedTo(c) \cup {p} /\ p \notin OwedTo(c)
        /\ ChaincodeAt(p) # c => OwedTo(c)' = OwedTo(c)
    BY <2>1 DEF OwedTo, At, ChaincodeAt, TxAt
  <2>3. Cardinality(OwedTo(c)') =
          Cardinality(OwedTo(c)) + (IF ChaincodeAt(p) = c THEN 1 ELSE 0)
    BY <1>0, <2>2, FS_AddElement
  <2>4. /\ IsFiniteSet(TxsNaming(c)')
        /\ Cardinality(TxsNaming(c)') =
             Cardinality(TxsNaming(c)) + (IF ChaincodeAt(p) = c THEN 1 ELSE 0)
    BY <1>0, <1>1, NamingStored
  <2> QED BY <1>0, <2>1, <2>3, <2>4
<1>2. CASE TxChaincode(p)
  <2>1. /\ pc[p] = "txChaincode" /\ pc'[p] = "txChannel" /\ blk' = blk /\ txi' = txi
        /\ \A q \in Proc \ {p} : pc'[q] = pc[q]
        /\ txRows' = txRows
    BY <1>2 DEF TxChaincode, Goto, TypeInv, TypeOK, TasksOK
  <2>2. /\ ChaincodeAt(p) = c => OwedTo(c)' = OwedTo(c) \ {p} /\ p \in OwedTo(c)
        /\ ChaincodeAt(p) # c => OwedTo(c)' = OwedTo(c)
    BY <2>1 DEF OwedTo, At, ChaincodeAt, TxAt
  <2>3. Cardinality(OwedTo(c)') =
          Cardinality(OwedTo(c)) - (IF ChaincodeAt(p) = c THEN 1 ELSE 0)
    <3>1. CASE ChaincodeAt(p) = c
      BY <1>0, <2>2, <3>1, FS_RemoveElement
    <3>2. CASE ChaincodeAt(p) # c
      BY <1>0, <2>2, <3>2
    <3> QED BY <3>1, <3>2
  <2>4. counters'.chaincode[c] + early'[c] =
          counters.chaincode[c] + early[c] + (IF ChaincodeAt(p) = c THEN 1 ELSE 0)
    <3>1. CASE ChaincodeAt(p) \in chaincodes
      BY <1>2, <3>1 DEF TxChaincode, TypeInv, TypeOK, DatabaseOK, RecordedOK
    <3>2. CASE ChaincodeAt(p) \notin chaincodes
      <4>1. counters' = counters /\ early \in [Chaincodes -> Nat]
        BY <1>2, <3>2 DEF TxChaincode, TypeInv, TypeOK, RecordedOK
      <4>2. early'[c] = early[c] + (IF ChaincodeAt(p) = c THEN 1 ELSE 0)
        BY <1>2, <3>2, <4>1 DEF TxChaincode
      <4>3. counters.chaincode[c] \in Nat
        BY DEF TypeInv, TypeOK, DatabaseOK
      <4> QED BY <4>1, <4>2, <4>3
    <3> QED BY <3>1, <3>2
  <2>5. TxsNaming(c)' = TxsNaming(c)
    BY <2>1 DEF TxsNaming, StoredTxs
  <2> QED BY <1>0, <2>3, <2>4, <2>5
<1>3. CASE TxChannel(p) \/ BlockInsert(p) \/ BlockCounter(p)
  <2>1. /\ pc[p] # "txChaincode" /\ pc'[p] # "txChaincode"
        /\ \A q \in Proc \ {p} : pc'[q] = pc[q] /\ blk'[q] = blk[q] /\ txi'[q] = txi[q]
    BY <1>3 DEF TxChannel, BlockInsert, BlockCounter, NextTx, Goto, TypeInv, TypeOK, TasksOK
  <2>2. OwedTo(c)' = OwedTo(c)
    BY <2>1, OwedSame
  <2>3. TxsNaming(c)' = TxsNaming(c)
    BY <1>3 DEF TxsNaming, StoredTxs, TxChannel, BlockInsert, BlockCounter
  <2>4. counters'.chaincode = counters.chaincode /\ early' = early
    BY <1>3 DEF TxChannel, BlockInsert, BlockCounter, recorded, TypeInv, TypeOK, DatabaseOK
  <2> QED BY <1>0, <2>2, <2>3, <2>4
<1> QED BY <1>1, <1>2, <1>3

(* The steps that insert a row or update a counter.                        *)
LEMMA RowCounted ==
  ASSUME TypeInv, RowsInv, Balances, NEW p \in Proc,
         TxInsert(p) \/ TxChaincode(p) \/ TxChannel(p) \/ BlockInsert(p) \/ BlockCounter(p)
  PROVE  Balances'
<1>1. /\ IsFiniteSet(StoredBlocks) /\ Cardinality(StoredBlocks) \in Nat
      /\ IsFiniteSet(StoredTxs) /\ Cardinality(StoredTxs) \in Nat
      /\ Cardinality(BlocksOwed) \in Nat
      /\ Cardinality(TransOwed) \in Nat /\ Lost \in Nat /\ TasksOK
  <2>1. \A labels : Cardinality(At(labels)) \in Nat
    BY TasksFinite
  <2>2. /\ Cardinality(BlocksOwed) \in Nat /\ Cardinality(TransOwed) \in Nat
    BY <2>1 DEF BlocksOwed, TransOwed
  <2> QED BY <2>2, LostNat, FS_CardinalityType DEF Balances, Balanced, TypeInv, TypeOK
<1>2. /\ Cardinality(StoredBlocks) - counters.blocks - Cardinality(BlocksOwed) \in 0 .. Lost
      /\ Cardinality(StoredTxs) - counters.trans - Cardinality(TransOwed) \in 0 .. Lost
  BY DEF Balances, Balanced
<1>3. counters.blocks \in Nat /\ counters.trans \in Nat
  BY CountersNat DEF TypeInv
<1>4. Lost' = Lost
  BY DEF TxInsert, TxChaincode, TxChannel, BlockInsert, BlockCounter, faults, Lost
<1>5. SUFFICES
        /\ IsFiniteSet(StoredBlocks') /\ IsFiniteSet(StoredTxs')
        /\ Cardinality(StoredBlocks') - counters'.blocks - Cardinality(BlocksOwed') \in 0 .. Lost
        /\ Cardinality(StoredTxs') - counters'.trans - Cardinality(TransOwed') \in 0 .. Lost
  BY <1>4, ChaincodeCounted DEF Balances, Balanced
<1>6. CASE TxInsert(p)
  <2>1. pc[p] = "txInsert" /\ Goto(p, "txChaincode")
    BY <1>6 DEF TxInsert
  <2>2. /\ Cardinality(BlocksOwed') = Cardinality(BlocksOwed)
        /\ Cardinality(TransOwed') = Cardinality(TransOwed) + 1
    BY <1>1, <2>1, CountersOwed
  <2>3. StoredBlocks' = StoredBlocks /\ counters' = counters
    BY <1>6 DEF TxInsert, StoredBlocks
  <2>4. IsFiniteSet(StoredTxs') /\ Cardinality(StoredTxs') = Cardinality(StoredTxs) + 1
    BY <1>1, <1>6, TxStored
  <2> QED BY <1>1, <1>2, <1>3, <2>2, <2>3, <2>4
<1>7. CASE TxChaincode(p)
  <2>1. pc[p] = "txChaincode" /\ Goto(p, "txChannel")
    BY <1>7 DEF TxChaincode
  <2>2. /\ Cardinality(BlocksOwed') = Cardinality(BlocksOwed)
        /\ Cardinality(TransOwed') = Cardinality(TransOwed)
    BY <1>1, <2>1, CountersOwed
  <2>3. /\ StoredBlocks' = StoredBlocks /\ StoredTxs' = StoredTxs
        /\ counters'.blocks = counters.blocks /\ counters'.trans = counters.trans
    BY <1>7 DEF TxChaincode, StoredBlocks, StoredTxs, TypeInv, TypeOK, DatabaseOK
  <2> QED BY <1>1, <1>2, <1>3, <2>2, <2>3
<1>8. CASE TxChannel(p)
  <2>1. PICK label \in {"txCount", "blockCount"} : Goto(p, label)
    BY <1>8 DEF TxChannel, NextTx
  <2>2. /\ Cardinality(BlocksOwed') = Cardinality(BlocksOwed)
        /\ Cardinality(TransOwed') = Cardinality(TransOwed) - 1
    BY <1>1, <1>8, <2>1, CountersOwed DEF TxChannel
  <2>3. /\ StoredBlocks' = StoredBlocks /\ StoredTxs' = StoredTxs
        /\ counters'.blocks = counters.blocks /\ counters'.trans = counters.trans + 1
    BY <1>8 DEF TxChannel, StoredBlocks, StoredTxs, TypeInv, TypeOK, DatabaseOK
  <2> QED BY <1>1, <1>2, <1>3, <2>2, <2>3
<1>9. CASE BlockInsert(p)
  <2>1. pc[p] = "blockInsert" /\ Goto(p, "blockCounter")
    BY <1>9 DEF BlockInsert
  <2>2. /\ Cardinality(BlocksOwed') = Cardinality(BlocksOwed) + 1
        /\ Cardinality(TransOwed') = Cardinality(TransOwed)
    BY <1>1, <2>1, CountersOwed
  <2>3. StoredTxs' = StoredTxs /\ counters' = counters
    BY <1>9 DEF BlockInsert, StoredTxs
  <2>4. /\ IsFiniteSet(StoredBlocks')
        /\ Cardinality(StoredBlocks') = Cardinality(StoredBlocks) + 1
    BY <1>1, <1>9, BlockStored
  <2> QED BY <1>1, <1>2, <1>3, <2>2, <2>3, <2>4
<1>10. CASE BlockCounter(p)
  <2>1. pc[p] = "blockCounter" /\ Goto(p, "announce")
    BY <1>10 DEF BlockCounter
  <2>2. /\ Cardinality(BlocksOwed') = Cardinality(BlocksOwed) - 1
        /\ Cardinality(TransOwed') = Cardinality(TransOwed)
    BY <1>1, <2>1, CountersOwed
  <2>3. /\ StoredBlocks' = StoredBlocks /\ StoredTxs' = StoredTxs
        /\ counters'.blocks = counters.blocks + 1 /\ counters'.trans = counters.trans
    BY <1>10 DEF BlockCounter, StoredBlocks, StoredTxs, TypeInv, TypeOK, DatabaseOK
  <2> QED BY <1>1, <1>2, <1>3, <2>2, <2>3
<1> QED BY <1>6, <1>7, <1>8, <1>9, <1>10

(* Every step keeps the balances.                                          *)
LEMMA BalancesPreserved ==
  ASSUME TypeInv, RowsInv, Balances, [Next]_vars
  PROVE  Balances'
<1> USE DEF faults, recorded, database
<1>0. TypeOK /\ TasksOK
  BY DEF TypeInv, TypeOK
<1>1. ASSUME NEW p \in Proc, NEW label, label \notin Counting, pc[p] \notin Counting,
             pc' = [pc EXCEPT ![p] = label], Alone(p),
             UNCHANGED <<txRows, blockRows, counters, crashes, fails, early>>
      PROVE  Balances'
  <2>1. \A q \in Proc : \/ pc'[q] = pc[q] /\ blk'[q] = blk[q] /\ txi'[q] = txi[q]
                        \/ pc[q] \notin Counting /\ pc'[q] \notin Counting
    BY <1>0, <1>1 DEF TasksOK, Alone
  <2> QED BY <1>1, <2>1, NothingCounted
<1>2. ASSUME UNCHANGED <<pc, blk, txi, txRows, blockRows, counters, crashes, fails, early>>
      PROVE  Balances'
  BY <1>2, NothingCounted
<1>3. ASSUME NEW p \in Proc, Resume(p)
      PROVE  /\ Alone(p)
             /\ \E label : label \notin Counting /\ pc' = [pc EXCEPT ![p] = label]
  <2>1. p \in Listeners \/ phase[p] \in Loops
    BY <1>0 DEF TypeOK, RoundsOK, Proc
  <2> DEFINE label == IF p \in Listeners THEN "listening" ELSE phase[p]
  <2>2. label \notin Counting
    BY <2>1 DEF Loops, Counting
  <2>3. pc' = [pc EXCEPT ![p] = label]
    BY <1>3 DEF Resume
  <2>4. Alone(p)
    BY <1>0, <1>3 DEF Resume, Alone, TasksOK
  <2> QED BY <2>2, <2>3, <2>4
<1>4. CASE Commit \/ Restart \/ \E c \in Chaincodes : RegisterChaincode(c)
  BY <1>2, <1>4 DEF Commit, Restart, RegisterChaincode
<1>5. ASSUME NEW l \in Listeners, Connect(l) \/ Deliver(l) PROVE Balances'
  <2>1. l \in Proc
    BY DEF Proc
  <2>2. CASE Connect(l)
    BY <1>0, <1>1, <2>1, <2>2 DEF Alone, TasksOK, Connect, Goto, Counting
  <2>3. CASE Deliver(l) /\ nextEvent[l] = 0
    BY <1>2, <2>3 DEF Deliver
  <2>4. CASE Deliver(l) /\ nextEvent[l] # 0
    BY <1>0, <1>1, <2>1, <2>4 DEF Alone, TasksOK, Deliver, Goto, Counting
  <2> QED BY <1>5, <2>2, <2>3, <2>4
<1>6. ASSUME NEW r \in Rounds, StartRound(r) \/ SyncBlocks(r) \/ ChainInfoNull(r)
                                 \/ LoadBlockNull(r) \/ NextMissingNull(r)
      PROVE  Balances'
  <2>1. r \in Proc
    BY DEF Proc
  <2>2. CASE NextMissingNull(r)
    BY <1>2, <2>2 DEF NextMissingNull
  <2>3. ASSUME Resume(r), pc[r] \notin Counting, UNCHANGED <<database, crashes, fails, early>>
        PROVE  Balances'
    BY <1>1, <1>3, <2>1, <2>3
  <2>4. CASE LoadBlock(r)
    <3>1. CASE Resume(r)
      BY <2>3, <2>4, <3>1 DEF LoadBlock, Counting
    <3>2. CASE Goto(r, "enter") /\ UNCHANGED <<blk, txi>>
      BY <1>1, <2>1, <2>4, <3>2 DEF Alone, LoadBlock, Goto, Counting
    <3> QED BY <2>4, <3>1, <3>2 DEF LoadBlock
  <2>5. CASE LoadBlockNull(r)
    BY <2>3, <2>5 DEF LoadBlockNull, Counting
  <2>6. CASE StartRound(r)
    BY <1>0, <1>1, <2>1, <2>6 DEF Alone, TasksOK, StartRound, Goto, Counting
  <2>7. CASE ChainInfo(r)
    BY <1>0, <1>1, <2>1, <2>7 DEF Alone, TasksOK, ChainInfo, Goto, Counting
  <2>8. CASE InvalidNoOfBlocks(r)
    BY <1>0, <1>1, <2>1, <2>8 DEF Alone, TasksOK, InvalidNoOfBlocks, EndRound, Goto, Counting
  <2>9. CASE LoadDone(r)
    BY <1>0, <1>1, <2>1, <2>9 DEF Alone, TasksOK, LoadDone, Goto, Counting
  <2>10. CASE FindMissing(r)
    BY <1>0, <1>1, <2>1, <2>10 DEF Alone, TasksOK, FindMissing, Goto, Counting
  <2>11. CASE NextMissing(r)
    BY <1>0, <1>1, <2>1, <2>11 DEF Alone, TasksOK, NextMissing, Goto, Counting
  <2>12. CASE FinishRound(r)
    BY <1>0, <1>1, <2>1, <2>12 DEF Alone, TasksOK, FinishRound, EndRound, Goto, Counting
  <2>13. CASE ChainInfoNull(r)
    BY <1>0, <1>1, <2>1, <2>13 DEF Alone, TasksOK, ChainInfoNull, EndRound, Goto, Counting
  <2> QED BY <1>6, <2>2, <2>4, <2>5, <2>6, <2>7, <2>8, <2>9, <2>10, <2>11, <2>12, <2>13
             DEF SyncBlocks
<1>7. ASSUME NEW p \in Proc, ProcessBlockEvent(p) PROVE Balances'
  <2>1. ASSUME Resume(p), pc[p] \notin Counting, UNCHANGED <<database, crashes, fails, early>>
        PROVE  Balances'
    BY <1>1, <1>3, <2>1
  <2>2. CASE Enter(p)
    <3>1. CASE Resume(p)
      BY <2>1, <2>2, <3>1 DEF Enter, Counting
    <3>2. CASE Goto(p, "txCount") /\ txi' = [txi EXCEPT ![p] = 1] /\ UNCHANGED blk
      <4>1. Alone(p)
        BY <1>0, <3>2 DEF Alone, TasksOK
      <4>2. pc[p] \notin Counting /\ "txCount" \notin Counting
        BY <2>2 DEF Enter, Counting
      <4> QED BY <1>1, <2>2, <3>2, <4>1, <4>2 DEF Enter, Goto
    <3> QED BY <2>2, <3>1, <3>2 DEF Enter
  <2>3. CASE TxCount(p)
    <3>1. PICK label \in {"txInsert", "txCount", "blockCount"} :
            pc' = [pc EXCEPT ![p] = label]
      BY <2>3 DEF TxCount, NextTx, Goto
    <3> QED BY <1>0, <1>1, <2>3, <3>1 DEF Alone, TasksOK, TxCount, NextTx, Counting
  <2>4. CASE BlockCount(p)
    <3>1. PICK label \in {"blockInsert", "leave"} : pc' = [pc EXCEPT ![p] = label]
      BY <2>4 DEF BlockCount, Goto
    <3> QED BY <1>0, <1>1, <2>4, <3>1 DEF Alone, BlockCount, Counting
  <2>5. CASE Finish(p)
    BY <2>1, <2>5 DEF Finish, Counting
  <2> QED BY <1>7, <2>2, <2>3, <2>4, <2>5, RowCounted DEF ProcessBlockEvent
<1>8. ASSUME NEW p \in Proc, ProcessingFails(p) \/ LoadBlockFails(p) PROVE Balances'
  <2>1. Resume(p) /\ fails' = fails + 1 /\ UNCHANGED <<database, crashes, early>>
    BY <1>8 DEF ProcessingFails, LoadBlockFails
  <2> QED BY <1>0, <1>3, <2>1, FailureCounted
<1>9. ASSUME NEW r \in Rounds, FindMissingFails(r) PROVE Balances'
  BY <1>0, <1>9, FailureCounted DEF Alone, TasksOK, FindMissingFails, EndRound, Goto, Counting, Proc
<1>10. CASE Crash
  BY <1>0, <1>10, CrashCounted
<1>11. CASE UNCHANGED vars
  BY <1>2, <1>11 DEF vars
<1> QED BY <1>4, <1>5, <1>6, <1>7, <1>8, <1>9, <1>10, <1>11 DEF Next, Fault, Proc

(* THEOREM: the counters of a channel never run ahead of the rows, and     *)
(* fall behind only by tasks on their way and by what faults lost.         *)
THEOREM CountersTrackRowsAlways == Spec => []CountersTrackRows
<1>1. Init => Balances
  <2> SUFFICES ASSUME Init PROVE Balances
    OBVIOUS
  <2>1. StoredBlocks = {} /\ StoredTxs = {}
    BY DEF Init, StoredBlocks, StoredTxs
  <2>2. \A labels \in SUBSET Counting : At(labels) = {}
    BY DEF Init, FreshProcess, At, Counting
  <2>3. Lost = 0
    BY TasksFinite DEF Init, Lost
  <2>4. /\ counters.blocks = 0 /\ counters.trans = 0
        /\ \A c \in Chaincodes : counters.chaincode[c] + early[c] = 0
    BY DEF Init
  <2>5. Balanced({}, 0, {})
    BY <2>3, FS_EmptySet DEF Balanced
  <2>6. BlocksOwed = {} /\ TransOwed = {} /\ \A c : OwedTo(c) = {}
    BY <2>2 DEF BlocksOwed, OwedTo, TransOwed, Counting
  <2>7. \A c : TxsNaming(c) = {}
    BY <2>1 DEF TxsNaming
  <2> QED BY <2>1, <2>4, <2>5, <2>6, <2>7 DEF Balances
<1>2. TypeInv /\ Balances => CountersTrackRows
  <2> SUFFICES ASSUME TypeInv, Balances PROVE CountersTrackRows
    OBVIOUS
  <2>1. ASSUME NEW rows, NEW n \in Nat, NEW owed, NEW labels, Balanced(rows, n, owed),
               Cardinality(owed) \in Nat, Cardinality(owed) <= Cardinality(At(labels))
        PROVE  Cardinality(rows) - n \in 0 .. Cardinality(At(labels)) + Lost
    <3>1. Cardinality(At(labels)) \in Nat /\ Lost \in Nat /\ Cardinality(rows) \in Nat
      BY <2>1, TasksFinite, LostNat, FS_CardinalityType DEF Balanced, TypeInv
    <3>2. Cardinality(rows) - n - Cardinality(owed) \in 0 .. Lost
      BY <2>1 DEF Balanced
    <3> QED BY <2>1, <3>1, <3>2
  <2>2. \A labels : Cardinality(At(labels)) \in Nat
    BY TasksFinite
  <2>3. Cardinality(StoredBlocks) - counters.blocks
          \in 0 .. Cardinality(At({"blockCounter"})) + Lost
    BY <2>1, <2>2, CountersNat DEF Balances, BlocksOwed, TypeInv
  <2>4. Cardinality(StoredTxs) - counters.trans
          \in 0 .. Cardinality(At({"txChaincode", "txChannel"})) + Lost
    BY <2>1, <2>2, CountersNat DEF Balances, TransOwed, TypeInv
  <2>5. ASSUME NEW c \in Chaincodes
        PROVE  Cardinality(TxsNaming(c)) - (counters.chaincode[c] + early[c])
                 \in 0 .. Cardinality(At({"txChaincode"})) + Lost
    BY <2>1, OwedFinite, CountersNat DEF Balances, TypeInv
  <2> QED BY <2>3, <2>4, <2>5 DEF CountersTrackRows
<1>3. TypeInv /\ RowsInv /\ Balances /\ [Next]_vars => Balances'
  BY BalancesPreserved
<1> QED BY <1>1, <1>2, <1>3, RowsCorrect, PTL DEF Spec

=============================================================================
