------------------------------- MODULE Mirror -------------------------------
(***************************************************************************)
(* What the readers of the database and the clients of the explorer may    *)
(* rely on: the tables are a growing copy of the ledger's blocks.  A       *)
(* transaction is written once, a block once and only after all of its     *)
(* transactions, and a block is announced at most once and only after it   *)
(* is written.  No task, no crash and no counter is visible here.          *)
(* BlockSync implements it with every variable mapped to its own.          *)
(***************************************************************************)
EXTENDS Naturals, Sequences

CONSTANTS MaxHeight, Txs, TxsOf

Blocks == 0 .. MaxHeight - 1

VARIABLES height, txRows, blockRows, announced

vars == <<height, txRows, blockRows, announced>>

Init ==
  /\ height \in 1 .. MaxHeight
  /\ txRows = [b \in Blocks |-> [t \in Txs |-> 0]]
  /\ blockRows = [b \in Blocks |-> 0]
  /\ announced = [b \in Blocks |-> 0]

(* The ledger grows.                                                       *)
Grow ==
  /\ height < MaxHeight
  /\ height' = height + 1
  /\ UNCHANGED <<txRows, blockRows, announced>>

(* A transaction of a block of the ledger gets its row.                    *)
StoreTx(b, i) ==
  /\ b < height
  /\ txRows[b][TxsOf[b][i]] = 0
  /\ txRows' = [txRows EXCEPT ![b][TxsOf[b][i]] = 1]
  /\ UNCHANGED <<height, blockRows, announced>>

(* A block all of whose transactions are there gets its row.               *)
StoreBlock(b) ==
  /\ blockRows[b] = 0
  /\ \A i \in 1 .. Len(TxsOf[b]) : txRows[b][TxsOf[b][i]] = 1
  /\ blockRows' = [blockRows EXCEPT ![b] = 1]
  /\ UNCHANGED <<height, txRows, announced>>

(* A stored block is announced.                                            *)
Announce(b) ==
  /\ blockRows[b] = 1
  /\ announced[b] = 0
  /\ announced' = [announced EXCEPT ![b] = 1]
  /\ UNCHANGED <<height, txRows, blockRows>>

Next ==
  \/ Grow
  \/ \E b \in Blocks : \/ \E i \in 1 .. Len(TxsOf[b]) : StoreTx(b, i)
                       \/ StoreBlock(b)
                       \/ Announce(b)

Spec == Init /\ [][Next]_vars

=============================================================================
