----------------------------- MODULE MCBlockSync -----------------------------
(* Instances of BlockSync for TLC.                                         *)
EXTENDS BlockSync, TLC

(* The genesis block with its one configuration transaction, a block of    *)
(* two transactions, and one that carries an id twice.                     *)
MCTxsOf == [b \in 0 .. MaxHeight - 1 |->
              CASE b = 0 -> <<"config">>
                [] b = 1 -> <<"t1", "t2">>
                [] OTHER -> <<"t2", "t2">>]

OneTxEach == [b \in 0 .. MaxHeight - 1 |-> <<"t1">>]

(* The configuration and t1, of _lifecycle, name no chaincode that has or   *)
(* gets a row; t2 names one.                                               *)
MCChaincodeOf == [t \in Txs |-> IF t = "t2" THEN "cc" ELSE NoChaincode]

NoChaincodes == [t \in Txs |-> NoChaincode]

AllBlocks  == {[mode |-> "ALL", noOfBlocks |-> 0]}
EveryMode  == AllBlocks \cup
              {[mode |-> "CUSTOM", noOfBlocks |-> n] : n \in {1, 2, NaN}}

Symmetry == Permutations(Rounds) \cup Permutations(Listeners)

=============================================================================
