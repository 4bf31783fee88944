----------------------------- MODULE MCAccounts -----------------------------
(* An instance of Accounts for TLC.                                        *)
EXTENDS Accounts, TLC

CONSTANTS n1, n2, root, ann

(* The administrator has the same name in both networks.                   *)
OneRoot == [n \in Networks |-> root]

RequestSymmetry == Permutations(Requests)

(* What an idle task has left in its variables is read by nothing.         *)
View == <<rows, tokens, up, todo, clients, pc, fails, crashes,
          [t \in {s \in Tasks : pc[s] # "idle"} |-> <<req[t], hadAdmin[t]>>]>>

=============================================================================
