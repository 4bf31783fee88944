------------------------------ MODULE Registry ------------------------------
(***************************************************************************)
(* What the table of channels promises: a channel gets a row only when the *)
(* peer has joined it, the row carries the genesis hash the ledger has at  *)
(* that moment, and no name ever gets a second row, whatever becomes of    *)
(* the ledger.  No task, failure or message is visible here.               *)
(***************************************************************************)
EXTENDS Naturals

CONSTANTS Channels, MaxRebuilds

Generations == 0 .. MaxRebuilds

VARIABLES joined, genesis, channelRows

vars == <<joined, genesis, channelRows>>

Init ==
  /\ joined = {}
  /\ genesis = [c \in Channels |-> 0]
  /\ channelRows = [h \in Channels \X Generations |-> 0]

(* The peer joins a channel.                                               *)
Join(c) ==
  /\ joined' = joined \cup {c}
  /\ UNCHANGED <<genesis, channelRows>>

(* The network is built anew: the same name, another genesis block.        *)
Rebuild(c) ==
  /\ genesis[c] < MaxRebuilds
  /\ genesis' = [genesis EXCEPT ![c] = @ + 1]
  /\ UNCHANGED <<joined, channelRows>>

(* A channel whose name has no row gets one.                               *)
Register(c) ==
  /\ c \in joined
  /\ \A g \in Generations : channelRows[<<c, g>>] = 0
  /\ channelRows' = [channelRows EXCEPT ![<<c, genesis[c]>>] = 1]
  /\ UNCHANGED <<joined, genesis>>

Next == \E c \in Channels : Join(c) \/ Rebuild(c) \/ Register(c)

Spec == Init /\ [][Next]_vars

=============================================================================
