---------------------------- MODULE Supervision ----------------------------
(***************************************************************************)
(* What the explorer promises about the sync processes it starts: they are *)
(* started at most once and all together, and when the explorer stops by   *)
(* itself it leaves none behind that was not asked to stop.  Only when it  *)
(* is killed may a worker be left without a request.  How start-up goes,   *)
(* sockets, messages and timers are not visible here.                      *)
(***************************************************************************)
CONSTANT Networks

VARIABLES
  parent,  \* the explorer process: "up" or "down"
  worker   \* [network]: its sync process

vars == <<parent, worker>>

Init ==
  /\ parent = "up"
  /\ worker = [n \in Networks |-> "none"]

(* All sync processes are started, once.                                   *)
Fork(S) ==
  /\ parent = "up"
  /\ \A n \in Networks : worker[n] = "none"
  /\ worker' = [n \in Networks |-> IF n \in S THEN "up" ELSE "none"]
  /\ UNCHANGED parent

(* A sync process ends, asked or not.                                      *)
WorkerEnds(n) ==
  /\ worker[n] \in {"up", "asked"}
  /\ worker' = [worker EXCEPT ![n] = "down"]
  /\ UNCHANGED parent

(* The explorer stops, and every worker still running is asked to.         *)
Stop ==
  /\ parent = "up"
  /\ parent' = "down"
  /\ worker' = [n \in Networks |-> IF worker[n] = "up" THEN "asked" ELSE worker[n]]

(* The explorer is killed.                                                 *)
Kill ==
  /\ parent = "up"
  /\ parent' = "down"
  /\ UNCHANGED worker

Next ==
  \/ \E S \in SUBSET Networks : Fork(S)
  \/ \E n \in Networks : WorkerEnds(n)
  \/ Stop
  \/ Kill

Spec == Init /\ [][Next]_vars

=============================================================================
