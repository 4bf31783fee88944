----------------------------- MODULE Enrollment ------------------------------
(***************************************************************************)
(* Getting an identity and connecting (FabricGateway.initialize,           *)
(* enrollUserIdentity, enrollCaIdentity, getUserContext, FabricConfig,     *)
(* FabricClient.initialize).                                               *)
(*                                                                         *)
(* Explorer and a sync process started on its own share the directory of   *)
(* the wallet and the certificate authority.  Either may find the wallet   *)
(* without the explorer's admin and then enrolls the administrator of the  *)
(* authority, registers the explorer's admin, which an authority does once *)
(* for a name, and enrolls it.  The network, with its authority, may be    *)
(* built anew: certificates are those of a generation of it.               *)
(***************************************************************************)
EXTENDS Integers, FiniteSets

CONSTANTS
  Processes,
  CaEnabled,    \* FabricConfig.isFabricCaEnabled
  MaxRebuilds,  \* bound: times the network is built anew
  MaxRenewals,  \* bound: times it is and the wallet is forgotten
  MaxStops,     \* bound: processes that are stopped when connected
  MaxFails,     \* bound: calls of the authority that fail
  MaxCrashes,   \* bound: processes that are killed
  MaxDeletes,   \* bound: times the wallet alone is deleted
  MaxSilences   \* bound: queries of channels that fail

ASSUME EnrollmentAssumption ==
  /\ CaEnabled \in BOOLEAN
  /\ {MaxRebuilds, MaxRenewals, MaxStops, MaxFails, MaxCrashes, MaxDeletes,
      MaxSilences} \subseteq Nat

VARIABLES
  network,     \* its generation
  registered,  \* the authority knows the explorer's admin
  wallet,      \* [CaAdmin, Admin -> generation of the certificate, or None]
  at,          \* [Processes -> what is awaited]
  held,        \* [Processes -> generation of the certificate at hand, or None]
  n            \* counters of the bounds

vars == <<network, registered, wallet, at, held, n>>

None == 0
Admin == "explorer admin"
CaAdmin == "CA admin"
Generation == Nat \ {None}
Stages == {"off", "wallet", "enroll CA admin", "store CA admin", "context", "register",
           "enroll", "store", "connect", "query", "attached", "detached", "failed"}
WithCertificate == {"store CA admin", "register", "store", "query", "attached"}
Counters == [rebuilds : Nat, renewals : Nat, stops : Nat, fails : Nat, crashes : Nat,
             deletes : Nat, silences : Nat]

TypeOK ==
  /\ network \in Generation /\ registered \in BOOLEAN
  /\ wallet \in [{CaAdmin, Admin} -> Generation \cup {None}]
  /\ at \in [Processes -> Stages] /\ held \in [Processes -> Generation \cup {None}]
  /\ \A p \in Processes : at[p] \in WithCertificate => held[p] # None
  /\ n \in Counters

Init ==
  /\ network = 1 /\ registered = FALSE
  /\ wallet = [i \in {CaAdmin, Admin} |-> None]
  /\ at = [p \in Processes |-> "off"] /\ held = [p \in Processes |-> None]
  /\ n = [rebuilds |-> 0, renewals |-> 0, stops |-> 0, fails |-> 0, crashes |-> 0,
          deletes |-> 0, silences |-> 0]

Goes(p, stage) == at' = [at EXCEPT ![p] = stage]
Holds(p, g) == held' = [held EXCEPT ![p] = g]

(* What the authority refuses, or does not answer, enrollCaIdentity writes *)
(* to the log; initialize goes on to connect.                              *)
Refused(p) == Goes(p, "connect") /\ Holds(p, None) /\ UNCHANGED <<registered, wallet, n>>
CallFails(p) ==
  /\ n.fails < MaxFails /\ n' = [n EXCEPT !.fails = @ + 1]
  /\ Goes(p, "connect") /\ Holds(p, None) /\ UNCHANGED <<registered, wallet>>

-----------------------------------------------------------------------------

Start(p) ==
  /\ at[p] \in {"off", "failed"} /\ Goes(p, "wallet") /\ Holds(p, None)
  /\ UNCHANGED <<network, registered, wallet, n>>

(* Has the admin been enrolled already?                                    *)
GetIdentity(p) ==
  /\ at[p] = "wallet"
  /\ IF wallet[Admin] # None THEN Goes(p, "connect") /\ UNCHANGED held
     ELSE IF CaEnabled THEN Goes(p, "enroll CA admin") /\ UNCHANGED held
     ELSE Goes(p, "store") /\ Holds(p, network)
  /\ UNCHANGED <<network, registered, wallet, n>>

EnrollCaAdmin(p) ==
  /\ at[p] = "enroll CA admin"
  /\ \/ Goes(p, "store CA admin") /\ Holds(p, network) /\ UNCHANGED <<registered, wallet, n>>
     \/ CallFails(p)
  /\ UNCHANGED network

StoreCaAdmin(p) ==
  /\ at[p] = "store CA admin"
  /\ wallet' = [wallet EXCEPT ![CaAdmin] = held[p]] /\ Goes(p, "context")
  /\ UNCHANGED <<network, registered, held, n>>

GetUserContext(p) ==
  /\ at[p] = "context"
  /\ Goes(p, IF wallet[CaAdmin] = None THEN "connect" ELSE "register")
  /\ Holds(p, wallet[CaAdmin])
  /\ UNCHANGED <<network, registered, wallet, n>>

Register(p) ==
  /\ at[p] = "register"
  /\ \/ /\ ~registered /\ held[p] = network
        /\ registered' = TRUE /\ Goes(p, "enroll") /\ UNCHANGED <<held, wallet, n>>
     \/ (registered \/ held[p] # network) /\ Refused(p)
     \/ CallFails(p)
  /\ UNCHANGED network

Enroll(p) ==
  /\ at[p] = "enroll"
  /\ \/ /\ registered /\ Goes(p, "store") /\ Holds(p, network)
        /\ UNCHANGED <<registered, wallet, n>>
     \/ ~registered /\ Refused(p)
     \/ CallFails(p)
  /\ UNCHANGED network

(* MUTANT of StoreIdentity: it is only returned.                           *)
ReturnIdentity(p) ==
  /\ at[p] = "store" /\ Goes(p, "connect")
  /\ UNCHANGED <<network, registered, wallet, held, n>>

(* The last step of enrollCaIdentity, or enrollUserIdentity with the       *)
(* certificate of the connection profile.                                  *)
StoreIdentity(p) ==
  /\ at[p] = "store" /\ Goes(p, "connect")
  /\ wallet' = [wallet EXCEPT ![Admin] = held[p]]
  /\ UNCHANGED <<network, registered, held, n>>

(* Gateway.connect takes the identity from the wallet.                     *)
Connect(p) ==
  /\ at[p] = "connect"
  /\ Goes(p, IF wallet[Admin] = None THEN "failed" ELSE "query")
  /\ Holds(p, wallet[Admin])
  /\ UNCHANGED <<network, registered, wallet, n>>

(* queryChannels.  An identity of an old network is denied access, a peer  *)
(* or its channel may not answer: initialize catches either and leaves the *)
(* client detached, and nothing asks again while the process runs.         *)
QueryChannels(p) ==
  /\ at[p] = "query"
  /\ \/ held[p] = network /\ Goes(p, "attached") /\ UNCHANGED n
     \/ held[p] # network /\ Goes(p, "detached") /\ UNCHANGED n
     \/ /\ n.silences < MaxSilences /\ n' = [n EXCEPT !.silences = @ + 1]
        /\ Goes(p, "detached")
  /\ UNCHANGED <<network, registered, wallet, held>>

Step(p) ==
  \/ Start(p) \/ GetIdentity(p) \/ EnrollCaAdmin(p) \/ StoreCaAdmin(p) \/ GetUserContext(p)
  \/ Register(p) \/ Enroll(p) \/ StoreIdentity(p) \/ Connect(p) \/ QueryChannels(p)

Stop(p) ==
  /\ at[p] \in {"attached", "detached"} /\ n.stops < MaxStops
  /\ n' = [n EXCEPT !.stops = @ + 1]
  /\ Goes(p, "off") /\ Holds(p, None) /\ UNCHANGED <<network, registered, wallet>>

Crash(p) ==
  /\ at[p] \notin {"off", "failed"} /\ n.crashes < MaxCrashes
  /\ n' = [n EXCEPT !.crashes = @ + 1]
  /\ Goes(p, "off") /\ Holds(p, None) /\ UNCHANGED <<network, registered, wallet>>

Nobody == \A p \in Processes : at[p] \in {"off", "failed"}

(* The network is built anew and the wallet deleted.                       *)
Rebuild ==
  /\ Nobody /\ n.rebuilds < MaxRebuilds /\ n' = [n EXCEPT !.rebuilds = @ + 1]
  /\ network' = network + 1 /\ registered' = FALSE
  /\ wallet' = [i \in DOMAIN wallet |-> None]
  /\ UNCHANGED <<at, held>>

(* The network is built anew, and the wallet is outdated.                  *)
Renew ==
  /\ Nobody /\ n.renewals < MaxRenewals /\ n' = [n EXCEPT !.renewals = @ + 1]
  /\ network' = network + 1 /\ registered' = FALSE
  /\ UNCHANGED <<wallet, at, held>>

(* The wallet is deleted, and Explorer started again.                      *)
DeleteWallet ==
  /\ Nobody /\ n.deletes < MaxDeletes /\ n' = [n EXCEPT !.deletes = @ + 1]
  /\ wallet' = [i \in DOMAIN wallet |-> None]
  /\ UNCHANGED <<network, registered, at, held>>

Next ==
  \/ \E p \in Processes : Step(p) \/ Stop(p) \/ Crash(p)
  \/ Rebuild \/ Renew \/ DeleteWallet

(* What is awaited settles, and a process that ended is started again, as  *)
(* by a container's restart policy.                                        *)
Fairness == \A p \in Processes : WF_vars(Step(p))

Spec     == Init /\ [][Next]_vars
LiveSpec == Spec /\ Fairness

-----------------------------------------------------------------------------
(* Properties.                                                             *)

(* Unless the authority fails, a process is killed or the wallet is        *)
(* deleted, what is registered is in the wallet or on its way: a start     *)
(* that fails because another registers can be repeated (enrollCaIdentity, *)
(* which returns null then).                                               *)
NoLostRegistration ==
  n.fails = 0 /\ n.crashes = 0 /\ n.deletes = 0 /\ registered =>
    wallet[Admin] = network \/ \E p \in Processes : at[p] \in {"enroll", "store"}

(* Processes that are started together, and again when they fail, get      *)
(* connected in the end, also to a network built anew (initialize), if the *)
(* authority answers, nobody is killed and the wallet is of the network:   *)
(* all but one for each query of channels that was not answered, which     *)
(* leaves its process detached until it is stopped (FabricClient.ts:65).   *)
GetConnected ==
  [](n.fails = 0 /\ n.crashes = 0 /\ n.deletes = 0 /\ n.renewals = 0) =>
    <>[](/\ \A p \in Processes : at[p] \in {"attached", "detached"}
         /\ Cardinality({p \in Processes : at[p] = "detached"}) <= n.silences)

-----------------------------------------------------------------------------
(* What the documentation says and the code does not do (README, 5).       *)

(* When no call of the authority fails and no process is killed, Explorer  *)
(* starts, also without its wallet (TROUBLESHOOT.md:543).                  *)
StartsWithoutWallet ==
  n.fails = 0 /\ n.crashes = 0 => \A p \in Processes : at[p] # "failed"

=============================================================================
