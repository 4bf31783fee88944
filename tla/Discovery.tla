------------------------------ MODULE Discovery ------------------------------
(***************************************************************************)
(* The status of the peers (FabricGateway's discovery, FabricClient's      *)
(* channels, Proxy.getPeersStatus, getChannels and processSyncMessage, the *)
(* routes peersStatus and channels).                                       *)
(*                                                                         *)
(* The explorer serves several requests and messages at a time.  Each is a *)
(* chain of awaits, and all of a network share one gateway, whose field ds *)
(* is the discovery service of the channel that was set up last.  A        *)
(* service is named by the call that created it.  The status of orderers,  *)
(* which the gateway knows without asking, is left out.                    *)
(***************************************************************************)
EXTENDS Integers, FiniteSets

CONSTANTS
  Channels, Peers,
  Org,         \* [Peers -> organizations]
  Joined,      \* [Channels -> peers that joined the channel]
  Calls,       \* bound: requests and messages served
  MaxChanges,  \* bound: changes of the peers
  MaxFails     \* bound: awaited calls that fail though a peer runs

None == "none"

ASSUME DiscoveryAssumption ==
  /\ Joined \in [Channels -> SUBSET Peers] /\ DOMAIN Org = Peers
  /\ MaxChanges \in Nat /\ MaxFails \in Nat
  /\ None \notin Channels \cup Calls

VARIABLES
  up,        \* the explorer runs
  status,    \* FabricClient.status
  known,     \* channels of channelsGenHash and of channels
  listed,    \* channels with rows in the database
  live,      \* peers that run
  connected, \* channels of the gateway's cache of networks
  targets,   \* dsTargets is not empty
  ds,        \* None, or the call whose service it is
  service,   \* [Calls -> channel and discoveryResults of its service]
  call,      \* [Calls -> the call]
  n          \* counters of the bounds

vars == <<up, status, known, listed, live, connected, targets, ds, service, call, n>>
gateway == <<connected, targets, ds, service>>

(* discoveryResults: the peers of a channel.                               *)
NoResult == [channel |-> None, peers |-> {}]
Result   == {NoResult} \cup [channel : Channels, peers : SUBSET Peers]

(* An answer: the peers listed, those that are UP, whose ledger's height.  *)
NoAnswer == [listed |-> {}, up |-> {}, height |-> None]
Answers  == [listed : SUBSET Peers, up : SUBSET Peers, height : Channels \cup {None}]

(* seen, always, crossed are histories: the peers that ran at some time of *)
(* the call and at all of it; another call went on.  sent: the service     *)
(* that is awaited.                                                        *)
Idle == [kind |-> None, channel |-> None, at |-> None, answer |-> NoAnswer,
         seen |-> {}, always |-> {}, crossed |-> FALSE, sent |-> None,
         result |-> NoResult]

Stages == {None, "orderers", "peers", "genesis", "setup", "targets", "send", "sent",
           "results", "answer", "done"}

Call == [kind : {None, "peers", "new", "update"}, channel : Channels \cup {None},
         at : Stages, answer : Answers, seen : SUBSET Peers, always : SUBSET Peers,
         crossed : BOOLEAN, sent : Calls \cup {None}, result : Result]
Service == [channel : Channels \cup {None}, result : Result]

TypeOK ==
  /\ up \in BOOLEAN /\ status \in BOOLEAN /\ targets \in BOOLEAN
  /\ known \subseteq Channels /\ listed \subseteq Channels /\ connected \subseteq Channels
  /\ live \subseteq Peers /\ ds \in Calls \cup {None}
  /\ service \in [Calls -> Service] /\ call \in [Calls -> Call]
  /\ \A i \in Calls : call[i].at = "sent" => call[i].sent # None
  /\ n \in [changes : Nat, fails : Nat]

(* FabricClient.initialize: without an answer of the peer it goes on       *)
(* detached; a channel whose genesis block fails is left out.              *)
Init ==
  /\ up = TRUE /\ status \in BOOLEAN
  /\ listed \in SUBSET Channels /\ known \in SUBSET Channels
  /\ ~status => known = listed
  /\ live = Peers
  /\ connected = {} /\ targets = FALSE /\ ds = None
  /\ service = [i \in Calls |-> [channel |-> None, result |-> NoResult]]
  /\ call = [i \in Calls |-> Idle]
  /\ n = [changes |-> 0, fails |-> 0]

Pending(i) == call[i].at \notin {None, "done"}
Goes(i, stage) == call' = [call EXCEPT ![i].at = stage]

(* An await of a peer fails because none runs, or by a timeout.            *)
Interrupted == n.fails < MaxFails /\ n' = [n EXCEPT !.fails = @ + 1]
Fails == Interrupted \/ (live = {} /\ UNCHANGED n)
Works == live # {} /\ UNCHANGED n

(* No one catches: main's handler of unhandled rejections ends the process. *)
Unhandled == up' = FALSE /\ UNCHANGED <<known, call, gateway>>

-----------------------------------------------------------------------------
(* Calls begin.                                                            *)

Begin(i, kind, c, stage) ==
  /\ up /\ call[i].at = None
  /\ call' = [j \in Calls |->
       IF j = i THEN [Idle EXCEPT !.kind = kind, !.channel = c, !.at = stage,
                        !.seen = live, !.always = live,
                        !.crossed = \E k \in Calls : Pending(k)]
       ELSE [call[j] EXCEPT !.crossed = @ \/ Pending(j)]]

(* The route peersStatus: the name of a channel the client does not know   *)
(* is undefined, and getNetwork refuses it.                                *)
GetPeersStatus(i, c) ==
  /\ c \in listed
  /\ \/ /\ c \in known /\ Begin(i, "peers", c, "orderers")
        /\ UNCHANGED <<up, known, gateway>>
     \/ up /\ call[i].at = None /\ c \notin known /\ Unhandled
  /\ UNCHANGED <<status, listed, live, n>>

(* initializeNewChannel: for a message of the sync process, or for a       *)
(* listed channel that getChannels does not know.                          *)
InitializeNewChannel(i, c) ==
  /\ c \in listed /\ Begin(i, "new", c, "genesis")
  /\ UNCHANGED <<up, status, known, listed, live, gateway, n>>

(* A message that a channel or its chaincodes changed.                     *)
InitializeChannelFromDiscover(i, c) ==
  /\ c \in listed
  /\ Begin(i, "update", c, IF c \in known THEN "setup" ELSE "genesis")
  /\ UNCHANGED <<up, status, known, listed, live, gateway, n>>

(* The sync process stores a channel.                                      *)
Stored(c) ==
  /\ c \notin listed /\ listed' = listed \cup {c}
  /\ UNCHANGED <<up, status, known, live, gateway, call, n>>

PeersChange(s) ==
  /\ n.changes < MaxChanges /\ n' = [n EXCEPT !.changes = @ + 1]
  /\ s # live /\ live' = s
  /\ call' = [i \in Calls |->
       IF Pending(i) THEN [call[i] EXCEPT !.seen = @ \cup s, !.always = @ \cap s]
       ELSE call[i]]
  /\ UNCHANGED <<up, status, known, listed, gateway>>

-----------------------------------------------------------------------------
(* Calls go on.                                                            *)

(* getActiveOrderersList: getNetwork is outside of its try.                *)
GetActiveOrderersList(i) ==
  /\ up /\ call[i].at = "orderers"
  /\ \/ /\ call[i].channel \in connected \/ live # {}
        /\ connected' = connected \cup {call[i].channel}
        /\ Goes(i, "peers") /\ UNCHANGED <<up, known, targets, ds, service, n>>
     \/ call[i].channel \notin connected /\ Fails /\ Unhandled
  /\ UNCHANGED <<status, listed, live>>

(* getPeerList, whose catch calls a callback that was not passed, and      *)
(* whether the client is connected.  The name of the channel is known      *)
(* since the call began.                                                   *)
GetPeerList(i) ==
  /\ up /\ call[i].at = "peers"
  /\ \/ /\ Goes(i, IF status THEN "setup" ELSE "answer")
        /\ UNCHANGED <<up, known, gateway, n>>
     \/ Interrupted /\ Unhandled
  /\ UNCHANGED <<status, listed, live>>

(* getGenesisBlock, then setChannelGenHash and addChannel at once.         *)
GetGenesisBlock(i) ==
  /\ up /\ call[i].at = "genesis"
  /\ \/ /\ Works /\ known' = known \cup {call[i].channel}
        /\ Goes(i, IF call[i].kind = "new" THEN "done" ELSE "setup")
        /\ UNCHANGED <<up, gateway>>
     \/ Fails /\ Unhandled
  /\ UNCHANGED <<status, listed, live>>

(* MUTANT of SetupDiscoveryRequest: the service that is there is kept.     *)
KeepDiscoveryService(i) ==
  /\ up /\ call[i].at = "setup"
  /\ \/ /\ call[i].channel \in connected \/ live # {}
        /\ connected' = connected \cup {call[i].channel}
        /\ IF ds = None
           THEN /\ service' = [service EXCEPT ![i].channel = call[i].channel]
                /\ ds' = i
           ELSE UNCHANGED <<ds, service>>
        /\ UNCHANGED n
     \/ Fails /\ ds' = None /\ UNCHANGED <<connected, service>>
  /\ Goes(i, "targets")
  /\ UNCHANGED <<up, status, known, listed, live, targets>>

SetupDiscoveryRequest(i) ==
  /\ up /\ call[i].at = "setup"
  /\ \/ /\ call[i].channel \in connected \/ live # {}
        /\ connected' = connected \cup {call[i].channel}
        /\ service' = [service EXCEPT ![i].channel = call[i].channel]
        /\ ds' = i /\ UNCHANGED n
     \/ Fails /\ ds' = None /\ UNCHANGED <<connected, service>>
  /\ Goes(i, "targets")
  /\ UNCHANGED <<up, status, known, listed, live, targets>>

(* An exception or no result: getPeersStatus has no discover_results.      *)
WithoutResult(i) == Goes(i, IF call[i].kind = "peers" THEN "answer" ELSE "done")

(* getDiscoveryServiceTarget connects to the peers of the organization;    *)
(* what it throws only getPeersStatus catches.                             *)
GetDiscoveryServiceTarget(i) ==
  /\ up /\ call[i].at = "targets"
  /\ \/ /\ targets \/ live # {}
        /\ targets' = TRUE /\ Goes(i, "send") /\ UNCHANGED <<up, known, n>>
        /\ UNCHANGED <<connected, ds, service>>
     \/ /\ ~targets /\ Fails
        /\ \/ call[i].kind = "peers" /\ WithoutResult(i) /\ UNCHANGED <<up, known, gateway>>
           \/ call[i].kind # "peers" /\ Unhandled
  /\ UNCHANGED <<status, listed, live>>

(* MUTANT of SendDiscoveryRequest: it waits until there is a service.      *)
SendDiscoveryLater(i) ==
  /\ up /\ call[i].at = "send" /\ ds # None
  /\ call' = [call EXCEPT ![i].at = "sent", ![i].sent = ds]
  /\ UNCHANGED <<up, status, known, listed, live, gateway, n>>

(* sendDiscoveryRequest: the service of now is sent,                       *)
SendDiscoveryRequest(i) ==
  /\ up /\ call[i].at = "send"
  /\ \/ ds = None /\ WithoutResult(i)
     \/ ds # None /\ call' = [call EXCEPT ![i].at = "sent", ![i].sent = ds]
  /\ UNCHANGED <<up, status, known, listed, live, gateway, n>>

(* MUTANT of Discovered: the answer is kept by the service of now.         *)
KeptByServiceOfNow(i) ==
  LET c == service[call[i].sent].channel
  IN  /\ up /\ call[i].at = "sent"
      /\ \/ /\ Works /\ Goes(i, "results")
            /\ service' = IF ds = None THEN service ELSE
                 [service EXCEPT ![ds].result =
                    [channel |-> service[ds].channel, peers |-> live \cap Joined[c]]]
         \/ /\ Fails /\ UNCHANGED service
            /\ IF ds = None THEN WithoutResult(i) ELSE Goes(i, "results")
      /\ UNCHANGED <<up, status, known, listed, live, connected, targets, ds>>

(* and its answer kept by it.  After a failure the service of now is       *)
(* closed, which fails without one.                                        *)
Discovered(i) ==
  LET s == call[i].sent
      c == service[s].channel
  IN  /\ up /\ call[i].at = "sent"
      /\ \/ /\ Works /\ Goes(i, "results")
            /\ service' =
                 [service EXCEPT ![s].result = [channel |-> c, peers |-> live \cap Joined[c]]]
         \/ /\ Fails /\ UNCHANGED service
            /\ IF ds = None THEN WithoutResult(i) ELSE Goes(i, "results")
      /\ UNCHANGED <<up, status, known, listed, live, connected, targets, ds>>

(* getDiscoveryResults of the service of now: one without results throws,  *)
(* and is dropped.                                                         *)
GetDiscoveryResults(i) ==
  /\ up /\ call[i].at = "results"
  /\ IF ds = None \/ (ds # None /\ service[ds].result = NoResult)
     THEN WithoutResult(i) /\ ds' = None
     ELSE /\ call' = [call EXCEPT ![i].result = service[ds].result,
                         ![i].at = IF call[i].kind = "peers" THEN "answer" ELSE "done"]
          /\ UNCHANGED ds
  /\ UNCHANGED <<up, status, known, listed, live, connected, targets, service, n>>

(* A peer is UP when it was discovered; without results it has no status,  *)
(* and a peer none of whose organization was discovered is not listed.     *)
PeersStatus(c, r) ==
  [listed |-> {p \in Joined[c] : r = NoResult \/ \E q \in r.peers : Org[q] = Org[p]},
   up |-> Joined[c] \cap r.peers, height |-> r.channel]

Answer(i) ==
  /\ up /\ call[i].at = "answer"
  /\ call' = [call EXCEPT ![i].at = "done",
                 ![i].answer = PeersStatus(call[i].channel, call[i].result)]
  /\ UNCHANGED <<up, status, known, listed, live, gateway, n>>

Step(i) ==
  \/ GetActiveOrderersList(i) \/ GetPeerList(i) \/ GetGenesisBlock(i)
  \/ SetupDiscoveryRequest(i) \/ GetDiscoveryServiceTarget(i)
  \/ SendDiscoveryRequest(i) \/ Discovered(i) \/ GetDiscoveryResults(i) \/ Answer(i)

Next ==
  \/ \E i \in Calls : Step(i)
  \/ \E i \in Calls, c \in Channels :
       GetPeersStatus(i, c) \/ InitializeNewChannel(i, c)
         \/ InitializeChannelFromDiscover(i, c)
  \/ \E c \in Channels : Stored(c)
  \/ \E s \in SUBSET Peers : PeersChange(s)

(* What is awaited settles: an answer, an error or a timeout of 5 s.       *)
Fairness == \A i \in Calls : WF_vars(Step(i))

Spec     == Init /\ [][Next]_vars
LiveSpec == Spec /\ Fairness

-----------------------------------------------------------------------------
(* Properties.                                                             *)

Answered(i) == call[i].kind = "peers" /\ call[i].at = "done"

(* Whatever other calls do to the shared service, a peer said to be UP ran *)
(* at some time of the request: every call sets a service up before it     *)
(* reads results (getDiscoveryResult).                                     *)
UpHasRun == \A i \in Calls : Answered(i) => call[i].answer.up \subseteq call[i].seen

(* If the answer is about its channel, a peer that ran all the time is UP  *)
(* (getPeersStatus).                                                       *)
RunningIsUp ==
  \A i \in Calls : Answered(i) /\ call[i].answer.height = call[i].channel =>
    call[i].always \cap Joined[call[i].channel] \subseteq call[i].answer.up

(* A request that no other call crosses is about its channel; it has       *)
(* results if a peer ran all the time and nothing timed out, whatever      *)
(* failed before it (the ds that was dropped or left behind).              *)
AloneIsDiscovered ==
  \A i \in Calls : Answered(i) /\ ~call[i].crossed =>
    /\ call[i].answer.height \in {call[i].channel, None}
    /\ status /\ call[i].always # {} /\ n.fails = 0 =>
         call[i].answer.height = call[i].channel

(* Every call ends, or ends the explorer: none waits for the service of    *)
(* another.                                                                *)
CallsEnd == \A i \in Calls : Pending(i) ~> (~Pending(i) \/ ~up)

-----------------------------------------------------------------------------
(* What the documentation says and the code does not do (README, 5).       *)

(* The heights and the status are those of the channel asked for           *)
(* (release_notes/v2.0.0.md:31, v1.1.4.md:10).                             *)
HeightsOfChannel ==
  \A i \in Calls : Answered(i) => call[i].answer.height \in {call[i].channel, None}

(* The list has the peers of the channel, also those that do not run       *)
(* (docs/source/presentation/index.rst:29).                                *)
PeersStayListed ==
  \A i \in Calls : Answered(i) => call[i].answer.listed = Joined[call[i].channel]

(* While peers answer, a channel that is listed can be selected            *)
(* (docs/source/introduction.rst:25).                                      *)
ListedCanBeSelected == live # {} /\ n.fails = 0 /\ n.changes = 0 => up

=============================================================================
