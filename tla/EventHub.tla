------------------------------ MODULE EventHub ------------------------------
(***************************************************************************)
(* The block listeners of a sync process: FabricEvent (initialize,         *)
(* createChannelEventHub, disconnectEventHubs), and the rounds of          *)
(* SyncPlatform that synchronise a channel whose listener is there and     *)
(* register one for a channel that has none.                               *)
(*                                                                         *)
(* An action is the code from one await to the next.  What a listener and  *)
(* syncBlocks do with blocks is in BlockSync; syncBlocks catches whatever  *)
(* goes wrong, so that here it only takes its time.                        *)
(***************************************************************************)
EXTENDS Integers, Sequences, FiniteSets, SequencesExt

CONSTANTS
  Channels,   \* channels of the network
  Rounds,     \* runs of isChannelEventHubConnected in flight at once
  Calls,      \* registrations in flight at once that nobody awaits
  Closings    \* bound: destroy is called this often

ASSUME ClosingsAssumption == Closings \in Nat

Initial == "initialize"             \* the registration that initialize awaits
Registrations == Calls \cup {Initial}
Disconnects   == (1 .. Closings) \X Channels

(* Names for the listeners of a channel (a bound); 0 is none.              *)
Listeners == 1 .. 2 * Cardinality(Registrations)

VARIABLES
  phase,        \* "initializing", "running" or "exited"
  channels,     \* channels of the client, in the order they were found
  turn,         \* next channel of FabricEvent.initialize
  hubs,         \* channelEventHubs
  live,         \* [channel]: listeners that get its blocks
  registration, \* createChannelEventHub
  round,        \* isChannelEventHubConnected
  disconnect,   \* [disconnect]: the listener read, 0 when none is in flight
  closed,       \* calls of destroy
  raced         \* history, [channel]: live listeners registered during another
                \* registration of the channel

hubVars == <<hubs, live, raced>>
closing == <<disconnect, closed>>
vars    == <<phase, channels, turn, hubVars, registration, round, closing>>

Registration == [pc : {"off", "network", "add", "set"}, ch : Channels \cup {"none"},
                 listener : Listeners \cup {0}, race : BOOLEAN]
Round        == [pc : {"off", "turn", "sync"}, i : Nat \ {0}]
NoCall  == [pc |-> "off", ch |-> "none", listener |-> 0, race |-> FALSE]
NoRound == [pc |-> "off", i |-> 1]

TypeOK ==
  /\ phase \in {"initializing", "running", "exited"}
  /\ channels \in Seq(Channels) /\ IsInjective(channels)
  /\ turn \in 1 .. Len(channels) + 1
  /\ hubs \in [Channels -> Listeners \cup {0}] /\ live \in [Channels -> SUBSET Listeners]
  /\ registration \in [Registrations -> Registration]
  /\ round \in [Rounds -> Round]
  /\ disconnect \in [Disconnects -> Listeners \cup {0}]
  /\ closed \in 0 .. Closings
  /\ raced \in [Channels -> SUBSET Listeners] /\ \A c \in Channels : raced[c] \subseteq live[c]

(* The first synchronisation has found some channels.                      *)
Init ==
  /\ phase = "initializing"
  /\ channels \in {s \in BoundedSeq(Channels, Cardinality(Channels)) : IsInjective(s)}
  /\ turn = 1
  /\ hubs = [c \in Channels |-> 0] /\ live = [c \in Channels |-> {}]
  /\ registration = [g \in Registrations |-> NoCall]
  /\ round = [r \in Rounds |-> NoRound]
  /\ disconnect = [d \in Disconnects |-> 0]
  /\ closed = 0
  /\ raced = [c \in Channels |-> {}]

Alive == phase # "exited"

(* initializeNewChannel, when the synchronisation finds a channel.         *)
AddChannel ==
  /\ Alive
  /\ \E c \in Channels \ ToSet(channels) : channels' = Append(channels, c)
  /\ UNCHANGED <<phase, turn, hubVars, registration, round, closing>>

-----------------------------------------------------------------------------
(* createChannelEventHub.                                                  *)

InFlight(c) == {g \in Registrations : registration[g].ch = c}

CreateChannelEventHub(g, c) ==
  /\ registration[g] = NoCall
  /\ registration' = [registration EXCEPT ![g] =
       [NoCall EXCEPT !.pc = "network", !.ch = c, !.race = InFlight(c) # {}]]

At(g, label) == Alive /\ registration[g].pc = label

(* gateway.getNetwork answers.                                             *)
GetNetwork(g) ==
  /\ At(g, "network")
  /\ registration' = [registration EXCEPT ![g].pc = "add"]
  /\ UNCHANGED <<phase, channels, turn, hubVars, round, closing>>

(* addBlockListener: the listener gets blocks from now on.                 *)
AddBlockListener(g) ==
  /\ At(g, "add")
  /\ LET c == registration[g].ch
         free == Listeners \ (live[c] \cup {disconnect[d] : d \in Disconnects})
         l == CHOOSE l \in free : TRUE
     IN  /\ free # {}
         /\ live' = [live EXCEPT ![c] = @ \cup {l}]
         /\ raced' = [raced EXCEPT ![c] = IF registration[g].race THEN @ \cup {l} ELSE @]
         /\ registration' = [registration EXCEPT ![g].pc = "set", ![g].listener = l]
  /\ UNCHANGED <<phase, channels, turn, hubs, round, closing>>

SetListener(g) ==
  /\ At(g, "set")
  /\ hubs' = [hubs EXCEPT ![registration[g].ch] = registration[g].listener]
  /\ registration' = [registration EXCEPT ![g] = NoCall]
  /\ UNCHANGED <<phase, channels, turn, live, round, closing, raced>>

(* MUTANT of RegistrationFails: the channel counts as connected.           *)
RegistrationSeemsDone(g) ==
  /\ At(g, "network") \/ At(g, "add")
  /\ hubs' = [hubs EXCEPT ![registration[g].ch] = 1]
  /\ registration' = [registration EXCEPT ![g] = NoCall]
  /\ UNCHANGED <<phase, channels, turn, live, round, closing, raced>>

(* Either await may throw: it is caught, and the channel has no listener.  *)
RegistrationFails(g) ==
  /\ At(g, "network") \/ At(g, "add")
  /\ registration' = [registration EXCEPT ![g] = NoCall]
  /\ UNCHANGED <<phase, channels, turn, hubVars, round, closing>>

-----------------------------------------------------------------------------
(* FabricEvent.initialize, and the timer after it.                         *)

InitializeTurn ==
  /\ phase = "initializing" /\ turn <= Len(channels) /\ registration[Initial] = NoCall
  /\ turn' = turn + 1
  /\ IF hubs[channels[turn]] # 0
     THEN UNCHANGED registration
     ELSE CreateChannelEventHub(Initial, channels[turn])
  /\ UNCHANGED <<phase, channels, hubVars, round, closing>>

Initialized ==
  /\ phase = "initializing" /\ turn > Len(channels) /\ registration[Initial] = NoCall
  /\ phase' = "running"
  /\ UNCHANGED <<channels, turn, hubVars, registration, round, closing>>

(* validateMissingBlocks: the timer is armed again without awaiting the    *)
(* round.                                                                  *)
StartRound(r) ==
  /\ phase = "running" /\ round[r].pc = "off"
  /\ round' = [round EXCEPT ![r] = [NoRound EXCEPT !.pc = "turn"]]
  /\ UNCHANGED <<phase, channels, turn, hubVars, registration, closing>>

InTurn(r)  == Alive /\ round[r].pc = "turn" /\ round[r].i <= Len(channels)
Channel(r) == channels[round[r].i]

IsChannelEventHubConnected(c) == hubs[c] # 0

SyncTurn(r) ==
  /\ InTurn(r) /\ IsChannelEventHubConnected(Channel(r))
  /\ round' = [round EXCEPT ![r].pc = "sync"]
  /\ UNCHANGED <<phase, channels, turn, hubVars, registration, closing>>

(* syncBlocks returns.                                                     *)
Synced(r) ==
  /\ Alive /\ round[r].pc = "sync"
  /\ round' = [round EXCEPT ![r].pc = "turn", ![r].i = @ + 1]
  /\ UNCHANGED <<phase, channels, turn, hubVars, registration, closing>>

(* MUTANT of ConnectTurn: every channel gets a listener in every round.    *)
ConnectTurnAlways(r) ==
  /\ InTurn(r)
  /\ \E g \in Calls : CreateChannelEventHub(g, Channel(r))
  /\ round' = [round EXCEPT ![r].i = @ + 1]
  /\ UNCHANGED <<phase, channels, turn, hubVars, closing>>

(* connectChannelEventHub is not awaited.                                  *)
ConnectTurn(r) ==
  /\ InTurn(r) /\ ~IsChannelEventHubConnected(Channel(r))
  /\ \E g \in Calls : CreateChannelEventHub(g, Channel(r))
  /\ round' = [round EXCEPT ![r].i = @ + 1]
  /\ UNCHANGED <<phase, channels, turn, hubVars, closing>>

EndRound(r) ==
  /\ Alive /\ round[r].pc = "turn" /\ round[r].i > Len(channels)
  /\ round' = [round EXCEPT ![r] = NoRound]
  /\ UNCHANGED <<phase, channels, turn, hubVars, registration, closing>>

-----------------------------------------------------------------------------
(* Closing.                                                                *)

(* destroy reads the listeners, and the removals wait for getNetwork.  The *)
(* process goes on until its timer exits it, and destroy may come again.   *)
Destroy ==
  /\ Alive /\ closed < Closings
  /\ closed' = closed + 1
  /\ disconnect' = [d \in Disconnects |->
                    IF d[1] = closed' THEN hubs[d[2]] ELSE disconnect[d]]
  /\ UNCHANGED <<phase, channels, turn, hubVars, registration, round>>

(* MUTANT of DisconnectChannelEventHub: the listener is not removed.       *)
DisconnectForgets(d) ==
  /\ Alive /\ disconnect[d] # 0
  /\ disconnect' = [disconnect EXCEPT ![d] = 0]
  /\ live' = [live EXCEPT ![d[2]] = @ \ {disconnect[d]}]
  /\ raced' = [raced EXCEPT ![d[2]] = @ \ {disconnect[d]}]
  /\ UNCHANGED <<phase, channels, turn, hubs, registration, round, closed>>

DisconnectChannelEventHub(d) ==
  /\ Alive /\ disconnect[d] # 0
  /\ disconnect' = [disconnect EXCEPT ![d] = 0]
  /\ live' = [live EXCEPT ![d[2]] = @ \ {disconnect[d]}]
  /\ raced' = [raced EXCEPT ![d[2]] = @ \ {disconnect[d]}]
  /\ hubs' = [hubs EXCEPT ![d[2]] = 0]
  /\ UNCHANGED <<phase, channels, turn, registration, round, closed>>

Exit ==
  /\ Alive /\ closed > 0
  /\ phase' = "exited"
  /\ UNCHANGED <<channels, turn, hubVars, registration, round, closing>>

Register(g) ==
  GetNetwork(g) \/ AddBlockListener(g) \/ SetListener(g) \/ RegistrationFails(g)

RunRound(r) == SyncTurn(r) \/ Synced(r) \/ ConnectTurn(r) \/ EndRound(r)

Next ==
  \/ AddChannel
  \/ \E g \in Registrations : Register(g)
  \/ InitializeTurn \/ Initialized
  \/ \E r \in Rounds : StartRound(r) \/ RunRound(r)
  \/ Destroy \/ \E d \in Disconnects : DisconnectChannelEventHub(d)
  \/ Exit

(* Awaits are answered and timers fire, the one of shutDown that exits     *)
(* included; of the attempts to register a listener for a channel not all  *)
(* fail.  Nothing is assumed of the rest.                                  *)
Fairness ==
  /\ WF_vars(InitializeTurn) /\ WF_vars(Initialized) /\ WF_vars(Exit)
  /\ \A r \in Rounds : WF_vars(StartRound(r)) /\ WF_vars(RunRound(r))
  /\ \A g \in Registrations : WF_vars(Register(g))
  /\ \A c \in Channels :
       /\ SF_vars(\E g \in InFlight(c) : GetNetwork(g))
       /\ SF_vars(\E g \in InFlight(c) : AddBlockListener(g))

Spec     == Init /\ [][Next]_vars
FairSpec == Spec /\ Fairness

-----------------------------------------------------------------------------
(* Properties.                                                             *)

(* A channel that counts as connected has the listener the map names, also *)
(* when its removal and another registration overlap.                      *)
ConnectedIsLive ==
  \A c \in Channels : hubs[c] # 0 => hubs[c] \in live[c]

(* A channel has more than one listener only through registrations that    *)
(* were begun during another one of the channel; until the process closes. *)
ListenersOfRaces ==
  closed = 0 => \A c \in Channels : Cardinality(live[c] \ raced[c]) <= 1

(* Every channel of the client gets a listener, those found later and      *)
(* those whose registration failed included.                               *)
EveryChannelListened ==
  \A c \in Channels : c \in ToSet(channels) ~> live[c] # {} \/ phase = "exited"

=============================================================================
