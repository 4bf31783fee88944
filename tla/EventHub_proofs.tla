--------------------------- MODULE EventHub_proofs ---------------------------
(***************************************************************************)
(* Proofs about EventHub, for every set of channels, any number of rounds, *)
(* of registrations in flight and of calls of destroy: types, that the map *)
(* names listeners that are there, and where a second listener comes from. *)
(***************************************************************************)
EXTENDS EventHub, FiniteSetTheorems, TLAPS

(* A registration under way is of a channel; one that waits to be written  *)
(* to the map has a listener of its own, which nobody removes.             *)
Pending ==
  /\ \A g \in Registrations : registration[g].pc # "off" => registration[g].ch \in Channels
  /\ \A g \in Registrations : registration[g].pc = "set" =>
       /\ registration[g].listener \in live[registration[g].ch]
       /\ registration[g].listener # hubs[registration[g].ch]
  /\ \A g, h \in Registrations :
       /\ g # h
       /\ registration[g].pc = "set" /\ registration[h].pc = "set"
       /\ registration[g].ch = registration[h].ch
       => registration[g].listener # registration[h].listener
  /\ \A g \in Registrations, d \in Disconnects :
       registration[g].pc = "set" /\ registration[g].ch = d[2] =>
         disconnect[d] # registration[g].listener

(* Until the process closes: a listener is in the map or about to be; and  *)
(* a registration begun alone is the only such, and finds no other's.      *)
Alone ==
  closed = 0 =>
    /\ \A d \in Disconnects : disconnect[d] = 0
    /\ \A c \in Channels : live[c] # {} =>
         \/ hubs[c] # 0
         \/ \E g \in Registrations : registration[g].pc = "set" /\ registration[g].ch = c
    /\ \A g \in Registrations : registration[g].pc \in {"network", "add"} /\ ~registration[g].race =>
         live[registration[g].ch] \subseteq raced[registration[g].ch]
    /\ \A g, h \in Registrations :
         /\ registration[g].pc # "off" /\ ~registration[g].race
         /\ registration[h].pc # "off" /\ ~registration[h].race
         /\ registration[g].ch = registration[h].ch
         => g = h
    /\ \A c \in Channels : \A k, l \in live[c] \ raced[c] : k = l

HubInv == TypeOK /\ Pending /\ ConnectedIsLive /\ Alone

-----------------------------------------------------------------------------
(* Types.                                                                  *)

(* 0 is no listener, and NoCall no registration.                           *)
LEMMA Nothing == 0 \notin Listeners /\ NoCall \in Registration /\ NoRound \in Round
BY DEF Listeners, NoCall, NoRound, Registration, Round

(* The initial states.                                                     *)
LEMMA InitType == Init => TypeOK
<1> SUFFICES ASSUME Init PROVE TypeOK
  OBVIOUS
<1>1. channels \in Seq(Channels) /\ IsInjective(channels)
  <2>1. PICK m \in 0 .. Cardinality(Channels) : channels \in [1 .. m -> Channels]
    BY DEF Init, BoundedSeq, SeqOf
  <2>2. m \in Nat
    OBVIOUS
  <2>3. channels \in Seq(Channels)
    BY <2>1, <2>2
  <2> QED BY <2>3 DEF Init
<1>2. Len(channels) \in Nat
  BY <1>1
<1> QED BY <1>1, <1>2, Nothing, ClosingsAssumption DEF Init, TypeOK

(* One registration changes.                                               *)
LEMMA RegistrationSet ==
  ASSUME registration \in [Registrations -> Registration], NEW g \in Registrations, NEW r,
         registration' = [registration EXCEPT ![g] = r]
  PROVE  /\ registration'[g] = r
         /\ \A h \in Registrations \ {g} : registration'[h] = registration[h]
         /\ r \in Registration => registration' \in [Registrations -> Registration]
OBVIOUS

(* A registration begins.                                                  *)
LEMMA CreateType ==
  ASSUME TypeOK, NEW g \in Registrations, NEW c \in Channels, CreateChannelEventHub(g, c)
  PROVE  registration' \in [Registrations -> Registration]
<1>1. [NoCall EXCEPT !.pc = "network", !.ch = c, !.race = InFlight(c) # {}] \in Registration
  BY DEF NoCall, Registration
<1> QED BY <1>1 DEF CreateChannelEventHub, TypeOK

(* A round's record.                                                       *)
LEMMA RoundType ==
  ASSUME TypeOK, NEW r \in Rounds
  PROVE  /\ round[r].i \in Nat \ {0} /\ round[r].pc \in {"off", "turn", "sync"}
         /\ \A label \in {"off", "turn", "sync"}, i \in Nat \ {0} :
              [round[r] EXCEPT !.pc = label, !.i = i] \in Round
         /\ \A label \in {"off", "turn", "sync"} : [round[r] EXCEPT !.pc = label] \in Round
         /\ \A i \in Nat \ {0} : [round[r] EXCEPT !.i = i] \in Round
<1>1. round[r] \in Round
  BY DEF TypeOK
<1> QED BY <1>1 DEF Round

(* The channel of a turn is one of the network.                            *)
LEMMA TurnChannel ==
  ASSUME TypeOK, NEW r \in Rounds, InTurn(r)
  PROVE  Channel(r) \in Channels
<1>1. round[r].i \in 1 .. Len(channels)
  <2>1. round[r].i \in Nat \ {0}
    BY RoundType
  <2>2. Len(channels) \in Nat
    BY DEF TypeOK
  <2> QED BY <2>1, <2>2 DEF InTurn
<1> QED BY <1>1 DEF TypeOK, Channel

(* Every step keeps the types.                                             *)
LEMMA NextType == TypeOK /\ [Next]_vars => TypeOK'
<1> SUFFICES ASSUME TypeOK, [Next]_vars PROVE TypeOK'
  OBVIOUS
<1>0. Len(channels) \in Nat /\ closed \in Nat
  BY ClosingsAssumption DEF TypeOK
<1> USE Nothing
<1>1. CASE AddChannel
  <2>1. PICK c \in Channels \ ToSet(channels) : channels' = Append(channels, c)
    BY <1>1 DEF AddChannel
  <2>2. channels' \in Seq(Channels) /\ Len(channels') = Len(channels) + 1
    BY <2>1 DEF TypeOK
  <2>3. IsInjective(channels')
    BY <2>1, <2>2 DEF TypeOK, IsInjective, ToSet
  <2>4. turn \in 1 .. Len(channels') + 1
    BY <1>0, <2>2 DEF TypeOK
  <2> QED BY <1>1, <2>2, <2>3, <2>4 DEF AddChannel, TypeOK, hubVars, closing
<1>2. ASSUME NEW g \in Registrations, GetNetwork(g) PROVE TypeOK'
  <2>1. [registration[g] EXCEPT !.pc = "add"] \in Registration
    BY DEF TypeOK, Registration
  <2>2. registration' \in [Registrations -> Registration]
    BY <1>2, <2>1 DEF GetNetwork, TypeOK
  <2> QED BY <1>2, <2>2 DEF GetNetwork, TypeOK, hubVars, closing
<1>3. ASSUME NEW g \in Registrations, AddBlockListener(g) PROVE TypeOK'
  <2> DEFINE c == registration[g].ch
             free == Listeners \ (live[c] \cup {disconnect[d] : d \in Disconnects})
             l == CHOOSE l \in free : TRUE
  <2>1. l \in Listeners
    BY <1>3 DEF AddBlockListener
  <2> HIDE DEF l
  <2>2. [registration[g] EXCEPT !.pc = "set", !.listener = l] \in Registration
    BY <2>1 DEF TypeOK, Registration
  <2>3. registration' = [registration EXCEPT ![g] =
                           [registration[g] EXCEPT !.pc = "set", !.listener = l]]
    BY <1>3 DEF AddBlockListener, l
  <2>4. registration' \in [Registrations -> Registration]
    BY <2>2, <2>3 DEF TypeOK
  <2>5. /\ live' = [live EXCEPT ![c] = @ \cup {l}]
        /\ raced' = [raced EXCEPT ![c] = IF registration[g].race THEN @ \cup {l} ELSE @]
    BY <1>3 DEF AddBlockListener, l
  <2>6. /\ live' \in [Channels -> SUBSET Listeners] /\ raced' \in [Channels -> SUBSET Listeners]
        /\ \A k \in Channels : raced'[k] \subseteq live'[k]
    BY <2>1, <2>5 DEF TypeOK
  <2> QED BY <1>3, <2>4, <2>6 DEF AddBlockListener, TypeOK, closing
<1>4. ASSUME NEW g \in Registrations, SetListener(g) PROVE TypeOK'
  <2>1. registration' \in [Registrations -> Registration]
    BY <1>4 DEF SetListener, TypeOK
  <2>2. registration[g].listener \in Listeners \cup {0}
    BY DEF TypeOK, Registration
  <2>3. hubs' \in [Channels -> Listeners \cup {0}]
    BY <1>4, <2>2 DEF SetListener, TypeOK
  <2> QED BY <1>4, <2>1, <2>3 DEF SetListener, TypeOK, closing
<1>5. ASSUME NEW g \in Registrations, RegistrationFails(g) PROVE TypeOK'
  <2>1. registration' \in [Registrations -> Registration]
    BY <1>5 DEF RegistrationFails, TypeOK
  <2> QED BY <1>5, <2>1 DEF RegistrationFails, TypeOK, hubVars, closing
<1>6. CASE InitializeTurn
  <2>1. channels[turn] \in Channels /\ turn + 1 \in 1 .. Len(channels) + 1
    BY <1>0, <1>6 DEF InitializeTurn, TypeOK
  <2>2. Initial \in Registrations
    BY DEF Registrations
  <2>3. registration' \in [Registrations -> Registration]
    BY <1>6, <2>1, <2>2, CreateType DEF InitializeTurn, TypeOK
  <2> QED BY <1>6, <2>1, <2>3 DEF InitializeTurn, TypeOK, hubVars, closing
<1>7. CASE Initialized
  BY <1>7 DEF Initialized, TypeOK, hubVars, closing
<1>8. ASSUME NEW r \in Rounds, StartRound(r) PROVE TypeOK'
  <2>1. [NoRound EXCEPT !.pc = "turn"] \in Round
    BY DEF NoRound, Round
  <2>2. round' \in [Rounds -> Round]
    BY <1>8, <2>1 DEF StartRound, TypeOK
  <2> QED BY <1>8, <2>2 DEF StartRound, TypeOK, hubVars, closing
<1>9. ASSUME NEW r \in Rounds, SyncTurn(r) PROVE TypeOK'
  <2>1. round' = [round EXCEPT ![r] = [round[r] EXCEPT !.pc = "sync"]]
    BY <1>9 DEF SyncTurn
  <2>2. round' \in [Rounds -> Round]
    BY <2>1, RoundType DEF TypeOK
  <2> QED BY <1>9, <2>2 DEF SyncTurn, TypeOK, hubVars, closing
<1>10. ASSUME NEW r \in Rounds, Synced(r) PROVE TypeOK'
  <2>1. round' = [round EXCEPT ![r] = [round[r] EXCEPT !.pc = "turn", !.i = round[r].i + 1]]
    BY <1>10 DEF Synced
  <2>2. round[r].i + 1 \in Nat \ {0}
    <3>1. round[r].i \in Nat
      BY RoundType
    <3> QED BY <3>1
  <2>3. round' \in [Rounds -> Round]
    BY <2>1, <2>2, RoundType DEF TypeOK
  <2> QED BY <1>10, <2>3 DEF Synced, TypeOK, hubVars, closing
<1>11. ASSUME NEW r \in Rounds, ConnectTurn(r) PROVE TypeOK'
  <2>1. PICK g \in Calls : CreateChannelEventHub(g, Channel(r))
    BY <1>11 DEF ConnectTurn
  <2>2. registration' \in [Registrations -> Registration]
    BY <1>11, <2>1, CreateType, TurnChannel DEF ConnectTurn, Registrations
  <2>3. round' = [round EXCEPT ![r] = [round[r] EXCEPT !.i = round[r].i + 1]]
    BY <1>11 DEF ConnectTurn
  <2>4. round[r].i + 1 \in Nat \ {0}
    <3>1. round[r].i \in Nat
      BY RoundType
    <3> QED BY <3>1
  <2>5. round' \in [Rounds -> Round]
    BY <2>3, <2>4, RoundType DEF TypeOK
  <2> QED BY <1>11, <2>2, <2>5 DEF ConnectTurn, TypeOK, hubVars, closing
<1>12. ASSUME NEW r \in Rounds, EndRound(r) PROVE TypeOK'
  <2>1. round' \in [Rounds -> Round]
    BY <1>12 DEF EndRound, TypeOK
  <2> QED BY <1>12, <2>1 DEF EndRound, TypeOK, hubVars, closing
<1>13. CASE Destroy
  <2>1. disconnect' \in [Disconnects -> Listeners \cup {0}]
    BY <1>13 DEF Destroy, TypeOK, Disconnects
  <2>2. closed' \in 0 .. Closings
    BY <1>0, <1>13, ClosingsAssumption DEF Destroy, TypeOK
  <2> QED BY <1>13, <2>1, <2>2 DEF Destroy, TypeOK, hubVars
<1>14. ASSUME NEW d \in Disconnects, DisconnectChannelEventHub(d) PROVE TypeOK'
  <2>1. d[2] \in Channels
    BY DEF Disconnects
  <2>2. /\ hubs' \in [Channels -> Listeners \cup {0}] /\ live' \in [Channels -> SUBSET Listeners]
        /\ raced' \in [Channels -> SUBSET Listeners]
        /\ \A c \in Channels : raced'[c] \subseteq live'[c]
    BY <1>14, <2>1 DEF DisconnectChannelEventHub, TypeOK
  <2>3. disconnect' \in [Disconnects -> Listeners \cup {0}]
    BY <1>14 DEF DisconnectChannelEventHub, TypeOK
  <2> QED BY <1>14, <2>2, <2>3 DEF DisconnectChannelEventHub, TypeOK
<1>15. CASE Exit
  BY <1>15 DEF Exit, TypeOK, hubVars, closing
<1>16. CASE UNCHANGED vars
  BY <1>16 DEF vars, TypeOK, hubVars, closing
<1> QED
  BY <1>1, <1>2, <1>3, <1>4, <1>5, <1>6, <1>7, <1>8, <1>9, <1>10, <1>11, <1>12, <1>13, <1>14,
     <1>15, <1>16 DEF Next, Register, RunRound

(* THEOREM 1.  Every variable keeps its type.                              *)
THEOREM HubTypeCorrect == Spec => []TypeOK
BY InitType, NextType, PTL DEF Spec

-----------------------------------------------------------------------------
(* The invariant.                                                          *)

(* The initial states.                                                     *)
LEMMA InitInv == Init => HubInv
BY InitType DEF Init, HubInv, Pending, ConnectedIsLive, Alone, NoCall

(* A step that leaves the listeners and the registrations alone.           *)
LEMMA HubStays ==
  ASSUME HubInv, TypeOK', UNCHANGED <<hubVars, registration, closing>>
  PROVE  HubInv'
<1>1. Pending'
  BY DEF HubInv, Pending, hubVars, closing
<1>2. ConnectedIsLive'
  BY DEF HubInv, ConnectedIsLive, hubVars
<1>3. Alone'
  BY DEF HubInv, Alone, hubVars, closing
<1> QED BY <1>1, <1>2, <1>3 DEF HubInv

(* One registration changes, and nothing else.                             *)
LEMMA RegistrationMoves ==
  ASSUME HubInv, TypeOK', NEW g \in Registrations, UNCHANGED <<hubVars, closing>>,
         \A h \in Registrations \ {g} : registration'[h] = registration[h],
         registration[g].pc # "set", registration'[g].pc # "set",
         \/ registration'[g].pc = "off"
         \/ /\ registration[g].pc \in {"network", "add"}
            /\ registration'[g].pc \in {"network", "add"}
            /\ registration'[g].ch = registration[g].ch
            /\ registration'[g].race = registration[g].race
  PROVE  HubInv'
<1>1. Pending'
  BY DEF HubInv, Pending, hubVars, closing
<1>2. ConnectedIsLive'
  BY DEF HubInv, ConnectedIsLive, hubVars
<1>3. Alone'
  <2> SUFFICES ASSUME closed = 0 PROVE Alone'
    BY DEF Alone, closing
  <2>1. \A c \in Channels : live'[c] # {} =>
          \/ hubs'[c] # 0
          \/ \E h \in Registrations : registration'[h].pc = "set" /\ registration'[h].ch = c
    BY DEF HubInv, Alone, hubVars
  <2>2. \A h \in Registrations : registration'[h].pc \in {"network", "add"}
            /\ ~registration'[h].race =>
          live'[registration'[h].ch] \subseteq raced'[registration'[h].ch]
    BY DEF HubInv, Alone, hubVars
  <2>3. \A h, k \in Registrations :
          /\ registration'[h].pc # "off" /\ ~registration'[h].race
          /\ registration'[k].pc # "off" /\ ~registration'[k].race
          /\ registration'[h].ch = registration'[k].ch
          => h = k
    <3>1. \A h \in Registrations : registration'[h].pc # "off" =>
            /\ registration[h].pc # "off" /\ registration'[h].ch = registration[h].ch
            /\ registration'[h].race = registration[h].race
      OBVIOUS
    <3> QED BY <3>1 DEF HubInv, Alone
  <2> QED BY <2>1, <2>2, <2>3 DEF HubInv, Alone, hubVars, closing
<1> QED BY <1>1, <1>2, <1>3 DEF HubInv

(* A registration begins, of a channel that counts as not connected.       *)
LEMMA CreateKeepsInv ==
  ASSUME HubInv, TypeOK', NEW g \in Registrations, NEW c \in Channels, hubs[c] = 0,
         CreateChannelEventHub(g, c), UNCHANGED <<hubVars, closing>>
  PROVE  HubInv'
<1> DEFINE r == [NoCall EXCEPT !.pc = "network", !.ch = c, !.race = InFlight(c) # {}]
<1>1. registration' = [registration EXCEPT ![g] = r]
  BY DEF CreateChannelEventHub
<1>2. /\ r.pc = "network" /\ r.ch = c /\ (r.race <=> InFlight(c) # {})
      /\ registration[g].pc = "off"
  <2>1. r.pc = "network" /\ r.ch = c /\ r.race = (InFlight(c) # {})
    BY DEF NoCall
  <2>2. registration[g].pc = "off"
    BY DEF CreateChannelEventHub, NoCall
  <2> QED BY <2>1, <2>2
<1> HIDE DEF r
<1>3. registration'[g] = r /\ \A h \in Registrations \ {g} : registration'[h] = registration[h]
  BY <1>1 DEF HubInv, TypeOK
<1>4. Pending'
  BY <1>2, <1>3 DEF HubInv, Pending, hubVars, closing
<1>5. ConnectedIsLive'
  BY DEF HubInv, ConnectedIsLive, hubVars
<1>6. Alone'
  <2> SUFFICES ASSUME closed = 0 PROVE Alone'
    BY DEF Alone, closing
  <2>1. InFlight(c) = {} => live[c] = {}
    BY DEF HubInv, Alone, InFlight
  <2>2. \A k \in Channels : live'[k] # {} =>
          \/ hubs'[k] # 0
          \/ \E h \in Registrations : registration'[h].pc = "set" /\ registration'[h].ch = k
    <3>1. \A h \in Registrations : registration[h].pc = "set" =>
            registration'[h] = registration[h]
      BY <1>2, <1>3
    <3> QED BY <3>1 DEF HubInv, Alone, hubVars
  <2>3. \A h \in Registrations : registration'[h].pc \in {"network", "add"}
            /\ ~registration'[h].race =>
          live'[registration'[h].ch] \subseteq raced'[registration'[h].ch]
    BY <1>2, <1>3, <2>1 DEF HubInv, Alone, hubVars
  <2>4. \A h, k \in Registrations :
          /\ registration'[h].pc # "off" /\ ~registration'[h].race
          /\ registration'[k].pc # "off" /\ ~registration'[k].race
          /\ registration'[h].ch = registration'[k].ch
          => h = k
    <3>1. \A h \in Registrations \ {g} : InFlight(c) = {} => registration'[h].ch # c
      BY <1>3 DEF InFlight
    <3> QED BY <1>2, <1>3, <3>1 DEF HubInv, Alone
  <2> QED BY <2>2, <2>3, <2>4 DEF HubInv, Alone, hubVars, closing
<1> QED BY <1>4, <1>5, <1>6 DEF HubInv

(* A listener is added.                                                    *)
LEMMA AddKeepsInv ==
  ASSUME HubInv, TypeOK', NEW g \in Registrations, AddBlockListener(g)
  PROVE  HubInv'
<1> DEFINE c == registration[g].ch
           free == Listeners \ (live[c] \cup {disconnect[d] : d \in Disconnects})
           l == CHOOSE l \in free : TRUE
           r == [registration[g] EXCEPT !.pc = "set", !.listener = l]
<1>1. l \in free
  BY DEF AddBlockListener
<1>2. /\ registration' = [registration EXCEPT ![g] = r]
      /\ live' = [live EXCEPT ![c] = @ \cup {l}]
      /\ raced' = [raced EXCEPT ![c] = IF registration[g].race THEN @ \cup {l} ELSE @]
      /\ UNCHANGED <<hubs, closing>>
  BY DEF AddBlockListener
<1> HIDE DEF l
<1>3. /\ r.pc = "set" /\ r.ch = c /\ r.listener = l /\ r.race = registration[g].race
      /\ registration[g].pc = "add" /\ c \in Channels
  BY DEF HubInv, Pending, TypeOK, Registration, AddBlockListener, At
<1> HIDE DEF r
<1>4. registration'[g] = r /\ \A h \in Registrations \ {g} : registration'[h] = registration[h]
  BY <1>2 DEF HubInv, TypeOK
<1>5. /\ l \in Listeners /\ l # 0 /\ l \notin live[c]
      /\ \A d \in Disconnects : disconnect[d] # l
  BY <1>1, Nothing
<1> HIDE DEF c
<1>6. \A k \in Channels :
        /\ live'[k] = IF k = c THEN live[k] \cup {l} ELSE live[k]
        /\ raced'[k] = IF k = c /\ registration[g].race THEN raced[k] \cup {l} ELSE raced[k]
  BY <1>2 DEF HubInv, TypeOK
<1>7. l # hubs[c]
  BY <1>3, <1>5 DEF HubInv, ConnectedIsLive
<1>8. Pending'
  <2>1. \A h \in Registrations : registration'[h].pc # "off" => registration'[h].ch \in Channels
    BY <1>3, <1>4 DEF HubInv, Pending
  <2>2. \A h \in Registrations : registration'[h].pc = "set" =>
          /\ registration'[h].listener \in live'[registration'[h].ch]
          /\ registration'[h].listener # hubs'[registration'[h].ch]
    <3> SUFFICES ASSUME NEW h \in Registrations, registration'[h].pc = "set"
                 PROVE  /\ registration'[h].listener \in live'[registration'[h].ch]
                        /\ registration'[h].listener # hubs'[registration'[h].ch]
      OBVIOUS
    <3>1. CASE h = g
      BY <1>2, <1>3, <1>4, <1>6, <1>7, <3>1
    <3>2. CASE h # g
      BY <1>2, <1>4, <1>6, <2>1, <3>2 DEF HubInv, Pending
    <3> QED BY <3>1, <3>2
  <2>3. \A h \in Registrations \ {g} :
          registration[h].pc = "set" /\ registration[h].ch = c => registration[h].listener # l
    BY <1>5 DEF HubInv, Pending
  <2>4. \A h, k \in Registrations :
          /\ h # k
          /\ registration'[h].pc = "set" /\ registration'[k].pc = "set"
          /\ registration'[h].ch = registration'[k].ch
          => registration'[h].listener # registration'[k].listener
    BY <1>3, <1>4, <2>3 DEF HubInv, Pending
  <2>5. \A h \in Registrations, d \in Disconnects :
          registration'[h].pc = "set" /\ registration'[h].ch = d[2] =>
            disconnect'[d] # registration'[h].listener
    BY <1>2, <1>3, <1>4, <1>5 DEF HubInv, Pending, closing
  <2> QED BY <2>1, <2>2, <2>4, <2>5 DEF Pending
<1>9. ConnectedIsLive'
  BY <1>2, <1>6 DEF HubInv, ConnectedIsLive
<1>10. Alone'
  <2> SUFFICES ASSUME closed = 0 PROVE Alone'
    BY <1>2 DEF Alone, closing
  <2>1. \A k \in Channels : live'[k] # {} =>
          \/ hubs'[k] # 0
          \/ \E h \in Registrations : registration'[h].pc = "set" /\ registration'[h].ch = k
    <3> SUFFICES ASSUME NEW k \in Channels, live'[k] # {}, hubs'[k] = 0
                 PROVE  \E h \in Registrations :
                          registration'[h].pc = "set" /\ registration'[h].ch = k
      OBVIOUS
    <3>1. CASE k = c
      BY <1>3, <1>4, <3>1
    <3>2. CASE k # c
      <4>1. \E h \in Registrations : registration[h].pc = "set" /\ registration[h].ch = k
        BY <1>2, <1>6, <3>2 DEF HubInv, Alone
      <4> QED BY <1>3, <1>4, <4>1
    <3> QED BY <3>1, <3>2
  <2>2. \A h, k \in Registrations :
          /\ registration'[h].pc # "off" /\ ~registration'[h].race
          /\ registration'[k].pc # "off" /\ ~registration'[k].race
          /\ registration'[h].ch = registration'[k].ch
          => h = k
    <3>1. \A h \in Registrations : registration'[h].pc # "off" =>
            /\ registration[h].pc # "off" /\ registration'[h].ch = registration[h].ch
            /\ registration'[h].race = registration[h].race
      BY <1>3, <1>4 DEF c
    <3> QED BY <3>1 DEF HubInv, Alone
  <2>3. \A h \in Registrations : registration'[h].pc \in {"network", "add"}
            /\ ~registration'[h].race =>
          live'[registration'[h].ch] \subseteq raced'[registration'[h].ch]
    <3> SUFFICES ASSUME NEW h \in Registrations, registration'[h].pc \in {"network", "add"},
                        ~registration'[h].race
                 PROVE  live'[registration'[h].ch] \subseteq raced'[registration'[h].ch]
      OBVIOUS
    <3>1. h # g /\ registration'[h] = registration[h]
      BY <1>3, <1>4
    <3>2. live[registration[h].ch] \subseteq raced[registration[h].ch]
      BY <3>1 DEF HubInv, Alone
    <3>3. registration[h].ch \in Channels
      BY <3>1 DEF HubInv, Pending
    <3>4. registration[h].ch = c => registration[g].race
      BY <1>3, <3>1 DEF HubInv, Alone, c
    <3> QED BY <1>6, <3>1, <3>2, <3>3, <3>4
  <2>4. \A k \in Channels : \A i, j \in live'[k] \ raced'[k] : i = j
    <3> SUFFICES ASSUME NEW k \in Channels, NEW i \in live'[k] \ raced'[k],
                        NEW j \in live'[k] \ raced'[k]
                 PROVE  i = j
      OBVIOUS
    <3>1. CASE k = c /\ ~registration[g].race
      <4>1. live[c] \subseteq raced[c]
        BY <1>3, <3>1 DEF HubInv, Alone, c
      <4>2. i \in live'[c] /\ i \notin raced'[c] /\ j \in live'[c] /\ j \notin raced'[c]
        BY <3>1
      <4>3. live'[c] = live[c] \cup {l} /\ raced'[c] = raced[c]
        BY <1>3, <1>6, <3>1
      <4>4. i = l
        BY <4>1, <4>2, <4>3
      <4>5. j = l
        BY <4>1, <4>2, <4>3
      <4> QED BY <4>4, <4>5
    <3>2. CASE ~(k = c /\ ~registration[g].race)
      <4>1. i \in live[k] \ raced[k] /\ j \in live[k] \ raced[k]
        BY <1>6, <3>2
      <4> QED BY <4>1 DEF HubInv, Alone
    <3> QED BY <3>1, <3>2
  <2> QED BY <1>2, <2>1, <2>2, <2>3, <2>4 DEF HubInv, Alone, closing
<1> QED BY <1>8, <1>9, <1>10 DEF HubInv

(* A listener is written to the map.                                       *)
LEMMA SetKeepsInv ==
  ASSUME HubInv, TypeOK', NEW g \in Registrations, SetListener(g)
  PROVE  HubInv'
<1> DEFINE c == registration[g].ch
           l == registration[g].listener
<1>1. /\ registration[g].pc = "set" /\ c \in Channels /\ l \in live[c] /\ l # 0
      /\ hubs' = [hubs EXCEPT ![c] = l] /\ UNCHANGED <<live, raced, closing>>
  BY Nothing DEF HubInv, Pending, TypeOK, SetListener, At
<1>2. /\ registration'[g] = NoCall
      /\ \A h \in Registrations \ {g} : registration'[h] = registration[h]
  BY DEF SetListener, HubInv, TypeOK
<1>3. registration'[g].pc = "off"
  BY <1>2 DEF NoCall
<1>4. \A k \in Channels : hubs'[k] = IF k = c THEN l ELSE hubs[k]
  BY <1>1 DEF HubInv, TypeOK
<1>5. Pending'
  <2>1. ASSUME NEW h \in Registrations, registration'[h].pc = "set"
        PROVE  /\ registration'[h] = registration[h] /\ registration[h].ch \in Channels
               /\ registration[h].listener # hubs'[registration[h].ch]
    <3>1. h # g /\ registration'[h] = registration[h]
      BY <1>2, <1>3, <2>1
    <3>2. registration[h].ch = c => registration[h].listener # l
      BY <1>1, <2>1, <3>1 DEF HubInv, Pending
    <3> QED BY <1>4, <2>1, <3>1, <3>2 DEF HubInv, Pending
  <2>2. \A h \in Registrations : registration'[h].pc # "off" => registration'[h].ch \in Channels
    BY <1>2, <1>3 DEF HubInv, Pending
  <2>3. \A h \in Registrations : registration'[h].pc = "set" =>
          /\ registration'[h].listener \in live'[registration'[h].ch]
          /\ registration'[h].listener # hubs'[registration'[h].ch]
    BY <1>1, <2>1 DEF HubInv, Pending
  <2>4. \A h, k \in Registrations :
          /\ h # k
          /\ registration'[h].pc = "set" /\ registration'[k].pc = "set"
          /\ registration'[h].ch = registration'[k].ch
          => registration'[h].listener # registration'[k].listener
    BY <2>1 DEF HubInv, Pending
  <2>5. \A h \in Registrations, d \in Disconnects :
          registration'[h].pc = "set" /\ registration'[h].ch = d[2] =>
            disconnect'[d] # registration'[h].listener
    BY <1>1, <2>1 DEF HubInv, Pending, closing
  <2> QED BY <2>2, <2>3, <2>4, <2>5 DEF Pending
<1>6. ConnectedIsLive'
  BY <1>1, <1>4 DEF HubInv, ConnectedIsLive
<1>7. Alone'
  <2> SUFFICES ASSUME closed = 0 PROVE Alone'
    BY <1>1 DEF Alone, closing
  <2>1. \A k \in Channels : live'[k] # {} =>
          \/ hubs'[k] # 0
          \/ \E h \in Registrations : registration'[h].pc = "set" /\ registration'[h].ch = k
    <3> SUFFICES ASSUME NEW k \in Channels, live'[k] # {}, hubs'[k] = 0
                 PROVE  \E h \in Registrations :
                          registration'[h].pc = "set" /\ registration'[h].ch = k
      OBVIOUS
    <3>1. k # c /\ hubs[k] = 0 /\ live[k] # {}
      BY <1>1, <1>4
    <3>2. PICK h \in Registrations : registration[h].pc = "set" /\ registration[h].ch = k
      BY <3>1 DEF HubInv, Alone
    <3>3. h # g
      BY <3>1, <3>2
    <3> QED BY <1>2, <3>2, <3>3
  <2>2. \A h \in Registrations : registration'[h].pc \in {"network", "add"}
            /\ ~registration'[h].race =>
          live'[registration'[h].ch] \subseteq raced'[registration'[h].ch]
    BY <1>1, <1>2, <1>3 DEF HubInv, Alone
  <2>3. \A h, k \in Registrations :
          /\ registration'[h].pc # "off" /\ ~registration'[h].race
          /\ registration'[k].pc # "off" /\ ~registration'[k].race
          /\ registration'[h].ch = registration'[k].ch
          => h = k
    BY <1>2, <1>3 DEF HubInv, Alone
  <2> QED BY <1>1, <2>1, <2>2, <2>3 DEF HubInv, Alone, closing
<1> QED BY <1>5, <1>6, <1>7 DEF HubInv

(* destroy reads the listeners.                                            *)
LEMMA DestroyKeepsInv == ASSUME HubInv, TypeOK', Destroy PROVE HubInv'
<1>1. UNCHANGED <<hubVars, registration>> /\ closed' # 0
  BY ClosingsAssumption DEF Destroy, HubInv, TypeOK
<1>2. \A d \in Disconnects :
        disconnect'[d] = IF d[1] = closed' THEN hubs[d[2]] ELSE disconnect[d]
  BY DEF Destroy
<1>3. Pending'
  BY <1>1, <1>2 DEF HubInv, Pending, hubVars
<1>4. ConnectedIsLive'
  BY <1>1 DEF HubInv, ConnectedIsLive, hubVars
<1>5. Alone'
  BY <1>1 DEF Alone
<1> QED BY <1>3, <1>4, <1>5 DEF HubInv

(* A listener is removed.                                                  *)
LEMMA DisconnectKeepsInv ==
  ASSUME HubInv, TypeOK', NEW d \in Disconnects, DisconnectChannelEventHub(d)
  PROVE  HubInv'
<1>1. d[2] \in Channels /\ closed' = closed /\ registration' = registration
  BY DEF Disconnects, DisconnectChannelEventHub
<1>2. \A c \in Channels :
        /\ live'[c] = IF c = d[2] THEN live[c] \ {disconnect[d]} ELSE live[c]
        /\ hubs'[c] = IF c = d[2] THEN 0 ELSE hubs[c]
  BY DEF DisconnectChannelEventHub, HubInv, TypeOK
<1>3. disconnect[d] # 0 /\ \A e \in Disconnects :
        disconnect'[e] = IF e = d THEN 0 ELSE disconnect[e]
  BY DEF DisconnectChannelEventHub, HubInv, TypeOK
<1>4. closed # 0
  BY <1>3 DEF HubInv, Alone
<1>5. \A g \in Registrations : registration[g].pc = "set" =>
        registration[g].ch \in Channels /\ registration[g].listener # 0
  BY Nothing DEF HubInv, Pending, TypeOK
<1>6. Pending'
  <2>1. \A g \in Registrations : registration[g].pc = "set" =>
          /\ registration[g].listener \in live'[registration[g].ch]
          /\ registration[g].listener # hubs'[registration[g].ch]
    BY <1>2, <1>5 DEF HubInv, Pending
  <2>2. \A g \in Registrations, e \in Disconnects :
          registration[g].pc = "set" /\ registration[g].ch = e[2] =>
            disconnect'[e] # registration[g].listener
    BY <1>3, <1>5 DEF HubInv, Pending
  <2> QED BY <1>1, <2>1, <2>2 DEF HubInv, Pending
<1>7. ConnectedIsLive'
  BY <1>2 DEF HubInv, ConnectedIsLive
<1>8. Alone'
  BY <1>1, <1>4 DEF Alone
<1> QED BY <1>6, <1>7, <1>8 DEF HubInv

(* Every step keeps the invariant.                                         *)
LEMMA NextInv == HubInv /\ [Next]_vars => HubInv'
<1> SUFFICES ASSUME HubInv, [Next]_vars PROVE HubInv'
  OBVIOUS
<1>0. TypeOK'
  BY NextType DEF HubInv
<1> USE <1>0
<1>1. CASE AddChannel
  BY <1>1, HubStays DEF AddChannel
<1>2. ASSUME NEW g \in Registrations, GetNetwork(g) PROVE HubInv'
  <2> DEFINE r == [registration[g] EXCEPT !.pc = "add"]
  <2>1. registration' = [registration EXCEPT ![g] = r] /\ registration[g].pc = "network"
    BY <1>2 DEF GetNetwork, At
  <2>2. r.pc = "add" /\ r.ch = registration[g].ch /\ r.race = registration[g].race
    BY DEF HubInv, TypeOK, Registration
  <2>3. registration'[g] = r /\ \A h \in Registrations \ {g} : registration'[h] = registration[h]
    BY <2>1 DEF HubInv, TypeOK
  <2> QED BY <1>2, <2>1, <2>2, <2>3, RegistrationMoves DEF GetNetwork
<1>3. ASSUME NEW g \in Registrations, AddBlockListener(g) PROVE HubInv'
  BY <1>3, AddKeepsInv
<1>4. ASSUME NEW g \in Registrations, SetListener(g) PROVE HubInv'
  BY <1>4, SetKeepsInv
<1>5. ASSUME NEW g \in Registrations, RegistrationFails(g) PROVE HubInv'
  <2>1. /\ registration'[g] = NoCall /\ registration[g].pc \in {"network", "add"}
        /\ \A h \in Registrations \ {g} : registration'[h] = registration[h]
    BY <1>5 DEF RegistrationFails, At, HubInv, TypeOK
  <2>2. registration'[g].pc = "off"
    BY <2>1 DEF NoCall
  <2> QED BY <1>5, <2>1, <2>2, RegistrationMoves DEF RegistrationFails
<1>6. CASE InitializeTurn
  <2>1. channels[turn] \in Channels /\ Initial \in Registrations
    BY <1>6 DEF InitializeTurn, HubInv, TypeOK, Registrations
  <2>2. CASE hubs[channels[turn]] = 0
    BY <1>6, <2>1, <2>2, CreateKeepsInv DEF InitializeTurn, hubVars
  <2>3. CASE hubs[channels[turn]] # 0
    BY <1>6, <2>3, HubStays DEF InitializeTurn
  <2> QED BY <2>2, <2>3
<1>7. CASE Initialized
  BY <1>7, HubStays DEF Initialized
<1>8. ASSUME NEW r \in Rounds, StartRound(r) \/ SyncTurn(r) \/ Synced(r) \/ EndRound(r)
      PROVE  HubInv'
  BY <1>8, HubStays DEF StartRound, SyncTurn, Synced, EndRound
<1>9. ASSUME NEW r \in Rounds, ConnectTurn(r) PROVE HubInv'
  <2>1. PICK g \in Calls : CreateChannelEventHub(g, Channel(r))
    BY <1>9 DEF ConnectTurn
  <2>2. Channel(r) \in Channels /\ hubs[Channel(r)] = 0 /\ g \in Registrations
    BY <1>9, TurnChannel DEF ConnectTurn, HubInv, IsChannelEventHubConnected, Registrations
  <2> QED BY <1>9, <2>1, <2>2, CreateKeepsInv DEF ConnectTurn
<1>10. CASE Destroy
  BY <1>10, DestroyKeepsInv
<1>11. ASSUME NEW d \in Disconnects, DisconnectChannelEventHub(d) PROVE HubInv'
  BY <1>11, DisconnectKeepsInv
<1>12. CASE Exit
  BY <1>12, HubStays DEF Exit
<1>13. CASE UNCHANGED vars
  BY <1>13, HubStays DEF vars
<1> QED
  BY <1>1, <1>2, <1>3, <1>4, <1>5, <1>6, <1>7, <1>8, <1>9, <1>10, <1>11, <1>12, <1>13
     DEF Next, Register, RunRound

(* THEOREM 2.  The invariant the following rest on.                        *)
THEOREM HubInvariant == Spec => []HubInv
BY InitInv, NextInv, PTL DEF Spec

(* THEOREM 3.  isChannelEventHubConnected: a channel that counts as        *)
(* connected has the listener the map names, through failures, further     *)
(* registrations and calls of destroy.                                     *)
THEOREM ConnectedIsLiveAlways == Spec => []ConnectedIsLive
<1>1. HubInv => ConnectedIsLive
  BY DEF HubInv
<1> QED BY <1>1, HubInvariant, PTL

(* A set whose members are all equal has one at most.                      *)
LEMMA OneAtMost ==
  ASSUME NEW S, \A k, l \in S : k = l
  PROVE  Cardinality(S) <= 1
<1>1. CASE S = {}
  BY <1>1, FS_EmptySet
<1>2. CASE S # {}
  <2>1. PICK k : k \in S
    BY <1>2
  <2>2. S = {k}
    BY <2>1
  <2> QED BY <2>2, FS_Singleton
<1> QED BY <1>1, <1>2

(* THEOREM 4.  createChannelEventHub: however many rounds overlap and      *)
(* registrations fail, a channel has a second listener only through a      *)
(* registration that was begun during another.                             *)
THEOREM ListenersOfRacesAlways == Spec => []ListenersOfRaces
<1>1. HubInv => ListenersOfRaces
  <2> SUFFICES ASSUME HubInv, closed = 0, NEW c \in Channels
               PROVE  Cardinality(live[c] \ raced[c]) <= 1
    BY DEF ListenersOfRaces
  <2>1. \A k, l \in live[c] \ raced[c] : k = l
    BY DEF HubInv, Alone
  <2> QED BY <2>1, OneAtMost
<1> QED BY <1>1, HubInvariant, PTL

=============================================================================
