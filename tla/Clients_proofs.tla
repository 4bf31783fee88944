--------------------------- MODULE Clients_proofs ---------------------------
(***************************************************************************)
(* Proofs about the clients: how the processes of the explorer get their   *)
(* identity (Enrollment), and the pages of the web client: signing in      *)
(* (Session, the instance S), the single page (Dashboard, D) and the panel *)
(* of users (UserPanel, U), for every set of processes, networks, channels *)
(* and users and any bounds on what users and servers do.  Enrollment has  *)
(* nothing to do with the others, and Pages is one page at a time.         *)
(***************************************************************************)
EXTENDS Enrollment, Pages, Sequences, FiniteSets, Functions, FiniteSetTheorems, TLAPS

-----------------------------------------------------------------------------
(* Enrollment.                                                             *)

(* A certificate about to be stored is of the network there is, which is   *)
(* never built anew while a process runs.                                  *)
StoresFresh ==
  /\ network = n.rebuilds + n.renewals + 1
  /\ \A p \in Processes : at[p] = "store" => held[p] = network

EnrollmentInv == TypeOK /\ StoresFresh /\ NoLostRegistration

-----------------------------------------------------------------------------

(* A bound's counter counts, and no other.                                 *)
LEMMA CounterType ==
  ASSUME n \in Counters
  PROVE  /\ [n EXCEPT !.rebuilds = @ + 1] \in Counters
         /\ [n EXCEPT !.renewals = @ + 1] \in Counters
         /\ [n EXCEPT !.stops = @ + 1] \in Counters
         /\ [n EXCEPT !.fails = @ + 1] \in Counters
         /\ [n EXCEPT !.crashes = @ + 1] \in Counters
         /\ [n EXCEPT !.deletes = @ + 1] \in Counters
         /\ [n EXCEPT !.silences = @ + 1] \in Counters
BY DEF Counters

(* Initially nothing runs and nothing is registered.                       *)
LEMMA EnrollmentInit == Init => EnrollmentInv
<1> SUFFICES ASSUME Init PROVE EnrollmentInv
  OBVIOUS
<1>1. n \in Counters
  BY DEF Init, Counters
<1>2. \A p \in Processes : at[p] = "off" /\ held[p] = None
  BY DEF Init
<1>3. TypeOK
  <2>1. network \in Generation /\ None \in Generation \cup {None}
    BY DEF Init, Generation, None
  <2>2. wallet \in [{CaAdmin, Admin} -> Generation \cup {None}]
    BY <2>1 DEF Init
  <2>3. at \in [Processes -> Stages] /\ held \in [Processes -> Generation \cup {None}]
    BY <2>1 DEF Init, Stages
  <2> QED BY <1>1, <1>2, <2>1, <2>2, <2>3 DEF Init, TypeOK, WithCertificate
<1>4. StoresFresh /\ NoLostRegistration
  BY <1>2 DEF Init, StoresFresh, NoLostRegistration
<1> QED BY <1>3, <1>4 DEF EnrollmentInv

(* A process that gets to a stage, with a certificate if it needs one,     *)
(* keeps the types.                                                        *)
LEMMA ProcessType ==
  ASSUME TypeOK, NEW p \in Processes, NEW stage \in Stages, Goes(p, stage),
         NEW g \in Generation \cup {None}, Holds(p, g) \/ (UNCHANGED held /\ g = held[p]),
         stage \in WithCertificate => g # None
  PROVE  /\ at' \in [Processes -> Stages] /\ held' \in [Processes -> Generation \cup {None}]
         /\ \A q \in Processes : at'[q] \in WithCertificate => held'[q] # None
BY DEF TypeOK, Goes, Holds

(* Every step keeps the types.                                             *)
LEMMA EnrollmentType ==
  ASSUME EnrollmentInv, Next
  PROVE  TypeOK'
<1>0. /\ TypeOK /\ network \in Generation \cup {None} /\ network # None
      /\ None \in Generation \cup {None}
      /\ \A p \in Processes : held[p] \in Generation \cup {None}
      /\ \A i \in {CaAdmin, Admin} : wallet[i] \in Generation \cup {None}
  BY DEF EnrollmentInv, TypeOK, Generation
<1>1. ASSUME NEW p \in Processes, Step(p) PROVE TypeOK'
  <2>1. CASE Start(p)
    BY <1>0, <2>1, ProcessType DEF Start, TypeOK, Stages, WithCertificate
  <2>2. CASE GetIdentity(p)
    <3>1. CASE ~(wallet[Admin] # None) /\ ~CaEnabled
      BY <1>0, <2>2, <3>1, ProcessType DEF GetIdentity, TypeOK, Stages
    <3>2. CASE wallet[Admin] # None \/ CaEnabled
      <4>1. PICK stage \in {"connect", "enroll CA admin"} : Goes(p, stage)
        BY <2>2, <3>2 DEF GetIdentity
      <4>2. UNCHANGED <<network, registered, wallet, held, n>>
        BY <2>2, <3>2 DEF GetIdentity
      <4>3. stage \in Stages /\ stage \notin WithCertificate
        BY <4>1 DEF Stages, WithCertificate
      <4> QED BY <1>0, <4>1, <4>2, <4>3, ProcessType DEF TypeOK
    <3> QED BY <3>1, <3>2
  <2>3. ASSUME Goes(p, "connect"), Holds(p, None), registered' \in BOOLEAN,
               UNCHANGED <<network, wallet>>,
               UNCHANGED n \/ n' = [n EXCEPT !.fails = @ + 1]
        PROVE  TypeOK'
    <3>1. n' \in Counters
      BY <1>0, <2>3, CounterType DEF TypeOK
    <3> QED BY <1>0, <2>3, <3>1, ProcessType DEF TypeOK, Stages, WithCertificate
  <2>4. CASE EnrollCaAdmin(p)
    <3>1. CASE Goes(p, "store CA admin") /\ Holds(p, network)
               /\ UNCHANGED <<registered, wallet, n>>
      BY <1>0, <2>4, <3>1, ProcessType DEF EnrollCaAdmin, TypeOK, Stages
    <3>2. CASE CallFails(p)
      BY <1>0, <2>3, <2>4, <3>2 DEF EnrollCaAdmin, CallFails, TypeOK
    <3> QED BY <2>4, <3>1, <3>2 DEF EnrollCaAdmin
  <2>5. CASE StoreCaAdmin(p)
    BY <1>0, <2>5, ProcessType DEF StoreCaAdmin, TypeOK, Stages, WithCertificate
  <2>6. CASE GetUserContext(p)
    BY <1>0, <2>6, ProcessType DEF GetUserContext, TypeOK, Stages, WithCertificate
  <2>7. CASE Register(p)
    <3>1. CASE Goes(p, "enroll") /\ registered' /\ UNCHANGED <<held, wallet, n>>
      BY <1>0, <2>7, <3>1, ProcessType DEF Register, TypeOK, Stages, WithCertificate
    <3>2. CASE Refused(p) \/ CallFails(p)
      BY <1>0, <2>3, <2>7, <3>2 DEF Register, Refused, CallFails, TypeOK
    <3> QED BY <2>7, <3>1, <3>2 DEF Register
  <2>8. CASE Enroll(p)
    <3>1. CASE Goes(p, "store") /\ Holds(p, network) /\ UNCHANGED <<registered, wallet, n>>
      BY <1>0, <2>8, <3>1, ProcessType DEF Enroll, TypeOK, Stages
    <3>2. CASE Refused(p) \/ CallFails(p)
      BY <1>0, <2>3, <2>8, <3>2 DEF Enroll, Refused, CallFails, TypeOK
    <3> QED BY <2>8, <3>1, <3>2 DEF Enroll
  <2>9. CASE StoreIdentity(p)
    BY <1>0, <2>9, ProcessType DEF StoreIdentity, TypeOK, Stages, WithCertificate
  <2>10. CASE Connect(p)
    BY <1>0, <2>10, ProcessType DEF Connect, TypeOK, Stages, WithCertificate
  <2>11. CASE QueryChannels(p)
    <3>1. held[p] # None
      BY <1>0, <2>11 DEF QueryChannels, TypeOK, WithCertificate
    <3>2. PICK stage \in {"attached", "detached"} : Goes(p, stage)
      BY <2>11 DEF QueryChannels
    <3>3. /\ UNCHANGED <<network, registered, wallet, held>>
          /\ UNCHANGED n \/ n' = [n EXCEPT !.silences = @ + 1]
      BY <2>11 DEF QueryChannels
    <3>4. n' \in Counters /\ stage \in Stages
      BY <1>0, <3>2, <3>3, CounterType DEF TypeOK, Stages
    <3> QED BY <1>0, <3>1, <3>2, <3>3, <3>4, ProcessType DEF TypeOK
  <2> QED
    BY <1>1, <2>1, <2>2, <2>4, <2>5, <2>6, <2>7, <2>8, <2>9, <2>10, <2>11 DEF Step
<1>2. ASSUME NEW p \in Processes, Stop(p) \/ Crash(p) PROVE TypeOK'
  <2>1. n' \in Counters
    BY <1>0, <1>2, CounterType DEF Stop, Crash, TypeOK
  <2> QED BY <1>0, <1>2, <2>1, ProcessType DEF Stop, Crash, TypeOK, Stages, WithCertificate
<1>3. CASE Rebuild \/ Renew \/ DeleteWallet
  <2>1. n' \in Counters
    BY <1>0, <1>3, CounterType DEF Rebuild, Renew, DeleteWallet, TypeOK
  <2>2. network' \in Generation /\ registered' \in BOOLEAN
    <3>1. network \in Nat \ {0}
      BY <1>0 DEF TypeOK, Generation, None
    <3>2. network' = network \/ network' = network + 1
      BY <1>3 DEF Rebuild, Renew, DeleteWallet
    <3>3. registered' \in BOOLEAN
      BY <1>0, <1>3 DEF Rebuild, Renew, DeleteWallet, TypeOK
    <3> QED BY <3>1, <3>2, <3>3 DEF Generation, None
  <2>3. wallet' \in [{CaAdmin, Admin} -> Generation \cup {None}]
    <3>1. DOMAIN wallet = {CaAdmin, Admin}
      BY <1>0 DEF TypeOK
    <3> QED BY <1>0, <1>3, <3>1 DEF Rebuild, Renew, DeleteWallet, TypeOK
  <2> QED BY <1>0, <1>3, <2>1, <2>2, <2>3 DEF Rebuild, Renew, DeleteWallet, TypeOK
<1> QED BY <1>1, <1>2, <1>3 DEF Next

(* Only Enroll and, without an authority, GetIdentity get to the storing   *)
(* of a certificate.                                                       *)
LEMMA FreshPreserved ==
  ASSUME EnrollmentInv, Next
  PROVE  StoresFresh'
<1> USE DEF EnrollmentInv, TypeOK, StoresFresh, Goes, Holds, Counters
<1>1. ASSUME NEW p \in Processes, Step(p) PROVE StoresFresh'
  <2>1. CASE EnrollCaAdmin(p) \/ Register(p) \/ Enroll(p)
    BY <2>1 DEF EnrollCaAdmin, Register, Enroll, Refused, CallFails
  <2>2. CASE Start(p) \/ GetIdentity(p) \/ StoreCaAdmin(p) \/ GetUserContext(p)
    BY <2>2 DEF Start, GetIdentity, StoreCaAdmin, GetUserContext
  <2>3. CASE StoreIdentity(p) \/ Connect(p) \/ QueryChannels(p)
    BY <2>3 DEF StoreIdentity, Connect, QueryChannels
  <2> QED BY <1>1, <2>1, <2>2, <2>3 DEF Step
<1>2. ASSUME NEW p \in Processes, Stop(p) \/ Crash(p) PROVE StoresFresh'
  BY <1>2 DEF Stop, Crash
<1>3. CASE Rebuild \/ Renew
  <2>1. \A p \in Processes : at'[p] # "store"
    BY <1>3 DEF Rebuild, Renew, Nobody
  <2>2. network' = n'.rebuilds + n'.renewals + 1
    BY <1>3 DEF Rebuild, Renew, Counters
  <2> QED BY <2>1, <2>2
<1>4. CASE DeleteWallet
  BY <1>4 DEF DeleteWallet, Counters
<1> QED BY <1>1, <1>2, <1>3, <1>4 DEF Next

(* A step of a process that leaves neither enrolling nor storing, keeps    *)
(* what is registered and does not touch the admin's certificate, keeps    *)
(* the registration where it is.                                           *)
LEMMA NotLostByOthers ==
  ASSUME EnrollmentInv, NEW p \in Processes, NEW stage, Goes(p, stage),
         at[p] \notin {"enroll", "store"}, registered' = registered, network' = network,
         wallet'[Admin] = wallet[Admin], n'.fails = n.fails, n'.crashes = n.crashes,
         n'.deletes = n.deletes
  PROVE  NoLostRegistration'
<1> SUFFICES ASSUME n.fails = 0, n.crashes = 0, n.deletes = 0, registered,
                    wallet[Admin] # network
             PROVE  \E q \in Processes : at'[q] \in {"enroll", "store"}
  BY DEF NoLostRegistration
<1>1. PICK q \in Processes : at[q] \in {"enroll", "store"}
  BY DEF EnrollmentInv, NoLostRegistration
<1>2. at'[q] = at[q]
  BY <1>1 DEF Goes, EnrollmentInv, TypeOK
<1> QED BY <1>1, <1>2

(* What is registered stays stored or on its way.                          *)
LEMMA RegistrationPreserved ==
  ASSUME EnrollmentInv, Next
  PROVE  NoLostRegistration'
<1> USE DEF EnrollmentInv, TypeOK, Counters
<1>1. ASSUME NEW p \in Processes, Step(p) PROVE NoLostRegistration'
  <2>1. CASE Start(p)
    BY <2>1, NotLostByOthers DEF Start
  <2>2. CASE GetIdentity(p)
    <3>1. \E stage : Goes(p, stage)
      BY <2>2 DEF GetIdentity
    <3> QED BY <2>2, <3>1, NotLostByOthers DEF GetIdentity
  <2>3. CASE EnrollCaAdmin(p)
    <3>1. CASE UNCHANGED n
      BY <2>3, <3>1, NotLostByOthers DEF EnrollCaAdmin, CallFails
    <3>2. CASE n' = [n EXCEPT !.fails = @ + 1]
      BY <3>2 DEF NoLostRegistration
    <3> QED BY <2>3, <3>1, <3>2 DEF EnrollCaAdmin, CallFails
  <2>4. CASE StoreCaAdmin(p)
    BY <2>4, NotLostByOthers DEF StoreCaAdmin, Admin, CaAdmin
  <2>5. CASE GetUserContext(p)
    BY <2>5, NotLostByOthers DEF GetUserContext
  <2>6. CASE Register(p)
    <3>1. CASE registered' /\ Goes(p, "enroll")
      BY <3>1 DEF Goes, NoLostRegistration
    <3>2. CASE Refused(p)
      BY <2>6, <3>2, NotLostByOthers DEF Register, Refused
    <3>3. CASE n' = [n EXCEPT !.fails = @ + 1]
      BY <3>3 DEF NoLostRegistration
    <3> QED BY <2>6, <3>1, <3>2, <3>3 DEF Register, CallFails
  <2>7. CASE Enroll(p)
    <3>1. CASE Goes(p, "store")
      BY <3>1 DEF Goes, NoLostRegistration
    <3>2. CASE ~registered /\ Refused(p)
      BY <3>2 DEF Refused, NoLostRegistration
    <3>3. CASE n' = [n EXCEPT !.fails = @ + 1]
      BY <3>3 DEF NoLostRegistration
    <3> QED BY <2>7, <3>1, <3>2, <3>3 DEF Enroll, CallFails
  <2>8. CASE StoreIdentity(p)
    BY <2>8 DEF StoreIdentity, StoresFresh, NoLostRegistration
  <2>9. CASE Connect(p)
    BY <2>9, NotLostByOthers DEF Connect
  <2>10. CASE QueryChannels(p)
    <3>1. PICK stage : Goes(p, stage)
      BY <2>10 DEF QueryChannels
    <3>2. n'.fails = n.fails /\ n'.crashes = n.crashes /\ n'.deletes = n.deletes
      BY <2>10 DEF QueryChannels
    <3> QED BY <2>10, <3>1, <3>2, NotLostByOthers DEF QueryChannels
  <2> QED
    BY <1>1, <2>1, <2>2, <2>3, <2>4, <2>5, <2>6, <2>7, <2>8, <2>9, <2>10 DEF Step
<1>2. ASSUME NEW p \in Processes, Stop(p) PROVE NoLostRegistration'
  <2>1. n'.fails = n.fails /\ n'.crashes = n.crashes /\ n'.deletes = n.deletes
    BY <1>2 DEF Stop
  <2>2. \A q \in Processes : at[q] \in {"enroll", "store"} => at'[q] = at[q]
    BY <1>2 DEF Stop, Goes
  <2> QED BY <1>2, <2>1, <2>2 DEF Stop, NoLostRegistration
<1>3. ASSUME NEW p \in Processes, Crash(p) PROVE NoLostRegistration'
  BY <1>3 DEF Crash, NoLostRegistration
<1>4. CASE Rebuild \/ Renew
  BY <1>4 DEF Rebuild, Renew, NoLostRegistration
<1>5. CASE DeleteWallet
  BY <1>5 DEF DeleteWallet, NoLostRegistration
<1> QED BY <1>1, <1>2, <1>3, <1>4, <1>5 DEF Next

(* The three together are an inductive invariant.                          *)
LEMMA EnrollmentStep == EnrollmentInv /\ [Next]_vars => EnrollmentInv'
<1> SUFFICES ASSUME EnrollmentInv, [Next]_vars PROVE EnrollmentInv'
  OBVIOUS
<1>1. CASE Next
  BY <1>1, EnrollmentType, FreshPreserved, RegistrationPreserved DEF EnrollmentInv
<1>2. CASE UNCHANGED vars
  BY <1>2 DEF vars, EnrollmentInv, TypeOK, StoresFresh, NoLostRegistration
<1> QED BY <1>1, <1>2

(* The variables keep their types.                                         *)
THEOREM EnrollmentTypeCorrect == Spec => []TypeOK
<1>1. EnrollmentInv => TypeOK
  BY DEF EnrollmentInv
<1> QED BY EnrollmentInit, EnrollmentStep, <1>1, PTL DEF Spec

(* However many processes enroll at once, and whatever networks come and   *)
(* go, a registration is lost only by a failure, a crash or a deletion     *)
(* (enrollCaIdentity).                                                     *)
THEOREM RegistrationNotLost == Spec => []NoLostRegistration
<1>1. EnrollmentInv => NoLostRegistration
  BY DEF EnrollmentInv
<1> QED BY EnrollmentInit, EnrollmentStep, <1>1, PTL DEF Spec

-----------------------------------------------------------------------------
(* The operators of the library mean the same in the instances.            *)

(* The size of a set, in a session.                                         *)
LEMMA SessionCount == \A p, X : S(p)!Cardinality(X) = Cardinality(X)
BY DEF S!Cardinality, Cardinality

(* Finiteness, in a session.                                                *)
LEMMA SessionFinite == \A p, X : S(p)!IsFiniteSet(X) = IsFiniteSet(X)
BY DEF S!IsFiniteSet, IsFiniteSet

(* The size of a set, in the dashboard.                                     *)
LEMMA DashboardCount == \A p, X : D(p)!Cardinality(X) = Cardinality(X)
BY DEF D!Cardinality, Cardinality

(* The size of a set, in the panel of users.                                *)
LEMMA UserCount == \A p, X : U(p)!Cardinality(X) = Cardinality(X)
BY DEF U!Cardinality, Cardinality

(* Finiteness, in the panel of users.                                       *)
LEMMA UserFinite == \A p, X : U(p)!IsFiniteSet(X) = IsFiniteSet(X)
BY DEF U!IsFiniteSet, IsFiniteSet

(* Injections, in the panel of users: the orders of its rows.               *)
LEMMA UserInjection == \A p, X, Y : U(p)!Injection(X, Y) = Injection(X, Y)
BY DEF U!Injection, Injection, U!IsInjective, IsInjective

-----------------------------------------------------------------------------
(* Session.                                                                *)

Tokens == DOMAIN issued \cup {Nothing}
TabType(p) ==
  [page : {"closed", "login", "landing", "app", "broken"}, auth : Tokens, listed : BOOLEAN,
   network : Sessions[p].Networks, attempted : BOOLEAN, stale : BOOLEAN]
SessionRequests(p) ==
  [tab : Sessions[p].Tabs,
    kind : {"networks", "login", "logout", "current", "channels", "poll"},
   token : Tokens, network : Sessions[p].Networks]

(* The types, with the shape of the requests.                              *)
SessionTypes(p) ==
  /\ S(p)!TypeOK /\ tab \in [Sessions[p].Tabs -> TabType(p)]
  /\ requests \subseteq SessionRequests(p)

(* What is stored is what the store of the only tab has.                   *)
OneToken(p) == Cardinality(Sessions[p].Tabs) = 1 =>
  \A t \in Sessions[p].Tabs : stored \in {Nothing, tab[t].auth}

SessionInv(p) == SessionTypes(p) /\ OneToken(p)

(* The tokens that were issued are numbered.                               *)
LEMMA TokensNumbered ==
  ASSUME NEW p, S(p)!TypeOK
  PROVE  /\ Cardinality(DOMAIN issued) \in 0 .. Sessions[p].MaxTokens
         /\ DOMAIN issued = 1 .. Cardinality(DOMAIN issued)
         /\ issued \in [DOMAIN issued -> Sessions[p].Networks]
<1>1. PICK k \in 0 .. Sessions[p].MaxTokens : issued \in [1 .. k -> Sessions[p].Networks]
  BY DEF S!TypeOK
<1>2. Cardinality(1 .. k) = k
  BY FS_Interval
<1> QED BY <1>1, <1>2

(* Before the first page is loaded nothing is stored.                      *)
LEMMA SessionInit ==
  ASSUME NEW p
  PROVE  S(p)!SessionParameters /\ S(p)!Init => SessionInv(p)
<1> SUFFICES ASSUME S(p)!SessionParameters, S(p)!Init PROVE SessionInv(p)
  OBVIOUS
<1>1. issued \in [1 .. 0 -> Sessions[p].Networks] /\ 0 \in 0 .. Sessions[p].MaxTokens
  BY SessionFinite DEF S!Init, S!SessionParameters
<1>2. /\ DOMAIN issued = 1 .. 0
      /\ issued \in
           UNION {[1 .. k -> Sessions[p].Networks] : k \in 0 .. Sessions[p].MaxTokens}
  BY <1>1
<1>3. tab \in [Sessions[p].Tabs -> TabType(p)]
  BY SessionFinite DEF S!Init, S!Closed, TabType, Tokens, S!SessionParameters
<1> QED BY <1>2, <1>3, SessionFinite DEF S!Init, SessionInv, SessionTypes, OneToken,
   S!TypeOK, S!Closed, TabType, Tokens, S!SessionParameters

(* What is asked is a request.                                             *)
LEMMA AskTyped ==
  ASSUME NEW p, SessionTypes(p), NEW t \in Sessions[p].Tabs,
         NEW net \in Sessions[p].Networks, NEW token \in Tokens,
         NEW kind \in {"networks", "login", "logout", "current", "channels", "poll"}
  PROVE  /\ S(p)!Ask(t, kind, net) \in SessionRequests(p)
         /\ [S(p)!Ask(t, kind, net) EXCEPT !.token = token] \in SessionRequests(p)
BY DEF SessionTypes, S!TypeOK, S!Ask, SessionRequests, Tokens

(* A page that is loaded is a tab that asks.                               *)
LEMMA LoadTyped ==
  ASSUME NEW p, S(p)!SessionParameters, SessionTypes(p), NEW t \in Sessions[p].Tabs,
         NEW token \in Tokens,
         S(p)!Load(t, token)
  PROVE  tab' \in [Sessions[p].Tabs -> TabType(p)] /\ requests' \subseteq SessionRequests(p)
<1>1. \A kind \in {"networks", "current"} :
        [S(p)!Ask(t, kind, Sessions[p].FirstNetwork) EXCEPT !.token = token] \in
          SessionRequests(p)
  BY AskTyped, SessionFinite DEF S!SessionParameters
<1>2. requests' \subseteq SessionRequests(p)
  BY <1>1 DEF S!Load, SessionTypes
<1>3. tab' \in [Sessions[p].Tabs -> TabType(p)]
  BY SessionFinite DEF S!Load, S!Closed, SessionTypes, TabType, S!SessionParameters
<1> QED BY <1>2, <1>3

(* LandingPage goes on to a page, or to a request.                         *)
LEMMA LandingTyped ==
  ASSUME NEW p, S(p)!SessionParameters, SessionTypes(p), NEW r \in requests,
         NEW ok \in BOOLEAN,
         S(p)!LandingGoesOn(r, ok)
  PROVE  /\ tab' \in [Sessions[p].Tabs -> TabType(p)]
            /\ requests' \subseteq SessionRequests(p)
         /\ \A t \in Sessions[p].Tabs : tab'[t].auth = tab[t].auth
<1>1. r \in SessionRequests(p) /\ r.tab \in Sessions[p].Tabs
  BY DEF SessionTypes, SessionRequests
<1>2. stored \in Tokens
  BY DEF SessionTypes, S!TypeOK, Tokens
<1>3. CASE r.kind = "current"
  <2>1. S(p)!Ask(r.tab, "channels", Sessions[p].FirstNetwork) \in SessionRequests(p)
    BY <1>1, <1>2, AskTyped, SessionFinite DEF S!SessionParameters
  <2>2. /\ requests' =
             (requests \ {r}) \cup {S(p)!Ask(r.tab, "channels", Sessions[p].FirstNetwork)}
        /\ tab' = tab
    BY <1>3 DEF S!LandingGoesOn
  <2> QED BY <2>1, <2>2 DEF SessionTypes
<1>4. CASE r.kind = "channels"
  BY <1>1, <1>4 DEF S!LandingGoesOn, SessionTypes, TabType
<1>5. CASE r.kind \notin {"current", "channels"}
  BY <1>5 DEF S!LandingGoesOn, SessionTypes
<1> QED BY <1>3, <1>4, <1>5

(* A login that fails selects a network again, and changes no token.       *)
LEMMA LoginFailsTyped ==
  ASSUME NEW p, S(p)!SessionParameters, SessionTypes(p), NEW r \in requests,
         S(p)!LoginFails(r)
  PROVE  /\ tab' \in [Sessions[p].Tabs -> TabType(p)]
         /\ requests' \subseteq SessionRequests(p)
         /\ \A t \in Sessions[p].Tabs : tab'[t].auth = tab[t].auth
<1>1. r \in SessionRequests(p) /\ r.tab \in Sessions[p].Tabs
  BY DEF SessionTypes, SessionRequests
<1>2. Sessions[p].FirstNetwork \in Sessions[p].Networks
  BY DEF S!SessionParameters
<1>3. tab' = [tab EXCEPT ![r.tab].network = Sessions[p].FirstNetwork]
      /\ requests' = requests \ {r}
  BY DEF S!LoginFails
<1>4. tab[r.tab] \in TabType(p)
  BY <1>1 DEF SessionTypes
<1>5. [tab[r.tab] EXCEPT !.network = Sessions[p].FirstNetwork] \in TabType(p)
  BY <1>2, <1>4 DEF TabType
<1>6. tab' \in [Sessions[p].Tabs -> TabType(p)]
  BY <1>1, <1>3, <1>5 DEF SessionTypes
<1>7. \A t \in Sessions[p].Tabs : tab'[t].auth = tab[t].auth
  BY <1>1, <1>3, <1>4 DEF SessionTypes, TabType
<1> QED BY <1>3, <1>6, <1>7 DEF SessionTypes

(* Every answer keeps the types, and what the tab knows.                   *)
LEMMA AnswerKeepsSession ==
  ASSUME NEW p, S(p)!SessionParameters, SessionInv(p), NEW r \in requests,
         \/ S(p)!NetworkList(r) \/ S(p)!Refused(r) \/ S(p)!Served(r)
         \/ S(p)!Unauthorized(r) \/ S(p)!LoggedOut(r) \/ S(p)!Fail(r)
  PROVE  SessionInv(p)'
<1>1. /\ r \in SessionRequests(p) /\ r.tab \in Sessions[p].Tabs
      /\ Sessions[p].FirstNetwork \in Sessions[p].Networks
      /\ stored \in Tokens /\ Nothing \in Tokens /\ SessionTypes(p) /\ S(p)!TypeOK
  BY SessionFinite DEF SessionInv, SessionTypes, SessionRequests, S!SessionParameters,
     S!TypeOK, Tokens
<1>2. \A k \in Nat : \A i \in 0 .. k : i < k => i + 1 \in 0 .. k
  OBVIOUS
<1>3. /\ opens \in 0 .. Sessions[p].MaxOpens /\ fails \in 0 .. Sessions[p].MaxFails
      /\ Sessions[p].MaxOpens \in Nat /\ Sessions[p].MaxFails \in Nat
  BY <1>1, SessionFinite DEF S!TypeOK, S!SessionParameters
<1>4. UNCHANGED <<issued, expired, polls>> /\ Tokens' = Tokens /\ TabType(p)' = TabType(p)
        /\ SessionRequests(p)' = SessionRequests(p)
  BY DEF S!NetworkList, S!Refused, S!Served, S!Unauthorized, S!LoggedOut, S!Fail, Tokens,
     TabType, SessionRequests
<1>5. opens' \in 0 .. Sessions[p].MaxOpens /\ fails' \in 0 .. Sessions[p].MaxFails
  BY <1>2, <1>3 DEF S!NetworkList, S!Refused, S!Served, S!Unauthorized, S!LoggedOut, S!Fail
<1>6. SUFFICES /\ tab' \in [Sessions[p].Tabs -> TabType(p)]
               /\ requests' \subseteq SessionRequests(p)
               /\ stored' = Nothing \/ (stored' = stored
                                      /\ \A t \in Sessions[p].Tabs : tab'[t].auth =
                                           tab[t].auth)
  <2>1. stored' \in Tokens'
    BY <1>1, <1>4, <1>6
  <2>2. \A q \in requests' :
          /\ q.tab \in Sessions[p].Tabs /\ q.token \in Tokens'
          /\ q.network \in Sessions[p].Networks
          /\ q.kind \in {"networks", "login", "logout", "current", "channels", "poll"}
    BY <1>4, <1>6 DEF SessionRequests
  <2>3. S(p)!TypeOK'
    BY <1>1, <1>4, <1>5, <1>6, <2>1, <2>2 DEF S!TypeOK, Tokens, TabType
  <2>4. OneToken(p)'
    BY <1>6 DEF SessionInv, OneToken
  <2> QED BY <1>4, <1>6, <2>3, <2>4 DEF SessionInv, SessionTypes
<1>7. CASE S(p)!NetworkList(r)
  <2>1. S(p)!Ask(r.tab, "login", Sessions[p].FirstNetwork) \in SessionRequests(p)
    BY <1>1, AskTyped
  <2>2. requests' \subseteq SessionRequests(p) /\ stored' = stored
    BY <1>1, <1>7, <2>1 DEF S!NetworkList, SessionTypes
  <2>3. tab' \in [Sessions[p].Tabs -> TabType(p)]
        /\ \A t \in Sessions[p].Tabs : tab'[t].auth = tab[t].auth
    <3> DEFINE was == tab[r.tab]
    <3>1. PICK auto \in BOOLEAN :
            tab' =
              [tab EXCEPT ![r.tab].listed = TRUE,
                ![r.tab].network = Sessions[p].FirstNetwork,
                               ![r.tab].attempted = @ \/ auto]
      BY <1>7 DEF S!NetworkList
    <3>2. PICK attempted \in BOOLEAN : attempted = (was.attempted \/ auto)
      OBVIOUS
    <3>3. was \in TabType(p)
      BY <1>1 DEF SessionTypes
    <3>4. tab' = [tab EXCEPT ![r.tab] =
                    [was EXCEPT !.listed = TRUE, !.network = Sessions[p].FirstNetwork,
                                !.attempted = attempted]]
      BY <1>1, <3>1, <3>2 DEF SessionTypes
    <3>5. [was EXCEPT !.listed = TRUE, !.network = Sessions[p].FirstNetwork,
            !.attempted = attempted]
            \in TabType(p)
      BY <1>1, <3>3 DEF TabType
    <3> QED BY <1>1, <3>3, <3>4, <3>5 DEF SessionTypes
  <2> QED BY <2>2, <2>3
<1>8. CASE S(p)!Refused(r)
  BY <1>1, <1>8, LoginFailsTyped DEF S!Refused
<1>9. CASE S(p)!Served(r)
  BY <1>1, <1>9, LandingTyped DEF S!Served
<1>10. CASE S(p)!Unauthorized(r)
  <2>1. [S(p)!Ask(r.tab, "channels", Sessions[p].FirstNetwork) EXCEPT !.token =
          Nothing] \in SessionRequests(p)
    BY <1>1, AskTyped
  <2> QED BY <1>1, <1>10, <2>1, LandingTyped DEF S!Unauthorized, SessionTypes
<1>11. CASE S(p)!LoggedOut(r)
  BY <1>1, <1>11, LoadTyped DEF S!LoggedOut
<1>12. CASE S(p)!Fail(r)
  <2>1. CASE r.kind = "networks"
    <3>1. /\ requests' = requests \ {r} /\ stored' = stored
          /\ tab' = IF tab[r.tab].page = "login"
                    THEN [tab EXCEPT ![r.tab].page = "broken"] ELSE tab
      BY <1>12, <2>1 DEF S!Fail, S!LoginFails
    <3> QED BY <1>1, <3>1 DEF SessionTypes, TabType
  <2>2. CASE S(p)!LoginFails(r)
    BY <1>1, <1>12, <2>2, LoginFailsTyped DEF S!Fail, S!LoginFails
  <2>3. CASE r.kind # "networks" /\ S(p)!LandingGoesOn(r, FALSE)
    BY <1>1, <1>12, <2>3, LandingTyped DEF S!Fail
  <2> QED BY <1>12, <2>1, <2>2, <2>3 DEF S!Fail
<1> QED BY <1>7, <1>8, <1>9, <1>10, <1>11, <1>12

(* A token that is issued is stored in both places.                        *)
LEMMA LoggedInKeepsSession ==
  ASSUME NEW p, S(p)!SessionParameters, SessionInv(p), NEW r \in requests, S(p)!LoggedIn(r)
  PROVE  SessionInv(p)'
<1> DEFINE token == S(p)!Cardinality(DOMAIN issued) + 1
<1>1. /\ r \in SessionRequests(p) /\ r.tab \in Sessions[p].Tabs
      /\ r.network \in Sessions[p].Networks
      /\ Sessions[p].FirstNetwork \in Sessions[p].Networks /\ SessionTypes(p) /\ S(p)!TypeOK
      /\ Sessions[p].MaxTokens \in Nat
  BY SessionFinite DEF SessionInv, SessionTypes, SessionRequests, S!SessionParameters
<1>2. token \in 1 .. Sessions[p].MaxTokens /\ DOMAIN issued = 1 .. token - 1
      /\ issued \in [1 .. token - 1 -> Sessions[p].Networks]
  <2>1. /\ Cardinality(DOMAIN issued) \in 0 .. Sessions[p].MaxTokens
        /\ Cardinality(DOMAIN issued) < Sessions[p].MaxTokens
    BY <1>1, TokensNumbered, SessionCount DEF S!LoggedIn
  <2> QED BY <1>1, <2>1, TokensNumbered, SessionCount
<1>3. /\ issued' = [k \in 1 .. token |-> IF k = token THEN r.network ELSE issued[k]]
      /\ stored' = token
      /\ tab' = [tab EXCEPT ![r.tab].auth = token, ![r.tab].stale = FALSE,
                            ![r.tab].page = IF @ = "login" THEN "landing" ELSE @]
      /\ requests' = (requests \ {r}) \cup
           IF tab[r.tab].page = "login"
           THEN {[S(p)!Ask(r.tab, "current", Sessions[p].FirstNetwork) EXCEPT !.token =
             token]} ELSE {}
      /\ UNCHANGED <<expired, polls, opens, fails>>
  <2> HIDE DEF token
  <2> QED BY Zenon DEF S!LoggedIn, token
<1> HIDE DEF token
<1>4. issued' \in [1 .. token -> Sessions[p].Networks]
      /\ DOMAIN issued \subseteq DOMAIN issued'
      /\ token \in DOMAIN issued'
  BY <1>1, <1>2, <1>3
<1>5. Tokens \subseteq Tokens' /\ token \in Tokens' /\ Nothing \in Tokens
  BY <1>4 DEF Tokens
<1>6. SessionRequests(p) \subseteq SessionRequests(p)' /\ TabType(p) \subseteq TabType(p)'
  BY <1>5 DEF SessionRequests, TabType
<1>7. [S(p)!Ask(r.tab, "current", Sessions[p].FirstNetwork) EXCEPT !.token = token] \in
        SessionRequests(p)'
  BY <1>1, <1>5 DEF S!Ask, SessionRequests
<1>8. requests' \subseteq SessionRequests(p)'
  BY <1>1, <1>3, <1>6, <1>7 DEF SessionTypes
<1>9. tab' \in [Sessions[p].Tabs -> TabType(p)'] /\ tab'[r.tab].auth = token
  <2> DEFINE was == tab[r.tab]
             is == [was EXCEPT !.auth = token, !.stale = FALSE,
                               !.page = IF @ = "login" THEN "landing" ELSE @]
  <2>1. was \in TabType(p)'
    BY <1>1, <1>6 DEF SessionTypes
  <2>2. tab' = [tab EXCEPT ![r.tab] = is]
    BY <1>1, <1>3 DEF SessionTypes
  <2>3. is \in TabType(p)' /\ is.auth = token
    BY <1>5, <2>1 DEF TabType
  <2> QED BY <1>1, <1>6, <2>2, <2>3 DEF SessionTypes
<1>10. S(p)!TypeOK'
  <2>1. issued' \in
          UNION {[1 .. k -> Sessions[p].Networks] : k \in 0 .. Sessions[p].MaxTokens}
    BY <1>1, <1>2, <1>4
  <2>2. \A q \in requests' :
          /\ q.tab \in Sessions[p].Tabs /\ q.token \in Tokens'
          /\ q.network \in Sessions[p].Networks
          /\ q.kind \in {"networks", "login", "logout", "current", "channels", "poll"}
    BY <1>8 DEF SessionRequests
  <2> QED BY <1>1, <1>3, <1>4, <1>9, <2>1, <2>2 DEF S!TypeOK, Tokens, TabType
<1>11. OneToken(p)'
  <2> SUFFICES ASSUME Cardinality(Sessions[p].Tabs) = 1,
                      NEW t \in Sessions[p].Tabs PROVE tab'[t].auth = stored'
    BY DEF OneToken
  <2>1. t = r.tab
    BY <1>1, FS_Singleton, SessionFinite DEF S!SessionParameters
  <2> QED BY <1>3, <1>9, <2>1
<1> QED BY <1>8, <1>9, <1>10, <1>11 DEF SessionInv, SessionTypes

(* So does every other step.                                               *)
LEMMA SessionStep ==
  ASSUME NEW p, S(p)!SessionParameters, SessionInv(p), S(p)!Next \/ UNCHANGED S(p)!vars
  PROVE  SessionInv(p)'
<1>1. /\ Sessions[p].FirstNetwork \in Sessions[p].Networks /\ SessionTypes(p) /\ S(p)!TypeOK
      /\ stored \in Tokens
  BY SessionFinite DEF SessionInv, SessionTypes, S!SessionParameters, S!TypeOK, Tokens
<1>2. /\ opens \in 0 .. Sessions[p].MaxOpens /\ polls \in 0 .. Sessions[p].MaxPolls
      /\ Sessions[p].MaxOpens \in Nat /\ Sessions[p].MaxPolls \in Nat
  BY <1>1, SessionFinite DEF S!TypeOK, S!SessionParameters
<1>3. ASSUME /\ tab' \in [Sessions[p].Tabs -> TabType(p)]
             /\ requests' \subseteq SessionRequests(p)
             /\ UNCHANGED <<stored, issued, fails>> /\ expired' \subseteq DOMAIN issued
             /\ opens' \in 0 .. Sessions[p].MaxOpens /\ polls' \in 0 .. Sessions[p].MaxPolls
             /\ \A t \in Sessions[p].Tabs : tab'[t].auth \in {tab[t].auth, stored}
      PROVE  SessionInv(p)'
  <2>1. Tokens' = Tokens /\ TabType(p)' = TabType(p)
        /\ SessionRequests(p)' = SessionRequests(p)
    BY <1>3 DEF Tokens, TabType, SessionRequests
  <2>2. \A q \in requests' :
          /\ q.tab \in Sessions[p].Tabs /\ q.token \in Tokens'
          /\ q.network \in Sessions[p].Networks
          /\ q.kind \in {"networks", "login", "logout", "current", "channels", "poll"}
    BY <1>3, <2>1 DEF SessionRequests
  <2>3. S(p)!TypeOK'
    BY <1>1, <1>3, <2>1, <2>2 DEF S!TypeOK, Tokens, TabType
  <2>4. OneToken(p)'
    BY <1>3 DEF SessionInv, OneToken
  <2> QED BY <1>3, <2>1, <2>3, <2>4 DEF SessionInv, SessionTypes
<1>4. CASE S(p)!Answer \/ \E r \in requests : S(p)!Fail(r)
  BY <1>4, AnswerKeepsSession, LoggedInKeepsSession DEF S!Answer
<1>5. ASSUME NEW t \in Sessions[p].Tabs, S(p)!Open(t) PROVE SessionInv(p)'
  <2>1. opens' \in 0 .. Sessions[p].MaxOpens
    BY <1>2, <1>5 DEF S!Open
  <2>2. \A u \in Sessions[p].Tabs : tab'[u].auth \in {tab[u].auth, stored}
    BY <1>1, <1>5 DEF S!Open, S!Load, S!Closed, SessionTypes
  <2> QED BY <1>1, <1>2, <1>3, <1>5, <2>1, <2>2, LoadTyped DEF S!Open, S!TypeOK
<1>6. ASSUME NEW t \in Sessions[p].Tabs,
             S(p)!SubmitForm(t) \/ S(p)!Logout(t) \/ S(p)!Poll(t) PROVE SessionInv(p)'
  <2>1. polls' \in 0 .. Sessions[p].MaxPolls
    BY <1>2, <1>6 DEF S!SubmitForm, S!Logout, S!Poll
  <2>2. tab[t].network \in Sessions[p].Networks
    BY <1>1 DEF SessionTypes, TabType
  <2>3. requests' \subseteq SessionRequests(p)
    <3>1. /\ S(p)!Ask(t, "login", tab[t].network) \in SessionRequests(p)
          /\ S(p)!Ask(t, "logout", Sessions[p].FirstNetwork) \in SessionRequests(p)
          /\ S(p)!Ask(t, "poll", Sessions[p].FirstNetwork) \in SessionRequests(p)
      BY <1>1, <2>2, AskTyped
    <3> QED BY <1>1, <1>6, <3>1 DEF S!SubmitForm, S!Logout, S!Poll, SessionTypes
  <2> QED BY <1>1, <1>2, <1>3, <1>6, <2>1, <2>3 DEF S!SubmitForm, S!Logout, S!Poll,
     SessionTypes, S!TypeOK
<1>7. ASSUME NEW t \in Sessions[p].Tabs, NEW net \in Sessions[p].Networks,
             S(p)!HandleChange(t, net) PROVE SessionInv(p)'
  <2>1. /\ tab' \in [Sessions[p].Tabs -> TabType(p)]
        /\ \A u \in Sessions[p].Tabs : tab'[u].auth = tab[u].auth
    BY <1>1, <1>7 DEF S!HandleChange, SessionTypes, TabType
  <2> QED BY <1>1, <1>2, <1>3, <1>7, <2>1 DEF S!HandleChange, SessionTypes, S!TypeOK
<1>8. ASSUME NEW k \in DOMAIN issued, S(p)!Expire(k) PROVE SessionInv(p)'
  BY <1>1, <1>2, <1>3, <1>8 DEF S!Expire, SessionTypes, S!TypeOK
<1>9. CASE UNCHANGED S(p)!vars
  BY <1>1, <1>2, <1>3, <1>9 DEF S!vars, SessionTypes, S!TypeOK
<1> QED BY <1>4, <1>5, <1>6, <1>7, <1>8, <1>9 DEF S!Next

-----------------------------------------------------------------------------
(* Dashboard.                                                              *)

(* The channels that are named exist, panels are not taken for other       *)

Selects == {w \in pending : w.kind = "select"}
Changes == {f \in flights : f.what = "change"}
Activities == {f \in flights : f.what = "activity"}

(* A sync is waited for once and as long as one of its requests is in      *)
(* flight; a change of the channel belongs to none.                        *)
Awaited(b) ==
  /\ \A f \in flights : f.sync <= syncs
       /\ (f.what = "change" => f.channel \in Dashboards[b].Channels)
  /\ \A w \in pending :
       /\ w.sync <= syncs /\ (w.kind = "select" => w.channel \in Dashboards[b].Channels)
       /\ \E f \in flights : f.sync = w.sync
       /\ \A f \in flights : f.sync = w.sync => f.what \notin {"current", "change"}
       /\ \A v \in pending : v.sync = w.sync => v = w

(* What page is shown tells what is awaited.                               *)
Pages(b) ==
  /\ page = "start" => pending = {} /\ flights = {D(b)!Ask("current", Nothing, 0)}
  /\ page = "landing" => /\ \E w \in pending : pending = {w} /\ w.kind = "landing"
                         /\ \A f \in flights, w \in pending : f.sync = w.sync
  /\ page = "dashboard" => \A w \in pending : w.kind # "landing"
  /\ page # "start" => \A f \in flights : f.what # "current"
  /\ page \in {"start", "landing"} => selections = 0
  /\ page # "start" /\ fails = 0 => current \in Dashboards[b].Channels

(* The header agrees with the store, or the list of channels will come.    *)
HeaderWillAgree ==
  page = "dashboard" /\ fails = 0 =>
    \/ selected = current /\ stateChannel = current
    \/ \E f \in flights : f.what = "channels"

(* The channel that is changed to, or was at last, is c.                   *)
Heading(c) == (Changes = {} => current = c) /\ \A f \in Changes : f.channel = c

(* There is an interval, or a selection whose end will set it.             *)
IntervalOrSelection(b) ==
  page = "dashboard" /\ overlaps = 0 =>
    \/ /\ Selects = {}
       /\ \E c \in D(b)!MaybeChannel : timers = {<<handle, c>>} /\ (fails = 0 => Heading(c))
    \/ /\ timers = {}
       /\ \E w \in pending : Selects = {w} /\ (fails = 0 => Heading(w.channel))

(* While the page loads what is not there is on its way; then all is, and  *)
(* nothing is asked of no channel.                                         *)
AllComes(b) ==
  /\ page = "landing" /\ fails = 0 =>
       /\ channelsKnown \/ \E f \in flights : f.what = "channels"
       /\ \A p \in D(b)!Panels : panel[p] = current \/ \E f \in flights : f.what = p
       /\ \A f \in flights : f.what \in D(b)!Panels => f.channel = current
  /\ page = "dashboard" /\ fails = 0 =>
       /\ ~dbError /\ channelsKnown /\ stateChannel # Nothing /\ selected # Nothing
       /\ \A p \in D(b)!Panels : panel[p] # Nothing
       /\ \A f \in flights : f.what \in D(b)!Panels => f.channel # Nothing
       /\ \A t \in timers : t[2] # Nothing

(* After the first selection, of c: its activity is there or on its way,   *)
(* and will be asked for once more when the channel has changed.           *)
SelectionOf(c) ==
  /\ \A f \in Activities : f.channel = c
  /\ \/ /\ \E f \in Changes : Changes = {f} /\ f.channel = c
        /\ current # c
        /\ panel["activity"] = c \/ Activities # {}
     \/ /\ Changes = {} /\ current = c
        /\ \/ panel["activity"] = c /\ (timeline = c \/ Activities # {})
           \/ \E f, g \in Activities : f # g

TimelineWillAgree(b) ==
  page = "dashboard" /\ fails = 0 /\ ticks = 0 =>
    /\ selections = 0 => /\ flights = {} /\ selected = current
                         /\ timeline = current /\ panel["activity"] = current
    /\ selections = 1 => \E c \in Dashboards[b].Channels : SelectionOf(c)

DashboardInv(b) ==
  D(b)!TypeOK /\ Awaited(b) /\ Pages(b) /\ HeaderWillAgree /\ IntervalOrSelection(b)
  /\ AllComes(b)
    /\ TimelineWillAgree(b)

(* What a sync asks for.                                                   *)
LEMMA SyncAsks ==
  ASSUME NEW b, NEW c, NEW s
  PROVE  /\ \A f \in D(b)!SyncRequests(c, s) :
              /\ f.sync = s
              /\ \/ f.what \in D(b)!Panels /\ f.channel = c /\ f = D(b)!Ask(f.what, c, s)
                 \/ f.what = "channels" /\ f.channel = Nothing
         /\ D(b)!Ask("channels", Nothing, s) \in D(b)!SyncRequests(c, s)
         /\ D(b)!Ask("channels", Nothing, s).what = "channels"
         /\ \A p \in D(b)!Panels :
              /\ D(b)!Ask(p, c, s) \in D(b)!SyncRequests(c, s)
              /\ D(b)!Ask(p, c, s).what = p /\ D(b)!Ask(p, c, s).channel = c
              /\ D(b)!Ask(p, c, s).sync = s
BY DEF D!SyncRequests, D!Ask

(* The requests that are asked for have the types of requests.             *)
LEMMA AskedTyped ==
  ASSUME NEW b, NEW c \in D(b)!MaybeChannel, NEW s \in Nat
  PROVE  /\ D(b)!SyncRequests(c, s) \subseteq D(b)!Flight
         /\ \A w \in D(b)!Panels \cup {"channels", "change"} : D(b)!Ask(w, c, s) \in
              D(b)!Flight
         /\ D(b)!Ask("channels", Nothing, s) \in D(b)!Flight
         /\ \A k \in {"landing", "plain", "select"} :
              [sync |-> s, kind |-> k, channel |-> c] \in D(b)!Waiting
BY DEF D!SyncRequests, D!Ask, D!Flight, D!MaybeChannel, D!Waiting

(* A request is the last of at most one sync.                              *)
LEMMA DoneIsOne ==
  ASSUME NEW b, Awaited(b), NEW f \in flights
  PROVE  /\ D(b)!Done(f) \subseteq pending
         /\ D(b)!Done(f) = {} \/ \E w \in pending : D(b)!Done(f) = {w}
         /\ D(b)!Done(f) # {} => /\ f.what \notin {"current", "change"}
                                   /\ \A g \in flights \ {f} : g.sync # f.sync
         /\ \A w \in pending \ D(b)!Done(f) : \E g \in flights \ {f} : g.sync = w.sync
<1>1. \A w \in pending : \E g \in flights : g.sync = w.sync
  BY DEF Awaited
<1>2. \A w \in D(b)!Done(f) : /\ w \in pending /\ w.sync = f.sync
                                /\ ~\E g \in flights \ {f} : g.sync = w.sync
  BY DEF D!Done
<1>3. \A w \in pending : w.sync = f.sync =>
        /\ f.what \notin {"current", "change"}
        /\ \A v \in pending : v.sync = w.sync => v = w
  BY DEF Awaited
<1>4. \A w \in pending \ D(b)!Done(f) : w.sync = f.sync =>
                                      \E g \in flights \ {f} : g.sync = w.sync
  BY DEF D!Done
<1>5. \A v, w \in D(b)!Done(f) : v = w
  BY <1>2, <1>3
<1> QED BY <1>1, <1>2, <1>3, <1>4, <1>5

(* A selection that ends sets the interval, another sync none.             *)
LEMMA FinishSets ==
  ASSUME NEW b, D(b)!TypeOK, Awaited(b), NEW f \in flights, D(b)!Finish(f)
  PROVE  /\ modal' \in BOOLEAN /\ handle' \in Nat
         /\ timers' \subseteq Nat \X D(b)!MaybeChannel
         /\ \/ /\ \A w \in D(b)!Done(f) : w.kind # "select"
               /\ UNCHANGED <<timers, handle>>
            \/ \E w \in Selects : /\ D(b)!Done(f) = {w} /\ handle' = w.sync
                                  /\ timers' = timers \cup {<<w.sync, w.channel>>}
<1>1. CASE D(b)!Done(f) = {}
  BY <1>1 DEF D!Finish, D!TypeOK
<1>2. CASE \E w \in pending : D(b)!Done(f) = {w}
  <2>1. PICK w \in pending : D(b)!Done(f) = {w}
    BY <1>2
  <2>2. D(b)!Synced(w) /\ w \in D(b)!Waiting
    BY <2>1 DEF D!Finish, D!TypeOK
  <2>3. CASE w.kind = "select"
    <3>1. /\ modal' = FALSE /\ handle' = w.sync
          /\ timers' = timers \cup {<<w.sync, w.channel>>}
      BY <2>2, <2>3 DEF D!Synced
    <3>2. w.sync \in Nat /\ w.channel \in D(b)!MaybeChannel /\ w \in Selects
      BY <2>1, <2>2, <2>3 DEF D!Waiting, Selects
    <3>3. timers' \subseteq Nat \X D(b)!MaybeChannel
      BY <3>1, <3>2 DEF D!TypeOK
    <3> QED BY <2>1, <3>1, <3>2, <3>3
  <2>4. CASE w.kind # "select"
    BY <2>1, <2>2, <2>4 DEF D!Synced, D!TypeOK
  <2> QED BY <2>3, <2>4
<1> QED BY <1>1, <1>2, DoneIsOne

(* Requests that are kept and new ones, of syncs of their own, keep the    *)
(* structure.                                                              *)
LEMMA AwaitedKept ==
  ASSUME NEW b, D(b)!TypeOK, Awaited(b), NEW kept \in SUBSET flights,
         NEW waits \in SUBSET pending,
         \A w \in waits : \E g \in kept : g.sync = w.sync,
         NEW asked, NEW begun, flights' = kept \cup asked, pending' = waits \cup begun,
         syncs' \in Nat, syncs <= syncs',
         \A g \in asked :
           /\ g.sync \in Nat /\ syncs < g.sync /\ g.sync <= syncs'
           /\ g.what = "change" => g.channel \in Dashboards[b].Channels,
         \A w \in begun :
           /\ w.sync \in Nat /\ syncs < w.sync /\ w.sync <= syncs'
           /\ w.kind = "select" => w.channel \in Dashboards[b].Channels
           /\ \E g \in asked : g.sync = w.sync
           /\ \A g \in asked : g.sync = w.sync => g.what \notin {"current", "change"}
           /\ \A v \in begun : v = w
  PROVE  Awaited(b)'
<1> USE DEF Awaited
<1>1. /\ syncs \in Nat
      /\ \A f \in flights : f.sync \in Nat /\ f.sync <= syncs
      /\ \A w \in pending : w.sync \in Nat /\ w.sync <= syncs
  BY DEF D!TypeOK, D!Flight, D!Waiting
<1>2. ASSUME NEW f \in flights'
      PROVE  f.sync <= syncs' /\ (f.what = "change" => f.channel \in Dashboards[b].Channels)
  <2>1. CASE f \in kept
    <3>1. f \in flights
      BY <2>1
    <3> QED BY <1>1, <3>1
  <2>2. CASE f \in asked
    BY <2>2
  <2> QED BY <1>2, <2>1, <2>2
<1>3. ASSUME NEW w \in waits
      PROVE  /\ w.sync <= syncs'
                /\ (w.kind = "select" => w.channel \in Dashboards[b].Channels)
             /\ \E f \in flights' : f.sync = w.sync
             /\ \A f \in flights' : f.sync = w.sync => f.what \notin {"current", "change"}
             /\ \A v \in pending' : v.sync = w.sync => v = w
  <2>1. w \in pending /\ w.sync \in Nat /\ w.sync <= syncs
    BY <1>1
  <2>2. \A f \in asked : f.sync # w.sync
    BY <1>1, <2>1
  <2>3. \A v \in begun : v.sync # w.sync
    BY <1>1, <2>1
  <2> QED BY <1>1, <2>1, <2>2, <2>3
<1>4. ASSUME NEW w \in begun
      PROVE  /\ w.sync <= syncs'
                /\ (w.kind = "select" => w.channel \in Dashboards[b].Channels)
             /\ \E f \in flights' : f.sync = w.sync
             /\ \A f \in flights' : f.sync = w.sync => f.what \notin {"current", "change"}
             /\ \A v \in pending' : v.sync = w.sync => v = w
  <2>1. w.sync \in Nat /\ syncs < w.sync
    OBVIOUS
  <2>2. \A f \in kept : f.sync # w.sync
    BY <1>1, <2>1
  <2>3. \A v \in waits : v.sync # w.sync
    BY <1>1, <2>1
  <2> QED BY <2>1, <2>2, <2>3
<1> QED BY <1>2, <1>3, <1>4 DEF Awaited

(* So does a request that is answered.                                     *)
LEMMA RemovalAwaited ==
  ASSUME NEW b, D(b)!TypeOK, Awaited(b), NEW f \in flights, flights' = flights \ {f},
         pending' = pending \ D(b)!Done(f), syncs' = syncs
  PROVE  Awaited(b)'
<1>1. \A w \in pending' : w \in pending /\ \E g \in flights' : g.sync = w.sync
  BY DoneIsOne
<1> QED BY <1>1 DEF Awaited

(* Before the channel is known nothing is shown.                           *)
LEMMA DashboardInit ==
  ASSUME NEW b
  PROVE  D(b)!DashboardParameters /\ D(b)!Init => DashboardInv(b)
<1> SUFFICES ASSUME D(b)!DashboardParameters, D(b)!Init PROVE DashboardInv(b)
  OBVIOUS
<1>1. D(b)!Ask("current", Nothing, 0) \in D(b)!Flight
  BY DEF D!Ask, D!Flight, D!MaybeChannel
<1>2. D(b)!TypeOK
  <2>1. 0 \in 0 .. Dashboards[b].MaxSelections /\ 0 \in 0 .. Dashboards[b].MaxTicks
        /\ 0 \in 0 .. Dashboards[b].MaxFails
    BY DEF D!DashboardParameters
  <2>2. flights \subseteq D(b)!Flight /\ pending \subseteq D(b)!Waiting
    BY <1>1 DEF D!Init
  <2>3. panel \in [D(b)!Panels -> D(b)!MaybeChannel] /\ Nothing \in D(b)!MaybeChannel
    BY DEF D!Init, D!MaybeChannel
  <2> QED BY <2>1, <2>2, <2>3 DEF D!Init, D!TypeOK
<1>3. Awaited(b) /\ Pages(b)
  BY DEF D!Init, D!Ask, Awaited, Pages
<1>4. HeaderWillAgree /\ IntervalOrSelection(b) /\ AllComes(b) /\ TimelineWillAgree(b)
  BY DEF D!Init, HeaderWillAgree, IntervalOrSelection, AllComes, TimelineWillAgree
<1> QED BY <1>2, <1>3, <1>4 DEF DashboardInv

(* An answer to LandingPage, and its timeout, keep types and structure.    *)
LEMMA LandingStructure ==
  ASSUME NEW b, D(b)!DashboardParameters, D(b)!TypeOK, Awaited(b), Pages(b),
         NEW f \in flights,
         D(b)!AnswerCurrent(f) \/ D(b)!AnswerLanding(f)
  PROVE  D(b)!TypeOK' /\ Awaited(b)' /\ Pages(b)'
<1>0. /\ syncs \in Nat /\ syncs + 1 \in Nat /\ fails \in 0 .. Dashboards[b].MaxFails
      /\ Dashboards[b].MaxFails \in Nat
      /\ current \in D(b)!MaybeChannel /\ Dashboards[b].First \in Dashboards[b].Channels
      /\ Nothing \notin Dashboards[b].Channels
      /\ f \in D(b)!Flight
  BY DEF D!TypeOK, D!DashboardParameters
<1>1. CASE D(b)!AnswerCurrent(f)
  <2>1. /\ page = "start" /\ flights = {f} /\ pending = {}
    BY <1>1 DEF D!AnswerCurrent, Pages
  <2>2. current' \in D(b)!MaybeChannel /\ fails' \in 0 .. Dashboards[b].MaxFails
          /\ (fails' = 0 => current' \in Dashboards[b].Channels)
    BY <1>0, <1>1 DEF D!AnswerCurrent, D!MaybeChannel
  <2> DEFINE w == [sync |-> syncs + 1, kind |-> "landing", channel |-> current']
  <2>3. /\ page' = "landing" /\ syncs' = syncs + 1 /\ pending' = {w}
        /\ flights' = D(b)!SyncRequests(current', syncs + 1)
    BY <1>1, <2>1 DEF D!AnswerCurrent
  <2>4. flights' \subseteq D(b)!Flight /\ w \in D(b)!Waiting
    BY <1>0, <2>2, <2>3, AskedTyped
  <2>5. /\ \A g \in flights' : g.sync = syncs + 1 /\ g.what \notin {"current", "change"}
        /\ flights' # {}
    BY <2>3, SyncAsks DEF D!DashboardParameters
  <2>6. D(b)!TypeOK'
    BY <1>0, <1>1, <2>2, <2>3, <2>4 DEF D!AnswerCurrent, D!TypeOK, D!header
  <2>7. Awaited(b)'
    BY <1>0, <2>3, <2>5 DEF Awaited
  <2>8. selections' = selections /\ selections = 0
    BY <1>1, <2>1 DEF D!AnswerCurrent, Pages
  <2> QED BY <2>2, <2>3, <2>5, <2>6, <2>7, <2>8 DEF Pages
<1>2. CASE D(b)!AnswerLanding(f)
  <2>1. /\ flights' = flights \ {f} /\ pending' = pending \ D(b)!Done(f)
        /\ UNCHANGED <<current, modal, syncs, overlaps, selections, ticks>>
        /\ page = "landing"
    BY <1>2 DEF D!AnswerLanding
  <2>2. fails' \in 0 .. Dashboards[b].MaxFails /\ (fails' = 0 => fails = 0)
    BY <1>0, <1>2 DEF D!AnswerLanding
  <2>3. panel' \in [D(b)!Panels -> D(b)!MaybeChannel] /\ channelsKnown' \in BOOLEAN
    <3>1. D(b)!Stored(f) \in [D(b)!Panels -> D(b)!MaybeChannel]
      BY <1>0 DEF D!Stored, D!TypeOK, D!Flight
    <3> QED BY <1>2, <3>1 DEF D!AnswerLanding, D!TypeOK
  <2>4. /\ page' \in {"landing", "dashboard", "broken"} /\ dbError' \in BOOLEAN
        /\ stateChannel' \in D(b)!MaybeChannel /\ selected' \in D(b)!MaybeChannel
        /\ timers' \subseteq Nat \X D(b)!MaybeChannel /\ handle' \in Nat
        /\ timeline' \in D(b)!MaybeChannel
        /\ D(b)!Done(f) = {} => page' = "landing"
        /\ D(b)!Done(f) # {} => page' # "landing"
    <3>1. CASE D(b)!Done(f) = {}
      BY <1>2, <2>1, <3>1 DEF D!AnswerLanding, D!TypeOK
    <3>2. CASE D(b)!Done(f) # {} /\ ~channelsKnown'
      BY <1>2, <3>2 DEF D!AnswerLanding, D!Mount, D!TypeOK
    <3>3. CASE D(b)!Done(f) # {} /\ channelsKnown'
      <4>1. /\ page' = "dashboard" /\ stateChannel' = current /\ selected' = current
            /\ timers' = {<<0, current>>} /\ handle' = 0
            /\ dbError' = (\E p \in Dashboards[b].OtherPanels : panel'[p] = Nothing)
            /\ timeline' = panel'["activity"]
        BY <1>2, <3>3 DEF D!AnswerLanding, D!Mount, D!DashboardMounts
      <4>2. timeline' \in D(b)!MaybeChannel
        BY <2>3, <4>1 DEF D!DashboardParameters, D!Panels
      <4>3. dbError' \in BOOLEAN
        BY <4>1
      <4> QED BY <1>0, <3>3, <4>1, <4>2, <4>3
    <3> QED BY <3>1, <3>2, <3>3
  <2>5. D(b)!TypeOK'
    BY <2>1, <2>2, <2>3, <2>4 DEF D!TypeOK
  <2>6. Awaited(b)'
    BY <1>0, <2>1, RemovalAwaited
  <2>7. Pages(b)'
    <3>1. PICK w \in pending : pending = {w} /\ w.kind = "landing"
      BY <2>1 DEF Pages
    <3>2. D(b)!Done(f) # {} => pending' = {}
      BY <2>1, <3>1, DoneIsOne
    <3> QED BY <2>1, <2>2, <2>4, <3>1, <3>2 DEF Pages
  <2> QED BY <2>5, <2>6, <2>7
<1> QED BY <1>1, <1>2

(* So do answers to the dashboard, and requests of it that fail.           *)
LEMMA DashboardAnswerStructure ==
  ASSUME NEW b, D(b)!DashboardParameters, D(b)!TypeOK, Awaited(b), Pages(b),
         NEW f \in flights,
         \/ D(b)!AnswerPanel(f) \/ D(b)!AnswerChannels(f) \/ D(b)!AnswerChange(f)
         \/ D(b)!FailRequest(f)
  PROVE  D(b)!TypeOK' /\ Awaited(b)' /\ Pages(b)'
<1>0. /\ syncs \in Nat /\ syncs + 1 \in Nat /\ fails \in 0 .. Dashboards[b].MaxFails
      /\ Dashboards[b].MaxFails \in Nat
      /\ current \in D(b)!MaybeChannel /\ Dashboards[b].Last \in Dashboards[b].Channels
      /\ Dashboards[b].Last \in D(b)!MaybeChannel
      /\ f \in D(b)!Flight /\ f.channel \in D(b)!MaybeChannel /\ page = "dashboard"
      /\ panel["activity"] \in D(b)!MaybeChannel
  BY DEF D!TypeOK, D!DashboardParameters, D!Flight, D!MaybeChannel, D!AnswerPanel,
     D!AnswerChannels, D!AnswerChange, D!FailRequest, D!Panels
<1>1. CASE D(b)!AnswerPanel(f)
  <2>1. Awaited(b)'
    BY <1>1, RemovalAwaited DEF D!AnswerPanel
  <2>2. D(b)!Stored(f) \in [D(b)!Panels -> D(b)!MaybeChannel]
    BY <1>0 DEF D!Stored, D!TypeOK
  <2>3. D(b)!TypeOK'
    BY <1>0, <1>1, <2>2, FinishSets DEF D!AnswerPanel, D!TypeOK, D!counts,
       D!DashboardReceives
  <2>4. Pages(b)'
    BY <1>0, <1>1, DoneIsOne DEF D!AnswerPanel, D!counts, Pages
  <2> QED BY <2>1, <2>3, <2>4
<1>2. CASE D(b)!FailRequest(f)
  <2>1. Awaited(b)'
    BY <1>2, RemovalAwaited DEF D!FailRequest
  <2>2. fails' \in 0 .. Dashboards[b].MaxFails /\ fails' # 0
    BY <1>0, <1>2 DEF D!FailRequest
  <2>3. D(b)!TypeOK'
    BY <1>0, <1>2, <2>2, FinishSets DEF D!FailRequest, D!TypeOK, D!store
  <2>4. Pages(b)'
    BY <1>0, <1>2, <2>2, DoneIsOne DEF D!FailRequest, D!store, Pages
  <2> QED BY <2>1, <2>3, <2>4
<1>3. CASE D(b)!AnswerChannels(f)
  <2> DEFINE kept == flights \ {f}
             waits == pending \ D(b)!Done(f)
             asked == IF current = Nothing
               THEN {D(b)!Ask("change", Dashboards[b].Last, syncs + 1)} ELSE {}
             begun == {w \in pending : FALSE}
  <2>1. /\ flights' = kept \cup asked /\ pending' = waits \cup begun
        /\ selected' = IF current = Nothing THEN Dashboards[b].Last ELSE current
        /\ syncs' \in {syncs, syncs + 1} /\ (current = Nothing => syncs' = syncs + 1)
        /\ stateChannel' = current /\ D(b)!Finish(f) /\ timeline' = panel["activity"]
        /\ UNCHANGED <<page, dbError, D(b)!store, overlaps, D(b)!counts>>
    BY <1>3 DEF D!AnswerChannels, D!DashboardReceives
  <2>2. kept \in SUBSET flights /\ waits \in SUBSET pending
    OBVIOUS
  <2>3. \A w \in waits : \E g \in kept : g.sync = w.sync
    BY DoneIsOne
  <2>4. syncs' \in Nat /\ syncs <= syncs'
    BY <1>0, <2>1
  <2>5. \A g \in asked :
          /\ g \in D(b)!Flight /\ g.sync = syncs + 1 /\ current = Nothing
          /\ g.what = "change" /\ g.channel \in Dashboards[b].Channels
    <3>1. D(b)!Ask("change", Dashboards[b].Last, syncs + 1) \in D(b)!Flight
      BY <1>0, AskedTyped
    <3> QED BY <1>0, <3>1 DEF D!Ask
  <2>6. \A w \in begun : FALSE
    OBVIOUS
  <2>7. Awaited(b)'
    <3> HIDE DEF kept, waits, asked, begun
    <3>1. \A g \in asked :
            /\ g.sync \in Nat /\ syncs < g.sync /\ g.sync <= syncs'
            /\ g.what = "change" => g.channel \in Dashboards[b].Channels
      BY <1>0, <2>1, <2>5
    <3> QED BY <2>1, <2>2, <2>3, <2>4, <2>6, <3>1, AwaitedKept
  <2>8. D(b)!TypeOK'
    <3>1. flights' \subseteq D(b)!Flight /\ pending' \subseteq D(b)!Waiting
      BY <2>1, <2>5 DEF D!TypeOK
    <3> QED BY <1>0, <2>1, <2>4, <3>1, FinishSets DEF D!TypeOK, D!counts, D!store
  <2>9. Pages(b)'
    BY <1>0, <2>1, <2>5 DEF Pages, D!counts, D!store
  <2> QED BY <2>7, <2>8, <2>9
<1>4. CASE D(b)!AnswerChange(f)
  <2>1. /\ current' = f.channel /\ f.channel \in Dashboards[b].Channels
        /\ UNCHANGED <<page, dbError, panel, channelsKnown, modal, timers, handle, overlaps,
                       D(b)!counts>>
    BY <1>4 DEF D!AnswerChange, Awaited
  <2>2. CASE f.channel = current
    <3>1. /\ flights' = flights \ {f}
          /\ UNCHANGED <<stateChannel, selected, timeline, syncs, pending>>
      BY <1>4, <2>2 DEF D!AnswerChange
    <3>2. D(b)!Done(f) = {}
      BY <1>4, DoneIsOne DEF D!AnswerChange
    <3>3. Awaited(b)'
      BY <3>1, <3>2, RemovalAwaited
    <3>4. D(b)!TypeOK'
      BY <1>0, <2>1, <3>1 DEF D!TypeOK, D!counts
    <3>5. Pages(b)'
      BY <1>0, <2>1, <3>1 DEF Pages, D!counts
    <3> QED BY <3>3, <3>4, <3>5
  <2>3. CASE f.channel # current
    <3> DEFINE kept == flights \ {f}
               asked == D(b)!SyncRequests(f.channel, syncs + 1)
               w == [sync |-> syncs + 1, kind |-> "plain", channel |-> f.channel]
    <3>1. /\ flights' = kept \cup asked /\ pending' = pending \cup {w}
          /\ syncs' = syncs + 1 /\ selected' = f.channel /\ stateChannel' = current
          /\ timeline' = panel["activity"]
      BY <1>4, <2>3 DEF D!AnswerChange, D!HeaderReceives, D!DashboardReceives
    <3>2. \A v \in pending : \E g \in kept : g.sync = v.sync
      <4>1. D(b)!Done(f) = {}
        BY <1>4, DoneIsOne DEF D!AnswerChange
      <4> QED BY <4>1, DoneIsOne
    <3>3. /\ \A g \in asked : /\ g.sync = syncs + 1 /\ g.what \notin {"current", "change"}
                              /\ g \in D(b)!Flight
          /\ \E g \in asked : g.sync = syncs + 1
      <4>1. asked \subseteq D(b)!Flight
        BY <1>0, AskedTyped
      <4>2. \A g \in asked :
              g.sync = syncs + 1 /\ (g.what \in D(b)!Panels \/ g.what = "channels")
        BY SyncAsks
      <4>3. D(b)!Ask("channels", Nothing, syncs + 1) \in asked
        BY SyncAsks
      <4>4. {"current", "change"} \cap D(b)!Panels = {}
        BY DEF D!DashboardParameters
      <4> HIDE DEF asked
      <4>5. \A g \in asked : g.what \notin {"current", "change"}
        BY <4>2, <4>4
      <4>6. \E g \in asked : g.sync = syncs + 1
        BY <1>0, <4>2, <4>3
      <4> QED BY <1>0, <4>1, <4>2, <4>5, <4>6
    <3>4. w \in D(b)!Waiting /\ w.sync = syncs + 1 /\ w.kind = "plain"
      BY <1>0, AskedTyped
    <3>5. Awaited(b)'
      <4>1. kept \in SUBSET flights /\ pending \in SUBSET pending
        OBVIOUS
      <4> HIDE DEF kept, asked, w
      <4>2. syncs' \in Nat /\ syncs <= syncs' /\ syncs < syncs + 1
        BY <1>0, <3>1
      <4>3. \A g \in asked :
              /\ g.sync \in Nat /\ syncs < g.sync /\ g.sync <= syncs'
              /\ g.what = "change" => g.channel \in Dashboards[b].Channels
        BY <1>0, <3>1, <3>3, <4>2
      <4> DEFINE begun == {w}
      <4>4. \A v \in begun :
              /\ v.sync \in Nat /\ syncs < v.sync /\ v.sync <= syncs'
              /\ v.kind = "select" => v.channel \in Dashboards[b].Channels
              /\ \E g \in asked : g.sync = v.sync
              /\ \A g \in asked : g.sync = v.sync => g.what \notin {"current", "change"}
              /\ \A u \in begun : u = v
        <5>1. \A g \in asked : g.sync = w.sync => g.what \notin {"current", "change"}
          BY <3>3
        <5>2. \E g \in asked : g.sync = w.sync
          BY <3>3, <3>4
        <5> QED BY <1>0, <3>1, <3>4, <4>2, <5>1, <5>2
      <4>5. pending' = pending \cup begun
        BY <3>1
      <4> HIDE DEF begun
      <4> QED BY <3>1, <3>2, <4>1, <4>2, <4>3, <4>4, <4>5, AwaitedKept
    <3>6. D(b)!TypeOK'
      <4>1. flights' \subseteq D(b)!Flight /\ pending' \subseteq D(b)!Waiting
        BY <3>1, <3>3, <3>4 DEF D!TypeOK
      <4> QED BY <1>0, <2>1, <3>1, <4>1 DEF D!TypeOK, D!counts
    <3>7. Pages(b)'
      BY <1>0, <2>1, <3>1, <3>3, <3>4 DEF Pages, D!counts
    <3> QED BY <3>5, <3>6, <3>7
  <2> QED BY <2>2, <2>3
<1> QED BY <1>1, <1>2, <1>3, <1>4

(* Requests that a step asks for, and the sync it begins with them.        *)
Asking(b, asked) ==
  /\ syncs' \in Nat /\ syncs <= syncs'
  /\ \A g \in asked :
       /\ g \in D(b)!Flight /\ syncs < g.sync /\ g.sync <= syncs' /\ g.what # "current"
       /\ g.what = "change" => g.channel \in Dashboards[b].Channels

Beginning(b, asked, begun) ==
  \A w \in begun :
    /\ w \in D(b)!Waiting /\ syncs < w.sync /\ w.sync <= syncs' /\ w.kind # "landing"
    /\ w.kind = "select" => w.channel \in Dashboards[b].Channels
    /\ \E g \in asked : g.sync = w.sync
    /\ \A g \in asked : g.sync = w.sync => g.what \notin {"current", "change"}
    /\ \A v \in begun : v = w

(* So does a step of the dashboard that asks for more.                     *)
LEMMA MoreAsked ==
  ASSUME NEW b, D(b)!TypeOK, Awaited(b), Pages(b), page = "dashboard", NEW asked, NEW begun,
         flights' = flights \cup asked, pending' = pending \cup begun,
         page' = page, current' = current, fails' = fails,
         Asking(b, asked), Beginning(b, asked, begun)
  PROVE  /\ Awaited(b)' /\ Pages(b)'
         /\ flights' \subseteq D(b)!Flight /\ pending' \subseteq D(b)!Waiting
<1> USE DEF Asking, Beginning
<1>1. \A g \in asked : g.sync \in Nat
  BY DEF D!Flight
<1>2. \A w \in begun : w.sync \in Nat
  BY DEF D!Waiting
<1>3. \A w \in pending : \E g \in flights : g.sync = w.sync
  BY DEF Awaited
<1>4. Awaited(b)'
  <2>1. flights \in SUBSET flights /\ pending \in SUBSET pending
    OBVIOUS
  <2> QED BY <1>1, <1>2, <1>3, <2>1, AwaitedKept
<1>5. page' = "dashboard" /\ current' = current /\ fails' = fails
  OBVIOUS
<1>6. \A w \in pending' : w.kind # "landing"
  BY DEF Pages
<1>7. \A g \in flights' : g.what # "current"
  BY DEF Pages
<1>8. Pages(b)'
  BY <1>5, <1>6, <1>7 DEF Pages
<1>9. flights' \subseteq D(b)!Flight /\ pending' \subseteq D(b)!Waiting
  BY DEF D!TypeOK
<1> QED BY <1>4, <1>8, <1>9

(* A sync that is begun, and a selection.                                  *)
LEMMA AskingStructure ==
  ASSUME NEW b, D(b)!DashboardParameters, D(b)!TypeOK, Awaited(b), Pages(b),
         \/ \E c \in Dashboards[b].Channels : D(b)!HandleChange(c)
         \/ \E c \in D(b)!MaybeChannel : D(b)!SyncData(c)
         \/ D(b)!ChartTick \/ D(b)!ReloadChannels
  PROVE  D(b)!TypeOK' /\ Awaited(b)' /\ Pages(b)'
<1>0. /\ syncs \in Nat /\ syncs + 1 \in Nat /\ syncs + 2 \in Nat
      /\ syncs < syncs + 1 /\ syncs < syncs + 2 /\ syncs + 1 < syncs + 2
      /\ ticks \in 0 .. Dashboards[b].MaxTicks
      /\ selections \in 0 .. Dashboards[b].MaxSelections
      /\ Dashboards[b].MaxTicks \in Nat /\ Dashboards[b].MaxSelections \in Nat
      /\ overlaps \in Nat
      /\ current \in D(b)!MaybeChannel /\ page = "dashboard"
      /\ {"channels", "current", "change"} \cap D(b)!Panels = {}
  BY DEF D!TypeOK, D!DashboardParameters, D!HandleChange, D!SyncData, D!ChartTick,
     D!ReloadChannels
<1>1. ASSUME NEW c \in Dashboards[b].Channels,
             D(b)!HandleChange(c) PROVE D(b)!TypeOK' /\ Awaited(b)' /\ Pages(b)'
  <2> DEFINE asked ==
               {D(b)!Ask("change", c, syncs + 1)} \cup D(b)!SyncRequests(c, syncs + 2)
             w == [sync |-> syncs + 2, kind |-> "select", channel |-> c]
             begun == {w}
  <2>1. /\ flights' = flights \cup asked /\ pending' = pending \cup begun
        /\ syncs' = syncs + 2 /\ selections' = selections + 1
        /\ selections < Dashboards[b].MaxSelections
        /\ overlaps' \in {overlaps, overlaps + 1} /\ modal' = TRUE /\ selected' = c
        /\ timers' \subseteq timers
        /\ UNCHANGED <<page, dbError, current, panel, channelsKnown, stateChannel, handle,
                       timeline, ticks, fails>>
    BY <1>1 DEF D!HandleChange, D!store
  <2>2. c \in D(b)!MaybeChannel
    BY DEF D!MaybeChannel
  <2>3. \A g \in asked :
          /\ g \in D(b)!Flight /\ g.sync \in {syncs + 1, syncs + 2}
          /\ g.what # "current"
             /\ (g.what = "change" => g.channel \in Dashboards[b].Channels)
          /\ g.sync = syncs + 2 => g.what # "change"
    <3>1. /\ D(b)!Ask("change", c, syncs + 1) \in D(b)!Flight
          /\ D(b)!SyncRequests(c, syncs + 2) \subseteq D(b)!Flight
      BY <1>0, <2>2, AskedTyped
    <3>2. \A g \in D(b)!SyncRequests(c, syncs + 2) :
            g.sync = syncs + 2 /\ (g.what \in D(b)!Panels \/ g.what = "channels")
      BY SyncAsks
    <3>3. /\ D(b)!Ask("change", c, syncs + 1).what = "change"
          /\ D(b)!Ask("change", c, syncs + 1).channel = c
          /\ D(b)!Ask("change", c, syncs + 1).sync = syncs + 1
      BY DEF D!Ask
    <3> QED BY <1>0, <3>1, <3>2, <3>3
  <2>4. \E g \in asked : g.sync = syncs + 2
    BY SyncAsks
  <2>5. w \in D(b)!Waiting /\ w.sync = syncs + 2 /\ w.kind = "select" /\ w.channel = c
    BY <1>0, <2>2, AskedTyped
  <2> HIDE DEF asked, w
  <2>6. \A g \in asked : syncs < g.sync /\ g.sync <= syncs'
    BY <1>0, <2>1, <2>3
  <2>7. Asking(b, asked) /\ Beginning(b, asked, begun)
    BY <1>0, <2>1, <2>3, <2>4, <2>5, <2>6 DEF Asking, Beginning
  <2>8. selections' \in 0 .. Dashboards[b].MaxSelections /\ selections' \in Nat
    BY <1>0, <2>1
  <2> HIDE DEF begun
  <2>9. Awaited(b)' /\ Pages(b)' /\ flights' \subseteq D(b)!Flight
        /\ pending' \subseteq D(b)!Waiting
    BY <1>0, <2>1, <2>7, MoreAsked
  <2> QED BY <1>0, <2>1, <2>2, <2>8, <2>9 DEF D!TypeOK
<1>2. ASSUME NEW c \in D(b)!MaybeChannel,
             D(b)!SyncData(c) PROVE D(b)!TypeOK' /\ Awaited(b)' /\ Pages(b)'
  <2> DEFINE asked == D(b)!SyncRequests(c, syncs + 1)
             w == [sync |-> syncs + 1, kind |-> "plain", channel |-> c]
             begun == {w}
  <2>1. /\ flights' = flights \cup asked /\ pending' = pending \cup begun
        /\ syncs' = syncs + 1 /\ ticks' = ticks + 1 /\ ticks < Dashboards[b].MaxTicks
        /\ UNCHANGED <<page, dbError, current, panel, channelsKnown, stateChannel, selected,
                       modal, timers, handle, timeline, overlaps, selections, fails>>
    BY <1>2 DEF D!SyncData, D!store, D!header
  <2>2. asked \subseteq D(b)!Flight
    BY <1>0, AskedTyped
  <2>3. \A g \in asked : g.sync = syncs + 1
          /\ (g.what \in D(b)!Panels \/ g.what = "channels")
    BY SyncAsks
  <2>4. \E g \in asked : g.sync = syncs + 1
    BY SyncAsks
  <2>5. w \in D(b)!Waiting /\ w.sync = syncs + 1 /\ w.kind = "plain"
    BY <1>0, AskedTyped
  <2> HIDE DEF asked, w
  <2>6. \A g \in asked : /\ g \in D(b)!Flight /\ syncs < g.sync /\ g.sync <= syncs'
                         /\ g.what \notin {"current", "change"}
    BY <1>0, <2>1, <2>2, <2>3
  <2>7. Asking(b, asked) /\ Beginning(b, asked, begun)
    BY <1>0, <2>1, <2>4, <2>5, <2>6 DEF Asking, Beginning
  <2>8. ticks' \in 0 .. Dashboards[b].MaxTicks
    BY <1>0, <2>1
  <2> HIDE DEF begun
  <2>9. Awaited(b)' /\ Pages(b)' /\ flights' \subseteq D(b)!Flight
        /\ pending' \subseteq D(b)!Waiting
    BY <1>0, <2>1, <2>7, MoreAsked
  <2> QED BY <1>0, <2>1, <2>8, <2>9 DEF D!TypeOK
<1>3. CASE D(b)!ChartTick \/ D(b)!ReloadChannels
  <2> DEFINE begun == {w \in pending : FALSE}
  <2>1. PICK asked :
          /\ flights' = flights \cup asked
          /\ \/ asked = {D(b)!Ask(p, current, syncs + 1) : p \in Dashboards[b].Charts}
             \/ asked = {D(b)!Ask("channels", Nothing, syncs + 1)}
    BY <1>3 DEF D!ChartTick, D!ReloadChannels
  <2>2. /\ pending' = pending \cup begun
        /\ syncs' = syncs + 1 /\ ticks' = ticks + 1 /\ ticks < Dashboards[b].MaxTicks
        /\ UNCHANGED <<page, dbError, current, panel, channelsKnown, stateChannel, selected,
                       modal, timers, handle, timeline, overlaps, selections, fails>>
    BY <1>3 DEF D!ChartTick, D!ReloadChannels, D!store, D!header
  <2>3. \A g \in asked : g \in D(b)!Flight /\ g.sync = syncs + 1 /\ g.what # "current"
                           /\ g.what # "change"
    <3>1. D(b)!Ask("channels", Nothing, syncs + 1) \in D(b)!Flight
      BY <1>0, AskedTyped
    <3>2. \A p \in Dashboards[b].Charts : D(b)!Ask(p, current, syncs + 1) \in D(b)!Flight
            /\ p \in D(b)!Panels
      BY <1>0, AskedTyped DEF D!Panels
    <3> QED BY <1>0, <2>1, <3>1, <3>2 DEF D!Ask
  <2>4. \A g \in asked : syncs < g.sync /\ g.sync <= syncs'
    BY <1>0, <2>2, <2>3
  <2>5. Asking(b, asked) /\ Beginning(b, asked, begun)
    BY <1>0, <2>2, <2>3, <2>4 DEF Asking, Beginning
  <2>6. ticks' \in 0 .. Dashboards[b].MaxTicks
    BY <1>0, <2>2
  <2> HIDE DEF begun
  <2>7. Awaited(b)' /\ Pages(b)' /\ flights' \subseteq D(b)!Flight
        /\ pending' \subseteq D(b)!Waiting
    BY <1>0, <2>1, <2>2, <2>5, MoreAsked
  <2> QED BY <1>0, <2>2, <2>6, <2>7 DEF D!TypeOK
<1> QED BY <1>1, <1>2, <1>3

(* The parts of the page that agree, or will.                              *)
Agreement(b) == HeaderWillAgree /\ IntervalOrSelection(b) /\ AllComes(b)
  /\ TimelineWillAgree(b)

(* The channel is known, and everything is asked for.                      *)
LEMMA LandingAgrees ==
  ASSUME NEW b, D(b)!DashboardParameters, DashboardInv(b), NEW f \in flights,
         D(b)!AnswerCurrent(f)
  PROVE  Agreement(b)'
<1>1. page' = "landing" /\ flights = {f}
      /\ flights' = D(b)!SyncRequests(current', syncs + 1)
  BY DEF D!AnswerCurrent, DashboardInv, Pages
<1>2. AllComes(b)'
  <2>1. \A p \in D(b)!Panels : \E g \in flights' : g.what = p
    BY <1>1, SyncAsks
  <2>2. \E g \in flights' : g.what = "channels"
    BY <1>1, SyncAsks
  <2>3. \A g \in flights' : g.what \in D(b)!Panels => g.channel = current'
    <3>1. "channels" \notin D(b)!Panels
      BY DEF D!DashboardParameters
    <3> QED BY <1>1, <3>1, SyncAsks
  <2> QED BY <1>1, <2>1, <2>2, <2>3 DEF AllComes
<1> QED BY <1>1, <1>2 DEF Agreement, HeaderWillAgree, IntervalOrSelection, TimelineWillAgree

(* The last answer to LandingPage finds the others in the store.           *)
LEMMA LastAnswer ==
  ASSUME NEW b, D(b)!DashboardParameters, DashboardInv(b), NEW f \in flights,
         D(b)!AnswerLanding(f),
         D(b)!Done(f) # {}
  PROVE  /\ flights' = {} /\ pending' = {}
         /\ fails' = 0 => channelsKnown' /\ \A p \in D(b)!Panels : panel'[p] = current
<1>1. /\ flights' = flights \ {f} /\ pending' = pending \ D(b)!Done(f) /\ page = "landing"
  BY DEF D!AnswerLanding
<1>2. PICK w \in pending : pending = {w} /\ \A g \in flights : g.sync = w.sync
  BY <1>1 DEF DashboardInv, Pages
<1>3. flights = {f} /\ D(b)!Done(f) = {w}
  BY <1>2, DoneIsOne DEF DashboardInv
<1>4. ASSUME fails' = 0 PROVE channelsKnown' /\ \A p \in D(b)!Panels : panel'[p] = current
  <2>1. fails = 0 /\ panel' = D(b)!Stored(f)
          /\ channelsKnown' = (channelsKnown \/ f.what = "channels")
    BY <1>4 DEF D!AnswerLanding, DashboardInv, D!TypeOK
  <2>2. /\ channelsKnown \/ f.what = "channels"
        /\ \A p \in D(b)!Panels : panel[p] = current \/ f.what = p
        /\ f.what \in D(b)!Panels => f.channel = current
    BY <1>1, <1>3, <2>1 DEF DashboardInv, AllComes
  <2>3. panel \in [D(b)!Panels -> D(b)!MaybeChannel]
    BY DEF DashboardInv, D!TypeOK
  <2> QED BY <2>1, <2>2, <2>3 DEF D!Stored
<1> QED BY <1>1, <1>2, <1>3, <1>4

(* The dashboard that is mounted agrees.                                   *)
LEMMA MountAgrees ==
  ASSUME NEW b, D(b)!DashboardParameters, DashboardInv(b), NEW f \in flights,
         D(b)!AnswerLanding(f)
  PROVE  Agreement(b)'
<1>1. /\ flights' = flights \ {f} /\ pending' = pending \ D(b)!Done(f)
      /\ UNCHANGED <<current, modal, syncs, overlaps, selections, ticks>>
      /\ page = "landing" /\ selections = 0
      /\ current \in D(b)!MaybeChannel /\ panel \in [D(b)!Panels -> D(b)!MaybeChannel]
  BY DEF D!AnswerLanding, DashboardInv, Pages, D!TypeOK
<1>2. fails' = 0 => /\ fails = 0 /\ panel' = D(b)!Stored(f)
                    /\ channelsKnown' = (channelsKnown \/ f.what = "channels")
                    /\ current \in Dashboards[b].Channels
  BY DEF D!AnswerLanding, DashboardInv, D!TypeOK, Pages
<1>3. CASE D(b)!Done(f) = {}
  <2>1. page' = "landing"
    BY <1>1, <1>3 DEF D!AnswerLanding
  <2>2. ASSUME fails' = 0
        PROVE  /\ channelsKnown' \/ \E g \in flights' : g.what = "channels"
               /\ \A p \in D(b)!Panels : panel'[p] = current
                    \/ \E g \in flights' : g.what = p
               /\ \A g \in flights' : g.what \in D(b)!Panels => g.channel = current
    <3>1. /\ channelsKnown \/ \E g \in flights : g.what = "channels"
          /\ \A p \in D(b)!Panels : panel[p] = current \/ \E g \in flights : g.what = p
          /\ \A g \in flights : g.what \in D(b)!Panels => g.channel = current
      BY <1>1, <1>2, <2>2 DEF DashboardInv, AllComes
    <3>2. channelsKnown' \/ \E g \in flights' : g.what = "channels"
      BY <1>1, <1>2, <2>2, <3>1
    <3>3. ASSUME NEW p \in D(b)!Panels
          PROVE  panel'[p] = current \/ \E g \in flights' : g.what = p
      <4>1. CASE f.what = p
        BY <1>1, <1>2, <2>2, <3>1, <4>1 DEF D!Stored
      <4>2. CASE f.what # p
        <5>1. panel'[p] = panel[p]
          BY <1>1, <1>2, <2>2, <4>2 DEF D!Stored
        <5> QED BY <1>1, <3>1, <4>2, <5>1
      <4> QED BY <4>1, <4>2
    <3> QED BY <1>1, <3>1, <3>2, <3>3
  <2>3. AllComes(b)'
    BY <1>1, <2>1, <2>2 DEF AllComes
  <2> QED BY <2>1, <2>3 DEF Agreement, HeaderWillAgree, IntervalOrSelection,
     TimelineWillAgree
<1>4. CASE D(b)!Done(f) # {} /\ ~channelsKnown'
  <2>1. page' = "broken"
    BY <1>4 DEF D!AnswerLanding, D!Mount
  <2> QED BY <2>1 DEF Agreement, HeaderWillAgree, IntervalOrSelection, TimelineWillAgree,
     AllComes
<1>5. CASE D(b)!Done(f) # {} /\ channelsKnown'
  <2>1. /\ page' = "dashboard" /\ stateChannel' = current /\ selected' = current
        /\ timers' = {<<0, current>>} /\ handle' = 0
        /\ dbError' = (\E p \in Dashboards[b].OtherPanels : panel'[p] = Nothing)
        /\ timeline' = panel'["activity"]
    BY <1>5 DEF D!AnswerLanding, D!Mount, D!DashboardMounts
  <2>2. flights' = {} /\ pending' = {}
    BY <1>5, LastAnswer
  <2>3. HeaderWillAgree'
    BY <1>1, <2>1 DEF HeaderWillAgree
  <2>4. IntervalOrSelection(b)'
    <3>1. Selects' = {} /\ Changes' = {}
      BY <2>2 DEF Selects, Changes
    <3>2. Heading(current)'
      BY <1>1, <3>1 DEF Heading
    <3>3. timers' = {<<handle', current>>} /\ current' = current
      BY <1>1, <2>1
    <3> QED BY <1>1, <3>1, <3>2, <3>3 DEF IntervalOrSelection, Heading, D!MaybeChannel
  <2>5. ASSUME fails' = 0
        PROVE  /\ \A p \in D(b)!Panels : panel'[p] = current /\ panel'[p] # Nothing
               /\ ~dbError' /\ current \in Dashboards[b].Channels /\ current # Nothing
               /\ timeline' = current /\ panel'["activity"] = current
    <3>1. \A p \in D(b)!Panels : panel'[p] = current
      BY <1>5, <2>5, LastAnswer
    <3>2. current \in Dashboards[b].Channels /\ current # Nothing
          /\ Dashboards[b].OtherPanels \subseteq D(b)!Panels
            /\ "activity" \in D(b)!Panels
      BY <1>2, <2>5 DEF D!DashboardParameters, D!Panels
    <3> QED BY <2>1, <3>1, <3>2
  <2>6. AllComes(b)'
    BY <1>5, <2>1, <2>2, <2>5 DEF AllComes
  <2>7. TimelineWillAgree(b)'
    BY <1>1, <2>1, <2>2, <2>5 DEF TimelineWillAgree
  <2> QED BY <2>3, <2>4, <2>6, <2>7 DEF Agreement
<1> QED BY <1>3, <1>4, <1>5

(* An answer, or a request that fails, ends a selection or leaves it and   *)
(* what it heads for.                                                      *)
LEMMA EndKeepsInterval ==
  ASSUME NEW b, D(b)!TypeOK, Awaited(b), IntervalOrSelection(b), NEW f \in flights,
         D(b)!Finish(f),
         f.what # "change", page = "dashboard", UNCHANGED <<current, overlaps>>,
         pending' = pending \ D(b)!Done(f),
         fails' = 0 => fails = 0 /\ Changes' = Changes
  PROVE  IntervalOrSelection(b)'
<1>1. \A c : fails' = 0 /\ (fails = 0 => Heading(c)) => Heading(c)'
  BY DEF Heading
<1> SUFFICES ASSUME overlaps = 0, page' = "dashboard"
             PROVE  \/ /\ Selects' = {}
                       /\ \E c \in D(b)!MaybeChannel' :
                            timers' = {<<handle', c>>} /\ (fails' = 0 => Heading(c)')
                    \/ /\ timers' = {}
                       /\ \E w \in pending' :
                            Selects' = {w} /\ (fails' = 0 => Heading(w.channel)')
  BY DEF IntervalOrSelection, Heading, D!MaybeChannel
<1>2. D(b)!MaybeChannel' = D(b)!MaybeChannel
  BY DEF D!MaybeChannel
<1>3. Selects' = Selects \ D(b)!Done(f)
  BY DEF Selects
<1>4. CASE /\ \A w \in D(b)!Done(f) : w.kind # "select"
           /\ UNCHANGED <<timers, handle>>
  <2>1. Selects' = Selects
    BY <1>3, <1>4 DEF Selects
  <2>2. \A w \in Selects : w \in pending'
    BY <1>4 DEF Selects
  <2> QED BY <1>1, <1>2, <1>4, <2>1, <2>2 DEF IntervalOrSelection
<1>5. CASE \E w \in Selects : /\ D(b)!Done(f) = {w} /\ handle' = w.sync
                              /\ timers' = timers \cup {<<w.sync, w.channel>>}
  <2>1. PICK w \in Selects : /\ D(b)!Done(f) = {w} /\ handle' = w.sync
                             /\ timers' = timers \cup {<<w.sync, w.channel>>}
    BY <1>5
  <2>2. timers = {} /\ Selects = {w} /\ (fails = 0 => Heading(w.channel))
    BY <2>1 DEF IntervalOrSelection
  <2>3. w.channel \in D(b)!MaybeChannel
    BY DEF Selects, D!TypeOK, D!Waiting
  <2> QED BY <1>1, <1>2, <1>3, <2>1, <2>2, <2>3
<1> QED BY <1>4, <1>5, FinishSets

(* Answers for panels and lists of channels keep what agrees or will.      *)
LEMMA AnswerAgrees ==
  ASSUME NEW b, D(b)!DashboardParameters, DashboardInv(b), NEW f \in flights,
         D(b)!AnswerPanel(f) \/ D(b)!AnswerChannels(f)
  PROVE  Agreement(b)'
<1>1. /\ D(b)!Finish(f) /\ pending' = pending \ D(b)!Done(f)
      /\ timeline' = panel["activity"]
      /\ UNCHANGED <<page, dbError, current, channelsKnown, overlaps, selections, ticks,
                     fails>>
      /\ f.what \in D(b)!Panels \/ f.what = "channels"
      /\ f.what # "change" /\ page = "dashboard"
      /\ current \in D(b)!MaybeChannel /\ panel \in [D(b)!Panels -> D(b)!MaybeChannel]
      /\ D(b)!TypeOK /\ Awaited(b)
      /\ "channels" \notin D(b)!Panels /\ "change" \notin D(b)!Panels
      /\ "activity" \in D(b)!Panels
  BY DEF D!AnswerPanel, D!AnswerChannels, D!DashboardReceives, D!counts, D!store,
     D!DashboardParameters, DashboardInv, D!TypeOK, D!Panels
<1>2. fails = 0 => /\ flights' = flights \ {f}
                   /\ current \in Dashboards[b].Channels /\ current # Nothing
                   /\ panel' = D(b)!Stored(f)
                   /\ \/ UNCHANGED <<stateChannel, selected>>
                      \/ stateChannel' = current /\ selected' = current
                   /\ f.what = "channels" => stateChannel' = current /\ selected' = current
  BY <1>1 DEF D!AnswerPanel, D!AnswerChannels, DashboardInv, Pages, D!DashboardParameters,
     D!Stored, D!store
<1>3. HeaderWillAgree'
  BY <1>1, <1>2 DEF HeaderWillAgree, DashboardInv
<1>4. IntervalOrSelection(b)'
  <2>1. fails = 0 => Changes' = Changes
    BY <1>1, <1>2 DEF Changes
  <2> QED BY <1>1, <2>1, EndKeepsInterval DEF DashboardInv
<1>5. AllComes(b)'
  <2> SUFFICES ASSUME fails = 0
               PROVE  /\ ~dbError' /\ channelsKnown' /\ stateChannel' # Nothing
                      /\ selected' # Nothing
                      /\ \A p \in D(b)!Panels : panel'[p] # Nothing
                      /\ \A g \in flights' : g.what \in D(b)!Panels => g.channel # Nothing
                      /\ \A t \in timers' : t[2] # Nothing
    BY <1>1 DEF AllComes
  <2>1. /\ ~dbError /\ channelsKnown /\ stateChannel # Nothing /\ selected # Nothing
        /\ \A p \in D(b)!Panels : panel[p] # Nothing
        /\ \A g \in flights : g.what \in D(b)!Panels => g.channel # Nothing
        /\ \A t \in timers : t[2] # Nothing
    BY <1>1 DEF AllComes, DashboardInv
  <2>2. \A p \in D(b)!Panels : panel'[p] # Nothing
    BY <1>1, <1>2, <2>1 DEF D!Stored
  <2>3. \A t \in timers' : t[2] # Nothing
    <3>1. \A w \in Selects : w.channel # Nothing
      BY DEF Selects, Awaited, DashboardInv, D!DashboardParameters
    <3> QED BY <1>1, <2>1, <3>1, FinishSets
  <2> QED BY <1>1, <1>2, <2>1, <2>2, <2>3
<1>6. TimelineWillAgree(b)'
  <2> SUFFICES ASSUME fails = 0, ticks = 0
               PROVE  selections # 0
                      /\ (selections = 1 =>
                           \E c \in Dashboards[b].Channels : SelectionOf(c)')
    BY <1>1 DEF TimelineWillAgree, SelectionOf
  <2>1. selections # 0
    BY <1>1 DEF DashboardInv, TimelineWillAgree
  <2>2. ASSUME selections = 1 PROVE \E c \in Dashboards[b].Channels : SelectionOf(c)'
    <3>1. PICK c \in Dashboards[b].Channels : SelectionOf(c)
      BY <1>1, <2>2 DEF DashboardInv, TimelineWillAgree
    <3>2. Changes' = Changes /\ Activities' = Activities \ {f}
      BY <1>1, <1>2 DEF Changes, Activities
    <3>3. CASE f.what = "activity"
      <4>1. f \in Activities /\ f.channel = c /\ panel'["activity"] = c
        BY <1>1, <1>2, <3>1, <3>3 DEF Activities, SelectionOf, D!Stored
      <4> QED BY <1>1, <3>1, <3>2, <4>1 DEF SelectionOf
    <3>4. CASE f.what # "activity"
      <4>1. panel'["activity"] = panel["activity"]
        BY <1>1, <1>2, <3>4 DEF D!Stored
      <4>2. Activities' = Activities
        BY <3>2, <3>4 DEF Activities
      <4> QED BY <1>1, <3>1, <3>2, <4>1, <4>2 DEF SelectionOf
    <3> QED BY <3>3, <3>4
  <2> QED BY <2>1, <2>2
<1> QED BY <1>3, <1>4, <1>5, <1>6 DEF Agreement

(* A request that fails leaves an interval or a selection.                 *)
LEMMA FailureAgrees ==
  ASSUME NEW b, D(b)!DashboardParameters, DashboardInv(b), NEW f \in flights,
         D(b)!FailRequest(f)
  PROVE  Agreement(b)'
<1>1. /\ fails' # 0 /\ D(b)!Finish(f) /\ pending' = pending \ D(b)!Done(f)
      /\ UNCHANGED <<page, current, overlaps>> /\ page = "dashboard"
      /\ flights' = flights \ {f}
  BY DEF D!FailRequest, D!store, DashboardInv, D!TypeOK
<1>2. CASE f.what # "change"
  <2>1. IntervalOrSelection(b)'
    BY <1>1, <1>2, EndKeepsInterval DEF DashboardInv
  <2> QED BY <1>1, <2>1 DEF Agreement, HeaderWillAgree, AllComes, TimelineWillAgree
<1>3. CASE f.what = "change"
  <2>1. D(b)!Done(f) = {}
    BY <1>3, DoneIsOne DEF DashboardInv
  <2>2. UNCHANGED <<timers, handle, pending>> /\ Selects' = Selects
    BY <1>1, <2>1 DEF D!Finish, Selects
  <2>3. IntervalOrSelection(b)'
    BY <1>1, <2>2 DEF DashboardInv, IntervalOrSelection, D!MaybeChannel
  <2> QED BY <1>1, <2>3 DEF Agreement, HeaderWillAgree, AllComes, TimelineWillAgree
<1> QED BY <1>2, <1>3

(* The channel that is changed to is the one of the last selection.        *)
LEMMA ChangeAgrees ==
  ASSUME NEW b, D(b)!DashboardParameters, DashboardInv(b), NEW f \in flights,
         D(b)!AnswerChange(f)
  PROVE  Agreement(b)'
<1>1. /\ current' = f.channel /\ f.channel \in Dashboards[b].Channels /\ f.what = "change"
      /\ UNCHANGED <<page, dbError, panel, channelsKnown, modal, timers, handle, overlaps,
                     selections, ticks, fails>>
      /\ page = "dashboard" /\ f \in Changes
      /\ "change" \notin D(b)!Panels /\ "channels" \notin D(b)!Panels
      /\ "activity" \in D(b)!Panels
      /\ Nothing \notin Dashboards[b].Channels
  BY DEF D!AnswerChange, D!counts, DashboardInv, Awaited, Changes, D!DashboardParameters,
     D!Panels
<1>2. IntervalOrSelection(b)'
  <2>1. Changes' = Changes \ {f} /\ Selects' = Selects
          /\ \A w \in pending : w \in pending'
    <3>1. CASE f.channel = current
      BY <3>1 DEF D!AnswerChange, Changes, Selects
    <3>2. CASE f.channel # current
      <4>1. /\ flights' = (flights \ {f}) \cup D(b)!SyncRequests(f.channel, syncs + 1)
            /\ pending' = pending \cup
                 {[sync |-> syncs + 1, kind |-> "plain", channel |-> f.channel]}
        BY <3>2 DEF D!AnswerChange, D!HeaderReceives
      <4>2. \A g \in D(b)!SyncRequests(f.channel, syncs + 1) : g.what # "change"
        BY <1>1, SyncAsks
      <4> QED BY <4>1, <4>2 DEF Changes, Selects
    <3> QED BY <3>1, <3>2
  <2>2. \A c : Heading(c) => Heading(c)'
    BY <1>1, <2>1 DEF Heading
  <2>3. D(b)!MaybeChannel' = D(b)!MaybeChannel
    BY DEF D!MaybeChannel
  <2> SUFFICES ASSUME overlaps = 0
               PROVE  \/ /\ Selects' = {}
                         /\ \E c \in D(b)!MaybeChannel' :
                              timers' = {<<handle', c>>} /\ (fails' = 0 => Heading(c)')
                      \/ /\ timers' = {}
                         /\ \E w \in pending' :
                              Selects' = {w} /\ (fails' = 0 => Heading(w.channel)')
    BY <1>1 DEF IntervalOrSelection, Heading, D!MaybeChannel
  <2> QED BY <1>1, <2>1, <2>2, <2>3 DEF DashboardInv, IntervalOrSelection
<1>3. CASE f.channel = current
  <2>1. /\ flights' = flights \ {f} /\ current' = current
        /\ UNCHANGED <<stateChannel, selected, timeline, syncs, pending>>
    BY <1>3 DEF D!AnswerChange
  <2>2. HeaderWillAgree'
    BY <1>1, <2>1 DEF DashboardInv, HeaderWillAgree
  <2>3. AllComes(b)'
    BY <1>1, <2>1 DEF DashboardInv, AllComes
  <2>4. TimelineWillAgree(b)'
    <3> SUFFICES ASSUME fails = 0, ticks = 0
                 PROVE  selections # 0 /\ selections # 1
      BY <1>1 DEF TimelineWillAgree, SelectionOf
    <3>1. selections # 0
      BY <1>1 DEF DashboardInv, TimelineWillAgree
    <3>2. ASSUME selections = 1 PROVE FALSE
      <4>1. PICK c \in Dashboards[b].Channels : SelectionOf(c)
        BY <1>1, <3>2 DEF DashboardInv, TimelineWillAgree
      <4>2. f.channel = c /\ current # c
        BY <1>1, <4>1 DEF SelectionOf
      <4> QED BY <1>3, <4>2
    <3> QED BY <3>1, <3>2
  <2> QED BY <1>2, <2>2, <2>3, <2>4 DEF Agreement
<1>4. CASE f.channel # current
  <2> DEFINE asked == D(b)!SyncRequests(f.channel, syncs + 1)
  <2>1. /\ flights' = (flights \ {f}) \cup asked
        /\ selected' = f.channel /\ stateChannel' = current /\ timeline' = panel["activity"]
    BY <1>4 DEF D!AnswerChange, D!HeaderReceives, D!DashboardReceives
  <2>2. \E g \in asked : g.what = "channels"
    BY SyncAsks
  <2>3. \A g \in asked : g.what \in D(b)!Panels => g.channel = f.channel
    BY <1>1, SyncAsks
  <2>4. \A g \in asked : g.sync = syncs + 1 /\ g.what # "change"
    BY <1>1, SyncAsks
  <2>5. \E g \in asked : g.what = "activity"
    BY <1>1, SyncAsks
  <2>6. \A g \in flights : g.sync # syncs + 1
    BY DEF DashboardInv, Awaited, D!TypeOK, D!Flight
  <2> HIDE DEF asked
  <2>7. HeaderWillAgree'
    BY <2>1, <2>2 DEF HeaderWillAgree
  <2>8. AllComes(b)'
    <3>1. fails = 0 => /\ ~dbError /\ channelsKnown /\ current # Nothing
                       /\ \A p \in D(b)!Panels : panel[p] # Nothing
                       /\ \A g \in flights : g.what \in D(b)!Panels => g.channel # Nothing
                       /\ \A t \in timers : t[2] # Nothing
      BY <1>1 DEF DashboardInv, AllComes, Pages
    <3> QED BY <1>1, <2>1, <2>3, <3>1 DEF AllComes
  <2>9. TimelineWillAgree(b)'
    <3> SUFFICES ASSUME fails = 0, ticks = 0
                 PROVE  selections # 0
                        /\ (selections = 1 =>
                             \E c \in Dashboards[b].Channels : SelectionOf(c)')
      BY <1>1 DEF TimelineWillAgree, SelectionOf
    <3>1. selections # 0
      BY <1>1 DEF DashboardInv, TimelineWillAgree
    <3>2. ASSUME selections = 1 PROVE SelectionOf(f.channel)'
      <4>1. PICK c \in Dashboards[b].Channels : SelectionOf(c)
        BY <1>1, <3>2 DEF DashboardInv, TimelineWillAgree
      <4>2. /\ f.channel = c /\ Changes = {f}
            /\ panel["activity"] = c \/ Activities # {}
            /\ \A g \in Activities : g.channel = c
        BY <1>1, <4>1 DEF SelectionOf
      <4>3. Changes' = {}
        BY <2>1, <2>4, <4>2 DEF Changes
      <4>4. PICK g \in asked : g.what = "activity"
        BY <2>5
      <4>5. g \in Activities' /\ \A h \in Activities : h \in Activities' /\ h # g
        BY <1>1, <2>1, <2>4, <2>6, <4>4 DEF Activities
      <4>6. \A h \in Activities' : h.channel = c
        BY <1>1, <2>1, <2>3, <4>2 DEF Activities
      <4>7. \/ panel'["activity"] = c /\ Activities' # {}
            \/ \E h, k \in Activities' : h # k
        BY <1>1, <4>2, <4>5
      <4> QED BY <1>1, <4>2, <4>3, <4>6, <4>7 DEF SelectionOf
    <3> QED BY <1>1, <3>1, <3>2
  <2> QED BY <1>2, <2>7, <2>8, <2>9 DEF Agreement
<1> QED BY <1>3, <1>4

(* A selection begins when no other is waited for, or overlaps it.         *)
LEMMA SelectionAgrees ==
  ASSUME NEW b, D(b)!DashboardParameters, DashboardInv(b),
         NEW c \in Dashboards[b].Channels, D(b)!HandleChange(c)
  PROVE  Agreement(b)'
<1> DEFINE change == D(b)!Ask("change", c, syncs + 1)
           asked == D(b)!SyncRequests(c, syncs + 2)
<1>0. PICK w : w = [sync |-> syncs + 2, kind |-> "select", channel |-> c]
  OBVIOUS
<1>1. /\ flights' = flights \cup {change} \cup asked /\ pending' = pending \cup {w}
      /\ selections' = selections + 1 /\ selected' = c /\ c # selected
      /\ timers' = {t \in timers : t[1] # handle}
      /\ overlaps' = IF D(b)!Selecting THEN overlaps + 1 ELSE overlaps
      /\ UNCHANGED <<page, dbError, current, panel, channelsKnown, stateChannel, handle,
                     timeline, ticks, fails>>
      /\ page = "dashboard" /\ c # Nothing
      /\ "change" \notin D(b)!Panels /\ "channels" \notin D(b)!Panels
      /\ "activity" \in D(b)!Panels
  BY <1>0 DEF D!HandleChange, D!store, D!DashboardParameters, D!Panels
<1>2. change.what = "change" /\ change.channel = c
  BY DEF D!Ask
<1>3. \A g \in asked : g.what # "change" /\ (g.what \in D(b)!Panels => g.channel = c)
  BY <1>1, SyncAsks
<1>4. (\E g \in asked : g.what = "channels") /\ \E g \in asked : g.what = "activity"
  BY <1>1, SyncAsks
<1>5. w.kind = "select" /\ w.channel = c
  BY <1>0
<1>6. selections \in Nat /\ overlaps \in Nat
  BY DEF DashboardInv, D!TypeOK, D!DashboardParameters
<1> HIDE DEF change, asked
<1>7. HeaderWillAgree'
  BY <1>1, <1>4 DEF HeaderWillAgree
<1>8. IntervalOrSelection(b)'
  <2> SUFFICES ASSUME overlaps' = 0
               PROVE  /\ timers' = {} /\ w \in pending' /\ Selects' = {w}
                      /\ Heading(w.channel)'
    BY DEF IntervalOrSelection
  <2>1. overlaps = 0 /\ ~D(b)!Selecting
    BY <1>1, <1>6
  <2>2. Selects = {} /\ Changes = {}
    BY <2>1 DEF D!Selecting, Selects, Changes
  <2>3. timers' = {}
    <3>1. PICK d : timers = {<<handle, d>>}
      BY <1>1, <2>1, <2>2 DEF DashboardInv, IntervalOrSelection
    <3> QED BY <1>1, <3>1
  <2>4. Selects' = {w}
    BY <1>1, <1>5, <2>2 DEF Selects
  <2>5. Changes' = {change}
    BY <1>1, <1>2, <1>3, <2>2 DEF Changes
  <2>6. Heading(c)'
    BY <1>2, <2>5 DEF Heading
  <2>7. Heading(w.channel)'
    BY <1>5, <2>5, <1>2 DEF Heading
  <2> QED BY <1>1, <2>3, <2>4, <2>7
<1>9. AllComes(b)'
  <2>1. fails = 0 => /\ ~dbError /\ channelsKnown /\ stateChannel # Nothing
                     /\ \A p \in D(b)!Panels : panel[p] # Nothing
                     /\ \A g \in flights : g.what \in D(b)!Panels => g.channel # Nothing
                     /\ \A t \in timers : t[2] # Nothing
    BY <1>1 DEF DashboardInv, AllComes
  <2> QED BY <1>1, <1>2, <1>3, <2>1 DEF AllComes
<1>10. TimelineWillAgree(b)'
  <2> SUFFICES ASSUME fails = 0, ticks = 0, selections = 0
               PROVE  SelectionOf(c)'
    BY <1>1, <1>6 DEF TimelineWillAgree, SelectionOf
  <2>1. flights = {} /\ selected = current
    BY <1>1 DEF DashboardInv, TimelineWillAgree
  <2>2. Changes' = {change}
    BY <1>1, <1>2, <1>3, <2>1 DEF Changes
  <2>3. Activities' # {} /\ \A g \in Activities' : g.channel = c
    BY <1>1, <1>2, <1>3, <1>4, <2>1 DEF Activities
  <2> QED BY <1>1, <1>2, <2>1, <2>2, <2>3 DEF SelectionOf
<1> QED BY <1>7, <1>8, <1>9, <1>10 DEF Agreement

(* The intervals and notifications ask for no data of no channel.          *)
LEMMA TickAgrees ==
  ASSUME NEW b, D(b)!DashboardParameters, DashboardInv(b),
         \/ \E c \in D(b)!MaybeChannel : (fails = 0 => c # Nothing) /\ D(b)!SyncData(c)
         \/ D(b)!ChartTick \/ D(b)!ReloadChannels
  PROVE  Agreement(b)'
<1>1. /\ ticks' = ticks + 1
      /\ UNCHANGED <<page, dbError, current, panel, channelsKnown, stateChannel, selected,
                     modal, timers, handle, timeline, overlaps, selections, fails>>
      /\ page = "dashboard" /\ ticks' # 0
      /\ "change" \notin D(b)!Panels /\ "channels" \notin D(b)!Panels
  BY DEF D!SyncData, D!ChartTick, D!ReloadChannels, D!store, D!header, DashboardInv,
     D!TypeOK, D!DashboardParameters
<1>2. PICK asked :
        /\ flights' = flights \cup asked
        /\ \A g \in asked : /\ g.what # "change"
                            /\ fails = 0 /\ g.what \in D(b)!Panels => g.channel # Nothing
  <2>1. ASSUME NEW c \in D(b)!MaybeChannel, fails = 0 => c # Nothing, D(b)!SyncData(c)
        PROVE  \E asked : /\ flights' = flights \cup asked
                          /\ \A g \in asked :
                               /\ g.what # "change"
                               /\ fails = 0 /\ g.what \in D(b)!Panels => g.channel # Nothing
    <3>1. \A g \in D(b)!SyncRequests(c, syncs + 1) :
            /\ g.what # "change" /\ (g.what \in D(b)!Panels => g.channel = c)
      BY <1>1, SyncAsks
    <3> QED BY <2>1, <3>1 DEF D!SyncData
  <2>2. CASE D(b)!ChartTick
    <3>1. fails = 0 => current # Nothing
      BY <1>1 DEF DashboardInv, Pages, D!DashboardParameters
    <3>2. Dashboards[b].Charts \subseteq D(b)!Panels
      BY DEF D!Panels
    <3> DEFINE asked == {D(b)!Ask(p, current, syncs + 1) : p \in Dashboards[b].Charts}
    <3>3. flights' = flights \cup asked
      BY <2>2 DEF D!ChartTick
    <3>4. \A g \in asked : g.what # "change" /\ g.channel = current
      BY <1>1, <3>2 DEF D!Ask
    <3> HIDE DEF asked
    <3> QED BY <3>1, <3>3, <3>4
  <2>3. CASE D(b)!ReloadChannels
    <3> DEFINE asked == {D(b)!Ask("channels", Nothing, syncs + 1)}
    <3>1. flights' = flights \cup asked
      BY <2>3 DEF D!ReloadChannels
    <3>2. \A g \in asked : g.what = "channels"
      BY DEF D!Ask
    <3> HIDE DEF asked
    <3> QED BY <1>1, <3>1, <3>2
  <2> QED BY <2>1, <2>2, <2>3
<1>3. pending \subseteq pending' /\ Selects' = Selects
  BY DEF D!SyncData, D!ChartTick, D!ReloadChannels, Selects
<1>4. Changes' = Changes
  BY <1>2 DEF Changes
<1>5. HeaderWillAgree'
  BY <1>1, <1>2 DEF DashboardInv, HeaderWillAgree
<1>6. IntervalOrSelection(b)'
  <2>1. \A c : Heading(c) => Heading(c)'
    BY <1>1, <1>4 DEF Heading
  <2>2. D(b)!MaybeChannel' = D(b)!MaybeChannel
    BY DEF D!MaybeChannel
  <2> SUFFICES ASSUME overlaps = 0
               PROVE  \/ /\ Selects' = {}
                         /\ \E c \in D(b)!MaybeChannel' :
                              timers' = {<<handle', c>>} /\ (fails' = 0 => Heading(c)')
                      \/ /\ timers' = {}
                         /\ \E w \in pending' :
                              Selects' = {w} /\ (fails' = 0 => Heading(w.channel)')
    BY <1>1 DEF IntervalOrSelection, Heading, D!MaybeChannel
  <2> QED BY <1>1, <1>3, <2>1, <2>2 DEF DashboardInv, IntervalOrSelection
<1>7. AllComes(b)'
  <2>1. fails = 0 => /\ ~dbError /\ channelsKnown
                     /\ stateChannel # Nothing /\ selected # Nothing
                     /\ \A p \in D(b)!Panels : panel[p] # Nothing
                     /\ \A g \in flights : g.what \in D(b)!Panels => g.channel # Nothing
                     /\ \A t \in timers : t[2] # Nothing
    BY <1>1 DEF DashboardInv, AllComes
  <2> QED BY <1>1, <1>2, <2>1 DEF AllComes
<1>8. TimelineWillAgree(b)'
  BY <1>1 DEF TimelineWillAgree
<1> QED BY <1>5, <1>6, <1>7, <1>8 DEF Agreement

(* Every step of the page keeps the invariant.                             *)
LEMMA DashboardStep ==
  ASSUME NEW b, D(b)!DashboardParameters, DashboardInv(b), D(b)!Next \/ UNCHANGED D(b)!vars
  PROVE  DashboardInv(b)'
<1> SUFFICES (D(b)!TypeOK' /\ Awaited(b)' /\ Pages(b)') /\ Agreement(b)'
  BY DEF DashboardInv, Agreement
<1>1. D(b)!TypeOK /\ Awaited(b) /\ Pages(b) /\ Agreement(b)
  BY DEF DashboardInv, Agreement
<1>2. ASSUME NEW f \in flights, D(b)!AnswerCurrent(f) \/ D(b)!AnswerLanding(f)
      PROVE  (D(b)!TypeOK' /\ Awaited(b)' /\ Pages(b)') /\ Agreement(b)'
  BY <1>1, <1>2, LandingStructure, LandingAgrees, MountAgrees
<1>3. ASSUME NEW f \in flights,
             \/ D(b)!AnswerPanel(f) \/ D(b)!AnswerChannels(f) \/ D(b)!AnswerChange(f)
             \/ D(b)!FailRequest(f)
      PROVE  (D(b)!TypeOK' /\ Awaited(b)' /\ Pages(b)') /\ Agreement(b)'
  BY <1>1, <1>3, DashboardAnswerStructure, AnswerAgrees, ChangeAgrees, FailureAgrees
<1>4. ASSUME NEW c \in Dashboards[b].Channels, D(b)!HandleChange(c)
      PROVE  (D(b)!TypeOK' /\ Awaited(b)' /\ Pages(b)') /\ Agreement(b)'
  BY <1>1, <1>4, AskingStructure, SelectionAgrees
<1>5. CASE D(b)!Tick \/ D(b)!HandleData \/ D(b)!ChartTick \/ D(b)!ReloadChannels
  <2>1. ASSUME D(b)!Tick \/ D(b)!HandleData
        PROVE  \E c \in D(b)!MaybeChannel : (fails = 0 => c # Nothing) /\ D(b)!SyncData(c)
    <3>1. CASE D(b)!Tick
      <4>1. PICK t \in timers : D(b)!SyncData(t[2])
        BY <3>1 DEF D!Tick
      <4>2. t[2] \in D(b)!MaybeChannel
        BY <1>1 DEF D!TypeOK
      <4>3. fails = 0 => t[2] # Nothing
        BY <1>1, <4>1 DEF D!SyncData, Agreement, AllComes
      <4> QED BY <4>1, <4>2, <4>3
    <3>2. CASE D(b)!HandleData
      <4>1. D(b)!SyncData(stateChannel) /\ stateChannel \in D(b)!MaybeChannel
        BY <1>1, <3>2 DEF D!HandleData, D!TypeOK
      <4>2. fails = 0 => stateChannel # Nothing
        BY <1>1, <4>1 DEF D!SyncData, Agreement, AllComes
      <4> QED BY <4>1, <4>2
    <3> QED BY <2>1, <3>1, <3>2
  <2> QED BY <1>1, <1>5, <2>1, AskingStructure, TickAgrees
<1>6. CASE D(b)!HandleClose \/ D(b)!LandingTimeout \/ UNCHANGED D(b)!vars
  <2>1. /\ UNCHANGED <<page, current, panel, channelsKnown, stateChannel, selected, timers,
                       handle, timeline, flights, pending, syncs, overlaps, selections,
                       ticks, fails>>
        /\ modal' \in BOOLEAN /\ dbError' \in BOOLEAN
        /\ page # "landing" => dbError' = dbError
    BY <1>1, <1>6 DEF D!HandleClose, D!LandingTimeout, D!vars, D!store, D!header, D!counts,
       D!TypeOK
  <2>2. D(b)!TypeOK'
    BY <1>1, <2>1 DEF D!TypeOK
  <2>3. Awaited(b)' /\ Pages(b)'
    BY <1>1, <2>1 DEF Awaited, Pages
  <2>4. HeaderWillAgree' /\ AllComes(b)'
    BY <1>1, <2>1 DEF Agreement, HeaderWillAgree, AllComes
  <2>5. IntervalOrSelection(b)'
    BY <1>1, <2>1 DEF Agreement, IntervalOrSelection, Heading, Selects, Changes,
       D!MaybeChannel
  <2>6. TimelineWillAgree(b)'
    BY <1>1, <2>1 DEF Agreement, TimelineWillAgree, SelectionOf, Changes, Activities
  <2> QED BY <2>2, <2>3, <2>4, <2>5, <2>6 DEF Agreement
<1> QED BY <1>2, <1>3, <1>4, <1>5, <1>6 DEF D!Next, D!Answered, D!Answer

(* What will agree does when nothing is in flight.                         *)
LEMMA QuietAgrees ==
  ASSUME NEW b
  PROVE  D(b)!DashboardParameters /\ DashboardInv(b) => D(b)!DashboardAgrees
<1> SUFFICES ASSUME D(b)!DashboardParameters, DashboardInv(b) PROVE D(b)!DashboardAgrees
  OBVIOUS
<1>1. D(b)!HeaderAgrees
  BY DEF DashboardInv, HeaderWillAgree, D!HeaderAgrees, D!Quiet
<1>2. D(b)!OneTimer
  <2> SUFFICES ASSUME D(b)!Quiet, overlaps = 0
               PROVE  /\ D(b)!Cardinality(timers) = 1
                      /\ fails = 0 => \A t \in timers : t[2] = current
                      /\ \A t \in timers : t[1] = handle
    BY DEF D!OneTimer
  <2>1. pending = {} /\ Changes = {} /\ page = "dashboard"
    BY DEF D!Quiet, DashboardInv, Awaited, Changes
  <2>2. PICK c : timers = {<<handle, c>>} /\ (fails = 0 => Heading(c))
    BY <2>1 DEF DashboardInv, IntervalOrSelection
  <2>3. Cardinality({<<handle, c>>}) = 1
    BY FS_Singleton
  <2> QED BY <2>1, <2>2, <2>3, DashboardCount DEF Heading
<1>3. D(b)!NothingUndefined
  BY DEF DashboardInv, AllComes, Pages, D!NothingUndefined, D!DashboardParameters
<1>4. D(b)!TimelineOfSelected
  <2> SUFFICES ASSUME D(b)!Quiet, fails = 0, ticks = 0, selections <= 1
               PROVE  timeline = selected
    BY DEF D!TimelineOfSelected
  <2>1. page = "dashboard" /\ flights = {} /\ Activities = {} /\ Changes = {}
    BY DEF D!Quiet, Activities, Changes
  <2>2. selections \in {0, 1}
    BY DEF DashboardInv, D!TypeOK, D!DashboardParameters
  <2>3. selected = current
    BY <1>1 DEF D!HeaderAgrees
  <2>4. CASE selections = 0
    BY <2>1, <2>4 DEF DashboardInv, TimelineWillAgree
  <2>5. CASE selections = 1
    <3>1. PICK c \in Dashboards[b].Channels : SelectionOf(c)
      BY <2>1, <2>5 DEF DashboardInv, TimelineWillAgree
    <3> QED BY <2>1, <2>3, <3>1 DEF SelectionOf
  <2> QED BY <2>2, <2>4, <2>5
<1> QED BY <1>1, <1>2, <1>3, <1>4 DEF D!DashboardAgrees

-----------------------------------------------------------------------------
(* UserPanel.                                                              *)

(* What a request carries; the list is never refused.                      *)
PanelRequest(b) ==
  [id : Nat, kind : {"register", "userlist", "unregister"}, user : UserPanels[b].Users,
   status : {"sent", "success", "error"}, list : Seq(UserPanels[b].Users),
   info : {"none", "success", "error"}, equal : BOOLEAN]

PanelTypes(b) ==
  /\ U(b)!TypeOK /\ users \in Seq(UserPanels[b].Users) /\ requests \subseteq PanelRequest(b)
  /\ \A r \in requests : r.kind = "userlist" => r.status # "error"

(* A form that may be submitted has been compared.                         *)
Compared ==
  form.password # Nothing /\ form.password2 # Nothing =>
    /\ form.mismatch = (form.password # form.password2)
    /\ form.allValid => ~form.mismatch

(* A success, on its way or shown, is of a user that was added.            *)
SuccessesAdded(b) ==
  /\ \A r \in requests :
       (r.kind = "register" /\ r.status = "success") \/ r.info = "success" =>
         r.user \in added
  /\ U(b)!SavedWasAdded

(* What the list lacks of the table, or has too many, is what is answered. *)
Counted(r) ==
  \/ r.kind = "register"
  \/ r.kind = "userlist" /\ (r.status = "success" => Len(r.list) = Cardinality(rows))
  \/ r.kind = "unregister" /\ r.status # "success" /\ Len(users) = Cardinality(rows)
  \/ r.kind = "unregister" /\ r.status = "success" /\ Len(users) = Cardinality(rows) + 1

ListWillCount ==
  page = "open" /\ ~crossed =>
    /\ requests = {} => Len(users) = Cardinality(rows)
    /\ \A r \in requests : requests = {r} /\ Counted(r)

UserInv(b) == PanelTypes(b) /\ Compared /\ U(b)!ConfirmedPassword /\ SuccessesAdded(b)
  /\ ListWillCount

(* A list of a finite set has each of its members once.                    *)
LEMMA ListsOfSet ==
  ASSUME NEW b, NEW X, IsFiniteSet(X), NEW s \in U(b)!InAnyOrder(X)
  PROVE  s \in Seq(X) /\ Len(s) = Cardinality(X)
<1>1. Cardinality(X) \in Nat
  BY FS_CardinalityType
<1>2. s \in [1 .. Cardinality(X) -> X]
  BY UserCount, UserInjection DEF U!InAnyOrder, Injection
<1> QED BY <1>1, <1>2

(* What reloadUsers takes out is one entry.                                *)
LEMMA ReloadTakesOne ==
  ASSUME NEW b, users \in Seq(UserPanels[b].Users)
  PROVE  /\ U(b)!ReloadUsers \in Seq(UserPanels[b].Users)
         /\ users # <<>> => Len(U(b)!ReloadUsers) = Len(users) - 1
<1>1. CASE users = <<>>
  BY <1>1 DEF U!ReloadUsers
<1>2. ASSUME NEW i \in 1 .. Len(users)
      PROVE  U(b)!Without(users, i) \in Seq(UserPanels[b].Users)
             /\ Len(U(b)!Without(users, i)) = Len(users) - 1
  <2>1. Len(users) - 1 \in Nat
    OBVIOUS
  <2>2. U(b)!Without(users, i) \in [1 .. Len(users) - 1 -> UserPanels[b].Users]
    BY DEF U!Without
  <2> QED BY <2>1, <2>2
<1>3. CASE users # <<>> /\ \E i \in DOMAIN users : users[i] = selected
  <2> DEFINE i == CHOOSE i \in DOMAIN users : users[i] = selected
  <2>1. i \in 1 .. Len(users)
    BY <1>3
  <2>2. U(b)!ReloadUsers = U(b)!Without(users, i)
    BY <1>3 DEF U!ReloadUsers
  <2> HIDE DEF i
  <2> QED BY <1>2, <2>1, <2>2
<1>4. CASE users # <<>> /\ ~\E i \in DOMAIN users : users[i] = selected
  <2>1. U(b)!ReloadUsers = U(b)!Without(users, Len(users)) /\ Len(users) \in 1 .. Len(users)
    BY <1>4 DEF U!ReloadUsers
  <2> QED BY <1>2, <2>1
<1> QED BY <1>1, <1>3, <1>4

(* The panel opens with the users of the table.                            *)
LEMMA UserInit ==
  ASSUME NEW b
  PROVE  U(b)!UserParameters /\ U(b)!Init => UserInv(b)
<1> SUFFICES ASSUME U(b)!UserParameters, U(b)!Init PROVE UserInv(b)
  OBVIOUS
<1>1. rows \subseteq UserPanels[b].Users /\ IsFiniteSet(rows)
  BY FS_Subset, UserFinite DEF U!Init, U!UserParameters
<1>2. users \in Seq(rows) /\ Len(users) = Cardinality(rows)
  BY <1>1, ListsOfSet DEF U!Init
<1>3. users \in Seq(UserPanels[b].Users) /\ U(b)!Range(users) \subseteq UserPanels[b].Users
  BY <1>1, <1>2 DEF U!Range
<1>4. U(b)!TypeOK
  <2>1. counters \in
          [edits : 0 .. UserPanels[b].MaxEdits, submits : 0 .. UserPanels[b].MaxSubmits,
            deletes : 0 .. UserPanels[b].MaxDeletes,
               fails : 0 .. UserPanels[b].MaxFails]
    BY UserFinite DEF U!Init, U!UserParameters
  <2>2. form \in
          [user : UserPanels[b].Users \cup {Nothing}, password : U(b)!Typed,
            password2 : U(b)!Typed,
                  mismatch : BOOLEAN, allValid : BOOLEAN]
    BY DEF U!Init, U!Empty, U!Typed
  <2>3. saved \in
          [user : UserPanels[b].Users \cup {Nothing}, status : {"success", "error", "none"}]
    BY DEF U!Init
  <2> QED BY <1>1, <1>3, <2>1, <2>2, <2>3 DEF U!Init, U!TypeOK
<1> QED BY <1>2, <1>3, <1>4 DEF U!Init, U!Empty, UserInv, PanelTypes, Compared,
   U!ConfirmedPassword, SuccessesAdded, U!SavedWasAdded, ListWillCount

(* The counters stay within their bounds.                                  *)
LEMMA CountWithin ==
  ASSUME NEW b, U(b)!UserParameters, U(b)!TypeOK
  PROVE  /\ counters.edits < UserPanels[b].MaxEdits =>
              U(b)!Count("edits") \in [edits : 0 .. UserPanels[b].MaxEdits,
              submits : 0 .. UserPanels[b].MaxSubmits,
                deletes : 0 .. UserPanels[b].MaxDeletes,
                  fails : 0 .. UserPanels[b].MaxFails]
         /\ counters.submits < UserPanels[b].MaxSubmits =>
              U(b)!Count("submits") \in [edits : 0 .. UserPanels[b].MaxEdits,
              submits : 0 .. UserPanels[b].MaxSubmits,
                deletes : 0 .. UserPanels[b].MaxDeletes,
                  fails : 0 .. UserPanels[b].MaxFails]
         /\ counters.deletes < UserPanels[b].MaxDeletes =>
              U(b)!Count("deletes") \in [edits : 0 .. UserPanels[b].MaxEdits,
              submits : 0 .. UserPanels[b].MaxSubmits,
                deletes : 0 .. UserPanels[b].MaxDeletes,
                  fails : 0 .. UserPanels[b].MaxFails]
         /\ counters.fails < UserPanels[b].MaxFails =>
              U(b)!Count("fails") \in [edits : 0 .. UserPanels[b].MaxEdits,
              submits : 0 .. UserPanels[b].MaxSubmits,
                deletes : 0 .. UserPanels[b].MaxDeletes,
                  fails : 0 .. UserPanels[b].MaxFails]
<1>1. counters \in
        [edits : 0 .. UserPanels[b].MaxEdits, submits : 0 .. UserPanels[b].MaxSubmits,
          deletes : 0 .. UserPanels[b].MaxDeletes,
             fails : 0 .. UserPanels[b].MaxFails]
  BY DEF U!TypeOK
<1>2. {UserPanels[b].MaxEdits, UserPanels[b].MaxSubmits, UserPanels[b].MaxDeletes,
        UserPanels[b].MaxFails} \subseteq Nat
  BY UserFinite DEF U!UserParameters
<1> QED BY <1>1, <1>2 DEF U!Count

(* A field that is changed leaves a form that has been compared.           *)
LEMMA EditKeepsUsers ==
  ASSUME NEW b, U(b)!UserParameters, UserInv(b), U(b)!HandleChange
  PROVE  UserInv(b)'
<1>1. /\ form \in
           [user : UserPanels[b].Users \cup {Nothing}, password : U(b)!Typed,
             password2 : U(b)!Typed,
                   mismatch : BOOLEAN, allValid : BOOLEAN]
      /\ UNCHANGED <<rows, users, selected, prompt, saved, requests, page, added, crossed>>
      /\ counters' = U(b)!Count("edits") /\ counters.edits < UserPanels[b].MaxEdits
  BY DEF U!HandleChange, UserInv, PanelTypes, U!TypeOK
<1>2. /\ form' \in
           [user : UserPanels[b].Users \cup {Nothing}, password : U(b)!Typed,
             password2 : U(b)!Typed,
                    mismatch : BOOLEAN, allValid : BOOLEAN]
      /\ Compared'
  <2>1. ASSUME NEW v \in U(b)!Typed, U(b)!ChangePassword(v)
        PROVE  /\ form' \in
                    [user : UserPanels[b].Users \cup {Nothing}, password : U(b)!Typed,
                             password2 : U(b)!Typed, mismatch : BOOLEAN, allValid : BOOLEAN]
               /\ Compared'
    BY <1>1, <2>1 DEF U!ChangePassword, U!Validated, Compared
  <2>2. ASSUME NEW v \in U(b)!Typed, U(b)!ChangePassword2(v)
        PROVE  /\ form' \in
                    [user : UserPanels[b].Users \cup {Nothing}, password : U(b)!Typed,
                             password2 : U(b)!Typed, mismatch : BOOLEAN, allValid : BOOLEAN]
               /\ Compared'
    BY <1>1, <2>2 DEF U!ChangePassword2, U!Validated, Compared
  <2>3. ASSUME NEW u \in UserPanels[b].Users \cup {Nothing}, U(b)!ChangeUser(u)
        PROVE  /\ form' \in
                    [user : UserPanels[b].Users \cup {Nothing}, password : U(b)!Typed,
                             password2 : U(b)!Typed, mismatch : BOOLEAN, allValid : BOOLEAN]
               /\ Compared'
    BY <1>1, <2>3 DEF U!ChangeUser, U!Validated, UserInv, Compared
  <2> QED BY <2>1, <2>2, <2>3 DEF U!HandleChange
<1>3. PanelTypes(b)'
  <2>1. PanelTypes(b) /\ U(b)!TypeOK /\ U(b)!Typed' = U(b)!Typed
        /\ PanelRequest(b)' = PanelRequest(b)
    BY DEF UserInv, PanelTypes, U!Typed, PanelRequest
  <2>2. U(b)!TypeOK'
    BY <1>1, <1>2, <2>1, CountWithin DEF U!TypeOK, U!Range
  <2> QED BY <1>1, <2>1, <2>2 DEF PanelTypes
<1>4. U(b)!ConfirmedPassword' /\ SuccessesAdded(b)'
  BY <1>1 DEF UserInv, U!ConfirmedPassword, SuccessesAdded, U!SavedWasAdded
<1>5. ListWillCount'
  BY <1>1 DEF UserInv, ListWillCount, Counted
<1> QED BY <1>2, <1>3, <1>4, <1>5 DEF UserInv

(* The prompt is opened and closed.                                        *)
LEMMA PromptKeepsUsers ==
  ASSUME NEW b, U(b)!UserParameters, UserInv(b),
         (\E u \in UserPanels[b].Users : U(b)!DeletePrompt(u)) \/ U(b)!HandleClose
           \/ UNCHANGED U(b)!vars
  PROVE  UserInv(b)'
<1>1. /\ UNCHANGED <<rows, users, form, saved, requests, page, added, crossed, counters>>
      /\ selected' \in UserPanels[b].Users \cup {Nothing} /\ prompt' \in BOOLEAN
  BY DEF U!DeletePrompt, U!HandleClose, U!vars, UserInv, PanelTypes, U!TypeOK
<1>2. PanelTypes(b)'
  <2>1. PanelTypes(b) /\ U(b)!TypeOK /\ U(b)!Typed' = U(b)!Typed
        /\ PanelRequest(b)' = PanelRequest(b)
    BY DEF UserInv, PanelTypes, U!Typed, PanelRequest
  <2>2. U(b)!TypeOK'
    BY <1>1, <2>1 DEF U!TypeOK, U!Range
  <2> QED BY <1>1, <2>1, <2>2 DEF PanelTypes
<1>3. Compared' /\ U(b)!ConfirmedPassword' /\ SuccessesAdded(b)'
  BY <1>1 DEF UserInv, Compared, U!ConfirmedPassword, SuccessesAdded, U!SavedWasAdded
<1>4. ListWillCount'
  BY <1>1 DEF UserInv, ListWillCount, Counted
<1> QED BY <1>2, <1>3, <1>4 DEF UserInv

(* What is sent is the registration of a confirmed password, or a removal  *)
(* whose answer takes an entry out.                                        *)
LEMMA SendKeepsUsers ==
  ASSUME NEW b, U(b)!UserParameters, UserInv(b), U(b)!SubmitForm \/ U(b)!HandleDelete
  PROVE  UserInv(b)'
<1>1. /\ U(b)!TypeOK /\ PanelTypes(b) /\ Compared /\ Nothing \notin UserPanels[b].Users
      /\ form \in
           [user : UserPanels[b].Users \cup {Nothing}, password : U(b)!Typed,
             password2 : U(b)!Typed,
                   mismatch : BOOLEAN, allValid : BOOLEAN]
      /\ counters \in
           [edits : 0 .. UserPanels[b].MaxEdits, submits : 0 .. UserPanels[b].MaxSubmits,
             deletes : 0 .. UserPanels[b].MaxDeletes,
                fails : 0 .. UserPanels[b].MaxFails]
      /\ {UserPanels[b].MaxEdits, UserPanels[b].MaxSubmits, UserPanels[b].MaxDeletes,
           UserPanels[b].MaxFails} \subseteq Nat
  BY UserFinite DEF UserInv, PanelTypes, U!TypeOK, U!UserParameters
<1>2. counters.submits + counters.deletes \in Nat
  <2>1. counters.submits \in Nat /\ counters.deletes \in Nat
    BY <1>1
  <2> QED BY <2>1
<1>3. PICK r : /\ requests' = requests \cup {r} /\ r \in PanelRequest(b)
               /\ r.status = "sent" /\ r.info = "none"
               /\ r.kind = "register" => r.equal
               /\ r.kind \in {"register", "unregister"}
  <2>1. CASE U(b)!SubmitForm
    <3> DEFINE r == [U(b)!Request("register", form.user)
                       EXCEPT !.equal = form.password = form.password2]
    <3>1. requests' = requests \cup {r}
      BY <2>1 DEF U!SubmitForm
    <3>2. form.user \in UserPanels[b].Users /\ form.password = form.password2
      BY <1>1, <2>1 DEF U!SubmitForm, U!Submittable, Compared
    <3>3. PICK same \in BOOLEAN : same = (form.password = form.password2) /\ same
      BY <3>2
    <3>4. r = [U(b)!Request("register", form.user) EXCEPT !.equal = same]
      BY <3>3
    <3> HIDE DEF r
    <3>5. /\ r \in PanelRequest(b) /\ r.status = "sent" /\ r.info = "none" /\ r.equal
          /\ r.kind = "register"
      <4>1. /\ U(b)!Request("register", form.user) \in PanelRequest(b)
            /\ U(b)!Request("register", form.user).status = "sent"
            /\ U(b)!Request("register", form.user).info = "none"
            /\ U(b)!Request("register", form.user).kind = "register"
        BY <1>2, <3>2 DEF U!Request, PanelRequest
      <4> QED BY <3>3, <3>4, <4>1 DEF PanelRequest
    <3> QED BY <3>1, <3>5
  <2>2. CASE U(b)!HandleDelete
    <3>1. selected \in UserPanels[b].Users
      BY <1>1, <2>2 DEF U!HandleDelete, U!TypeOK
    <3>2. /\ U(b)!Request("unregister", selected) \in PanelRequest(b)
          /\ U(b)!Request("unregister", selected).status = "sent"
          /\ U(b)!Request("unregister", selected).info = "none"
          /\ U(b)!Request("unregister", selected).kind = "unregister"
      BY <1>2, <3>1 DEF U!Request, PanelRequest
    <3> QED BY <2>2, <3>2 DEF U!HandleDelete
  <2> QED BY <2>1, <2>2
<1>4. /\ UNCHANGED <<rows, users, form, saved, page, added>> /\ page = "open"
      /\ crossed' = (crossed \/ requests # {})
      /\ selected' \in UserPanels[b].Users \cup {Nothing} /\ prompt' \in BOOLEAN
      /\ counters' \in
           [edits : 0 .. UserPanels[b].MaxEdits, submits : 0 .. UserPanels[b].MaxSubmits,
             deletes : 0 .. UserPanels[b].MaxDeletes,
                 fails : 0 .. UserPanels[b].MaxFails]
  <2>1. prompt \in BOOLEAN /\ selected \in UserPanels[b].Users \cup {Nothing}
    BY <1>1 DEF U!TypeOK
  <2>2. CASE U(b)!SubmitForm
    <3>1. /\ counters.submits < UserPanels[b].MaxSubmits
          /\ counters' = U(b)!Count("submits")
          /\ UNCHANGED <<rows, users, selected, prompt, form, saved, page, added>>
          /\ page = "open" /\ crossed' = (crossed \/ requests # {})
      BY <2>2 DEF U!SubmitForm
    <3> QED BY <1>1, <2>1, <3>1, CountWithin
  <2>3. CASE U(b)!HandleDelete
    <3>1. /\ counters.deletes < UserPanels[b].MaxDeletes
          /\ counters' = U(b)!Count("deletes")
          /\ UNCHANGED <<rows, users, form, saved, page, added>>
          /\ selected' = Nothing /\ prompt' = FALSE
          /\ page = "open" /\ crossed' = (crossed \/ requests # {})
      BY <2>3 DEF U!HandleDelete
    <3> QED BY <1>1, <3>1, CountWithin
  <2> QED BY <2>2, <2>3
<1>5. PanelTypes(b)'
  <2>1. U(b)!Typed' = U(b)!Typed /\ PanelRequest(b)' = PanelRequest(b)
    BY DEF U!Typed, PanelRequest
  <2>2. \A q \in requests' :
          /\ q.kind \in {"register", "userlist", "unregister"}
          /\ q.user \in UserPanels[b].Users
          /\ q.status \in {"sent", "success", "error"}
    BY <1>1, <1>3 DEF PanelTypes, PanelRequest
  <2>3. crossed' \in BOOLEAN
    BY <1>1, <1>4 DEF U!TypeOK
  <2>4. U(b)!TypeOK'
    BY <1>1, <1>4, <2>1, <2>2, <2>3 DEF U!TypeOK, U!Range
  <2> QED BY <1>1, <1>3, <1>4, <2>1, <2>4 DEF PanelTypes
<1>6. Compared' /\ U(b)!ConfirmedPassword' /\ SuccessesAdded(b)'
  BY <1>3, <1>4 DEF UserInv, Compared, U!ConfirmedPassword, SuccessesAdded, U!SavedWasAdded
<1>7. ListWillCount'
  <2> SUFFICES ASSUME ~crossed, requests = {}
               PROVE  requests' = {r} /\ Counted(r)'
    BY <1>3, <1>4 DEF ListWillCount
  <2>1. Len(users) = Cardinality(rows)
    BY <1>4 DEF UserInv, ListWillCount
  <2> QED BY <1>3, <1>4, <2>1 DEF Counted
<1> QED BY <1>5, <1>6, <1>7 DEF UserInv

(* The types, when requests are what they were or a request that changed.  *)
LEMMA PanelTyped ==
  ASSUME NEW b, UserInv(b), NEW r \in requests, NEW kept,
         requests' = (requests \ {r}) \cup kept,
         \A q \in kept : q \in PanelRequest(b)
           /\ (q.kind = "userlist" => q.status # "error"),
         rows' \in SUBSET UserPanels[b].Users, users' \in Seq(UserPanels[b].Users),
           added' \in SUBSET UserPanels[b].Users,
         form' \in
           [user : UserPanels[b].Users \cup {Nothing}, password : U(b)!Typed,
             password2 : U(b)!Typed,
                    mismatch : BOOLEAN, allValid : BOOLEAN],
         saved' \in
           [user : UserPanels[b].Users \cup {Nothing},
             status : {"success", "error", "none"}],
         UNCHANGED <<selected, prompt, page, crossed, counters>>
  PROVE  PanelTypes(b)'
<1>1. U(b)!TypeOK /\ PanelTypes(b)
  BY DEF UserInv, PanelTypes
<1>2. U(b)!Typed' = U(b)!Typed /\ PanelRequest(b)' = PanelRequest(b)
  BY DEF U!Typed, PanelRequest
<1>3. requests' \subseteq PanelRequest(b)
  BY <1>1 DEF PanelTypes
<1>4. \A q \in requests' :
        /\ q.kind \in {"register", "userlist", "unregister"}
        /\ q.user \in UserPanels[b].Users
        /\ q.status \in {"sent", "success", "error"}
  BY <1>3 DEF PanelRequest
<1>5. U(b)!Range(users') \subseteq UserPanels[b].Users
  BY DEF U!Range
<1>6. U(b)!TypeOK'
  BY <1>1, <1>2, <1>4, <1>5 DEF U!TypeOK, U!Range
<1>7. \A q \in requests' : q.kind = "userlist" => q.status # "error"
  BY <1>1 DEF PanelTypes
<1> QED BY <1>2, <1>3, <1>6, <1>7 DEF PanelTypes

(* The server adds a user that is new, takes one out that is there, and    *)
(* lists them.                                                             *)
LEMMA ServerKeepsUsers ==
  ASSUME NEW b, U(b)!UserParameters, UserInv(b), NEW r \in requests,
         U(b)!Register(r) \/ U(b)!Unregister(r) \/ U(b)!Userlist(r)
  PROVE  UserInv(b)'
<1>1. /\ U(b)!TypeOK /\ r \in PanelRequest(b) /\ r.user \in UserPanels[b].Users
      /\ users \in Seq(UserPanels[b].Users)
      /\ rows \subseteq UserPanels[b].Users /\ added \subseteq UserPanels[b].Users
      /\ IsFiniteSet(rows)
      /\ form \in
           [user : UserPanels[b].Users \cup {Nothing}, password : U(b)!Typed,
             password2 : U(b)!Typed,
                   mismatch : BOOLEAN, allValid : BOOLEAN]
      /\ saved \in
           [user : UserPanels[b].Users \cup {Nothing},
             status : {"success", "error", "none"}]
  BY FS_Subset, UserFinite DEF UserInv, PanelTypes, U!TypeOK, PanelRequest, U!UserParameters
<1>2. PICK q : /\ requests' = (requests \ {r}) \cup {q} /\ q \in PanelRequest(b)
               /\ q.kind = r.kind /\ q.user = r.user /\ q.info = r.info /\ q.equal = r.equal
               /\ q.status \in {"success", "error"}
               /\ r.kind = "register" /\ q.status = "success" => r.user \notin rows
               /\ r.kind = "unregister" =>
                    (q.status = "success" <=> r.user \in rows \ {UserPanels[b].Root})
               /\ r.kind = "userlist" => /\ q.status = "success"
                                         /\ Len(q.list) = Cardinality(rows)
  <2>1. ASSUME NEW status \in {"success", "error"}
        PROVE  /\ [r EXCEPT !.status = status] \in PanelRequest(b)
               /\ [r EXCEPT !.status = status].kind = r.kind
               /\ [r EXCEPT !.status = status].user = r.user
               /\ [r EXCEPT !.status = status].info = r.info
               /\ [r EXCEPT !.status = status].equal = r.equal
               /\ [r EXCEPT !.status = status].status = status
    BY <1>1 DEF PanelRequest
  <2>2. CASE U(b)!Register(r)
    <3>1. PICK status \in {"success", "error"} :
            /\ requests' = (requests \ {r}) \cup {[r EXCEPT !.status = status]}
            /\ status = "success" => r.user \notin rows
      BY <2>2 DEF U!Register, U!Replied
    <3> QED BY <2>1, <2>2, <3>1 DEF U!Register
  <2>3. CASE U(b)!Unregister(r)
    <3>1. PICK status \in {"success", "error"} :
            /\ requests' = (requests \ {r}) \cup {[r EXCEPT !.status = status]}
            /\ status = "success" <=> r.user \in rows \ {UserPanels[b].Root}
      BY <2>3 DEF U!Unregister, U!Replied
    <3> QED BY <2>1, <2>3, <3>1 DEF U!Unregister
  <2>4. CASE U(b)!Userlist(r)
    <3>1. PICK s \in U(b)!InAnyOrder(rows) :
            requests' = (requests \ {r}) \cup {[r EXCEPT !.status = "success", !.list = s]}
      BY <2>4 DEF U!Userlist
    <3>2. s \in Seq(UserPanels[b].Users) /\ Len(s) = Cardinality(rows)
      BY <1>1, ListsOfSet
    <3>3. PICK q : q = [r EXCEPT !.status = "success", !.list = s]
      OBVIOUS
    <3>4. /\ q \in PanelRequest(b) /\ q.kind = r.kind /\ q.user = r.user /\ q.info = r.info
          /\ q.equal = r.equal /\ q.status = "success" /\ q.list = s
      BY <1>1, <3>2, <3>3 DEF PanelRequest
    <3>5. r.kind = "userlist"
      BY <2>4 DEF U!Userlist
    <3> QED BY <3>1, <3>2, <3>3, <3>4, <3>5
  <2> QED BY <2>2, <2>3, <2>4
<1>3. /\ UNCHANGED <<users, selected, prompt, form, saved, page, crossed, counters>>
      /\ r.status = "sent" /\ r.kind \in {"register", "userlist", "unregister"}
      /\ rows' \subseteq UserPanels[b].Users /\ added' \subseteq UserPanels[b].Users
      /\ added \subseteq added'
      /\ r.kind = "register" => r.user \in rows \/ r.user \in added'
      /\ r.kind = "unregister" => rows' = rows \ ({r.user} \ {UserPanels[b].Root})
      /\ r.kind = "userlist" => rows' = rows
  BY <1>1 DEF U!Register, U!Unregister, U!Userlist
<1>4. PanelTypes(b)'
  <2> DEFINE kept == {q}
  <2>1. \A p \in kept : p \in PanelRequest(b) /\ (p.kind = "userlist" => p.status # "error")
    BY <1>2
  <2>2. requests' = (requests \ {r}) \cup kept
    BY <1>2
  <2> HIDE DEF kept
  <2> QED BY <1>1, <1>3, <2>1, <2>2, PanelTyped
<1>5. Compared' /\ U(b)!ConfirmedPassword'
  BY <1>2, <1>3 DEF UserInv, Compared, U!ConfirmedPassword
<1>6. SuccessesAdded(b)'
  BY <1>2, <1>3 DEF UserInv, SuccessesAdded, U!SavedWasAdded
<1>7. ListWillCount'
  <2> SUFFICES ASSUME page = "open", ~crossed
               PROVE  requests' = {q} /\ Counted(q)'
    BY <1>2, <1>3 DEF ListWillCount
  <2>1. requests = {r} /\ Counted(r)
    BY DEF UserInv, ListWillCount
  <2>2. requests' = {q}
    BY <1>2, <2>1
  <2>3. CASE r.kind = "register"
    BY <1>2, <2>2, <2>3 DEF Counted
  <2>4. CASE r.kind = "userlist"
    BY <1>2, <1>3, <2>2, <2>4 DEF Counted
  <2>5. CASE r.kind = "unregister"
    <3>1. Len(users') = Cardinality(rows)
      BY <1>3, <2>1, <2>5 DEF Counted
    <3>2. CASE q.status = "success"
      <4>1. rows' = rows \ {r.user} /\ r.user \in rows
        BY <1>2, <1>3, <2>5, <3>2
      <4>2. Cardinality(rows') = Cardinality(rows) - 1 /\ Cardinality(rows) \in Nat
        BY <1>1, <4>1, FS_RemoveElement, FS_CardinalityType
      <4> QED BY <1>2, <2>2, <2>5, <3>1, <3>2, <4>2 DEF Counted
    <3>3. CASE q.status # "success"
      <4>1. rows' = rows
        BY <1>2, <1>3, <2>5, <3>3
      <4> QED BY <1>2, <2>2, <2>5, <3>1, <3>3, <4>1 DEF Counted
    <3> QED BY <3>2, <3>3
  <2> QED BY <1>3, <2>3, <2>4, <2>5
<1> QED BY <1>4, <1>5, <1>6, <1>7 DEF UserInv

(* A registration that is answered asks for the list, a list is shown, and *)
(* a removal takes an entry out.                                           *)
LEMMA AnswerKeepsUsers ==
  ASSUME NEW b, U(b)!UserParameters, UserInv(b), NEW r \in requests,
         U(b)!RegisterAnswered(r) \/ U(b)!ListAnswered(r) \/ U(b)!RemoveAnswered(r)
  PROVE  UserInv(b)'
<1>1. /\ U(b)!TypeOK /\ r \in PanelRequest(b) /\ r.user \in UserPanels[b].Users
      /\ users \in Seq(UserPanels[b].Users)
      /\ rows \subseteq UserPanels[b].Users /\ added \subseteq UserPanels[b].Users
      /\ IsFiniteSet(rows)
      /\ form \in
           [user : UserPanels[b].Users \cup {Nothing}, password : U(b)!Typed,
             password2 : U(b)!Typed,
                   mismatch : BOOLEAN, allValid : BOOLEAN]
      /\ saved \in
           [user : UserPanels[b].Users \cup {Nothing},
             status : {"success", "error", "none"}]
      /\ r.kind = "userlist" => r.status # "error"
      /\ r.status # "sent" /\ r.status \in {"sent", "success", "error"}
  BY FS_Subset, UserFinite DEF UserInv, PanelTypes, U!TypeOK, PanelRequest,
     U!UserParameters, U!RegisterAnswered, U!ListAnswered, U!RemoveAnswered
<1>2. CASE U(b)!RegisterAnswered(r)
  <2>1. PICK q : q = [r EXCEPT !.kind = "userlist", !.status = "sent", !.info = r.status]
    OBVIOUS
  <2>2. /\ q \in PanelRequest(b) /\ q.kind = "userlist" /\ q.status = "sent"
        /\ q.user = r.user /\ q.info = r.status
    BY <1>1, <2>1 DEF PanelRequest
  <2>3. /\ requests' = (requests \ {r}) \cup {q} /\ r.kind = "register"
        /\ UNCHANGED <<rows, users, selected, prompt, form, saved, page, added, crossed,
             counters>>
    BY <1>2, <2>1 DEF U!RegisterAnswered
  <2>4. PanelTypes(b)'
    <3> DEFINE kept == {q}
    <3>1. \A p \in kept : p \in PanelRequest(b)
            /\ (p.kind = "userlist" => p.status # "error")
      BY <2>2
    <3>2. requests' = (requests \ {r}) \cup kept
      BY <2>3
    <3> HIDE DEF kept
    <3>3. /\ rows' \in SUBSET UserPanels[b].Users /\ users' \in Seq(UserPanels[b].Users)
          /\ added' \in SUBSET UserPanels[b].Users
          /\ form' \in
               [user : UserPanels[b].Users \cup {Nothing}, password : U(b)!Typed,
                 password2 : U(b)!Typed,
                        mismatch : BOOLEAN, allValid : BOOLEAN]
          /\ saved' \in
               [user : UserPanels[b].Users \cup {Nothing},
                 status : {"success", "error", "none"}]
          /\ UNCHANGED <<selected, prompt, page, crossed, counters>>
      BY <1>1, <2>3
    <3> QED BY <3>1, <3>2, <3>3, PanelTyped
  <2>5. Compared' /\ U(b)!ConfirmedPassword'
    BY <2>2, <2>3 DEF UserInv, Compared, U!ConfirmedPassword
  <2>6. SuccessesAdded(b)'
    BY <2>2, <2>3 DEF UserInv, SuccessesAdded, U!SavedWasAdded
  <2>7. ListWillCount'
    <3> SUFFICES ASSUME page = "open", ~crossed
                 PROVE  requests' = {q} /\ Counted(q)'
      BY <2>3 DEF ListWillCount
    <3>1. requests = {r}
      BY DEF UserInv, ListWillCount
    <3> QED BY <2>2, <2>3, <3>1 DEF Counted
  <2> QED BY <2>4, <2>5, <2>6, <2>7 DEF UserInv
<1>3. CASE U(b)!ListAnswered(r)
  <2>1. /\ requests' = requests \ {r} /\ users' = r.list /\ r.kind = "userlist"
        /\ saved' = [user |-> r.user, status |-> r.info]
        /\ form' = [U(b)!Empty EXCEPT !.allValid = form.allValid]
        /\ UNCHANGED <<rows, selected, prompt, page, added, crossed, counters>>
    BY <1>3 DEF U!ListAnswered
  <2>2. /\ r.list \in Seq(UserPanels[b].Users) /\ r.info \in {"none", "success", "error"}
        /\ r.status = "success"
    BY <1>1, <2>1 DEF PanelRequest
  <2>3. /\ form' \in
             [user : UserPanels[b].Users \cup {Nothing}, password : U(b)!Typed,
               password2 : U(b)!Typed,
                      mismatch : BOOLEAN, allValid : BOOLEAN]
        /\ form'.password = Nothing
        /\ saved' \in
             [user : UserPanels[b].Users \cup {Nothing},
               status : {"success", "error", "none"}]
        /\ saved'.user = r.user /\ saved'.status = r.info
    BY <1>1, <2>1, <2>2 DEF U!Empty, U!Typed
  <2>4. PanelTypes(b)'
    <3> DEFINE kept == {q \in requests : FALSE}
    <3>1. requests' = (requests \ {r}) \cup kept /\ \A p \in kept : FALSE
      BY <2>1
    <3> HIDE DEF kept
    <3> QED BY <1>1, <2>1, <2>2, <2>3, <3>1, PanelTyped
  <2>5. Compared' /\ U(b)!ConfirmedPassword'
    BY <2>1, <2>3 DEF UserInv, Compared, U!ConfirmedPassword
  <2>6. SuccessesAdded(b)'
    BY <2>1, <2>3 DEF UserInv, SuccessesAdded, U!SavedWasAdded
  <2>7. ListWillCount'
    <3> SUFFICES ASSUME page = "open", ~crossed
                 PROVE  requests' = {} /\ Len(users') = Cardinality(rows)
      BY <2>1 DEF ListWillCount
    <3>1. requests = {r} /\ Counted(r)
      BY DEF UserInv, ListWillCount
    <3> QED BY <2>1, <2>2, <3>1 DEF Counted
  <2> QED BY <2>4, <2>5, <2>6, <2>7 DEF UserInv
<1>4. CASE U(b)!RemoveAnswered(r)
  <2>1. /\ requests' = requests \ {r} /\ r.kind = "unregister"
        /\ users' = IF r.status = "success" THEN U(b)!ReloadUsers ELSE users
        /\ UNCHANGED <<rows, selected, prompt, form, saved, page, added, crossed, counters>>
    BY <1>4 DEF U!RemoveAnswered
  <2>2. users' \in Seq(UserPanels[b].Users)
    BY <1>1, <2>1, ReloadTakesOne
  <2>3. PanelTypes(b)'
    <3> DEFINE kept == {q \in requests : FALSE}
    <3>1. requests' = (requests \ {r}) \cup kept /\ \A p \in kept : FALSE
      BY <2>1
    <3> HIDE DEF kept
    <3> QED BY <1>1, <2>1, <2>2, <3>1, PanelTyped
  <2>4. Compared' /\ U(b)!ConfirmedPassword' /\ SuccessesAdded(b)'
    BY <2>1 DEF UserInv, Compared, U!ConfirmedPassword, SuccessesAdded, U!SavedWasAdded
  <2>5. ListWillCount'
    <3> SUFFICES ASSUME page = "open", ~crossed
                 PROVE  requests' = {} /\ Len(users') = Cardinality(rows)
      BY <2>1 DEF ListWillCount
    <3>1. requests = {r} /\ Counted(r)
      BY DEF UserInv, ListWillCount
    <3>2. CASE r.status = "success"
      <4>1. Len(users) = Cardinality(rows) + 1 /\ Cardinality(rows) \in Nat
        BY <1>1, <2>1, <3>1, <3>2, FS_CardinalityType DEF Counted
      <4>2. users # <<>>
        BY <4>1
      <4> QED BY <1>1, <2>1, <3>1, <3>2, <4>1, <4>2, ReloadTakesOne
    <3>3. CASE r.status # "success"
      BY <2>1, <3>1, <3>3 DEF Counted
    <3> QED BY <3>2, <3>3
  <2> QED BY <2>3, <2>4, <2>5 DEF UserInv
<1> QED BY <1>2, <1>3, <1>4

(* A request that is rejected breaks the page.                             *)
LEMMA RejectionKeepsUsers ==
  ASSUME NEW b, U(b)!UserParameters, UserInv(b), NEW r \in requests, U(b)!Rejected(r)
  PROVE  UserInv(b)'
<1>1. /\ page' = "broken" /\ requests' = {} /\ counters' = U(b)!Count("fails")
      /\ counters.fails < UserPanels[b].MaxFails
      /\ UNCHANGED <<rows, users, selected, prompt, form, saved, added, crossed>>
  BY DEF U!Rejected
<1>2. PanelTypes(b)'
  <2>1. PanelTypes(b) /\ U(b)!TypeOK /\ U(b)!Typed' = U(b)!Typed
        /\ PanelRequest(b)' = PanelRequest(b)
    BY DEF UserInv, PanelTypes, U!Typed, PanelRequest
  <2>2. U(b)!TypeOK'
    BY <1>1, <2>1, CountWithin DEF U!TypeOK, U!Range
  <2> QED BY <1>1, <2>1, <2>2 DEF PanelTypes
<1> QED BY <1>1, <1>2 DEF UserInv, Compared, U!ConfirmedPassword, SuccessesAdded,
   U!SavedWasAdded, ListWillCount

(* Every step of the panel keeps the invariant.                            *)
LEMMA UserStep ==
  ASSUME NEW b, U(b)!UserParameters, UserInv(b), U(b)!Next \/ UNCHANGED U(b)!vars
  PROVE  UserInv(b)'
<1>1. CASE U(b)!HandleChange
  BY <1>1, EditKeepsUsers
<1>2. CASE (\E u \in UserPanels[b].Users : U(b)!DeletePrompt(u)) \/ U(b)!HandleClose
             \/ UNCHANGED U(b)!vars
  BY <1>2, PromptKeepsUsers
<1>3. CASE U(b)!SubmitForm \/ U(b)!HandleDelete
  BY <1>3, SendKeepsUsers
<1>4. CASE U(b)!Answer
  BY <1>4, ServerKeepsUsers, AnswerKeepsUsers DEF U!Answer
<1>5. CASE \E r \in requests : U(b)!Rejected(r)
  BY <1>5, RejectionKeepsUsers
<1> QED BY <1>1, <1>2, <1>3, <1>4, <1>5 DEF U!Next

-----------------------------------------------------------------------------
(* The pages: the invariant of the part that a behaviour is about.         *)
PagesInv ==
  /\ \A p \in DOMAIN Sessions : part = p => SessionInv(p)
  /\ \A p \in DOMAIN Dashboards : part = p => DashboardInv(p)
  /\ \A p \in DOMAIN UserPanels : part = p => UserInv(p)

(* A behaviour starts as one part, whose invariant holds.                  *)
LEMMA InitPages == PagesInit => PagesInv
<1> SUFFICES ASSUME PagesInit PROVE PagesInv
  OBVIOUS
<1>1. CASE \E p \in DOMAIN Sessions : part = p /\ S(p)!Init
  BY <1>1, PagesAssumption, SessionInit DEF PagesInv
<1>2. CASE \E p \in DOMAIN Dashboards : part = p /\ D(p)!Init
  BY <1>2, PagesAssumption, DashboardInit DEF PagesInv
<1>3. CASE \E p \in DOMAIN UserPanels : part = p /\ U(p)!Init
  BY <1>3, PagesAssumption, UserInit DEF PagesInv
<1> QED BY <1>1, <1>2, <1>3 DEF PagesInit

(* Every step is one of the part, or of none, and keeps its invariant.     *)
LEMMA PagesSteps == PagesInv /\ [PagesNext]_pagesVars => PagesInv'
<1> SUFFICES ASSUME PagesInv, [PagesNext]_pagesVars PROVE PagesInv'
  OBVIOUS
<1>1. CASE \E p \in DOMAIN Sessions : part = p /\ S(p)!Next /\ OnlySession
  <2>1. PICK p \in DOMAIN Sessions : part = p /\ part' = p /\ S(p)!Next
    BY <1>1 DEF OnlySession
  <2>2. SessionInv(p)'
    BY <2>1, PagesAssumption, SessionStep DEF PagesInv
  <2> QED BY <2>1, <2>2, PagesAssumption DEF PagesInv
<1>2. CASE \E p \in DOMAIN Dashboards : part = p /\ D(p)!Next /\ OnlyDashboard
  <2>1. PICK p \in DOMAIN Dashboards : part = p /\ part' = p /\ D(p)!Next
    BY <1>2 DEF OnlyDashboard
  <2>2. DashboardInv(p)'
    BY <2>1, PagesAssumption, DashboardStep DEF PagesInv
  <2> QED BY <2>1, <2>2, PagesAssumption DEF PagesInv
<1>3. CASE \E p \in DOMAIN UserPanels : part = p /\ U(p)!Next /\ OnlyUserPanel
  <2>1. PICK p \in DOMAIN UserPanels : part = p /\ part' = p /\ U(p)!Next
    BY <1>3 DEF OnlyUserPanel
  <2>2. UserInv(p)'
    BY <2>1, PagesAssumption, UserStep DEF PagesInv
  <2> QED BY <2>1, <2>2, PagesAssumption DEF PagesInv
<1>4. CASE UNCHANGED pagesVars
  <2>1. part' = part
        /\ UNCHANGED <<session, dashboard, userPanel, requests, fails, page, selected>>
    BY <1>4 DEF pagesVars
  <2>2. ASSUME NEW p PROVE UNCHANGED S(p)!vars /\ UNCHANGED D(p)!vars /\ UNCHANGED U(p)!vars
    <3>1. UNCHANGED S(p)!vars
      BY <2>1 DEF session, S!vars
    <3>2. UNCHANGED D(p)!vars
      BY <2>1 DEF dashboard, D!vars, D!store, D!header, D!counts
    <3>3. UNCHANGED U(p)!vars
      BY <2>1 DEF userPanel, U!vars
    <3> QED BY <3>1, <3>2, <3>3
  <2>3. ASSUME NEW p \in DOMAIN Sessions, part' = p PROVE SessionInv(p)'
    BY <2>1, <2>2, <2>3, PagesAssumption, SessionStep DEF PagesInv
  <2>4. ASSUME NEW p \in DOMAIN Dashboards, part' = p PROVE DashboardInv(p)'
    BY <2>1, <2>2, <2>4, PagesAssumption, DashboardStep DEF PagesInv
  <2>5. ASSUME NEW p \in DOMAIN UserPanels, part' = p PROVE UserInv(p)'
    BY <2>1, <2>2, <2>5, PagesAssumption, UserStep DEF PagesInv
  <2> QED BY <2>3, <2>4, <2>5 DEF PagesInv
<1> QED BY <1>1, <1>2, <1>3, <1>4 DEF PagesNext

(* The properties follow from the invariant.                               *)
LEMMA PagesShow == PagesInv => TokenOfTab /\ DashboardAgrees /\ UsersAgree
<1> SUFFICES ASSUME PagesInv PROVE TokenOfTab /\ DashboardAgrees /\ UsersAgree
  OBVIOUS
<1>1. TokenOfTab
  <2> SUFFICES ASSUME NEW p \in DOMAIN Sessions, part = p
               PROVE  S(p)!TypeOK /\ S(p)!TokenOfTab
    BY DEF TokenOfTab
  <2>1. SessionInv(p)
    BY DEF PagesInv
  <2> QED BY <2>1, SessionCount DEF SessionInv, SessionTypes, OneToken, S!TokenOfTab
<1>2. DashboardAgrees
  <2> SUFFICES ASSUME NEW b \in DOMAIN Dashboards, part = b
               PROVE  D(b)!TypeOK /\ D(b)!DashboardAgrees
    BY DEF DashboardAgrees
  <2>1. D(b)!DashboardParameters /\ DashboardInv(b)
    BY PagesAssumption DEF PagesInv
  <2>2. D(b)!DashboardAgrees
    BY <2>1, QuietAgrees
  <2> QED BY <2>1, <2>2 DEF DashboardInv
<1>3. UsersAgree
  <2> SUFFICES ASSUME NEW b \in DOMAIN UserPanels, part = b
               PROVE  U(b)!TypeOK /\ U(b)!UsersAgree
    BY DEF UsersAgree
  <2>1. UserInv(b)
    BY DEF PagesInv
  <2>2. U(b)!TypeOK
    BY <2>1 DEF UserInv, PanelTypes
  <2>3. U(b)!UsersAgree
    BY <2>1, UserCount DEF UserInv, SuccessesAdded, ListWillCount, U!ListLength,
       U!UsersAgree
  <2> QED BY <2>2, <2>3
<1> QED BY <1>1, <1>2, <1>3

(* The invariant of the pages, of every session, dashboard and panel.      *)
THEOREM PagesInvariant == PagesSpec => []PagesInv
BY InitPages, PagesSteps, PTL DEF PagesSpec

(* With one tab no order of logins, expiries, refusals and page loads      *)
(* leaves a token in the storage that the page does not know of (Auth.js,  *)
(* store.js, auth/operations.js login).                                    *)
THEOREM TokenOfTabAlways == PagesSpec => []TokenOfTab
BY PagesInvariant, PagesShow, PTL

(* In whatever order answers come: when none is on its way and none        *)
(* failed, the header shows the channel of the store, and one interval     *)
(* polls it unless selections overlapped; the dashboard is shown only when *)
(* each panel has data, of whichever channel; and after at most one        *)
(* selection, without ticks, the activity stream is the header's channel's *)
(* (HeaderView.js, LandingPage.js, DashboardView.js).                      *)
THEOREM DashboardAgreesAlways == PagesSpec => []DashboardAgrees
BY PagesInvariant, PagesShow, PTL

(* Only confirmed passwords are sent, a success that is shown is of a user *)
(* that was added, and the list has the length of the table when answers   *)
(* were awaited (Register.js, Users.js).                                   *)
THEOREM UsersAgreeAlways == PagesSpec => []UsersAgree
BY PagesInvariant, PagesShow, PTL

=============================================================================
