--------------------------- MODULE Server_proofs ---------------------------
(***************************************************************************)
(* Proofs about what the REST server answers and keeps.                    *)
(*                                                                         *)
(* Accounts, for every set of networks, names and concurrent requests, any *)
(* number of rejected queries and crashes: types, that the configured      *)
(* administrators stay, who changes rows, and how many rows a name has.    *)
(*                                                                         *)
(* Tables, for every configuration of lists, look-ups and numbers, any     *)
(* finite database and any number of clicks, answers and failures: what a  *)
(* list shows, what a look-up finds, and that the numbers and the charts   *)
(* of the dashboard agree with the rows that are stored.                   *)
(***************************************************************************)
EXTENDS Accounts, Tables, Sequences, FiniteSetsExt,
        FiniteSetTheorems, SequenceTheorems, WellFoundedInduction, TLAPS

(* What each task has been asked when it waits for a query.  Only the task *)
(* of the start-up asks whether a user exists, and it only registers.      *)
Asked ==
  /\ \A t \in Tasks : pc[t] \in {"role", "find", "create", "destroy"} =>
       req[t].user \in Names /\ req[t].kind # "userlist"
  /\ \A t \in Tasks : pc[t] = "destroy" \/ (pc[t] = "find" /\ req[t].kind = "unregister") =>
       req[t].user # Root[req[t].network]
  /\ pc[Boot] # "idle" =>
       /\ pc[Boot] \in {"exist", "find", "create"}
       /\ req[Boot].network \in Authenticated
       /\ req[Boot] = AdminRequest(req[Boot].network)

(* The server answers requests, the start-up has none.                     *)
Phases ==
  /\ up = "starting" => \A t \in Requests : pc[t] = "idle"
  /\ up = "serving" => pc[Boot] = "idle"

(* A network with authentication that is served, that has a token, a       *)
(* request or a user, has its administrator.                               *)
Concerns(n) ==
  \/ n \in clients
  \/ \E u \in Names : <<u, n>> \in tokens \/ HasRow(n, u)
  \/ \E t \in Requests : pc[t] # "idle" /\ req[t].network = n

Rooted == \A n \in Authenticated : Concerns(n) => IsAdmin(n, Root[n])

(* What hadAdmin records, and that it is set after the role was checked.   *)
Remembered ==
  \A t \in Requests : pc[t] # "idle" =>
    /\ req[t].by \in Names
    /\ IsAdmin(req[t].network, req[t].by) => hadAdmin[t]
    /\ pc[t] \in {"find", "create", "destroy"} => hadAdmin[t]

AccountsInv == TypeOK /\ Asked /\ Phases /\ Rooted /\ Remembered

-----------------------------------------------------------------------------
(* Rows.                                                                   *)

(* registerUser adds one row.                                              *)
LEMMA Registered ==
  ASSUME TypeOK, Asked, NEW t \in Tasks, RegisterUser(t)
  PROVE  /\ rows' \in [Networks -> [Names -> [Roles -> Nat]]]
         /\ \A n \in Networks, u \in Names, r \in Roles :
              rows'[n][u][r] =
                IF n = req[t].network /\ u = req[t].user /\ r = req[t].role
                THEN rows[n][u][r] + 1 ELSE rows[n][u][r]
<1>1. req[t].user \in Names /\ req[t].network \in Networks /\ req[t].role \in Roles
  BY DEF TypeOK, Asked, RegisterUser, Request
<1>2. rows' = [rows EXCEPT ![req[t].network][req[t].user][req[t].role] = @ + 1]
  BY DEF RegisterUser
<1> QED BY <1>1, <1>2 DEF TypeOK

(* unregisterUser takes all rows of one user away.                         *)
LEMMA Unregistered ==
  ASSUME TypeOK, Asked, NEW t \in Tasks, UnregisterUser(t)
  PROVE  /\ rows' \in [Networks -> [Names -> [Roles -> Nat]]]
         /\ \A n \in Networks, u \in Names, r \in Roles :
              rows'[n][u][r] =
                IF n = req[t].network /\ u = req[t].user THEN 0 ELSE rows[n][u][r]
<1>1. req[t].user \in Names /\ req[t].network \in Networks
  BY DEF TypeOK, Asked, UnregisterUser, Request
<1>2. rows' = [rows EXCEPT ![req[t].network][req[t].user] = [r \in Roles |-> 0]]
  BY DEF UnregisterUser
<1> QED BY <1>1, <1>2 DEF TypeOK

-----------------------------------------------------------------------------
(* The invariant.                                                          *)

(* An answer ends the task; the one of registerAdmin may make the client.  *)
LEMMA Answered ==
  ASSUME TypeOK, NEW t \in Tasks, NEW ok \in BOOLEAN, Answer(t, ok)
  PROVE  /\ pc' = [pc EXCEPT ![t] = "idle"] /\ pc' \in [Tasks -> Labels]
         /\ todo' \subseteq Networks /\ clients' \subseteq Networks
         /\ t # Boot => UNCHANGED clients
         /\ clients' \subseteq clients \cup {req[t].network}
         /\ ~ok => UNCHANGED clients
BY DEF TypeOK, Answer, Goto, Labels, Request

(* The initial states.                                                     *)
LEMMA InitInv == Init => AccountsInv
<1> SUFFICES ASSUME Init PROVE AccountsInv
  OBVIOUS
<1> USE NetworksAssumption, NamesAssumption, LimitsAssumption, TasksAssumption
<1>1. \A n \in Networks : AdminRequest(n) \in Request
  BY DEF AdminRequest, Request, Kinds, Roles
<1>2. (CHOOSE n \in Networks : TRUE) \in Networks
  OBVIOUS
<1>3. /\ req \in [Tasks -> Request] /\ pc \in [Tasks -> Labels]
      /\ hadAdmin \in [Tasks -> BOOLEAN]
  BY <1>1, <1>2 DEF Init, Labels
<1>4. rows \in [Networks -> [Names -> [Roles -> Nat]]]
  BY DEF Init
<1>5. TypeOK
  BY <1>3, <1>4 DEF Init, TypeOK
<1>6. Asked /\ Phases /\ Remembered
  BY DEF Init, Asked, Phases, Remembered, Tasks
<1>7. \A n \in Networks, u \in Names : ~HasRow(n, u)
  BY DEF Init, HasRow
<1>8. Rooted
  BY <1>7 DEF Init, Rooted, Concerns, Tasks
<1> QED BY <1>5, <1>6, <1>8 DEF AccountsInv

(* A task goes on to its next query, or is answered, without a change of a *)
(* row.                                                                    *)
LEMMA TaskMoves ==
  ASSUME AccountsInv, NEW t \in Tasks, pc[t] # "idle", NEW label \in Labels,
         pc' = [pc EXCEPT ![t] = label],
         UNCHANGED <<rows, tokens, req, hadAdmin>>,
         up' \in {up, "down"}, todo' \subseteq Networks, clients' \subseteq Networks,
         fails' \in 0 .. MaxFails, crashes' \in 0 .. MaxCrashes,
         label \in {"find", "create", "destroy"} => pc[t] \in {"role", "exist", "find"}
           /\ req[t].user \in Names /\ req[t].kind # "userlist",
         label = "destroy" \/ (label = "find" /\ req[t].kind = "unregister") =>
           req[t].user # Root[req[t].network],
         label \in {"find", "create", "destroy"} /\ t # Boot => hadAdmin[t],
         label \notin {"exist", "role", "list"},
         t = Boot => label # "destroy",
         \A n \in Authenticated : n \in clients' \ clients => IsAdmin(n, Root[n])
  PROVE  AccountsInv'
<1>0. Boot \notin Requests /\ Boot \in Tasks /\ Requests \subseteq Tasks
      /\ Tasks = Requests \cup {Boot} /\ Authenticated \subseteq Networks
  BY TasksAssumption, NetworksAssumption DEF Tasks
<1>1. TypeOK'
  BY DEF AccountsInv, TypeOK
<1>2. pc'[t] = label /\ \A o \in Tasks \ {t} : pc'[o] = pc[o]
  BY DEF AccountsInv, TypeOK
<1>3. Asked'
  <2>1. \A o \in Tasks : pc'[o] \in {"role", "find", "create", "destroy"} =>
          req'[o].user \in Names /\ req'[o].kind # "userlist"
    BY <1>2 DEF AccountsInv, Asked
  <2>2. \A o \in Tasks :
          pc'[o] = "destroy" \/ (pc'[o] = "find" /\ req'[o].kind = "unregister") =>
            req'[o].user # Root[req'[o].network]
    BY <1>2 DEF AccountsInv, Asked
  <2>3. pc'[Boot] # "idle" =>
          pc'[Boot] \in {"exist", "find", "create"} /\ pc[Boot] # "idle"
    BY <1>0, <1>2 DEF AccountsInv, Asked, Labels
  <2> QED BY <2>1, <2>2, <2>3 DEF AccountsInv, Asked, AdminRequest
<1>4. Phases'
  BY <1>0, <1>2 DEF AccountsInv, Phases
<1>5. Rooted'
  <2>1. \A n \in Authenticated : Concerns(n)' => Concerns(n) \/ IsAdmin(n, Root[n])
    BY <1>0, <1>2 DEF Concerns, HasRow
  <2> QED BY <2>1 DEF AccountsInv, Rooted, IsAdmin
<1>6. Remembered'
  BY <1>0, <1>2 DEF AccountsInv, Remembered, IsAdmin, Labels
<1> QED BY <1>1, <1>3, <1>4, <1>5, <1>6 DEF AccountsInv

(* An answer without a change of a row.                                    *)
LEMMA AnswerStep ==
  ASSUME AccountsInv, NEW t \in Tasks, pc[t] # "idle", NEW ok \in BOOLEAN, Answer(t, ok),
         UNCHANGED <<rows, tokens, up, req, hadAdmin, crashes>>, fails' \in 0 .. MaxFails,
         t = Boot /\ ok => IsAdmin(req[t].network, Root[req[t].network])
  PROVE  AccountsInv'
<1>1. /\ pc' = [pc EXCEPT ![t] = "idle"]
      /\ todo' \subseteq Networks /\ clients' \subseteq Networks
      /\ t # Boot => UNCHANGED clients
      /\ clients' \subseteq clients \cup {req[t].network}
      /\ ~ok => UNCHANGED clients
  BY Answered DEF AccountsInv
<1>2. \A n \in Authenticated : n \in clients' \ clients => IsAdmin(n, Root[n])
  BY <1>1
<1>3. "idle" \in Labels /\ crashes' \in 0 .. MaxCrashes
  BY DEF Labels, AccountsInv, TypeOK
<1> QED BY <1>1, <1>2, <1>3, TaskMoves

(* A query is answered by the table and no row changes.                    *)
LEMMA QueryStep ==
  ASSUME AccountsInv, NEW t \in Tasks,
         IsExist \/ IsAdminRole(t) \/ Find(t) \/ GetUserlist(t) \/ QueryFails(t)
  PROVE  AccountsInv'
<1>0. /\ TRUE \in BOOLEAN /\ FALSE \in BOOLEAN /\ Boot \in Tasks
      /\ {"idle", "find", "create", "destroy"} \subseteq Labels
      /\ fails \in 0 .. MaxFails /\ crashes \in 0 .. MaxCrashes
      /\ todo \subseteq Networks /\ clients \subseteq Networks
      /\ \A o \in Tasks : req[o] \in Request
  BY DEF Tasks, Labels, AccountsInv, TypeOK
<1>1. CASE IsExist
  <2>1. pc[Boot] = "exist" /\ UNCHANGED <<rows, tokens, up, req, hadAdmin, fails, crashes>>
    BY <1>1 DEF IsExist
  <2>2. /\ req[Boot].network \in Authenticated /\ req[Boot].user = Root[req[Boot].network]
        /\ req[Boot].kind = "register" /\ req[Boot].user \in Names
    BY <2>1, NamesAssumption, NetworksAssumption DEF AccountsInv, Asked, AdminRequest
  <2>3. CASE HasRow(req[Boot].network, req[Boot].user)
    <3>1. Answer(Boot, TRUE)
      BY <1>1, <2>3 DEF IsExist
    <3>2. IsAdmin(req[Boot].network, Root[req[Boot].network])
      BY <2>2, <2>3 DEF AccountsInv, Rooted, Concerns
    <3> QED BY <1>0, <2>1, <3>1, <3>2, AnswerStep
  <2>4. CASE ~HasRow(req[Boot].network, req[Boot].user)
    <3>1. pc' = [pc EXCEPT ![Boot] = "find"] /\ UNCHANGED <<todo, clients>>
      BY <1>1, <2>4 DEF IsExist, Goto
    <3> QED BY <1>0, <2>1, <2>2, <3>1, TaskMoves
  <2> QED BY <2>3, <2>4
<1>2. CASE IsAdminRole(t)
  <2>1. pc[t] = "role" /\ UNCHANGED <<rows, tokens, up, req, hadAdmin, fails, crashes>>
    BY <1>2 DEF IsAdminRole
  <2>2. t \in Requests /\ t # Boot
    BY <2>1, TasksAssumption DEF AccountsInv, Asked, Tasks
  <2>3. CASE Answer(t, FALSE)
    BY <1>0, <2>1, <2>3, AnswerStep
  <2>4. ASSUME NEW found \in FindUser(req[t].network, req[t].by), found = "admin",
               req[t].kind = "unregister" => MayUnregister(req[t]), Goto(t, "find"),
               UNCHANGED <<todo, clients>>
        PROVE  AccountsInv'
    <3>1. IsAdmin(req[t].network, req[t].by)
      BY <2>4 DEF FindUser, IsAdmin
    <3>2. hadAdmin[t] /\ req[t].user \in Names /\ req[t].kind # "userlist"
      BY <2>1, <2>2, <3>1 DEF AccountsInv, Remembered, Asked
    <3>3. req[t].kind = "unregister" => req[t].user # Root[req[t].network]
      BY <2>4 DEF MayUnregister
    <3> QED BY <1>0, <2>1, <2>2, <2>4, <3>2, <3>3, TaskMoves DEF Goto
  <2> QED BY <1>2, <2>3, <2>4 DEF IsAdminRole
<1>3. CASE Find(t)
  <2>1. pc[t] = "find" /\ UNCHANGED <<rows, tokens, up, req, hadAdmin, fails, crashes>>
    BY <1>3 DEF Find
  <2>2. CASE Answer(t, FALSE)
    BY <1>0, <2>1, <2>2, AnswerStep
  <2>3. CASE /\ Goto(t, IF req[t].kind = "register" THEN "create" ELSE "destroy")
             /\ HasRow(req[t].network, req[t].user) = (req[t].kind = "unregister")
             /\ UNCHANGED <<todo, clients>>
    <3>1. /\ req[t].user \in Names /\ req[t].kind # "userlist"
          /\ t # Boot => hadAdmin[t]
          /\ t = Boot => req[t].kind = "register"
      BY <2>1 DEF AccountsInv, Asked, Remembered, Tasks, AdminRequest
    <3>2. CASE req[t].kind = "register"
      <4>1. pc' = [pc EXCEPT ![t] = "create"]
        BY <2>3, <3>2 DEF Goto
      <4> QED BY <1>0, <2>1, <2>3, <3>1, <3>2, <4>1, TaskMoves
    <3>3. CASE req[t].kind # "register"
      <4>1. pc' = [pc EXCEPT ![t] = "destroy"]
        BY <2>3, <3>3 DEF Goto
      <4>2. req[t].kind = "unregister"
        BY <1>0, <3>1, <3>3 DEF Request, Kinds
      <4>3. req[t].user # Root[req[t].network]
        BY <2>1, <4>2 DEF AccountsInv, Asked
      <4> QED BY <1>0, <2>1, <2>3, <3>1, <4>1, <4>2, <4>3, TaskMoves
    <3> QED BY <3>2, <3>3
  <2> QED BY <1>3, <2>2, <2>3 DEF Find
<1>4. CASE GetUserlist(t)
  <2>1. /\ pc[t] = "list" /\ Answer(t, TRUE)
        /\ UNCHANGED <<rows, tokens, up, req, hadAdmin, fails, crashes>>
    BY <1>4 DEF GetUserlist
  <2>2. t # Boot
    BY <2>1 DEF AccountsInv, Asked
  <2> QED BY <1>0, <2>1, <2>2, AnswerStep
<1>5. CASE QueryFails(t)
  <2>1. /\ pc[t] # "idle" /\ fails' \in 0 .. MaxFails
        /\ UNCHANGED <<rows, tokens, req, hadAdmin, crashes>>
    BY <1>0, <1>5, LimitsAssumption DEF QueryFails
  <2>2. CASE up' = "down" /\ Goto(t, "idle") /\ UNCHANGED <<todo, clients>>
    BY <1>0, <2>1, <2>2, TaskMoves DEF Goto
  <2>3. CASE Answer(t, FALSE) /\ UNCHANGED up
    BY <1>0, <2>1, <2>3, AnswerStep
  <2> QED BY <1>5, <2>2, <2>3 DEF QueryFails
<1> QED BY <1>1, <1>2, <1>3, <1>4, <1>5

(* A row is added: by the start-up for its administrator, or by a request  *)
(* in a network that has its administrator.                                *)
LEMMA RegisterStep ==
  ASSUME AccountsInv, NEW t \in Tasks, RegisterUser(t)
  PROVE  AccountsInv'
<1>0. /\ Boot \notin Requests /\ Boot \in Tasks /\ Requests \subseteq Tasks
      /\ Tasks = Requests \cup {Boot} /\ Authenticated \subseteq Networks
      /\ Root \in [Networks -> Names] /\ "admin" \in Roles /\ req[t] \in Request
  BY TasksAssumption, NetworksAssumption, NamesAssumption
     DEF Tasks, Roles, AccountsInv, TypeOK
<1>1. /\ pc[t] = "create" /\ Answer(t, TRUE) /\ Remember
      /\ UNCHANGED <<tokens, up, req, fails, crashes>>
  BY DEF RegisterUser
<1>2. /\ rows' \in [Networks -> [Names -> [Roles -> Nat]]]
      /\ \A n \in Networks, u \in Names, r \in Roles :
           rows'[n][u][r] =
             IF n = req[t].network /\ u = req[t].user /\ r = req[t].role
             THEN rows[n][u][r] + 1 ELSE rows[n][u][r]
  BY Registered DEF AccountsInv
<1>3. /\ pc' = [pc EXCEPT ![t] = "idle"] /\ pc' \in [Tasks -> Labels]
      /\ todo' \subseteq Networks /\ clients' \subseteq Networks
      /\ t # Boot => UNCHANGED clients
      /\ clients' \subseteq clients \cup {req[t].network}
  BY <1>1, Answered DEF AccountsInv
<1>4. pc'[t] = "idle" /\ \A o \in Tasks \ {t} : pc'[o] = pc[o]
  BY <1>3 DEF AccountsInv, TypeOK
<1>5. hadAdmin' \in [Tasks -> BOOLEAN]
  BY <1>1 DEF Remember, AccountsInv, TypeOK
<1>6. TypeOK'
  BY <1>1, <1>2, <1>3, <1>5 DEF AccountsInv, TypeOK
<1>7. Asked'
  BY <1>0, <1>1, <1>4 DEF AccountsInv, Asked, AdminRequest
<1>8. Phases'
  BY <1>0, <1>1, <1>4 DEF AccountsInv, Phases
<1>9. Rooted'
  <2> SUFFICES ASSUME NEW n \in Authenticated, Concerns(n)'
               PROVE  rows'[n][Root[n]]["admin"] > 0
    BY DEF Rooted, IsAdmin
  <2>1. n \in Networks /\ Root[n] \in Names /\ rows[n][Root[n]]["admin"] \in Nat
    BY <1>0 DEF AccountsInv, TypeOK
  <2>2. IsAdmin(n, Root[n]) => rows'[n][Root[n]]["admin"] > 0
    BY <1>0, <1>2, <2>1 DEF IsAdmin
  <2>3. CASE n # req[t].network
    <3>1. \A u \in Names : HasRow(n, u)' => HasRow(n, u)
      BY <1>2, <2>1, <2>3 DEF HasRow
    <3>2. Concerns(n)
      BY <1>0, <1>1, <1>3, <1>4, <2>3, <3>1 DEF Concerns
    <3> QED BY <2>2, <3>2 DEF AccountsInv, Rooted
  <2>4. CASE n = req[t].network /\ t \in Requests
    <3>1. Concerns(n)
      BY <1>1, <2>4 DEF Concerns
    <3> QED BY <2>2, <3>1 DEF AccountsInv, Rooted
  <2>5. CASE n = req[t].network /\ t = Boot
    <3>1. req[t].user = Root[n] /\ req[t].role = "admin"
      BY <1>1, <2>5 DEF AccountsInv, Asked, AdminRequest
    <3> QED BY <1>0, <1>2, <2>1, <2>5, <3>1
  <2> QED BY <1>0, <2>3, <2>4, <2>5
<1>10. Remembered'
  <2> SUFFICES ASSUME NEW o \in Requests, pc'[o] # "idle"
               PROVE  /\ req[o].by \in Names
                      /\ rows'[req[o].network][req[o].by]["admin"] > 0 => hadAdmin'[o]
                      /\ pc'[o] \in {"find", "create", "destroy"} => hadAdmin'[o]
    BY <1>1 DEF Remembered, IsAdmin
  <2>1. o \in Tasks /\ pc'[o] = pc[o] /\ req[o].by \in Names
    BY <1>0, <1>4 DEF AccountsInv, Remembered
  <2>2. hadAdmin'[o] = (hadAdmin[o] \/ rows'[req[o].network][req[o].by]["admin"] > 0)
    BY <1>1, <2>1 DEF Remember
  <2>3. pc[o] \in {"find", "create", "destroy"} => hadAdmin[o]
    BY <2>1 DEF AccountsInv, Remembered
  <2> QED BY <2>1, <2>2, <2>3
<1> QED BY <1>6, <1>7, <1>8, <1>9, <1>10 DEF AccountsInv

(* The rows of a user go, who is not the administrator of the network.     *)
LEMMA UnregisterStep ==
  ASSUME AccountsInv, NEW t \in Tasks, UnregisterUser(t)
  PROVE  AccountsInv'
<1>0. /\ Boot \notin Requests /\ Boot \in Tasks /\ Requests \subseteq Tasks
      /\ Tasks = Requests \cup {Boot} /\ Authenticated \subseteq Networks
      /\ Root \in [Networks -> Names] /\ "admin" \in Roles /\ req[t] \in Request
  BY TasksAssumption, NetworksAssumption, NamesAssumption
     DEF Tasks, Roles, AccountsInv, TypeOK
<1>1. /\ pc[t] = "destroy" /\ Answer(t, TRUE) /\ Remember
      /\ UNCHANGED <<tokens, up, req, fails, crashes>>
  BY DEF UnregisterUser
<1>2. /\ rows' \in [Networks -> [Names -> [Roles -> Nat]]]
      /\ \A n \in Networks, u \in Names, r \in Roles :
           rows'[n][u][r] =
             IF n = req[t].network /\ u = req[t].user THEN 0 ELSE rows[n][u][r]
  BY Unregistered DEF AccountsInv
<1>3. t # Boot /\ req[t].user # Root[req[t].network]
  BY <1>0, <1>1 DEF AccountsInv, Asked
<1>4. /\ pc' = [pc EXCEPT ![t] = "idle"] /\ pc' \in [Tasks -> Labels]
      /\ todo' \subseteq Networks /\ UNCHANGED clients
  BY <1>1, <1>3, Answered DEF AccountsInv
<1>5. pc'[t] = "idle" /\ \A o \in Tasks \ {t} : pc'[o] = pc[o]
  BY <1>4 DEF AccountsInv, TypeOK
<1>6. hadAdmin' \in [Tasks -> BOOLEAN]
  BY <1>1 DEF Remember, AccountsInv, TypeOK
<1>7. TypeOK'
  BY <1>1, <1>2, <1>4, <1>6 DEF AccountsInv, TypeOK
<1>8. Asked'
  BY <1>0, <1>1, <1>5 DEF AccountsInv, Asked, AdminRequest
<1>9. Phases'
  BY <1>0, <1>1, <1>5 DEF AccountsInv, Phases
<1>10. Rooted'
  <2> SUFFICES ASSUME NEW n \in Authenticated, Concerns(n)'
               PROVE  rows'[n][Root[n]]["admin"] > 0
    BY DEF Rooted, IsAdmin
  <2>1. n \in Networks /\ Root[n] \in Names
    BY <1>0
  <2>2. \A u \in Names : HasRow(n, u)' => HasRow(n, u)
    BY <1>2, <2>1 DEF HasRow
  <2>3. Concerns(n)
    BY <1>0, <1>1, <1>4, <1>5, <2>2 DEF Concerns
  <2>4. rows[n][Root[n]]["admin"] > 0
    BY <2>3 DEF AccountsInv, Rooted, IsAdmin
  <2> QED BY <1>0, <1>2, <1>3, <2>1, <2>4
<1>11. Remembered'
  <2> SUFFICES ASSUME NEW o \in Requests, pc'[o] # "idle"
               PROVE  /\ req[o].by \in Names
                      /\ rows'[req[o].network][req[o].by]["admin"] > 0 => hadAdmin'[o]
                      /\ pc'[o] \in {"find", "create", "destroy"} => hadAdmin'[o]
    BY <1>1 DEF Remembered, IsAdmin
  <2>1. o \in Tasks /\ pc'[o] = pc[o] /\ req[o].by \in Names
    BY <1>0, <1>5 DEF AccountsInv, Remembered
  <2>2. hadAdmin'[o] = (hadAdmin[o] \/ rows'[req[o].network][req[o].by]["admin"] > 0)
    BY <1>1, <2>1 DEF Remember
  <2>3. pc[o] \in {"find", "create", "destroy"} => hadAdmin[o]
    BY <2>1 DEF AccountsInv, Remembered
  <2> QED BY <2>1, <2>2, <2>3
<1> QED BY <1>7, <1>8, <1>9, <1>10, <1>11 DEF AccountsInv

(* The administrator of the next network is looked up, or its client is    *)
(* made without.                                                           *)
LEMMA RegisterAdminStep ==
  ASSUME AccountsInv, NEW n \in Networks, RegisterAdmin(n)
  PROVE  AccountsInv'
<1>0. /\ Boot \notin Requests /\ Boot \in Tasks /\ Requests \subseteq Tasks
      /\ Tasks = Requests \cup {Boot} /\ Authenticated \subseteq Networks
      /\ Root \in [Networks -> Names]
  BY TasksAssumption, NetworksAssumption, NamesAssumption DEF Tasks
<1>1. /\ up = "starting" /\ pc[Boot] = "idle"
      /\ UNCHANGED <<rows, tokens, up, hadAdmin, fails, crashes>>
  BY DEF RegisterAdmin
<1>2. CASE /\ n \in Authenticated /\ Goto(Boot, "exist")
           /\ req' = [req EXCEPT ![Boot] = AdminRequest(n)]
           /\ UNCHANGED <<todo, clients>>
  <2>1. AdminRequest(n) \in Request
    BY <1>0 DEF AdminRequest, Request, Kinds, Roles
  <2>2. pc' \in [Tasks -> Labels] /\ req' \in [Tasks -> Request]
    BY <1>2, <2>1 DEF Goto, Labels, AccountsInv, TypeOK
  <2>3. /\ pc'[Boot] = "exist" /\ req'[Boot] = AdminRequest(n)
        /\ \A t \in Requests : pc'[t] = pc[t] /\ req'[t] = req[t]
    BY <1>0, <1>2 DEF Goto, AccountsInv, TypeOK
  <2>4. TypeOK'
    BY <1>1, <1>2, <2>2 DEF AccountsInv, TypeOK
  <2>5. Asked'
    BY <1>0, <1>2, <2>3 DEF AccountsInv, Asked, AdminRequest
  <2>6. Phases'
    BY <1>1, <2>3 DEF AccountsInv, Phases
  <2>7. Rooted'
    BY <1>1, <1>2, <2>3 DEF AccountsInv, Rooted, Concerns, HasRow, IsAdmin
  <2>8. Remembered'
    BY <1>1, <2>3 DEF AccountsInv, Remembered, IsAdmin
  <2> QED BY <2>4, <2>5, <2>6, <2>7, <2>8 DEF AccountsInv
<1>3. CASE /\ todo' = todo \ {n} /\ UNCHANGED <<pc, req>>
           /\ clients' = clients \/ (n \notin Authenticated /\ clients' = clients \cup {n})
  <2>1. TypeOK'
    BY <1>1, <1>3 DEF AccountsInv, TypeOK
  <2>2. Rooted'
    BY <1>1, <1>3 DEF AccountsInv, Rooted, Concerns, HasRow, IsAdmin
  <2> QED BY <1>1, <1>3, <2>1, <2>2
          DEF AccountsInv, Asked, AdminRequest, Phases, Remembered, IsAdmin
<1> QED BY <1>2, <1>3 DEF RegisterAdmin

(* A login gives a token for a network with a client.                      *)
LEMMA LoginStep ==
  ASSUME AccountsInv, NEW u \in Names, NEW n \in Networks, Login(u, n)
  PROVE  AccountsInv'
<1>1. /\ up = "serving" /\ n \in clients /\ up' \in {up, "down"}
      /\ tokens' \subseteq tokens \cup {<<u, n>>} /\ fails' \in 0 .. MaxFails
      /\ UNCHANGED <<rows, todo, clients, pc, req, hadAdmin, crashes>>
  BY LimitsAssumption DEF Login, AccountsInv, TypeOK
<1>2. TypeOK'
  BY <1>1 DEF AccountsInv, TypeOK
<1>3. \A m \in Networks : Concerns(m)' => Concerns(m)
  BY <1>1 DEF Concerns, HasRow
<1>4. Rooted'
  BY <1>1, <1>3, NetworksAssumption DEF AccountsInv, Rooted, IsAdmin
<1> QED BY <1>1, <1>2, <1>4
        DEF AccountsInv, Asked, AdminRequest, Phases, Remembered, IsAdmin

(* A request comes with a token of its network.                            *)
LEMMA ReceiveStep ==
  ASSUME AccountsInv, NEW t \in Requests, NEW k \in tokens, Receive(t, k)
  PROVE  AccountsInv'
<1>0. /\ Boot \notin Requests /\ Boot \in Tasks /\ t \in Tasks /\ t # Boot
      /\ Tasks = Requests \cup {Boot} /\ Authenticated \subseteq Networks
  BY TasksAssumption, NetworksAssumption DEF Tasks
<1>1. /\ up = "serving" /\ pc[t] = "idle"
      /\ hadAdmin' = [hadAdmin EXCEPT ![t] = IsAdmin(k[2], k[1])]
      /\ UNCHANGED <<rows, tokens, up, todo, clients, fails, crashes>>
  BY DEF Receive
<1>2. k[1] \in Names /\ k[2] \in Networks /\ k = <<k[1], k[2]>>
  BY DEF AccountsInv, TypeOK
<1>3. PICK kind \in Kinds, u \in Names \cup {None}, r \in Roles :
        /\ kind = "userlist" => u = None
        /\ req' = [req EXCEPT ![t] = [kind |-> kind, by |-> k[1], network |-> k[2],
                                      user |-> u, role |-> r]]
        /\ pc' = [pc EXCEPT ![t] = FirstQuery(kind, u)]
  BY DEF Receive, Goto
<1>4. /\ FirstQuery(kind, u) \in {"list", "idle", "role"}
      /\ FirstQuery(kind, u) = "role" => u \in Names /\ kind # "userlist"
  BY DEF FirstQuery, Kinds
<1>5. pc' \in [Tasks -> Labels] /\ req' \in [Tasks -> Request]
  BY <1>2, <1>3, <1>4 DEF AccountsInv, TypeOK, Labels, Request
<1>6. hadAdmin' \in [Tasks -> BOOLEAN]
  BY <1>0, <1>1 DEF AccountsInv, TypeOK, IsAdmin
<1>7. TypeOK'
  BY <1>1, <1>5, <1>6 DEF AccountsInv, TypeOK
<1>8. /\ pc'[t] = FirstQuery(kind, u) /\ req'[t].user = u /\ req'[t].kind = kind
      /\ req'[t].by = k[1] /\ req'[t].network = k[2]
      /\ hadAdmin'[t] = IsAdmin(k[2], k[1])
      /\ \A o \in Tasks \ {t} :
           pc'[o] = pc[o] /\ req'[o] = req[o] /\ hadAdmin'[o] = hadAdmin[o]
  BY <1>0, <1>1, <1>3 DEF AccountsInv, TypeOK
<1>9. Asked'
  BY <1>0, <1>4, <1>8 DEF AccountsInv, Asked, AdminRequest
<1>10. Phases'
  BY <1>0, <1>1, <1>8 DEF AccountsInv, Phases
<1>11. Rooted'
  <2>1. Concerns(k[2])
    BY <1>2 DEF Concerns
  <2>2. ASSUME NEW n \in Networks, n # k[2], Concerns(n)' PROVE Concerns(n)
    <3>1. CASE \E o \in Requests : pc'[o] # "idle" /\ req'[o].network = n
      <4>1. PICK o \in Requests \ {t} : pc[o] # "idle" /\ req[o].network = n
        BY <1>0, <1>8, <2>2, <3>1
      <4> QED BY <4>1 DEF Concerns
    <3> QED BY <1>1, <2>2, <3>1 DEF Concerns, HasRow
  <2> QED BY <1>0, <1>1, <2>1, <2>2 DEF AccountsInv, Rooted, IsAdmin
<1>12. Remembered'
  <2> SUFFICES ASSUME NEW o \in Requests, pc'[o] # "idle"
               PROVE  /\ req'[o].by \in Names
                      /\ IsAdmin(req'[o].network, req'[o].by) => hadAdmin'[o]
                      /\ pc'[o] \in {"find", "create", "destroy"} => hadAdmin'[o]
    BY <1>1 DEF Remembered, IsAdmin
  <2>1. CASE o = t
    BY <1>2, <1>4, <1>8, <2>1
  <2>2. CASE o # t
    BY <1>0, <1>8, <2>2 DEF AccountsInv, Remembered
  <2> QED BY <2>1, <2>2
<1> QED BY <1>7, <1>9, <1>10, <1>11, <1>12 DEF AccountsInv

(* The server listens, a token expires, the process ends or starts again.  *)
LEMMA LifeStep ==
  ASSUME AccountsInv,
         Listen \/ (\E k \in tokens : Expire(k)) \/ Crash \/ Restart \/ UNCHANGED vars
  PROVE  AccountsInv'
<1>1. CASE Listen
  <2>1. /\ pc[Boot] = "idle" /\ up' \in {"down", "serving"}
        /\ UNCHANGED <<rows, tokens, todo, clients, pc, req, hadAdmin, fails, crashes>>
    BY <1>1 DEF Listen
  <2> QED BY <2>1 DEF AccountsInv, TypeOK, Asked, AdminRequest, Phases, Rooted, Concerns,
                      HasRow, IsAdmin, Remembered
<1>2. CASE \E k \in tokens : Expire(k)
  <2>1. /\ tokens' \subseteq tokens
        /\ UNCHANGED <<rows, up, todo, clients, pc, req, hadAdmin, fails, crashes>>
    BY <1>2 DEF Expire
  <2> QED BY <2>1 DEF AccountsInv, TypeOK, Asked, AdminRequest, Phases, Rooted, Concerns,
                      HasRow, IsAdmin, Remembered
<1>3. CASE Crash
  <2>1. /\ up' = "down" /\ crashes' \in 0 .. MaxCrashes
        /\ UNCHANGED <<rows, tokens, todo, clients, pc, req, hadAdmin, fails>>
    BY <1>3, LimitsAssumption DEF Crash, AccountsInv, TypeOK
  <2> QED BY <2>1 DEF AccountsInv, TypeOK, Asked, AdminRequest, Phases, Rooted, Concerns,
                      HasRow, IsAdmin, Remembered
<1>4. CASE Restart
  <2>1. /\ up' = "starting" /\ todo' = Networks /\ clients' = {}
        /\ pc' = [t \in Tasks |-> "idle"]
        /\ UNCHANGED <<rows, tokens, req, hadAdmin, fails, crashes>>
    BY <1>4 DEF Restart
  <2>2. TypeOK'
    BY <2>1 DEF AccountsInv, TypeOK, Labels
  <2>3. \A t \in Tasks : pc'[t] = "idle"
    BY <2>1
  <2> QED BY <2>1, <2>2, <2>3 DEF AccountsInv, Asked, Phases, Rooted, Concerns, HasRow,
                                  IsAdmin, Remembered, Tasks
<1>5. CASE UNCHANGED vars
  BY <1>5 DEF vars, AccountsInv, TypeOK, Asked, AdminRequest, Phases, Rooted, Concerns,
              HasRow, IsAdmin, Remembered
<1> QED BY <1>1, <1>2, <1>3, <1>4, <1>5

(* Every step keeps the invariant.                                         *)
LEMMA NextInv == AccountsInv /\ [Next]_vars => AccountsInv'
BY QueryStep, RegisterStep, UnregisterStep, RegisterAdminStep, LoginStep, ReceiveStep,
   LifeStep DEF Next, Query, Tasks

-----------------------------------------------------------------------------
(* Rows of one name.                                                       *)

(* The tasks that are about to add a row of a user: each found none.       *)
Creating(n, u) ==
  {t \in Tasks : pc[t] = "create" /\ req[t].network = n /\ req[t].user = u}

Bounded ==
  \A n \in Networks, u \in Names :
    UserRows(n, u) + Cardinality(Creating(n, u)) <= Cardinality(Requests)

(* The tasks are finitely many.                                            *)
LEMMA Counted ==
  ASSUME NEW n, NEW u
  PROVE  /\ IsFiniteSet(Creating(n, u)) /\ Cardinality(Creating(n, u)) \in Nat
         /\ IsFiniteSet(Creating(n, u)') /\ Cardinality(Creating(n, u)') \in Nat
         /\ Cardinality(Requests) \in Nat \ {0}
<1>1. IsFiniteSet(Tasks)
  BY TasksAssumption, FS_AddElement DEF Tasks
<1>2. Creating(n, u) \subseteq Tasks /\ Creating(n, u)' \subseteq Tasks
  BY DEF Creating
<1>3. IsFiniteSet(Creating(n, u)) /\ IsFiniteSet(Creating(n, u)')
  BY <1>1, <1>2, FS_Subset
<1>4. Cardinality(Requests) \in Nat /\ Cardinality(Requests) # 0
  BY TasksAssumption, FS_CardinalityType, FS_EmptySet
<1> QED BY <1>3, <1>4, FS_CardinalityType

(* Steps that bring no task to an insertion and add no row.                *)
LEMMA NoMoreRows ==
  ASSUME AccountsInv, AccountsInv', Bounded,
         \A n \in Networks, u \in Names :
           Creating(n, u)' \subseteq Creating(n, u) /\ UserRows(n, u)' <= UserRows(n, u)
  PROVE  Bounded'
<1> SUFFICES ASSUME NEW n \in Networks, NEW u \in Names
             PROVE  UserRows(n, u)' + Cardinality(Creating(n, u)') <= Cardinality(Requests)
  BY DEF Bounded
<1>1. Cardinality(Creating(n, u)') <= Cardinality(Creating(n, u))
  BY Counted, FS_Subset
<1>2. UserRows(n, u) \in Nat /\ UserRows(n, u)' \in Nat
  BY DEF AccountsInv, TypeOK, UserRows, Roles
<1> QED BY <1>1, <1>2, Counted DEF Bounded

(* A user that was not found is about to be added, by requests or by the   *)
(* start-up alone.                                                         *)
LEMMA FindBound ==
  ASSUME AccountsInv, AccountsInv', Bounded, Running, NEW t \in Tasks, Find(t)
  PROVE  Bounded'
<1>1. /\ UNCHANGED <<rows, req, up>> /\ pc[t] = "find"
      /\ \A o \in Tasks \ {t} : pc'[o] = pc[o]
  BY DEF Find, Answer, Goto, AccountsInv, TypeOK
<1> SUFFICES ASSUME NEW n \in Networks, NEW u \in Names
             PROVE  UserRows(n, u)' + Cardinality(Creating(n, u)') <= Cardinality(Requests)
  BY DEF Bounded
<1>2. UserRows(n, u)' = UserRows(n, u) /\ UserRows(n, u) \in Nat
  BY <1>1 DEF AccountsInv, TypeOK, UserRows, Roles
<1>3. CASE pc'[t] = "create" /\ req[t].network = n /\ req[t].user = u
  <2>1. UserRows(n, u) = 0
    <3>1. ~HasRow(n, u)
      BY <1>1, <1>3 DEF Find, Answer, Goto, AccountsInv, TypeOK
    <3> QED BY <3>1 DEF HasRow, UserRows, Roles, AccountsInv, TypeOK
  <2>2. Cardinality(Creating(n, u)') <= Cardinality(Requests)
    <3>1. CASE up = "serving"
      <4>1. Creating(n, u)' \subseteq Requests
        BY <1>1, <3>1 DEF Creating, AccountsInv, Phases, Tasks
      <4> QED BY <4>1, TasksAssumption, FS_Subset
    <3>2. CASE up = "starting"
      <4>1. Creating(n, u)' \subseteq {Boot}
        BY <1>1, <3>2 DEF Creating, AccountsInv, Phases, Tasks
      <4>2. Creating(n, u)' = {} \/ Creating(n, u)' = {Boot}
        BY <4>1
      <4>3. Cardinality(Creating(n, u)') <= 1
        BY <4>2, FS_EmptySet, FS_Singleton
      <4> QED BY <4>3, Counted
    <3> QED BY <3>1, <3>2 DEF Running, AccountsInv, TypeOK
  <2> QED BY <1>2, <2>1, <2>2, Counted
<1>4. CASE ~(pc'[t] = "create" /\ req[t].network = n /\ req[t].user = u)
  <2>1. Creating(n, u)' \subseteq Creating(n, u)
    BY <1>1, <1>4 DEF Creating
  <2>2. Cardinality(Creating(n, u)') <= Cardinality(Creating(n, u))
    BY <2>1, Counted, FS_Subset
  <2> QED BY <1>2, <2>2, Counted DEF Bounded
<1> QED BY <1>3, <1>4

(* A task that adds a row is no longer about to.                           *)
LEMMA RegisterBound ==
  ASSUME AccountsInv, AccountsInv', Bounded, NEW t \in Tasks, RegisterUser(t)
  PROVE  Bounded'
<1>1. /\ UNCHANGED req /\ pc[t] = "create" /\ pc'[t] = "idle"
      /\ \A o \in Tasks \ {t} : pc'[o] = pc[o]
  BY DEF RegisterUser, Answer, Goto, AccountsInv, TypeOK
<1> SUFFICES ASSUME NEW n \in Networks, NEW u \in Names
             PROVE  UserRows(n, u)' + Cardinality(Creating(n, u)') <= Cardinality(Requests)
  BY DEF Bounded
<1>2. UserRows(n, u) \in Nat /\ UserRows(n, u)' \in Nat
  BY DEF AccountsInv, TypeOK, UserRows, Roles
<1>3. \A r \in Roles :
        /\ rows[n][u][r] \in Nat
        /\ rows'[n][u][r] =
             IF n = req[t].network /\ u = req[t].user /\ r = req[t].role
             THEN rows[n][u][r] + 1 ELSE rows[n][u][r]
  BY Registered DEF AccountsInv, TypeOK
<1>4. CASE req[t].network = n /\ req[t].user = u
  <2>1. UserRows(n, u)' <= UserRows(n, u) + 1
    BY <1>3 DEF UserRows, Roles
  <2>2. Creating(n, u)' = Creating(n, u) \ {t} /\ t \in Creating(n, u)
    BY <1>1, <1>4 DEF Creating
  <2>3. Cardinality(Creating(n, u)') = Cardinality(Creating(n, u)) - 1
    BY <2>2, Counted, FS_RemoveElement
  <2> QED BY <1>2, <2>1, <2>3, Counted DEF Bounded
<1>5. CASE ~(req[t].network = n /\ req[t].user = u)
  <2>1. UserRows(n, u)' = UserRows(n, u)
    BY <1>3, <1>5 DEF UserRows, Roles
  <2>2. Creating(n, u)' \subseteq Creating(n, u)
    BY <1>1 DEF Creating
  <2>3. Cardinality(Creating(n, u)') <= Cardinality(Creating(n, u))
    BY <2>2, Counted, FS_Subset
  <2> QED BY <1>2, <2>1, <2>3, Counted DEF Bounded
<1> QED BY <1>4, <1>5

(* Every step keeps the bound.                                             *)
LEMMA BoundedInv ==
  ASSUME AccountsInv, AccountsInv', Bounded, [Next]_vars
  PROVE  Bounded'
<1>0. \A n \in Networks, u \in Names : UserRows(n, u) \in Nat
  BY DEF AccountsInv, TypeOK, UserRows, Roles
<1>1. ASSUME UNCHANGED rows,
             \A t \in Tasks : pc'[t] = "create" => pc[t] = "create" /\ req'[t] = req[t]
      PROVE  Bounded'
  <2>1. \A n \in Networks, u \in Names : Creating(n, u)' \subseteq Creating(n, u)
    BY <1>1 DEF Creating
  <2>2. \A n \in Networks, u \in Names : UserRows(n, u)' <= UserRows(n, u)
    BY <1>0, <1>1 DEF UserRows
  <2> QED BY <2>1, <2>2, NoMoreRows
<1>2. ASSUME NEW t \in Tasks, Running, Query(t) PROVE Bounded'
  <2>1. CASE IsAdminRole(t) \/ GetUserlist(t) \/ QueryFails(t)
    BY <1>1, <2>1 DEF IsAdminRole, GetUserlist, QueryFails, Answer, Goto, AccountsInv,
                      TypeOK
  <2>2. CASE UnregisterUser(t)
    <3>1. /\ \A o \in Tasks : pc'[o] = "create" => pc[o] = "create"
          /\ UNCHANGED req
      BY <2>2 DEF UnregisterUser, Answer, Goto, AccountsInv, TypeOK
    <3>2. \A n \in Networks, u \in Names : Creating(n, u)' \subseteq Creating(n, u)
      BY <3>1 DEF Creating
    <3>3. \A n \in Networks, u \in Names, r \in Roles :
            rows'[n][u][r] =
              IF n = req[t].network /\ u = req[t].user THEN 0 ELSE rows[n][u][r]
      BY <2>2, Unregistered DEF AccountsInv
    <3>4. \A n \in Networks, u \in Names : UserRows(n, u)' <= UserRows(n, u)
      BY <3>3 DEF UserRows, Roles, AccountsInv, TypeOK
    <3> QED BY <3>2, <3>4, NoMoreRows
  <2> QED BY <1>2, <2>1, <2>2, FindBound, RegisterBound DEF Query
<1>3. CASE IsExist
  BY <1>1, <1>3 DEF IsExist, Answer, Goto, AccountsInv, TypeOK, Tasks
<1>4. ASSUME NEW n \in Networks, RegisterAdmin(n) PROVE Bounded'
  BY <1>1, <1>4 DEF RegisterAdmin, Goto, AccountsInv, TypeOK, Tasks
<1>5. ASSUME NEW t \in Requests, NEW k \in tokens, Receive(t, k) PROVE Bounded'
  <2>1. PICK kind \in Kinds, u \in Names \cup {None}, r \in Roles :
          /\ req' = [req EXCEPT ![t] = [kind |-> kind, by |-> k[1], network |-> k[2],
                                        user |-> u, role |-> r]]
          /\ pc' = [pc EXCEPT ![t] = FirstQuery(kind, u)]
    BY <1>5 DEF Receive, Goto
  <2>2. FirstQuery(kind, u) # "create"
    BY DEF FirstQuery
  <2>3. UNCHANGED rows
    BY <1>5 DEF Receive
  <2>4. \A o \in Tasks : pc'[o] = "create" => pc[o] = "create" /\ req'[o] = req[o]
    BY <2>1, <2>2 DEF AccountsInv, TypeOK, Tasks
  <2> QED BY <1>1, <2>3, <2>4
<1>6. CASE Restart
  BY <1>1, <1>6 DEF Restart
<1>7. CASE \/ Listen \/ (\E u \in Names, n \in Networks : Login(u, n))
           \/ (\E k \in tokens : Expire(k)) \/ Crash \/ UNCHANGED vars
  BY <1>1, <1>7 DEF Listen, Login, Expire, Crash, vars
<1> QED BY <1>2, <1>3, <1>4, <1>5, <1>6, <1>7 DEF Next

-----------------------------------------------------------------------------
(* Theorems.                                                               *)

(* What every step keeps.                                                  *)
THEOREM AccountsInvariant == Spec => []AccountsInv
BY InitInv, NextInv, PTL DEF Spec

(* The table of users, the requests and the tokens keep their types.       *)
THEOREM AccountsTypeCorrect == Spec => []TypeOK
<1>1. AccountsInv => TypeOK
  BY DEF AccountsInv
<1> QED BY <1>1, AccountsInvariant, PTL

(* A network with authentication that is served has its administrator.     *)
THEOREM RootAdminStaysAlways == Spec => []RootAdminStays
<1>1. AccountsInv => RootAdminStays
  BY DEF AccountsInv, Rooted, Concerns, RootAdminStays
<1> QED BY <1>1, AccountsInvariant, PTL

(* Only an administrator of a network changes its rows.                    *)
THEOREM ChangesByAdminAlways == Spec => ChangesByAdmin
<1> DEFINE Changed(n) ==
      \E t \in Tasks :
        /\ req[t].network = n
        /\ pc[t] \in {"create", "destroy"} /\ pc'[t] = "idle"
        /\ t = Boot \/ hadAdmin[t]
<1>1. AccountsInv /\ [Next]_vars =>
        [\A n \in Networks : rows'[n] # rows[n] => Changed(n)]_vars
  <2> SUFFICES ASSUME AccountsInv, Next, NEW n \in Networks, rows'[n] # rows[n]
               PROVE  Changed(n)
    BY DEF vars
  <2>1. PICK t \in Tasks : RegisterUser(t) \/ UnregisterUser(t)
    BY DEF Next, IsExist, Query, IsAdminRole, Find, GetUserlist, QueryFails, RegisterAdmin,
           Listen, Login, Expire, Receive, Crash, Restart
  <2>2. /\ pc[t] \in {"create", "destroy"} /\ Answer(t, TRUE) /\ req[t].network = n
    BY <2>1 DEF RegisterUser, UnregisterUser, AccountsInv, TypeOK
  <2>3. pc'[t] = "idle"
    BY <2>2 DEF Answer, Goto, AccountsInv, TypeOK
  <2>4. t = Boot \/ hadAdmin[t]
    BY <2>2 DEF AccountsInv, Remembered, Tasks
  <2> QED BY <2>2, <2>3, <2>4
<1> QED BY <1>1, AccountsInvariant, PTL DEF Spec, ChangesByAdmin

(* No more rows of a name than requests that run at once.                  *)
THEOREM BoundedUsersAlways == Spec => []BoundedUsers
<1>1. Init => Bounded
  <2> SUFFICES ASSUME Init, NEW n \in Networks, NEW u \in Names
               PROVE  UserRows(n, u) + Cardinality(Creating(n, u)) <= Cardinality(Requests)
    BY DEF Bounded
  <2>1. UserRows(n, u) = 0
    BY DEF Init, UserRows, Roles
  <2>2. Creating(n, u) = {}
    BY DEF Init, Creating
  <2> QED BY <2>1, <2>2, Counted, FS_EmptySet
<1>2. AccountsInv /\ AccountsInv' /\ Bounded /\ [Next]_vars => Bounded'
  BY BoundedInv
<1>3. AccountsInv /\ Bounded => BoundedUsers
  <2> SUFFICES ASSUME AccountsInv, Bounded, NEW n \in Networks, NEW u \in Names
               PROVE  UserRows(n, u) <= Cardinality(Requests)
    BY DEF BoundedUsers
  <2>1. UserRows(n, u) \in Nat
    BY DEF AccountsInv, TypeOK, UserRows, Roles
  <2> QED BY <2>1, Counted DEF Bounded
<1> QED BY <1>1, <1>2, <1>3, AccountsInvariant, PTL DEF Spec
-----------------------------------------------------------------------------

(* The sequences of all the elements of a finite set.                      *)
Orderings(S) == Injection(1 .. Cardinality(S), S)

(* The values of a function of a finite set.                               *)
LEMMA ImageFinite ==
  ASSUME NEW S, IsFiniteSet(S), NEW f, DOMAIN f = S
  PROVE  /\ IsFiniteSet({f[x] : x \in S}) /\ Cardinality({f[x] : x \in S}) <= Cardinality(S)
         /\ (\A x, y \in S : f[x] = f[y] => x = y) =>
              Cardinality({f[x] : x \in S}) = Cardinality(S)
<1> DEFINE T == {f[x] : x \in S}
           g == [x \in S |-> f[x]]
<1>1. g \in Surjection(S, T)
  BY DEF Surjection
<1>2. (\A x, y \in S : f[x] = f[y] => x = y) => g \in Injection(S, T)
  BY DEF Injection, IsInjective
<1> QED BY <1>1, <1>2, FS_Surjection

(* A subset of a finite set, and its number.                               *)
LEMMA PartFinite ==
  ASSUME NEW S, IsFiniteSet(S), NEW T, T \subseteq S
  PROVE  IsFiniteSet(T) /\ Cardinality(T) \in Nat /\ Cardinality(T) <= Cardinality(S)
         /\ Cardinality(S) \in Nat
BY FS_Subset, FS_CardinalityType

(* Two disjoint sets count together.                                       *)
LEMMA DisjointCount ==
  ASSUME NEW S, IsFiniteSet(S), NEW A, NEW B, S = A \cup B, A \cap B = {}
  PROVE  Cardinality(S) = Cardinality(A) + Cardinality(B)
<1>1. IsFiniteSet(A) /\ IsFiniteSet(B) /\ Cardinality(A) \in Nat /\ Cardinality(B) \in Nat
  BY PartFinite
<1> QED BY <1>1, FS_Union, FS_EmptySet

(* A list of all of a finite set is a sequence of its elements, each once. *)
LEMMA Enumerated ==
  ASSUME NEW S, IsFiniteSet(S), NEW s \in Orderings(S)
  PROVE  /\ Cardinality(S) \in Nat /\ s \in Seq(S) /\ Len(s) = Cardinality(S)
         /\ DOMAIN s = 1 .. Cardinality(S)
         /\ \A i, j \in DOMAIN s : s[i] = s[j] => i = j
         /\ \A e \in S : \E i \in DOMAIN s : s[i] = e
<1> DEFINE size == Cardinality(S)
<1>1. size \in Nat
  BY FS_CardinalityType
<1>2. s \in [1 .. size -> S] /\ \A i, j \in 1 .. size : i # j => s[i] # s[j]
  BY DEF Orderings, Injection, IsInjective
<1>3. IsFiniteSet(1 .. size) /\ Cardinality(1 .. size) = size
  BY <1>1, FS_Interval
<1>4. s \in Injection(1 .. size, S)
  BY <1>2 DEF Injection, IsInjective
<1>5. s \in Surjection(1 .. size, S)
  BY <1>3, <1>4, FS_Injection
<1>6. \A e \in S : \E i \in 1 .. size : s[i] = e
  BY <1>5 DEF Surjection
<1> QED BY <1>1, <1>2, <1>6

(* In the order of different numbers the position tells how many are later. *)
LEMMA Ranked ==
  ASSUME NEW S, IsFiniteSet(S), NEW s \in Orderings(S),
         \A e \in S : e.num \in Int, \A d, e \in S : d.num = e.num => d = e,
         \A i, j \in DOMAIN s : i < j => s[i].num >= s[j].num
  PROVE  \A i \in DOMAIN s : Cardinality({e \in S : e.num > s[i].num}) = i - 1
<1> DEFINE size == Cardinality(S)
<1>1. /\ size \in Nat /\ DOMAIN s = 1 .. size /\ \A i \in 1 .. size : s[i] \in S
      /\ \A i, j \in 1 .. size : s[i] = s[j] => i = j
      /\ \A e \in S : \E i \in 1 .. size : s[i] = e
  BY Enumerated
<1> SUFFICES ASSUME NEW i \in 1 .. size
             PROVE  Cardinality({e \in S : e.num > s[i].num}) = i - 1
  BY <1>1
<1> DEFINE f == [j \in 1 .. i - 1 |-> s[j]]
           T == {f[j] : j \in 1 .. i - 1}
<1>2. \A j \in 1 .. size : s[j].num > s[i].num <=> j < i
  <2>1. ASSUME NEW j \in 1 .. size, j < i PROVE s[j].num > s[i].num
    <3>1. s[j].num >= s[i].num /\ s[j].num # s[i].num
      BY <1>1, <2>1
    <3> QED BY <1>1, <3>1
  <2>2. ASSUME NEW j \in 1 .. size, i <= j PROVE ~(s[j].num > s[i].num)
    <3>1. CASE i = j
      BY <1>1, <3>1
    <3>2. CASE i < j
      BY <1>1, <3>2
    <3> QED BY <2>2, <3>1, <3>2, <1>1
  <2> QED BY <2>1, <2>2, <1>1
<1>3. {e \in S : e.num > s[i].num} = T
  <2>1. ASSUME NEW e \in S, e.num > s[i].num PROVE e \in T
    <3>1. PICK j \in 1 .. size : s[j] = e
      BY <1>1
    <3>2. j < i
      BY <1>2, <2>1, <3>1
    <3>3. j \in 1 .. i - 1
      BY <1>1, <3>2
    <3> QED BY <3>1, <3>3
  <2>2. ASSUME NEW j \in 1 .. i - 1 PROVE s[j] \in S /\ s[j].num > s[i].num
    <3>1. j \in 1 .. size /\ j < i
      BY <1>1
    <3> QED BY <1>1, <1>2, <3>1
  <2> QED BY <2>1, <2>2
<1>4. i - 1 \in Nat /\ IsFiniteSet(1 .. i - 1) /\ Cardinality(1 .. i - 1) = i - 1
  <2>1. i - 1 \in Int /\ i - 1 >= 0
    BY <1>1
  <2> QED BY <2>1, FS_Interval
<1>5. \A j, k \in 1 .. i - 1 : f[j] = f[k] => j = k
  BY <1>1
<1>6. Cardinality(T) = Cardinality(1 .. i - 1)
  <2> DEFINE I == 1 .. i - 1
  <2>1. DOMAIN f = I /\ IsFiniteSet(I) /\ T = {f[j] : j \in I}
    BY <1>4
  <2>2. \A j, k \in I : f[j] = f[k] => j = k
    BY <1>5
  <2>3. Cardinality({f[j] : j \in I}) = Cardinality(I)
    <3> HIDE DEF f, I, T
    <3> QED BY <2>1, <2>2, ImageFinite
  <2> QED BY <2>3
<1> QED BY <1>3, <1>4, <1>6

-----------------------------------------------------------------------------
(* The operators of the library mean the same in the instances.            *)

(* The size of a set, in a list.                                            *)
LEMMA ListCount == \A w, X : L(w)!Cardinality(X) = Cardinality(X)
BY DEF L!Cardinality, Cardinality

(* Finiteness, in a list.                                                   *)
LEMMA ListFinite == \A w, X : L(w)!IsFiniteSet(X) = IsFiniteSet(X)
BY DEF L!IsFiniteSet, IsFiniteSet

(* Injections, in a list: the orders of its rows.                           *)
LEMMA ListInjection == \A w, X, Y : L(w)!Injection(X, Y) = Injection(X, Y)
BY DEF L!Injection, Injection, L!IsInjective, IsInjective

(* The members of a sequence, in a list.                                    *)
LEMMA ListRange == \A w, X : L(w)!Range(X) = Range(X)
BY DEF L!Range, Range

(* The least of a set, in a list: where a page ends.                        *)
LEMMA ListMin == \A w, X : L(w)!Min(X) = Min(X)
BY DEF L!Min, Min

(* The greatest of a set, in a list: the latest block.                      *)
LEMMA ListMax == \A w, X : L(w)!Max(X) = Max(X)
BY DEF L!Max, Max

(* A list may show its rows in any order that the query leaves open.        *)
LEMMA ListOrderings == \A w, S : L(w)!InAnyOrder(S) = Orderings(S)
BY ListCount, ListInjection DEF L!InAnyOrder, Orderings

(* The size of a set, in the numbers.                                       *)
LEMMA MetricsCount == \A p, X : M(p)!Cardinality(X) = Cardinality(X)
BY DEF M!Cardinality, Cardinality

(* Finiteness, in the numbers.                                              *)
LEMMA MetricsFinite == \A p, X : M(p)!IsFiniteSet(X) = IsFiniteSet(X)
BY DEF M!IsFiniteSet, IsFiniteSet

(* Injections, in the numbers: the orders of rows.                          *)
LEMMA MetricsInjection == \A p, X, Y : M(p)!Injection(X, Y) = Injection(X, Y)
BY DEF M!Injection, Injection, M!IsInjective, IsInjective

(* The sum of a function, in the numbers: the total of a chart.             *)
LEMMA MetricsSum == \A p, F : M(p)!SumFunction(F) = SumFunction(F)
BY DEF M!SumFunction, SumFunction, M!SumFunctionOnSet, SumFunctionOnSet,
   M!FoldFunctionOnSet, FoldFunctionOnSet, M!MapThenFoldSet, MapThenFoldSet

(* The numbers may come in any order that the query leaves open.            *)
LEMMA MetricsOrderings == \A p, S : M(p)!InAnyOrder(S) = Orderings(S)
BY MetricsCount, MetricsInjection DEF M!InAnyOrder, Orderings

-----------------------------------------------------------------------------
(* The look-ups.                                                          *)
Asks(p) ==
  {q \in [slot : K(p)!Slots, key : K(p)!Keys, channel : LookUps[p].Channels] :
     q.slot = "Block No" => q.key \in DOMAIN LookUps[p].ParseInt}
LookUpRequests(p) ==
  [id : Nat, query : Asks(p), then : {"search", "dialog", "none"}, row : K(p)!Row,
    result : K(p)!Result]

LookUpTypes(p) ==
  /\ K(p)!TypeOK /\ requests \subseteq LookUpRequests(p)
  /\ counts \in [searches : Nat, edits : Nat, clicks : Nat, moves : Nat, fails : Nat]

(* A result is what was asked for, and absent what the ledger has not; that  *)
(* of a number that parseInt does not read is invalid.                      *)
Answers(p, q, result) ==
  \/ result = K(p)!None
  \/ /\ result.state = "found"
     /\ q.slot # "members" => result.key = K(p)!KeyOf(q)
  \/ result = K(p)!Invalid /\ q.slot = "Block No" /\ K(p)!KeyOf(q) = NaN
  \/ /\ result = K(p)!Absent /\ q.slot # "transaction"
     /\ q.slot \in {"Txn Hash", "Block By Txn ID"} =>
          K(p)!QueryTransaction(q.channel, q.key) = K(p)!Absent
     /\ q.slot = "Block No" => K(p)!QueryBlock(q.channel, K(p)!KeyOf(q)) = K(p)!Absent
     /\ q.slot = "Block Hash" => K(p)!QueryBlockByHash(q.channel, q.key) = K(p)!Absent
     /\ q.slot = "metadata" => q.key \notin LookUps[p].Described

(* For a row of a list the answer is of its channel, and there is one.     *)
AnswersRow(p, row, result) ==
  row.slot # "members" =>
    \/ result = K(p)!None
    \/ result.state = "found" /\ result.key = row.key /\ result.channel = row.channel
    \/ result = K(p)!Absent /\ row.slot = "metadata" /\ row.key \notin LookUps[p].Described

RowSlots == {"transaction", "Txn Hash", "metadata", "members"}

(* What a row asks the server for.                                         *)
RowAsks(p, row, q) ==
  /\ q.slot = row.slot
  /\ row.slot # "members" => q = row
  /\ row.slot \in {"transaction", "Txn Hash"} =>
       \E t \in LookUps[p].Ledger : t.tx = q.key /\ t.channel = q.channel

OnPage ==
  /\ page = "lists" =>
       search.error = "" /\ ~search.open /\ \A r \in requests : r.then # "search"
  /\ page = "dashboard" => ~dialog.open /\ \A r \in requests : r.then # "dialog"

(* Every request in flight has the answer of its query, or none yet.       *)
TrueAnswers(p) ==
  \A r \in requests :
    /\ Answers(p, r.query, r.result)
    /\ r.then = "dialog" => /\ r.row.slot \in RowSlots /\ RowAsks(p, r.row, r.query)
                            /\ AnswersRow(p, r.row, r.result)
    /\ r.then = "search" => r.query.slot \in K(p)!Options

(* Nothing was done meanwhile: the only request is the one asked last.     *)
OneAsked ==
  ~crossed /\ counts.fails = 0 =>
    \A r \in requests :
      /\ requests = {r}
      /\ \/ r.then = "search" /\ r.query = asked /\ search.option = asked.slot
         \/ r.then = "dialog" /\ r.row = asked

LookUpInv(p) ==
  /\ LookUpTypes(p) /\ OnPage /\ TrueAnswers(p) /\ OneAsked
  /\ K(p)!ErrorIsTrue /\ K(p)!SearchShowsAsked /\ K(p)!DialogShowsRow

-----------------------------------------------------------------------------
(* Helpers.                                                                *)

(* Counting an action changes one counter; only a failure changes "fails".  *)
LEMMA CountUp ==
  ASSUME NEW p, LookUpTypes(p), NEW k \in {"searches", "edits", "clicks", "moves", "fails"}
  PROVE  /\ K(p)!Count(k) \in
              [searches : Nat, edits : Nat, clicks : Nat, moves : Nat, fails : Nat]
         /\ \A j \in DOMAIN K(p)!Count(k) : K(p)!Count(k)[j] \in Nat
         /\ K(p)!Count("fails").fails = counts.fails + 1
         /\ k # "fails" => K(p)!Count(k).fails = counts.fails
BY DEF LookUpTypes, K!Count

(* A row that is found is a result, and is that of its key and channel.     *)
LEMMA FoundType ==
  ASSUME NEW p, K(p)!LookUpParameters, NEW k \in K(p)!Keys, NEW c \in LookUps[p].Channels
  PROVE  /\ K(p)!Found(k, c) \in K(p)!Result
         /\ K(p)!Found(k, c).state = "found" /\ K(p)!Found(k, c).key = k
         /\ K(p)!Found(k, c).channel = c
         /\ K(p)!Found(k, c) # K(p)!Absent /\ K(p)!Found(k, c) # K(p)!None
         /\ K(p)!Found(k, c) # K(p)!Invalid
<1>1. K(p)!Found(k, c) \in K(p)!Result
  BY DEF K!Result
<1>2. K(p)!Found(k, c).state = "found" /\ K(p)!Found(k, c).key = k
      /\ K(p)!Found(k, c).channel = c
  BY DEF K!Found
<1>3. K(p)!Absent.state = "absent" /\ K(p)!None.state = "none"
      /\ K(p)!Invalid.state = "invalid"
  BY DEF K!Absent, K!None, K!Invalid
<1>4. K(p)!Found(k, c).state \notin {"absent", "none", "invalid"}
  BY <1>2
<1> QED BY <1>1, <1>2, <1>3, <1>4

(* The results that are not rows are results, and differ.                   *)
LEMMA ResultTypes ==
  ASSUME NEW p
  PROVE  /\ K(p)!None \in K(p)!Result /\ K(p)!Empty \in K(p)!Result
            /\ K(p)!Absent \in K(p)!Result /\ K(p)!Invalid \in K(p)!Result
         /\ K(p)!None.state = "none" /\ K(p)!Empty.state = "empty"
         /\ K(p)!Absent.state = "absent" /\ K(p)!Invalid.state = "invalid"
         /\ K(p)!None # K(p)!Absent /\ K(p)!Empty # K(p)!Absent
         /\ K(p)!Invalid # K(p)!None /\ K(p)!Invalid # K(p)!Absent
<1>1. K(p)!None \in K(p)!Result /\ K(p)!Empty \in K(p)!Result /\ K(p)!Absent \in K(p)!Result
      /\ K(p)!Invalid \in K(p)!Result
  BY DEF K!Result
<1>2. K(p)!None.state = "none" /\ K(p)!Empty.state = "empty" /\ K(p)!Absent.state = "absent"
      /\ K(p)!Invalid.state = "invalid"
  BY DEF K!None, K!Empty, K!Absent, K!Invalid
<1>3. K(p)!None.state # K(p)!Absent.state /\ K(p)!Empty.state # K(p)!Absent.state
      /\ K(p)!Invalid.state # K(p)!None.state /\ K(p)!Invalid.state # K(p)!Absent.state
  BY <1>2
<1> QED BY <1>1, <1>2, <1>3

(* What is looked for is a key; only a typed number is another than is asked. *)
LEMMA KeysLooked ==
  ASSUME NEW p, NEW q \in Asks(p)
  PROVE  /\ q.key \in K(p)!Keys /\ q.channel \in LookUps[p].Channels
         /\ q.slot \in K(p)!Slots /\ K(p)!KeyOf(q) \in K(p)!Keys
         /\ q.slot # "Block No" => K(p)!KeyOf(q) = q.key
<1>1. q.key \in K(p)!Keys /\ q.channel \in LookUps[p].Channels /\ q.slot \in K(p)!Slots
  BY DEF Asks
<1>2. CASE q.slot = "Block No"
  <2>1. q.key \in DOMAIN LookUps[p].ParseInt /\ K(p)!KeyOf(q) = LookUps[p].ParseInt[q.key]
    BY <1>2 DEF Asks, K!KeyOf
  <2> QED BY <1>1, <1>2, <2>1 DEF K!Keys
<1>3. CASE q.slot # "Block No"
  BY <1>1, <1>3 DEF K!KeyOf
<1> QED BY <1>1, <1>2, <1>3

(* What each look-up answers: the row of the channel with that key.         *)
LEMMA Ledgers ==
  ASSUME NEW p, NEW c, NEW k
  PROVE  /\ K(p)!QueryTransaction(c, k) =
              IF \E t \in LookUps[p].Ledger : t.channel = c /\ t.tx = k
                THEN K(p)!Found(k, c) ELSE K(p)!Absent
         /\ K(p)!QueryBlock(c, k) =
              IF \E t \in LookUps[p].Ledger : t.channel = c /\ t.num = k
                THEN K(p)!Found(k, c) ELSE K(p)!Absent
         /\ K(p)!QueryBlockByHash(c, k) =
              IF \E t \in LookUps[p].Ledger : t.channel = c /\ t.hash = k
                THEN K(p)!Found(k, c) ELSE K(p)!Absent
         /\ K(p)!QueryBlockByTxId(c, k) =
              IF \E t \in LookUps[p].Ledger : t.channel = c /\ t.tx = k
                THEN K(p)!Found(k, c) ELSE K(p)!Absent
BY DEF K!QueryTransaction, K!QueryBlock, K!QueryBlockByHash, K!QueryBlockByTxId, K!OfLedger

(* The invariant holds when the page opens.                                 *)
LEMMA InitLookUp ==
  ASSUME NEW p
  PROVE  K(p)!LookUpParameters /\ K(p)!Init => LookUpInv(p)
<1> SUFFICES ASSUME K(p)!LookUpParameters, K(p)!Init PROVE LookUpInv(p)
  OBVIOUS
<1>1. LookUpTypes(p)
  <2>1. K(p)!None \in K(p)!Result
    BY ResultTypes
  <2>2. K(p)!Nothing \in K(p)!Row
    BY DEF K!Nothing, K!Row, K!Slots, K!Options, K!LookUpParameters
  <2>3. results \in [K(p)!Slots -> K(p)!Result]
    BY <2>1 DEF K!Init
  <2>4. K(p)!NoSearch \in [text : LookUps[p].Texts \cup {""}, option : K(p)!Options,
                      error : {"", "invalid", "absent"}, open : BOOLEAN]
    BY DEF K!NoSearch, K!Options
  <2>5. K(p)!NoDialog \in [open : BOOLEAN, row : K(p)!Row]
    BY <2>2 DEF K!NoDialog
  <2>6. counts \in [searches : Nat, edits : Nat, clicks : Nat, moves : Nat, fails : Nat]
    BY DEF K!Init
  <2> QED BY <2>2, <2>3, <2>4, <2>5, <2>6 DEF K!Init, LookUpTypes, K!TypeOK,
     K!LookUpParameters
<1>2. OnPage /\ TrueAnswers(p) /\ OneAsked /\ K(p)!ErrorIsTrue /\ K(p)!SearchShowsAsked
      /\ K(p)!DialogShowsRow
  BY DEF K!Init, OnPage, TrueAnswers, OneAsked, K!ErrorIsTrue, K!SearchShowsAsked,
     K!DialogShowsRow, K!Undisturbed, K!SearchShown, K!NoSearch, K!NoDialog
<1> QED BY <1>1, <1>2 DEF LookUpInv

(* What is served is a result of the query.                                *)
LEMMA FoundAnswers ==
  ASSUME NEW p, K(p)!LookUpParameters, NEW q \in Asks(p), NEW c \in LookUps[p].Channels,
         q.slot # "members"
  PROVE  /\ Answers(p, q, K(p)!Found(K(p)!KeyOf(q), c))
         /\ q.slot # "Block No" => \A row : RowAsks(p, row, q) /\ c = q.channel =>
              AnswersRow(p, row, K(p)!Found(q.key, c))
<1>1. q.key \in K(p)!Keys /\ K(p)!KeyOf(q) \in K(p)!Keys
  BY KeysLooked
<1>2. K(p)!Found(q.key, c).state = "found" /\ K(p)!Found(q.key, c).key = q.key
       /\ K(p)!Found(q.key, c).channel = c
  BY <1>1, FoundType
<1>3. Answers(p, q, K(p)!Found(K(p)!KeyOf(q), c))
  <2>1. K(p)!Found(K(p)!KeyOf(q), c).state = "found"
        /\ K(p)!Found(K(p)!KeyOf(q), c).key = K(p)!KeyOf(q)
    BY <1>1, FoundType
  <2> QED BY <2>1 DEF Answers
<1>4. ASSUME NEW row, RowAsks(p, row, q), c = q.channel, row.slot # "members"
      PROVE  K(p)!Found(q.key, c).key = row.key
             /\ K(p)!Found(q.key, c).channel = row.channel
  BY <1>2, <1>4 DEF RowAsks
<1> QED BY <1>2, <1>3, <1>4 DEF AnswersRow

(* What is not in the ledger is answered as absent, and no row is.         *)
LEMMA AbsentAnswers ==
  ASSUME NEW p, K(p)!LookUpParameters, NEW q \in Asks(p),
         \/ q.slot \in {"Txn Hash", "Block By Txn ID"}
            /\ ~\E t \in LookUps[p].Ledger : t.channel = q.channel /\ t.tx = q.key
         \/ q.slot = "Block No"
            /\ ~\E t \in LookUps[p].Ledger :
                  t.channel = q.channel /\ t.num = K(p)!KeyOf(q)
         \/ q.slot = "Block Hash"
            /\ ~\E t \in LookUps[p].Ledger : t.channel = q.channel /\ t.hash = q.key
         \/ q.slot = "metadata" /\ q.key \notin LookUps[p].Described
  PROVE  /\ Answers(p, q, K(p)!Absent)
         /\ \A row : RowAsks(p, row, q) /\ row.slot \in {"Txn Hash", "metadata"} =>
                      AnswersRow(p, row, K(p)!Absent)
<1>1. Answers(p, q, K(p)!Absent)
  <2>1. CASE q.slot \in {"Txn Hash", "Block By Txn ID"}
    <3>1. K(p)!QueryTransaction(q.channel, q.key) = K(p)!Absent
      BY <2>1, Ledgers
    <3> QED BY <2>1, <3>1 DEF Answers
  <2>2. CASE q.slot = "Block No"
    <3>1. K(p)!QueryBlock(q.channel, K(p)!KeyOf(q)) = K(p)!Absent
      BY <2>2, Ledgers
    <3> QED BY <2>2, <3>1 DEF Answers
  <2>3. CASE q.slot = "Block Hash"
    <3>1. K(p)!QueryBlockByHash(q.channel, q.key) = K(p)!Absent
      BY <2>3, Ledgers
    <3> QED BY <2>3, <3>1 DEF Answers
  <2>4. CASE q.slot = "metadata"
    BY <2>4 DEF Answers
  <2> QED BY <2>1, <2>2, <2>3, <2>4
<1>2. ASSUME NEW row, RowAsks(p, row, q), row.slot \in {"Txn Hash", "metadata"}
      PROVE  AnswersRow(p, row, K(p)!Absent)
  <2>1. q.slot = row.slot /\ q = row
    BY <1>2 DEF RowAsks
  <2>2. q.slot # "Txn Hash"
    BY <1>2, <2>1 DEF RowAsks
  <2> QED BY <1>2, <2>1, <2>2 DEF AnswersRow
<1> QED BY <1>1, <1>2

(* What is served is a result of the query, and one of the row that asks.  *)
LEMMA ServedAnswers ==
  ASSUME NEW p, K(p)!LookUpParameters, LookUpTypes(p), NEW q \in Asks(p),
         q.slot = "transaction" => K(p)!TransactionByID(q.key) # {}
  PROVE  /\ K(p)!Served(q) \in K(p)!Result /\ Answers(p, q, K(p)!Served(q))
         /\ \A row : RowAsks(p, row, q)
              /\ row.slot \in {"transaction", "Txn Hash", "metadata"} =>
                       AnswersRow(p, row, K(p)!Served(q))
<1>0. db \subseteq LookUps[p].Ledger /\ \A t \in db : t.channel \in LookUps[p].Channels
  BY DEF LookUpTypes, K!TypeOK, K!LookUpParameters
<1>1. /\ q.key \in K(p)!Keys /\ q.channel \in LookUps[p].Channels /\ q.slot \in K(p)!Slots
      /\ K(p)!KeyOf(q) \in K(p)!Keys
      /\ q.slot # "Block No" => K(p)!KeyOf(q) = q.key
  BY KeysLooked
<1> DEFINE Rows(res) ==
             \A row : RowAsks(p, row, q)
               /\ row.slot \in {"transaction", "Txn Hash", "metadata"} =>
                       AnswersRow(p, row, res)
           u == CHOOSE t \in K(p)!TransactionByID(q.key) : TRUE
<1>f. /\ K(p)!Found(q.key, q.channel) \in K(p)!Result
      /\ q.slot \notin {"members", "Block No"} =>
           Answers(p, q, K(p)!Found(q.key, q.channel)) /\ Rows(K(p)!Found(q.key, q.channel))
  <2>1. K(p)!Found(q.key, q.channel) \in K(p)!Result
    BY <1>1, FoundType
  <2> QED BY <1>1, <2>1, FoundAnswers
<1>t. ASSUME K(p)!TransactionByID(q.key) # {}, q.slot \in {"transaction", "Txn Hash"}
      PROVE  /\ K(p)!Found(q.key, u.channel) \in K(p)!Result
                /\ Answers(p, q, K(p)!Found(q.key, u.channel))
             /\ Rows(K(p)!Found(q.key, u.channel))
  <2>1. u \in K(p)!TransactionByID(q.key)
    BY <1>t
  <2>2. u \in LookUps[p].Ledger /\ u.tx = q.key /\ u.channel \in LookUps[p].Channels
    BY <2>1, <1>0 DEF K!TransactionByID
  <2>3. \A t \in LookUps[p].Ledger : t.tx = q.key => t.channel = u.channel
    BY <2>2 DEF K!LookUpParameters
  <2>4. K(p)!Found(q.key, u.channel) \in K(p)!Result
        /\ Answers(p, q, K(p)!Found(q.key, u.channel))
    <3>1. K(p)!KeyOf(q) = q.key /\ q.slot # "members"
      BY <1>t, <1>1
    <3>2. Answers(p, q, K(p)!Found(K(p)!KeyOf(q), u.channel))
      BY <2>2, <3>1, FoundAnswers
    <3>3. K(p)!Found(q.key, u.channel) \in K(p)!Result
      BY <1>1, <2>2, FoundType
    <3> QED BY <3>1, <3>2, <3>3
  <2>5. ASSUME NEW row, RowAsks(p, row, q),
               row.slot \in {"transaction", "Txn Hash", "metadata"}
        PROVE  AnswersRow(p, row, K(p)!Found(q.key, u.channel))
    <3>1. u.channel = q.channel
      BY <1>t, <2>3, <2>5 DEF RowAsks
    <3> QED BY <3>1, <2>5, <1>f, <1>t
  <2> QED BY <2>4, <2>5
<1>2. CASE q.slot = "Txn Hash"
  <2>1. K(p)!Served(q) = K(p)!FetchDataByTxnId(q.channel, q.key)
    BY <1>2 DEF K!Served
  <2>2. CASE K(p)!TransactionByID(q.key) # {}
    <3>1. K(p)!Served(q) = K(p)!Found(q.key, u.channel)
      BY <2>1, <2>2 DEF K!FetchDataByTxnId
    <3> QED BY <3>1, <1>t, <2>2, <1>2
  <2>3. CASE K(p)!TransactionByID(q.key) = {}
    <3>1. K(p)!Served(q) = K(p)!QueryTransaction(q.channel, q.key)
      BY <2>1, <2>3 DEF K!FetchDataByTxnId
    <3>2. CASE \E t \in LookUps[p].Ledger : t.channel = q.channel /\ t.tx = q.key
      <4>1. K(p)!Served(q) = K(p)!Found(q.key, q.channel)
        BY <3>1, <3>2, Ledgers
      <4> QED BY <4>1, <1>f, <1>2
    <3>3. CASE ~\E t \in LookUps[p].Ledger : t.channel = q.channel /\ t.tx = q.key
      <4>1. K(p)!Served(q) = K(p)!Absent
        BY <3>1, <3>3, Ledgers
      <4>2. Answers(p, q, K(p)!Absent) /\ Rows(K(p)!Absent)
        <5>1. Answers(p, q, K(p)!Absent)
              /\ \A row : RowAsks(p, row, q) /\ row.slot \in {"Txn Hash", "metadata"} =>
                      AnswersRow(p, row, K(p)!Absent)
          BY <3>3, <1>2, AbsentAnswers
        <5>2. \A row : RowAsks(p, row, q) => row.slot = "Txn Hash"
          BY <1>2 DEF RowAsks
        <5> QED BY <5>1, <5>2
      <4> QED BY <4>1, <4>2, ResultTypes
    <3> QED BY <3>2, <3>3
  <2> QED BY <2>2, <2>3
<1>o. \A row : RowAsks(p, row, q) => row.slot = q.slot
  BY DEF RowAsks
<1>3. CASE q.slot = "Block No"
  <2> DEFINE k == K(p)!KeyOf(q)
  <2>1. K(p)!Served(q) = K(p)!FetchDataByBlockNo(q)
    BY <1>3 DEF K!Served
  <2>2. CASE k = NaN
    <3>1. K(p)!Served(q) = K(p)!Invalid
      BY <2>1, <2>2 DEF K!FetchDataByBlockNo
    <3>2. Answers(p, q, K(p)!Invalid)
      BY <1>3, <2>2 DEF Answers
    <3> QED BY <3>1, <3>2, <1>3, <1>o, ResultTypes
  <2>3. CASE k # NaN /\ \E t \in LookUps[p].Ledger : t.channel = q.channel /\ t.num = k
    <3>1. K(p)!Served(q) = K(p)!Found(k, q.channel)
      BY <2>1, <2>3, Ledgers DEF K!FetchDataByBlockNo, K!DataByBlockNo
    <3>2. K(p)!Found(k, q.channel) \in K(p)!Result
      BY <1>1, FoundType
    <3>3. Answers(p, q, K(p)!Found(k, q.channel))
      BY <1>1, <1>3, FoundAnswers
    <3> QED BY <3>1, <3>2, <3>3, <1>3, <1>o
  <2>4. CASE k # NaN /\ ~\E t \in LookUps[p].Ledger : t.channel = q.channel /\ t.num = k
    <3>1. K(p)!Served(q) = K(p)!Absent
      BY <2>1, <2>4, <1>0, Ledgers DEF K!FetchDataByBlockNo, K!DataByBlockNo
    <3>2. Answers(p, q, K(p)!Absent)
      BY <2>4, <1>3, AbsentAnswers
    <3> QED BY <3>1, <3>2, <1>3, <1>o, ResultTypes
  <2> QED BY <2>2, <2>3, <2>4
<1>4. CASE q.slot = "Block Hash"
  <2>1. K(p)!Served(q) = K(p)!QueryBlockByHash(q.channel, q.key)
    BY <1>4 DEF K!Served
  <2>2. CASE \E t \in LookUps[p].Ledger : t.channel = q.channel /\ t.hash = q.key
    <3>1. K(p)!Served(q) = K(p)!Found(q.key, q.channel)
      BY <2>1, <2>2, Ledgers
    <3> QED BY <3>1, <1>f, <1>4
  <2>3. CASE ~\E t \in LookUps[p].Ledger : t.channel = q.channel /\ t.hash = q.key
    <3>1. K(p)!Served(q) = K(p)!Absent
      BY <2>1, <2>3, Ledgers
    <3>2. Answers(p, q, K(p)!Absent)
      BY <2>3, <1>4, AbsentAnswers
    <3> QED BY <3>1, <3>2, <1>4, <1>o, ResultTypes
  <2> QED BY <2>2, <2>3
<1>5. CASE q.slot = "Block By Txn ID"
  <2>1. K(p)!Served(q) = K(p)!QueryBlockByTxId(q.channel, q.key)
    BY <1>5 DEF K!Served
  <2>2. CASE \E t \in LookUps[p].Ledger : t.channel = q.channel /\ t.tx = q.key
    <3>1. K(p)!Served(q) = K(p)!Found(q.key, q.channel)
      BY <2>1, <2>2, Ledgers
    <3> QED BY <3>1, <1>f, <1>5
  <2>3. CASE ~\E t \in LookUps[p].Ledger : t.channel = q.channel /\ t.tx = q.key
    <3>1. K(p)!Served(q) = K(p)!Absent
      BY <2>1, <2>3, Ledgers
    <3>2. Answers(p, q, K(p)!Absent)
      BY <2>3, <1>5, AbsentAnswers
    <3> QED BY <3>1, <3>2, <1>5, <1>o, ResultTypes
  <2> QED BY <2>2, <2>3
<1>6. CASE q.slot = "transaction"
  <2>1. K(p)!Served(q) = K(p)!Found(q.key, u.channel)
    BY <1>6 DEF K!Served
  <2> QED BY <2>1, <1>t, <1>6
<1>7. CASE q.slot = "metadata"
  <2>1. K(p)!Served(q) = K(p)!ContractMetadata(q.channel, q.key)
    BY <1>7 DEF K!Served
  <2>2. CASE q.key \in LookUps[p].Described
    <3>1. K(p)!Served(q) = K(p)!Found(q.key, q.channel)
      BY <2>1, <2>2 DEF K!ContractMetadata
    <3> QED BY <3>1, <1>f, <1>7
  <2>3. CASE q.key \notin LookUps[p].Described
    <3>1. K(p)!Served(q) = K(p)!Absent
      BY <2>1, <2>3 DEF K!ContractMetadata
    <3>2. /\ Answers(p, q, K(p)!Absent)
          /\ \A row : RowAsks(p, row, q) /\ row.slot \in {"Txn Hash", "metadata"} =>
                      AnswersRow(p, row, K(p)!Absent)
      BY <2>3, <1>7, AbsentAnswers
    <3> QED BY <3>1, <3>2, <1>7, <1>o, ResultTypes
  <2> QED BY <2>2, <2>3
<1>8. CASE q.slot = "members"
  <2>1. K(p)!Served(q) = K(p)!Found(q.channel, q.channel)
    BY <1>8 DEF K!Served
  <2>2. q.channel \in K(p)!Keys
    BY <1>1 DEF K!Keys
  <2>3. K(p)!Served(q) \in K(p)!Result /\ K(p)!Served(q).state = "found"
    <3>1. q.channel \in LookUps[p].Channels
      BY <1>1
    <3> QED BY <2>1, <2>2, <3>1, FoundType
  <2>4. Answers(p, q, K(p)!Served(q))
    BY <2>3, <1>8 DEF Answers
  <2> QED BY <2>3, <2>4, <1>8, <1>o
<1> QED BY <1>1, <1>2, <1>3, <1>4, <1>5, <1>6, <1>7, <1>8 DEF K!Slots, K!Options

-----------------------------------------------------------------------------
(* The steps.                                                              *)

(* The search of which an answer has come.                                 *)
Awaited(p, res) ==
  [search EXCEPT !.error = K(p)!SearchError(res), !.open = @ \/ K(p)!SearchError(res) = ""]

(* What awaits a request goes on.                                          *)
LEMMA GoingOn ==
  ASSUME NEW p, NEW r, K(p)!GoesOn(r), r.then \in {"search", "dialog", "none"}
  PROVE  \/ /\ r.then = "search" /\ dialog' = dialog
            /\ search' = Awaited(p, results')
         \/ /\ r.then = "dialog" /\ search' = search
            /\ dialog' = [open |-> TRUE, row |-> r.row]
         \/ r.then = "none" /\ search' = search /\ dialog' = dialog
<1>1. CASE r.then = "search"
  BY <1>1 DEF K!GoesOn, Awaited
<1>2. CASE r.then = "dialog"
  BY <1>2 DEF K!GoesOn
<1>3. CASE r.then = "none"
  BY <1>3 DEF K!GoesOn
<1> QED BY <1>1, <1>2, <1>3

(* What the search box becomes when the answer it waits for arrives.        *)
LEMMA AwaitedType ==
  ASSUME NEW p, LookUpTypes(p), NEW res
  PROVE  /\ Awaited(p, res) \in [text : LookUps[p].Texts \cup {""}, option : K(p)!Options,
                             error : {"", "invalid", "absent"}, open : BOOLEAN]
         /\ Awaited(p, res).error = K(p)!SearchError(res)
         /\ Awaited(p, res).option = search.option
<1>1. K(p)!SearchError(res) \in {"", "absent"}
  BY DEF K!SearchError
<1>2. search \in [text : LookUps[p].Texts \cup {""}, option : K(p)!Options,
                  error : {"", "invalid", "absent"}, open : BOOLEAN]
  BY DEF LookUpTypes, K!TypeOK
<1> QED BY <1>1, <1>2 DEF Awaited

(* Going on after an answer leaves the search and the dialog well typed.    *)
LEMMA GoingOnTypes ==
  ASSUME NEW p, LookUpTypes(p), NEW r \in requests, K(p)!GoesOn(r)
  PROVE  /\ search' \in [text : LookUps[p].Texts \cup {""}, option : K(p)!Options,
                         error : {"", "invalid", "absent"}, open : BOOLEAN]
         /\ dialog' \in [open : BOOLEAN, row : K(p)!Row]
<1>1. r.then \in {"search", "dialog", "none"} /\ r.row \in K(p)!Row
  BY DEF LookUpTypes, LookUpRequests
<1>3. /\ search \in [text : LookUps[p].Texts \cup {""}, option : K(p)!Options,
                     error : {"", "invalid", "absent"}, open : BOOLEAN]
      /\ dialog \in [open : BOOLEAN, row : K(p)!Row]
  BY DEF LookUpTypes, K!TypeOK
<1>4. CASE r.then = "search"
  <2>1. search' = Awaited(p, results') /\ dialog' = dialog
    BY <1>1, <1>4, GoingOn
  <2>2. PICK res : search' = Awaited(p, res)
    BY <2>1
  <2>3. search' \in [text : LookUps[p].Texts \cup {""}, option : K(p)!Options,
                     error : {"", "invalid", "absent"}, open : BOOLEAN]
    BY <2>2, AwaitedType
  <2> QED BY <1>3, <2>1, <2>3
<1>5. CASE r.then = "dialog"
  <2>1. search' = search /\ dialog' = [open |-> TRUE, row |-> r.row]
    BY <1>5, GoingOn
  <2>2. dialog' \in [open : BOOLEAN, row : K(p)!Row]
    BY <1>1, <2>1
  <2> QED BY <1>3, <2>1, <2>2
<1>6. CASE r.then = "none"
  BY <1>1, <1>3, <1>6, GoingOn
<1> QED BY <1>1, <1>4, <1>5, <1>6

(* A search is awaited on its page, a dialog on that of the lists.         *)
LEMMA GoingOnPage ==
  ASSUME NEW p, LookUpTypes(p), OnPage, NEW r \in requests, K(p)!GoesOn(r)
  PROVE  /\ page = "lists" => search'.error = "" /\ ~search'.open
         /\ page = "dashboard" => ~dialog'.open
<1>1. r.then \in {"search", "dialog", "none"}
  BY DEF LookUpTypes, LookUpRequests
<1>2. page = "lists" => search' = search
  BY <1>1, GoingOn DEF OnPage
<1>3. page = "dashboard" => dialog' = dialog
  BY <1>1, GoingOn DEF OnPage
<1> QED BY <1>2, <1>3 DEF OnPage

(* The types, from those of the variables.                                 *)
LEMMA TypesFrom ==
  ASSUME NEW p, LookUps[p].Stored \subseteq db', db' \subseteq LookUps[p].Ledger,
         channel' \in LookUps[p].Channels,
         page' \in {"dashboard", "lists"}, results' \in [K(p)!Slots -> K(p)!Result],
         search' \in [text : LookUps[p].Texts \cup {""}, option : K(p)!Options,
                    error : {"", "invalid", "absent"}, open : BOOLEAN],
         dialog' \in [open : BOOLEAN, row : K(p)!Row], asked' \in K(p)!Row,
           crossed' \in BOOLEAN,
         requests' \subseteq LookUpRequests(p),
         counts' \in [searches : Nat, edits : Nat, clicks : Nat, moves : Nat, fails : Nat]
  PROVE  LookUpTypes(p)'
<1>1. \A r \in requests' : r.query \in K(p)!Row /\ r.row \in K(p)!Row
        /\ r.result \in K(p)!Result
                         /\ r.then \in {"search", "dialog", "none"}
  BY DEF LookUpRequests, Asks, K!Row
<1>2. \A k \in DOMAIN counts' : counts'[k] \in Nat
  OBVIOUS
<1> QED BY <1>1, <1>2 DEF LookUpTypes, K!TypeOK

(* The same, taken apart.                                                  *)
LEMMA TypesOf ==
  ASSUME NEW p, LookUpTypes(p)
  PROVE  /\ LookUps[p].Stored \subseteq db /\ db \subseteq LookUps[p].Ledger
            /\ channel \in LookUps[p].Channels
         /\ page \in {"dashboard", "lists"} /\ results \in [K(p)!Slots -> K(p)!Result]
         /\ search \in [text : LookUps[p].Texts \cup {""}, option : K(p)!Options,
                        error : {"", "invalid", "absent"}, open : BOOLEAN]
         /\ dialog \in [open : BOOLEAN, row : K(p)!Row] /\ asked \in K(p)!Row
         /\ crossed \in BOOLEAN
         /\ requests \subseteq LookUpRequests(p)
         /\ counts \in [searches : Nat, edits : Nat, clicks : Nat, moves : Nat, fails : Nat]
BY DEF LookUpTypes, K!TypeOK

(* Where nothing is shown, or something was done meanwhile, nothing is said. *)
LEMMA NothingShown ==
  ASSUME NEW p, \/ search'.error # "absent" /\ ~search'.open /\ ~dialog'.open
         \/ requests' # {} \/ crossed' \/ counts'.fails # 0
  PROVE  K(p)!ErrorIsTrue' /\ K(p)!SearchShowsAsked' /\ K(p)!DialogShowsRow'
BY DEF K!ErrorIsTrue, K!SearchShowsAsked, K!DialogShowsRow, K!SearchShown, K!Undisturbed

(* The text or the option of the search changes.                           *)
LEMMA EditStep ==
  ASSUME NEW p, K(p)!LookUpParameters, LookUpInv(p), NEW text \in LookUps[p].Texts,
         NEW option \in K(p)!Options,
         K(p)!Edit(text, option)
  PROVE  LookUpInv(p)'
<1> USE DEF LookUpInv
<1>1. LookUpTypes(p)'
  <2>1. search' \in [text : LookUps[p].Texts \cup {""}, option : K(p)!Options,
                    error : {"", "invalid", "absent"}, open : BOOLEAN]
    BY TypesOf DEF K!Edit
  <2>2. counts' \in [searches : Nat, edits : Nat, clicks : Nat, moves : Nat, fails : Nat]
    BY CountUp DEF K!Edit
  <2>3. crossed' \in BOOLEAN
    BY TypesOf DEF K!Edit
  <2> QED BY <2>1, <2>2, <2>3, TypesOf, TypesFrom DEF K!Edit
<1>2. page = "dashboard" /\ page' = page /\ dialog' = dialog /\ requests' = requests
  BY DEF K!Edit
<1>3. OnPage' /\ TrueAnswers(p)'
  BY <1>2 DEF OnPage, TrueAnswers
<1>4. counts'.fails = counts.fails /\ (~crossed' => ~crossed /\ requests = {})
  BY CountUp DEF K!Edit
<1>5. OneAsked'
  BY <1>2, <1>4 DEF OneAsked
<1>6. K(p)!ErrorIsTrue' /\ K(p)!SearchShowsAsked' /\ K(p)!DialogShowsRow'
  <2>1. search'.error # "absent" /\ ~search'.open /\ ~dialog'.open
    BY <1>2 DEF K!Edit, K!DialogShown, OnPage
  <2> QED BY <2>1, NothingShown
<1> QED BY <1>1, <1>3, <1>5, <1>6

(* A search is submitted, a valid one or another.                          *)
LEMMA HandleSubmitStep ==
  ASSUME NEW p, K(p)!LookUpParameters, LookUpInv(p), K(p)!HandleSubmit
  PROVE  LookUpInv(p)'
<1> USE DEF LookUpInv
<1>1. /\ counts' \in [searches : Nat, edits : Nat, clicks : Nat, moves : Nat, fails : Nat]
      /\ counts'.fails = counts.fails
  BY CountUp DEF K!HandleSubmit
<1>2. /\ page = "dashboard" /\ ~K(p)!DialogShown
      /\ db' = db /\ channel' = channel /\ page' = page /\ results' = results
      /\ dialog' = dialog
  BY DEF K!HandleSubmit
<1>3. CASE K(p)!Valid(search) /\ K(p)!SearchData(search)
  <2> DEFINE q == [slot |-> search.option, key |-> search.text, channel |-> channel]
             r == K(p)!Request(q, "search", q)
  <2>1. q \in Asks(p) /\ q \in K(p)!Row /\ q.slot \in K(p)!Options
    BY <1>3, TypesOf DEF K!Valid, Asks, K!Row, K!Keys, K!Slots
  <2>2. /\ requests' = requests \cup {r} /\ asked' = q /\ crossed' = (requests # {})
        /\ search' = search
    BY <1>3 DEF K!SearchData
  <2>3. /\ r \in LookUpRequests(p) /\ r.query = q /\ r.then = "search" /\ r.row = q
        /\ r.result = K(p)!None
    <3>1. counts.searches + counts.clicks \in Nat
      <4>1. counts.searches \in Nat /\ counts.clicks \in Nat
        BY DEF LookUpTypes
      <4> QED BY <4>1
    <3> QED BY <3>1, <2>1, ResultTypes DEF K!Request, LookUpRequests
  <2>4. LookUpTypes(p)'
    BY <1>1, <1>2, <2>1, <2>2, <2>3, TypesOf, TypesFrom
  <2>5. OnPage'
    BY <1>2, <2>2, <2>3 DEF OnPage
  <2>6. TrueAnswers(p)'
    BY <2>1, <2>2, <2>3 DEF TrueAnswers, Answers
  <2>7. OneAsked'
    BY <2>2, <2>3 DEF OneAsked
  <2> QED BY <2>2, <2>4, <2>5, <2>6, <2>7, NothingShown
<1>4. CASE ~K(p)!Valid(search) /\ search' = [search EXCEPT !.error = "invalid"]
            /\ UNCHANGED <<requests, asked, crossed>>
  <2>1. search' \in [text : LookUps[p].Texts \cup {""}, option : K(p)!Options,
                    error : {"", "invalid", "absent"}, open : BOOLEAN]
    BY <1>4, TypesOf
  <2>2. LookUpTypes(p)'
    BY <1>1, <1>2, <1>4, <2>1, TypesOf, TypesFrom
  <2>3. OnPage' /\ TrueAnswers(p)'
    BY <1>2, <1>4 DEF OnPage, TrueAnswers
  <2>4. search'.error = "invalid" /\ search'.option = search.option /\ ~dialog'.open
    BY <1>2, <1>4, TypesOf DEF OnPage
  <2>5. OneAsked'
    BY <1>1, <1>4, <2>4 DEF OneAsked
  <2>6. K(p)!ErrorIsTrue' /\ K(p)!SearchShowsAsked' /\ K(p)!DialogShowsRow'
    BY <2>4 DEF K!ErrorIsTrue, K!SearchShowsAsked, K!DialogShowsRow, K!SearchShown
  <2> QED BY <2>2, <2>3, <2>5, <2>6
<1> QED BY <1>3, <1>4 DEF K!HandleSubmit

(* The dialog closes.                                                      *)
LEMMA HandleDialogCloseStep ==
  ASSUME NEW p, K(p)!LookUpParameters, LookUpInv(p), K(p)!HandleDialogClose
  PROVE  LookUpInv(p)'
<1> USE DEF LookUpInv
<1>1. /\ db' = db /\ channel' = channel /\ page' = page /\ results' = results
      /\ requests' = requests /\ asked' = asked /\ crossed' = crossed /\ counts' = counts
      /\ dialog' = [dialog EXCEPT !.open = FALSE]
      /\ search' = [search EXCEPT !.open = FALSE]
  BY DEF K!HandleDialogClose
<1>2. /\ search'.error = search.error /\ search'.option = search.option /\ ~search'.open
      /\ dialog'.row = dialog.row /\ ~dialog'.open
  BY <1>1, TypesOf
<1>3. LookUpTypes(p)'
  <2>1. search' \in [text : LookUps[p].Texts \cup {""}, option : K(p)!Options,
                    error : {"", "invalid", "absent"}, open : BOOLEAN]
    BY <1>1, TypesOf
  <2>2. dialog' \in [open : BOOLEAN, row : K(p)!Row]
    BY <1>1, TypesOf
  <2> QED BY <1>1, <2>1, <2>2, TypesOf, TypesFrom
<1>4. OnPage'
  BY <1>1, <1>2 DEF OnPage
<1>5. TrueAnswers(p)' /\ OneAsked'
  BY <1>1, <1>2 DEF TrueAnswers, OneAsked
<1>6. K(p)!ErrorIsTrue' /\ K(p)!SearchShowsAsked' /\ K(p)!DialogShowsRow'
  BY <1>1, <1>2 DEF K!ErrorIsTrue, K!SearchShowsAsked, K!DialogShowsRow, K!SearchShown,
     K!Undisturbed
<1> QED BY <1>3, <1>4, <1>5, <1>6

(* A row is clicked.                                                       *)
LEMMA ClickStep ==
  ASSUME NEW p, K(p)!LookUpParameters, LookUpInv(p), NEW q \in Asks(p),
         NEW row \in K(p)!Row,
         row.slot \in RowSlots, RowAsks(p, row, q), K(p)!Click(row, q)
  PROVE  LookUpInv(p)'
<1> USE DEF LookUpInv
<1>1. /\ counts' \in [searches : Nat, edits : Nat, clicks : Nat, moves : Nat, fails : Nat]
      /\ counts'.fails = counts.fails
  BY CountUp DEF K!Click
<1> DEFINE r == K(p)!Request(q, "dialog", row)
<1>2. /\ page = "lists" /\ db' = db /\ channel' = channel /\ page' = page
      /\ results' = results
      /\ dialog' = dialog /\ search' = search /\ requests' = requests \cup {r}
      /\ asked' = row
      /\ crossed' = (requests # {})
  BY DEF K!Click
<1>3. /\ r \in LookUpRequests(p) /\ r.query = q /\ r.then = "dialog" /\ r.row = row
      /\ r.result = K(p)!None
  <2>1. counts.searches \in Nat /\ counts.clicks \in Nat
    BY DEF LookUpTypes
  <2>2. counts.searches + counts.clicks \in Nat
    BY <2>1
  <2> QED BY <2>2, ResultTypes DEF K!Request, LookUpRequests
<1>4. LookUpTypes(p)'
  BY <1>1, <1>2, <1>3, TypesOf, TypesFrom
<1>5. OnPage'
  BY <1>2, <1>3 DEF OnPage
<1>6. TrueAnswers(p)'
  BY <1>2, <1>3 DEF TrueAnswers, Answers, AnswersRow
<1>7. OneAsked'
  BY <1>2, <1>3 DEF OneAsked
<1> QED BY <1>2, <1>4, <1>5, <1>6, <1>7, NothingShown

(* What is clicked, and what is asked for it.                              *)
LEMMA ListClickSteps ==
  ASSUME NEW p, K(p)!LookUpParameters, LookUpInv(p),
         \/ \E t \in LookUps[p].Ledger : K(p)!TransactionClick(t) \/ K(p)!RangeClick(t)
         \/ \E k \in LookUps[p].Chaincodes : K(p)!ChaincodeClick(k)
         \/ \E c \in LookUps[p].Channels : K(p)!ChannelClick(c)
  PROVE  LookUpInv(p)'
<1>0. channel \in LookUps[p].Channels
  BY TypesOf DEF LookUpInv
<1>1. ASSUME NEW slot \in K(p)!Slots, NEW k \in K(p)!Keys, slot # "Block No"
      PROVE  /\ K(p)!ListRow(slot, k) \in Asks(p) /\ K(p)!ListRow(slot, k) \in K(p)!Row
             /\ K(p)!ListRow(slot, k).slot = slot /\ K(p)!ListRow(slot, k).key = k
             /\ K(p)!ListRow(slot, k).channel = channel
  BY <1>0, <1>1 DEF K!ListRow, Asks, K!Row
<1>2. ASSUME NEW t \in LookUps[p].Ledger,
             K(p)!TransactionClick(t) \/ K(p)!RangeClick(t) PROVE LookUpInv(p)'
  <2>1. t.tx \in K(p)!Keys /\ t.channel = channel
    BY <1>2 DEF K!TransactionClick, K!RangeClick, K!Keys
  <2>2. PICK slot \in {"transaction", "Txn Hash"} :
           K(p)!Click(K(p)!ListRow(slot, t.tx), K(p)!ListRow(slot, t.tx))
    BY <1>2 DEF K!TransactionClick, K!RangeClick
  <2> DEFINE row == K(p)!ListRow(slot, t.tx)
  <2>3. slot \in K(p)!Slots /\ slot \in RowSlots
    BY DEF K!Slots, K!Options, RowSlots
  <2>4. /\ row \in Asks(p) /\ row \in K(p)!Row /\ row.slot = slot /\ row.key = t.tx
        /\ row.channel = channel
    BY <1>1, <2>1, <2>3
  <2>5. RowAsks(p, row, row)
    BY <2>1, <2>4 DEF RowAsks
  <2>6. K(p)!Click(row, row)
    BY <2>2
  <2> HIDE DEF row
  <2> QED BY <2>3, <2>4, <2>5, <2>6, ClickStep
<1>3. ASSUME NEW k \in LookUps[p].Chaincodes, K(p)!ChaincodeClick(k) PROVE LookUpInv(p)'
  <2>1. k \in K(p)!Keys /\ "metadata" \in K(p)!Slots /\ "metadata" \in RowSlots
    BY DEF K!Keys, K!Slots, RowSlots
  <2> DEFINE row == K(p)!ListRow("metadata", k)
  <2>2. K(p)!Click(row, row)
    BY <1>3 DEF K!ChaincodeClick
  <2>3. row \in Asks(p) /\ row \in K(p)!Row /\ row.slot = "metadata"
    BY <1>1, <2>1
  <2>4. RowAsks(p, row, row)
    BY <2>3 DEF RowAsks
  <2> HIDE DEF row
  <2> QED BY <2>1, <2>2, <2>3, <2>4, ClickStep
<1>4. ASSUME NEW c \in LookUps[p].Channels, K(p)!ChannelClick(c) PROVE LookUpInv(p)'
  <2> DEFINE row == [slot |-> "members", key |-> c, channel |-> c]
  <2>1. channel \in K(p)!Keys /\ c \in K(p)!Keys /\ "members" \in K(p)!Slots
        /\ "members" \in RowSlots
    BY <1>0 DEF K!Keys, K!Slots, RowSlots
  <2>2. row \in K(p)!Row /\ row.slot = "members"
    BY <2>1 DEF K!Row
  <2>3. RowAsks(p, row, K(p)!ListRow("members", channel))
    BY <1>1, <2>1, <2>2 DEF RowAsks
  <2>4. K(p)!Click(row, K(p)!ListRow("members", channel))
    BY <1>4 DEF K!ChannelClick
  <2> QED BY <1>1, <2>1, <2>2, <2>3, <2>4, ClickStep
<1> QED BY <1>2, <1>3, <1>4

(* Another page, another channel, another block.                           *)
LEMMA NavigateStep ==
  ASSUME NEW p, K(p)!LookUpParameters, LookUpInv(p), K(p)!Navigate
  PROVE  LookUpInv(p)'
<1> USE DEF LookUpInv
<1>1. /\ counts' \in [searches : Nat, edits : Nat, clicks : Nat, moves : Nat, fails : Nat]
      /\ counts'.fails = counts.fails
  BY CountUp DEF K!Navigate
<1>2. /\ db' = db /\ channel' = channel /\ results' = results /\ asked' = asked
      /\ page' \in {"dashboard", "lists"} /\ search' = K(p)!NoSearch
      /\ dialog' = K(p)!NoDialog
      /\ requests' = {[r EXCEPT !.then = "none"] : r \in requests}
      /\ crossed' = (crossed \/ requests # {})
  BY DEF K!Navigate
<1>3. \A s \in requests' : /\ s \in LookUpRequests(p) /\ s.then = "none"
                           /\ \E r \in requests : s.query = r.query /\ s.result = r.result
  <2>1. ASSUME NEW r \in requests
        PROVE  /\ [r EXCEPT !.then = "none"] \in LookUpRequests(p)
               /\ [r EXCEPT !.then = "none"].then = "none"
               /\ [r EXCEPT !.then = "none"].query = r.query
               /\ [r EXCEPT !.then = "none"].result = r.result
    BY TypesOf DEF LookUpRequests
  <2> QED BY <1>2, <2>1
<1>4. /\ search'.error = "" /\ ~search'.open /\ ~dialog'.open
      /\ K(p)!NoSearch \in [text : LookUps[p].Texts \cup {""}, option : K(p)!Options,
                      error : {"", "invalid", "absent"}, open : BOOLEAN]
      /\ K(p)!NoDialog \in [open : BOOLEAN, row : K(p)!Row]
  BY <1>2 DEF K!NoSearch, K!NoDialog, K!Options, K!Nothing, K!Row, K!Slots,
     K!LookUpParameters
<1>5. LookUpTypes(p)'
  BY <1>1, <1>2, <1>3, <1>4, TypesOf, TypesFrom
<1>6. OnPage'
  BY <1>3, <1>4 DEF OnPage
<1>7. TrueAnswers(p)'
  BY <1>3 DEF TrueAnswers
<1>8. OneAsked'
  BY <1>2 DEF OneAsked
<1> QED BY <1>4, <1>5, <1>6, <1>7, <1>8, NothingShown

(* Another channel is selected in the header.                               *)
LEMMA ChannelChangedStep ==
  ASSUME NEW p, K(p)!LookUpParameters, LookUpInv(p), NEW c \in LookUps[p].Channels,
         K(p)!ChannelChanged(c)
  PROVE  LookUpInv(p)'
<1> USE DEF LookUpInv
<1>1. /\ counts' \in [searches : Nat, edits : Nat, clicks : Nat, moves : Nat, fails : Nat]
      /\ counts'.fails = counts.fails
  BY CountUp DEF K!ChannelChanged
<1>2. /\ db' = db /\ channel' = c /\ page' = page /\ results' = results /\ asked' = asked
      /\ search' = search /\ dialog' = dialog /\ requests' = requests
      /\ crossed' = (crossed \/ requests # {})
  BY DEF K!ChannelChanged
<1>3. LookUpTypes(p)'
  BY <1>1, <1>2, TypesOf, TypesFrom
<1>4. OnPage' /\ TrueAnswers(p)'
  BY <1>2 DEF OnPage, TrueAnswers
<1>5. OneAsked'
  BY <1>1, <1>2 DEF OneAsked
<1>6. K(p)!ErrorIsTrue' /\ K(p)!SearchShowsAsked' /\ K(p)!DialogShowsRow'
  BY <1>1, <1>2 DEF K!ErrorIsTrue, K!SearchShowsAsked, K!DialogShowsRow, K!SearchShown,
     K!Undisturbed
<1> QED BY <1>3, <1>4, <1>5, <1>6

(* The synchronisation stores a row: what was found stays stored.           *)
LEMMA InsertStep ==
  ASSUME NEW p, K(p)!LookUpParameters, LookUpInv(p), K(p)!Insert
  PROVE  LookUpInv(p)'
<1> USE DEF LookUpInv
<1>1. /\ LookUps[p].Stored \subseteq db' /\ db' \subseteq LookUps[p].Ledger
      /\ UNCHANGED <<channel, page, results, search, dialog, requests, asked, crossed,
           counts>>
  BY TypesOf DEF K!Insert
<1>2. LookUpTypes(p)'
  BY <1>1, TypesOf, TypesFrom
<1>3. OnPage' /\ TrueAnswers(p)' /\ OneAsked'
  BY <1>1 DEF OnPage, TrueAnswers, OneAsked
<1>4. K(p)!ErrorIsTrue' /\ K(p)!SearchShowsAsked' /\ K(p)!DialogShowsRow'
  BY <1>1 DEF K!ErrorIsTrue, K!SearchShowsAsked, K!DialogShowsRow, K!SearchShown,
     K!Undisturbed
<1> QED BY <1>2, <1>3, <1>4

(* The server answers a request.                                           *)
LEMMA ServeStep ==
  ASSUME NEW p, K(p)!LookUpParameters, LookUpInv(p), NEW r \in requests, K(p)!Serve(r)
  PROVE  LookUpInv(p)'
<1> USE DEF LookUpInv
<1> DEFINE s == [r EXCEPT !.result = K(p)!Served(r.query)]
<1>1. /\ requests' = (requests \ {r}) \cup {s}
      /\ UNCHANGED <<db, channel, page, results, search, dialog, asked, crossed, counts>>
  BY DEF K!Serve
<1>2. r \in LookUpRequests(p) /\ r.query \in Asks(p)
  BY TypesOf DEF LookUpRequests
<1>3. /\ K(p)!Served(r.query) \in K(p)!Result /\ Answers(p, r.query, K(p)!Served(r.query))
      /\ \A row : RowAsks(p, row, r.query)
           /\ row.slot \in {"transaction", "Txn Hash", "metadata"} =>
                    AnswersRow(p, row, K(p)!Served(r.query))
  BY <1>2, ServedAnswers DEF K!Serve
<1>4. /\ s \in LookUpRequests(p) /\ s.query = r.query /\ s.then = r.then /\ s.row = r.row
      /\ s.result = K(p)!Served(r.query)
  BY <1>2, <1>3 DEF LookUpRequests
<1>5. LookUpTypes(p)'
  BY <1>1, <1>4, TypesOf, TypesFrom
<1>6. OnPage'
  BY <1>1, <1>4 DEF OnPage
<1>7. TrueAnswers(p)'
  <2>1. s.then = "dialog" => AnswersRow(p, s.row, s.result)
    BY <1>3, <1>4 DEF TrueAnswers, RowSlots, AnswersRow
  <2>2. /\ Answers(p, s.query, s.result)
           /\ (s.then = "search" => s.query.slot \in K(p)!Options)
        /\ s.then = "dialog" => s.row.slot \in RowSlots /\ RowAsks(p, s.row, s.query)
    BY <1>3, <1>4 DEF TrueAnswers
  <2> QED BY <1>1, <2>1, <2>2 DEF TrueAnswers
<1>8. OneAsked'
  BY <1>1, <1>4 DEF OneAsked
<1> QED BY <1>1, <1>5, <1>6, <1>7, <1>8, NothingShown

(* A request is rejected.                                                  *)
LEMMA RejectStep ==
  ASSUME NEW p, K(p)!LookUpParameters, LookUpInv(p), NEW r \in requests, K(p)!Reject(r)
  PROVE  LookUpInv(p)'
<1> USE DEF LookUpInv
<1>1. /\ counts' \in [searches : Nat, edits : Nat, clicks : Nat, moves : Nat, fails : Nat]
      /\ counts'.fails # 0
  <2>1. counts.fails \in Nat
    BY DEF LookUpTypes
  <2>2. counts'.fails = counts.fails + 1
    BY CountUp DEF K!Reject
  <2> QED BY <2>1, <2>2, CountUp DEF K!Reject
<1>2. /\ requests' = requests \ {r} /\ results' = results /\ K(p)!GoesOn(r)
      /\ UNCHANGED <<db, channel, page, asked, crossed>>
  BY DEF K!Reject
<1>3. LookUpTypes(p)'
  BY <1>1, <1>2, GoingOnTypes, TypesOf, TypesFrom
<1>4. OnPage'
  BY <1>2, GoingOnPage DEF OnPage
<1>5. TrueAnswers(p)' /\ OneAsked'
  BY <1>1, <1>2 DEF TrueAnswers, OneAsked
<1> QED BY <1>1, <1>3, <1>4, <1>5, NothingShown

(* A result reaches the store, and what awaited it.                        *)
LEMMA DeliverStep ==
  ASSUME NEW p, K(p)!LookUpParameters, LookUpInv(p), NEW r \in requests, K(p)!Deliver(r)
  PROVE  LookUpInv(p)'
<1> USE DEF LookUpInv
<1>1. /\ requests' = requests \ {r} /\ K(p)!GoesOn(r) /\ r.result # K(p)!None
      /\ UNCHANGED <<db, channel, page, asked, crossed, counts>>
  BY DEF K!Deliver
<1>2. /\ r \in LookUpRequests(p) /\ r.query \in Asks(p) /\ r.result \in K(p)!Result
      /\ r.then \in {"search", "dialog", "none"} /\ r.query.slot \in K(p)!Slots
  <2>1. /\ r \in LookUpRequests(p) /\ r.query \in Asks(p) /\ r.result \in K(p)!Result
        /\ r.then \in {"search", "dialog", "none"}
    BY TypesOf DEF LookUpRequests
  <2> QED BY <2>1, KeysLooked
<1>3. /\ results' \in [K(p)!Slots -> K(p)!Result]
      /\ r.result # K(p)!Invalid =>
           /\ results'[r.query.slot] = r.result
           /\ r.query.slot \in K(p)!Options =>
                \A s \in K(p)!Options : s # r.query.slot => results'[s] = K(p)!Empty
  <2>1. CASE r.result = K(p)!Invalid
    BY <2>1, TypesOf DEF K!Deliver
  <2>2. CASE r.result # K(p)!Invalid
    <3>1. K(p)!StoreResult(r)
      BY <2>2 DEF K!Deliver
    <3> QED BY <1>2, <3>1, TypesOf, ResultTypes DEF K!StoreResult, K!Slots
  <2> QED BY <2>1, <2>2
<1>4. LookUpTypes(p)'
  BY <1>1, <1>3, GoingOnTypes, TypesOf, TypesFrom
<1>5. OnPage'
  BY <1>1, GoingOnPage DEF OnPage
<1>6. TrueAnswers(p)' /\ OneAsked'
  BY <1>1 DEF TrueAnswers, OneAsked
<1>7. K(p)!ErrorIsTrue' /\ K(p)!SearchShowsAsked' /\ K(p)!DialogShowsRow'
  <2>1. CASE crossed \/ counts.fails # 0 \/ requests # {r}
    BY <1>1, <2>1, NothingShown
  <2>2. CASE ~crossed /\ counts.fails = 0 /\ requests = {r}
    <3>1. \/ r.then = "search" /\ r.query = asked /\ search.option = asked.slot
          \/ r.then = "dialog" /\ r.row = asked
      BY <2>2 DEF OneAsked
    <3>2. CASE r.then = "search"
      <4>1. r.query = asked /\ search.option = asked.slot /\ asked.slot \in K(p)!Options
        BY <3>1, <3>2 DEF TrueAnswers
      <4>2. dialog' = dialog /\ search' = Awaited(p, results') /\ ~dialog.open
        BY <1>1, <3>2, GoingOn, TypesOf DEF OnPage
      <4>3. search'.error = K(p)!SearchError(results') /\ search'.option = asked.slot
        BY <4>1, <4>2, AwaitedType
      <4>4. Answers(p, asked, r.result)
        BY <4>1 DEF TrueAnswers
      <4>5. r.result = K(p)!Invalid => K(p)!KeyOf(asked) = NaN
        <5>1. r.result # K(p)!None /\ K(p)!Invalid.state # "found"
              /\ K(p)!Invalid # K(p)!Absent
          BY <1>1, ResultTypes
        <5> QED BY <4>4, <5>1 DEF Answers
      <4>a. r.result # K(p)!Invalid =>
              (search'.error = "absent" <=> r.result = K(p)!Absent)
        BY <1>3, <4>1, <4>3, ResultTypes DEF K!SearchError
      <4>6. K(p)!ErrorIsTrue'
        <5>1. ASSUME search'.error = "absent"
              PROVE  /\ asked.slot \in {"Txn Hash", "Block By Txn ID"} =>
                          K(p)!QueryTransaction(asked.channel, asked.key) = K(p)!Absent
                     /\ asked.slot = "Block No" =>
                          \/ K(p)!KeyOf(asked) = NaN
                          \/ K(p)!QueryBlock(asked.channel, K(p)!KeyOf(asked)) = K(p)!Absent
                     /\ asked.slot = "Block Hash" =>
                          K(p)!QueryBlockByHash(asked.channel, asked.key) = K(p)!Absent
          <6>1. CASE r.result = K(p)!Invalid
            <7>1. r.result # K(p)!None /\ K(p)!Invalid.state # "found"
                  /\ K(p)!Invalid # K(p)!Absent
              BY <1>1, ResultTypes
            <7> QED BY <4>4, <6>1, <7>1 DEF Answers
          <6>2. CASE r.result # K(p)!Invalid
            <7>1. r.result = K(p)!Absent
              BY <4>a, <5>1, <6>2
            <7> QED BY <4>4, <7>1, ResultTypes DEF Answers
          <6> QED BY <6>1, <6>2
        <5> DEFINE NoTransaction ==
                     K(p)!QueryTransaction(asked.channel, asked.key) = K(p)!Absent
                   NoBlock == \/ K(p)!KeyOf(asked) = NaN
                              \/ K(p)!QueryBlock(asked.channel, K(p)!KeyOf(asked)) =
                                   K(p)!Absent
                   NoHash == K(p)!QueryBlockByHash(asked.channel, asked.key) = K(p)!Absent
                   Said == CASE asked.slot = "Block No"   -> NoBlock
                             [] asked.slot = "Block Hash" -> NoHash
                             [] OTHER                     -> NoTransaction
        <5>2. search'.error = "absent" => Said
          <6> HIDE DEF NoTransaction, NoBlock, NoHash
          <6>1. ASSUME search'.error = "absent" PROVE Said
            <7>1. /\ asked.slot \in {"Txn Hash", "Block By Txn ID"} => NoTransaction
                  /\ asked.slot = "Block No" => NoBlock
                  /\ asked.slot = "Block Hash" => NoHash
              BY <5>1, <6>1 DEF NoTransaction, NoBlock, NoHash
            <7>2. asked.slot \in {"Txn Hash", "Block By Txn ID", "Block No", "Block Hash"}
              BY <4>1 DEF K!Options
            <7>3. CASE asked.slot = "Block No"
              BY <7>1, <7>3
            <7>4. CASE asked.slot = "Block Hash"
              BY <7>1, <7>4
            <7>5. CASE asked.slot \in {"Txn Hash", "Block By Txn ID"}
              BY <7>1, <7>5
            <7> HIDE DEF Said
            <7> QED BY <7>2, <7>3, <7>4, <7>5
          <6> HIDE DEF Said
          <6> QED BY <6>1
        <5> QED BY <1>1, <5>2 DEF K!ErrorIsTrue
      <4>7. K(p)!SearchShowsAsked'
        <5>1. ASSUME K(p)!KeyOf(asked) # NaN, search'.error = ""
              PROVE  /\ results'[asked.slot].state = "found"
                     /\ results'[asked.slot].key = K(p)!KeyOf(asked)
          <6>1. r.result # K(p)!Invalid
            BY <4>5, <5>1
          <6>2. r.result # K(p)!Absent
            BY <4>a, <5>1, <6>1
          <6>3. r.result.state = "found" /\ r.result.key = K(p)!KeyOf(asked)
            BY <1>1, <4>1, <4>4, <6>1, <6>2 DEF Answers, K!Options
          <6> QED BY <1>3, <4>1, <6>1, <6>3
        <5>2. K(p)!KeyOf(asked)' = K(p)!KeyOf(asked)
          BY <1>1 DEF K!KeyOf
        <5> QED BY <1>1, <4>3, <5>1, <5>2 DEF K!SearchShowsAsked, K!SearchShown
      <4>8. K(p)!DialogShowsRow'
        BY <4>2 DEF K!DialogShowsRow
      <4> QED BY <4>6, <4>7, <4>8
    <3>3. CASE r.then = "dialog"
      <4>1. /\ r.row.slot \in RowSlots /\ RowAsks(p, r.row, r.query)
            /\ AnswersRow(p, r.row, r.result)
            /\ page = "lists"
        BY <3>3, TypesOf DEF TrueAnswers, OnPage
      <4>2. search' = search /\ dialog' = [open |-> TRUE, row |-> r.row]
        BY <1>1, <3>3, GoingOn
      <4>3. search'.error = "" /\ ~search'.open
        BY <4>1, <4>2 DEF OnPage
      <4>4. dialog'.row = r.row /\ r.query.slot = r.row.slot
        BY <4>1, <4>2 DEF RowAsks
      <4>5. K(p)!DialogShowsRow'
        <5>1. r.row.slot # "members" => r.result # K(p)!Invalid
          BY <1>1, <4>1, ResultTypes DEF AnswersRow
        <5> QED BY <1>1, <1>3, <4>1, <4>4, <5>1 DEF K!DialogShowsRow, AnswersRow
      <4> QED BY <4>3, <4>5 DEF K!ErrorIsTrue, K!SearchShowsAsked, K!SearchShown
    <3> QED BY <3>1, <3>2, <3>3
  <2> QED BY <2>1, <2>2
<1> QED BY <1>4, <1>5, <1>6, <1>7

(* Every step keeps it.                                                    *)
LEMMA LookUpSteps ==
  ASSUME NEW p, K(p)!LookUpParameters, LookUpInv(p), K(p)!Next
  PROVE  LookUpInv(p)'
BY EditStep, HandleSubmitStep, HandleDialogCloseStep, NavigateStep, InsertStep,
   ListClickSteps, ChannelChangedStep, ServeStep, DeliverStep, RejectStep DEF K!Next

-----------------------------------------------------------------------------
(* The numbers of the dashboard.                                           *)

(* Finite sets.                                                            *)

(* A set of finite sets has one that contains no other.                    *)
LEMMA MinimalSubset ==
  ASSUME NEW S, IsFiniteSet(S), NEW T \in SUBSET SUBSET S, T # {}
  PROVE  \E x \in T : \A y \in T : y \subseteq x => y = x
<1>1. IsWellFoundedOn(StrictSubsetOrdering(S), SUBSET S)
  BY FS_StrictSubsetOrderingWellFounded, FS_FiniteSubsetsOfFinite
<1>2. PICK x \in T : \A y \in T : <<y, x>> \notin StrictSubsetOrdering(S)
  BY <1>1, WFMin, Zenon
<1> QED BY <1>2 DEF StrictSubsetOrdering

(* The rows of what is asked for are finitely many, as the data are.       *)
LEMMA RowsFinite ==
  ASSUME NEW p, NEW data, IsFiniteSet(data), NEW table, table \subseteq M(p)!RowsOf(data)
  PROVE  /\ IsFiniteSet(M(p)!Of(table)) /\ Cardinality(M(p)!Of(table)) \in Nat
         /\ \A some : some \subseteq M(p)!Of(table) =>
              IsFiniteSet(some) /\ Cardinality(some) \in Nat
                /\ Cardinality(some) <= Cardinality(M(p)!Of(table))
<1> DEFINE f == [d \in data |-> [network |-> Numbers[p].Asking.network, row |-> d]]
           T == {f[d] : d \in data}
<1>1. IsFiniteSet(T)
  BY ImageFinite
<1>2. M(p)!Of(table) \subseteq T
  <2>1. ASSUME NEW r \in M(p)!Of(table) PROVE r \in T
    <3>1. r \in M(p)!RowsOf(data) /\ r.network = Numbers[p].Asking.network
      BY DEF M!Of
    <3>2. r.row \in data /\ r = [network |-> Numbers[p].Asking.network, row |-> r.row]
      BY <3>1 DEF M!RowsOf
    <3> QED BY <3>2
  <2> QED BY <2>1
<1> QED BY <1>1, <1>2, PartFinite

(* The rows of a finite set counted by a value of theirs sum up to those   *)
(* that have one of the values.                                            *)
LEMMA SumOfCounts ==
  ASSUME NEW R, IsFiniteSet(R), NEW D, IsFiniteSet(D), NEW g, NEW F,
         DOMAIN F = D, \A d \in D : F[d] = Cardinality({r \in R : g[r] = d})
  PROVE  SumFunction(F) = Cardinality({r \in R : g[r] \in D})
<1> DEFINE k == [s \in SUBSET D |-> Cardinality({r \in R : g[r] \in s})]
           IsIter(i) == i = [s \in SUBSET D |-> IF s = {} THEN 0
                         ELSE F[CHOOSE x \in s : TRUE] + i[s \ {CHOOSE x \in s : TRUE}]]
           iter == CHOOSE i : IsIter(i)
<1>1. SumFunction(F) = iter[D]
  BY DEF SumFunction, SumFunctionOnSet, FoldFunctionOnSet, MapThenFoldSet
<1>2. ASSUME NEW s \in SUBSET D, NEW x \in s
      PROVE  Cardinality({r \in R : g[r] \in s}) =
               F[x] + Cardinality({r \in R : g[r] \in s \ {x}})
  <2> DEFINE A == {r \in R : g[r] = x}
             B == {r \in R : g[r] \in s \ {x}}
             Q == {r \in R : g[r] \in s}
  <2>1. IsFiniteSet(Q) /\ Q = A \cup B /\ A \cap B = {}
    BY PartFinite
  <2>2. Cardinality(Q) = Cardinality(A) + Cardinality(B)
    BY <2>1, DisjointCount
  <2> QED BY <2>2
<1>3. Cardinality({r \in R : g[r] \in {}}) = 0
  <2>1. {r \in R : g[r] \in {}} = {}
    OBVIOUS
  <2> QED BY <2>1, FS_EmptySet
<1>4. IsIter(k)
  <2>1. ASSUME NEW s \in SUBSET D, s # {}
        PROVE  k[s] = F[CHOOSE x \in s : TRUE] + k[s \ {CHOOSE x \in s : TRUE}]
    <3>1. (CHOOSE x \in s : TRUE) \in s
      BY <2>1
    <3> QED BY <3>1, <1>2
  <2>2. k[{}] = 0
    BY <1>3
  <2> QED BY <2>1, <2>2
<1>5. IsIter(iter)
  BY <1>4
<1>6. ASSUME NEW i, IsIter(i) PROVE i[D] = k[D]
  <2> DEFINE Bad == {s \in SUBSET D : i[s] # k[s]}
  <2>1. SUFFICES ASSUME Bad # {} PROVE FALSE
    OBVIOUS
  <2>0. Bad \in SUBSET SUBSET D
    OBVIOUS
  <2>2. PICK s \in Bad : \A y \in Bad : y \subseteq s => y = s
    <3> HIDE DEF Bad
    <3> QED BY <2>0, <2>1, MinimalSubset
  <2>3. CASE s = {}
    <3>1. i[s] = 0
      BY <1>6, <2>3
    <3> QED BY <3>1, <2>3, <1>3
  <2>4. CASE s # {}
    <3> DEFINE x == CHOOSE x \in s : TRUE
    <3>1. x \in s
      BY <2>4
    <3>2. s \ {x} \in SUBSET D /\ s \ {x} # s /\ s \ {x} \subseteq s
      BY <3>1
    <3>3. i[s \ {x}] = k[s \ {x}]
      BY <3>2, <2>2
    <3>4. i[s] = F[x] + i[s \ {x}]
      BY <1>6, <2>4
    <3>5. k[s] = F[x] + k[s \ {x}]
      BY <1>2, <3>1, <3>2
    <3> QED BY <3>3, <3>4, <3>5
  <2> QED BY <2>3, <2>4
<1>7. k[D] = Cardinality({r \in R : g[r] \in D})
  OBVIOUS
<1> HIDE DEF k, IsIter, iter
<1> QED BY <1>1, <1>5, <1>6, <1>7

-----------------------------------------------------------------------------
(* The invariant.                                                          *)

StatusType(Data) ==
  [at : {"none", "tx", "blocks", "peers", "done"},
   chaincodes : Nat, tx : Nat, blocks : Nat, peers : Nat, stored : SUBSET Data]

MetricsTypes(p) ==
  /\ now \in 0 .. Numbers[p].MaxNow /\ answers \in 0 .. Numbers[p].MaxAsked
  /\ crossed \in BOOLEAN
  /\ channels = M(p)!RowsOf(M(p)!ChannelRows)
  /\ blocks \subseteq M(p)!RowsOf(Numbers[p].Blocks)
  /\ txs \subseteq M(p)!RowsOf(Numbers[p].Txs)
  /\ chaincodes \subseteq M(p)!RowsOf(Numbers[p].Code)
  /\ peers \subseteq M(p)!RowsOf(M(p)!PeerRows)
  /\ status \in StatusType(Numbers[p].Blocks)
  /\ byOrgs.at \in {"none", "peers", "done"} /\ byOrgs.rows \subseteq M(p)!CountRows

(* A block is stored after its transactions.                               *)
BlocksComplete(p) ==
  \A r \in blocks : \A t \in M(p)!TxsIn(r.row) : [network |-> r.network, row |-> t] \in txs

(* The blocks stored of what is asked for; the transactions of those that   *)
(* were stored when the status was asked.                                  *)
AskedBlocks(p) == {r.row : r \in M(p)!Of(blocks)}
StoredTxs(p)   == UNION {M(p)!TxsIn(b) : b \in status.stored}

(* What has been counted of the status.                                    *)
StatusSoFar(p) ==
  /\ status.at # "none" => status.stored \subseteq AskedBlocks(p)
  /\ status.at \in {"blocks", "peers", "done"} =>
       /\ Cardinality(StoredTxs(p)) <= status.tx
       /\ status.tx <= Cardinality(M(p)!Of(txs))
  /\ status.at \in {"peers", "done"} =>
       /\ Cardinality(status.stored) <= status.blocks
       /\ status.blocks <= Cardinality(M(p)!Of(blocks))
  /\ ~crossed =>
       /\ status.at # "none" => status.chaincodes = M(p)!GetChaincodeCount
       /\ status.at \in {"blocks", "peers", "done"} => status.tx = M(p)!GetTxCount
       /\ status.at \in {"peers", "done"} => status.blocks = M(p)!GetBlockCount
       /\ status.at = "done" => status.peers = M(p)!GetPeerlistCount

(* What getTxByOrgs answers of transactions: a row of each creator.        *)
RowsOfOrgs(table) ==
  {[org |-> o, count |-> Cardinality({r \in table : r.row.org = o})] :
     o \in {r.row.org : r \in table} \ {""}}

(* What has been counted by organization.                                  *)
OrgsSoFar(p) ==
  /\ byOrgs.at # "none" =>
       /\ \A r, q \in byOrgs.rows : r.org = q.org => r = q
       /\ \A r \in byOrgs.rows : r.count <= Cardinality(M(p)!TxsOf(r.org))
  /\ byOrgs.at = "peers" /\ ~crossed =>
       byOrgs.rows = RowsOfOrgs(M(p)!Of(txs))
  /\ byOrgs.at = "done" /\ ~crossed =>
       \A o \in ({r.row.org : r \in M(p)!Of(txs) \cup M(p)!Of(peers)} \ {""}) :
         [org |-> o, count |-> Cardinality(M(p)!TxsOf(o))] \in byOrgs.rows

MetricsInv(p) == MetricsTypes(p) /\ BlocksComplete(p) /\ StatusSoFar(p) /\ OrgsSoFar(p)

-----------------------------------------------------------------------------
(* The numbers.                                                            *)

(* The rows asked for are finitely many, and so are parts of them.         *)
LEMMA TablesFinite ==
  ASSUME NEW p, M(p)!MetricsParameters, MetricsTypes(p)
  PROVE  /\ IsFiniteSet(M(p)!Of(txs)) /\ IsFiniteSet(M(p)!Of(blocks))
            /\ IsFiniteSet(M(p)!Of(peers))
         /\ IsFiniteSet(M(p)!Of(chaincodes))
         /\ Cardinality(M(p)!Of(txs)) \in Nat /\ Cardinality(M(p)!Of(blocks)) \in Nat
         /\ Cardinality(M(p)!Of(peers)) \in Nat
<1>1. /\ IsFiniteSet(M(p)!Of(txs)) /\ IsFiniteSet(M(p)!Of(blocks))
      /\ IsFiniteSet(M(p)!Of(chaincodes))
      /\ Cardinality(M(p)!Of(txs)) \in Nat /\ Cardinality(M(p)!Of(blocks)) \in Nat
  BY RowsFinite, MetricsFinite DEF M!MetricsParameters, MetricsTypes
<1>2. IsFiniteSet(M(p)!Of(peers))
  <2> DEFINE f == [o \in Numbers[p].PeerOrgs |-> [network |-> Numbers[p].Asking.network,
                                      row |-> M(p)!OrgRow(Numbers[p].Asking.channel, o)]]
             T == {f[o] : o \in Numbers[p].PeerOrgs}
  <2>1. IsFiniteSet(T)
    BY ImageFinite, MetricsFinite DEF M!MetricsParameters
  <2>2. ASSUME NEW r \in M(p)!Of(peers) PROVE r \in T
    <3>1. /\ r \in M(p)!RowsOf(M(p)!PeerRows)
          /\ r.network = Numbers[p].Asking.network
          /\ r.row.channel = Numbers[p].Asking.channel
      BY DEF M!Of, MetricsTypes
    <3>2. PICK c \in Numbers[p].Channels,
                 o \in Numbers[p].PeerOrgs : r.row = M(p)!OrgRow(c, o)
      BY <3>1 DEF M!RowsOf, M!PeerRows
    <3>3. c = Numbers[p].Asking.channel
      BY <3>1, <3>2 DEF M!OrgRow
    <3>4. r =
            [network |-> Numbers[p].Asking.network,
              row |-> M(p)!OrgRow(Numbers[p].Asking.channel, o)]
      BY <3>1, <3>2, <3>3 DEF M!RowsOf
    <3> QED BY <3>4
  <2> QED BY <2>1, <2>2, PartFinite
<1> QED BY <1>1, <1>2, FS_CardinalityType

(* The chaincodes counted by name.                                         *)
LEMMA CodeCount ==
  ASSUME NEW p, M(p)!MetricsParameters, MetricsTypes(p)
  PROVE  M(p)!GetChaincodeCount \in Nat
<1> DEFINE f == [r \in M(p)!Of(chaincodes) |-> r.row.name]
<1>1. {r.row.name : r \in M(p)!Of(chaincodes)} = {f[r] : r \in M(p)!Of(chaincodes)}
  OBVIOUS
<1>2. IsFiniteSet({f[r] : r \in M(p)!Of(chaincodes)})
  BY TablesFinite, ImageFinite
<1> QED BY <1>1, <1>2, FS_CardinalityType, MetricsCount DEF M!GetChaincodeCount

(* The transactions of stored blocks are stored, so that both are not more  *)
(* than the rows.                                                          *)
LEMMA StoredCounted ==
  ASSUME NEW p, M(p)!MetricsParameters, MetricsTypes(p), BlocksComplete(p),
         NEW some, some \subseteq AskedBlocks(p)
  PROVE  /\ Cardinality(some) <= Cardinality(M(p)!Of(blocks)) /\ Cardinality(some) \in Nat
         /\ Cardinality(UNION {M(p)!TxsIn(b) : b \in some}) <= Cardinality(M(p)!Of(txs))
         /\ Cardinality(UNION {M(p)!TxsIn(b) : b \in some}) \in Nat
<1> DEFINE f == [r \in M(p)!Of(txs) |-> r.row]
           g == [r \in M(p)!Of(blocks) |-> r.row]
           T == {f[r] : r \in M(p)!Of(txs)}
           B == {g[r] : r \in M(p)!Of(blocks)}
           U == UNION {M(p)!TxsIn(b) : b \in some}
<1>1. /\ IsFiniteSet(M(p)!Of(txs)) /\ IsFiniteSet(M(p)!Of(blocks))
      /\ Cardinality(M(p)!Of(txs)) \in Nat /\ Cardinality(M(p)!Of(blocks)) \in Nat
  BY TablesFinite
<1>2. IsFiniteSet(T) /\ Cardinality(T) <= Cardinality(M(p)!Of(txs))
  <2>1. DOMAIN f = M(p)!Of(txs)
    OBVIOUS
  <2> HIDE DEF f
  <2> QED BY <1>1, <2>1, ImageFinite
<1>3. IsFiniteSet(B) /\ Cardinality(B) <= Cardinality(M(p)!Of(blocks))
  <2>1. DOMAIN g = M(p)!Of(blocks)
    OBVIOUS
  <2> HIDE DEF g
  <2> QED BY <1>1, <2>1, ImageFinite
<1>4. some \subseteq B
  BY DEF AskedBlocks
<1>5. U \subseteq T
  <2>1. ASSUME NEW b \in some, NEW t \in M(p)!TxsIn(b) PROVE t \in T
    <3>1. PICK r \in M(p)!Of(blocks) : r.row = b
      BY DEF AskedBlocks
    <3>2. /\ r \in blocks /\ r.network = Numbers[p].Asking.network
          /\ b.channel = Numbers[p].Asking.channel
      BY <3>1 DEF M!Of
    <3>3. [network |-> r.network, row |-> t] \in txs
      BY <2>1, <3>1, <3>2 DEF BlocksComplete
    <3>4. t.channel = b.channel
      BY <2>1 DEF M!TxsIn
    <3>5. [network |-> r.network, row |-> t] \in M(p)!Of(txs)
      BY <3>2, <3>3, <3>4 DEF M!Of
    <3>6. f[[network |-> r.network, row |-> t]] = t
      BY <3>5
    <3> QED BY <3>5, <3>6
  <2> HIDE DEF T
  <2> QED BY <2>1
<1> HIDE DEF T, B, U
<1>6. /\ IsFiniteSet(some) /\ Cardinality(some) \in Nat
      /\ Cardinality(some) <= Cardinality(B) /\ Cardinality(B) \in Nat
  BY <1>3, <1>4, PartFinite
<1>7. /\ Cardinality(U) \in Nat /\ Cardinality(U) <= Cardinality(T)
      /\ Cardinality(T) \in Nat
  BY <1>2, <1>5, PartFinite
<1>8. Cardinality(U) <= Cardinality(M(p)!Of(txs))
  BY <1>1, <1>2, <1>7
<1>9. Cardinality(some) <= Cardinality(M(p)!Of(blocks))
  BY <1>1, <1>3, <1>6
<1> QED BY <1>6, <1>7, <1>8, <1>9 DEF U

(* The number of a set that has become larger.                             *)
LEMMA MoreTxs ==
  ASSUME NEW p, M(p)!MetricsParameters, MetricsTypes(p), MetricsTypes(p)',
         txs \subseteq txs'
  PROVE  /\ Cardinality(M(p)!Of(txs)) <= Cardinality(M(p)!Of(txs)')
         /\ \A o : /\ Cardinality(M(p)!TxsOf(o)) <= Cardinality(M(p)!TxsOf(o)')
                   /\ Cardinality(M(p)!TxsOf(o)) \in Nat
                   /\ Cardinality(M(p)!TxsOf(o)') \in Nat
<1>1. txs' \subseteq M(p)!RowsOf(Numbers[p].Txs)
  BY DEF MetricsTypes
<1>2. M(p)!Of(txs)' = M(p)!Of(txs')
  BY DEF M!Of
<1>3. IsFiniteSet(M(p)!Of(txs)')
  BY <1>1, <1>2, RowsFinite, MetricsFinite DEF M!MetricsParameters
<1>4. M(p)!Of(txs) \subseteq M(p)!Of(txs)'
  BY DEF M!Of
<1>5. ASSUME NEW o
      PROVE  M(p)!TxsOf(o) \subseteq M(p)!TxsOf(o)'
             /\ M(p)!TxsOf(o)' \subseteq M(p)!Of(txs)'
  BY <1>4 DEF M!TxsOf
<1>6. ASSUME NEW o
      PROVE  /\ Cardinality(M(p)!TxsOf(o)) <= Cardinality(M(p)!TxsOf(o)')
             /\ Cardinality(M(p)!TxsOf(o)) \in Nat /\ Cardinality(M(p)!TxsOf(o)') \in Nat
  <2>1. IsFiniteSet(M(p)!TxsOf(o)')
    BY <1>3, <1>5, PartFinite
  <2> QED BY <1>5, <2>1, PartFinite
<1> QED BY <1>3, <1>4, <1>6, PartFinite

(* The same of the blocks, and those that are stored stay.                  *)
LEMMA MoreBlocks ==
  ASSUME NEW p, M(p)!MetricsParameters, MetricsTypes(p), MetricsTypes(p)',
         blocks \subseteq blocks'
  PROVE  /\ Cardinality(M(p)!Of(blocks)) <= Cardinality(M(p)!Of(blocks)')
         /\ Cardinality(M(p)!Of(blocks)) \in Nat /\ Cardinality(M(p)!Of(blocks)') \in Nat
         /\ AskedBlocks(p) \subseteq AskedBlocks(p)'
<1>1. blocks' \subseteq M(p)!RowsOf(Numbers[p].Blocks)
  BY DEF MetricsTypes
<1>2. M(p)!Of(blocks)' = M(p)!Of(blocks')
  BY DEF M!Of
<1>3. IsFiniteSet(M(p)!Of(blocks)')
  BY <1>1, <1>2, RowsFinite, MetricsFinite DEF M!MetricsParameters
<1>4. M(p)!Of(blocks) \subseteq M(p)!Of(blocks)'
  BY DEF M!Of
<1> QED BY <1>3, <1>4, PartFinite DEF AskedBlocks

(* What holds gives the properties.                                        *)
LEMMA MetricsFit ==
  ASSUME NEW p, M(p)!MetricsParameters, MetricsInv(p)
  PROVE  M(p)!TypeOK /\ M(p)!StatusFits /\ M(p)!OrgsOnce
<1> USE DEF MetricsInv
<1>1. M(p)!TypeOK
  <2>1. \A r \in M(p)!Of(txs) \cup M(p)!Of(blocks) : M(p)!ChannelRow(r.row.channel) \in
          {c.row : c \in channels}
    <3> DEFINE c ==
          [network |-> Numbers[p].Asking.network,
            row |-> M(p)!ChannelRow(Numbers[p].Asking.channel)]
    <3>1. c \in channels /\ c.row = M(p)!ChannelRow(Numbers[p].Asking.channel)
      BY MetricsFinite DEF MetricsTypes, M!RowsOf, M!MetricsParameters, M!ChannelRows
    <3>2. \A r \in M(p)!Of(txs) \cup M(p)!Of(blocks) : r.row.channel =
            Numbers[p].Asking.channel
      BY DEF M!Of
    <3> QED BY <3>1, <3>2
  <2>2. /\ \A k \in M(p)!Counted : status[k] \in Nat
        /\ status.stored \subseteq Numbers[p].Blocks
    BY DEF MetricsTypes, StatusType, M!Counted
  <2>3. status.at \in {"none", "tx", "blocks", "peers", "done"}
    BY DEF MetricsTypes, StatusType
  <2> QED BY <2>1, <2>2, <2>3 DEF M!TypeOK, MetricsTypes
<1>2. M(p)!StatusFits
  <2>1. status.at = "done" =>
          /\ Cardinality(status.stored) <= status.blocks
          /\ status.blocks <= Cardinality(M(p)!Of(blocks))
          /\ Cardinality(UNION {M(p)!TxsIn(b) : b \in status.stored}) <= status.tx
          /\ status.tx <= Cardinality(M(p)!Of(txs))
    BY DEF StatusSoFar, StoredTxs
  <2>2. status.at = "done" /\ ~crossed =>
          /\ status.chaincodes = M(p)!GetChaincodeCount
          /\ status.peers = M(p)!GetPeerlistCount
          /\ status.tx = M(p)!GetTxCount /\ status.blocks = M(p)!GetBlockCount
    BY DEF StatusSoFar
  <2> QED BY <2>1, <2>2, MetricsCount DEF M!StatusFits, M!GetTxCount, M!GetBlockCount
<1>3. M(p)!OrgsOnce
  BY MetricsCount DEF M!OrgsOnce, OrgsSoFar
<1> QED BY <1>1, <1>2, <1>3

-----------------------------------------------------------------------------
(* The steps.                                                              *)

(* The invariant holds when nothing has been asked.                         *)
LEMMA InitMetrics ==
  ASSUME NEW p, M(p)!MetricsParameters, M(p)!Init
  PROVE  MetricsInv(p)
<1>1. status \in StatusType(Numbers[p].Blocks) /\ status.at = "none"
  BY DEF M!Init, M!Unasked, StatusType
<1>2. byOrgs.at = "none" /\ byOrgs.rows = {}
  BY DEF M!Init, M!NoOrgs
<1>3. MetricsTypes(p)
  <2>1. channels = M(p)!RowsOf(M(p)!ChannelRows)
    BY DEF M!Init
  <2>2. /\ now = 0 /\ answers = 0 /\ crossed = FALSE
        /\ blocks = {} /\ txs = {} /\ peers = {} /\ chaincodes = {}
    BY DEF M!Init
  <2>3. 0 \in 0 .. Numbers[p].MaxNow /\ 0 \in 0 .. Numbers[p].MaxAsked
    BY MetricsFinite DEF M!MetricsParameters
  <2> QED BY <1>1, <1>2, <2>1, <2>2, <2>3 DEF MetricsTypes
<1>4. BlocksComplete(p)
  BY DEF M!Init, BlocksComplete
<1>5. StatusSoFar(p) /\ OrgsSoFar(p)
  BY <1>1, <1>2 DEF StatusSoFar, OrgsSoFar
<1> QED BY <1>3, <1>4, <1>5 DEF MetricsInv

(* The sync process stores a row.                                          *)
LEMMA SyncStep ==
  ASSUME NEW p, M(p)!MetricsParameters, MetricsInv(p), NEW n \in Numbers[p].Networks,
         M(p)!Sync(n)
  PROVE  MetricsInv(p)'
<1> USE DEF MetricsInv
<1>1. /\ crossed' = TRUE /\ now' = now /\ channels' = channels /\ status' = status
      /\ byOrgs' = byOrgs /\ answers' = answers
  BY DEF M!Sync
<1>2. /\ blocks \subseteq blocks' /\ txs \subseteq txs'
      /\ MetricsTypes(p)' /\ BlocksComplete(p)'
  <2>1. ASSUME NEW b \in Numbers[p].Blocks,
               blocks' = blocks \cup {[network |-> n, row |-> b]},
               {[network |-> n, row |-> t] : t \in M(p)!TxsIn(b)} \subseteq txs,
               UNCHANGED <<txs, peers, chaincodes>>
        PROVE  /\ blocks \subseteq blocks' /\ txs \subseteq txs'
               /\ MetricsTypes(p)' /\ BlocksComplete(p)'
    <3>1. [network |-> n, row |-> b] \in M(p)!RowsOf(Numbers[p].Blocks)
      BY DEF M!RowsOf
    <3>2. MetricsTypes(p)'
      BY <1>1, <2>1, <3>1 DEF MetricsTypes
    <3>3. BlocksComplete(p)'
      <4>1. ASSUME NEW r \in blocks', NEW t \in M(p)!TxsIn(r.row)
            PROVE  [network |-> r.network, row |-> t] \in txs'
        <5>1. CASE r \in blocks
          BY <2>1, <4>1, <5>1 DEF BlocksComplete
        <5>2. CASE r = [network |-> n, row |-> b]
          <6>1. r.network = n /\ r.row = b
            BY <5>2
          <6> QED BY <2>1, <4>1, <6>1
        <5> QED BY <2>1, <5>1, <5>2
      <4> QED BY <4>1 DEF BlocksComplete, M!TxsIn
    <3> QED BY <2>1, <3>2, <3>3
  <2>2. ASSUME NEW t \in Numbers[p].Txs,
               txs' = txs \cup {[network |-> n, row |-> t]},
               UNCHANGED <<blocks, peers, chaincodes>>
        PROVE  /\ blocks \subseteq blocks' /\ txs \subseteq txs'
               /\ MetricsTypes(p)' /\ BlocksComplete(p)'
    <3>1. [network |-> n, row |-> t] \in M(p)!RowsOf(Numbers[p].Txs)
      BY DEF M!RowsOf
    <3>2. MetricsTypes(p)'
      BY <1>1, <2>2, <3>1 DEF MetricsTypes
    <3>3. BlocksComplete(p)'
      BY <2>2 DEF BlocksComplete, M!TxsIn
    <3> QED BY <2>2, <3>2, <3>3
  <2>3. ASSUME NEW c \in Numbers[p].Channels, NEW o \in Numbers[p].PeerOrgs,
               peers' = peers \cup {[network |-> n, row |-> M(p)!OrgRow(c, o)]},
               UNCHANGED <<blocks, txs, chaincodes>>
        PROVE  /\ blocks \subseteq blocks' /\ txs \subseteq txs'
               /\ MetricsTypes(p)' /\ BlocksComplete(p)'
    <3>1. [network |-> n, row |-> M(p)!OrgRow(c, o)] \in M(p)!RowsOf(M(p)!PeerRows)
      BY DEF M!RowsOf, M!PeerRows
    <3>2. MetricsTypes(p)'
      BY <1>1, <2>3, <3>1 DEF MetricsTypes
    <3> QED BY <2>3, <3>2 DEF BlocksComplete, M!TxsIn
  <2>4. ASSUME NEW k \in Numbers[p].Code,
               chaincodes' = chaincodes \cup {[network |-> n, row |-> k]},
               UNCHANGED <<blocks, txs, peers>>
        PROVE  /\ blocks \subseteq blocks' /\ txs \subseteq txs'
               /\ MetricsTypes(p)' /\ BlocksComplete(p)'
    <3>1. [network |-> n, row |-> k] \in M(p)!RowsOf(Numbers[p].Code)
      BY DEF M!RowsOf
    <3>2. MetricsTypes(p)'
      BY <1>1, <2>4, <3>1 DEF MetricsTypes
    <3> QED BY <2>4, <3>2 DEF BlocksComplete, M!TxsIn
  <2> QED BY <2>1, <2>2, <2>3, <2>4 DEF M!Sync, M!Store
<1>3. /\ Cardinality(M(p)!Of(txs)) <= Cardinality(M(p)!Of(txs)')
      /\ Cardinality(M(p)!Of(txs)) \in Nat /\ Cardinality(M(p)!Of(txs)') \in Nat
  <2>1. M(p)!Of(txs)' = M(p)!Of(txs') /\ txs' \subseteq M(p)!RowsOf(Numbers[p].Txs)
    BY <1>2 DEF M!Of, MetricsTypes
  <2> QED BY <1>2, <2>1, MoreTxs, RowsFinite, MetricsFinite DEF M!MetricsParameters,
     MetricsTypes
<1>4. StatusSoFar(p)'
  <2>0. status.tx \in Nat /\ status.blocks \in Nat
    BY DEF MetricsTypes, StatusType
  <2>1. status.at # "none" => status.stored \subseteq AskedBlocks(p)'
    BY <1>2, MoreBlocks DEF StatusSoFar
  <2>2. status.at \in {"blocks", "peers", "done"} =>
          /\ Cardinality(StoredTxs(p)) <= status.tx
          /\ status.tx <= Cardinality(M(p)!Of(txs)')
    BY <1>3, <2>0 DEF StatusSoFar
  <2>3. status.at \in {"peers", "done"} =>
          /\ Cardinality(status.stored) <= status.blocks
          /\ status.blocks <= Cardinality(M(p)!Of(blocks)')
    BY <1>2, <2>0, MoreBlocks DEF StatusSoFar
  <2>4. StoredTxs(p)' = StoredTxs(p)
    BY <1>1 DEF StoredTxs, M!TxsIn
  <2> QED BY <1>1, <2>1, <2>2, <2>3, <2>4 DEF StatusSoFar
<1>5. OrgsSoFar(p)'
  <2>1. ASSUME byOrgs.at # "none", NEW r \in byOrgs.rows
        PROVE  r.count <= Cardinality(M(p)!TxsOf(r.org)')
    <3>1. r.count \in Nat
      BY DEF MetricsTypes, M!CountRows
    <3>0. r.count <= Cardinality(M(p)!TxsOf(r.org))
      BY <2>1 DEF OrgsSoFar
    <3>2. /\ Cardinality(M(p)!TxsOf(r.org)) <= Cardinality(M(p)!TxsOf(r.org)')
          /\ Cardinality(M(p)!TxsOf(r.org)) \in Nat
          /\ Cardinality(M(p)!TxsOf(r.org)') \in Nat
      BY <1>2, MoreTxs
    <3> QED BY <3>0, <3>1, <3>2
  <2>2. \A o : M(p)!TxsOf(o)' = {r \in M(p)!Of(txs)' : r.row.org = o}
    BY DEF M!TxsOf
  <2> QED BY <1>1, <2>1, <2>2 DEF OrgsSoFar, M!TxsOf
<1> QED BY <1>2, <1>4, <1>5

(* A query of the status.                                                  *)
LEMMA StatusSteps ==
  ASSUME NEW p, M(p)!MetricsParameters, MetricsInv(p),
         M(p)!GetStatus \/ M(p)!GetStatusGenerate
  PROVE  MetricsInv(p)'
<1> USE DEF MetricsInv
<1>0. /\ M(p)!GetChaincodeCount \in Nat /\ M(p)!GetTxCount \in Nat
      /\ M(p)!GetBlockCount \in Nat
      /\ M(p)!GetPeerlistCount \in Nat
  BY TablesFinite, CodeCount, MetricsCount DEF M!GetTxCount, M!GetBlockCount,
     M!GetPeerlistCount
<1>1. /\ M(p)!Of(txs)' = M(p)!Of(txs) /\ M(p)!Of(blocks)' = M(p)!Of(blocks)
      /\ UNCHANGED <<now, M(p)!tables>>
      /\ M(p)!GetChaincodeCount' = M(p)!GetChaincodeCount
      /\ M(p)!GetTxCount' = M(p)!GetTxCount
      /\ M(p)!GetBlockCount' = M(p)!GetBlockCount
      /\ M(p)!GetPeerlistCount' = M(p)!GetPeerlistCount
  BY MetricsCount DEF M!GetStatus, M!GetStatusGenerate, M!tables, M!Of, M!GetChaincodeCount,
     M!GetTxCount, M!GetBlockCount, M!GetPeerlistCount
<1>2. BlocksComplete(p)' /\ AskedBlocks(p)' = AskedBlocks(p)
  BY <1>1 DEF BlocksComplete, AskedBlocks, M!tables, M!TxsIn
<1>3. CASE M(p)!GetStatus
  <2>1. /\ status' =
             [M(p)!Unasked EXCEPT !.at = "tx", !.chaincodes = M(p)!GetChaincodeCount,
                                  !.stored = AskedBlocks(p)]
        /\ byOrgs' = M(p)!NoOrgs /\ crossed' = FALSE /\ answers < Numbers[p].MaxAsked
        /\ answers' = answers + 1
    BY <1>3 DEF M!GetStatus, AskedBlocks
  <2>2. status' \in StatusType(Numbers[p].Blocks) /\ status'.at = "tx"
        /\ status'.chaincodes = M(p)!GetChaincodeCount /\ status'.stored = AskedBlocks(p)
    <3>1. AskedBlocks(p) \subseteq Numbers[p].Blocks
      BY DEF AskedBlocks, M!Of, MetricsTypes, M!RowsOf
    <3> QED BY <2>1, <3>1, <1>0 DEF M!Unasked, StatusType
  <2>3. byOrgs'.at = "none" /\ byOrgs'.rows = {}
    BY <2>1 DEF M!NoOrgs
  <2>4. answers' \in 0 .. Numbers[p].MaxAsked
    BY <2>1, MetricsFinite DEF MetricsTypes, M!MetricsParameters
  <2>5. MetricsTypes(p)'
    BY <1>1, <2>1, <2>2, <2>3, <2>4 DEF MetricsTypes, M!tables
  <2>6. StatusSoFar(p)' /\ OrgsSoFar(p)'
    BY <1>1, <1>2, <2>2, <2>3 DEF StatusSoFar, OrgsSoFar
  <2> QED BY <1>2, <2>5, <2>6
<1>4. CASE M(p)!GetStatusGenerate
  <2>1. byOrgs' = byOrgs /\ crossed' = crossed /\ answers' = answers
    BY <1>4 DEF M!GetStatusGenerate
  <2>2. OrgsSoFar(p)'
    <3>1. \A o : M(p)!TxsOf(o)' = M(p)!TxsOf(o)
      BY <1>1 DEF M!TxsOf
    <3>2. M(p)!Of(peers)' = M(p)!Of(peers)
      BY <1>1 DEF M!Of, M!tables
    <3> QED BY <1>1, <2>1, <3>1, <3>2 DEF OrgsSoFar
  <2>3. status \in StatusType(Numbers[p].Blocks)
    BY DEF MetricsTypes
  <2>7. status.at # "none" =>
          /\ Cardinality(status.stored) <= Cardinality(M(p)!Of(blocks))
          /\ Cardinality(StoredTxs(p)) <= Cardinality(M(p)!Of(txs))
    <3>1. CASE status.at # "none"
      <4>1. status.stored \subseteq AskedBlocks(p)
        BY <3>1 DEF StatusSoFar
      <4> QED BY <4>1, StoredCounted DEF StoredTxs
    <3> QED BY <3>1
  <2>8. Cardinality(M(p)!Of(blocks)) \in Nat /\ Cardinality(M(p)!Of(txs)) \in Nat
    BY TablesFinite
  <2>4. CASE status.at = "tx"
             /\ status' = [status EXCEPT !.at = "blocks", !.tx = M(p)!GetTxCount]
    <3>1. /\ status' \in StatusType(Numbers[p].Blocks) /\ status'.at = "blocks"
          /\ status'.tx = M(p)!GetTxCount /\ status'.stored = status.stored
          /\ status'.chaincodes = status.chaincodes
      BY <2>3, <2>4, <1>0 DEF StatusType
    <3>2. MetricsTypes(p)'
      BY <1>1, <2>1, <3>1 DEF MetricsTypes, M!tables
    <3>3. StatusSoFar(p)'
      <4>1. StoredTxs(p)' = StoredTxs(p)
        BY <3>1 DEF StoredTxs, M!TxsIn
      <4>2. status'.tx = Cardinality(M(p)!Of(txs))
        BY <3>1, MetricsCount DEF M!GetTxCount
      <4> QED BY <1>1, <1>2, <2>1, <2>4, <2>7, <2>8, <3>1, <4>1, <4>2 DEF StatusSoFar
    <3> QED BY <1>2, <2>2, <3>2, <3>3
  <2>5. CASE status.at = "blocks"
             /\ status' = [status EXCEPT !.at = "peers", !.blocks = M(p)!GetBlockCount]
    <3>1. /\ status' \in StatusType(Numbers[p].Blocks) /\ status'.at = "peers"
          /\ status'.tx = status.tx /\ status'.stored = status.stored
          /\ status'.chaincodes = status.chaincodes /\ status'.blocks = M(p)!GetBlockCount
      BY <2>3, <2>5, <1>0 DEF StatusType
    <3>2. MetricsTypes(p)'
      BY <1>1, <2>1, <3>1 DEF MetricsTypes, M!tables
    <3>3. status'.blocks = Cardinality(M(p)!Of(blocks))
      BY <3>1, MetricsCount DEF M!GetBlockCount
    <3>4. StatusSoFar(p)'
      <4>1. StoredTxs(p)' = StoredTxs(p)
        BY <3>1 DEF StoredTxs, M!TxsIn
      <4> QED BY <1>1, <1>2, <2>1, <2>5, <2>7, <2>8, <3>1, <3>3, <4>1 DEF StatusSoFar
    <3> QED BY <1>2, <2>2, <3>2, <3>4
  <2>6. CASE status.at = "peers"
             /\ status' = [status EXCEPT !.at = "done", !.peers = M(p)!GetPeerlistCount]
    <3>1. /\ status' \in StatusType(Numbers[p].Blocks) /\ status'.at = "done"
          /\ status'.tx = status.tx /\ status'.stored = status.stored
          /\ status'.chaincodes = status.chaincodes /\ status'.blocks = status.blocks
          /\ status'.peers = M(p)!GetPeerlistCount
      BY <2>3, <2>6, <1>0 DEF StatusType
    <3>2. MetricsTypes(p)'
      BY <1>1, <2>1, <3>1 DEF MetricsTypes, M!tables
    <3>3. StatusSoFar(p)'
      <4>1. StoredTxs(p)' = StoredTxs(p)
        BY <3>1 DEF StoredTxs, M!TxsIn
      <4> QED BY <1>1, <1>2, <2>1, <2>6, <3>1, <4>1 DEF StatusSoFar
    <3> QED BY <1>2, <2>2, <3>2, <3>3
  <2> QED BY <1>4, <2>4, <2>5, <2>6 DEF M!GetStatusGenerate
<1> QED BY <1>3, <1>4

(* The clock.                                                              *)
LEMMA TickStep ==
  ASSUME NEW p, M(p)!MetricsParameters, MetricsInv(p), M(p)!Tick
  PROVE  MetricsInv(p)'
<1> USE DEF MetricsInv
<1>1. UNCHANGED <<M(p)!tables, status, byOrgs, crossed, answers>>
      /\ now' \in 0 .. Numbers[p].MaxNow
  BY MetricsFinite DEF M!Tick, MetricsTypes, M!MetricsParameters
<1>2. MetricsTypes(p)' /\ BlocksComplete(p)'
  BY <1>1 DEF MetricsTypes, BlocksComplete, M!tables, M!TxsIn
<1>3. /\ M(p)!Of(txs)' = M(p)!Of(txs) /\ M(p)!Of(blocks)' = M(p)!Of(blocks)
      /\ M(p)!Of(peers)' = M(p)!Of(peers)
      /\ M(p)!GetChaincodeCount' = M(p)!GetChaincodeCount
      /\ M(p)!GetTxCount' = M(p)!GetTxCount
      /\ M(p)!GetBlockCount' = M(p)!GetBlockCount
      /\ M(p)!GetPeerlistCount' = M(p)!GetPeerlistCount
      /\ \A o : M(p)!TxsOf(o)' = M(p)!TxsOf(o)
  BY <1>1, MetricsCount DEF M!tables, M!Of, M!GetChaincodeCount, M!GetTxCount,
     M!GetBlockCount, M!GetPeerlistCount, M!TxsOf
<1>4. StatusSoFar(p)'
  BY <1>1, <1>3 DEF StatusSoFar, AskedBlocks, StoredTxs, M!TxsIn
<1>5. OrgsSoFar(p)'
  BY <1>1, <1>3 DEF OrgsSoFar
<1> QED BY <1>2, <1>4, <1>5

(* A query of the route txByOrg.                                           *)
LEMMA OrgsSteps ==
  ASSUME NEW p, M(p)!MetricsParameters, MetricsInv(p), M(p)!GetTxByOrgs \/ M(p)!AddOrgs
  PROVE  MetricsInv(p)'
<1> USE DEF MetricsInv
<1>1. UNCHANGED <<now, M(p)!tables>>
  BY MetricsCount DEF M!GetTxByOrgs, M!AddOrgs
<1>2. /\ M(p)!Of(txs)' = M(p)!Of(txs) /\ M(p)!Of(blocks)' = M(p)!Of(blocks)
      /\ M(p)!Of(peers)' = M(p)!Of(peers)
      /\ M(p)!GetChaincodeCount' = M(p)!GetChaincodeCount
      /\ M(p)!GetTxCount' = M(p)!GetTxCount
      /\ M(p)!GetBlockCount' = M(p)!GetBlockCount
      /\ M(p)!GetPeerlistCount' = M(p)!GetPeerlistCount
      /\ \A o : M(p)!TxsOf(o)' = M(p)!TxsOf(o)
  BY <1>1, MetricsCount DEF M!tables, M!Of, M!GetChaincodeCount, M!GetTxCount,
     M!GetBlockCount, M!GetPeerlistCount, M!TxsOf
<1>3. BlocksComplete(p)'
  BY <1>1 DEF BlocksComplete, M!tables, M!TxsIn
<1>4. \A o : Cardinality(M(p)!TxsOf(o)) \in Nat
  BY TablesFinite, PartFinite DEF M!TxsOf
<1>5. \A r \in M(p)!Of(txs) : r.row \in Numbers[p].Txs
  BY DEF M!Of, MetricsTypes, M!RowsOf
<1>6. \A r \in M(p)!Of(peers) : r.row.org \in Numbers[p].PeerOrgs
  <2>1. ASSUME NEW r \in M(p)!Of(peers) PROVE r.row.org \in Numbers[p].PeerOrgs
    <3>1. PICK c \in Numbers[p].Channels,
                 o \in Numbers[p].PeerOrgs : r.row = M(p)!OrgRow(c, o)
      BY DEF M!Of, MetricsTypes, M!RowsOf, M!PeerRows
    <3> QED BY <3>1 DEF M!OrgRow
  <2> QED BY <2>1
<1> DEFINE counted == {r.row.org : r \in M(p)!Of(txs)} \ {""}
           row(o, k) == [org |-> o, count |-> k]
<1>9. RowsOfOrgs(M(p)!Of(txs)) = {row(o, Cardinality(M(p)!TxsOf(o))) : o \in counted}
  BY DEF RowsOfOrgs, M!TxsOf
<1>7. CASE M(p)!GetTxByOrgs
  <2>1. /\ byOrgs' =
             [at |-> "peers", rows |-> {row(o, Cardinality(M(p)!TxsOf(o))) : o \in counted}]
        /\ status' = M(p)!Unasked /\ crossed' = FALSE /\ answers < Numbers[p].MaxAsked
        /\ answers' = answers + 1
    BY <1>7, MetricsCount DEF M!GetTxByOrgs
  <2>2. /\ byOrgs'.at = "peers"
        /\ byOrgs'.rows = {row(o, Cardinality(M(p)!TxsOf(o))) : o \in counted}
    BY <2>1
  <2>3. status' \in StatusType(Numbers[p].Blocks) /\ status'.at = "none"
    BY <2>1 DEF M!Unasked, StatusType
  <2>4. ASSUME NEW r \in byOrgs'.rows
        PROVE  r \in M(p)!CountRows /\ r.org \in counted
               /\ r = row(r.org, Cardinality(M(p)!TxsOf(r.org)))
    <3>1. PICK o \in counted : r = row(o, Cardinality(M(p)!TxsOf(o)))
      BY <2>2
    <3>2. o \in {t.org : t \in Numbers[p].Txs} \ {""}
      BY <3>1, <1>5
    <3> QED BY <3>1, <3>2, <1>4 DEF M!CountRows
  <2>5. answers' \in 0 .. Numbers[p].MaxAsked
    <3>1. answers \in 0 .. Numbers[p].MaxAsked /\ Numbers[p].MaxAsked \in Nat
      BY MetricsFinite DEF MetricsTypes, M!MetricsParameters
    <3>2. answers < Numbers[p].MaxAsked /\ answers' = answers + 1
      BY <2>1
    <3> QED BY <3>1, <3>2
  <2>6. MetricsTypes(p)'
    BY <1>1, <2>1, <2>2, <2>3, <2>4, <2>5 DEF MetricsTypes, M!tables
  <2>7. StatusSoFar(p)'
    BY <2>3 DEF StatusSoFar
  <2>8. \A r \in byOrgs'.rows : r.count <= Cardinality(M(p)!TxsOf(r.org)')
    <3>1. ASSUME NEW r \in byOrgs'.rows PROVE r.count = Cardinality(M(p)!TxsOf(r.org))
      <4>1. r = row(r.org, Cardinality(M(p)!TxsOf(r.org)))
        BY <2>4
      <4>2. row(r.org, Cardinality(M(p)!TxsOf(r.org))).count =
              Cardinality(M(p)!TxsOf(r.org))
        OBVIOUS
      <4> QED BY <4>1, <4>2
    <3> QED BY <3>1, <1>2, <1>4
  <2>9. \A r, q \in byOrgs'.rows : r.org = q.org => r = q
    BY <2>4
  <2>10. OrgsSoFar(p)'
    <3>1. byOrgs'.rows = RowsOfOrgs(M(p)!Of(txs)')
      BY <1>2, <2>2, <1>9
    <3> QED BY <1>2, <2>2, <2>8, <2>9, <3>1 DEF OrgsSoFar
  <2> QED BY <1>3, <2>6, <2>7, <2>10
<1>8. CASE M(p)!AddOrgs
  <2> DEFINE others == {r.row.org : r \in M(p)!Of(peers)} \ {r.org : r \in byOrgs.rows}
  <2>1. /\ byOrgs.at = "peers" /\ status' = status /\ crossed' = crossed
        /\ answers' = answers
        /\ byOrgs' = [at |-> "done", rows |-> byOrgs.rows \cup {row(o, 0) : o \in others}]
    BY <1>8 DEF M!AddOrgs
  <2>2. byOrgs'.at = "done" /\ byOrgs'.rows = byOrgs.rows \cup {row(o, 0) : o \in others}
    BY <2>1
  <2>3. \A r \in byOrgs'.rows : \/ r \in byOrgs.rows
                                \/ r.org \in others /\ r = row(r.org, 0)
                                   /\ r \in M(p)!CountRows
    <3>1. ASSUME NEW o \in others PROVE row(o, 0) \in M(p)!CountRows
      BY <1>6 DEF M!CountRows
    <3> QED BY <2>2, <3>1
  <2>4. MetricsTypes(p)'
    BY <1>1, <2>1, <2>2, <2>3 DEF MetricsTypes, M!tables
  <2>5. StatusSoFar(p)'
    BY <1>2, <2>1 DEF StatusSoFar, AskedBlocks, StoredTxs, M!TxsIn
  <2>6. \A r \in byOrgs'.rows : r.count <= Cardinality(M(p)!TxsOf(r.org)')
    <3>1. \A r \in byOrgs.rows : r.count <= Cardinality(M(p)!TxsOf(r.org))
      BY <2>1 DEF OrgsSoFar
    <3> QED BY <1>2, <1>4, <2>3, <3>1
  <2>7. \A r, q \in byOrgs'.rows : r.org = q.org => r = q
    <3>1. \A r, q \in byOrgs.rows : r.org = q.org => r = q
      BY <2>1 DEF OrgsSoFar
    <3>2. \A r \in byOrgs.rows : r.org \notin others
      OBVIOUS
    <3> QED BY <2>3, <3>1, <3>2
  <2>8. ASSUME ~crossed,
               NEW o \in {r.row.org : r \in M(p)!Of(txs) \cup M(p)!Of(peers)} \ {""}
        PROVE  row(o, Cardinality(M(p)!TxsOf(o))) \in byOrgs'.rows
    <3>1. byOrgs.rows = {row(u, Cardinality(M(p)!TxsOf(u))) : u \in counted}
      BY <2>1, <2>8, <1>9 DEF OrgsSoFar
    <3>2. CASE o \in counted
      BY <2>2, <3>1, <3>2
    <3>3. CASE o \notin counted
      <4>1. M(p)!TxsOf(o) = {}
        BY <3>3 DEF M!TxsOf
      <4>2. Cardinality(M(p)!TxsOf(o)) = 0
        BY <4>1, FS_EmptySet
      <4>3. o \in {r.row.org : r \in M(p)!Of(peers)}
        BY <3>3
      <4>4. ASSUME NEW r \in byOrgs.rows PROVE r.org \in counted
        <5>1. PICK u \in counted : r = row(u, Cardinality(M(p)!TxsOf(u)))
          BY <3>1
        <5>2. r.org = u
          BY <5>1
        <5> QED BY <5>2
      <4>5. o \in others
        BY <3>3, <4>3, <4>4
      <4> QED BY <2>2, <4>2, <4>5
    <3> QED BY <3>2, <3>3
  <2>9. OrgsSoFar(p)'
    BY <1>2, <2>1, <2>2, <2>6, <2>7, <2>8 DEF OrgsSoFar
  <2> QED BY <1>3, <2>4, <2>5, <2>9
<1> QED BY <1>7, <1>8

(* Every step of Metrics keeps the invariant.                               *)
LEMMA MetricsSteps ==
  ASSUME NEW p, M(p)!MetricsParameters, MetricsInv(p), M(p)!Next
  PROVE  MetricsInv(p)'
BY SyncStep, TickStep, StatusSteps, OrgsSteps DEF M!Next

-----------------------------------------------------------------------------
(* The charts.                                                             *)

(* date_trunc: the last multiple of the unit that is not later.            *)
LEMMA TruncIsMultiple ==
  ASSUME NEW p, NEW unit \in Nat \ {0}, NEW t \in Int
  PROVE  /\ M(p)!Trunc(unit, t) \in Int /\ M(p)!Trunc(unit, t) % unit = 0
         /\ M(p)!Trunc(unit, t) <= t /\ t < M(p)!Trunc(unit, t) + unit
<1> DEFINE q == t \div unit
<1>1. q \in Int /\ t = q * unit + (t % unit) /\ t % unit \in 0 .. unit - 1
  <2>1. q \in Int /\ t % unit \in 0 .. unit - 1
    OBVIOUS
  <2>2. t = unit * (t \div unit) + (t % unit)
    OBVIOUS
  <2>3. unit * (t \div unit) = (t \div unit) * unit
    BY <2>1
  <2> QED BY <2>1, <2>2, <2>3
<1>2. (q * unit) % unit = 0 /\ q * unit \in Int
  <2>1. ASSUME NEW k \in Int PROVE (k * unit) % unit = 0 /\ k * unit \in Int
    OBVIOUS
  <2> QED BY <1>1, <2>1
<1> QED BY <1>1, <1>2 DEF M!Trunc

(* A multiple of the unit is not after a time if not after its truncation. *)
LEMMA TruncIsLast ==
  ASSUME NEW p, NEW unit \in Nat \ {0}, NEW t \in Int, NEW d \in Int, d % unit = 0
  PROVE  /\ d <= t <=> d <= M(p)!Trunc(unit, t)
         /\ t < d + unit <=> M(p)!Trunc(unit, t) <= d
         /\ t < d <=> M(p)!Trunc(unit, t) < d
<1>1. PICK k \in Int : d = k * unit
  OBVIOUS
<1> DEFINE q == t \div unit
<1>2. q \in Int /\ M(p)!Trunc(unit, t) = q * unit
  BY DEF M!Trunc
<1>3. q * unit <= t /\ t < q * unit + unit
  BY <1>2, TruncIsMultiple
<1>4. k <= q => k * unit <= q * unit
  BY <1>2
<1>5. k > q => k * unit >= q * unit + unit
  <2>1. ASSUME k >= q + 1 PROVE k * unit >= (q + 1) * unit
    BY <1>2, <2>1
  <2> QED BY <1>2, <2>1
<1>6. k < q => k * unit + unit <= q * unit
  <2>1. ASSUME k + 1 <= q PROVE (k + 1) * unit <= q * unit
    BY <1>2, <2>1
  <2> QED BY <1>2, <2>1
<1> QED BY <1>1, <1>2, <1>3, <1>4, <1>5, <1>6

(* A multiple of a multiple, and of differences.                           *)
LEMMA MultiplesIn ==
  ASSUME NEW unit \in Nat \ {0}, NEW span \in Nat \ {0}, span % unit = 0,
         NEW d \in Int, d % span = 0
  PROVE  d % unit = 0
<1>1. PICK k \in Int : d = k * span
  OBVIOUS
<1>2. PICK j \in Int : span = j * unit
  OBVIOUS
<1>3. d = (k * j) * unit /\ k * j \in Int
  BY <1>1, <1>2
<1> QED BY <1>3

(* Sums and differences of multiples of a unit are multiples.               *)
LEMMA SumOfMultiples ==
  ASSUME NEW unit \in Nat \ {0}, NEW a \in Int, NEW b \in Int, a % unit = 0, b % unit = 0
  PROVE  (a + b) % unit = 0 /\ (a - b) % unit = 0
<1>1. PICK j \in Int : a = j * unit
  OBVIOUS
<1>2. PICK k \in Int : b = k * unit
  OBVIOUS
<1>3. a + b = (j + k) * unit /\ a - b = (j - k) * unit
  BY <1>1, <1>2
<1>4. ((j + k) * unit) % unit = 0 /\ ((j - k) * unit) % unit = 0
  OBVIOUS
<1> QED BY <1>3, <1>4

(* The charts of minutes and of hours tell the same, for every clock, unit *)
(* and table.                                                              *)
LEMMA ChartsOfTables ==
  ASSUME NEW p, M(p)!MetricsParameters, MetricsTypes(p)
  PROVE  M(p)!ChartsAgree
<1>0. /\ Numbers[p].Minute \in Nat \ {0} /\ Numbers[p].Hour \in Nat \ {0}
      /\ Numbers[p].Day \in Nat \ {0}
      /\ Numbers[p].Hour % Numbers[p].Minute = 0 /\ Numbers[p].Day % Numbers[p].Hour = 0
      /\ now \in Int
  BY MetricsFinite DEF M!MetricsParameters, MetricsTypes
<1> DEFINE current == M(p)!Trunc(Numbers[p].Hour, now)
           minute  == M(p)!Trunc(Numbers[p].Minute, now)
<1>1. /\ current \in Int /\ current % Numbers[p].Hour = 0 /\ current <= now
      /\ now < current + Numbers[p].Hour
      /\ minute \in Int /\ minute % Numbers[p].Minute = 0 /\ minute <= now
      /\ now < minute + Numbers[p].Minute
  BY <1>0, TruncIsMultiple
<1>2. /\ current % Numbers[p].Minute = 0
      /\ (current + Numbers[p].Hour) % Numbers[p].Minute = 0
      /\ (current - Numbers[p].Day) % Numbers[p].Hour = 0
  <2>1. current % Numbers[p].Minute = 0
    BY <1>0, <1>1, MultiplesIn
  <2> HIDE DEF current
  <2>2. Numbers[p].Hour \in Int /\ Numbers[p].Day \in Int
    BY <1>0
  <2>3. (current + Numbers[p].Hour) % Numbers[p].Minute = 0
    BY <1>0, <1>1, <2>1, <2>2, SumOfMultiples
  <2>4. (current - Numbers[p].Day) % Numbers[p].Hour = 0
    BY <1>0, <1>1, <2>2, SumOfMultiples
  <2> QED BY <2>1, <2>3, <2>4
<1>3. ASSUME NEW table \in {txs, blocks}
      PROVE  LET minutes == M(p)!Chart(Numbers[p].Minute, Numbers[p].Hour, table)
                 hours   == M(p)!Chart(Numbers[p].Hour, Numbers[p].Day, table)
             IN  /\ hours[current] =
                      Cardinality({r \in M(p)!Of(table) :
                        /\ r.row.time >= minute + Numbers[p].Minute
                        /\ r.row.time < current + Numbers[p].Hour})
                      + SumFunction([m \in
                        {d \in DOMAIN minutes : d >= current} |-> minutes[m]])
                 /\ SumFunction(hours) =
                      Cardinality({r \in M(p)!Of(table) :
                        /\ current - Numbers[p].Day <= r.row.time
                        /\ r.row.time < current + Numbers[p].Hour})
  <2> DEFINE R == M(p)!Of(table)
             DH == {x \in current - Numbers[p].Day .. current : x % Numbers[p].Hour = 0}
             DM == {x \in minute - Numbers[p].Hour .. minute : x % Numbers[p].Minute = 0}
             D  == {d \in DM : d >= current}
             gh == [r \in R |-> M(p)!Trunc(Numbers[p].Hour, r.row.time)]
             gm == [r \in R |-> M(p)!Trunc(Numbers[p].Minute, r.row.time)]
             hours   == M(p)!Chart(Numbers[p].Hour, Numbers[p].Day, table)
             minutes == M(p)!Chart(Numbers[p].Minute, Numbers[p].Hour, table)
             F  == [m \in {d \in DOMAIN minutes : d >= current} |-> minutes[m]]
  <2>1. IsFiniteSet(R) /\ \A r \in R : r.row.time \in Int
    <3>1. IsFiniteSet(R)
      BY TablesFinite
    <3>2. table \subseteq M(p)!RowsOf(Numbers[p].Txs)
          \/ table \subseteq M(p)!RowsOf(Numbers[p].Blocks)
      BY DEF MetricsTypes
    <3>3. \A r \in R : r.row \in Numbers[p].Blocks \cup Numbers[p].Txs
      BY <3>2 DEF M!Of, M!RowsOf
    <3> QED BY <3>1, <3>3, MetricsFinite DEF M!MetricsParameters
  <2>2. IsFiniteSet(DH) /\ IsFiniteSet(D)
    <3>0. current - Numbers[p].Day \in Int /\ minute - Numbers[p].Hour \in Int
      BY <1>0, <1>1
    <3>1. IsFiniteSet(current - Numbers[p].Day .. current)
          /\ IsFiniteSet(minute - Numbers[p].Hour .. minute)
      <4> HIDE DEF current, minute
      <4> QED BY <1>1, <3>0, FS_Interval
    <3>2. DH \subseteq current - Numbers[p].Day .. current
          /\ D \subseteq minute - Numbers[p].Hour .. minute
      OBVIOUS
    <3> QED BY <3>1, <3>2, PartFinite
  <2>3. /\ DOMAIN hours = DH /\ \A d \in DH : hours[d] = Cardinality({r \in R : gh[r] = d})
        /\ DOMAIN minutes = DM
           /\ \A d \in DM : minutes[d] = Cardinality({r \in R : gm[r] = d})
    <3>1. \A d : {r \in R : gh[r] = d} =
            {r \in R : M(p)!Trunc(Numbers[p].Hour, r.row.time) = d}
      OBVIOUS
    <3>2. \A d : {r \in R : gm[r] = d} =
            {r \in R : M(p)!Trunc(Numbers[p].Minute, r.row.time) = d}
      OBVIOUS
    <3> QED BY <3>1, <3>2, MetricsCount DEF M!Chart
  <2>4. SumFunction(hours) = Cardinality({r \in R : gh[r] \in DH})
    <3> HIDE DEF hours, gh, DH, R
    <3> QED BY <2>1, <2>2, <2>3, SumOfCounts
  <2>5. SumFunction(F) = Cardinality({r \in R : gm[r] \in D})
    <3>1. DOMAIN F = D /\ \A d \in D : F[d] = Cardinality({r \in R : gm[r] = d})
      BY <2>3
    <3> HIDE DEF F, gm, D, R
    <3> QED BY <2>1, <2>2, <3>1, SumOfCounts
  <2>6. ASSUME NEW r \in R
        PROVE  /\ gh[r] \in DH <=>
                    current - Numbers[p].Day <= r.row.time
                    /\ r.row.time < current + Numbers[p].Hour
               /\ gh[r] = current <=>
                    current <= r.row.time /\ r.row.time < current + Numbers[p].Hour
               /\ gm[r] \in D <=>
                    current <= r.row.time /\ r.row.time < minute + Numbers[p].Minute
               /\ gm[r] \in D => r.row.time < current + Numbers[p].Hour
    <3> DEFINE t == r.row.time
    <3>1. t \in Int /\ gh[r] = M(p)!Trunc(Numbers[p].Hour, t)
          /\ gm[r] = M(p)!Trunc(Numbers[p].Minute, t)
      BY <2>1
    <3>2. /\ M(p)!Trunc(Numbers[p].Hour, t) \in Int
          /\ M(p)!Trunc(Numbers[p].Hour, t) % Numbers[p].Hour = 0
          /\ M(p)!Trunc(Numbers[p].Minute, t) \in Int
          /\ M(p)!Trunc(Numbers[p].Minute, t) % Numbers[p].Minute = 0
      BY <1>0, <3>1, TruncIsMultiple
    <3>3. /\ current <= t <=> current <= M(p)!Trunc(Numbers[p].Hour, t)
          /\ t < current + Numbers[p].Hour <=> M(p)!Trunc(Numbers[p].Hour, t) <= current
      BY <1>0, <1>1, <3>1, TruncIsLast
    <3>4. current - Numbers[p].Day <= t <=>
            current - Numbers[p].Day <= M(p)!Trunc(Numbers[p].Hour, t)
      <4>1. current - Numbers[p].Day \in Int
        BY <1>0, <1>1
      <4> HIDE DEF current
      <4> QED BY <1>0, <1>2, <3>1, <4>1, TruncIsLast
    <3>5. current <= t <=> current <= M(p)!Trunc(Numbers[p].Minute, t)
      BY <1>0, <1>1, <1>2, <3>1, TruncIsLast
    <3>6. t < minute + Numbers[p].Minute <=> M(p)!Trunc(Numbers[p].Minute, t) <= minute
      BY <1>0, <1>1, <3>1, TruncIsLast
    <3>7. t < current + Numbers[p].Hour <=>
            M(p)!Trunc(Numbers[p].Minute, t) < current + Numbers[p].Hour
      <4>1. current + Numbers[p].Hour \in Int
        BY <1>0, <1>1
      <4> HIDE DEF current
      <4> QED BY <1>0, <1>2, <3>1, <4>1, TruncIsLast
    <3>8. gh[r] \in DH <=>
            current - Numbers[p].Day <= M(p)!Trunc(Numbers[p].Hour, t)
            /\ M(p)!Trunc(Numbers[p].Hour, t) <= current
      BY <1>0, <1>1, <3>1, <3>2
    <3>9. gm[r] \in D <=>
            current <= M(p)!Trunc(Numbers[p].Minute, t)
            /\ M(p)!Trunc(Numbers[p].Minute, t) <= minute
      BY <1>0, <1>1, <3>1, <3>2
    <3>10. gh[r] = current <=> current <= t /\ t < current + Numbers[p].Hour
      BY <1>1, <3>1, <3>2, <3>3
    <3> HIDE DEF gh, gm, DH, D
    <3> QED BY <1>0, <1>1, <3>1, <3>2, <3>3, <3>4, <3>5, <3>6, <3>7, <3>8, <3>9, <3>10
  <2> DEFINE H  == {r \in R : gh[r] = current}
             H1 ==
               {r \in R : r.row.time >= minute + Numbers[p].Minute
                 /\ r.row.time < current + Numbers[p].Hour}
             H2 == {r \in R : gm[r] \in D}
             HD ==
               {r \in R : current - Numbers[p].Day <= r.row.time
                 /\ r.row.time < current + Numbers[p].Hour}
  <2>7. H = H1 \cup H2 /\ H1 \cap H2 = {}
    <3> HIDE DEF gh, gm, DH, D, R
    <3>1. ASSUME NEW r \in R PROVE /\ r \in H <=> (r \in H1 \/ r \in H2)
                                   /\ ~(r \in H1 /\ r \in H2)
      <4>1. r.row.time \in Int
        BY <2>1
      <4> QED BY <1>0, <1>1, <2>6, <4>1
    <3> QED BY <3>1
  <2>8. hours[current] = Cardinality(H)
    <3>1. current \in DH
      BY <1>0, <1>1
    <3> HIDE DEF hours, current, DH
    <3> QED BY <2>3, <3>1
  <2>9. Cardinality(H) = Cardinality(H1) + Cardinality(H2)
    <3>1. IsFiniteSet(H)
      BY <2>1, PartFinite
    <3> HIDE DEF H, H1, H2
    <3> QED BY <3>1, <2>7, DisjointCount
  <2>10. {r \in R : gh[r] \in DH} = HD
    <3> HIDE DEF gh, DH, R
    <3> QED BY <2>6
  <2>11. hours[current] = Cardinality(H1) + SumFunction(F)
    BY <2>5, <2>8, <2>9
  <2>12. SumFunction(hours) = Cardinality(HD)
    BY <2>4, <2>10
  <2> QED BY <2>11, <2>12, Zenon
<1> QED BY <1>3, MetricsCount, MetricsSum DEF M!ChartsAgree

-----------------------------------------------------------------------------
(* The order of rows.                                                      *)

(* The numbers of different elements are as many as these.                 *)
LEMMA NumsCount ==
  ASSUME NEW S, IsFiniteSet(S), \A d, e \in S : d.num = e.num => d = e
  PROVE  IsFiniteSet({e.num : e \in S}) /\ Cardinality({e.num : e \in S}) = Cardinality(S)
<1> DEFINE f == [e \in S |-> e.num]
<1>1. {e.num : e \in S} = {f[e] : e \in S}
  OBVIOUS
<1>2. DOMAIN f = S /\ \A d, e \in S : f[d] = f[e] => d = e
  OBVIOUS
<1>3. IsFiniteSet({f[e] : e \in S}) /\ Cardinality({f[e] : e \in S}) = Cardinality(S)
  <2> HIDE DEF f
  <2> QED BY <1>2, ImageFinite
<1> QED BY <1>1, <1>3

(* The activity of the latest three blocks.                                *)
LEMMA ActivityOfBlocks ==
  ASSUME NEW p, M(p)!MetricsParameters, MetricsTypes(p)
  PROVE  M(p)!LatestBlocks
<1> DEFINE nums == {b.row.num : b \in M(p)!Of(blocks)}
           J == {[num |-> k, of |-> Numbers[p].Asking.network] : k \in nums}
<1>1. SUFFICES ASSUME Numbers[p].Networks = {Numbers[p].Asking.network},
                      NEW latest \in M(p)!BlockActivity
               PROVE  /\ Len(latest) =
                           (IF Cardinality(nums) < 3 THEN Cardinality(nums) ELSE 3)
                      /\ \A i \in DOMAIN latest :
                           latest[i].num \in nums
                             /\ Cardinality({k \in nums : k > latest[i].num}) = i - 1
  BY MetricsCount DEF M!LatestBlocks
<1>2. M(p)!JoinedBlocks = J
  <2>1. ASSUME NEW c \in channels PROVE c.network = Numbers[p].Asking.network
    BY <1>1 DEF MetricsTypes, M!RowsOf
  <2>2. \E c \in channels : c.row.channel = Numbers[p].Asking.channel
    <3> DEFINE c ==
          [network |-> Numbers[p].Asking.network,
            row |-> M(p)!ChannelRow(Numbers[p].Asking.channel)]
    <3>1. c \in channels
      BY MetricsFinite DEF MetricsTypes, M!RowsOf, M!ChannelRows, M!MetricsParameters
    <3>2. c.row.channel = Numbers[p].Asking.channel
      BY DEF M!ChannelRow
    <3> QED BY <3>1, <3>2
  <2>3. ASSUME NEW e \in M(p)!JoinedBlocks PROVE e \in J
    <3>1. PICK b \in M(p)!Of(blocks),
                 c \in {x \in channels : x.row.channel = Numbers[p].Asking.channel} :
            e = [num |-> b.row.num, of |-> c.network]
      BY <2>3 DEF M!JoinedBlocks
    <3> QED BY <3>1, <2>1
  <2>4. ASSUME NEW e \in J PROVE e \in M(p)!JoinedBlocks
    <3>1. PICK b \in M(p)!Of(blocks) : e =
                 [num |-> b.row.num, of |-> Numbers[p].Asking.network]
      OBVIOUS
    <3>2. PICK c \in channels : c.row.channel = Numbers[p].Asking.channel
      BY <2>2
    <3>3. e = [num |-> b.row.num, of |-> c.network]
      BY <3>1, <2>1
    <3> QED BY <3>2, <3>3 DEF M!JoinedBlocks
  <2> QED BY <2>3, <2>4
<1>3. IsFiniteSet(J) /\ IsFiniteSet(nums) /\ \A k \in nums : k \in Int
  <2>1. IsFiniteSet(M(p)!Of(blocks)) /\ \A b \in M(p)!Of(blocks) : b.row.num \in Int
    <3>1. \A b \in M(p)!Of(blocks) : b.row \in Numbers[p].Blocks
      BY DEF M!Of, MetricsTypes, M!RowsOf
    <3> QED BY <3>1, TablesFinite, MetricsFinite DEF M!MetricsParameters
  <2>2. IsFiniteSet(nums)
    <3> DEFINE f == [b \in M(p)!Of(blocks) |-> b.row.num]
    <3>1. nums = {f[b] : b \in M(p)!Of(blocks)} /\ DOMAIN f = M(p)!Of(blocks)
      OBVIOUS
    <3> HIDE DEF f
    <3> QED BY <2>1, <3>1, ImageFinite
  <2>3. IsFiniteSet(J)
    <3> DEFINE f == [k \in nums |-> [num |-> k, of |-> Numbers[p].Asking.network]]
    <3>1. J = {f[k] : k \in nums} /\ DOMAIN f = nums
      OBVIOUS
    <3> HIDE DEF f, J, nums
    <3> QED BY <2>2, <3>1, ImageFinite
  <2> QED BY <2>1, <2>2, <2>3
<1>4. /\ \A e \in J : e.num \in nums /\ e.num \in Int
      /\ \A d, e \in J : d.num = e.num => d = e
      /\ \A k \in nums : \E e \in J : e.num = k
  <2> HIDE DEF nums
  <2>1. \A e \in J : e.num \in nums
    OBVIOUS
  <2>2. \A d, e \in J : d.num = e.num => d = e
    OBVIOUS
  <2>3. ASSUME NEW k \in nums PROVE \E e \in J : e.num = k
    <3>1. [num |-> k, of |-> Numbers[p].Asking.network] \in J
      OBVIOUS
    <3>2. [num |-> k, of |-> Numbers[p].Asking.network].num = k
      OBVIOUS
    <3> HIDE DEF J
    <3> QED BY <3>1, <3>2
  <2> QED BY <1>3, <2>1, <2>2, <2>3
<1>5. PICK s \in Orderings(J) : /\ latest = M(p)!FirstOf(s)
                               /\ \A i, j \in DOMAIN s : i < j => s[i].num >= s[j].num
  <2> HIDE DEF J
  <2> QED BY <1>1, <1>2, MetricsOrderings DEF M!BlockActivity
<1> HIDE DEF J, nums
<1>6. /\ Cardinality(J) \in Nat /\ s \in Seq(J) /\ Len(s) = Cardinality(J)
      /\ DOMAIN s = 1 .. Cardinality(J)
  BY <1>3, Enumerated
<1>7. nums = {e.num : e \in J}
  BY <1>4
<1>8. Cardinality(nums) = Cardinality(J)
  BY <1>3, <1>4, <1>7, NumsCount
<1> DEFINE m == IF Len(s) < 3 THEN Len(s) ELSE 3
<1>9. m \in 0 .. Len(s) /\ latest = SubSeq(s, 1, m)
  BY <1>5, <1>6 DEF M!FirstOf
<1>10. Len(latest) = m /\ \A i \in 1 .. m : latest[i] = s[i]
  <2> HIDE DEF m
  <2> QED BY <1>6, <1>9
<1>11. DOMAIN latest = 1 .. m
  BY <1>9, <1>10, <1>6
<1>12. ASSUME NEW i \in 1 .. m
       PROVE  /\ latest[i].num \in nums
              /\ Cardinality({k \in nums : k > latest[i].num}) = i - 1
  <2>1. i \in DOMAIN s /\ latest[i] = s[i] /\ s[i] \in J
    BY <1>6, <1>9, <1>10
  <2>2. Cardinality({e \in J : e.num > s[i].num}) = i - 1
    BY <1>3, <1>4, <1>5, <2>1, Ranked
  <2> DEFINE Later == {e \in J : e.num > s[i].num}
  <2>3. {k \in nums : k > s[i].num} = {e.num : e \in Later}
    BY <1>4, <1>7
  <2>4. IsFiniteSet(Later)
    BY <1>3, PartFinite
  <2>5. Cardinality({e.num : e \in Later}) = Cardinality(Later)
    <3>1. \A d, e \in Later : d.num = e.num => d = e
      BY <1>4
    <3> HIDE DEF Later
    <3> QED BY <2>4, <3>1, NumsCount
  <2> QED BY <1>4, <2>1, <2>2, <2>3, <2>5
<1> QED BY <1>6, <1>8, <1>10, <1>11, <1>12

-----------------------------------------------------------------------------
(* The lists: what a request and a view can be.                            *)

Pages == Nat \cup {NaN}
ListRequests(w) ==
  [id : Nat, channel : Lists[w].Channels, query : SUBSET Lists[w].Orgs,
    params : L(w)!PageParams,
   then : {"search", "none"}, next : BOOLEAN, stage : {"sent", "counted", "read"},
   pages : Pages, rows : Seq(L(w)!Row)]
ViewType(w) ==
  [page : Nat, size : Lists[w].Sizes, queryFlag : BOOLEAN, defaultQuery : BOOLEAN,
   orgs : SUBSET Lists[w].Orgs, search : BOOLEAN, polling : BOOLEAN, brs : BOOLEAN,
     mounted : BOOLEAN]
HeaderType(w) ==
  [selecting : SUBSET Lists[w].Channels, timers : SUBSET (Nat \X Lists[w].Channels),
    handle : Nat, waiting : SUBSET (Nat \X Lists[w].Channels), state : Lists[w].Channels]
ListType(w) ==
  [rows : Seq(L(w)!Row), query : SUBSET Lists[w].Orgs, of : Lists[w].Channels,
    pages : Pages, params : L(w)!PageParams]
RangeType(w) ==
  [id : Nat, channel : Lists[w].Channels, from : 0 .. Lists[w].Limit + 1,
    to : 0 .. Lists[w].Limit + 1]
Counters ==
  [sent : Nat, selections : Nat, steps : Nat, ticks : Nat, ranges : Nat, fails : Nat]

ListTypes(w) ==
  /\ Lists[w].Stored \subseteq db /\ db \subseteq Lists[w].Stored \cup Lists[w].Arriving
  /\ channel \in Lists[w].Channels /\ header \in HeaderType(w)
  /\ list \in ListType(w) /\ view \in ViewType(w)
  /\ range \in [loaded : BOOLEAN, rows : Seq(Nat), channel : Lists[w].Channels]
  /\ requests \subseteq ListRequests(w) /\ ranges \subseteq RangeType(w)
  /\ asked \in SUBSET Lists[w].Orgs /\ crossed \in BOOLEAN /\ counts \in Counters

(* The blocks of a range are those of its channel in order, each once.     *)
RangeRows(w) ==
  /\ Range(range.rows) \subseteq 0 .. Lists[w].Height[range.channel] - 1
  /\ \A i, j \in DOMAIN range.rows : range.rows[i] = range.rows[j] => i = j

(* The rows of an answer are entries of the database.                      *)
RowsStored(w) ==
  /\ Range(list.rows) \subseteq L(w)!Entries(db, list.of, list.query)
  /\ \A r \in requests : Range(r.rows) \subseteq L(w)!Entries(db, r.channel, r.query)

(* The component asks with a query once, and is idle when it is not there. *)
ViewAsks(w) ==
  /\ ~view.queryFlag
  /\ view.mounted => ~view.defaultQuery
  /\ ~view.mounted => view = L(w)!Idle /\ asked = {} /\ \A r \in requests : r.then = "none"
  /\ Lists[w].View = "transactions" => ~view.brs

(* What is asked for, the list's query, page, size and channel.            *)
Wanted == [page |-> view.page + 1, size |-> view.size]

(* No interval of the header asks for a channel that was left.             *)
OwnTimers == \A t \in header.timers : t[2] = channel

(* When nothing was asked meanwhile the list is, or will be, what is wanted. *)
AsksWhatIsWanted ==
  ~crossed /\ counts.fails = 0 /\ view.mounted /\ ~view.brs =>
    /\ requests = {} => list.query = asked /\ list.params = Wanted
    /\ requests = {} /\ header.selecting = {} /\ OwnTimers => list.of = channel
    /\ \A r \in requests :
         /\ r.query = asked /\ r.params = Wanted
         /\ header.selecting = {} /\ OwnTimers => r.channel = channel

(* The header's state follows the store with the answers; nothing of it is *)
(* of another channel before the first selection.                          *)
HeaderFollows == requests = {} /\ counts.fails = 0 => header.state = channel
HeaderAtFirst(w) ==
  counts.selections = 0 =>
    /\ header.selecting = {} /\ header.waiting = {} /\ header.state = Lists[w].First
    /\ \A t \in header.timers : t[2] = Lists[w].First
    /\ channel = Lists[w].First

(* The number of pages is that of the entries, if there are any.           *)
CountFits(w, q, p, pages) ==
  pages = L(w)!Ceil(Cardinality(L(w)!Entries(Lists[w].Stored, Lists[w].First, q)), p.size)
PagesCounted(w) ==
  Lists[w].View = "transactions" /\ ~crossed /\ counts.fails = 0 /\ counts.selections = 0 =>
    /\ channel = Lists[w].First /\ list.of = Lists[w].First
    /\ db = Lists[w].Stored
       /\ L(w)!Entries(Lists[w].Stored, Lists[w].First, list.query) # {} =>
         CountFits(w, list.query, list.params, list.pages)
    /\ \A r \in requests :
         /\ requests = {r} /\ r.channel = Lists[w].First
         /\ r.params.page = 1 /\ r.stage # "sent"
            /\ db = Lists[w].Stored => CountFits(w, r.query, r.params, r.pages)
         /\ r.params.page # 1 => /\ r.pages = NaN /\ r.query = list.query
                                 /\ r.params.size = list.params.size

(* How far down the list an entry is.                                      *)
Rank(w, d, e, c, q) == Cardinality({f \in L(w)!Entries(d, c, q) : f.num >= e.num})

(* Going forward, what was not seen is further down.                       *)
SweepSoFar(w) ==
  sweep # {} => \A e \in L(w)!Entries(Lists[w].Stored, list.of, list.query) :
    /\ e \in sweep
       \/ Rank(w, db, e, list.of, list.query) > list.params.page * list.params.size
    /\ (\E s \in sweep : e.num > s.num) => e \in sweep

(* A request for the next page is of what the list shows; what it read goes *)
(* on from there.                                                          *)
Forward(w, r) ==
  /\ r.next => /\ list.of = r.channel /\ list.query = r.query
               /\ list.params.size = r.params.size
               /\ list.params.page = r.params.page - 1
  /\ r.stage = "read" /\ (r.params.page = 1 \/ (r.next /\ sweep # {})) =>
       \A e \in L(w)!Entries(Lists[w].Stored, r.channel, r.query) :
         \/ e \in Range(r.rows)
         \/ r.params.page # 1 /\ e \in sweep
         \/ /\ Rank(w, db, e, r.channel, r.query) > r.params.page * r.params.size
            /\ \A s \in Range(r.rows) : e.num <= s.num

SweepInv(w) == SweepSoFar(w) /\ \A r \in requests : Forward(w, r)

ListInv(w) ==
  /\ ListTypes(w) /\ RangeRows(w) /\ RowsStored(w) /\ ViewAsks(w) /\ AsksWhatIsWanted
  /\ HeaderFollows /\ HeaderAtFirst(w) /\ PagesCounted(w)
  /\ Lists[w].View = "blocks" => SweepInv(w)

-----------------------------------------------------------------------------
(* Finite sets.                                                            *)

(* The smaller of two numbers, and the larger.                             *)
LEMMA TwoNumbers ==
  ASSUME NEW a \in Int, NEW b \in Int
  PROVE  /\ Min({a, b}) = IF a <= b THEN a ELSE b
         /\ Max({a, b}) = IF a >= b THEN a ELSE b
BY DEF Min, Max

-----------------------------------------------------------------------------
(* The operators.                                                          *)

(* The organization that a block of the list is shown with.                *)
AnyOrg(w) == CHOOSE o \in Lists[w].Orgs : TRUE

(* What an entry says.                                                     *)
LEMMA RowEntry ==
  ASSUME NEW w, NEW t \in L(w)!Row
  PROVE  /\ L(w)!Entry(t) \in L(w)!Row /\ L(w)!Entry(t).num = t.num
            /\ L(w)!Entry(t).channel = t.channel
         /\ Lists[w].View = "blocks" =>
              L(w)!Entry(t).tx = 0 /\ L(w)!Entry(t).org = AnyOrg(w)
         /\ Lists[w].View # "blocks" => L(w)!Entry(t) = t
<1>1. t.org \in Lists[w].Orgs /\ t.channel \in Lists[w].Channels /\ t.num \in Nat
      /\ t.tx \in Nat
      /\ t = [channel |-> t.channel, num |-> t.num, tx |-> t.tx, org |-> t.org]
  BY DEF L!Row
<1>2. (CHOOSE o \in Lists[w].Orgs : TRUE) \in Lists[w].Orgs
  BY <1>1
<1> QED BY <1>1, <1>2 DEF L!Row, L!Entry, AnyOrg

(* The entries are finitely many, of the channel; blocks of different      *)
(* numbers.                                                                *)
LEMMA EntriesFinite ==
  ASSUME NEW w, NEW d, IsFiniteSet(d), d \subseteq L(w)!Row, NEW c, NEW q
  PROVE  /\ IsFiniteSet(L(w)!Entries(d, c, q)) /\ Cardinality(L(w)!Entries(d, c, q)) \in Nat
         /\ L(w)!Entries(d, c, q) \subseteq L(w)!Row
         /\ \A e \in L(w)!Entries(d, c, q) : e.channel = c /\ e.num \in Int
         /\ Lists[w].View = "blocks" =>
              \A e, f \in L(w)!Entries(d, c, q) : e.num = f.num => e = f
<1> DEFINE S == {u \in d : u.channel = c /\ L(w)!OfOrgs(u, q)}
           f == [t \in S |-> L(w)!Entry(t)]
           T == {f[t] : t \in S}
<1>1. IsFiniteSet(S)
  BY PartFinite
<1>2. IsFiniteSet(T)
  <2> HIDE DEF S
  <2>1. DOMAIN f = S
    OBVIOUS
  <2> HIDE DEF f
  <2> QED BY <1>1, <2>1, ImageFinite
<1>3. T = L(w)!Entries(d, c, q)
  BY DEF L!Entries
<1>4. \A t \in S : t \in L(w)!Row /\ t.channel = c
  OBVIOUS
<1>5. \A e \in L(w)!Entries(d, c, q) : \E t \in S : e = L(w)!Entry(t)
  BY DEF L!Entries
<1>6. \A e \in L(w)!Entries(d, c, q) : e \in L(w)!Row /\ e.channel = c
  BY <1>4, <1>5, RowEntry
<1>7. ASSUME Lists[w].View = "blocks", NEW e \in L(w)!Entries(d, c, q),
             NEW g \in L(w)!Entries(d, c, q),
             e.num = g.num
      PROVE  e = g
  <2>1. e \in L(w)!Row /\ g \in L(w)!Row /\ e.channel = g.channel
    BY <1>6
  <2>2. e.tx = g.tx /\ e.org = g.org
    <3>1. PICK t \in S, u \in S : e = L(w)!Entry(t) /\ g = L(w)!Entry(u)
      BY <1>5
    <3>2. t \in L(w)!Row /\ u \in L(w)!Row
      BY <1>4
    <3>3. L(w)!Entry(t).tx = 0 /\ L(w)!Entry(u).tx = 0
      BY <1>7, <3>2, RowEntry
    <3>4. L(w)!Entry(t).org = L(w)!Entry(u).org
      BY <1>7, <3>2, RowEntry
    <3> QED BY <3>1, <3>3, <3>4
  <2> QED BY <2>1, <2>2, <1>7 DEF L!Row
<1>8. \A e \in L(w)!Row : e.num \in Int
  BY DEF L!Row
<1> QED BY <1>2, <1>3, <1>6, <1>7, <1>8, FS_CardinalityType

(* A larger database has more entries.                                     *)
LEMMA EntriesGrow ==
  ASSUME NEW w, NEW d, NEW e, d \subseteq e, NEW c, NEW q
  PROVE  L(w)!Entries(d, c, q) \subseteq L(w)!Entries(e, c, q)
BY DEF L!Entries

(* A part of a sequence, cut at its end.                                   *)
Part(s, lo, hi) == SubSeq(s, lo + 1, Min({hi, Len(s)}))

(* What a part holds, and where in the sequence it comes from.              *)
LEMMA PartOf ==
  ASSUME NEW S, NEW s \in Seq(S), NEW lo \in Nat, NEW hi \in Nat, lo < hi
  PROVE  /\ Part(s, lo, hi) \in Seq(S) /\ Range(Part(s, lo, hi)) \subseteq S
         /\ \A i \in 1 .. Len(s) : lo < i /\ i <= hi => s[i] \in Range(Part(s, lo, hi))
         /\ \A e \in Range(Part(s, lo, hi)) :
              \E i \in 1 .. Len(s) : s[i] = e /\ lo < i /\ i <= hi
<1> DEFINE N == Len(s)
           m == Min({hi, Len(s)})
           P == Part(s, lo, hi)
<1>1. N \in Nat /\ DOMAIN s = 1 .. N /\ \A i \in 1 .. N : s[i] \in S
  OBVIOUS
<1>3. m \in Int /\ m = IF hi <= N THEN hi ELSE N
  <2> HIDE DEF N
  <2> QED BY <1>1, TwoNumbers DEF N
<1>4. P = SubSeq(s, lo + 1, m)
  BY DEF Part
<1> HIDE DEF m, P, N
<1>5. /\ P \in Seq(S) /\ Len(P) = (IF lo + 1 <= m THEN m - lo ELSE 0)
      /\ DOMAIN P = 1 .. Len(P) /\ \A i \in 1 .. Len(P) : P[i] = s[lo + i]
  <2>1. CASE lo + 1 <= m
    <3>1. lo + 1 \in Int /\ m \in Int /\ m - (lo + 1) + 1 = m - lo
      BY <1>3
    <3>2. \A i \in lo + 1 .. m : s[i] \in S
      BY <1>1, <1>3
    <3>3. /\ P \in Seq(S) /\ Len(P) = m - (lo + 1) + 1
          /\ \A i \in 1 .. m - (lo + 1) + 1 : P[i] = s[lo + 1 + i - 1]
      BY <1>4, <2>1, <3>1, <3>2, SubSeqProperties
    <3>4. \A i \in Int : lo + 1 + i - 1 = lo + i
      BY <3>1
    <3>5. P \in Seq(S) /\ Len(P) = m - lo
      BY <3>1, <3>3
    <3>6. \A i \in 1 .. Len(P) : P[i] = s[lo + i]
      <4> TAKE i \in 1 .. Len(P)
      <4>1. i \in Int /\ i \in 1 .. m - (lo + 1) + 1
        BY <3>3
      <4> QED BY <3>3, <3>4, <4>1
    <3> QED BY <2>1, <3>5, <3>6
  <2>2. CASE ~(lo + 1 <= m)
    <3>1. lo + 1 \in Int /\ m < lo + 1
      BY <1>1, <1>3, <2>2
    <3>2. SubSeq(s, lo + 1, m) = <<>>
      BY <1>3, <3>1, SubSeqEmpty, Zenon
    <3>3. P = <<>>
      BY <1>4, <3>2
    <3> QED BY <3>3, <2>2
  <2> QED BY <2>1, <2>2
<1>6. ASSUME NEW i \in 1 .. N, lo < i, i <= hi PROVE s[i] \in Range(P)
  <2>1. i - lo \in 1 .. Len(P) /\ lo + (i - lo) = i
    BY <1>1, <1>3, <1>5, <1>6
  <2>2. P[i - lo] = s[i]
    BY <1>5, <2>1
  <2> QED BY <1>5, <2>1, <2>2 DEF Range
<1>7. ASSUME NEW e \in Range(P) PROVE \E i \in 1 .. N : s[i] = e /\ lo < i /\ i <= hi
  <2>1. PICK k \in 1 .. Len(P) : P[k] = e
    BY <1>5 DEF Range
  <2>2. lo + k \in 1 .. N /\ lo < lo + k /\ lo + k <= hi
    BY <1>1, <1>3, <1>5
  <2> QED BY <1>5, <2>1, <2>2
<1>8. Range(P) \subseteq S
  BY <1>5 DEF Range
<1> QED BY <1>5, <1>6, <1>7, <1>8 DEF P, N

(* The page of a list is the part of it at the page's place.               *)
LEMMA PageOf ==
  ASSUME NEW w, NEW S, IsFiniteSet(S), NEW s \in L(w)!Orders(S), NEW p,
         p.page \in Nat \ {0},
         p.size \in Nat \ {0}
  PROVE  /\ L(w)!Page(s, p) \in Seq(S) /\ Range(L(w)!Page(s, p)) \subseteq S
         /\ \A i \in DOMAIN s : (p.page - 1) * p.size < i /\ i <= p.page * p.size =>
              s[i] \in Range(L(w)!Page(s, p))
         /\ \A e \in Range(L(w)!Page(s, p)) : \E i \in DOMAIN s :
              s[i] = e /\ (p.page - 1) * p.size < i /\ i <= p.page * p.size
<1> DEFINE lo == (p.page - 1) * p.size
           hi == p.page * p.size
<1>1. s \in Seq(S) /\ DOMAIN s = 1 .. Len(s)
  BY Enumerated, ListOrderings DEF L!Orders
<1>2. lo \in Nat /\ hi \in Nat /\ lo < hi
  OBVIOUS
<1>3. L(w)!Page(s, p) = Part(s, lo, hi)
  BY ListMin DEF L!Page, Part
<1>4. /\ L(w)!Page(s, p) \in Seq(S) /\ Range(L(w)!Page(s, p)) \subseteq S
      /\ \A i \in 1 .. Len(s) : lo < i /\ i <= hi => s[i] \in Range(L(w)!Page(s, p))
      /\ \A e \in Range(L(w)!Page(s, p)) : \E i \in 1 .. Len(s) : s[i] = e /\ lo < i
           /\ i <= hi
  <2> HIDE DEF lo, hi
  <2>1. /\ Part(s, lo, hi) \in Seq(S) /\ Range(Part(s, lo, hi)) \subseteq S
        /\ \A i \in 1 .. Len(s) : lo < i /\ i <= hi => s[i] \in Range(Part(s, lo, hi))
        /\ \A e \in Range(Part(s, lo, hi)) :
             \E i \in 1 .. Len(s) : s[i] = e /\ lo < i /\ i <= hi
    BY <1>1, <1>2, PartOf
  <2> QED BY <1>3, <2>1
<1> QED BY <1>1, <1>4

-----------------------------------------------------------------------------
(* The types.                                                              *)

(* A counter that counts.                                                  *)
LEMMA Counting ==
  ASSUME NEW w, counts \in Counters,
         NEW k \in {"selections", "steps", "ticks", "ranges", "fails"}
  PROVE  /\ L(w)!Count(k) \in Counters /\ [L(w)!Count(k) EXCEPT !.sent = @ + 1] \in Counters
         /\ [counts EXCEPT !.sent = @ + 1] \in Counters
         /\ [counts EXCEPT !.sent = @ + 2] \in Counters
         /\ [L(w)!Count(k) EXCEPT !.sent = @ + 1].fails = L(w)!Count(k).fails
         /\ [L(w)!Count(k) EXCEPT !.sent = @ + 1].selections = L(w)!Count(k).selections
         /\ L(w)!Count(k).fails = (IF k = "fails" THEN counts.fails + 1 ELSE counts.fails)
         /\ L(w)!Count(k).selections =
              (IF k = "selections" THEN counts.selections + 1 ELSE counts.selections)
<1>1. /\ L(w)!Count(k) \in Counters /\ L(w)!Count(k).sent = counts.sent
      /\ L(w)!Count(k).fails = (IF k = "fails" THEN counts.fails + 1 ELSE counts.fails)
      /\ L(w)!Count(k).selections =
           (IF k = "selections" THEN counts.selections + 1 ELSE counts.selections)
  <2>1. CASE k = "selections"
    BY <2>1 DEF Counters, L!Count
  <2>2. CASE k = "steps"
    BY <2>2 DEF Counters, L!Count
  <2>3. CASE k = "ticks"
    BY <2>3 DEF Counters, L!Count
  <2>4. CASE k = "ranges"
    BY <2>4 DEF Counters, L!Count
  <2>5. CASE k = "fails"
    BY <2>5 DEF Counters, L!Count
  <2> QED BY <2>1, <2>2, <2>3, <2>4, <2>5
<1> DEFINE m == L(w)!Count(k)
<1>2. /\ [m EXCEPT !.sent = @ + 1] \in Counters
      /\ [m EXCEPT !.sent = @ + 1].fails = m.fails
      /\ [m EXCEPT !.sent = @ + 1].selections = m.selections
  <2> HIDE DEF m
  <2>1. m \in Counters
    BY <1>1 DEF m
  <2> QED BY <2>1 DEF Counters
<1>3. [counts EXCEPT !.sent = @ + 1] \in Counters
      /\ [counts EXCEPT !.sent = @ + 2] \in Counters
  BY DEF Counters
<1> QED BY <1>1, <1>2, <1>3

(* A request that is sent.                                                 *)
LEMMA SearchSent ==
  ASSUME NEW w, L(w)!ListParameters, ListTypes(w), NEW v \in ViewType(w),
         NEW c \in Lists[w].Channels,
         NEW then \in {"search", "none"}, NEW next \in BOOLEAN
  PROVE  /\ L(w)!SearchList(v, c, then, next) \in ListRequests(w)
         /\ [L(w)!SearchList(v, c, then, next) EXCEPT !.id = counts.sent + 2] \in
              ListRequests(w)
<1>1. L(w)!Query(v) \in SUBSET Lists[w].Orgs
  BY DEF L!Query, ViewType, ListTypes, ListType
<1>2. [page |-> v.page + 1, size |-> v.size] \in L(w)!PageParams
  BY DEF ViewType, L!PageParams
<1>3. counts.sent + 1 \in Nat /\ counts.sent + 2 \in Nat /\ <<>> \in Seq(L(w)!Row)
      /\ NaN \in Pages
  BY DEF ListTypes, Counters, Pages
<1> QED BY <1>1, <1>2, <1>3 DEF L!SearchList, L!Request, ListRequests

(* What the header asks for is a request of a list.                         *)
LEMMA HeaderSent ==
  ASSUME NEW w, L(w)!ListParameters, ListTypes(w), NEW c \in Lists[w].Channels
  PROVE  L(w)!HeaderRequest(counts.sent + 1, c) \in ListRequests(w)
<1>1. list.query \in SUBSET Lists[w].Orgs /\ list.params \in L(w)!PageParams
  BY DEF ListTypes, ListType
<1>2. counts.sent + 1 \in Nat /\ <<>> \in Seq(L(w)!Row) /\ NaN \in Pages
  BY DEF ListTypes, Counters, Pages
<1> QED BY <1>1, <1>2 DEF L!HeaderRequest, L!Request, ListRequests

(* What has been counted is not zero.                                      *)
LEMMA CountedUp ==
  ASSUME NEW w, counts \in Counters
  PROVE  /\ L(w)!Count("fails").fails # 0
         /\ [L(w)!Count("selections") EXCEPT !.sent = @ + 1].selections # 0
<1>1. counts.fails \in Nat /\ counts.selections \in Nat
  BY DEF Counters
<1>2. L(w)!Count("fails").fails = counts.fails + 1
  BY Counting
<1>3. /\ [L(w)!Count("selections") EXCEPT !.sent = @ + 1].selections =
           L(w)!Count("selections").selections
      /\ L(w)!Count("selections").selections = counts.selections + 1
  BY Counting
<1> QED BY <1>1, <1>2, <1>3

(* The view after it asked.                                                *)
LEMMA AskedView ==
  ASSUME NEW w, NEW v \in ViewType(w)
  PROVE  /\ L(w)!Asked(v) \in ViewType(w) /\ ~L(w)!Asked(v).queryFlag
         /\ L(w)!Asked(v).defaultQuery <=> v.queryFlag /\ v.defaultQuery
         /\ L(w)!Asked(v).page = v.page /\ L(w)!Asked(v).size = v.size
         /\ L(w)!Asked(v).brs = v.brs
         /\ L(w)!Asked(v).mounted = v.mounted
BY DEF L!Asked, ViewType

(* And when it was shown or polls from then on.                            *)
LEMMA AskedOn ==
  ASSUME NEW w, NEW v \in ViewType(w)
  PROVE  /\ [L(w)!Asked(v) EXCEPT !.mounted = TRUE] \in ViewType(w)
         /\ [L(w)!Asked(v) EXCEPT !.polling = TRUE] \in ViewType(w)
<1> DEFINE a == L(w)!Asked(v)
<1>1. a \in ViewType(w)
  BY AskedView
<1> HIDE DEF a
<1>2. [a EXCEPT !.mounted = TRUE] \in ViewType(w)
      /\ [a EXCEPT !.polling = TRUE] \in ViewType(w)
  BY <1>1 DEF ViewType
<1> QED BY <1>2 DEF a

(* handleSearch keeps the types.                                           *)
LEMMA HandleSearchTypes ==
  ASSUME NEW w, L(w)!ListParameters, ListTypes(w), NEW v \in ViewType(w),
         NEW k \in {"steps", "ticks"},
         NEW next \in BOOLEAN, L(w)!HandleSearch(v, k, next)
  PROVE  /\ view' \in ViewType(w) /\ requests' \subseteq ListRequests(w)
            /\ counts' \in Counters
         /\ crossed' \in BOOLEAN /\ counts'.fails = counts.fails
         /\ counts'.selections = counts.selections
         /\ view'.page = v.page /\ view'.size = v.size /\ view'.brs = v.brs
         /\ view'.mounted = v.mounted /\ ~view'.queryFlag
         /\ view'.defaultQuery <=> v.queryFlag /\ v.defaultQuery
         /\ crossed' <=> crossed \/ requests # {}
<1>1. counts \in Counters /\ channel \in Lists[w].Channels
      /\ requests \subseteq ListRequests(w)
      /\ crossed \in BOOLEAN
  BY DEF ListTypes
<1>2. L(w)!SearchList(v, channel, "search", next) \in ListRequests(w)
  BY <1>1, SearchSent
<1>3. L(w)!Asked(v) \in ViewType(w) /\ view' = [L(w)!Asked(v) EXCEPT !.polling = TRUE]
  BY AskedView DEF L!HandleSearch
<1>4. /\ view' \in ViewType(w) /\ view'.page = v.page /\ view'.size = v.size
      /\ view'.brs = v.brs /\ view'.mounted = v.mounted /\ ~view'.queryFlag
      /\ view'.defaultQuery <=> v.queryFlag /\ v.defaultQuery
  <2> DEFINE a == L(w)!Asked(v)
  <2>1. /\ a \in ViewType(w) /\ ~a.queryFlag
           /\ (a.defaultQuery <=> v.queryFlag /\ v.defaultQuery)
        /\ a.page = v.page /\ a.size = v.size /\ a.brs = v.brs /\ a.mounted = v.mounted
    BY AskedView
  <2>2. view' = [a EXCEPT !.polling = TRUE]
    BY <1>3
  <2> HIDE DEF a
  <2> QED BY <2>1, <2>2 DEF ViewType
<1>5. counts' \in Counters /\ counts'.fails = counts.fails
      /\ counts'.selections = counts.selections
  BY <1>1, Counting DEF L!HandleSearch
<1> QED BY <1>1, <1>2, <1>4, <1>5 DEF L!HandleSearch

(* The database is finite.                                                 *)
LEMMA StoredFinite ==
  ASSUME NEW w, L(w)!ListParameters, NEW d,
         d \subseteq Lists[w].Stored \cup Lists[w].Arriving
  PROVE  IsFiniteSet(d) /\ d \subseteq L(w)!Row
<1>1. IsFiniteSet(Lists[w].Stored \cup Lists[w].Arriving)
  BY FS_Union, ListFinite DEF L!ListParameters
<1> QED BY <1>1, FS_Subset, ListFinite DEF L!ListParameters

(* The number of pages is a number.                                        *)
LEMMA CeilNat ==
  ASSUME NEW w, NEW a \in Nat, NEW b \in Nat \ {0}
  PROVE  L(w)!Ceil(a, b) \in Nat
<1> DEFINE k == a + b - 1
<1>1. k \in Nat /\ b \in Nat /\ b > 0
  OBVIOUS
<1>2. k \div b \in Nat
  <2> HIDE DEF k
  <2> QED BY <1>1
<1> QED BY <1>2 DEF L!Ceil

(* The number of rows, and of pages, is a number.                           *)
LEMMA RowsCounted ==
  ASSUME NEW w, L(w)!ListParameters, NEW d,
         d \subseteq Lists[w].Stored \cup Lists[w].Arriving, NEW c, NEW q,
         NEW size \in Lists[w].Sizes
  PROVE  L(w)!RowCount(d, c, q) \in Nat /\ L(w)!Ceil(L(w)!RowCount(d, c, q), size) \in Nat
<1>1. IsFiniteSet(d) /\ d \subseteq L(w)!Row
  BY StoredFinite
<1>2. L(w)!TxCount(d, c, q) \in Nat
  BY <1>1, EntriesFinite, ListCount DEF L!TxCount
<1>3. L(w)!BlockCount(d, c, q) \in Nat
  <2> DEFINE U == {u \in d : u.channel = c}
             V == {u \in d : L(w)!OfOrgs(u, q)}
             f == [u \in U |-> u.num]
             A == {f[u] : u \in U}
             B == {t.num : t \in V}
  <2>1. IsFiniteSet(U)
    BY <1>1, PartFinite
  <2>2. IsFiniteSet(A)
    <3> HIDE DEF U
    <3>1. DOMAIN f = U
      OBVIOUS
    <3> HIDE DEF f
    <3> QED BY <2>1, <3>1, ImageFinite
  <2>3. IsFiniteSet(A \cap B) /\ Cardinality(A \cap B) \in Nat
    <3> HIDE DEF A, B
    <3> QED BY <2>2, PartFinite
  <2>4. L(w)!BlockCount(d, c, q) = Cardinality(A \cap B)
    BY ListCount DEF L!BlockCount
  <2> QED BY <2>3, <2>4
<1>4. L(w)!RowCount(d, c, q) \in Nat
  BY <1>2, <1>3 DEF L!RowCount
<1>5. size \in Nat \ {0}
  BY ListFinite DEF L!ListParameters
<1> QED BY <1>4, <1>5, CeilNat

(* The rows a request reads: they are of the database, a page of them.     *)
LEMMA RowsRead ==
  ASSUME NEW w, L(w)!ListParameters, NEW d,
         d \subseteq Lists[w].Stored \cup Lists[w].Arriving, NEW c, NEW q,
         NEW p \in L(w)!PageParams, NEW s \in L(w)!Orders(L(w)!Entries(d, c, q))
  PROVE  L(w)!Page(s, p) \in Seq(L(w)!Row)
         /\ Range(L(w)!Page(s, p)) \subseteq L(w)!Entries(d, c, q)
<1>1. IsFiniteSet(L(w)!Entries(d, c, q)) /\ L(w)!Entries(d, c, q) \subseteq L(w)!Row
  BY StoredFinite, EntriesFinite
<1>2. p.page \in Nat \ {0} /\ p.size \in Nat \ {0}
  BY ListFinite DEF L!ListParameters, L!PageParams
<1>3. L(w)!Page(s, p) \in Seq(L(w)!Entries(d, c, q))
      /\ Range(L(w)!Page(s, p)) \subseteq L(w)!Entries(d, c, q)
  BY <1>1, <1>2, PageOf
<1> QED BY <1>1, <1>3

(* The blocks of a range.                                                  *)
LEMMA Fetched ==
  ASSUME NEW w, L(w)!ListParameters, NEW c \in Lists[w].Channels, NEW a \in Nat,
         NEW b \in Nat
  PROVE  /\ L(w)!FetchRange(c, a, b) \in Seq(Nat)
         /\ Range(L(w)!FetchRange(c, a, b)) \subseteq 0 .. Lists[w].Height[c] - 1
         /\ \A i, j \in DOMAIN L(w)!FetchRange(c, a, b) :
              L(w)!FetchRange(c, a, b)[i] = L(w)!FetchRange(c, a, b)[j] => i = j
<1> DEFINE h == Lists[w].Height[c]
           m == Min({b, h - 1})
           k == Max({0, m - a + 1})
           f == [i \in 1 .. k |-> a + i - 1]
<1>1. h \in Nat
  BY ListFinite DEF L!ListParameters
<1>2. m \in Int /\ m <= h - 1
  <2> HIDE DEF h
  <2> QED BY <1>1, TwoNumbers
<1>3. k \in Nat /\ (k = 0 \/ k = m - a + 1)
  <2> HIDE DEF m
  <2>1. m - a + 1 \in Int /\ 0 \in Int
    BY <1>2
  <2>2. k = IF 0 >= m - a + 1 THEN 0 ELSE m - a + 1
    <3> DEFINE x == m - a + 1
    <3> HIDE DEF x
    <3> QED BY <2>1, TwoNumbers DEF x
  <2> QED BY <2>1, <2>2
<1>4. L(w)!FetchRange(c, a, b) = f
  BY ListMax, ListMin DEF L!FetchRange
<1> HIDE DEF k, m, h
<1>5. f \in Seq(Nat) /\ DOMAIN f = 1 .. k
  <2>1. \A i \in 1 .. k : a + i - 1 \in Nat
    BY <1>3
  <2> QED BY <1>3, <2>1
<1>6. \A i \in 1 .. k : f[i] \in 0 .. h - 1
  BY <1>1, <1>2, <1>3
<1>7. \A i, j \in 1 .. k : f[i] = f[j] => i = j
  BY <1>3
<1>8. Range(f) \subseteq 0 .. h - 1
  BY <1>5, <1>6 DEF Range
<1> QED BY <1>4, <1>5, <1>7, <1>8 DEF h

-----------------------------------------------------------------------------
(* The types are kept.                                                     *)

(* The header asks for a channel of an interval, its own or the store's.    *)
LEMMA HeaderAsks ==
  ASSUME NEW w, header \in HeaderType(w), channel \in Lists[w].Channels, L(w)!HeaderSync
  PROVE  \E c \in Lists[w].Channels :
           /\ requests' = requests \cup {L(w)!HeaderRequest(counts.sent + 1, c)}
           /\ c \in {header.state, channel} \/ \E t \in header.timers : c = t[2]
<1>1. PICK c \in {t[2] : t \in header.timers} \cup {header.state, channel} :
        requests' = requests \cup {L(w)!HeaderRequest(counts.sent + 1, c)}
  BY DEF L!HeaderSync
<1>2. \A t \in header.timers : t[2] \in Lists[w].Channels
  BY DEF HeaderType
<1> QED BY <1>1, <1>2 DEF HeaderType

(* The header keeps its types.                                             *)
LEMMA HeaderTypes ==
  ASSUME NEW w, header \in HeaderType(w), channel \in Lists[w].Channels,
         counts \in Counters
  PROVE  /\ \A c \in Lists[w].Channels :
              L(w)!SelectChannel(c) \/ L(w)!ChannelChanged(c) => header' \in HeaderType(w)
         /\ \A x \in header.waiting : L(w)!SetInterval(x) => header' \in HeaderType(w)
         /\ \A r : L(w)!Deliver(r) => header' \in HeaderType(w)
<1>1. \A c \in Lists[w].Channels : <<counts.sent + 1, c>> \in Nat \X Lists[w].Channels
  BY DEF Counters
<1>2. ASSUME NEW c \in Lists[w].Channels, L(w)!SelectChannel(c)
      PROVE  header' \in HeaderType(w)
  <2> DEFINE sel == header.selecting \cup {c}
             tim == {t \in header.timers : t[1] # header.handle}
             wai == header.waiting \cup {<<counts.sent + 1, c>>}
  <2>1. /\ sel \subseteq Lists[w].Channels /\ tim \subseteq Nat \X Lists[w].Channels
        /\ wai \subseteq Nat \X Lists[w].Channels
    BY <1>1 DEF HeaderType
  <2>2. header' = [header EXCEPT !.selecting = sel, !.timers = tim, !.waiting = wai]
    BY <1>2 DEF L!SelectChannel, HeaderType
  <2> HIDE DEF sel, tim, wai
  <2> QED BY <2>1, <2>2 DEF HeaderType
<1>3. \A c \in Lists[w].Channels : L(w)!ChannelChanged(c) => header' \in HeaderType(w)
  BY DEF L!ChannelChanged, HeaderType
<1>4. ASSUME NEW x \in header.waiting, L(w)!SetInterval(x) PROVE header' \in HeaderType(w)
  <2>1. x \in Nat \X Lists[w].Channels /\ x[1] \in Nat
    BY DEF HeaderType
  <2> QED BY <1>4, <2>1 DEF L!SetInterval, HeaderType
<1>5. \A r : L(w)!Deliver(r) => header' \in HeaderType(w)
  BY DEF L!Deliver, HeaderType
<1> QED BY <1>2, <1>3, <1>4, <1>5

(* What the list, the header and the channel send.                         *)
LEMMA SendsTypes ==
  ASSUME NEW w, L(w)!ListParameters, ListTypes(w),
         L(w)!BlocksMount \/ L(w)!TransactionsMount \/ L(w)!Unmount
         \/ (\E q \in SUBSET Lists[w].Orgs : L(w)!SearchClick(q))
           \/ L(w)!ClearSearch
              \/ (\E p \in {view.page - 1, view.page + 1} : L(w)!TurnPage(p))
           \/ (\E s \in Lists[w].Sizes : L(w)!HandleRowsChange(s)) \/ L(w)!Poll
                \/ L(w)!HeaderSync
           \/ (\E c \in Lists[w].Channels : L(w)!SelectChannel(c) \/ L(w)!ChannelChanged(c))
           \/ (\E x \in header.waiting : L(w)!SetInterval(x))
  PROVE  ListTypes(w)'
<1>1. /\ counts \in Counters /\ channel \in Lists[w].Channels
      /\ requests \subseteq ListRequests(w)
      /\ crossed \in BOOLEAN /\ view \in ViewType(w) /\ asked \in SUBSET Lists[w].Orgs
      /\ header \in HeaderType(w)
  BY DEF ListTypes
<1>2. CASE L(w)!BlocksMount
  <2>1. view' \in ViewType(w)
    BY <1>1, <1>2, AskedOn DEF L!BlocksMount
  <2>2. L(w)!SearchList(view, channel, "none", FALSE) \in ListRequests(w)
    BY <1>1, SearchSent
  <2>3. counts' \in Counters
    BY <1>1, <1>2, Counting DEF L!BlocksMount
  <2> QED BY <1>1, <1>2, <2>1, <2>2, <2>3 DEF L!BlocksMount, ListTypes
<1>3. CASE L(w)!TransactionsMount
  <2>1. [view EXCEPT !.mounted = TRUE] \in ViewType(w)
    BY <1>1 DEF ViewType
  <2>2. view' \in ViewType(w) /\ requests' \subseteq ListRequests(w) /\ counts' \in Counters
        /\ crossed' \in BOOLEAN
    BY <1>3, <2>1, HandleSearchTypes DEF L!TransactionsMount
  <2> QED BY <1>1, <1>3, <2>2 DEF L!TransactionsMount, ListTypes
<1>4. CASE L(w)!Unmount
  <2>1. L(w)!Idle \in ViewType(w)
    BY ListFinite DEF L!Idle, ViewType, L!ListParameters
  <2>2. \A r \in requests : [r EXCEPT !.then = "none"] \in ListRequests(w)
    BY <1>1 DEF ListRequests
  <2>3. counts' \in Counters
    BY <1>1, <1>4, Counting DEF L!Unmount
  <2> QED BY <1>1, <1>4, <2>1, <2>2, <2>3 DEF L!Unmount, ListTypes
<1>5. ASSUME NEW q \in SUBSET Lists[w].Orgs, L(w)!SearchClick(q) PROVE ListTypes(w)'
  <2>1. [view EXCEPT !.orgs = q, !.page = 0, !.queryFlag = TRUE, !.defaultQuery = FALSE,
                     !.brs = FALSE] \in ViewType(w)
    BY <1>1 DEF ViewType
  <2>2. view' \in ViewType(w) /\ requests' \subseteq ListRequests(w) /\ counts' \in Counters
        /\ crossed' \in BOOLEAN
    BY <1>5, <2>1, HandleSearchTypes DEF L!SearchClick
  <2> QED BY <1>1, <1>5, <2>2 DEF L!SearchClick, ListTypes
<1>6. CASE L(w)!ClearSearch
  <2>1. view' \in ViewType(w)
    BY <1>1, <1>6 DEF L!ClearSearch, ViewType
  <2> QED BY <1>1, <1>6, <2>1 DEF L!ClearSearch, ListTypes
<1>7. ASSUME NEW p \in {view.page - 1, view.page + 1}, L(w)!TurnPage(p) PROVE ListTypes(w)'
  <2>1. p \in Nat
    BY <1>1, <1>7 DEF L!TurnPage, ViewType
  <2>2. [view EXCEPT !.page = p] \in ViewType(w)
    BY <1>1, <2>1 DEF ViewType
  <2>3. view' \in ViewType(w) /\ requests' \subseteq ListRequests(w) /\ counts' \in Counters
        /\ crossed' \in BOOLEAN
    <3>1. CASE view.brs
      BY <1>1, <1>7, <2>2, <3>1, Counting DEF L!TurnPage
    <3>2. CASE ~view.brs
      <4> DEFINE next == requests = {} /\ list.of = channel
                           /\ list.params = [page |-> p, size |-> view.size]
      <4>1. next \in BOOLEAN /\ L(w)!HandleSearch([view EXCEPT !.page = p], "steps", next)
        BY <1>7, <3>2 DEF L!TurnPage
      <4> HIDE DEF next
      <4> QED BY <2>2, <4>1, HandleSearchTypes
    <3> QED BY <3>1, <3>2
  <2> QED BY <1>1, <1>7, <2>3 DEF L!TurnPage, ListTypes
<1>8. ASSUME NEW s \in Lists[w].Sizes, L(w)!HandleRowsChange(s) PROVE ListTypes(w)'
  <2>1. [view EXCEPT !.page = 0, !.size = s] \in ViewType(w)
    BY <1>1 DEF ViewType
  <2>2. view' \in ViewType(w) /\ requests' \subseteq ListRequests(w) /\ counts' \in Counters
        /\ crossed' \in BOOLEAN
    BY <1>8, <2>1, HandleSearchTypes DEF L!HandleRowsChange
  <2> QED BY <1>1, <1>8, <2>2 DEF L!HandleRowsChange, ListTypes
<1>9. CASE L(w)!Poll
  <2>1. L(w)!SearchList(view, channel, "none", FALSE) \in ListRequests(w)
    BY <1>1, SearchSent
  <2>2. view' \in ViewType(w) /\ counts' \in Counters
    BY <1>1, <1>9, AskedView, Counting DEF L!Poll
  <2> QED BY <1>1, <1>9, <2>1, <2>2 DEF L!Poll, ListTypes
<1>10. CASE L(w)!HeaderSync
  <2>1. counts' \in Counters
    BY <1>1, <1>10, Counting DEF L!HeaderSync
  <2>2. PICK c \in Lists[w].Channels :
          requests' = requests \cup {L(w)!HeaderRequest(counts.sent + 1, c)}
    BY <1>1, <1>10, HeaderAsks
  <2>3. L(w)!HeaderRequest(counts.sent + 1, c) \in ListRequests(w)
    BY HeaderSent
  <2> QED BY <1>1, <1>10, <2>1, <2>2, <2>3 DEF L!HeaderSync, ListTypes
<1>11. ASSUME NEW c \in Lists[w].Channels, L(w)!SelectChannel(c) PROVE ListTypes(w)'
  <2>1. L(w)!HeaderRequest(counts.sent + 1, c) \in ListRequests(w) /\ counts' \in Counters
    BY <1>1, <1>11, HeaderSent, Counting DEF L!SelectChannel
  <2>2. header' \in HeaderType(w)
    BY <1>1, <1>11, HeaderTypes
  <2> QED BY <1>1, <1>11, <2>1, <2>2 DEF L!SelectChannel, ListTypes
<1>12. ASSUME NEW c \in Lists[w].Channels, L(w)!ChannelChanged(c) PROVE ListTypes(w)'
  <2>1. L(w)!HeaderRequest(counts.sent + 1, c) \in ListRequests(w) /\ counts' \in Counters
    BY <1>1, <1>12, HeaderSent, Counting DEF L!ChannelChanged
  <2>2. [L(w)!SearchList(view, c, "none", FALSE) EXCEPT !.id = counts.sent + 2] \in
          ListRequests(w)
    BY <1>1, SearchSent
  <2>3. view' \in ViewType(w)
    BY <1>1, <1>12, AskedOn DEF L!ChannelChanged
  <2>4. requests' \subseteq ListRequests(w)
    BY <1>1, <1>12, <2>1, <2>2 DEF L!ChannelChanged
  <2>5. header' \in HeaderType(w)
    BY <1>1, <1>12, HeaderTypes
  <2> QED BY <1>1, <1>12, <2>1, <2>3, <2>4, <2>5 DEF L!ChannelChanged, ListTypes
<1>13. ASSUME NEW x \in header.waiting, L(w)!SetInterval(x) PROVE ListTypes(w)'
  <2>1. header' \in HeaderType(w)
    BY <1>1, <1>13, HeaderTypes
  <2> QED BY <1>1, <1>13, <2>1 DEF L!SetInterval, ListTypes
<1> QED BY <1>2, <1>3, <1>4, <1>5, <1>6, <1>7, <1>8, <1>9, <1>10, <1>11, <1>12, <1>13

(* What the server and the answers do.                                     *)
LEMMA AnswersTypes ==
  ASSUME NEW w, L(w)!ListParameters, ListTypes(w),
         L(w)!Insert \/ L(w)!Answer \/ (\E r \in requests : L(w)!Fail(r))
           \/ (\E a, b \in 0 .. Lists[w].Limit + 1 : L(w)!RangeSubmit(a, b))
           \/ (\E r \in ranges : L(w)!RangeFail(r))
  PROVE  ListTypes(w)'
<1>1. /\ counts \in Counters /\ channel \in Lists[w].Channels
      /\ requests \subseteq ListRequests(w)
      /\ view \in ViewType(w) /\ ranges \subseteq RangeType(w) /\ list \in ListType(w)
      /\ header \in HeaderType(w)
      /\ range \in [loaded : BOOLEAN, rows : Seq(Nat), channel : Lists[w].Channels]
      /\ db \subseteq Lists[w].Stored \cup Lists[w].Arriving
  BY DEF ListTypes
<1>2. CASE L(w)!Insert
  <2>1. Lists[w].Stored \subseteq db'
        /\ db' \subseteq Lists[w].Stored \cup Lists[w].Arriving
    BY <1>1, <1>2 DEF L!Insert, ListTypes
  <2> QED BY <1>1, <1>2, <2>1 DEF L!Insert, ListTypes
<1>3. ASSUME NEW r \in requests, L(w)!CountRows(r) PROVE ListTypes(w)'
  <2> DEFINE k == IF r.params.page = 1
                  THEN L(w)!Ceil(L(w)!RowCount(db, r.channel, r.query), r.params.size)
                    ELSE NaN
  <2>1. r \in ListRequests(w) /\ r.params.size \in Lists[w].Sizes
    BY <1>1 DEF ListRequests, L!PageParams
  <2>2. k \in Pages
    BY <1>1, <2>1, RowsCounted DEF Pages
  <2>3. [r EXCEPT !.stage = "counted", !.pages = k] \in ListRequests(w)
    <3> HIDE DEF k
    <3> QED BY <2>1, <2>2 DEF ListRequests
  <2>4. requests' \subseteq ListRequests(w)
    BY <1>1, <1>3, <2>3 DEF L!CountRows
  <2> QED BY <1>1, <1>3, <2>4 DEF L!CountRows, ListTypes
<1>4. ASSUME NEW r \in requests, L(w)!ReadRows(r) PROVE ListTypes(w)'
  <2>1. PICK s \in L(w)!Orders(L(w)!Entries(db, r.channel, r.query)) :
          requests' = (requests \ {r}) \cup
            {[r EXCEPT !.stage = "read", !.rows = L(w)!Page(s, r.params)]}
    BY <1>4 DEF L!ReadRows
  <2>2. r \in ListRequests(w) /\ r.params \in L(w)!PageParams
    BY <1>1 DEF ListRequests
  <2>3. L(w)!Page(s, r.params) \in Seq(L(w)!Row)
    BY <1>1, <2>2, RowsRead
  <2>4. [r EXCEPT !.stage = "read", !.rows = L(w)!Page(s, r.params)] \in ListRequests(w)
    BY <2>2, <2>3 DEF ListRequests
  <2>5. requests' \subseteq ListRequests(w)
    BY <1>1, <2>1, <2>4
  <2> QED BY <1>1, <1>4, <2>5 DEF L!ReadRows, ListTypes
<1>5. ASSUME NEW r \in requests, L(w)!Deliver(r) PROVE ListTypes(w)'
  <2>1. r \in ListRequests(w)
        /\ \A x \in requests : [x EXCEPT !.next = FALSE] \in ListRequests(w)
    BY <1>1 DEF ListRequests
  <2>2. list' \in ListType(w)
    BY <1>1, <1>5, <2>1, ListRange DEF L!Deliver, L!StoreList, ListType, ListRequests
  <2>3. view' \in ViewType(w)
    BY <1>1, <1>5, ListRange DEF L!Deliver, L!Searched, ViewType
  <2>4. requests' \subseteq ListRequests(w)
    BY <1>5, <2>1, ListRange DEF L!Deliver
  <2>5. header' \in HeaderType(w)
    BY <1>1, <1>5, HeaderTypes
  <2> QED BY <1>1, <1>5, <2>2, <2>3, <2>4, <2>5, ListRange DEF L!Deliver, ListTypes
<1>6. ASSUME NEW r \in ranges, L(w)!RangeAnswer(r) PROVE ListTypes(w)'
  <2>0. Lists[w].Limit \in Nat
    BY ListFinite DEF L!ListParameters
  <2>1. r.channel \in Lists[w].Channels /\ r.from \in Nat /\ r.to \in Nat
    BY <1>1, <2>0 DEF RangeType
  <2>2. range' \in [loaded : BOOLEAN, rows : Seq(Nat), channel : Lists[w].Channels]
    BY <1>6, <2>1, Fetched DEF L!RangeAnswer
  <2> QED BY <1>1, <1>6, <2>2 DEF L!RangeAnswer, ListTypes
<1>7. ASSUME NEW r \in requests, L(w)!Fail(r) PROVE ListTypes(w)'
  <2>1. view' \in ViewType(w)
    BY <1>1, <1>7 DEF L!Fail, L!Searched, ViewType
  <2>2. counts' \in Counters
    BY <1>1, <1>7, Counting DEF L!Fail
  <2> QED BY <1>1, <1>7, <2>1, <2>2 DEF L!Fail, ListTypes
<1>8. ASSUME NEW a \in 0 .. Lists[w].Limit + 1, NEW b \in 0 .. Lists[w].Limit + 1,
             L(w)!RangeSubmit(a, b)
      PROVE  ListTypes(w)'
  <2>1. view' \in ViewType(w)
    BY <1>1, <1>8 DEF L!RangeSubmit, ViewType
  <2>2. [id |-> counts.ranges, channel |-> channel, from |-> a, to |-> b] \in RangeType(w)
    BY <1>1 DEF RangeType, Counters
  <2>3. range' \in [loaded : BOOLEAN, rows : Seq(Nat), channel : Lists[w].Channels]
    <3>1. <<>> \in Seq(Nat)
      OBVIOUS
    <3> QED BY <1>1, <1>8, <3>1 DEF L!RangeSubmit
  <2>4. counts' \in Counters
    BY <1>1, <1>8, Counting DEF L!RangeSubmit
  <2> QED BY <1>1, <1>8, <2>1, <2>2, <2>3, <2>4 DEF L!RangeSubmit, ListTypes
<1>9. ASSUME NEW r \in ranges, L(w)!RangeFail(r) PROVE ListTypes(w)'
  <2>1. counts' \in Counters
    BY <1>1, <1>9, Counting DEF L!RangeFail
  <2> QED BY <1>1, <1>9, <2>1 DEF L!RangeFail, ListTypes
<1> QED BY <1>2, <1>3, <1>4, <1>5, <1>6, <1>7, <1>8, <1>9 DEF L!Answer

-----------------------------------------------------------------------------
(* What is sent, and what the requests are after a step.                   *)

(* A request just sent: it goes on from the list only if it says so.       *)
Fresh(r) ==
  /\ r.rows = <<>> /\ r.stage = "sent" /\ r.pages = NaN
  /\ r.next => /\ list.of = r.channel /\ list.query = r.query
               /\ list.params.size = r.params.size /\ list.params.page = r.params.page - 1

(* One of before, whatever is done when it is answered.                    *)
SameAs(r, x) ==
  /\ r.channel = x.channel /\ r.query = x.query /\ r.params = x.params /\ r.next = x.next
  /\ r.stage = x.stage /\ r.pages = x.pages /\ r.rows = x.rows

(* The actions of the page only send requests, or change who waits for one: *)
(* what is stored and what is shown stay.                                   *)
LEMMA SendsRequests ==
  ASSUME NEW w, L(w)!ListParameters, ListTypes(w), ViewAsks(w),
         L(w)!BlocksMount \/ L(w)!TransactionsMount \/ L(w)!Unmount
         \/ (\E q \in SUBSET Lists[w].Orgs : L(w)!SearchClick(q))
           \/ L(w)!ClearSearch
              \/ (\E p \in {view.page - 1, view.page + 1} : L(w)!TurnPage(p))
           \/ (\E s \in Lists[w].Sizes : L(w)!HandleRowsChange(s)) \/ L(w)!Poll
                \/ L(w)!HeaderSync
           \/ (\E c \in Lists[w].Channels : L(w)!SelectChannel(c) \/ L(w)!ChannelChanged(c))
           \/ (\E x \in header.waiting : L(w)!SetInterval(x))
  PROVE  /\ \A r \in requests' : Fresh(r) \/ \E x \in requests : SameAs(r, x)
         /\ db' = db /\ list' = list /\ range' = range /\ sweep' = sweep /\ ranges' = ranges
<1>1. /\ counts \in Counters /\ channel \in Lists[w].Channels
      /\ requests \subseteq ListRequests(w)
      /\ view \in ViewType(w) /\ header \in HeaderType(w)
  BY DEF ListTypes
<1>2. \A x \in requests : SameAs(x, x)
  BY DEF SameAs
<1>3. \A c \in Lists[w].Channels : Fresh(L(w)!HeaderRequest(counts.sent + 1, c))
  BY DEF Fresh, L!HeaderRequest, L!Request
<1>4. \A v \in ViewType(w), c \in Lists[w].Channels, then \in {"search", "none"} :
        Fresh(L(w)!SearchList(v, c, then, FALSE))
  BY DEF Fresh, L!SearchList, L!Request
<1>5. ASSUME NEW v \in ViewType(w), NEW k \in {"steps", "ticks"},
             L(w)!HandleSearch(v, k, FALSE)
      PROVE  \A r \in requests' : Fresh(r) \/ \E x \in requests : SameAs(r, x)
  BY <1>1, <1>2, <1>4, <1>5 DEF L!HandleSearch
<1>6. CASE L(w)!BlocksMount
  BY <1>1, <1>2, <1>4, <1>6 DEF L!BlocksMount
<1>7. CASE L(w)!TransactionsMount
  <2>1. [view EXCEPT !.mounted = TRUE] \in ViewType(w)
    BY <1>1 DEF ViewType
  <2> QED BY <1>5, <1>7, <2>1 DEF L!TransactionsMount
<1>8. CASE L(w)!Unmount
  <2>1. \A x \in requests : SameAs([x EXCEPT !.then = "none"], x)
    BY <1>1 DEF SameAs, ListRequests
  <2> QED BY <1>8, <2>1 DEF L!Unmount
<1>9. ASSUME NEW q \in SUBSET Lists[w].Orgs, L(w)!SearchClick(q)
      PROVE  /\ \A r \in requests' : Fresh(r) \/ \E x \in requests : SameAs(r, x)
             /\ db' = db /\ list' = list /\ range' = range /\ sweep' = sweep
             /\ ranges' = ranges
  <2>1. [view EXCEPT !.orgs = q, !.page = 0, !.queryFlag = TRUE, !.defaultQuery = FALSE,
                     !.brs = FALSE] \in ViewType(w)
    BY <1>1 DEF ViewType
  <2> QED BY <1>5, <1>9, <2>1 DEF L!SearchClick
<1>10. CASE L(w)!ClearSearch
  BY <1>2, <1>10 DEF L!ClearSearch
<1>11. ASSUME NEW p \in {view.page - 1, view.page + 1}, L(w)!TurnPage(p)
       PROVE  /\ \A r \in requests' : Fresh(r) \/ \E x \in requests : SameAs(r, x)
              /\ db' = db /\ list' = list /\ range' = range /\ sweep' = sweep
              /\ ranges' = ranges
  <2> DEFINE next == requests = {} /\ list.of = channel
                       /\ list.params = [page |-> p, size |-> view.size]
             v == [view EXCEPT !.page = p]
             r == L(w)!SearchList(v, channel, "search", next)
  <2>1. p \in Nat /\ v \in ViewType(w)
    BY <1>1, <1>11 DEF L!TurnPage, ViewType
  <2>2. CASE view.brs
    BY <1>2, <1>11, <2>2 DEF L!TurnPage
  <2>3. CASE ~view.brs
    <3>1. view.mounted /\ requests' = requests \cup {r}
      BY <1>11, <2>3 DEF L!TurnPage, L!HandleSearch
    <3>2. L(w)!Query(v) = list.query
      BY <1>1, <3>1 DEF L!Query, ViewAsks, ViewType
    <3>3. /\ r.channel = channel /\ r.query = list.query /\ (r.next <=> next)
          /\ r.params = [page |-> v.page + 1, size |-> v.size]
          /\ r.stage = "sent" /\ r.pages = NaN /\ r.rows = <<>>
      <4> HIDE DEF next, v
      <4> QED BY <3>2 DEF L!SearchList, L!Request
    <3>4. v.page = p /\ v.size = view.size
      BY <1>1, <2>1 DEF ViewType
    <3>5. r.next => next
      BY <3>3
    <3>6. r.params.page - 1 = p /\ r.params.size = view.size
      BY <2>1, <3>3, <3>4
    <3>7. Fresh(r)
      <4> HIDE DEF r, v
      <4>1. r.next =>
              list.params.size = r.params.size /\ list.params.page = r.params.page - 1
        BY <3>5, <3>6
      <4> QED BY <3>3, <3>5, <4>1 DEF Fresh
    <3> QED BY <1>2, <1>11, <3>1, <3>7 DEF L!TurnPage
  <2> QED BY <1>11, <2>2, <2>3 DEF L!TurnPage
<1>12. ASSUME NEW s \in Lists[w].Sizes, L(w)!HandleRowsChange(s)
       PROVE  /\ \A r \in requests' : Fresh(r) \/ \E x \in requests : SameAs(r, x)
              /\ db' = db /\ list' = list /\ range' = range /\ sweep' = sweep
              /\ ranges' = ranges
  <2>1. [view EXCEPT !.page = 0, !.size = s] \in ViewType(w)
    BY <1>1 DEF ViewType
  <2> QED BY <1>5, <1>12, <2>1 DEF L!HandleRowsChange
<1>13. CASE L(w)!Poll
  BY <1>1, <1>2, <1>4, <1>13 DEF L!Poll
<1>14. CASE L(w)!HeaderSync
  <2>1. PICK c \in Lists[w].Channels :
          requests' = requests \cup {L(w)!HeaderRequest(counts.sent + 1, c)}
    BY <1>1, <1>14, HeaderAsks
  <2> QED BY <1>2, <1>3, <1>14, <2>1 DEF L!HeaderSync
<1>15. ASSUME NEW c \in Lists[w].Channels, L(w)!SelectChannel(c)
       PROVE  /\ \A r \in requests' : Fresh(r) \/ \E x \in requests : SameAs(r, x)
              /\ db' = db /\ list' = list /\ range' = range /\ sweep' = sweep
              /\ ranges' = ranges
  BY <1>2, <1>3, <1>15 DEF L!SelectChannel
<1>16. ASSUME NEW c \in Lists[w].Channels, L(w)!ChannelChanged(c)
       PROVE  /\ \A r \in requests' : Fresh(r) \/ \E x \in requests : SameAs(r, x)
              /\ db' = db /\ list' = list /\ range' = range /\ sweep' = sweep
              /\ ranges' = ranges
  <2> DEFINE y == L(w)!SearchList(view, c, "none", FALSE)
             z == [y EXCEPT !.id = counts.sent + 2]
  <2>1. y \in ListRequests(w) /\ Fresh(y)
    BY <1>1, <1>4, SearchSent
  <2>2. Fresh(z)
    <3> HIDE DEF y
    <3> QED BY <2>1 DEF Fresh, ListRequests
  <2>3. \A r \in requests' : r \in requests \/ r = L(w)!HeaderRequest(counts.sent + 1, c)
          \/ r = z
    <3> HIDE DEF z
    <3>1. view.search =>
            requests' = requests \cup {L(w)!HeaderRequest(counts.sent + 1, c), z}
      BY <1>16 DEF L!ChannelChanged, z
    <3>2. ~view.search => requests' = requests \cup {L(w)!HeaderRequest(counts.sent + 1, c)}
      BY <1>16 DEF L!ChannelChanged
    <3> QED BY <3>1, <3>2
  <2> QED BY <1>2, <1>3, <1>16, <2>2, <2>3 DEF L!ChannelChanged
<1>17. CASE \E x \in header.waiting : L(w)!SetInterval(x)
  BY <1>2, <1>17 DEF L!SetInterval
<1> QED BY <1>6, <1>7, <1>8, <1>9, <1>10, <1>11, <1>12, <1>13, <1>14, <1>15, <1>16,
   <1>17 DEF L!BlocksMount, L!TransactionsMount, L!Unmount, L!ClearSearch, L!Poll,
   L!HeaderSync

-----------------------------------------------------------------------------
(* The rows of the lists and of the ranges.                                *)

(* What a request is after the server served one of them.                  *)
LEMMA ServedRequests ==
  ASSUME NEW w, ListTypes(w), NEW r \in requests, L(w)!CountRows(r) \/ L(w)!ReadRows(r)
  PROVE  \A x \in requests' : x \in requests \/
           /\ x.channel = r.channel /\ x.query = r.query /\ x.params = r.params
           /\ x.next = r.next /\ x.then = r.then
           /\ \/ /\ L(w)!CountRows(r) /\ r.stage = "sent" /\ x.stage = "counted"
                 /\ x.rows = r.rows
                 /\ x.pages = IF r.params.page = 1
                              THEN L(w)!Ceil(L(w)!RowCount(db, r.channel, r.query),
                                             r.params.size)
                              ELSE NaN
              \/ /\ r.stage = "counted" /\ x.stage = "read" /\ x.pages = r.pages
                 /\ \E s \in L(w)!Orders(L(w)!Entries(db, r.channel, r.query)) :
                      x.rows = L(w)!Page(s, r.params)
<1>1. r \in ListRequests(w)
  BY DEF ListTypes
<1>2. CASE L(w)!CountRows(r)
  <2>1. PICK k : /\ k = IF r.params.page = 1
                        THEN L(w)!Ceil(L(w)!RowCount(db, r.channel, r.query), r.params.size)
                        ELSE NaN
                 /\ requests' = (requests \ {r}) \cup
                                  {[r EXCEPT !.stage = "counted", !.pages = k]}
                 /\ r.stage = "sent"
    BY <1>2, Zenon DEF L!CountRows
  <2> DEFINE y == [r EXCEPT !.stage = "counted", !.pages = k]
  <2>2. /\ y.channel = r.channel /\ y.query = r.query /\ y.params = r.params
        /\ y.next = r.next /\ y.then = r.then /\ y.stage = "counted" /\ y.rows = r.rows
        /\ y.pages = k
    BY <1>1 DEF ListRequests
  <2>3. requests' = (requests \ {r}) \cup {y}
    BY <2>1
  <2> HIDE DEF y
  <2>4. /\ k = IF r.params.page = 1
               THEN L(w)!Ceil(L(w)!RowCount(db, r.channel, r.query), r.params.size)
               ELSE NaN
        /\ r.stage = "sent"
    BY <2>1
  <2>5. \A x \in requests' : x \in requests \/ x = y
    BY <2>3
  <2> QED
    <3> SUFFICES ASSUME NEW x \in requests', x \notin requests
                 PROVE  /\ x.channel = r.channel /\ x.query = r.query
                        /\ x.params = r.params /\ x.next = r.next /\ x.then = r.then
                        /\ r.stage = "sent" /\ x.stage = "counted" /\ x.rows = r.rows
                        /\ x.pages = k
      BY <1>2, <2>4
    <3> QED BY <2>2, <2>4, <2>5
<1>3. CASE L(w)!ReadRows(r)
  <2>1. PICK s, found :
          /\ s \in L(w)!Orders(L(w)!Entries(db, r.channel, r.query))
          /\ found = L(w)!Page(s, r.params) /\ r.stage = "counted"
          /\ requests' = (requests \ {r}) \cup {[r EXCEPT !.stage = "read", !.rows = found]}
    BY <1>3, Zenon DEF L!ReadRows
  <2> DEFINE y == [r EXCEPT !.stage = "read", !.rows = found]
  <2>2. /\ y.channel = r.channel /\ y.query = r.query /\ y.params = r.params
        /\ y.next = r.next /\ y.then = r.then /\ y.stage = "read" /\ y.rows = found
        /\ y.pages = r.pages
    BY <1>1 DEF ListRequests
  <2>3. requests' = (requests \ {r}) \cup {y}
    BY <2>1
  <2> HIDE DEF y
  <2>4. /\ \E z \in L(w)!Orders(L(w)!Entries(db, r.channel, r.query)) :
             found = L(w)!Page(z, r.params)
        /\ r.stage = "counted"
    BY <2>1
  <2>5. \A x \in requests' : x \in requests \/ x = y
    BY <2>3
  <2> QED
    <3> SUFFICES ASSUME NEW x \in requests', x \notin requests
                 PROVE  /\ x.channel = r.channel /\ x.query = r.query
                        /\ x.params = r.params /\ x.next = r.next /\ x.then = r.then
                        /\ r.stage = "counted" /\ x.stage = "read"
                        /\ x.pages = r.pages /\ x.rows = found
      BY <2>4
    <3> QED BY <2>2, <2>4, <2>5
<1> QED BY <1>2, <1>3

(* The rows stay those of the database.                                    *)
LEMMA RowsStoredSteps ==
  ASSUME NEW w, L(w)!ListParameters, ListTypes(w), ViewAsks(w), RowsStored(w), L(w)!Next
  PROVE  RowsStored(w)'
<1>1. requests \subseteq ListRequests(w)
      /\ db \subseteq Lists[w].Stored \cup Lists[w].Arriving
  BY DEF ListTypes
<1>2. ASSUME NEW r, r.rows = <<>>, NEW S PROVE Range(r.rows) \subseteq S
  BY <1>2 DEF Range
<1>3. CASE L(w)!BlocksMount \/ L(w)!TransactionsMount \/ L(w)!Unmount
           \/ (\E q \in SUBSET Lists[w].Orgs : L(w)!SearchClick(q))
           \/ L(w)!ClearSearch
              \/ (\E p \in {view.page - 1, view.page + 1} : L(w)!TurnPage(p))
           \/ (\E s \in Lists[w].Sizes : L(w)!HandleRowsChange(s)) \/ L(w)!Poll
                \/ L(w)!HeaderSync
           \/ (\E c \in Lists[w].Channels : L(w)!SelectChannel(c) \/ L(w)!ChannelChanged(c))
           \/ (\E x \in header.waiting : L(w)!SetInterval(x))
  <2>1. /\ \A r \in requests' : Fresh(r) \/ \E x \in requests : SameAs(r, x)
        /\ db' = db /\ list' = list
    BY <1>3, SendsRequests
  <2>2. ASSUME NEW r \in requests'
               PROVE Range(r.rows) \subseteq L(w)!Entries(db, r.channel, r.query)
    <3>1. CASE Fresh(r)
      BY <1>2, <3>1 DEF Fresh
    <3>2. CASE \E x \in requests : SameAs(r, x)
      BY <3>2 DEF SameAs, RowsStored
    <3> QED BY <2>1, <3>1, <3>2
  <2> QED BY <2>1, <2>2 DEF RowsStored
<1>4. CASE L(w)!Insert
  <2>1. db \subseteq db' /\ list' = list /\ requests' = requests
    BY <1>4 DEF L!Insert
  <2>2. \A c, q : L(w)!Entries(db, c, q) \subseteq L(w)!Entries(db', c, q)
    BY <2>1, EntriesGrow
  <2> QED BY <2>1, <2>2 DEF RowsStored
<1>5. ASSUME NEW r \in requests, L(w)!CountRows(r) \/ L(w)!ReadRows(r) PROVE RowsStored(w)'
  <2>1. r \in ListRequests(w) /\ r.params \in L(w)!PageParams
    BY <1>1 DEF ListRequests
  <2>2. \A s \in L(w)!Orders(L(w)!Entries(db, r.channel, r.query)) :
          Range(L(w)!Page(s, r.params)) \subseteq L(w)!Entries(db, r.channel, r.query)
    BY <1>1, <2>1, RowsRead
  <2>3. ASSUME NEW x \in requests'
               PROVE Range(x.rows) \subseteq L(w)!Entries(db, x.channel, x.query)
    BY <1>5, <2>2, ServedRequests DEF RowsStored
  <2>4. db' = db /\ list' = list
    BY <1>5 DEF L!CountRows, L!ReadRows
  <2> QED BY <2>3, <2>4 DEF RowsStored
<1>6. ASSUME NEW r \in requests, L(w)!Deliver(r) PROVE RowsStored(w)'
  <2>1. db' = db /\ list'.rows = r.rows /\ list'.of = r.channel /\ list'.query = r.query
    BY <1>6, ListRange DEF L!Deliver, L!StoreList
  <2>2. \A x \in requests' : \E y \in requests : x = [y EXCEPT !.next = FALSE]
    BY <1>6, ListRange DEF L!Deliver
  <2>3. \A x \in requests' : Range(x.rows) \subseteq L(w)!Entries(db, x.channel, x.query)
    BY <1>1, <2>2 DEF RowsStored, ListRequests
  <2> QED BY <2>1, <2>3 DEF RowsStored
<1>7. CASE (\E r \in requests : L(w)!Fail(r))
             \/ (\E r \in ranges : L(w)!RangeAnswer(r) \/ L(w)!RangeFail(r))
             \/ (\E a, b \in 0 .. Lists[w].Limit + 1 : L(w)!RangeSubmit(a, b))
  <2>1. db' = db /\ list' = list /\ requests' \subseteq requests
    BY <1>7 DEF L!Fail, L!RangeAnswer, L!RangeFail, L!RangeSubmit
  <2> QED BY <2>1 DEF RowsStored
<1> QED BY <1>3, <1>4, <1>5, <1>6, <1>7 DEF L!Next, L!Answer

(* A range is fetched whole.                                               *)
LEMMA RangeRowsSteps ==
  ASSUME NEW w, L(w)!ListParameters, ListTypes(w), ViewAsks(w), RangeRows(w), L(w)!Next
  PROVE  RangeRows(w)'
<1>1. CASE L(w)!BlocksMount \/ L(w)!TransactionsMount \/ L(w)!Unmount
           \/ (\E q \in SUBSET Lists[w].Orgs : L(w)!SearchClick(q))
           \/ L(w)!ClearSearch
              \/ (\E p \in {view.page - 1, view.page + 1} : L(w)!TurnPage(p))
           \/ (\E s \in Lists[w].Sizes : L(w)!HandleRowsChange(s)) \/ L(w)!Poll
                \/ L(w)!HeaderSync
           \/ (\E c \in Lists[w].Channels : L(w)!SelectChannel(c) \/ L(w)!ChannelChanged(c))
           \/ (\E x \in header.waiting : L(w)!SetInterval(x))
  <2>1. range' = range
    BY <1>1, SendsRequests
  <2> QED BY <2>1 DEF RangeRows
<1>2. CASE L(w)!Insert
           \/ (\E r \in requests : L(w)!CountRows(r) \/ L(w)!ReadRows(r) \/ L(w)!Deliver(r)
                \/ L(w)!Fail(r))
             \/ (\E r \in ranges : L(w)!RangeFail(r))
  <2>1. range' = range
    BY <1>2, ListRange DEF L!Insert, L!CountRows, L!ReadRows, L!Deliver, L!Fail, L!RangeFail
  <2> QED BY <2>1 DEF RangeRows
<1>3. ASSUME NEW r \in ranges, L(w)!RangeAnswer(r) PROVE RangeRows(w)'
  <2>0. Lists[w].Limit \in Nat
    BY ListFinite DEF L!ListParameters
  <2>1. r.channel \in Lists[w].Channels /\ r.from \in Nat /\ r.to \in Nat
    BY <2>0 DEF RangeType, ListTypes
  <2>2. range'.rows = L(w)!FetchRange(r.channel, r.from, r.to) /\ range'.channel = r.channel
    BY <1>3 DEF L!RangeAnswer
  <2> DEFINE F == L(w)!FetchRange(r.channel, r.from, r.to)
  <2>3. Range(F) \subseteq 0 .. Lists[w].Height[r.channel] - 1
        /\ \A i, j \in DOMAIN F : F[i] = F[j] => i = j
    BY <2>1, Fetched
  <2> HIDE DEF F
  <2> QED BY <2>2, <2>3 DEF RangeRows, F
<1>4. ASSUME NEW a \in 0 .. Lists[w].Limit + 1, NEW b \in 0 .. Lists[w].Limit + 1,
             L(w)!RangeSubmit(a, b)
      PROVE  RangeRows(w)'
  <2>1. range'.rows = <<>>
    BY <1>4 DEF L!RangeSubmit, ListTypes
  <2> QED BY <2>1 DEF RangeRows, Range
<1> QED BY <1>1, <1>2, <1>3, <1>4 DEF L!Next, L!Answer

(* The component asks with a query once, and is idle when it is not there. *)
LEMMA ViewAsksSteps ==
  ASSUME NEW w, L(w)!ListParameters, ListTypes(w), ViewAsks(w), L(w)!Next
  PROVE  ViewAsks(w)'
<1>1. /\ counts \in Counters /\ channel \in Lists[w].Channels
      /\ requests \subseteq ListRequests(w)
      /\ view \in ViewType(w)
  BY DEF ListTypes
<1>2. CASE L(w)!BlocksMount
  <2>1. view' = [L(w)!Asked(view) EXCEPT !.mounted = TRUE]
        /\ L(w)!Asked(view) \in ViewType(w)
    BY <1>1, <1>2, AskedView DEF L!BlocksMount
  <2>2. ~view'.queryFlag /\ view'.mounted /\ ~view'.defaultQuery /\ view'.brs = view.brs
    BY <1>1, <2>1, AskedView DEF ViewAsks, ViewType
  <2> QED BY <2>2, <1>2 DEF ViewAsks
<1>3. CASE L(w)!TransactionsMount
  <2> DEFINE v == [view EXCEPT !.mounted = TRUE]
  <2>1. v \in ViewType(w) /\ v.mounted /\ ~v.queryFlag /\ v.brs = view.brs
    BY <1>1 DEF ViewType, ViewAsks
  <2>2. view'.mounted /\ ~view'.queryFlag /\ ~view'.defaultQuery /\ view'.brs = view.brs
    <3>1. L(w)!HandleSearch(v, "ticks", FALSE)
      BY <1>3 DEF L!TransactionsMount
    <3> HIDE DEF v
    <3> QED BY <2>1, <3>1, HandleSearchTypes
  <2> QED BY <2>2 DEF ViewAsks
<1>4. CASE L(w)!Unmount
  <2>1. \A r \in requests' : r.then = "none"
    BY <1>1, <1>4 DEF L!Unmount, ListRequests
  <2> QED BY <2>1, <1>4 DEF L!Unmount, ViewAsks, L!Idle
<1>5. ASSUME NEW q \in SUBSET Lists[w].Orgs, L(w)!SearchClick(q) PROVE ViewAsks(w)'
  <2> DEFINE v == [view EXCEPT !.orgs = q, !.page = 0, !.queryFlag = TRUE,
                               !.defaultQuery = FALSE, !.brs = FALSE]
  <2>1. v \in ViewType(w) /\ v.mounted /\ ~v.defaultQuery /\ ~v.brs
    BY <1>1, <1>5 DEF ViewType, L!SearchClick
  <2>2. view'.mounted /\ ~view'.queryFlag /\ ~view'.defaultQuery /\ ~view'.brs
    <3>1. L(w)!HandleSearch(v, "steps", FALSE)
      BY <1>5 DEF L!SearchClick
    <3> HIDE DEF v
    <3> QED BY <2>1, <3>1, HandleSearchTypes
  <2> QED BY <2>2 DEF ViewAsks
<1>6. CASE L(w)!ClearSearch
  BY <1>1, <1>6 DEF L!ClearSearch, ViewAsks, ViewType
<1>7. ASSUME NEW v \in ViewType(w), v.mounted, ~v.queryFlag, v.brs = view.brs,
             NEW next \in BOOLEAN, L(w)!HandleSearch(v, "steps", next), view.mounted
      PROVE  ViewAsks(w)'
  <2>1. view'.mounted /\ ~view'.queryFlag /\ ~view'.defaultQuery /\ view'.brs = view.brs
    BY <1>7, HandleSearchTypes
  <2> QED BY <2>1 DEF ViewAsks
<1>8. ASSUME NEW p \in {view.page - 1, view.page + 1}, L(w)!TurnPage(p) PROVE ViewAsks(w)'
  <2> DEFINE v == [view EXCEPT !.page = p]
             next == requests = {} /\ list.of = channel
                       /\ list.params = [page |-> p, size |-> view.size]
  <2>1. p \in Nat /\ view.mounted
    BY <1>1, <1>8 DEF L!TurnPage, ViewType
  <2>2. v \in ViewType(w) /\ v.mounted /\ ~v.queryFlag /\ v.brs = view.brs
    BY <1>1, <2>1 DEF ViewType, ViewAsks
  <2>3. CASE view.brs
    <3>1. view' = v
      BY <1>8, <2>3 DEF L!TurnPage
    <3> QED BY <1>1, <2>1, <2>3, <3>1 DEF ViewAsks, ViewType
  <2>4. CASE ~view.brs
    <3>1. L(w)!HandleSearch(v, "steps", next) /\ next \in BOOLEAN
      BY <1>8, <2>4 DEF L!TurnPage
    <3> HIDE DEF v, next
    <3> QED BY <1>7, <2>1, <2>2, <3>1
  <2> QED BY <2>3, <2>4
<1>9. ASSUME NEW s \in Lists[w].Sizes, L(w)!HandleRowsChange(s) PROVE ViewAsks(w)'
  <2> DEFINE v == [view EXCEPT !.page = 0, !.size = s]
  <2>1. v \in ViewType(w) /\ v.mounted /\ ~v.queryFlag /\ v.brs = view.brs /\ view.mounted
    BY <1>1, <1>9 DEF ViewType, L!HandleRowsChange, ViewAsks
  <2>2. L(w)!HandleSearch(v, "steps", FALSE)
    BY <1>9 DEF L!HandleRowsChange
  <2> HIDE DEF v
  <2> QED BY <1>7, <2>1, <2>2
<1>10. ASSUME view' = L(w)!Asked(view)
       \/ view' = [L(w)!Asked(view) EXCEPT !.polling = TRUE],
              view.mounted
       PROVE  ViewAsks(w)'
  <2>1. L(w)!Asked(view) \in ViewType(w) /\ ~L(w)!Asked(view).queryFlag
        /\ L(w)!Asked(view).mounted
        /\ L(w)!Asked(view).brs = view.brs /\ ~L(w)!Asked(view).defaultQuery
    BY <1>1, <1>10, AskedView DEF ViewAsks
  <2>2. view'.mounted /\ ~view'.queryFlag /\ ~view'.defaultQuery /\ view'.brs = view.brs
    BY <1>10, <2>1 DEF ViewType
  <2> QED BY <2>2 DEF ViewAsks
<1>11. CASE L(w)!Poll
  <2>1. view.mounted
    BY <1>11 DEF L!Poll, ViewAsks, L!Idle
  <2> QED BY <1>10, <1>11, <2>1 DEF L!Poll
<1>12. CASE L(w)!HeaderSync \/ \E c \in Lists[w].Channels : L(w)!SelectChannel(c)
  <2>1. \A c : L(w)!HeaderRequest(counts.sent + 1, c).then = "none"
    BY DEF L!HeaderRequest, L!Request
  <2> QED BY <1>12, <2>1 DEF L!HeaderSync, L!SelectChannel, ViewAsks, L!Idle
<1>13. ASSUME NEW c \in Lists[w].Channels, L(w)!ChannelChanged(c) PROVE ViewAsks(w)'
  <2>1. CASE view.search
    <3>1. view.mounted
      BY <2>1 DEF ViewAsks, L!Idle
    <3> QED BY <1>10, <1>13, <2>1, <3>1 DEF L!ChannelChanged
  <2>2. CASE ~view.search
    <3>1. L(w)!HeaderRequest(counts.sent + 1, c).then = "none"
      BY DEF L!HeaderRequest, L!Request
    <3> QED BY <1>13, <2>2, <3>1 DEF L!ChannelChanged, ViewAsks, L!Idle
  <2> QED BY <2>1, <2>2
<1>14. ASSUME view' = view, asked' = asked,
              \A x \in requests' : \E y \in requests : x.then = y.then
       PROVE  ViewAsks(w)'
  BY <1>14 DEF ViewAsks, L!Idle
<1>15. CASE L(w)!Insert \/ (\E r \in ranges : L(w)!RangeAnswer(r) \/ L(w)!RangeFail(r))
  BY <1>14, <1>15 DEF L!Insert, L!RangeAnswer, L!RangeFail
<1>21. CASE \E x \in header.waiting : L(w)!SetInterval(x)
  BY <1>14, <1>21 DEF L!SetInterval
<1>16. ASSUME NEW r \in requests, L(w)!CountRows(r) \/ L(w)!ReadRows(r) PROVE ViewAsks(w)'
  <2>1. \A x \in requests' : \E y \in requests : x.then = y.then
    BY <1>16, ServedRequests
  <2> QED BY <1>14, <1>16, <2>1 DEF L!CountRows, L!ReadRows
<1>17. ASSUME NEW r \in requests, L(w)!Searched(r), asked' = asked,
              \A x \in requests' : \E y \in requests : x.then = y.then
       PROVE  ViewAsks(w)'
  <2>1. CASE r.then = "search"
    <3>1. view.mounted /\ view' = [view EXCEPT !.search = TRUE]
      BY <1>17, <2>1 DEF ViewAsks, L!Searched
    <3> QED BY <1>1, <3>1 DEF ViewAsks, ViewType
  <2>2. CASE r.then # "search"
    BY <1>14, <1>17, <2>2 DEF L!Searched
  <2> QED BY <2>1, <2>2
<1>18. ASSUME NEW r \in requests, L(w)!Deliver(r) PROVE ViewAsks(w)'
  <2>1. \A x \in requests' : \E y \in requests : x.then = y.then
    BY <1>1, <1>18, ListRange DEF L!Deliver, ListRequests
  <2> QED BY <1>17, <1>18, <2>1, ListRange DEF L!Deliver
<1>19. ASSUME NEW r \in requests, L(w)!Fail(r) PROVE ViewAsks(w)'
  BY <1>17, <1>19 DEF L!Fail
<1>20. ASSUME NEW a \in 0 .. Lists[w].Limit + 1, NEW b \in 0 .. Lists[w].Limit + 1,
              L(w)!RangeSubmit(a, b)
       PROVE  ViewAsks(w)'
  BY <1>1, <1>20 DEF L!RangeSubmit, ViewAsks, ViewType
<1> QED BY <1>2, <1>3, <1>4, <1>5, <1>6, <1>8, <1>9, <1>11, <1>12, <1>13, <1>15, <1>16,
   <1>18, <1>19, <1>20, <1>21 DEF L!Next, L!Answer

-----------------------------------------------------------------------------
(* What is asked for.                                                      *)

(* The list shows, or a request asks for, what is wanted.                  *)
LEMMA AsksWhatIsWantedSteps ==
  ASSUME NEW w, L(w)!ListParameters, ListTypes(w), ViewAsks(w), AsksWhatIsWanted,
         HeaderFollows, L(w)!Next
  PROVE  AsksWhatIsWanted'
<1>1. /\ counts \in Counters /\ channel \in Lists[w].Channels
      /\ requests \subseteq ListRequests(w)
      /\ view \in ViewType(w) /\ crossed \in BOOLEAN /\ header \in HeaderType(w)
  BY DEF ListTypes
<1> DEFINE Right(r) == r.query = asked' /\ r.params = Wanted' /\ r.channel = channel'
<1>2. ASSUME requests' # {}, \A r \in requests' : Right(r) PROVE AsksWhatIsWanted'
  BY <1>2 DEF AsksWhatIsWanted
<1>3. ASSUME NEW v \in ViewType(w), NEW k \in {"steps", "ticks"}, NEW next \in BOOLEAN,
             L(w)!HandleSearch(v, k, next), channel' = channel, v.mounted, v.brs
             \/ L(w)!Query(v) = asked'
      PROVE  AsksWhatIsWanted'
  <2>1. CASE crossed' \/ v.brs
    <3>1. view'.brs = v.brs
      BY <1>3, HandleSearchTypes
    <3> QED BY <2>1, <3>1 DEF AsksWhatIsWanted
  <2>2. CASE ~crossed' /\ ~v.brs
    <3> DEFINE r == L(w)!SearchList(v, channel, "search", next)
    <3>1. requests = {} /\ view'.page = v.page /\ view'.size = v.size
      BY <1>3, <2>2, HandleSearchTypes DEF L!HandleSearch
    <3>2. requests' = {r}
      BY <1>3, <3>1 DEF L!HandleSearch
    <3>3. r.query = L(w)!Query(v) /\ r.channel = channel
          /\ r.params = [page |-> v.page + 1, size |-> v.size]
      BY DEF L!SearchList, L!Request
    <3>4. Right(r)
      <4> HIDE DEF r
      <4> QED BY <1>3, <2>2, <3>1, <3>3 DEF Wanted
    <3> HIDE DEF r, Right
    <3> QED BY <1>2, <3>2, <3>4
  <2> QED BY <2>1, <2>2
<1>4. CASE L(w)!BlocksMount
  <2>1. CASE crossed'
    BY <2>1 DEF AsksWhatIsWanted
  <2>2. CASE ~crossed'
    <3> DEFINE r == L(w)!SearchList(view, channel, "none", FALSE)
    <3>1. /\ requests' = {r} /\ view = L(w)!Idle /\ asked = {} /\ asked' = asked
          /\ channel' = channel
      BY <1>4, <2>2 DEF L!BlocksMount, ViewAsks
    <3>2. view'.page = 0 /\ view'.size = Lists[w].Default
      BY <1>4, <3>1 DEF L!BlocksMount, L!Asked, L!Idle
    <3>3. /\ r.query = {} /\ r.channel = channel
          /\ r.params = [page |-> 0 + 1, size |-> Lists[w].Default]
      BY <3>1 DEF L!SearchList, L!Request, L!Query, L!Idle
    <3>4. Right(r)
      <4> HIDE DEF r
      <4> QED BY <3>1, <3>2, <3>3 DEF Wanted
    <3> HIDE DEF r, Right
    <3> QED BY <1>2, <3>1, <3>4
  <2> QED BY <2>1, <2>2
<1>5. CASE L(w)!TransactionsMount
  <2> DEFINE v == [view EXCEPT !.mounted = TRUE]
  <2>1. view = L(w)!Idle /\ asked = {} /\ asked' = asked /\ channel' = channel
    BY <1>5 DEF L!TransactionsMount, ViewAsks
  <2>2. v \in ViewType(w) /\ v.mounted
    BY <1>1 DEF ViewType
  <2>3. v.queryFlag = FALSE /\ v.defaultQuery = TRUE
    BY <2>1 DEF L!Idle
  <2>4. L(w)!Query(v) = {}
    <3> HIDE DEF v
    <3> QED BY <2>3 DEF L!Query
  <2>5. L(w)!HandleSearch(v, "ticks", FALSE)
    BY <1>5 DEF L!TransactionsMount
  <2> HIDE DEF v
  <2> QED BY <1>3, <2>1, <2>2, <2>4, <2>5
<1>6. CASE L(w)!Unmount
  BY <1>6 DEF L!Unmount, AsksWhatIsWanted, L!Idle
<1>7. ASSUME NEW q \in SUBSET Lists[w].Orgs, L(w)!SearchClick(q) PROVE AsksWhatIsWanted'
  <2> DEFINE v == [view EXCEPT !.orgs = q, !.page = 0, !.queryFlag = TRUE,
                               !.defaultQuery = FALSE, !.brs = FALSE]
  <2>1. v \in ViewType(w) /\ v.mounted /\ v.queryFlag /\ v.orgs = q
    BY <1>1, <1>7 DEF ViewType, L!SearchClick
  <2>2. L(w)!HandleSearch(v, "steps", FALSE) /\ asked' = q /\ channel' = channel
    BY <1>7 DEF L!SearchClick
  <2>3. L(w)!Query(v) = q
    <3> HIDE DEF v
    <3> QED BY <2>1 DEF L!Query
  <2> HIDE DEF v
  <2> QED BY <1>3, <2>1, <2>2, <2>3
<1>8. ASSUME NEW v \in ViewType(w), v.mounted, ~v.queryFlag, ~v.defaultQuery,
             v.brs = view.brs,
             NEW next \in BOOLEAN, L(w)!HandleSearch(v, "steps", next), view.mounted,
             counts'.fails = 0, channel' = channel, asked' = asked
      PROVE  AsksWhatIsWanted'
  <2>1. CASE crossed' \/ v.brs
    <3>1. view'.brs = v.brs
      BY <1>8, HandleSearchTypes
    <3> QED BY <2>1, <3>1 DEF AsksWhatIsWanted
  <2>2. CASE ~crossed' /\ ~v.brs
    <3>1. requests = {} /\ ~crossed /\ counts.fails = 0
      BY <1>8, <2>2, HandleSearchTypes
    <3>2. list.query = asked
      BY <1>8, <2>2, <3>1 DEF AsksWhatIsWanted
    <3>3. L(w)!Query(v) = asked'
      BY <1>8, <3>2 DEF L!Query
    <3> QED BY <1>3, <1>8, <3>3
  <2> QED BY <2>1, <2>2
<1>9. ASSUME NEW p \in {view.page - 1, view.page + 1},
             L(w)!TurnPage(p) PROVE AsksWhatIsWanted'
  <2> DEFINE v == [view EXCEPT !.page = p]
             next == requests = {} /\ list.of = channel
                       /\ list.params = [page |-> p, size |-> view.size]
  <2>1. p \in Nat /\ view.mounted /\ channel' = channel /\ asked' = asked
    BY <1>1, <1>9 DEF L!TurnPage, ViewType
  <2>2. v \in ViewType(w) /\ v.mounted /\ ~v.queryFlag /\ ~v.defaultQuery
        /\ v.brs = view.brs
    BY <1>1, <2>1 DEF ViewType, ViewAsks
  <2>3. CASE view.brs
    <3>1. view'.brs
      BY <1>1, <1>9, <2>3 DEF L!TurnPage, ViewType
    <3> QED BY <3>1 DEF AsksWhatIsWanted
  <2>4. CASE ~view.brs
    <3>1. L(w)!HandleSearch(v, "steps", next) /\ next \in BOOLEAN
      BY <1>9, <2>4 DEF L!TurnPage
    <3>2. CASE counts'.fails = 0
      <4> HIDE DEF v, next
      <4> QED BY <1>8, <2>1, <2>2, <3>1, <3>2
    <3> QED BY <3>2 DEF AsksWhatIsWanted
  <2> QED BY <2>3, <2>4
<1>10. ASSUME NEW s \in Lists[w].Sizes, L(w)!HandleRowsChange(s) PROVE AsksWhatIsWanted'
  <2> DEFINE v == [view EXCEPT !.page = 0, !.size = s]
  <2>1. v \in ViewType(w) /\ v.mounted /\ ~v.queryFlag /\ ~v.defaultQuery
        /\ v.brs = view.brs
        /\ view.mounted /\ channel' = channel /\ asked' = asked
    BY <1>1, <1>10 DEF ViewType, L!HandleRowsChange, ViewAsks
  <2>2. L(w)!HandleSearch(v, "steps", FALSE)
    BY <1>10 DEF L!HandleRowsChange
  <2>3. CASE counts'.fails = 0
    <3> HIDE DEF v
    <3> QED BY <1>8, <2>1, <2>2, <2>3
  <2> QED BY <2>3 DEF AsksWhatIsWanted
<1>11. ASSUME requests' # {}, counts'.fails = counts.fails,
              crossed' <=> crossed \/ requests # {},
              asked' = asked, view'.mounted = view.mounted, view'.brs = view.brs,
              Wanted' = Wanted,
              requests = {} /\ counts.fails = 0 /\ header'.selecting = {} /\ OwnTimers' =>
                \A r \in requests' \ requests : r.channel = channel',
              view.mounted => \A r \in requests' \ requests : r.query = list.query,
              view.mounted /\ list.params = Wanted =>
                \A r \in requests' \ requests : r.params = Wanted
       PROVE  AsksWhatIsWanted'
  <2>1. CASE crossed' \/ counts'.fails # 0 \/ ~view'.mounted \/ view'.brs
    BY <2>1 DEF AsksWhatIsWanted
  <2>2. CASE ~(crossed' \/ counts'.fails # 0 \/ ~view'.mounted \/ view'.brs)
    <3>1. requests = {} /\ ~crossed /\ counts.fails = 0 /\ view.mounted /\ ~view.brs
      BY <1>11, <2>2
    <3>2. list.query = asked /\ list.params = Wanted
      BY <3>1 DEF AsksWhatIsWanted
    <3>3. \A r \in requests' :
            /\ r.query = asked' /\ r.params = Wanted'
            /\ header'.selecting = {} /\ OwnTimers' => r.channel = channel'
      BY <1>11, <3>1, <3>2
    <3> QED BY <1>11, <3>3 DEF AsksWhatIsWanted
  <2> QED BY <2>1, <2>2
<1>12. view.mounted => L(w)!Query(view) = list.query
  BY DEF ViewAsks, L!Query
<1>13. \A c, then : /\ L(w)!SearchList(view, c, then, FALSE).channel = c
                    /\ L(w)!SearchList(view, c, then, FALSE).query = L(w)!Query(view)
                    /\ L(w)!SearchList(view, c, then, FALSE).params = Wanted
  BY DEF L!SearchList, L!Request, Wanted
<1>14. \A c : /\ L(w)!HeaderRequest(counts.sent + 1, c).channel = c
              /\ L(w)!HeaderRequest(counts.sent + 1, c).query = list.query
              /\ L(w)!HeaderRequest(counts.sent + 1, c).params = list.params
  BY DEF L!HeaderRequest, L!Request
<1>15. CASE L(w)!Poll
  <2>1. /\ view'.mounted = view.mounted /\ view'.brs = view.brs /\ Wanted' = Wanted
    BY <1>1, <1>15, AskedView DEF L!Poll, Wanted
  <2>2. counts'.fails = counts.fails
    BY <1>1, <1>15, Counting DEF L!Poll
  <2> DEFINE y == L(w)!SearchList(view, channel, "none", FALSE)
  <2>3. requests' = requests \cup {y} /\ requests' # {}
        /\ channel' = channel /\ asked' = asked /\ (crossed' <=> crossed \/ requests # {})
    BY <1>1, <1>15 DEF L!Poll
  <2>4. y.channel = channel /\ y.query = L(w)!Query(view) /\ y.params = Wanted
    BY <1>13
  <2> HIDE DEF y
  <2> QED BY <1>11, <1>12, <2>1, <2>2, <2>3, <2>4
<1>16. CASE L(w)!HeaderSync
  <2>1. counts'.fails = counts.fails /\ view' = view /\ Wanted' = Wanted
    BY <1>1, <1>16, Counting DEF L!HeaderSync, Wanted
  <2>2. channel' = channel /\ header' = header /\ asked' = asked
        /\ (crossed' <=> crossed \/ requests # {})
    BY <1>1, <1>16 DEF L!HeaderSync
  <2>3. PICK c \in Lists[w].Channels :
          /\ requests' = requests \cup {L(w)!HeaderRequest(counts.sent + 1, c)}
          /\ c \in {header.state, channel} \/ \E t \in header.timers : c = t[2]
    BY <1>1, <1>16, HeaderAsks
  <2>4. requests = {} /\ counts.fails = 0 /\ OwnTimers' => c = channel'
    BY <2>2, <2>3 DEF HeaderFollows, OwnTimers
  <2> QED BY <1>11, <1>14, <2>1, <2>2, <2>3, <2>4
<1>17. ASSUME NEW c \in Lists[w].Channels, L(w)!SelectChannel(c) PROVE AsksWhatIsWanted'
  <2>1. counts'.fails = counts.fails /\ view' = view /\ Wanted' = Wanted
    BY <1>1, <1>17, Counting DEF L!SelectChannel, Wanted
  <2>2. requests' = requests \cup {L(w)!HeaderRequest(counts.sent + 1, c)} /\ requests' # {}
        /\ asked' = asked /\ (crossed' <=> crossed \/ requests # {})
        /\ header'.selecting # {}
    BY <1>1, <1>17 DEF L!SelectChannel, HeaderType
  <2> QED BY <1>11, <1>14, <2>1, <2>2
<1>18. ASSUME NEW c \in Lists[w].Channels, L(w)!ChannelChanged(c) PROVE AsksWhatIsWanted'
  <2> DEFINE h == L(w)!HeaderRequest(counts.sent + 1, c)
             y == L(w)!SearchList(view, c, "none", FALSE)
             z == [y EXCEPT !.id = counts.sent + 2]
  <2>1. counts'.fails = counts.fails /\ channel' = c /\ asked' = asked
        /\ (crossed' <=> crossed \/ requests # {})
    BY <1>1, <1>18 DEF L!ChannelChanged, Counters
  <2>2. view'.mounted = view.mounted /\ view'.brs = view.brs /\ Wanted' = Wanted
    <3>1. CASE view.search
      <4>1. view' = [L(w)!Asked(view) EXCEPT !.polling = TRUE]
            /\ L(w)!Asked(view) \in ViewType(w)
        BY <1>1, <1>18, <3>1, AskedView DEF L!ChannelChanged
      <4> QED BY <1>1, <4>1, AskedView DEF Wanted, ViewType
    <3>2. CASE ~view.search
      BY <1>18, <3>2 DEF L!ChannelChanged, Wanted
    <3> QED BY <3>1, <3>2
  <2>3. z.channel = c /\ z.query = L(w)!Query(view) /\ z.params = Wanted
    <3>1. y \in ListRequests(w)
      BY <1>1, SearchSent
    <3>2. y.channel = c /\ y.query = L(w)!Query(view) /\ y.params = Wanted
      BY <1>13
    <3> HIDE DEF y
    <3> QED BY <3>1, <3>2 DEF ListRequests
  <2>4. requests' \subseteq requests \cup {h, z} /\ requests' # {}
    <3> HIDE DEF h, z
    <3>1. view.search => requests' = requests \cup {h, z}
      BY <1>18 DEF L!ChannelChanged, h, z
    <3>2. ~view.search => requests' = requests \cup {h}
      BY <1>18 DEF L!ChannelChanged, h
    <3> QED BY <3>1, <3>2
  <2>5. h.channel = c /\ h.query = list.query /\ h.params = list.params
    BY <1>14
  <2> HIDE DEF h, y, z
  <2> QED BY <1>11, <1>12, <2>1, <2>2, <2>3, <2>4, <2>5
<1>19. ASSUME counts'.fails = 0 => counts.fails = 0, crossed' = crossed, asked' = asked,
              view' = view,
              list' = list, channel' = channel,
              header'.selecting = header.selecting, OwnTimers' => OwnTimers,
              requests' = {} => requests = {},
              \A x \in requests' : \E y \in requests :
                 x.query = y.query /\ x.params = y.params /\ x.channel = y.channel
       PROVE  AsksWhatIsWanted'
  BY <1>19 DEF AsksWhatIsWanted, Wanted
<1>20. CASE L(w)!Insert
  BY <1>19, <1>20 DEF L!Insert, OwnTimers
<1>21. CASE \E r \in ranges : L(w)!RangeAnswer(r)
  BY <1>19, <1>21 DEF L!RangeAnswer, OwnTimers
<1>22. CASE \E r \in ranges : L(w)!RangeFail(r)
  <2>1. counts'.fails # 0
    BY <1>1, <1>22, CountedUp DEF L!RangeFail
  <2> QED BY <2>1 DEF AsksWhatIsWanted
<1>23. CASE \E r \in requests : L(w)!Fail(r)
  <2>1. counts'.fails # 0
    BY <1>1, <1>23, CountedUp DEF L!Fail
  <2> QED BY <2>1 DEF AsksWhatIsWanted
<1>24. ASSUME NEW a \in 0 .. Lists[w].Limit + 1, NEW b \in 0 .. Lists[w].Limit + 1,
              L(w)!RangeSubmit(a, b)
       PROVE  AsksWhatIsWanted'
  <2>1. view'.brs
    BY <1>1, <1>24 DEF L!RangeSubmit, ViewType
  <2> QED BY <2>1 DEF AsksWhatIsWanted
<1>25. ASSUME NEW r \in requests,
              L(w)!CountRows(r) \/ L(w)!ReadRows(r) PROVE AsksWhatIsWanted'
  <2>1. \A x \in requests' : \E y \in requests :
          x.query = y.query /\ x.params = y.params /\ x.channel = y.channel
    BY <1>25, ServedRequests
  <2>2. requests' # {}
    BY <1>25 DEF L!CountRows, L!ReadRows
  <2>3. /\ counts' = counts /\ crossed' = crossed /\ asked' = asked /\ view' = view
        /\ list' = list /\ channel' = channel /\ header' = header
    BY <1>25 DEF L!CountRows, L!ReadRows
  <2> QED BY <1>19, <2>1, <2>2, <2>3 DEF OwnTimers
<1>26. CASE L(w)!ClearSearch
  BY <1>1, <1>26 DEF L!ClearSearch, AsksWhatIsWanted, Wanted, ViewType, OwnTimers
<1>27. ASSUME NEW r \in requests, L(w)!Deliver(r) PROVE AsksWhatIsWanted'
  <2>1. /\ list'.query = r.query /\ list'.params = r.params /\ list'.of = r.channel
        /\ channel' = channel /\ header'.selecting = header.selecting
        /\ header'.timers = header.timers /\ asked' = asked /\ counts' = counts
        /\ crossed' = crossed
    BY <1>1, <1>27, ListRange DEF L!Deliver, L!StoreList, HeaderType
  <2>2. view'.mounted = view.mounted /\ view'.brs = view.brs /\ Wanted' = Wanted
    BY <1>1, <1>27, ListRange DEF L!Deliver, L!Searched, Wanted, ViewType
  <2>3. \A x \in requests' : \E y \in requests :
          x.query = y.query /\ x.params = y.params /\ x.channel = y.channel
    BY <1>1, <1>27, ListRange DEF L!Deliver, ListRequests
  <2> QED BY <1>27, <2>1, <2>2, <2>3 DEF AsksWhatIsWanted, OwnTimers
<1>28. ASSUME NEW x \in header.waiting, L(w)!SetInterval(x) PROVE AsksWhatIsWanted'
  <2>1. header'.selecting = header.selecting /\ header'.timers = header.timers \cup {x}
        /\ channel' = channel
    BY <1>1, <1>28 DEF L!SetInterval, HeaderType
  <2>2. OwnTimers' => OwnTimers
    BY <2>1 DEF OwnTimers
  <2> QED BY <1>19, <1>28, <2>1, <2>2 DEF L!SetInterval
<1> QED BY <1>4, <1>5, <1>6, <1>7, <1>9, <1>10, <1>15, <1>16, <1>17, <1>18, <1>20, <1>21,
   <1>22, <1>23, <1>24, <1>25, <1>26, <1>27, <1>28 DEF L!Next, L!Answer

-----------------------------------------------------------------------------
(* The header.                                                             *)

(* The header's state follows the store; before the first selection all of *)
(* it is of the first channel.                                             *)
LEMMA HeaderSteps ==
  ASSUME NEW w, L(w)!ListParameters, ListTypes(w), HeaderFollows, HeaderAtFirst(w),
         L(w)!Next
  PROVE  HeaderFollows' /\ HeaderAtFirst(w)'
<1>1. counts \in Counters /\ header \in HeaderType(w)
  BY DEF ListTypes
<1>2. ASSUME header' = header, channel' = channel,
             counts'.selections = counts.selections,
             requests' = {} /\ counts'.fails = 0 => requests = {} /\ counts.fails = 0
      PROVE  HeaderFollows' /\ HeaderAtFirst(w)'
  BY <1>2 DEF HeaderFollows, HeaderAtFirst
<1>3. ASSUME NEW v, NEW k \in {"steps", "ticks"}, NEW next, L(w)!HandleSearch(v, k, next)
      PROVE  counts'.selections = counts.selections /\ requests' # {}
  <2>1. requests' # {}
    BY <1>3 DEF L!HandleSearch
  <2>2. counts' = [L(w)!Count(k) EXCEPT !.sent = @ + 1]
    BY <1>3 DEF L!HandleSearch
  <2> QED BY <1>1, <2>1, <2>2, Counting
<1>4. CASE L(w)!BlocksMount
  <2>1. counts'.selections = counts.selections
    BY <1>1, <1>4 DEF L!BlocksMount, Counters
  <2> QED BY <1>2, <1>4, <2>1 DEF L!BlocksMount
<1>5. CASE L(w)!TransactionsMount
  BY <1>2, <1>3, <1>5 DEF L!TransactionsMount
<1>6. CASE L(w)!Unmount
  <2>1. counts'.selections = counts.selections /\ counts'.fails = counts.fails
    BY <1>1, <1>6, Counting DEF L!Unmount
  <2>2. requests' = {} => requests = {}
    BY <1>6 DEF L!Unmount
  <2> QED BY <1>2, <1>6, <2>1, <2>2 DEF L!Unmount
<1>7. CASE \E q \in SUBSET Lists[w].Orgs : L(w)!SearchClick(q)
  BY <1>2, <1>3, <1>7 DEF L!SearchClick
<1>8. CASE L(w)!ClearSearch \/ L(w)!Insert \/ \E r \in ranges : L(w)!RangeAnswer(r)
  BY <1>2, <1>8 DEF L!ClearSearch, L!Insert, L!RangeAnswer
<1>9. ASSUME NEW p, L(w)!TurnPage(p) PROVE HeaderFollows' /\ HeaderAtFirst(w)'
  <2>1. CASE view.brs
    <3>1. /\ counts' = L(w)!Count("steps") /\ requests' = requests /\ header' = header
          /\ channel' = channel
      BY <1>9, <2>1 DEF L!TurnPage
    <3>2. counts'.selections = counts.selections /\ counts'.fails = counts.fails
      BY <1>1, <3>1, Counting
    <3> QED BY <1>2, <3>1, <3>2
  <2>2. CASE ~view.brs
    BY <1>2, <1>3, <1>9, <2>2 DEF L!TurnPage
  <2> QED BY <2>1, <2>2
<1>10. CASE \E s \in Lists[w].Sizes : L(w)!HandleRowsChange(s)
  BY <1>2, <1>3, <1>10 DEF L!HandleRowsChange
<1>11. CASE L(w)!Poll
  <2>1. counts'.selections = counts.selections
    BY <1>1, <1>11, Counting DEF L!Poll
  <2> QED BY <1>2, <1>11, <2>1 DEF L!Poll
<1>12. CASE L(w)!HeaderSync
  <2>1. counts'.selections = counts.selections
    BY <1>1, <1>12, Counting DEF L!HeaderSync
  <2> QED BY <1>2, <1>12, <2>1 DEF L!HeaderSync
<1>13. ASSUME NEW c, L(w)!SelectChannel(c) PROVE HeaderFollows' /\ HeaderAtFirst(w)'
  <2>1. counts'.selections # 0
    BY <1>1, <1>13, CountedUp DEF L!SelectChannel
  <2>2. requests' # {}
    BY <1>13 DEF L!SelectChannel
  <2> QED BY <2>1, <2>2 DEF HeaderFollows, HeaderAtFirst
<1>14. ASSUME NEW c, L(w)!ChannelChanged(c) PROVE HeaderFollows' /\ HeaderAtFirst(w)'
  <2>1. counts'.selections = counts.selections
    BY <1>1, <1>14 DEF L!ChannelChanged, Counters
  <2>2. counts.selections # 0
    BY <1>14 DEF L!ChannelChanged, HeaderAtFirst
  <2>3. requests' # {}
    BY <1>14 DEF L!ChannelChanged
  <2> QED BY <2>1, <2>2, <2>3 DEF HeaderFollows, HeaderAtFirst
<1>15. ASSUME NEW x \in header.waiting, L(w)!SetInterval(x)
       PROVE  HeaderFollows' /\ HeaderAtFirst(w)'
  <2>1. header'.state = header.state /\ channel' = channel /\ counts' = counts
        /\ requests' = requests
    BY <1>1, <1>15 DEF L!SetInterval, HeaderType
  <2>2. counts.selections # 0
    BY <1>15 DEF HeaderAtFirst
  <2> QED BY <2>1, <2>2 DEF HeaderFollows, HeaderAtFirst
<1>16. CASE \E r \in requests : L(w)!CountRows(r) \/ L(w)!ReadRows(r)
  <2>1. /\ counts' = counts /\ channel' = channel /\ header' = header /\ requests' # {}
    BY <1>16 DEF L!CountRows, L!ReadRows
  <2> QED BY <1>2, <2>1
<1>17. ASSUME NEW r \in requests, L(w)!Deliver(r)
       PROVE  HeaderFollows' /\ HeaderAtFirst(w)'
  <2>1. /\ counts' = counts /\ channel' = channel /\ header'.state = channel
        /\ header'.selecting = header.selecting /\ header'.timers = header.timers
        /\ header'.waiting = header.waiting
    BY <1>1, <1>17 DEF L!Deliver, HeaderType
  <2> QED BY <2>1 DEF HeaderFollows, HeaderAtFirst
<1>18. CASE (\E r \in requests : L(w)!Fail(r)) \/ (\E r \in ranges : L(w)!RangeFail(r))
  <2>1. /\ counts' = L(w)!Count("fails") /\ channel' = channel /\ header' = header
    BY <1>18 DEF L!Fail, L!RangeFail
  <2>2. counts'.fails # 0 /\ counts'.selections = counts.selections
    BY <1>1, <2>1, Counting, CountedUp
  <2> QED BY <1>2, <2>1, <2>2
<1>19. CASE \E a, b \in 0 .. Lists[w].Limit + 1 : L(w)!RangeSubmit(a, b)
  <2>1. /\ counts' = L(w)!Count("ranges") /\ channel' = channel /\ header' = header
        /\ requests' = requests
    BY <1>19 DEF L!RangeSubmit
  <2>2. counts'.fails = counts.fails /\ counts'.selections = counts.selections
    BY <1>1, <2>1, Counting
  <2> QED BY <1>2, <2>1, <2>2
<1> QED BY <1>4, <1>5, <1>6, <1>7, <1>8, <1>9, <1>10, <1>11, <1>12, <1>13, <1>14, <1>15,
   <1>16, <1>17, <1>18, <1>19 DEF L!Next, L!Answer

-----------------------------------------------------------------------------
(* The number of pages.                                                    *)

(* The number of pages of no entries is zero, of others it is not.         *)
LEMMA CeilZero ==
  ASSUME NEW w, NEW a \in Nat, NEW b \in Nat \ {0}, L(w)!Ceil(a, b) = 0
  PROVE  a = 0
<1>1. (a + b - 1) \div b = 0
  BY DEF L!Ceil
<1> DEFINE k == a + b - 1
<1>2. k \in Nat /\ b \in Nat /\ b > 0
  OBVIOUS
<1>3. k = b * (k \div b) + (k % b) /\ k % b < b
  <2> HIDE DEF k
  <2> QED BY <1>2
<1>4. k < b
  BY <1>1, <1>2, <1>3
<1> QED BY <1>4

(* The number of pages is that of the entries, if there are any.           *)
LEMMA PagesCountedSteps ==
  ASSUME NEW w, L(w)!ListParameters, ListTypes(w), ViewAsks(w), AsksWhatIsWanted,
         HeaderFollows, HeaderAtFirst(w), PagesCounted(w), L(w)!Next
  PROVE  PagesCounted(w)'
<1>1. /\ counts \in Counters /\ channel \in Lists[w].Channels
      /\ requests \subseteq ListRequests(w)
      /\ view \in ViewType(w) /\ crossed \in BOOLEAN /\ list \in ListType(w)
      /\ header \in HeaderType(w)
  BY DEF ListTypes
<1> USE DEF CountFits
<1>2. ASSUME NEW r, requests' = requests \cup {r}, crossed' <=> crossed \/ requests # {},
             counts.selections = 0 => r.channel = channel, r.stage = "sent", r.pages = NaN,
             Lists[w].View = "transactions" /\ requests = {} /\ ~crossed /\ counts.fails = 0
             /\ r.params.page # 1 =>
               r.query = list.query /\ r.params.size = list.params.size,
             counts'.fails = counts.fails, counts'.selections = counts.selections,
               db' = db, channel' = channel,
             list' = list
      PROVE  PagesCounted(w)'
  <2>1. CASE ~(Lists[w].View = "transactions" /\ ~crossed' /\ counts'.fails = 0
               /\ counts'.selections = 0)
    BY <2>1 DEF PagesCounted
  <2>2. CASE Lists[w].View = "transactions" /\ ~crossed' /\ counts'.fails = 0
             /\ counts'.selections = 0
    <3>1. requests = {} /\ ~crossed /\ counts.fails = 0 /\ counts.selections = 0
          /\ requests' = {r}
      BY <1>2, <2>2
    <3>2. /\ channel = Lists[w].First /\ list.of = Lists[w].First
          /\ db = Lists[w].Stored
             /\ L(w)!Entries(Lists[w].Stored, Lists[w].First, list.query) # {} =>
               CountFits(w, list.query, list.params, list.pages)
      BY <2>2, <3>1 DEF PagesCounted
    <3> QED BY <1>2, <2>2, <3>1, <3>2 DEF PagesCounted
  <2> QED BY <2>1, <2>2
<1>3. ASSUME NEW v \in ViewType(w), NEW k \in {"steps", "ticks"}, NEW next \in BOOLEAN,
             L(w)!HandleSearch(v, k, next), db' = db, channel' = channel,
             list' = list,
             Lists[w].View = "transactions" /\ requests = {} /\ ~crossed /\ counts.fails = 0
             /\ v.page # 0 =>
               L(w)!Query(v) = list.query /\ v.size = list.params.size
      PROVE  PagesCounted(w)'
  <2> DEFINE r == L(w)!SearchList(v, channel, "search", next)
  <2>1. requests' = requests \cup {r} /\ (crossed' <=> crossed \/ requests # {})
    BY <1>1, <1>3 DEF L!HandleSearch
  <2>2. counts'.fails = counts.fails /\ counts'.selections = counts.selections
    BY <1>3, HandleSearchTypes
  <2>3. /\ r.channel = channel /\ r.stage = "sent" /\ r.pages = NaN
        /\ r.query = L(w)!Query(v)
        /\ r.params = [page |-> v.page + 1, size |-> v.size]
    BY DEF L!SearchList, L!Request
  <2>4. r.params.page # 1 => v.page # 0
    BY <2>3 DEF ViewType
  <2> HIDE DEF r
  <2> QED BY <1>2, <1>3, <2>1, <2>2, <2>3, <2>4
<1>4. ASSUME NEW r \in ListRequests(w), requests' = requests \cup {r},
             crossed' <=> crossed \/ requests # {},
             counts.selections = 0 => r.channel = channel, r.stage = "sent",
             r.pages = NaN, Lists[w].View = "transactions" =>
               r.query = list.query
               /\ (r.params = list.params \/ (r.params = Wanted /\ view.mounted)),
             counts'.fails = counts.fails, counts'.selections = counts.selections,
               db' = db, channel' = channel,
             list' = list
      PROVE  PagesCounted(w)'
  <2>1. Lists[w].View = "transactions" /\ requests = {} /\ ~crossed /\ counts.fails = 0 =>
          r.query = list.query /\ r.params.size = list.params.size
    <3>1. Lists[w].View = "transactions" => ~view.brs
      BY DEF ViewAsks
    <3> QED BY <1>4, <3>1 DEF AsksWhatIsWanted
  <2> QED BY <1>2, <1>4, <2>1
<1>5. CASE L(w)!BlocksMount
  <2>1. Lists[w].View = "blocks"
    BY <1>5 DEF L!BlocksMount
  <2> QED BY <2>1 DEF PagesCounted
<1>6. CASE L(w)!TransactionsMount
  <2> DEFINE v == [view EXCEPT !.mounted = TRUE]
  <2>1. v \in ViewType(w) /\ v.page = 0
    <3>1. view.page = 0
      BY <1>6 DEF L!TransactionsMount, ViewAsks, L!Idle
    <3> QED BY <1>1, <3>1 DEF ViewType
  <2>2. L(w)!HandleSearch(v, "ticks", FALSE) /\ db' = db /\ channel' = channel
        /\ list' = list
    BY <1>6 DEF L!TransactionsMount
  <2> HIDE DEF v
  <2> QED BY <1>3, <2>1, <2>2
<1>7. ASSUME NEW q \in SUBSET Lists[w].Orgs, L(w)!SearchClick(q) PROVE PagesCounted(w)'
  <2> DEFINE v == [view EXCEPT !.orgs = q, !.page = 0, !.queryFlag = TRUE,
                               !.defaultQuery = FALSE, !.brs = FALSE]
  <2>1. v \in ViewType(w) /\ v.page = 0
    BY <1>1 DEF ViewType
  <2>2. L(w)!HandleSearch(v, "steps", FALSE) /\ db' = db /\ channel' = channel
        /\ list' = list
    BY <1>7 DEF L!SearchClick
  <2> HIDE DEF v
  <2> QED BY <1>3, <2>1, <2>2
<1>8. ASSUME NEW s \in Lists[w].Sizes, L(w)!HandleRowsChange(s) PROVE PagesCounted(w)'
  <2> DEFINE v == [view EXCEPT !.page = 0, !.size = s]
  <2>1. v \in ViewType(w) /\ v.page = 0
    BY <1>1 DEF ViewType
  <2>2. L(w)!HandleSearch(v, "steps", FALSE) /\ db' = db /\ channel' = channel
        /\ list' = list
    BY <1>8 DEF L!HandleRowsChange
  <2> HIDE DEF v
  <2> QED BY <1>3, <2>1, <2>2
<1>9. ASSUME counts'.fails = 0 => counts.fails = 0, counts'.selections = counts.selections,
             crossed' = crossed,
             db' = db, channel' = channel, list' = list,
             requests' = requests
      PROVE  PagesCounted(w)'
  BY <1>9 DEF PagesCounted
<1>10. ASSUME NEW p \in {view.page - 1, view.page + 1},
              L(w)!TurnPage(p) PROVE PagesCounted(w)'
  <2> DEFINE v == [view EXCEPT !.page = p]
             next == requests = {} /\ list.of = channel
                       /\ list.params = [page |-> p, size |-> view.size]
  <2>1. p \in Nat /\ view.mounted /\ db' = db /\ channel' = channel
        /\ list' = list
    BY <1>1, <1>10 DEF L!TurnPage, ViewType
  <2>2. v \in ViewType(w) /\ ~v.queryFlag /\ ~v.defaultQuery /\ v.size = view.size
    BY <1>1, <2>1 DEF ViewType, ViewAsks
  <2>3. CASE view.brs
    <3>1. Lists[w].View # "transactions"
      BY <2>3 DEF ViewAsks
    <3> QED BY <3>1 DEF PagesCounted
  <2>4. CASE ~view.brs
    <3>1. L(w)!HandleSearch(v, "steps", next) /\ next \in BOOLEAN
      BY <1>10, <2>4 DEF L!TurnPage
    <3>2. requests = {} /\ ~crossed /\ counts.fails = 0 =>
            L(w)!Query(v) = list.query /\ v.size = list.params.size
      <4>1. L(w)!Query(v) = list.query
        <5> HIDE DEF v
        <5> QED BY <2>2 DEF L!Query
      <4> QED BY <2>1, <2>2, <2>4, <4>1 DEF AsksWhatIsWanted, Wanted
    <3> HIDE DEF v, next
    <3> QED BY <1>3, <2>1, <2>2, <3>1, <3>2
  <2> QED BY <2>3, <2>4
<1>11. CASE L(w)!Poll
  <2> DEFINE r == L(w)!SearchList(view, channel, "none", FALSE)
  <2>1. view.mounted
    BY <1>11 DEF L!Poll, ViewAsks, L!Idle
  <2>2. r \in ListRequests(w)
    BY <1>1, SearchSent
  <2>3. /\ r.channel = channel /\ r.stage = "sent" /\ r.pages = NaN /\ r.query = list.query
        /\ r.params = Wanted
    BY <2>1 DEF L!SearchList, L!Request, L!Query, Wanted, ViewAsks
  <2>4. counts'.fails = counts.fails /\ counts'.selections = counts.selections
    BY <1>1, <1>11, Counting DEF L!Poll
  <2>5. requests' = requests \cup {r} /\ (crossed' <=> crossed \/ requests # {}) /\ db' = db
        /\ channel' = channel /\ list' = list
    BY <1>1, <1>11 DEF L!Poll
  <2>6. r.params = list.params \/ (r.params = Wanted /\ view.mounted)
    BY <2>1, <2>3
  <2> HIDE DEF r
  <2> QED BY <1>4, <2>2, <2>3, <2>4, <2>5, <2>6
<1>12. CASE L(w)!HeaderSync
  <2>0. PICK c \in Lists[w].Channels :
          /\ requests' = requests \cup {L(w)!HeaderRequest(counts.sent + 1, c)}
          /\ c \in {header.state, channel} \/ \E t \in header.timers : c = t[2]
    BY <1>1, <1>12, HeaderAsks
  <2> DEFINE r == L(w)!HeaderRequest(counts.sent + 1, c)
  <2>1. r \in ListRequests(w)
    BY <1>1, HeaderSent
  <2>2. /\ r.channel = c /\ r.stage = "sent" /\ r.pages = NaN /\ r.query = list.query
        /\ r.params = list.params
    BY DEF L!HeaderRequest, L!Request
  <2>6. counts.selections = 0 => c = channel
    BY <2>0 DEF HeaderAtFirst
  <2>3. counts'.fails = counts.fails /\ counts'.selections = counts.selections
    BY <1>1, <1>12, Counting DEF L!HeaderSync
  <2>4. requests' = requests \cup {r} /\ (crossed' <=> crossed \/ requests # {}) /\ db' = db
        /\ channel' = channel /\ list' = list
    BY <1>1, <1>12, <2>0 DEF L!HeaderSync
  <2>5. r.params = list.params \/ (r.params = Wanted /\ view.mounted)
    BY <2>2
  <2> HIDE DEF r
  <2> QED BY <1>4, <2>1, <2>2, <2>3, <2>4, <2>5, <2>6
<1>13. ASSUME NEW c \in Lists[w].Channels, L(w)!SelectChannel(c) PROVE PagesCounted(w)'
  <2>1. counts'.selections # 0
    BY <1>1, <1>13, CountedUp DEF L!SelectChannel
  <2> QED BY <2>1 DEF PagesCounted
<1>14. ASSUME NEW c \in Lists[w].Channels, L(w)!ChannelChanged(c) PROVE PagesCounted(w)'
  <2>1. header.selecting # {} /\ counts'.selections = counts.selections
    BY <1>1, <1>14 DEF L!ChannelChanged, Counters
  <2> QED BY <2>1 DEF PagesCounted, HeaderAtFirst
<1>15. CASE L(w)!Unmount
  <2>1. counts'.fails = counts.fails /\ counts'.selections = counts.selections
    BY <1>1, <1>15, Counting DEF L!Unmount
  <2>2. \A r \in requests' : \E x \in requests :
          /\ r.channel = x.channel /\ r.query = x.query /\ r.params = x.params
          /\ r.stage = x.stage /\ r.pages = x.pages
          /\ requests = {x} => requests' = {r}
    <3>1. \A x \in requests : LET r == [x EXCEPT !.then = "none"]
                               IN  /\ r.channel = x.channel /\ r.query = x.query
                                   /\ r.params = x.params /\ r.stage = x.stage
                                   /\ r.pages = x.pages
      BY <1>1 DEF ListRequests
    <3>2. requests' = {[x EXCEPT !.then = "none"] : x \in requests}
      BY <1>15 DEF L!Unmount
    <3> SUFFICES ASSUME NEW r \in requests'
                 PROVE  \E x \in requests :
                          /\ r.channel = x.channel /\ r.query = x.query
                          /\ r.params = x.params /\ r.stage = x.stage /\ r.pages = x.pages
                          /\ requests = {x} => requests' = {r}
      OBVIOUS
    <3>3. PICK x \in requests : r = [x EXCEPT !.then = "none"]
      BY <3>2
    <3>4. requests = {x} => requests' = {r}
      BY <3>2, <3>3
    <3>5. /\ r.channel = x.channel /\ r.query = x.query /\ r.params = x.params
          /\ r.stage = x.stage /\ r.pages = x.pages
      BY <3>1, <3>3
    <3> QED BY <3>4, <3>5
  <2>3. /\ db' = db /\ channel' = channel /\ list' = list
        /\ crossed' = crossed
    BY <1>15 DEF L!Unmount
  <2> QED BY <2>1, <2>2, <2>3 DEF PagesCounted
<1>16. CASE L(w)!ClearSearch \/ (\E r \in ranges : L(w)!RangeAnswer(r))
  BY <1>9, <1>16 DEF L!ClearSearch, L!RangeAnswer
<1>17. CASE \E r \in ranges : L(w)!RangeFail(r)
  <2>1. counts'.fails # 0
    BY <1>1, <1>17, CountedUp DEF L!RangeFail
  <2> QED BY <2>1 DEF PagesCounted
<1>18. CASE \E r \in requests : L(w)!Fail(r)
  <2>1. counts'.fails # 0
    BY <1>1, <1>18, CountedUp DEF L!Fail
  <2> QED BY <2>1 DEF PagesCounted
<1>19. ASSUME NEW a \in 0 .. Lists[w].Limit + 1, NEW b \in 0 .. Lists[w].Limit + 1,
              L(w)!RangeSubmit(a, b)
       PROVE  PagesCounted(w)'
  <2>1. Lists[w].View = "blocks"
    BY <1>19 DEF L!RangeSubmit
  <2> QED BY <2>1 DEF PagesCounted
<1>20. CASE L(w)!Insert
  <2>1. db' # Lists[w].Stored
    BY <1>20 DEF L!Insert, ListTypes
  <2> QED BY <1>20, <2>1 DEF L!Insert, PagesCounted
<1>21. ASSUME NEW r \in requests,
              L(w)!CountRows(r) \/ L(w)!ReadRows(r) PROVE PagesCounted(w)'
  <2>1. /\ counts' = counts /\ crossed' = crossed /\ db' = db /\ channel' = channel
        /\ list' = list
    BY <1>21 DEF L!CountRows, L!ReadRows
  <2>2. CASE ~(Lists[w].View = "transactions" /\ ~crossed /\ counts.fails = 0
               /\ counts.selections = 0)
    BY <2>1, <2>2 DEF PagesCounted
  <2>3. CASE Lists[w].View = "transactions" /\ ~crossed /\ counts.fails = 0
             /\ counts.selections = 0
    <3>1. requests = {r}
      BY <2>3 DEF PagesCounted
    <3>2. PICK x : requests' = {x}
      <4>1. CASE L(w)!CountRows(r)
        BY <3>1, <4>1 DEF L!CountRows
      <4>2. CASE L(w)!ReadRows(r)
        BY <3>1, <4>2 DEF L!ReadRows
      <4> QED BY <1>21, <4>1, <4>2
    <3>3. x \notin requests
      <4>1. r \in ListRequests(w)
        BY <1>1
      <4>2. CASE L(w)!CountRows(r)
        <5>1. x.stage = "counted" /\ r.stage = "sent"
          BY <3>1, <3>2, <4>1, <4>2 DEF L!CountRows, ListRequests
        <5> QED BY <3>1, <5>1
      <4>3. CASE L(w)!ReadRows(r)
        <5>1. x.stage = "read" /\ r.stage = "counted"
          <6>1. PICK P : requests' = (requests \ {r}) \cup
                                       {[r EXCEPT !.stage = "read", !.rows = P]}
            BY <4>3 DEF L!ReadRows
          <6> QED BY <3>1, <3>2, <4>1, <4>3, <6>1 DEF L!ReadRows, ListRequests
        <5> QED BY <3>1, <5>1
      <4> QED BY <1>21, <4>2, <4>3
    <3>4. /\ x.channel = r.channel /\ x.query = r.query /\ x.params = r.params
          /\ \/ r.stage = "sent" /\ x.pages = IF r.params.page = 1
                              THEN L(w)!Ceil(L(w)!RowCount(db, r.channel, r.query),
                                r.params.size) ELSE NaN
             \/ r.stage # "sent" /\ x.pages = r.pages
      <4>1. x \in requests'
        BY <3>2
      <4>2. /\ x.channel = r.channel /\ x.query = r.query /\ x.params = r.params
            /\ x.next = r.next /\ x.then = r.then
            /\ \/ /\ L(w)!CountRows(r) /\ r.stage = "sent" /\ x.stage = "counted"
                  /\ x.rows = r.rows
                  /\ x.pages = IF r.params.page = 1
                               THEN L(w)!Ceil(L(w)!RowCount(db, r.channel, r.query),
                                              r.params.size)
                               ELSE NaN
               \/ /\ r.stage = "counted" /\ x.stage = "read" /\ x.pages = r.pages
                  /\ \E s \in L(w)!Orders(L(w)!Entries(db, r.channel, r.query)) :
                       x.rows = L(w)!Page(s, r.params)
        BY <1>21, <3>3, <4>1, ServedRequests
      <4> QED BY <4>2
    <3>5. r.channel = Lists[w].First
      BY <2>3 DEF PagesCounted
    <3>6. L(w)!RowCount(db, Lists[w].First, r.query) =
            Cardinality(L(w)!Entries(db, Lists[w].First, r.query))
      BY <2>3, ListCount DEF L!RowCount, L!TxCount
    <3>7. /\ r.params.page = 1
             /\ db = Lists[w].Stored => CountFits(w, x.query, x.params, x.pages)
          /\ r.params.page # 1 => /\ x.pages = NaN /\ x.query = list.query
                                  /\ x.params.size = list.params.size
      BY <2>3, <3>4, <3>5, <3>6 DEF PagesCounted
    <3> QED BY <2>1, <2>3, <3>2, <3>4, <3>5, <3>7 DEF PagesCounted
  <2> QED BY <2>2, <2>3
<1>22. ASSUME NEW r \in requests, L(w)!Deliver(r) PROVE PagesCounted(w)'
  <2>1. /\ counts' = counts /\ crossed' = crossed /\ db' = db /\ channel' = channel
        /\ list'.of = r.channel /\ list'.query = r.query /\ list'.params = r.params
        /\ list'.pages = IF r.pages \in {0, NaN} THEN list.pages ELSE r.pages
    BY <1>22, ListRange DEF L!Deliver, L!StoreList
  <2>2. CASE ~(Lists[w].View = "transactions" /\ ~crossed /\ counts.fails = 0
               /\ counts.selections = 0)
    BY <2>1, <2>2 DEF PagesCounted
  <2>3. CASE Lists[w].View = "transactions" /\ ~crossed /\ counts.fails = 0
             /\ counts.selections = 0
    <3>1. requests = {r} /\ requests' = {}
      BY <1>22, <2>3, ListRange DEF PagesCounted, L!Deliver
    <3>2. /\ channel = Lists[w].First /\ r.channel = Lists[w].First
          /\ db = Lists[w].Stored
             /\ L(w)!Entries(Lists[w].Stored, Lists[w].First, list.query) # {} =>
               CountFits(w, list.query, list.params, list.pages)
          /\ r.params.page = 1
             /\ db = Lists[w].Stored => CountFits(w, r.query, r.params, r.pages)
          /\ r.params.page # 1 => /\ r.pages = NaN /\ r.query = list.query
                                  /\ r.params.size = list.params.size
      BY <1>22, <2>3, ListRange DEF PagesCounted, L!Deliver
    <3>3. ASSUME db = Lists[w].Stored,
                 L(w)!Entries(Lists[w].Stored, Lists[w].First, r.query) # {}
          PROVE  CountFits(w, r.query, r.params, list'.pages)
      <4>1. CASE r.params.page = 1
        <5> DEFINE E == L(w)!Entries(Lists[w].Stored, Lists[w].First, r.query)
        <5>1. IsFiniteSet(E) /\ Cardinality(E) \in Nat
          <6>1. IsFiniteSet(Lists[w].Stored) /\ Lists[w].Stored \subseteq L(w)!Row
            BY ListFinite DEF L!ListParameters
          <6> QED BY <6>1, EntriesFinite
        <5>2. Cardinality(E) # 0
          BY <3>3, <5>1, FS_EmptySet
        <5>3. r.params.size \in Nat \ {0}
          BY <1>1, ListFinite DEF ListRequests, L!PageParams, L!ListParameters
        <5>4. r.pages = L(w)!Ceil(Cardinality(E), r.params.size)
          BY <3>2, <3>3, <4>1
        <5>5. r.pages \in Nat /\ r.pages # 0
          <6> HIDE DEF E
          <6> QED BY <5>1, <5>2, <5>3, <5>4, CeilNat, CeilZero
        <5>6. r.pages # NaN
          BY <5>5, ListFinite DEF L!ListParameters
        <5> QED BY <2>1, <5>4, <5>5, <5>6
      <4>2. CASE r.params.page # 1
        BY <2>1, <3>2, <3>3, <4>2
      <4> QED BY <4>1, <4>2
    <3> QED BY <2>1, <2>3, <3>1, <3>2, <3>3 DEF PagesCounted
  <2> QED BY <2>2, <2>3
<1>23. CASE \E x \in header.waiting : L(w)!SetInterval(x)
  BY <1>9, <1>23 DEF L!SetInterval
<1> QED BY <1>5, <1>6, <1>7, <1>8, <1>10, <1>11, <1>12, <1>13, <1>14, <1>15, <1>16, <1>17,
   <1>18, <1>19, <1>20, <1>21, <1>22, <1>23 DEF L!Next, L!Answer

-----------------------------------------------------------------------------
(* Going forward.                                                          *)

(* A block's rank is its place in the list.                                *)
LEMMA RankOf ==
  ASSUME NEW w, L(w)!ListParameters, Lists[w].View = "blocks", NEW d,
         d \subseteq Lists[w].Stored \cup Lists[w].Arriving, NEW c, NEW q,
         NEW s \in L(w)!Orders(L(w)!Entries(d, c, q)), NEW i \in DOMAIN s
  PROVE  i \in Nat /\ Rank(w, d, s[i], c, q) = i
<1> DEFINE S == L(w)!Entries(d, c, q)
           A == {e \in S : e.num > s[i].num}
           B == {s[i]}
           C == {e \in S : e.num >= s[i].num}
<1>1. /\ IsFiniteSet(S) /\ \A e \in S : e.num \in Int
      /\ \A e, f \in S : e.num = f.num => e = f
  BY StoredFinite, EntriesFinite
<1>2. s \in Orderings(S) /\ \A j, k \in DOMAIN s : j < k => s[j].num >= s[k].num
  BY ListOrderings DEF L!Orders
<1>3. Cardinality(A) = i - 1
  <2> HIDE DEF S
  <2> QED BY <1>1, <1>2, Ranked
<1>4. s[i] \in S /\ i \in Nat
  BY <1>1, <1>2, Enumerated
<1>5. C = A \cup B /\ A \cap B = {} /\ IsFiniteSet(C)
  <2>1. C = A \cup B /\ A \cap B = {}
    <3> HIDE DEF S
    <3> QED BY <1>1, <1>4
  <2>2. IsFiniteSet(C)
    <3> HIDE DEF S
    <3> QED BY <1>1, PartFinite
  <2> QED BY <2>1, <2>2
<1>6. Cardinality(C) = Cardinality(A) + Cardinality(B)
  <2> HIDE DEF A, B, C
  <2> QED BY <1>5, DisjointCount
<1>7. Cardinality(B) = 1
  BY FS_Singleton
<1>8. Cardinality(C) = i
  <2> HIDE DEF A, B, C
  <2> QED BY <1>3, <1>4, <1>6, <1>7
<1> QED BY <1>4, <1>8 DEF Rank

(* It is not above the number of blocks, and grows with the database.      *)
LEMMA RankGrows ==
  ASSUME NEW w, L(w)!ListParameters, NEW d, NEW f, d \subseteq f,
         f \subseteq Lists[w].Stored \cup Lists[w].Arriving,
         NEW e, NEW c, NEW q
  PROVE  /\ Rank(w, d, e, c, q) \in Nat /\ Rank(w, f, e, c, q) \in Nat
         /\ Rank(w, d, e, c, q) <= Rank(w, f, e, c, q)
         /\ Cardinality(L(w)!Entries(d, c, q)) \in Nat
         /\ Rank(w, d, e, c, q) <= Cardinality(L(w)!Entries(d, c, q))
<1> DEFINE S == L(w)!Entries(d, c, q)
           T == L(w)!Entries(f, c, q)
           A == {g \in S : g.num >= e.num}
           B == {g \in T : g.num >= e.num}
<1>1. IsFiniteSet(S) /\ IsFiniteSet(T) /\ S \subseteq T
  BY StoredFinite, EntriesFinite, EntriesGrow
<1> HIDE DEF S, T
<1>2. A \subseteq S /\ B \subseteq T /\ A \subseteq B
  BY <1>1
<1> HIDE DEF A, B
<1>3. IsFiniteSet(B) /\ Cardinality(B) \in Nat
  BY <1>1, <1>2, PartFinite
<1>4. Cardinality(A) \in Nat /\ Cardinality(A) <= Cardinality(B)
  BY <1>2, <1>3, PartFinite
<1>5. Cardinality(S) \in Nat /\ Cardinality(A) <= Cardinality(S)
  BY <1>1, <1>2, PartFinite
<1> QED BY <1>3, <1>4, <1>5 DEF Rank, A, B, S, T

(* Going forward is kept by what leaves the list alone.                    *)
LEMMA SweepKept ==
  ASSUME NEW w, L(w)!ListParameters, ListTypes(w), SweepInv(w), db \subseteq db',
         db' \subseteq Lists[w].Stored \cup Lists[w].Arriving,
         list' = list, sweep' = sweep,
         \A r \in requests' : \/ r.stage # "read" /\ (r.next => Fresh(r))
                              \/ \E x \in requests : /\ r.stage = "read" => SameAs(r, x)
                                                     /\ r.channel = x.channel
                                                     /\ r.query = x.query
                                                     /\ r.params = x.params
                                                     /\ r.next = x.next
  PROVE  SweepInv(w)'
<1>1. \A e, c, q : /\ Rank(w, db, e, c, q) \in Nat /\ Rank(w, db', e, c, q) \in Nat
                   /\ Rank(w, db, e, c, q) <= Rank(w, db', e, c, q)
  BY RankGrows
<1>2. /\ list.params.page \in Nat /\ list.params.size \in Nat
      /\ list.params.page * list.params.size \in Nat
  <2>1. list.params.page \in Nat /\ list.params.size \in Nat
    BY ListFinite DEF ListTypes, ListType, L!PageParams, L!ListParameters
  <2>2. \A a, b \in Nat : a * b \in Nat
    OBVIOUS
  <2> QED BY <2>1, <2>2
<1>3. SweepSoFar(w)'
  <2> SUFFICES ASSUME sweep # {},
                      NEW e \in L(w)!Entries(Lists[w].Stored, list.of, list.query)
               PROVE  /\ \/ e \in sweep
                         \/ Rank(w, db', e, list.of,
                              list.query) > list.params.page * list.params.size
                      /\ (\E s \in sweep : e.num > s.num) => e \in sweep
    BY DEF SweepSoFar
  <2>1. /\ \/ e \in sweep
           \/ Rank(w, db, e, list.of, list.query) > list.params.page * list.params.size
        /\ (\E s \in sweep : e.num > s.num) => e \in sweep
    BY DEF SweepInv, SweepSoFar
  <2>2. \A i, j, k \in Nat : i > k /\ i <= j => j > k
    OBVIOUS
  <2> QED BY <1>1, <1>2, <2>1, <2>2
<1>4. ASSUME NEW r \in requests' PROVE Forward(w, r)'
  <2>1. CASE r.stage # "read" /\ (r.next => Fresh(r))
    BY <2>1 DEF Forward, Fresh
  <2>2. ASSUME NEW x \in requests, r.stage = "read" => SameAs(r, x),
               r.channel = x.channel, r.query = x.query, r.params = x.params,
                 r.next = x.next
        PROVE  Forward(w, r)'
    <3>1. r.params.page \in Nat /\ r.params.size \in Nat
          /\ r.params.page * r.params.size \in Nat
      <4>1. x.params \in L(w)!PageParams
        BY DEF ListTypes, ListRequests
      <4>2. r.params.page \in Nat /\ r.params.size \in Nat
        BY <2>2, <4>1, ListFinite DEF L!PageParams, L!ListParameters
      <4>3. \A a, b \in Nat : a * b \in Nat
        OBVIOUS
      <4> QED BY <4>2, <4>3
    <3>2. r.next => /\ list'.of = r.channel /\ list'.query = r.query
                    /\ list'.params.size = r.params.size
                    /\ list'.params.page = r.params.page - 1
      BY <2>2 DEF SweepInv, Forward
    <3>3. ASSUME r.stage = "read", r.params.page = 1 \/ (r.next /\ sweep # {}),
                 NEW e \in L(w)!Entries(Lists[w].Stored, r.channel, r.query)
          PROVE  \/ e \in Range(r.rows)
                 \/ r.params.page # 1 /\ e \in sweep
                 \/ /\ Rank(w, db', e, r.channel, r.query) > r.params.page * r.params.size
                    /\ \A s \in Range(r.rows) : e.num <= s.num
      <4>1. \/ e \in Range(r.rows)
            \/ r.params.page # 1 /\ e \in sweep
            \/ /\ Rank(w, db, e, r.channel, r.query) > r.params.page * r.params.size
               /\ \A s \in Range(r.rows) : e.num <= s.num
        BY <2>2, <3>3 DEF SweepInv, Forward, SameAs
      <4>2. \A i, j, k \in Nat : i > k /\ i <= j => j > k
        OBVIOUS
      <4> QED BY <1>1, <3>1, <4>1, <4>2
    <3> QED BY <3>2, <3>3 DEF Forward
  <2> QED BY <2>1, <2>2
<1> QED BY <1>3, <1>4 DEF SweepInv

(* Reading goes on from where the list is.                                 *)
LEMMA SweepRead ==
  ASSUME NEW w, L(w)!ListParameters, ListTypes(w), SweepInv(w), Lists[w].View = "blocks",
         NEW r \in requests, r.params.page = 1 \/ (r.next /\ sweep # {}),
         NEW s \in L(w)!Orders(L(w)!Entries(db, r.channel, r.query)),
         NEW e \in L(w)!Entries(Lists[w].Stored, r.channel, r.query)
  PROVE  \/ e \in Range(L(w)!Page(s, r.params))
         \/ r.params.page # 1 /\ e \in sweep
         \/ /\ Rank(w, db, e, r.channel, r.query) > r.params.page * r.params.size
            /\ \A f \in Range(L(w)!Page(s, r.params)) : e.num <= f.num
<1> DEFINE E == L(w)!Entries(db, r.channel, r.query)
           lo == (r.params.page - 1) * r.params.size
           hi == r.params.page * r.params.size
           P == L(w)!Page(s, r.params)
<1>1. r.params.page \in Nat \ {0} /\ r.params.size \in Nat \ {0} /\ lo \in Nat /\ hi \in Nat
      /\ (r.params.page = 1 => lo = 0)
  <2>1. r.params.page \in Nat \ {0} /\ r.params.size \in Nat \ {0}
    BY ListFinite DEF ListTypes, ListRequests, L!PageParams, L!ListParameters
  <2> QED BY <2>1
<1>2. Lists[w].Stored \subseteq db /\ db \subseteq Lists[w].Stored \cup Lists[w].Arriving
  BY DEF ListTypes
<1>3. IsFiniteSet(E) /\ e \in E /\ \A f \in E : f.num \in Int
  BY <1>2, StoredFinite, EntriesFinite, EntriesGrow
<1>4. /\ DOMAIN s \subseteq Nat /\ \A f \in E : \E i \in DOMAIN s : s[i] = f
      /\ \A i \in DOMAIN s : s[i] \in E
      /\ \A i, j \in DOMAIN s : i < j => s[i].num >= s[j].num
  <2>1. s \in Orderings(E) /\ \A i, j \in DOMAIN s : i < j => s[i].num >= s[j].num
    BY ListOrderings DEF L!Orders
  <2> HIDE DEF E
  <2> QED BY <1>3, <2>1, Enumerated
<1>5. PICK i \in DOMAIN s : s[i] = e
  BY <1>3, <1>4
<1>6. i \in Nat /\ Rank(w, db, e, r.channel, r.query) = i
  BY <1>2, <1>5, RankOf
<1>7. /\ \A j \in DOMAIN s : lo < j /\ j <= hi => s[j] \in Range(P)
      /\ \A f \in Range(P) : \E j \in DOMAIN s : s[j] = f /\ lo < j /\ j <= hi
  BY <1>1, <1>3, PageOf
<1> HIDE DEF P, lo, hi
<1>8. CASE lo < i /\ i <= hi
  BY <1>5, <1>7, <1>8 DEF P
<1>9. CASE i > hi
  <2>1. ASSUME NEW f \in Range(P) PROVE e.num <= f.num
    <3>1. PICK j \in DOMAIN s : s[j] = f /\ j <= hi
      BY <1>7
    <3>2. j < i
      BY <1>1, <1>4, <1>6, <1>9, <3>1
    <3>3. f.num >= e.num /\ f.num \in Int /\ e.num \in Int
      BY <1>3, <1>4, <1>5, <3>1, <3>2
    <3> QED BY <3>3
  <2> QED BY <1>6, <1>9, <2>1 DEF P, hi
<1>10. CASE i <= lo
  <2>1. i # 0
    <3>1. s \in Orderings(E)
      BY ListOrderings DEF L!Orders
    <3>2. DOMAIN s = 1 .. Cardinality(E)
      <4> HIDE DEF E
      <4> QED BY <1>3, <3>1, Enumerated
    <3> QED BY <3>2
  <2>2. r.params.page # 1
    BY <1>1, <1>6, <1>10, <2>1
  <2>3. r.next /\ sweep # {}
    BY <2>2
  <2>4. /\ list.of = r.channel /\ list.query = r.query
        /\ list.params.size = r.params.size /\ list.params.page = r.params.page - 1
    BY <2>3 DEF SweepInv, Forward
  <2>5. e \in sweep \/ Rank(w, db, e, r.channel, r.query) > lo
    BY <2>3, <2>4 DEF SweepInv, SweepSoFar, lo
  <2>6. e \in sweep
    BY <1>1, <1>6, <1>10, <2>5
  <2> QED BY <2>2, <2>6
<1> QED BY <1>1, <1>6, <1>8, <1>9, <1>10

(* Going forward is kept by every step.                                    *)
LEMMA SweepSteps ==
  ASSUME NEW w, L(w)!ListParameters, ListTypes(w), ListTypes(w)', ViewAsks(w),
         RowsStored(w), SweepInv(w), Lists[w].View = "blocks",
         L(w)!Next
  PROVE  SweepInv(w)'
<1>1. requests \subseteq ListRequests(w)
      /\ db' \subseteq Lists[w].Stored \cup Lists[w].Arriving
  BY DEF ListTypes
<1>2. CASE L(w)!BlocksMount \/ L(w)!TransactionsMount \/ L(w)!Unmount
           \/ (\E q \in SUBSET Lists[w].Orgs : L(w)!SearchClick(q))
           \/ L(w)!ClearSearch
              \/ (\E p \in {view.page - 1, view.page + 1} : L(w)!TurnPage(p))
           \/ (\E s \in Lists[w].Sizes : L(w)!HandleRowsChange(s)) \/ L(w)!Poll
                \/ L(w)!HeaderSync
           \/ (\E c \in Lists[w].Channels : L(w)!SelectChannel(c) \/ L(w)!ChannelChanged(c))
           \/ (\E x \in header.waiting : L(w)!SetInterval(x))
  <2>1. /\ \A r \in requests' : Fresh(r) \/ \E x \in requests : SameAs(r, x)
        /\ db' = db /\ list' = list /\ sweep' = sweep
    BY <1>2, SendsRequests
  <2>2. \A r \in requests' : \/ r.stage # "read" /\ (r.next => Fresh(r))
                             \/ \E x \in requests : /\ r.stage = "read" => SameAs(r, x)
                                                    /\ r.channel = x.channel
                                                    /\ r.query = x.query
                                                    /\ r.params = x.params
                                                    /\ r.next = x.next
    BY <2>1 DEF Fresh, SameAs
  <2> QED BY <1>1, <2>1, <2>2, SweepKept
<1>3. \A x \in requests : SameAs(x, x)
  BY DEF SameAs
<1>4. CASE L(w)!Insert \/ (\E r \in requests : L(w)!CountRows(r) \/ L(w)!Fail(r))
             \/ (\E r \in ranges : L(w)!RangeAnswer(r) \/ L(w)!RangeFail(r))
             \/ (\E a, b \in 0 .. Lists[w].Limit + 1 : L(w)!RangeSubmit(a, b))
  <2>1. db \subseteq db' /\ list' = list /\ sweep' = sweep
    BY <1>4 DEF L!Insert, L!CountRows, L!Fail, L!RangeAnswer, L!RangeFail, L!RangeSubmit
  <2>2. \A r \in requests' : \/ r.stage # "read" /\ (r.next => Fresh(r))
                             \/ \E x \in requests : /\ r.stage = "read" => SameAs(r, x)
                                                    /\ r.channel = x.channel
                                                    /\ r.query = x.query
                                                    /\ r.params = x.params
                                                    /\ r.next = x.next
    <3>1. CASE \E r \in requests : L(w)!CountRows(r)
      <4>1. PICK r \in requests : L(w)!CountRows(r)
        BY <3>1
      <4>2. \A x \in requests' \ requests : /\ x.stage = "counted" /\ x.channel = r.channel
                                            /\ x.query = r.query /\ x.params = r.params
                                            /\ x.next = r.next
        BY <1>1, <4>1 DEF L!CountRows, ListRequests
      <4> QED BY <1>3, <4>2
    <3>2. CASE requests' \subseteq requests
      BY <1>3, <3>2
    <3> QED BY <1>4, <3>1, <3>2 DEF L!Insert, L!Fail, L!RangeAnswer, L!RangeFail,
       L!RangeSubmit
  <2> QED BY <1>1, <2>1, <2>2, SweepKept
<1>5. ASSUME NEW r \in requests, L(w)!ReadRows(r) PROVE SweepInv(w)'
  <2>1. PICK s \in L(w)!Orders(L(w)!Entries(db, r.channel, r.query)) :
          requests' = (requests \ {r}) \cup
            {[r EXCEPT !.stage = "read", !.rows = L(w)!Page(s, r.params)]}
    BY <1>5 DEF L!ReadRows
  <2> DEFINE P == L(w)!Page(s, r.params)
             x == [r EXCEPT !.stage = "read", !.rows = P]
  <2>2. db' = db /\ list' = list /\ sweep' = sweep
    BY <1>5 DEF L!ReadRows
  <2>3. /\ x.channel = r.channel /\ x.query = r.query /\ x.params = r.params
        /\ x.next = r.next /\ x.rows = P
    <3> HIDE DEF P
    <3> QED BY <1>1 DEF ListRequests
  <2>4. Forward(w, x)
    <3>1. r.params.page = 1 \/ (r.next /\ sweep # {}) =>
            \A e \in L(w)!Entries(Lists[w].Stored, r.channel, r.query) :
              \/ e \in Range(P)
              \/ r.params.page # 1 /\ e \in sweep
              \/ /\ Rank(w, db, e, r.channel, r.query) > r.params.page * r.params.size
                 /\ \A f \in Range(P) : e.num <= f.num
      BY SweepRead
    <3> HIDE DEF x, P
    <3> QED BY <2>3, <3>1 DEF Forward, SweepInv
  <2>5. \A y \in requests' : Forward(w, y)
    <3> HIDE DEF x
    <3>1. requests' = (requests \ {r}) \cup {x}
      BY <2>1 DEF x
    <3> QED BY <2>4, <3>1 DEF SweepInv
  <2> QED BY <2>2, <2>5 DEF SweepInv, SweepSoFar, Forward
<1>6. ASSUME NEW r \in requests, L(w)!Deliver(r) PROVE SweepInv(w)'
  <2>1. /\ db' = db /\ list'.of = r.channel /\ list'.query = r.query
        /\ list'.params = r.params
        /\ sweep' = (IF r.params.page = 1 THEN Range(r.rows)
                     ELSE IF r.next /\ sweep # {} THEN sweep \cup Range(r.rows) ELSE {})
    BY <1>6, ListRange DEF L!Deliver, L!StoreList
  <2>2. r.stage = "read" /\ Forward(w, r)
    BY <1>6, ListRange DEF L!Deliver, SweepInv
  <2>3. SweepSoFar(w)'
    <3> SUFFICES ASSUME sweep' # {},
                        NEW e \in L(w)!Entries(Lists[w].Stored, r.channel, r.query)
                 PROVE  /\ \/ e \in sweep'
                           \/ Rank(w, db, e, r.channel,
                                r.query) > r.params.page * r.params.size
                        /\ (\E s \in sweep' : e.num > s.num) => e \in sweep'
      BY <2>1 DEF SweepSoFar
    <3>1. r.params.page = 1 \/ (r.next /\ sweep # {})
      BY <2>1
    <3>2. \/ e \in Range(r.rows)
          \/ r.params.page # 1 /\ e \in sweep
          \/ /\ Rank(w, db, e, r.channel, r.query) > r.params.page * r.params.size
             /\ \A s \in Range(r.rows) : e.num <= s.num
      BY <2>2, <3>1 DEF Forward
    <3>3. CASE e \in Range(r.rows) \/ (r.params.page # 1 /\ e \in sweep)
      BY <2>1, <3>1, <3>3
    <3>4. CASE /\ Rank(w, db, e, r.channel, r.query) > r.params.page * r.params.size
               /\ \A s \in Range(r.rows) : e.num <= s.num
      <4>1. e.num \in Int
        <5>1. IsFiniteSet(Lists[w].Stored) /\ Lists[w].Stored \subseteq L(w)!Row
          BY ListFinite DEF L!ListParameters
        <5> QED BY <5>1, EntriesFinite
      <4>2. \A s \in Range(r.rows) : s.num \in Int
        <5>1. db \subseteq Lists[w].Stored \cup Lists[w].Arriving
          BY DEF ListTypes
        <5> QED BY <5>1, StoredFinite, EntriesFinite DEF RowsStored
      <4>3. ASSUME NEW s \in sweep', e.num > s.num PROVE e \in sweep'
        <5>1. s \notin Range(r.rows)
          BY <3>4, <4>1, <4>2, <4>3
        <5>2. s \in sweep /\ r.params.page # 1 /\ r.next /\ sweep # {}
          BY <2>1, <5>1
        <5>3. list.of = r.channel /\ list.query = r.query
          BY <2>2, <5>2 DEF Forward
        <5>4. e \in sweep
          BY <4>3, <5>2, <5>3 DEF SweepInv, SweepSoFar
        <5> QED BY <2>1, <5>2, <5>4
      <4> QED BY <3>4, <4>3
    <3> QED BY <3>2, <3>3, <3>4
  <2>4. ASSUME NEW y \in requests' PROVE Forward(w, y)'
    <3>1. PICK x \in requests : y = [x EXCEPT !.next = FALSE]
      BY <1>6, ListRange DEF L!Deliver
    <3>2. /\ y.channel = x.channel /\ y.query = x.query /\ y.params = x.params
          /\ ~y.next /\ y.rows = x.rows /\ y.stage = x.stage
      BY <1>1, <3>1 DEF ListRequests
    <3>3. y.stage = "read" /\ y.params.page = 1 =>
            \A e \in L(w)!Entries(Lists[w].Stored, y.channel, y.query) :
              \/ e \in Range(y.rows)
              \/ /\ Rank(w, db, e, y.channel, y.query) > y.params.page * y.params.size
                 /\ \A s \in Range(y.rows) : e.num <= s.num
      BY <3>2 DEF SweepInv, Forward
    <3> QED BY <2>1, <3>2, <3>3 DEF Forward
  <2> QED BY <2>3, <2>4 DEF SweepInv
<1> QED BY <1>2, <1>4, <1>5, <1>6 DEF L!Next, L!Answer

-----------------------------------------------------------------------------
(* The invariant, and the properties it implies.                           *)

(* It holds at first.                                                      *)
LEMMA InitList ==
  ASSUME NEW w, L(w)!ListParameters, L(w)!Init
  PROVE  ListInv(w)
<1>1. PICK s \in L(w)!Orders(L(w)!Entries(Lists[w].Stored, Lists[w].First, {})) :
        list =
          [rows |-> L(w)!Page(s, [page |-> 1, size |-> Lists[w].Default]), query |-> {},
            of |-> Lists[w].First,
                pages |-> L(w)!Ceil(L(w)!RowCount(Lists[w].Stored, Lists[w].First, {}),
                  Lists[w].Default),
                params |-> [page |-> 1, size |-> Lists[w].Default]]
  BY DEF L!Init
<1> DEFINE p == [page |-> 1, size |-> Lists[w].Default]
           P == L(w)!Page(s, p)
           k ==
             L(w)!Ceil(L(w)!RowCount(Lists[w].Stored, Lists[w].First, {}), Lists[w].Default)
<1>2. p \in L(w)!PageParams /\ p.size = Lists[w].Default
  BY ListFinite DEF L!PageParams, L!ListParameters
<1>3. P \in Seq(L(w)!Row)
      /\ Range(P) \subseteq L(w)!Entries(Lists[w].Stored, Lists[w].First, {})
  <2> HIDE DEF p
  <2> QED BY <1>2, RowsRead
<1>4. k \in Nat
  BY RowsCounted, ListFinite DEF L!ListParameters
<1>5. list = [rows |-> P, query |-> {}, of |-> Lists[w].First, pages |-> k, params |-> p]
  BY <1>1
<1> HIDE DEF P, k, p
<1>6. list \in ListType(w)
  BY <1>2, <1>3, <1>4, <1>5, ListFinite DEF ListType, Pages, L!ListParameters
<1>7. view \in ViewType(w)
  BY ListFinite DEF L!Init, L!Idle, ViewType, L!ListParameters
<1>8. range \in [loaded : BOOLEAN, rows : Seq(Nat), channel : Lists[w].Channels]
  <2>1. <<>> \in Seq(Nat)
    OBVIOUS
  <2> QED BY <2>1, ListFinite DEF L!Init, L!NoRange, L!ListParameters
<1>9. ListTypes(w)
  <2>1. counts \in Counters
    BY DEF L!Init, Counters
  <2>2. header \in HeaderType(w)
    BY DEF L!Init, HeaderType, L!ListParameters
  <2> QED BY <1>6, <1>7, <1>8, <2>1, <2>2, ListFinite DEF L!Init, ListTypes,
     L!ListParameters
<1>10. RangeRows(w)
  BY DEF L!Init, L!NoRange, RangeRows, Range
<1>11. RowsStored(w)
  BY <1>3, <1>5 DEF L!Init, RowsStored
<1>12. ViewAsks(w) /\ AsksWhatIsWanted
  BY DEF L!Init, ViewAsks, AsksWhatIsWanted, L!Idle
<1>13. PagesCounted(w)
  <2>1. Lists[w].View = "transactions" =>
          k =
            L(w)!Ceil(Cardinality(L(w)!Entries(Lists[w].Stored, Lists[w].First, {})),
              Lists[w].Default)
    BY ListCount DEF k, L!RowCount, L!TxCount
  <2> QED BY <1>2, <1>5, <2>1 DEF L!Init, PagesCounted, CountFits
<1>14. SweepInv(w)
  BY DEF L!Init, SweepInv, SweepSoFar
<1>15. HeaderFollows /\ HeaderAtFirst(w)
  BY DEF L!Init, HeaderFollows, HeaderAtFirst
<1> QED BY <1>9, <1>10, <1>11, <1>12, <1>13, <1>14, <1>15 DEF ListInv

(* Every step keeps it.                                                    *)
LEMMA ListSteps ==
  ASSUME NEW w, L(w)!ListParameters, ListInv(w), L(w)!Next
  PROVE  ListInv(w)'
<1>1. ListTypes(w)'
  BY SendsTypes, AnswersTypes DEF L!Next, ListInv
<1> QED BY <1>1, RangeRowsSteps, RowsStoredSteps, ViewAsksSteps, AsksWhatIsWantedSteps,
   HeaderSteps, PagesCountedSteps, SweepSteps DEF ListInv

(* The types, and what was asked for.                                      *)
LEMMA ListShows ==
  ASSUME NEW w, L(w)!ListParameters, ListInv(w)
  PROVE  L(w)!TypeOK /\ L(w)!ShowsWhatWasAsked
<1>1. L(w)!TypeOK
  <2>1. db \subseteq L(w)!Row /\ \A k \in DOMAIN counts : counts[k] \in Nat
    <3>1. db \subseteq L(w)!Row
      BY StoredFinite DEF ListInv, ListTypes
    <3>2. counts \in Counters
      BY DEF ListInv, ListTypes
    <3> QED BY <3>1, <3>2 DEF Counters
  <2> QED BY <2>1, ListRange DEF ListInv, ListTypes, ListType, ViewType, ListRequests,
     Pages, RowsStored, RangeRows, HeaderType, L!Headers, L!TypeOK
<1>2. L(w)!ShowsWhatWasAsked
  BY DEF ListInv, AsksWhatIsWanted, L!ShowsWhatWasAsked, L!Quiet, L!OwnIntervals,
     OwnTimers, Wanted
<1> QED BY <1>1, <1>2

(* No row is passed over.                                                  *)
LEMMA ListSweep ==
  ASSUME NEW w, L(w)!ListParameters, ListInv(w)
  PROVE  L(w)!SweepNoGap
<1> SUFFICES ASSUME Lists[w].View = "blocks",
                    NEW e \in L(w)!Entries(Lists[w].Stored, list.of, list.query),
                      sweep # {},
                    \/ \E s \in sweep : s.channel = list.of /\ e.num > s.num
                    \/ list.params.page * list.params.size
                          >= Cardinality(L(w)!Entries(db, list.of, list.query))
             PROVE  e \in sweep
  BY ListCount DEF L!SweepNoGap
<1>1. /\ e \in sweep
         \/ Rank(w, db, e, list.of, list.query) > list.params.page * list.params.size
      /\ (\E s \in sweep : e.num > s.num) => e \in sweep
  BY DEF ListInv, SweepInv, SweepSoFar
<1> DEFINE m == list.params.page * list.params.size
           r == Rank(w, db, e, list.of, list.query)
           N == Cardinality(L(w)!Entries(db, list.of, list.query))
<1>2. m \in Nat
  <2>1. list.params.page \in Nat /\ list.params.size \in Nat
    BY ListFinite DEF ListInv, ListTypes, ListType, L!PageParams, L!ListParameters
  <2>2. \A a, b \in Nat : a * b \in Nat
    OBVIOUS
  <2> QED BY <2>1, <2>2
<1>3. r \in Nat /\ N \in Nat /\ r <= N
  BY RankGrows DEF ListInv, ListTypes
<1>4. CASE m >= N
  <2>1. ~(r > m)
    <3> HIDE DEF r, m, N
    <3> QED BY <1>2, <1>3, <1>4
  <2> QED BY <1>1, <2>1
<1> QED BY <1>1, <1>4

(* The number of pages is that of the list.                                *)
LEMMA ListPages ==
  ASSUME NEW w, L(w)!ListParameters, ListInv(w)
  PROVE  L(w)!PagesOfList
<1> SUFFICES ASSUME Lists[w].View = "transactions", L(w)!Quiet, ~crossed,
                    counts.selections = 0, db = Lists[w].Stored,
                    list.rows # <<>>
             PROVE  list.pages =
                      L(w)!Ceil(Cardinality(L(w)!Entries(db, list.of, list.query)),
                        list.params.size)
  BY ListCount DEF L!PagesOfList
<1>1. list.of = Lists[w].First
      /\ L(w)!Entries(Lists[w].Stored, Lists[w].First, list.query) # {} =>
        CountFits(w, list.query, list.params, list.pages)
  BY DEF ListInv, PagesCounted, L!Quiet
<1>2. list.of = Lists[w].First
  BY DEF ListInv, PagesCounted, L!Quiet
<1>3. list.rows \in Seq(L(w)!Row)
      /\ Range(list.rows) \subseteq L(w)!Entries(db, list.of, list.query)
  BY DEF ListInv, ListTypes, ListType, RowsStored
<1>4. Range(list.rows) # {}
  <2> DEFINE R == list.rows
  <2>1. R \in Seq(L(w)!Row) /\ R # <<>>
    BY <1>3
  <2>2. 1 \in DOMAIN R
    <3> HIDE DEF R
    <3> QED BY <2>1
  <2> QED BY <2>2 DEF Range
<1> QED BY <1>1, <1>2, <1>3, <1>4 DEF CountFits

(* The pages of a range hold each of its blocks once.                      *)
LEMMA Multiples ==
  ASSUME NEW a \in Nat, NEW b \in Nat, NEW u \in Nat \ {0}
  PROVE  /\ a * u \in Nat /\ (a + 1) * u = a * u + u
         /\ a < b => (a + 1) * u <= b * u
         /\ b * u <= a => b <= a \div u
<1>1. a * u \in Nat /\ b * u \in Nat /\ (a + 1) * u = a * u + u /\ (b + 1) * u = b * u + u
  OBVIOUS
<1>2. a < b => (a + 1) * u <= b * u
  OBVIOUS
<1>3. ASSUME b * u <= a PROVE b <= a \div u
  <2> DEFINE d == a \div u
  <2>1. d \in Nat /\ a = u * d + (a % u) /\ a % u < u /\ a % u \in Nat
    OBVIOUS
  <2> HIDE DEF d
  <2>2. CASE d < b
    <3>1. (d + 1) * u <= b * u
      BY <2>1, <2>2
    <3>2. (d + 1) * u = d * u + u /\ u * d = d * u /\ d * u \in Nat
      BY <2>1
    <3> QED BY <1>1, <1>3, <2>1, <3>1, <3>2
  <2> QED BY <2>1, <2>2 DEF d
<1> QED BY <1>1, <1>2, <1>3

(* The pages of a range of blocks partition it (RangePagesPartition).       *)
LEMMA ListRanges ==
  ASSUME NEW w, L(w)!ListParameters, ListInv(w)
  PROVE  L(w)!RangePagesPartition
<1> SUFFICES ASSUME view.brs
             PROVE  /\ UNION {Range(L(w)!RangePage(p)) : p \in 0 .. L(w)!NoOfPages - 1} =
                         Range(range.rows)
                    /\ \A p, q \in 0 .. L(w)!NoOfPages - 1 :
                         p # q =>
                           Range(L(w)!RangePage(p)) \cap Range(L(w)!RangePage(q)) = {}
  BY ListRange DEF L!RangePagesPartition
<1> DEFINE u == view.size
           R == range.rows
           N == Len(R)
           s == L(w)!Reversed(R)
           S == Range(R)
<1>1. u \in Nat \ {0} /\ R \in Seq(Nat) /\ \A i, j \in DOMAIN R : R[i] = R[j] => i = j
  BY ListFinite DEF ListInv, ListTypes, ViewType, L!ListParameters, RangeRows
<1>2. N \in Nat /\ DOMAIN R = 1 .. N /\ \A i \in 1 .. N : R[i] \in S
  BY <1>1 DEF Range
<1>3. /\ s \in Seq(S) /\ Len(s) = N
      /\ \A i \in 1 .. N : N - i + 1 \in 1 .. N /\ s[i] = R[N - i + 1]
  <2>1. s = [i \in 1 .. N |-> R[(N - i) + 1]]
    BY DEF L!Reversed
  <2>2. \A i \in 1 .. N : (N - i) + 1 \in 1 .. N
    BY <1>2
  <2> HIDE DEF s, S, N, R
  <2> QED BY <1>2, <2>1, <2>2
<1>4. \A i, j \in 1 .. N : s[i] = s[j] => i = j
  <2> SUFFICES ASSUME NEW i \in 1 .. N, NEW j \in 1 .. N, s[i] = s[j] PROVE i = j
    OBVIOUS
  <2>1. N - i + 1 \in DOMAIN R /\ N - j + 1 \in DOMAIN R /\ R[N - i + 1] = R[N - j + 1]
    BY <1>2, <1>3
  <2>2. N - i + 1 = N - j + 1
    BY <1>1, <2>1
  <2> HIDE DEF s, S, N
  <2> QED BY <1>2, <2>2
<1>5. S = {s[i] : i \in 1 .. N}
  <2>1. ASSUME NEW e \in S PROVE \E i \in 1 .. N : s[i] = e
    <3>1. PICK j \in 1 .. N : R[j] = e
      BY <1>2 DEF Range
    <3>2. N - j + 1 \in 1 .. N /\ N - (N - j + 1) + 1 = j
      BY <1>2
    <3> HIDE DEF s, N
    <3> QED BY <1>3, <3>1, <3>2
  <2>2. \A i \in 1 .. N : s[i] \in S
    <3> HIDE DEF s, N, S
    <3> QED BY <1>3
  <2> HIDE DEF s, N, S
  <2> QED BY <2>1, <2>2
<1>6. L(w)!NoOfPages = (N + u - 1) \div u
  BY DEF L!NoOfPages, L!Ceil
<1>7. ASSUME NEW p \in Nat
      PROVE  /\ \A i \in 1 .. N : p * u < i /\ i <= (p + 1) * u =>
                  s[i] \in Range(L(w)!RangePage(p))
             /\ \A e \in Range(L(w)!RangePage(p)) : \E i \in 1 .. N :
                  s[i] = e /\ p * u < i /\ i <= (p + 1) * u
  <2> DEFINE lo == p * u
             hi == (p + 1) * u
  <2>1. lo \in Nat /\ hi \in Nat /\ lo < hi
    <3> HIDE DEF u
    <3>1. lo \in Nat /\ hi = lo + u
      BY <1>1, Multiples
    <3> HIDE DEF lo, hi
    <3> QED BY <1>1, <3>1
  <2>2. L(w)!RangePage(p) = Part(s, lo, hi)
    BY ListMin DEF L!RangePage, Part
  <2>3. /\ \A i \in 1 .. N : lo < i /\ i <= hi => s[i] \in Range(Part(s, lo, hi))
        /\ \A e \in Range(Part(s, lo, hi)) : \E i \in 1 .. N : s[i] = e /\ lo < i /\ i <= hi
    <3> HIDE DEF lo, hi, s, S, N, u
    <3> QED BY <1>3, <2>1, PartOf
  <2> QED BY <2>2, <2>3
<1>8. ASSUME NEW i \in 1 .. N
      PROVE  \E p \in 0 .. L(w)!NoOfPages - 1 : p * u < i /\ i <= (p + 1) * u
  <2> DEFINE p == (i - 1) \div u
  <2> HIDE DEF N, u
  <2>1. i - 1 \in Nat /\ p \in Nat
    <3> DEFINE k == i - 1
    <3>1. k \in Nat
      BY <1>2
    <3>2. p = k \div u
      OBVIOUS
    <3> HIDE DEF k, p
    <3>3. p \in Nat
      BY <1>1, <3>1, <3>2
    <3> QED BY <3>1, <3>3 DEF k
  <2>2. p * u <= i - 1 /\ i - 1 < (p + 1) * u
    <3>1. i - 1 = u * p + ((i - 1) % u) /\ (i - 1) % u < u /\ (i - 1) % u \in Nat
      BY <1>1, <2>1
    <3>2. u * p = p * u /\ (p + 1) * u = p * u + u /\ p * u \in Nat
      BY <1>1, <2>1
    <3> HIDE DEF p
    <3> QED BY <1>1, <2>1, <3>1, <3>2
  <2> HIDE DEF p
  <2>3. (p + 1) * u <= N + u - 1 /\ N + u - 1 \in Nat
    <3>1. (p + 1) * u = p * u + u /\ p * u \in Nat
      BY <1>1, <2>1
    <3> QED BY <1>1, <1>2, <2>1, <2>2, <3>1
  <2>4. p + 1 <= (N + u - 1) \div u
    <3> DEFINE a == N + u - 1
    <3>1. p + 1 \in Nat /\ a \in Nat /\ (p + 1) * u <= a
      BY <2>1, <2>3
    <3> HIDE DEF a
    <3> QED BY <1>1, <3>1, Multiples DEF a
  <2>5. L(w)!NoOfPages \in Nat
    <3> DEFINE a == N + u - 1
    <3>1. a \in Nat /\ L(w)!NoOfPages = a \div u
      BY <1>6, <2>3 DEF u
    <3> HIDE DEF a
    <3> QED BY <1>1, <3>1
  <2>6. p \in 0 .. L(w)!NoOfPages - 1
    BY <1>6, <2>1, <2>4, <2>5 DEF u
  <2>7. p * u < i /\ i <= (p + 1) * u
    <3>1. p * u \in Nat /\ (p + 1) * u \in Nat
      BY <1>1, <2>1, Multiples
    <3> QED BY <1>2, <2>2, <3>1
  <2> QED BY <2>6, <2>7
<1>9. ASSUME NEW p \in Nat, NEW q \in Nat, p < q, NEW e \in Range(L(w)!RangePage(p)),
             e \in Range(L(w)!RangePage(q))
      PROVE  FALSE
  <2>1. PICK i \in 1 .. N : s[i] = e /\ i <= (p + 1) * u
    BY <1>7
  <2>2. PICK j \in 1 .. N : s[j] = e /\ q * u < j
    BY <1>7, <1>9
  <2> HIDE DEF s, S, N, u
  <2>3. i = j
    BY <1>4, <2>1, <2>2
  <2>4. (p + 1) * u <= q * u /\ q * u \in Nat /\ (p + 1) * u \in Nat
    BY <1>1, <1>9, Multiples
  <2> QED BY <1>2, <2>1, <2>2, <2>3, <2>4
<1>10. ASSUME NEW p \in 0 .. L(w)!NoOfPages - 1
              PROVE p \in Nat /\ Range(L(w)!RangePage(p)) \subseteq S
  <2>1. p \in Nat
    OBVIOUS
  <2>2. \A e \in Range(L(w)!RangePage(p)) : \E i \in 1 .. N : s[i] = e
    BY <1>7, <2>1
  <2> HIDE DEF s, S, N
  <2> QED BY <1>5, <2>1, <2>2
<1>11. ASSUME NEW e \in S
              PROVE \E p \in 0 .. L(w)!NoOfPages - 1 : e \in Range(L(w)!RangePage(p))
  <2> HIDE DEF s, S, N, u
  <2>1. PICK i \in 1 .. N : s[i] = e
    BY <1>5
  <2>2. PICK p \in 0 .. L(w)!NoOfPages - 1 : p * u < i /\ i <= (p + 1) * u
    BY <1>8
  <2>3. p \in Nat
    BY <1>10
  <2>4. s[i] \in Range(L(w)!RangePage(p))
    BY <1>7, <2>2, <2>3
  <2> QED BY <2>1, <2>4
<1>12. UNION {Range(L(w)!RangePage(p)) : p \in 0 .. L(w)!NoOfPages - 1} = S
  <2> HIDE DEF S
  <2> QED BY <1>10, <1>11
<1>13. ASSUME NEW p \in 0 .. L(w)!NoOfPages - 1, NEW q \in 0 .. L(w)!NoOfPages - 1, p # q
       PROVE  Range(L(w)!RangePage(p)) \cap Range(L(w)!RangePage(q)) = {}
  <2>1. p \in Nat /\ q \in Nat
    BY <1>10
  <2>2. p < q \/ q < p
    BY <1>13, <2>1
  <2> QED BY <1>9, <2>1, <2>2
<1> QED BY <1>12, <1>13

-----------------------------------------------------------------------------
(* The tables: the invariant of the part that a behaviour is about.  It    *)
(* says nothing of the variables of the other parts, which only stay.      *)
TablesInv ==
  /\ \A p \in DOMAIN Lists : part = p => ListInv(p)
  /\ \A p \in DOMAIN LookUps : part = p => LookUpInv(p)
  /\ \A p \in DOMAIN Numbers : part = p => MetricsInv(p)

(* A behaviour starts as one part, whose invariant holds.                  *)
LEMMA InitTables == TablesInit => TablesInv
<1> SUFFICES ASSUME TablesInit PROVE TablesInv
  OBVIOUS
<1>1. CASE \E p \in DOMAIN Lists : part = p /\ L(p)!Init
  BY <1>1, TablesAssumption, InitList DEF TablesInv
<1>2. CASE \E p \in DOMAIN LookUps : part = p /\ K(p)!Init
  BY <1>2, TablesAssumption, InitLookUp DEF TablesInv
<1>3. CASE \E p \in DOMAIN Numbers : part = p /\ M(p)!Init
  BY <1>3, TablesAssumption, InitMetrics DEF TablesInv
<1> QED BY <1>1, <1>2, <1>3 DEF TablesInit

(* Steps of nothing change nothing that an invariant speaks of.            *)
LEMMA ListStutter ==
  ASSUME NEW w, ListInv(w), UNCHANGED <<listView, browser, asked, crossed>>
  PROVE  ListInv(w)'
<1>1. /\ db' = db /\ channel' = channel /\ requests' = requests /\ counts' = counts
      /\ header' = header /\ list' = list /\ range' = range /\ view' = view
      /\ ranges' = ranges /\ sweep' = sweep /\ asked' = asked /\ crossed' = crossed
  BY DEF listView, browser
<1>2. ListTypes(w)'
  BY <1>1 DEF ListInv, ListTypes
<1>3. RangeRows(w)'
  BY <1>1 DEF ListInv, RangeRows
<1>4. RowsStored(w)'
  BY <1>1 DEF ListInv, RowsStored
<1>5. ViewAsks(w)'
  BY <1>1 DEF ListInv, ViewAsks
<1>6. AsksWhatIsWanted'
  BY <1>1 DEF ListInv, AsksWhatIsWanted, OwnTimers, Wanted
<1>7. PagesCounted(w)'
  BY <1>1 DEF ListInv, PagesCounted
<1>8. Lists[w].View = "blocks" => SweepInv(w)'
  BY <1>1 DEF ListInv, SweepInv, Forward, SweepSoFar
<1>9. HeaderFollows' /\ HeaderAtFirst(w)'
  BY <1>1 DEF ListInv, HeaderFollows, HeaderAtFirst
<1> QED BY <1>2, <1>3, <1>4, <1>5, <1>6, <1>7, <1>8, <1>9 DEF ListInv

(* A step that leaves the look-ups alone keeps their invariant.             *)
LEMMA LookUpStutter ==
  ASSUME NEW p, LookUpInv(p), UNCHANGED <<lookUp, browser, asked, crossed>>
  PROVE  LookUpInv(p)'
<1>1. /\ db' = db /\ channel' = channel /\ requests' = requests /\ counts' = counts
      /\ page' = page /\ results' = results /\ search' = search /\ dialog' = dialog
      /\ asked' = asked /\ crossed' = crossed
  BY DEF lookUp, browser
<1>2. LookUpTypes(p)'
  BY <1>1 DEF LookUpInv, LookUpTypes, K!TypeOK
<1>3. OnPage'
  BY <1>1 DEF LookUpInv, OnPage
<1>4. TrueAnswers(p)'
  BY <1>1 DEF LookUpInv, TrueAnswers
<1>5. OneAsked'
  BY <1>1 DEF LookUpInv, OneAsked
<1>6. /\ K(p)!Undisturbed' = K(p)!Undisturbed /\ K(p)!SearchShown' = K(p)!SearchShown
      /\ K(p)!ErrorIsTrue /\ K(p)!SearchShowsAsked /\ K(p)!DialogShowsRow
  BY <1>1 DEF LookUpInv, K!Undisturbed, K!SearchShown
<1>7. K(p)!ErrorIsTrue' /\ K(p)!SearchShowsAsked' /\ K(p)!DialogShowsRow'
  BY <1>1, <1>6 DEF K!ErrorIsTrue, K!SearchShowsAsked, K!DialogShowsRow
<1> QED BY <1>2, <1>3, <1>4, <1>5, <1>7 DEF LookUpInv

(* A step that leaves the numbers alone keeps their invariant.              *)
LEMMA MetricsStutter ==
  ASSUME NEW p, MetricsInv(p), UNCHANGED <<metrics, crossed>>
  PROVE  MetricsInv(p)'
<1>1. /\ now' = now /\ channels' = channels /\ blocks' = blocks /\ txs' = txs
      /\ peers' = peers /\ chaincodes' = chaincodes /\ status' = status /\ byOrgs' = byOrgs
      /\ answers' = answers /\ crossed' = crossed
  BY DEF metrics
<1>2. MetricsTypes(p)'
  BY <1>1 DEF MetricsInv, MetricsTypes
<1>3. BlocksComplete(p)'
  BY <1>1 DEF MetricsInv, BlocksComplete, M!TxsIn
<1>4. StatusSoFar(p)'
  <2>1. /\ M(p)!Of(txs)' = M(p)!Of(txs) /\ M(p)!Of(blocks)' = M(p)!Of(blocks)
        /\ AskedBlocks(p)' = AskedBlocks(p) /\ StoredTxs(p)' = StoredTxs(p)
        /\ M(p)!GetBlockCount' = M(p)!GetBlockCount
        /\ M(p)!GetChaincodeCount' = M(p)!GetChaincodeCount
        /\ M(p)!GetPeerlistCount' = M(p)!GetPeerlistCount
        /\ M(p)!GetTxCount' = M(p)!GetTxCount
    BY <1>1 DEF M!Of, AskedBlocks, StoredTxs, M!TxsIn, M!GetBlockCount,
       M!GetChaincodeCount, M!GetPeerlistCount, M!GetTxCount
  <2> QED BY <1>1, <2>1 DEF MetricsInv, StatusSoFar
<1>5. OrgsSoFar(p)'
  <2>1. \A o : M(p)!TxsOf(o)' = M(p)!TxsOf(o)
    BY <1>1 DEF M!TxsOf
  <2>2. /\ M(p)!Of(txs)' = M(p)!Of(txs) /\ M(p)!Of(peers)' = M(p)!Of(peers)
        /\ byOrgs' = byOrgs /\ crossed' = crossed /\ OrgsSoFar(p)
    BY <1>1 DEF M!Of, MetricsInv
  <2>3. byOrgs'.at # "none" =>
          /\ \A r, q \in byOrgs'.rows : r.org = q.org => r = q
          /\ \A r \in byOrgs'.rows : r.count <= Cardinality(M(p)!TxsOf(r.org)')
    <3>1. byOrgs.at # "none" =>
            /\ \A r, q \in byOrgs.rows : r.org = q.org => r = q
            /\ \A r \in byOrgs.rows : r.count <= Cardinality(M(p)!TxsOf(r.org))
      BY <2>2 DEF OrgsSoFar
    <3> QED BY <2>1, <2>2, <3>1
  <2>4. byOrgs'.at = "peers" /\ ~crossed' => byOrgs'.rows = RowsOfOrgs(M(p)!Of(txs)')
    BY <2>2 DEF OrgsSoFar
  <2> DEFINE Named(made, there) == {r.row.org : r \in made \cup there} \ {""}
  <2>5. byOrgs.at = "done" /\ ~crossed =>
          \A o \in Named(M(p)!Of(txs), M(p)!Of(peers)) :
            [org |-> o, count |-> Cardinality(M(p)!TxsOf(o))] \in byOrgs.rows
    BY <2>2 DEF OrgsSoFar
  <2>6. byOrgs'.at = "done" /\ ~crossed' =>
          \A o \in Named(M(p)!Of(txs)', M(p)!Of(peers)') :
            [org |-> o, count |-> Cardinality(M(p)!TxsOf(o)')] \in byOrgs'.rows
    <3> HIDE DEF Named
    <3> QED BY <2>1, <2>2, <2>5
  <2> QED BY <2>3, <2>4, <2>6 DEF OrgsSoFar
<1> QED BY <1>2, <1>3, <1>4, <1>5 DEF MetricsInv

(* Every step is one of the part, and keeps its invariant.                 *)
LEMMA TablesSteps == TablesInv /\ [TablesNext]_tablesVars => TablesInv'
<1> SUFFICES ASSUME TablesInv, [TablesNext]_tablesVars PROVE TablesInv'
  OBVIOUS
<1>1. CASE \E p \in DOMAIN Lists : part = p /\ L(p)!Next /\ OnlyList
  <2>1. PICK p \in DOMAIN Lists : part = p /\ part' = p /\ L(p)!Next
    BY <1>1 DEF OnlyList
  <2>2. ListInv(p)'
    BY <2>1, TablesAssumption, ListSteps DEF TablesInv
  <2> QED BY <2>1, <2>2, TablesAssumption DEF TablesInv
<1>2. CASE \E p \in DOMAIN LookUps : part = p /\ K(p)!Next /\ OnlyLookUp
  <2>1. PICK p \in DOMAIN LookUps : part = p /\ part' = p /\ K(p)!Next
    BY <1>2 DEF OnlyLookUp
  <2>2. LookUpInv(p)'
    BY <2>1, TablesAssumption, LookUpSteps DEF TablesInv
  <2> QED BY <2>1, <2>2, TablesAssumption DEF TablesInv
<1>3. CASE \E p \in DOMAIN Numbers : part = p /\ M(p)!Next /\ OnlyMetrics
  <2>1. PICK p \in DOMAIN Numbers : part = p /\ part' = p /\ M(p)!Next
    BY <1>3 DEF OnlyMetrics
  <2>2. MetricsInv(p)'
    BY <2>1, TablesAssumption, MetricsSteps DEF TablesInv
  <2> QED BY <2>1, <2>2, TablesAssumption DEF TablesInv
<1>4. CASE UNCHANGED tablesVars
  <2>1. /\ part' = part /\ UNCHANGED <<listView, browser, asked, crossed>>
        /\ UNCHANGED <<lookUp, browser, asked, crossed>> /\ UNCHANGED <<metrics, crossed>>
    BY <1>4 DEF tablesVars
  <2>2. ASSUME NEW p \in DOMAIN Lists, part' = p PROVE ListInv(p)'
    BY <2>1, <2>2, ListStutter DEF TablesInv
  <2>3. ASSUME NEW p \in DOMAIN LookUps, part' = p PROVE LookUpInv(p)'
    BY <2>1, <2>3, LookUpStutter DEF TablesInv
  <2>4. ASSUME NEW p \in DOMAIN Numbers, part' = p PROVE MetricsInv(p)'
    BY <2>1, <2>4, MetricsStutter DEF TablesInv
  <2> QED BY <2>2, <2>3, <2>4 DEF TablesInv
<1> QED BY <1>1, <1>2, <1>3, <1>4 DEF TablesNext

(* The properties follow from the invariant.                               *)
LEMMA TablesShow == TablesInv => ListsAgree /\ LookUpsAgree /\ CountsFit /\ ChartsAgree
<1> SUFFICES ASSUME TablesInv PROVE ListsAgree /\ LookUpsAgree /\ CountsFit /\ ChartsAgree
  OBVIOUS
<1>1. ListsAgree
  <2> SUFFICES ASSUME NEW p \in DOMAIN Lists, part = p
               PROVE  /\ L(p)!TypeOK /\ L(p)!ShowsWhatWasAsked /\ L(p)!SweepNoGap
                      /\ L(p)!PagesOfList /\ L(p)!RangePagesPartition
    BY DEF ListsAgree
  <2>1. L(p)!ListParameters /\ ListInv(p)
    BY TablesAssumption DEF TablesInv
  <2> QED BY <2>1, ListShows, ListSweep, ListPages, ListRanges
<1>2. LookUpsAgree
  <2> SUFFICES ASSUME NEW p \in DOMAIN LookUps, part = p
               PROVE  /\ K(p)!TypeOK /\ K(p)!ErrorIsTrue
                      /\ K(p)!SearchShowsAsked /\ K(p)!DialogShowsRow
    BY DEF LookUpsAgree
  <2>1. LookUpInv(p)
    BY DEF TablesInv
  <2> QED BY <2>1 DEF LookUpInv, LookUpTypes
<1>3. CountsFit /\ ChartsAgree
  <2>1. ASSUME NEW p \in DOMAIN Numbers, part = p
        PROVE  /\ M(p)!TypeOK /\ M(p)!StatusFits /\ M(p)!OrgsOnce
               /\ M(p)!ChartsAgree /\ M(p)!LatestBlocks
    <3>1. M(p)!MetricsParameters /\ MetricsInv(p) /\ MetricsTypes(p)
      BY <2>1, TablesAssumption DEF TablesInv, MetricsInv
    <3> QED BY <3>1, MetricsFit, ChartsOfTables, ActivityOfBlocks
  <2> QED BY <2>1 DEF CountsFit, ChartsAgree
<1> QED BY <1>1, <1>2, <1>3

(* The invariant of the tables, of every list, look-up and dashboard.      *)
THEOREM TablesInvariant == TablesSpec => []TablesInv
BY InitTables, TablesSteps, PTL DEF TablesSpec

(* ListView: the query, page and size a list shows are those asked for     *)
(* last, and its channel too unless overlapping selections left the header *)
(* an interval of another; going forward through the pages passes over no  *)
(* row; the pages are those of the list, and those of a range part it.     *)
THEOREM ListsAgreeAlways == TablesSpec => []ListsAgree
BY TablesInvariant, TablesShow, PTL

(* LookUp: "not found" is said of what is not there; the search shows what *)
(* was searched for, a block under the number parseInt reads in the text   *)
(* unless that is none; a dialog shows what was clicked.                   *)
THEOREM LookUpsAgreeAlways == TablesSpec => []LookUpsAgree
BY TablesInvariant, TablesShow, PTL

(* MetricService: a status misses no block that was stored when it was     *)
(* asked for, nor one of its transactions, and counts nothing that is not  *)
(* stored, whatever is stored between its queries; every organization is   *)
(* one row.                                                                *)
THEOREM CountsFitAlways == TablesSpec => []CountsFit
BY TablesInvariant, TablesShow, PTL

(* MetricService: the charts by minute and by hour count the same          *)
(* transactions, the activity is of the latest blocks.                     *)
THEOREM ChartsAgreeAlways == TablesSpec => []ChartsAgree
BY TablesInvariant, TablesShow, PTL

=============================================================================
