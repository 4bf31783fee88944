------------------------------ MODULE Accounts ------------------------------
(***************************************************************************)
(* Users, their roles and their tokens in the explorer process             *)
(* (app/platform/fabric/service/UserService.ts, UserDataService.ts,        *)
(* Platform.registerAdmin, the routes login, register, unregister and      *)
(* userlist, auth-check.ts and local-login.ts).                            *)
(*                                                                         *)
(* Several requests are in flight at once, each a few queries of table     *)
(* users; the administrator of each network is registered at every start,  *)
(* before the server listens.  The table has no unique constraint, so it   *)
(* is a bag: rows[n][u][role] counts the rows of user u.  A query for one  *)
(* user returns any of its rows.  An action is the code from one query to  *)
(* the next.  Abstracted: of a password only whether it is right; signing  *)
(* a token belongs to the login's query.                                   *)
(***************************************************************************)
EXTENDS Integers, FiniteSets

CONSTANTS
  Networks,
  Authenticated,  \* networks with enableAuthentication
  Names,
  Root,           \* [network]: adminCredential.id of its configuration
  Requests,       \* requests the server works on at once
  Boot,           \* Platform.registerAdmin, as a task
  None,           \* a name that is missing
  MaxFails,       \* bound: queries that are rejected
  MaxCrashes      \* bound: times the process ends

Roles == {"admin", "user"}
Tasks == Requests \cup {Boot}

ASSUME NamesAssumption == None \notin Names /\ Root \in [Networks -> Names]
ASSUME TasksAssumption == Boot \notin Requests /\ IsFiniteSet(Requests) /\ Requests # {}
ASSUME NetworksAssumption == Authenticated \subseteq Networks /\ Networks # {}
ASSUME LimitsAssumption == MaxFails \in Nat /\ MaxCrashes \in Nat

VARIABLES
  rows,      \* [network][user][role]: rows of table users
  tokens,    \* tokens that are valid: <<user, network>>
  up,        \* the explorer process: "starting", "serving", "down"
  todo,      \* networks whose administrator has still to be registered
  clients,   \* networks that have a client
  pc,        \* [task]: the query it waits for
  req,       \* [task]: what it was asked
  hadAdmin,  \* history, [task]: its user had a row as administrator since it came
  fails, crashes

vars == <<rows, tokens, up, todo, clients, pc, req, hadAdmin, fails, crashes>>

Kinds   == {"register", "unregister", "userlist"}
Request == [kind : Kinds, by : Names \cup {None}, network : Networks,
            user : Names \cup {None}, role : Roles]
Labels  == {"idle", "exist", "role", "find", "create", "destroy", "list"}

TypeOK ==
  /\ rows \in [Networks -> [Names -> [Roles -> Nat]]]
  /\ tokens \subseteq Names \X Networks
  /\ up \in {"starting", "serving", "down"}
  /\ todo \subseteq Networks /\ clients \subseteq Networks
  /\ pc \in [Tasks -> Labels]
  /\ req \in [Tasks -> Request]
  /\ hadAdmin \in [Tasks -> BOOLEAN]
  /\ fails \in 0 .. MaxFails /\ crashes \in 0 .. MaxCrashes

(* What registerAdmin asks for: by nobody, an internal request.            *)
AdminRequest(n) ==
  [kind |-> "register", by |-> None, network |-> n, user |-> Root[n], role |-> "admin"]

Init ==
  /\ rows = [n \in Networks |-> [u \in Names |-> [r \in Roles |-> 0]]]
  /\ tokens = {}
  /\ up = "starting" /\ todo = Networks /\ clients = {}
  /\ pc = [t \in Tasks |-> "idle"]
  /\ req = [t \in Tasks |-> AdminRequest(CHOOSE n \in Networks : TRUE)]
  /\ hadAdmin = [t \in Tasks |-> FALSE]
  /\ fails = 0 /\ crashes = 0

HasRow(n, u)  == \E r \in Roles : rows[n][u][r] > 0
IsAdmin(n, u) == rows[n][u]["admin"] > 0

(* MUTANT of FindUser: finds a user of any network.                        *)
FindUserAnywhere(n, u) ==
  IF \E o \in Networks : HasRow(o, u)
  THEN {r \in Roles : \E o \in Networks : rows[o][u][r] > 0}
  ELSE {"null"}

(* findOne: some row of the user, or null.                                 *)
FindUser(n, u) ==
  IF HasRow(n, u) THEN {r \in Roles : rows[n][u][r] > 0} ELSE {"null"}

-----------------------------------------------------------------------------
(* The queries.                                                            *)

Goto(t, label) == pc' = [pc EXCEPT ![t] = label]

(* The request is answered; the answer of registerAdmin makes the client.  *)
Answer(t, ok) ==
  /\ Goto(t, "idle")
  /\ IF t = Boot
     THEN /\ todo' = todo \ {req[t].network}
          /\ clients' = IF ok THEN clients \cup {req[t].network} ELSE clients
     ELSE UNCHANGED <<todo, clients>>

(* The history: who has a row as administrator in the state that comes.    *)
Remember ==
  hadAdmin' = [t \in Tasks |->
    hadAdmin[t] \/ (req[t].by \in Names /\ rows'[req[t].network][req[t].by]["admin"] > 0)]

(* UserService.isExist, asked by registerAdmin.                            *)
IsExist ==
  /\ pc[Boot] = "exist"
  /\ IF HasRow(req[Boot].network, req[Boot].user)
     THEN Answer(Boot, TRUE)
     ELSE Goto(Boot, "find") /\ UNCHANGED <<todo, clients>>
  /\ UNCHANGED <<rows, tokens, up, req, hadAdmin, fails, crashes>>

(* MUTANT of MayUnregister: the configured administrator may be removed.   *)
MayUnregisterRoot(q) == q.user # q.by /\ q.network \in clients

(* What unregister refuses besides: oneself, and the administrator of the  *)
(* configuration, which is only known for a network with a client.         *)
MayUnregister(q) ==
  /\ q.user # q.by
  /\ q.network \in clients
  /\ q.user # Root[q.network]

(* isAdminRole: the user of the token must have a row, as administrator.   *)
IsAdminRole(t) ==
  /\ pc[t] = "role"
  /\ \E found \in FindUser(req[t].network, req[t].by) :
       IF found = "admin" /\ (req[t].kind = "unregister" => MayUnregister(req[t]))
       THEN Goto(t, "find") /\ UNCHANGED <<todo, clients>>
       ELSE Answer(t, FALSE)
  /\ UNCHANGED <<rows, tokens, up, req, hadAdmin, fails, crashes>>

(* MUTANT of Find: registers without looking.                              *)
FindUnchecked(t) ==
  /\ pc[t] = "find"
  /\ Goto(t, IF req[t].kind = "register" THEN "create" ELSE "destroy")
  /\ UNCHANGED <<rows, tokens, up, todo, clients, req, hadAdmin, fails, crashes>>

(* The user must not exist to be registered, must exist to be removed.     *)
Find(t) ==
  /\ pc[t] = "find"
  /\ IF HasRow(req[t].network, req[t].user) = (req[t].kind = "unregister")
     THEN /\ Goto(t, IF req[t].kind = "register" THEN "create" ELSE "destroy")
          /\ UNCHANGED <<todo, clients>>
     ELSE Answer(t, FALSE)
  /\ UNCHANGED <<rows, tokens, up, req, hadAdmin, fails, crashes>>

RegisterUser(t) ==
  /\ pc[t] = "create"
  /\ rows' = [rows EXCEPT ![req[t].network][req[t].user][req[t].role] = @ + 1]
  /\ Answer(t, TRUE) /\ Remember
  /\ UNCHANGED <<tokens, up, req, fails, crashes>>

(* All rows of the name go.                                                *)
UnregisterUser(t) ==
  /\ pc[t] = "destroy"
  /\ rows' = [rows EXCEPT ![req[t].network][req[t].user] = [r \in Roles |-> 0]]
  /\ Answer(t, TRUE) /\ Remember
  /\ UNCHANGED <<tokens, up, req, fails, crashes>>

(* getUserlist: the rows of the token's network, for anyone with a token.  *)
GetUserlist(t) ==
  /\ pc[t] = "list"
  /\ Answer(t, TRUE)
  /\ UNCHANGED <<rows, tokens, up, req, hadAdmin, fails, crashes>>

(* A query is rejected.  The service answers 400; isExist has no handler,  *)
(* and startExplorer is rejected.                                          *)
QueryFails(t) ==
  /\ pc[t] # "idle" /\ fails < MaxFails
  /\ fails' = fails + 1
  /\ IF pc[t] = "exist"
     THEN up' = "down" /\ Goto(t, "idle") /\ UNCHANGED <<todo, clients>>
     ELSE Answer(t, FALSE) /\ UNCHANGED up
  /\ UNCHANGED <<rows, tokens, req, hadAdmin, crashes>>

Query(t) ==
  \/ IsAdminRole(t) \/ Find(t)
  \/ RegisterUser(t) \/ UnregisterUser(t) \/ GetUserlist(t)
  \/ QueryFails(t)

-----------------------------------------------------------------------------
(* Requests come.                                                          *)

(* registerAdmin for the next network: without authentication there is     *)
(* nothing to do, without credentials the network gets no client.          *)
RegisterAdmin(n) ==
  /\ up = "starting" /\ pc[Boot] = "idle" /\ n \in todo
  /\ IF n \in Authenticated
     THEN \/ /\ Goto(Boot, "exist")
             /\ req' = [req EXCEPT ![Boot] = AdminRequest(n)]
             /\ UNCHANGED <<todo, clients>>
          \/ /\ todo' = todo \ {n}
             /\ UNCHANGED <<pc, req, clients>>
     ELSE /\ todo' = todo \ {n}
          /\ clients' = clients \cup {n}
          /\ UNCHANGED <<pc, req>>
  /\ UNCHANGED <<rows, tokens, up, hadAdmin, fails, crashes>>

(* The server listens, if there is a client.                               *)
Listen ==
  /\ up = "starting" /\ todo = {} /\ pc[Boot] = "idle"
  /\ up' = IF clients = {} THEN "down" ELSE "serving"
  /\ UNCHANGED <<rows, tokens, todo, clients, pc, req, hadAdmin, fails, crashes>>

(* A network without authentication takes any name.                        *)
Authenticate(u, n) == n \in clients /\ (n \in Authenticated => HasRow(n, u))

(* The token for user and network.  A query that is rejected is nobody's   *)
(* to handle, and the process ends.                                        *)
Login(u, n) ==
  /\ up = "serving" /\ n \in clients
  /\ \/ /\ Authenticate(u, n)
        /\ tokens' = tokens \cup {<<u, n>>}
        /\ UNCHANGED <<up, fails>>
     \/ /\ n \in Authenticated /\ fails < MaxFails
        /\ fails' = fails + 1
        /\ up' = "down"
        /\ UNCHANGED tokens
  /\ UNCHANGED <<rows, todo, clients, pc, req, hadAdmin, crashes>>

Expire(k) ==
  /\ k \in tokens
  /\ tokens' = tokens \ {k}
  /\ UNCHANGED <<rows, up, todo, clients, pc, req, hadAdmin, fails, crashes>>

(* The three routes; a missing name or password is answered 400 at once.   *)
FirstQuery(kind, u) ==
  CASE kind = "userlist" -> "list"
    [] kind # "userlist" /\ u = None -> "idle"
    [] OTHER -> "role"

(* A request with a valid token; who asks and for which network is taken   *)
(* from the token.                                                         *)
Receive(t, k) ==
  /\ up = "serving" /\ t \in Requests /\ pc[t] = "idle" /\ k \in tokens
  /\ \E kind \in Kinds, u \in Names \cup {None}, r \in Roles :
       /\ kind = "userlist" => u = None
       /\ kind # "register" => r = "user"
       /\ req' = [req EXCEPT ![t] = [kind |-> kind, by |-> k[1], network |-> k[2],
                                     user |-> u, role |-> r]]
       /\ Goto(t, FirstQuery(kind, u))
  /\ hadAdmin' = [hadAdmin EXCEPT ![t] = IsAdmin(k[2], k[1])]
  /\ UNCHANGED <<rows, tokens, up, todo, clients, fails, crashes>>

(* The process ends, the requests with it; it starts again.                *)
Crash ==
  /\ up # "down" /\ crashes < MaxCrashes
  /\ crashes' = crashes + 1
  /\ up' = "down"
  /\ UNCHANGED <<rows, tokens, todo, clients, pc, req, hadAdmin, fails>>

Restart ==
  /\ up = "down"
  /\ up' = "starting" /\ todo' = Networks /\ clients' = {}
  /\ pc' = [t \in Tasks |-> "idle"]
  /\ UNCHANGED <<rows, tokens, req, hadAdmin, fails, crashes>>

Running == up # "down"

Next ==
  \/ Running /\ (IsExist \/ \E t \in Tasks : Query(t))
  \/ \E n \in Networks : RegisterAdmin(n)
  \/ Listen
  \/ \E u \in Names, n \in Networks : Login(u, n)
  \/ \E k \in tokens : Expire(k)
  \/ \E t \in Requests, k \in tokens : Receive(t, k)
  \/ Crash
  \/ Restart

Spec == Init /\ [][Next]_vars

-----------------------------------------------------------------------------
(* Properties.                                                             *)

(* Whoever removes whom, and however requests, crashes and restarts mix,   *)
(* once a network with authentication is served its configured             *)
(* administrator can log in and is one (UserService.unregister).           *)
RootAdminStays ==
  up = "serving" => \A n \in Authenticated \cap clients : IsAdmin(n, Root[n])

(* Rows change only in the network of the token, and only for a user who   *)
(* was an administrator of that network since the request came: a token    *)
(* that outlives its user, or a namesake elsewhere, gives no rights        *)
(* (auth-check.ts, isAdminRole).                                           *)
ChangesByAdmin ==
  [][\A n \in Networks : rows'[n] # rows[n] =>
       \E t \in Tasks :
         /\ req[t].network = n
         /\ pc[t] \in {"create", "destroy"} /\ pc'[t] = "idle"
         /\ t = Boot \/ hadAdmin[t]]_vars

UserRows(n, u) == rows[n][u]["admin"] + rows[n][u]["user"]

(* A name is looked up and then inserted: no more rows of one name than    *)
(* requests that run at once.                                              *)
BoundedUsers ==
  \A n \in Networks, u \in Names : UserRows(n, u) <= Cardinality(Requests)

-----------------------------------------------------------------------------
(* What the documentation says and the code does not do (README, 5).       *)

(* A user has one row (model/User.ts:50-57, a unique index of username and *)
(* networkName).                                                           *)
UniqueUsers == \A n \in Networks, u \in Names : UserRows(n, u) <= 1

=============================================================================
