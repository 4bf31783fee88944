------------------------------ MODULE Session ------------------------------
(***************************************************************************)
(* Signing in and out (client/src/state/Auth.js, services/request.js,      *)
(* state/store.js, state/redux/auth, components/App, Login and Route,      *)
(* app/rest/authroutes.ts, app/passport/local-login.ts and                 *)
(* app/middleware/auth-check.ts).                                          *)
(*                                                                         *)
(* The token is kept twice: in the local storage all tabs of the browser   *)
(* share, from where each request takes it, and in the store of a tab,     *)
(* which is filled when the page loads or a login succeeds and decides     *)
(* what the tab shows.  A refused request empties the first alone.         *)
(***************************************************************************)
EXTENDS Integers, FiniteSets

CONSTANTS
  Tabs,
  Networks,
  FirstNetwork,   \* one of them: the head of the list the server answers
  AuthEnabled,    \* those with authentication
  None,
  MaxTokens,      \* bound: tokens issued
  MaxPolls,       \* bound: requests of a page that is shown
  MaxOpens,       \* bound: page loads
  MaxFails        \* bound: requests that fail

(* The first network is one, and the bounds are numbers.                   *)
SessionParameters ==
  /\ FirstNetwork \in Networks /\ IsFiniteSet(Tabs)
  /\ {MaxTokens, MaxPolls, MaxOpens, MaxFails} \subseteq Nat

VARIABLES
  stored,    \* localStorage.token
  tab,       \* [Tabs -> page, store and Login's state; stale, a history: whether the
             \* page was loaded with an expired token]
  requests,  \* requests without an answer
  issued,    \* [1 .. n -> network of a token]
  expired,   \* tokens that are
  polls, opens, fails

vars == <<stored, tab, requests, issued, expired, polls, opens, fails>>

TypeOK ==
  /\ issued \in UNION {[1 .. k -> Networks] : k \in 0 .. MaxTokens}
  /\ expired \subseteq DOMAIN issued
  /\ stored \in DOMAIN issued \cup {None}
  /\ tab \in [Tabs -> [page : {"closed", "login", "landing", "app", "broken"},
                       auth : DOMAIN issued \cup {None}, listed : BOOLEAN,
                       network : Networks, attempted : BOOLEAN, stale : BOOLEAN]]
  /\ \A r \in requests :
       /\ r.tab \in Tabs /\ r.token \in DOMAIN issued \cup {None} /\ r.network \in Networks
       /\ r.kind \in {"networks", "login", "logout", "current", "channels", "poll"}
  /\ polls \in 0 .. MaxPolls /\ opens \in 0 .. MaxOpens /\ fails \in 0 .. MaxFails

Closed == [page |-> "closed", auth |-> None, listed |-> FALSE, network |-> FirstNetwork,
           attempted |-> FALSE, stale |-> FALSE]

Init ==
  /\ stored = None /\ tab = [t \in Tabs |-> Closed] /\ requests = {}
  /\ issued = [k \in 1 .. 0 |-> FirstNetwork] /\ expired = {}
  /\ polls = 0 /\ opens = 0 /\ fails = 0

(* post, get: every request carries what is stored now.                    *)
Ask(t, kind, net) == [tab |-> t, kind |-> kind, token |-> stored, network |-> net]

Api == {"current", "channels", "poll"}
Valid(token) == token \in DOMAIN issued \ expired

(* authCheckMiddleware is in front of /api, and not of /auth.              *)
AuthCheck(r) == r.kind \in Api => Valid(r.token)

-----------------------------------------------------------------------------

(* A page is loaded, by the user or by logout's window.location: what the  *)
(* old one awaited is lost; the list of networks is asked for; the store   *)
(* takes the stored token.  App shows LandingPage with one, which asks for *)
(* the channel, and Private leads to the login page without.               *)
Load(t, token) ==
  /\ tab' = [tab EXCEPT ![t] =
       [Closed EXCEPT !.page = IF token = None THEN "login" ELSE "landing", !.auth = token,
                      !.stale = token # None /\ ~Valid(token)]]
  /\ requests' = {r \in requests : r.tab # t} \cup
       {[Ask(t, k, FirstNetwork) EXCEPT !.token = token] :
          k \in IF token = None THEN {"networks"} ELSE {"networks", "current"}}

Open(t) ==
  /\ opens < MaxOpens /\ opens' = opens + 1
  /\ Load(t, stored)
  /\ UNCHANGED <<stored, issued, expired, polls, fails>>

(* MUTANT of NetworkList: nobody logs in by itself.                        *)
NetworkListOnly(r) ==
  /\ r.kind = "networks"
  /\ tab' = [tab EXCEPT ![r.tab].listed = TRUE, ![r.tab].network = FirstNetwork]
  /\ requests' = requests \ {r}
  /\ UNCHANGED <<stored, issued, expired, polls, opens, fails>>

(* The list is there: componentWillReceiveProps takes the first, and       *)
(* componentDidUpdate logs in when it is the only one and has no           *)
(* authentication, once.                                                   *)
NetworkList(r) ==
  /\ r.kind = "networks"
  /\ LET auto == /\ tab[r.tab].page = "login" /\ ~tab[r.tab].attempted
                 /\ Networks = {FirstNetwork} /\ AuthEnabled = {}
     IN  /\ tab' = [tab EXCEPT ![r.tab].listed = TRUE, ![r.tab].network = FirstNetwork,
                               ![r.tab].attempted = @ \/ auto]
         /\ requests' = (requests \ {r}) \cup
              IF auto THEN {Ask(r.tab, "login", FirstNetwork)} ELSE {}
  /\ UNCHANGED <<stored, issued, expired, polls, opens, fails>>

(* handleChange of the network, and submitForm.                            *)
HandleChange(t, n) ==
  /\ tab[t].page = "login" /\ tab[t].listed /\ n # tab[t].network
  /\ tab' = [tab EXCEPT ![t].network = n]
  /\ UNCHANGED <<stored, requests, issued, expired, polls, opens, fails>>

SubmitForm(t) ==
  /\ tab[t].page = "login" /\ tab[t].listed
  /\ requests' = requests \cup {Ask(t, "login", tab[t].network)}
  /\ UNCHANGED <<stored, tab, issued, expired, polls, opens, fails>>

(* MUTANT of LoggedIn: the token is stored, and not dispatched.            *)
LoggedInStorageOnly(r) ==
  /\ r.kind = "login" /\ Cardinality(DOMAIN issued) < MaxTokens
  /\ issued' = [k \in 1 .. Cardinality(DOMAIN issued) + 1 |->
                  IF k \in DOMAIN issued THEN issued[k] ELSE r.network]
  /\ stored' = Cardinality(DOMAIN issued) + 1
  /\ requests' = requests \ {r}
  /\ UNCHANGED <<tab, expired, polls, opens, fails>>

(* The strategy issues a token for the network, the tab stores it in both  *)
(* places and App, still loading, turns to LandingPage.                    *)
LoggedIn(r) ==
  /\ r.kind = "login" /\ Cardinality(DOMAIN issued) < MaxTokens
  /\ \E token \in {Cardinality(DOMAIN issued) + 1} :
       /\ issued' = [k \in 1 .. token |-> IF k = token THEN r.network ELSE issued[k]]
       /\ stored' = token
       /\ tab' = [tab EXCEPT ![r.tab].auth = token, ![r.tab].stale = FALSE,
                             ![r.tab].page = IF @ = "login" THEN "landing" ELSE @]
       /\ requests' = (requests \ {r}) \cup
            IF tab[r.tab].page = "login"
            THEN {[Ask(r.tab, "current", FirstNetwork) EXCEPT !.token = token]} ELSE {}
  /\ UNCHANGED <<expired, polls, opens, fails>>

(* login's catch dispatches errorAction: the page stays, but the store has *)
(* changed, and componentWillReceiveProps takes the first network again.   *)
LoginFails(r) ==
  /\ r.kind = "login"
  /\ requests' = requests \ {r}
  /\ tab' = [tab EXCEPT ![r.tab].network = FirstNetwork]

(* MUTANT of Refused: the token of an answer without one is stored.        *)
RefusedStores(r) ==
  /\ r.network \in AuthEnabled /\ LoginFails(r)
  /\ stored' = 0
  /\ UNCHANGED <<issued, expired, polls, opens, fails>>

(* The wrong password.                                                     *)
Refused(r) ==
  /\ r.network \in AuthEnabled /\ LoginFails(r)
  /\ UNCHANGED <<stored, issued, expired, polls, opens, fails>>

(* MUTANT of LandingGoesOn: a failure of getChannel ends it.               *)
LandingGivesUp(r, ok) ==
  CASE r.kind = "current" /\ ok ->
         /\ requests' = (requests \ {r}) \cup {Ask(r.tab, "channels", FirstNetwork)}
         /\ UNCHANGED tab
    [] r.kind = "channels" ->
         /\ requests' = requests \ {r}
         /\ tab' = [tab EXCEPT ![r.tab].page = IF ok THEN "app" ELSE "broken"]
    [] OTHER -> requests' = requests \ {r} /\ UNCHANGED tab

(* LandingPage goes on when getChannel is answered, whatever came, and     *)
(* leaves when the rest is: the header throws without channels.            *)
LandingGoesOn(r, ok) ==
  CASE r.kind = "current" ->
         /\ requests' = (requests \ {r}) \cup {Ask(r.tab, "channels", FirstNetwork)}
         /\ UNCHANGED tab
    [] r.kind = "channels" ->
         /\ requests' = requests \ {r}
         /\ tab' = [tab EXCEPT ![r.tab].page = IF ok THEN "app" ELSE "broken"]
    [] OTHER -> requests' = requests \ {r} /\ UNCHANGED tab

Served(r) ==
  /\ r.kind \in Api /\ AuthCheck(r)
  /\ LandingGoesOn(r, TRUE)
  /\ UNCHANGED <<stored, issued, expired, polls, opens, fails>>

(* withPromiseCallback: a 401 empties the local storage, whatever token    *)
(* was refused.  What follows is asked without one.                        *)
Unauthorized(r) ==
  /\ r.kind \in Api /\ ~AuthCheck(r)
  /\ stored' = None
  /\ \/ /\ r.kind = "current"
        /\ requests' = (requests \ {r}) \cup
             {[Ask(r.tab, "channels", FirstNetwork) EXCEPT !.token = None]}
        /\ UNCHANGED tab
     \/ r.kind # "current" /\ LandingGoesOn(r, FALSE)
  /\ UNCHANGED <<issued, expired, polls, opens, fails>>

(* HeaderView.logout: once answered the token is gone and the page loads.  *)
Logout(t) ==
  /\ tab[t].page = "app"
  /\ requests' = requests \cup {Ask(t, "logout", FirstNetwork)}
  /\ UNCHANGED <<stored, tab, issued, expired, polls, opens, fails>>

LoggedOut(r) ==
  /\ r.kind = "logout" /\ opens < MaxOpens
  /\ stored' = None /\ opens' = opens + 1
  /\ Load(r.tab, None)
  /\ UNCHANGED <<issued, expired, polls, fails>>

(* A request fails without an answer of the server.  Without the list of   *)
(* networks Login throws when App shows the error.                         *)
Fail(r) ==
  /\ fails < MaxFails /\ fails' = fails + 1
  /\ \/ /\ r.kind = "networks"
        /\ requests' = requests \ {r}
        /\ tab' = IF tab[r.tab].page = "login"
                  THEN [tab EXCEPT ![r.tab].page = "broken"] ELSE tab
     \/ LoginFails(r)
     \/ r.kind \notin {"networks", "login"} /\ LandingGoesOn(r, FALSE)
  /\ UNCHANGED <<stored, issued, expired, polls, opens>>

Poll(t) ==
  /\ tab[t].page = "app" /\ polls < MaxPolls
  /\ polls' = polls + 1
  /\ requests' = requests \cup {Ask(t, "poll", FirstNetwork)}
  /\ UNCHANGED <<stored, tab, issued, expired, opens, fails>>

(* expiresIn is over.                                                      *)
Expire(k) ==
  /\ k \in DOMAIN issued \ expired
  /\ expired' = expired \cup {k}
  /\ UNCHANGED <<stored, tab, requests, issued, polls, opens, fails>>

Answer ==
  \E r \in requests :
    NetworkList(r) \/ LoggedIn(r) \/ Refused(r) \/ Served(r) \/ Unauthorized(r) \/ LoggedOut(r)

Next ==
  \/ Answer
  \/ \E r \in requests : Fail(r)
  \/ \E t \in Tabs : Open(t) \/ SubmitForm(t) \/ Logout(t) \/ Poll(t)
  \/ \E t \in Tabs, n \in Networks : HandleChange(t, n)
  \/ \E k \in DOMAIN issued : Expire(k)

Spec     == Init /\ [][Next]_vars
(* Requests are answered.                                                  *)
LiveSpec == Spec /\ WF_vars(Answer)

-----------------------------------------------------------------------------
(* Properties.                                                             *)

(* With one tab what is stored is what the tab's store has, or nothing: no *)
(* order of logins, expiries, refusals and page loads leaves a token the   *)
(* page does not know of (Auth.js, store.js, auth/operations.js login).    *)
TokenOfTab ==
  Cardinality(Tabs) = 1 => \A t \in Tabs : tab[t].page # "closed" =>
                             stored \in {None, tab[t].auth}

(* A page without authentication logs in by itself                         *)
(* (Login.componentDidUpdate, README-CONFIG.md:57), if no request fails.   *)
SkipsLogin(t) ==
  (tab[t].page = "login" /\ Networks = {FirstNetwork} /\ AuthEnabled = {})
    ~> (tab[t].page # "login" \/ fails > 0 \/ Cardinality(DOMAIN issued) = MaxTokens)

(* LandingPage is left, whatever its requests come to.                     *)
LandingLeft(t) == (tab[t].page = "landing") ~> (tab[t].page # "landing")

-----------------------------------------------------------------------------
(* What the documentation says and the code does not do (README, 5).       *)

(* A token is kept until it expires, unless a logout is answered           *)
(* (docs/source/presentation/index.rst:18).                                *)
TokenKept ==
  [][Valid(stored) /\ stored' = None => \E r \in requests : LoggedOut(r)]_vars

(* Opening the explorer leads to the login page or the dashboard, with an  *)
(* expired token too (docs/source/presentation/index.rst:10).              *)
OpensPage == \A t \in Tabs : tab[t].stale => tab[t].page # "broken"

(* What a tab asks is asked of the network it was logged in to             *)
(* (docs/source/presentation/index.rst:11).                                *)
OwnNetwork ==
  [][\A r \in requests' \ requests :
       r.kind \in Api /\ Valid(r.token)' =>
         issued'[r.token] = issued'[tab'[r.tab].auth]]_vars

=============================================================================
