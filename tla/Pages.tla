-------------------------------- MODULE Pages --------------------------------
(***************************************************************************)
(* The pages of the web client: signing in (Session), the single page      *)
(* (Dashboard) and the panel of users (UserPanel), each for any number of  *)
(* configurations.  They share no state, so that a behaviour is one of a   *)
(* single configuration: part says of which, and the variables of the      *)
(* others stay what they are.                                              *)
(***************************************************************************)
EXTENDS Integers

CONSTANTS
  Nothing,     \* the None of all
  Sessions,    \* [names of parts -> constants of Session]
  Dashboards,  \* [names of parts -> constants of Dashboard]
  UserPanels   \* [names of parts -> constants of UserPanel]

VARIABLES
  part,
  stored, tab, issued, expired, polls, opens,                 \* Session
  dbError, current, panel, channelsKnown, stateChannel,       \* Dashboard
  modal, timers, handle, timeline, flights, pending, syncs,
  overlaps, selections, ticks,
  rows, users, prompt, form, saved, added, crossed, counters, \* UserPanel
  requests, fails, page, selected                             \* of two of them

session   == <<stored, tab, issued, expired, polls, opens>>
dashboard == <<dbError, current, panel, channelsKnown, stateChannel, modal, timers, handle,
               timeline, flights, pending, syncs, overlaps, selections, ticks>>
userPanel == <<rows, users, prompt, form, saved, added, crossed, counters>>
pagesVars == <<part, session, dashboard, userPanel, requests, fails, page, selected>>

S(p) == INSTANCE Session WITH
  None <- Nothing, Tabs <- Sessions[p].Tabs, Networks <- Sessions[p].Networks,
  FirstNetwork <- Sessions[p].FirstNetwork, AuthEnabled <- Sessions[p].AuthEnabled,
  MaxTokens <- Sessions[p].MaxTokens, MaxPolls <- Sessions[p].MaxPolls,
  MaxOpens <- Sessions[p].MaxOpens, MaxFails <- Sessions[p].MaxFails

D(p) == INSTANCE Dashboard WITH
  None <- Nothing, Channels <- Dashboards[p].Channels, First <- Dashboards[p].First,
  Last <- Dashboards[p].Last, Charts <- Dashboards[p].Charts,
  OtherPanels <- Dashboards[p].OtherPanels, MaxSelections <- Dashboards[p].MaxSelections,
  MaxTicks <- Dashboards[p].MaxTicks, MaxFails <- Dashboards[p].MaxFails

U(p) == INSTANCE UserPanel WITH
  None <- Nothing, Users <- UserPanels[p].Users, Root <- UserPanels[p].Root,
  Passwords <- UserPanels[p].Passwords, MaxEdits <- UserPanels[p].MaxEdits,
  MaxSubmits <- UserPanels[p].MaxSubmits, MaxDeletes <- UserPanels[p].MaxDeletes,
  MaxFails <- UserPanels[p].MaxFails, n <- counters

(* Every part has one name, and the constants its module asks for.         *)
ASSUME PagesAssumption ==
  /\ \A p \in DOMAIN Sessions : S(p)!SessionParameters
  /\ \A p \in DOMAIN Dashboards : D(p)!DashboardParameters
  /\ \A p \in DOMAIN UserPanels : U(p)!UserParameters
  /\ DOMAIN Sessions \cap DOMAIN Dashboards = {}
  /\ DOMAIN Sessions \cap DOMAIN UserPanels = {}
  /\ DOMAIN Dashboards \cap DOMAIN UserPanels = {}

-----------------------------------------------------------------------------
(* A behaviour of one of them.                                             *)

NoTabs ==
  tab = [t \in UNION {Sessions[p].Tabs : p \in DOMAIN Sessions} |-> [page |-> "none"]]

NoSession ==
  NoTabs /\ stored = Nothing /\ issued = <<>> /\ expired = {} /\ polls = 0 /\ opens = 0

NoDashboard ==
  /\ dbError = FALSE /\ current = Nothing /\ panel = <<>> /\ channelsKnown = FALSE
  /\ stateChannel = Nothing /\ modal = FALSE /\ timers = {} /\ handle = 0
  /\ timeline = Nothing /\ flights = {} /\ pending = {}
  /\ syncs = 0 /\ overlaps = 0 /\ selections = 0 /\ ticks = 0

NoUserPanel ==
  /\ rows = {} /\ users = <<>> /\ prompt = FALSE /\ form = <<>> /\ saved = <<>>
  /\ added = {} /\ crossed = FALSE /\ counters = <<>>

PagesInit ==
  \/ /\ \E p \in DOMAIN Sessions : part = p /\ S(p)!Init
     /\ NoDashboard /\ NoUserPanel /\ page = "none" /\ selected = Nothing
  \/ /\ \E p \in DOMAIN Dashboards : part = p /\ D(p)!Init
     /\ NoSession /\ NoUserPanel /\ requests = {}
  \/ /\ \E p \in DOMAIN UserPanels : part = p /\ U(p)!Init
     /\ NoSession /\ NoDashboard /\ fails = 0

OnlySession   == UNCHANGED <<part, dashboard, userPanel, page, selected>>
OnlyDashboard == UNCHANGED <<part, session, userPanel, requests>>
OnlyUserPanel == UNCHANGED <<part, session, dashboard, fails>>

PagesNext ==
  \/ \E p \in DOMAIN Sessions : part = p /\ S(p)!Next /\ OnlySession
  \/ \E p \in DOMAIN Dashboards : part = p /\ D(p)!Next /\ OnlyDashboard
  \/ \E p \in DOMAIN UserPanels : part = p /\ U(p)!Next /\ OnlyUserPanel

(* The fairness of Session and Dashboard: part never changes, so that this *)
(* is the fairness of each.                                                *)
PagesAnswered ==
  \/ \E p \in DOMAIN Sessions : part = p /\ S(p)!Answer /\ OnlySession
  \/ \E p \in DOMAIN Dashboards : part = p /\ D(p)!Answered /\ OnlyDashboard

PagesFairness == WF_pagesVars(PagesAnswered)

PagesSpec == PagesInit /\ [][PagesNext]_pagesVars /\ PagesFairness

-----------------------------------------------------------------------------
(* The properties of the modules, of every part and together with the      *)
(* types of its variables.                                                 *)

(* Session: the tab knows the token that is stored.                        *)
TokenOfTab == \A p \in DOMAIN Sessions : part = p => S(p)!TypeOK /\ S(p)!TokenOfTab

(* Dashboard: when the answers have come the header agrees with the store, *)
(* and one interval polls its channel unless selections overlapped; the    *)
(* dashboard is not shown before its panels have data; after at most one   *)
(* selection, without ticks, the activity stream is the header's channel's.*)
(* That the panels are that channel's is not among it (PanelsOfSelected).  *)
DashboardAgrees == \A p \in DOMAIN Dashboards : part = p => D(p)!TypeOK /\ D(p)!DashboardAgrees

(* UserPanel: only confirmed passwords are sent; a success is of a user    *)
(* that was added; the list has the length of the table.                   *)
UsersAgree == \A p \in DOMAIN UserPanels : part = p => U(p)!TypeOK /\ U(p)!UsersAgree

=============================================================================
