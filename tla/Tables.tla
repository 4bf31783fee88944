------------------------------- MODULE Tables -------------------------------
(***************************************************************************)
(* What the web client reads from the tables and the ledger: the lists     *)
(* (ListView), the look-ups (LookUp) and the numbers of the dashboard      *)
(* (Metrics), each for any number of configurations.  They share no state, *)
(* so that a behaviour is one of a single configuration: part says of      *)
(* which, and the variables of the others stay what they are.              *)
(***************************************************************************)
EXTENDS Integers

CONSTANTS
  NaN,
  Lists,    \* [names of parts -> constants of ListView]
  LookUps,  \* [names of parts -> constants of LookUp]
  Numbers   \* [names of parts -> constants of Metrics]

VARIABLES
  part,
  header, list, range, view, ranges, sweep,                   \* ListView
  page, results, search, dialog,                              \* LookUp
  now, channels, blocks, txs, peers, chaincodes,
  status, byOrgs, answers,                                    \* Metrics
  db, channel, requests, counts, asked, crossed               \* of two or three of them

listView == <<header, list, range, view, ranges, sweep>>
lookUp   == <<page, results, search, dialog>>
metrics  == <<now, channels, blocks, txs, peers, chaincodes, status, byOrgs, answers>>
browser  == <<db, channel, requests, counts>>
tablesVars == <<part, listView, lookUp, metrics, browser, asked, crossed>>

L(p) == INSTANCE ListView WITH
  View <- Lists[p].View, Channels <- Lists[p].Channels, First <- Lists[p].First,
  Orgs <- Lists[p].Orgs, Stored <- Lists[p].Stored, Arriving <- Lists[p].Arriving,
  Sizes <- Lists[p].Sizes, Default <- Lists[p].Default, Limit <- Lists[p].Limit,
  Height <- Lists[p].Height, MaxSelections <- Lists[p].MaxSelections,
  MaxSteps <- Lists[p].MaxSteps, MaxTicks <- Lists[p].MaxTicks,
  MaxRanges <- Lists[p].MaxRanges, MaxFails <- Lists[p].MaxFails, n <- counts

K(p) == INSTANCE LookUp WITH
  Channels <- LookUps[p].Channels, First <- LookUps[p].First, Ledger <- LookUps[p].Ledger,
  Stored <- LookUps[p].Stored, Texts <- LookUps[p].Texts, ParseInt <- LookUps[p].ParseInt,
  Chaincodes <- LookUps[p].Chaincodes, Described <- LookUps[p].Described,
  MaxSearches <- LookUps[p].MaxSearches, MaxEdits <- LookUps[p].MaxEdits,
  MaxClicks <- LookUps[p].MaxClicks, MaxMoves <- LookUps[p].MaxMoves,
  MaxFails <- LookUps[p].MaxFails, n <- counts

M(p) == INSTANCE Metrics WITH
  Networks <- Numbers[p].Networks, Channels <- Numbers[p].Channels,
  Blocks <- Numbers[p].Blocks, Txs <- Numbers[p].Txs, PeerOrgs <- Numbers[p].PeerOrgs,
  Code <- Numbers[p].Code, Asking <- Numbers[p].Asking, Minute <- Numbers[p].Minute,
  Hour <- Numbers[p].Hour, Day <- Numbers[p].Day, MaxNow <- Numbers[p].MaxNow,
  MaxAsked <- Numbers[p].MaxAsked, asked <- answers

(* Every part has one name, and the constants its module asks for.         *)
ASSUME TablesAssumption ==
  /\ \A p \in DOMAIN Lists : L(p)!ListParameters
  /\ \A p \in DOMAIN LookUps : K(p)!LookUpParameters
  /\ \A p \in DOMAIN Numbers : M(p)!MetricsParameters
  /\ DOMAIN Lists \cap DOMAIN LookUps = {} /\ DOMAIN Lists \cap DOMAIN Numbers = {}
  /\ DOMAIN LookUps \cap DOMAIN Numbers = {}

-----------------------------------------------------------------------------
(* A behaviour of one of them.                                             *)

NoList ==
  /\ header = <<>> /\ list = <<>> /\ range = <<>> /\ view = <<>>
  /\ ranges = {} /\ sweep = {}
NoLookUp  == page = "none" /\ results = <<>> /\ search = <<>> /\ dialog = <<>>
NoMetrics ==
  /\ now = 0 /\ channels = {} /\ blocks = {} /\ txs = {} /\ peers = {} /\ chaincodes = {}
  /\ status = <<>> /\ byOrgs = <<>> /\ answers = 0
NoBrowser == db = {} /\ channel = "none" /\ requests = {} /\ counts = <<>> /\ asked = {}

TablesInit ==
  \/ \E p \in DOMAIN Lists : part = p /\ L(p)!Init /\ NoLookUp /\ NoMetrics
  \/ \E p \in DOMAIN LookUps : part = p /\ K(p)!Init /\ NoList /\ NoMetrics
  \/ \E p \in DOMAIN Numbers : part = p /\ M(p)!Init /\ NoList /\ NoLookUp /\ NoBrowser

OnlyList    == UNCHANGED <<part, lookUp, metrics>>
OnlyLookUp  == UNCHANGED <<part, listView, metrics>>
OnlyMetrics == UNCHANGED <<part, listView, lookUp, browser, asked>>

TablesNext ==
  \/ \E p \in DOMAIN Lists : part = p /\ L(p)!Next /\ OnlyList
  \/ \E p \in DOMAIN LookUps : part = p /\ K(p)!Next /\ OnlyLookUp
  \/ \E p \in DOMAIN Numbers : part = p /\ M(p)!Next /\ OnlyMetrics

TablesSpec == TablesInit /\ [][TablesNext]_tablesVars

-----------------------------------------------------------------------------
(* The properties of the modules, of every part and together with the      *)
(* types of its variables.                                                 *)

(* ListView: the rows are those asked for last, of the selected channel    *)
(* unless an interval of another was left; going forward no row is passed  *)
(* over; the pages are those of the list, and of the range.                *)
ListsAgree ==
  \A p \in DOMAIN Lists : part = p =>
    /\ L(p)!TypeOK /\ L(p)!ShowsWhatWasAsked /\ L(p)!SweepNoGap /\ L(p)!PagesOfList
    /\ L(p)!RangePagesPartition

(* LookUp: "not found" is true; the search shows what the server made of   *)
(* what was searched, a dialog what was clicked.                           *)
LookUpsAgree ==
  \A p \in DOMAIN LookUps : part = p =>
    K(p)!TypeOK /\ K(p)!ErrorIsTrue /\ K(p)!SearchShowsAsked /\ K(p)!DialogShowsRow

(* Metrics: a status misses no complete block and counts nothing that is   *)
(* not stored; every organization is one row.                              *)
CountsFit ==
  \A p \in DOMAIN Numbers : part = p => M(p)!TypeOK /\ M(p)!StatusFits /\ M(p)!OrgsOnce

(* Metrics: the charts agree with each other, the activity is of the       *)
(* latest blocks.                                                          *)
ChartsAgree ==
  \A p \in DOMAIN Numbers : part = p => M(p)!ChartsAgree /\ M(p)!LatestBlocks

=============================================================================
