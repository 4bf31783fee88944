------------------------------ MODULE ListView ------------------------------
(***************************************************************************)
(* The lists of blocks and of transactions: searched, paged and polled in  *)
(* the browser while the sync process inserts                              *)
(* (client/src/components/Lists/Blocks.js and Transactions.js, the list    *)
(* operations and reducers of state/redux/tables, app/rest/dbroutes.ts     *)
(* and platformroutes.ts, CRUDService.getBlockAndTxList and getTxList,     *)
(* Proxy.fetchDataByBlockRange).                                           *)
(*                                                                         *)
(* The database is a set of transactions; a block is there when one of its *)
(* transactions is.  A query is the set of organizations chosen, {} for    *)
(* the default; its dates are left out, as if all rows were in the window. *)
(* An answer goes to the store, from where the view and HeaderView take    *)
(* the query and the page of their next requests.                          *)
(***************************************************************************)
EXTENDS Integers, Sequences, FiniteSetsExt

CONSTANTS
  View,           \* "blocks" or "transactions"
  Channels, First,
  Orgs,
  Stored,         \* transactions (Row) in the database at first
  Arriving,       \* those the sync process inserts, a block at a time
  Sizes,          \* rows per page offered, none of them 0, Default the first
  Default,
  Limit,          \* state.rangeLimit
  Height,         \* [Channels -> number of blocks in the ledger]
  NaN,            \* Math.ceil(undefined / size)
  MaxSelections,  \* bound: channels selected
  MaxSteps,       \* bound: searches, page and size changes
  MaxTicks,       \* bound: intervals and notifications
  MaxRanges,      \* bound: range searches
  MaxFails        \* bound: requests that fail

Row == [channel : Channels, num : Nat, tx : Nat, org : Orgs]

(* The database is finite; the sizes of pages are positive, and no number  *)
(* of pages is NaN.                                                        *)
ListParameters ==
  /\ View \in {"blocks", "transactions"} /\ First \in Channels
  /\ Stored \subseteq Row /\ Arriving \subseteq Row
  /\ IsFiniteSet(Stored) /\ IsFiniteSet(Arriving)
  /\ Sizes \subseteq Nat \ {0} /\ Default \in Sizes /\ NaN \notin Nat
  /\ Limit \in Nat /\ Height \in [Channels -> Nat]
  /\ {MaxSelections, MaxSteps, MaxTicks, MaxRanges, MaxFails} \subseteq Nat

VARIABLES
  db,        \* transactions stored
  channel,   \* props.currentChannel
  header,    \* HeaderView: channels chosen and not answered yet (selecting), intervals
             \* that run (timers: <<id, channel>>), the id of the one interVal refers to
             \* (handle), selections without theirs yet (waiting), state.currentChannel
  list,      \* tables.blockListSearch or transactionListSearch; of is its channel
  range,     \* tables.blockRangeSearch: loaded, rows, and what they are of
  view,      \* state of Blocks or Transactions
  requests,  \* list requests without an answer
  ranges,    \* range requests without an answer
  asked,     \* history: the query the user searched last
  crossed,   \* history: something was asked while a request was in flight
  sweep,     \* history: rows seen going forward from page 1
  n          \* counters of the bounds

vars == <<db, channel, header, list, range, view, requests, ranges, asked, crossed,
          sweep, n>>

Ceil(a, b) == (a + b - 1) \div b
PageParams == [page : Nat \ {0}, size : Sizes]

-----------------------------------------------------------------------------
(* The queries.                                                            *)

OfOrgs(t, q) == q = {} \/ t.org \in q

(* What a row of the list is: a block, or a transaction.                   *)
Entry(t) == IF View = "blocks" THEN [t EXCEPT !.tx = 0, !.org = CHOOSE o \in Orgs : TRUE]
            ELSE t
Entries(d, c, q) == {Entry(t) : t \in {u \in d : u.channel = c /\ OfOrgs(u, q)}}

(* The sequences of all elements of a finite set, each once.               *)
InAnyOrder(S) == Injection(1 .. Cardinality(S), S)

(* ORDER BY blocknum DESC, ORDER BY createdt DESC: equal ones in any order. *)
Orders(S) == {s \in InAnyOrder(S) : \A i, j \in DOMAIN s : i < j => s[i].num >= s[j].num}

(* MUTANT of Page: the offset counts from one.                             *)
PageFromOne(s, p) ==
  SubSeq(s, (p.page - 1) * p.size + 2, Min({p.page * p.size + 1, Len(s)}))

(* LIMIT size OFFSET (page - 1) * size                                     *)
Page(s, p) == SubSeq(s, (p.page - 1) * p.size + 1, Min({p.page * p.size, Len(s)}))

(* The count of getBlockAndTxList joins transactions on the number of the  *)
(* block alone, so those of other channels count; getTxList's does not.    *)
BlockCount(d, c, q) ==
  Cardinality({t.num : t \in {u \in d : u.channel = c}}
                \cap {t.num : t \in {u \in d : OfOrgs(u, q)}})
(* MUTANT of TxCount: the count looks at every channel.                    *)
TxCountOfAll(d, c, q) == Cardinality({t \in d : OfOrgs(t, q)})

TxCount(d, c, q) == Cardinality(Entries(d, c, q))
RowCount(d, c, q) == IF View = "blocks" THEN BlockCount(d, c, q) ELSE TxCount(d, c, q)

(* What fetchDataByBlockRange returns: each block from the database or the *)
(* ledger up to the first that neither has.                                *)
FetchRange(c, a, b) == [i \in 1 .. Max({0, Min({b, Height[c] - 1}) - a + 1}) |-> a + i - 1]

-----------------------------------------------------------------------------

NoRange == [loaded |-> TRUE, rows |-> <<>>, channel |-> First]
Idle == [page |-> 0, size |-> Default, queryFlag |-> FALSE, defaultQuery |-> TRUE, orgs |-> {},
         search |-> FALSE, polling |-> FALSE, brs |-> FALSE, mounted |-> FALSE]

Headers == [selecting : SUBSET Channels, timers : SUBSET (Nat \X Channels), handle : Nat,
            waiting : SUBSET (Nat \X Channels), state : Channels]

TypeOK ==
  /\ db \subseteq Row /\ channel \in Channels /\ header \in Headers
  /\ Range(list.rows) \subseteq Entries(db, list.of, list.query)
  /\ list.pages \in Nat \cup {NaN} /\ list.query \subseteq Orgs
  /\ list.params \in PageParams /\ list.of \in Channels
  /\ range.loaded \in BOOLEAN /\ Range(range.rows) \subseteq 0 .. Height[range.channel] - 1
  /\ view \in [page : Nat, size : Sizes, queryFlag : BOOLEAN, defaultQuery : BOOLEAN,
               orgs : SUBSET Orgs, search : BOOLEAN, polling : BOOLEAN, brs : BOOLEAN,
               mounted : BOOLEAN]
  /\ \A r \in requests : r.stage \in {"sent", "counted", "read"} /\ r.params \in PageParams
  /\ \A k \in DOMAIN n : n[k] \in Nat

(* LandingPage has fetched the first page with the default query.          *)
Init ==
  /\ db = Stored /\ channel = First
  /\ header = [selecting |-> {}, timers |-> {<<0, First>>}, handle |-> 0, waiting |-> {},
               state |-> First]
  /\ \E s \in Orders(Entries(Stored, First, {})) :
       list = [rows |-> Page(s, [page |-> 1, size |-> Default]), query |-> {}, of |-> First,
               pages |-> Ceil(RowCount(Stored, First, {}), Default),
               params |-> [page |-> 1, size |-> Default]]
  /\ range = NoRange /\ view = Idle
  /\ requests = {} /\ ranges = {}
  /\ asked = {} /\ crossed = FALSE /\ sweep = {}
  /\ n = [sent |-> 0, selections |-> 0, steps |-> 0, ticks |-> 0, ranges |-> 0, fails |-> 0]

Count(k) == [n EXCEPT ![k] = @ + 1]

Request(id, c, q, p, then, next) ==
  [id |-> id, channel |-> c, query |-> q, params |-> p, then |-> then, next |-> next,
   stage |-> "sent", pages |-> NaN, rows |-> <<>>]

(* MUTANT of Query: only the search itself sends its organizations.         *)
QueryForgets(v) == IF v.queryFlag THEN v.orgs ELSE {}

(* searchBlockList, searchTransactionList: what is asked with state v.      *)
Query(v) == IF v.queryFlag THEN v.orgs ELSE IF v.defaultQuery THEN {} ELSE list.query
Asked(v) == [v EXCEPT !.queryFlag = FALSE,
                      !.defaultQuery = IF v.queryFlag THEN @ ELSE FALSE]
SearchList(v, c, then, next) ==
  Request(n.sent + 1, c, Query(v), [page |-> v.page + 1, size |-> v.size], then, next)

(* handleSearch with state v: a new interval, a request, and search set    *)
(* when it is answered.                                                    *)
HandleSearch(v, k, next) ==
  /\ view' = [Asked(v) EXCEPT !.polling = TRUE]
  /\ requests' = requests \cup {SearchList(v, channel, "search", next)}
  /\ n' = [Count(k) EXCEPT !.sent = @ + 1]
  /\ crossed' = (crossed \/ requests # {})

(* componentDidMount                                                       *)
BlocksMount ==
  /\ View = "blocks" /\ ~view.mounted
  /\ view' = [Asked(view) EXCEPT !.mounted = TRUE]
  /\ requests' = requests \cup {SearchList(view, channel, "none", FALSE)}
  /\ n' = [n EXCEPT !.sent = @ + 1]
  /\ crossed' = (crossed \/ requests # {})
  /\ UNCHANGED <<db, channel, header, list, range, ranges, asked, sweep>>

TransactionsMount ==
  /\ View = "transactions" /\ ~view.mounted
  /\ HandleSearch([view EXCEPT !.mounted = TRUE], "ticks", FALSE)
  /\ UNCHANGED <<db, channel, header, list, range, ranges, asked, sweep>>

(* componentWillUnmount, and the state is gone; its requests are answered. *)
Unmount ==
  /\ view.mounted /\ n.steps < MaxSteps
  /\ view' = Idle /\ n' = Count("steps")
  /\ asked' = {}
  /\ requests' = {[r EXCEPT !.then = "none"] : r \in requests}
  /\ UNCHANGED <<db, channel, header, list, range, ranges, crossed, sweep>>

(* The Search button, with organizations chosen; componentDidUpdate        *)
(* searches.                                                               *)
SearchClick(q) ==
  /\ view.mounted /\ n.steps < MaxSteps
  /\ asked' = q
  /\ HandleSearch([view EXCEPT !.orgs = q, !.page = 0, !.queryFlag = TRUE,
                               !.defaultQuery = FALSE, !.brs = FALSE], "steps", FALSE)
  /\ UNCHANGED <<db, channel, header, list, range, ranges, sweep>>

(* handleClearSearch: the list stays; the interval of Blocks stops.        *)
ClearSearch ==
  /\ view.mounted
  /\ view' = [view EXCEPT !.orgs = {}, !.polling = @ /\ View = "transactions"]
  /\ UNCHANGED <<db, channel, header, list, range, requests, ranges, asked, crossed,
                 sweep, n>>

Reversed(s) == [i \in DOMAIN s |-> s[Len(s) + 1 - i]]

(* MUTANT of RangePage: slice takes its end as included.                   *)
RangePageIncluded(p) ==
  LET s == Reversed(range.rows)
  IN  SubSeq(s, p * view.size + 1, Min({(p + 1) * view.size + 1, Len(s)}))

(* What the table shows and how many pages it says there are.              *)
RangePage(p) ==
  LET s == Reversed(range.rows)
  IN  SubSeq(s, p * view.size + 1, Min({(p + 1) * view.size, Len(s)}))
Shown   == IF view.brs THEN RangePage(view.page) ELSE list.rows
NoOfPages == IF view.brs THEN Ceil(Len(range.rows), view.size) ELSE list.pages

(* MUTANT of TurnPage: the back button of the first page is enabled.       *)
TurnPageBelow(p) ==
  /\ view.mounted /\ n.steps < MaxSteps /\ Shown # <<>>
  /\ ~view.brs
  /\ HandleSearch([view EXCEPT !.page = p], "steps", FALSE)
  /\ UNCHANGED <<db, channel, header, list, range, ranges, asked, sweep>>

(* The pagination, which is there when there are rows.                     *)
TurnPage(p) ==
  /\ view.mounted /\ n.steps < MaxSteps /\ Shown # <<>>
  /\ \/ p = view.page - 1
     \/ p = view.page + 1 /\ p # NoOfPages
  /\ p >= 0
  /\ IF view.brs
     THEN /\ view' = [view EXCEPT !.page = p] /\ n' = Count("steps")
          /\ UNCHANGED <<requests, crossed>>
     ELSE HandleSearch([view EXCEPT !.page = p], "steps",
                       requests = {} /\ list.of = channel
                         /\ list.params = [page |-> p, size |-> view.size])
  /\ UNCHANGED <<db, channel, header, list, range, ranges, asked, sweep>>

HandleRowsChange(s) ==
  /\ view.mounted /\ n.steps < MaxSteps /\ Shown # <<>> /\ s # view.size
  /\ HandleSearch([view EXCEPT !.page = 0, !.size = s], "steps", FALSE)
  /\ UNCHANGED <<db, channel, header, list, range, ranges, asked, sweep>>

(* The interval.                                                           *)
Poll ==
  /\ view.polling /\ n.ticks < MaxTicks
  /\ view' = Asked(view)
  /\ requests' = requests \cup {SearchList(view, channel, "none", FALSE)}
  /\ n' = [Count("ticks") EXCEPT !.sent = @ + 1]
  /\ crossed' = (crossed \/ requests # {})
  /\ UNCHANGED <<db, channel, header, list, range, ranges, asked, sweep>>

(* HeaderView.syncData asks with the query and the page of the store: each *)
(* interval for the channel it was set with, a notification for the one in *)
(* the state, which follows the store at the next change of the props.     *)
HeaderRequest(id, c) == Request(id, c, list.query, list.params, "none", FALSE)
HeaderSync ==
  /\ n.ticks < MaxTicks
  /\ \E c \in {t[2] : t \in header.timers} \cup {header.state, channel} :
       requests' = requests \cup {HeaderRequest(n.sent + 1, c)}
  /\ n' = [Count("ticks") EXCEPT !.sent = @ + 1]
  /\ crossed' = (crossed \/ requests # {})
  /\ UNCHANGED <<db, channel, header, list, range, view, ranges, asked, sweep>>

(* handleChange clears the interval interVal refers to, and sets another   *)
(* when its requests are answered: a selection before that leaves one that *)
(* nothing clears.                                                         *)
SelectChannel(c) ==
  /\ c # channel /\ n.selections < MaxSelections
  /\ header' = [header EXCEPT !.selecting = @ \cup {c},
                              !.timers = {t \in @ : t[1] # header.handle},
                              !.waiting = @ \cup {<<n.sent + 1, c>>}]
  /\ requests' = requests \cup {HeaderRequest(n.sent + 1, c)}
  /\ n' = [Count("selections") EXCEPT !.sent = @ + 1]
  /\ crossed' = (crossed \/ requests # {})
  /\ UNCHANGED <<db, channel, list, range, view, ranges, asked, sweep>>

SetInterval(w) ==
  /\ \A r \in requests : r.id # w[1]
  /\ header' = [header EXCEPT !.timers = @ \cup {w}, !.handle = w[1],
                              !.waiting = @ \ {w}]
  /\ UNCHANGED <<db, channel, list, range, view, requests, ranges, asked, crossed,
                 sweep, n>>

(* changeChannel is answered: the header asks again, and componentDidUpdate *)
(* of the view when it has searched.                                        *)
ChannelChanged(c) ==
  /\ c \in header.selecting
  /\ header' = [header EXCEPT !.selecting = @ \ {c}, !.state = channel] /\ channel' = c
  /\ IF view.search
     THEN /\ view' = [Asked(view) EXCEPT !.polling = TRUE]
          /\ requests' = requests \cup {HeaderRequest(n.sent + 1, c),
               [SearchList(view, c, "none", FALSE) EXCEPT !.id = n.sent + 2]}
     ELSE /\ requests' = requests \cup {HeaderRequest(n.sent + 1, c)}
          /\ UNCHANGED view
  /\ n' = [n EXCEPT !.sent = @ + 2]
  /\ crossed' = (crossed \/ requests # {})
  /\ UNCHANGED <<db, list, range, ranges, asked, sweep>>

-----------------------------------------------------------------------------
(* The server and the answers.                                             *)

(* The sync process stores a block with its transactions.                  *)
Insert ==
  /\ \E t \in Arriving \ db :
       db' = db \cup {u \in Arriving : u.channel = t.channel /\ u.num = t.num}
  /\ UNCHANGED <<channel, header, list, range, view, requests, ranges, asked, crossed,
                 sweep, n>>

(* First the count, for page 1 only; then the rows.                        *)
CountRows(r) ==
  /\ r.stage = "sent"
  /\ requests' = (requests \ {r}) \cup
       {[r EXCEPT !.stage = "counted",
                  !.pages = IF r.params.page = 1
                            THEN Ceil(RowCount(db, r.channel, r.query), r.params.size)
                            ELSE NaN]}
  /\ UNCHANGED <<db, channel, header, list, range, view, ranges, asked, crossed, sweep, n>>

ReadRows(r) ==
  /\ r.stage = "counted"
  /\ \E s \in Orders(Entries(db, r.channel, r.query)) :
       requests' = (requests \ {r}) \cup
         {[r EXCEPT !.stage = "read", !.rows = Page(s, r.params)]}
  /\ UNCHANGED <<db, channel, header, list, range, view, ranges, asked, crossed, sweep, n>>

(* The reducer keeps the number of pages when the answer has none.         *)
StoreList(r) ==
  list' = [rows |-> r.rows, query |-> r.query, params |-> r.params, of |-> r.channel,
           pages |-> IF r.pages \in {0, NaN} THEN list.pages ELSE r.pages]

Searched(r) ==
  IF r.then = "search" THEN view' = [view EXCEPT !.search = TRUE] ELSE UNCHANGED view

(* The list operation gets its answer.                                     *)
Deliver(r) ==
  /\ r.stage = "read"
  /\ StoreList(r) /\ Searched(r)
  /\ requests' = {[x EXCEPT !.next = FALSE] : x \in requests \ {r}}
  /\ sweep' = IF r.params.page = 1 THEN Range(r.rows)
              ELSE IF r.next /\ sweep # {} THEN sweep \cup Range(r.rows) ELSE {}
  /\ header' = [header EXCEPT !.state = channel]
  /\ UNCHANGED <<db, channel, range, ranges, asked, crossed, n>>

(* It fails, and says so on the console.                                   *)
Fail(r) ==
  /\ n.fails < MaxFails
  /\ Searched(r)
  /\ requests' = requests \ {r} /\ n' = Count("fails")
  /\ UNCHANGED <<db, channel, header, list, range, ranges, asked, crossed, sweep>>

-----------------------------------------------------------------------------
(* The search for a range of blocks.                                       *)

(* handleRangeSubmit: in order, within the limit.                          *)
ValidRange(a, b) == a <= b /\ b - a < Limit

(* The rows are cleared until the answer.                                  *)
RangeSubmit(a, b) ==
  /\ View = "blocks" /\ view.mounted /\ n.ranges < MaxRanges
  /\ ValidRange(a, b)
  /\ ranges' = ranges \cup {[id |-> n.ranges, channel |-> channel, from |-> a, to |-> b]}
  /\ range' = [range EXCEPT !.loaded = FALSE, !.rows = <<>>]
  /\ view' = [view EXCEPT !.search = TRUE, !.brs = TRUE, !.page = 0]
  /\ n' = Count("ranges")
  /\ UNCHANGED <<db, channel, header, list, requests, asked, crossed, sweep>>

(* No block is an answer too, a text without rows.                         *)
RangeAnswer(r) ==
  /\ ranges' = ranges \ {r}
  /\ range' = [loaded |-> TRUE, rows |-> FetchRange(r.channel, r.from, r.to),
               channel |-> r.channel]
  /\ UNCHANGED <<db, channel, header, list, view, requests, asked, crossed, sweep, n>>

(* A failure leaves it not loaded: getLoaded(true) is made, not dispatched. *)
RangeFail(r) ==
  /\ n.fails < MaxFails
  /\ ranges' = ranges \ {r} /\ n' = Count("fails")
  /\ UNCHANGED <<db, channel, header, list, range, view, requests, asked, crossed, sweep>>

Answer ==
  \/ \E r \in requests : CountRows(r) \/ ReadRows(r) \/ Deliver(r)
  \/ \E r \in ranges : RangeAnswer(r)

Next ==
  \/ BlocksMount \/ TransactionsMount \/ Unmount
  \/ \E q \in SUBSET Orgs : SearchClick(q)
  \/ ClearSearch
  \/ \E p \in {view.page - 1, view.page + 1} : TurnPage(p)
  \/ \E s \in Sizes : HandleRowsChange(s)
  \/ Poll \/ HeaderSync
  \/ \E c \in Channels : SelectChannel(c) \/ ChannelChanged(c)
  \/ \E w \in header.waiting : SetInterval(w)
  \/ Insert \/ Answer
  \/ \E r \in requests : Fail(r)
  \/ \E a, b \in 0 .. Limit + 1 : RangeSubmit(a, b)
  \/ \E r \in ranges : RangeFail(r)

Spec     == Init /\ [][Next]_vars
(* Every request is served and answered.                                   *)
LiveSpec == Spec /\ WF_vars(Answer)

-----------------------------------------------------------------------------
(* Properties.                                                             *)

Quiet == requests = {} /\ header.selecting = {} /\ n.fails = 0

(* No interval of the header asks for a channel that was left.             *)
OwnIntervals == \A t \in header.timers : t[2] = channel

(* What is shown is what was asked for last - query, page, size and, unless *)
(* overlapping selections left an interval of another, channel - if nothing *)
(* was asked while an answer was awaited, through searches, pages,          *)
(* intervals, notifications and selections (searchBlockList's queryFlag,    *)
(* defaultQuery and blockListSearchQuery).                                  *)
ShowsWhatWasAsked ==
  Quiet /\ ~crossed /\ view.mounted /\ ~view.brs =>
    /\ list.query = asked /\ (OwnIntervals => list.of = channel)
    /\ list.params = [page |-> view.page + 1, size |-> view.size]

(* Going forward from page 1, each page asked when the one before was      *)
(* shown, no row that was there from the start is passed over, though      *)
(* blocks are inserted before them: not when an older one is seen, nor at  *)
(* the end of the list (ORDER BY, LIMIT and OFFSET).                       *)
SweepNoGap ==
  View = "blocks" => \A e \in Entries(Stored, list.of, list.query) :
    /\ sweep # {}
    /\ \/ \E s \in sweep : s.channel = list.of /\ e.num > s.num
       \/ list.params.page * list.params.size
             >= Cardinality(Entries(db, list.of, list.query))
    => e \in sweep

(* The number of pages is that of the list, unless something was inserted   *)
(* (getBlockAndTxList and getTxList count for page 1, the reducer keeps it).*)
PagesOfList ==
  View = "transactions" /\ Quiet /\ ~crossed /\ n.selections = 0 /\ db = Stored
    /\ list.rows # <<>> =>
    list.pages = Ceil(Cardinality(Entries(db, list.of, list.query)), list.params.size)

(* The pages of a range hold each of its blocks once.                       *)
RangePagesPartition ==
  view.brs =>
    /\ UNION {Range(RangePage(p)) : p \in 0 .. NoOfPages - 1} = Range(range.rows)
    /\ \A p, q \in 0 .. NoOfPages - 1 :
         p # q => Range(RangePage(p)) \cap Range(RangePage(q)) = {}

-----------------------------------------------------------------------------
(* What the documentation says and the code does not do (README, 5).       *)

(* The search the user made is kept: the rows and what is polled next are   *)
(* of its organizations (docs/source/presentation/index.rst:76).            *)
SearchKept == Quiet /\ view.mounted => list.query = asked

(* The rows of a list are of the selected channel, whatever was selected    *)
(* before (docs/source/introduction.rst:25).                                *)
ListOfChannel ==
  Quiet /\ ~crossed /\ view.mounted /\ ~view.brs => list.of = channel

(* The rows of a range are of the selected channel                          *)
(* (docs/source/introduction.rst:25).                                       *)
RangeOfChannel ==
  view.brs /\ Quiet /\ ranges = {} /\ range.rows # <<>> => range.channel = channel

=============================================================================
