------------------------------- MODULE LookUp -------------------------------
(***************************************************************************)
(* Looking up one thing: the search field of the dashboard and the dialogs *)
(* of the lists (client/src/components/Lists/SearchByQuery.js, Blocks.js,  *)
(* Transactions.js, Chaincodes.js and Channels.js, View/DashboardView.js,  *)
(* the operations and reducers of state/redux/tables, platformroutes.ts,   *)
(* dbroutes.ts, Proxy and FabricGateway.query...).                         *)
(*                                                                         *)
(* A look-up asks the database, the ledger or one after the other, while   *)
(* the sync process moves transactions from the ledger to the database.    *)
(* Each kind of answer has one place in the store, from where the dialogs  *)
(* show it.  Names, numbers and hashes are strings that are only compared; *)
(* of a number that is typed the route takes what parseInt reads in it.    *)
(***************************************************************************)
EXTENDS Integers, FiniteSets

CONSTANTS
  Channels, First,
  Ledger,       \* transactions: channel, num, hash of the block, tx
  Stored,       \* those in the database at first
  Texts,        \* what may be typed
  ParseInt,     \* [those isNaN takes for a number, of at most 9 characters ->
                \*   the number of a block that parseInt reads in them, or NaN]
  NaN,
  Chaincodes,
  Described,    \* chaincodes that answer GetMetadata
  MaxSearches,  \* bound: searches submitted
  MaxEdits,     \* bound: changes of the field or of the option
  MaxClicks,    \* bound: rows clicked
  MaxMoves,     \* bound: pages and channels changed
  MaxFails      \* bound: requests that are rejected

(* Transactions are of the channels, and an identifier names one of them.  *)
LookUpParameters ==
  /\ First \in Channels /\ Described \subseteq Chaincodes
  /\ Stored \subseteq Ledger
  /\ \A t \in Ledger : t.channel \in Channels
  /\ \A t, u \in Ledger : t.tx = u.tx => t.channel = u.channel
  /\ {MaxSearches, MaxEdits, MaxClicks, MaxMoves, MaxFails} \subseteq Nat

VARIABLES
  db,        \* transactions stored
  channel,   \* props.currentChannel
  page,      \* "dashboard" or "lists"
  results,   \* [Slots -> rows of the store]
  search,    \* state of SearchByQuery
  dialog,    \* the dialog of a list; row, a history: what was clicked
  requests,  \* requests without an answer
  asked,     \* history: what was submitted last
  crossed,   \* history: something was done before it was answered
  n          \* counters of the bounds

vars == <<db, channel, page, results, search, dialog, requests, asked, crossed, n>>

Options == {"Txn Hash", "Block No", "Block Hash", "Block By Txn ID"}
Slots   == Options \cup {"transaction", "metadata", "members"}

None       == [state |-> "none", key |-> "", channel |-> First]
Empty      == [None EXCEPT !.state = "empty"]
Absent     == [None EXCEPT !.state = "absent"]
Found(k, c) == [state |-> "found", key |-> k, channel |-> c]

Invalid    == [None EXCEPT !.state = "invalid"]

Keys == Texts \cup Chaincodes \cup Channels \cup {t.tx : t \in Ledger}
          \cup {ParseInt[k] : k \in DOMAIN ParseInt}
Result ==
  {None, Empty, Absent, Invalid} \cup {Found(k, c) : k \in Keys, c \in Channels}
Row == [slot : Slots, key : Keys \cup {""}, channel : Channels]
Nothing == [slot |-> "Txn Hash", key |-> "", channel |-> First]
NoSearch == [text |-> "", option |-> "Txn Hash", error |-> "", open |-> FALSE]
NoDialog == [open |-> FALSE, row |-> Nothing]

TypeOK ==
  /\ Stored \subseteq db /\ db \subseteq Ledger /\ channel \in Channels
  /\ page \in {"dashboard", "lists"} /\ results \in [Slots -> Result]
  /\ search \in [text : Texts \cup {""}, option : Options,
                 error : {"", "invalid", "absent"}, open : BOOLEAN]
  /\ dialog \in [open : BOOLEAN, row : Row] /\ asked \in Row /\ crossed \in BOOLEAN
  /\ \A r \in requests :
       r.query \in Row /\ r.row \in Row /\ r.result \in Result
         /\ r.then \in {"search", "dialog", "none"}
  /\ \A k \in DOMAIN n : n[k] \in Nat

Init ==
  /\ db = Stored /\ channel = First /\ page = "dashboard"
  /\ results = [s \in Slots |-> None]
  /\ search = NoSearch /\ dialog = NoDialog /\ requests = {}
  /\ asked = Nothing /\ crossed = FALSE
  /\ n = [searches |-> 0, edits |-> 0, clicks |-> 0, moves |-> 0, fails |-> 0]

Count(k) == [n EXCEPT ![k] = @ + 1]

(* The Dialog is modal.                                                    *)
DialogShown == dialog.open \/ (search.open /\ search.error = "")

-----------------------------------------------------------------------------
(* The server.                                                             *)

(* getTransactionByID does not look at the channel.                        *)
TransactionByID(k) == {t \in db : t.tx = k}

OfLedger(c, k, field(_)) ==
  IF \E t \in Ledger : t.channel = c /\ field(t) = k THEN Found(k, c) ELSE Absent

QueryTransaction(c, k) == LET tx(t) == t.tx IN OfLedger(c, k, tx)
QueryBlock(c, k)       == LET num(t) == t.num IN OfLedger(c, k, num)
QueryBlockByHash(c, k) == LET hash(t) == t.hash IN OfLedger(c, k, hash)
QueryBlockByTxId(c, k) == LET tx(t) == t.tx IN OfLedger(c, k, tx)

FetchDataByTxnId(c, k) ==
  IF TransactionByID(k) # {} THEN Found(k, (CHOOSE t \in TransactionByID(k) : TRUE).channel)
  ELSE QueryTransaction(c, k)

DataByBlockNo(c, k) ==
  IF \E t \in db : t.channel = c /\ t.num = k THEN Found(k, c) ELSE QueryBlock(c, k)

(* MUTANT of ContractMetadata: nothing found is answered as data.          *)
ContractMetadataRaw(c, k) ==
  IF k \in Described THEN Found(k, c)
  ELSE [Absent EXCEPT !.key = "response_payloads is null"]

ContractMetadata(c, k) == IF k \in Described THEN Found(k, c) ELSE Absent

(* What is looked for: the route fetchDataByBlockNo parses the number.     *)
KeyOf(q) == IF q.slot = "Block No" THEN ParseInt[q.key] ELSE q.key

(* invalidRequest: status 400.                                             *)
FetchDataByBlockNo(q) ==
  IF KeyOf(q) = NaN THEN Invalid ELSE DataByBlockNo(q.channel, KeyOf(q))

Served(q) ==
  CASE q.slot = "Txn Hash"        -> FetchDataByTxnId(q.channel, q.key)
    [] q.slot = "Block No"        -> FetchDataByBlockNo(q)
    [] q.slot = "Block Hash"      -> QueryBlockByHash(q.channel, q.key)
    [] q.slot = "Block By Txn ID" -> QueryBlockByTxId(q.channel, q.key)
    [] q.slot = "transaction"     ->
         Found(q.key, (CHOOSE t \in TransactionByID(q.key) : TRUE).channel)
    [] q.slot = "metadata"        -> ContractMetadata(q.channel, q.key)
    [] q.slot = "members"         -> Found(q.channel, q.channel)

(* The route answers; a transaction that is not stored is never answered.  *)
Serve(r) ==
  /\ r.result = None
  /\ r.query.slot = "transaction" => TransactionByID(r.query.key) # {}
  /\ requests' = (requests \ {r}) \cup {[r EXCEPT !.result = Served(r.query)]}
  /\ UNCHANGED <<db, channel, page, results, search, dialog, asked, crossed, n>>

(* The sync process stores a block.                                        *)
Insert ==
  /\ \E t \in Ledger \ db :
       db' = db \cup {u \in Ledger : u.channel = t.channel /\ u.num = t.num}
  /\ UNCHANGED <<channel, page, results, search, dialog, requests, asked, crossed, n>>

-----------------------------------------------------------------------------
(* The answers.                                                            *)

(* MUTANT of StoreResult: the other results stay.                          *)
StoreOwnResult(r) == results' = [results EXCEPT ![r.query.slot] = r.result]

(* txnList, blockSearch, blockHashList and blockTxnIdList empty the others. *)
StoreResult(r) ==
  results' = [s \in Slots |-> IF s = r.query.slot THEN r.result
                              ELSE IF {s, r.query.slot} \subseteq Options THEN Empty
                              ELSE results[s]]

(* DashboardView.render: a text instead of data.                           *)
SearchError(res) == IF \E s \in Options : res[s] = Absent THEN "absent" ELSE ""

(* What awaits the operation goes on, answered or not: SearchByQuery's     *)
(* effect, or the list's dialog.                                           *)
GoesOn(r) ==
  CASE r.then = "search" ->
         /\ search' = [search EXCEPT !.error = SearchError(results'),
                                     !.open = @ \/ SearchError(results') = ""]
         /\ UNCHANGED dialog
    [] r.then = "dialog" ->
         dialog' = [open |-> TRUE, row |-> r.row] /\ UNCHANGED search
    [] r.then = "none" -> UNCHANGED <<search, dialog>>

(* Status 400 calls actions.getErroMessage, which the actions of the tables *)
(* have not: the operation catches that, and the store stays as it is.     *)
Deliver(r) ==
  /\ r.result # None
  /\ IF r.result = Invalid THEN UNCHANGED results ELSE StoreResult(r)
  /\ GoesOn(r)
  /\ requests' = requests \ {r}
  /\ UNCHANGED <<db, channel, page, asked, crossed, n>>

(* get is rejected, the operation writes it on the console.                *)
Reject(r) ==
  /\ n.fails < MaxFails /\ n' = Count("fails")
  /\ UNCHANGED results /\ GoesOn(r)
  /\ requests' = requests \ {r}
  /\ UNCHANGED <<db, channel, page, asked, crossed>>

-----------------------------------------------------------------------------
(* SearchByQuery.                                                          *)

Request(q, then, row) ==
  [id |-> n.searches + n.clicks, query |-> q, then |-> then, row |-> row, result |-> None]

(* The text or the option changes, which puts an error away.               *)
Edit(text, option) ==
  /\ page = "dashboard" /\ ~DialogShown /\ n.edits < MaxEdits
  /\ (text = search.text) # (option = search.option)
  /\ search' = [text |-> text, option |-> option, error |-> "",
                open |-> search.open /\ search.error = ""]
  /\ crossed' = (crossed \/ requests # {}) /\ n' = Count("edits")
  /\ UNCHANGED <<db, channel, page, results, dialog, requests, asked>>

Valid(s) == s.text # "" /\ (s.option = "Block No" => s.text \in DOMAIN ParseInt)

(* MUTANT of SearchData: the operation is not awaited.                     *)
SearchDataAtOnce(s) ==
  LET q == [slot |-> s.option, key |-> s.text, channel |-> channel]
  IN  /\ requests' = requests \cup {Request(q, "none", q)}
      /\ asked' = q /\ crossed' = (requests # {})
      /\ search' = [search EXCEPT !.open = TRUE]

SearchData(s) ==
  LET q == [slot |-> s.option, key |-> s.text, channel |-> channel]
  IN  /\ requests' = requests \cup {Request(q, "search", q)}
      /\ asked' = q /\ crossed' = (requests # {})
      /\ UNCHANGED search

HandleSubmit ==
  /\ page = "dashboard" /\ ~DialogShown /\ n.searches < MaxSearches
  /\ n' = Count("searches")
  /\ \/ Valid(search) /\ SearchData(search)
     \/ /\ ~Valid(search)
        /\ search' = [search EXCEPT !.error = "invalid"]
        /\ UNCHANGED <<requests, asked, crossed>>
  /\ UNCHANGED <<db, channel, page, results, dialog>>

HandleDialogClose ==
  /\ DialogShown
  /\ dialog' = [dialog EXCEPT !.open = FALSE]
  /\ search' = [search EXCEPT !.open = FALSE]
  /\ UNCHANGED <<db, channel, page, results, requests, asked, crossed, n>>

-----------------------------------------------------------------------------
(* The lists.                                                              *)

(* handleDialogOpen for a row: what is asked for it.                       *)
Click(row, q) ==
  /\ page = "lists" /\ ~DialogShown /\ n.clicks < MaxClicks
  /\ requests' = requests \cup {Request(q, "dialog", row)}
  /\ asked' = row /\ crossed' = (requests # {}) /\ n' = Count("clicks")
  /\ UNCHANGED <<db, channel, page, results, search, dialog>>

ListRow(slot, k) == [slot |-> slot, key |-> k, channel |-> channel]

(* A transaction of Transactions or Blocks, which come from the database;  *)
(* one of a range of blocks, which may come from the ledger.               *)
TransactionClick(t) ==
  /\ t.channel = channel /\ t \in db
  /\ Click(ListRow("transaction", t.tx), ListRow("transaction", t.tx))
(* MUTANT of RangeClick: the transaction is looked up as the other view's. *)
RangeClickStored(t) ==
  /\ t.channel = channel /\ t \in db
  /\ Click(ListRow("Txn Hash", t.tx), ListRow("transaction", t.tx))

RangeClick(t) ==
  /\ t.channel = channel
  /\ Click(ListRow("Txn Hash", t.tx), ListRow("Txn Hash", t.tx))
ChaincodeClick(k) == Click(ListRow("metadata", k), ListRow("metadata", k))

(* A row of Channels, which lists all of them: currentChannel is asked for. *)
ChannelClick(c) ==
  Click([slot |-> "members", key |-> c, channel |-> c], ListRow("members", channel))

(* Another page: the component is gone, and its answers only reach the     *)
(* store.                                                                  *)
Navigate ==
  /\ ~DialogShown /\ n.moves < MaxMoves
  /\ page' = IF page = "lists" THEN "dashboard" ELSE "lists"
  /\ search' = NoSearch /\ dialog' = NoDialog
  /\ requests' = {[r EXCEPT !.then = "none"] : r \in requests}
  /\ crossed' = (crossed \/ requests # {}) /\ n' = Count("moves")
  /\ UNCHANGED <<db, channel, results, asked>>

ChannelChanged(c) ==
  /\ ~DialogShown /\ c # channel /\ n.moves < MaxMoves
  /\ channel' = c
  /\ crossed' = (crossed \/ requests # {}) /\ n' = Count("moves")
  /\ UNCHANGED <<db, page, results, search, dialog, requests, asked>>

Next ==
  \/ \E text \in Texts, option \in Options : Edit(text, option)
  \/ HandleSubmit \/ HandleDialogClose \/ Navigate \/ Insert
  \/ \E t \in Ledger : TransactionClick(t) \/ RangeClick(t)
  \/ \E k \in Chaincodes : ChaincodeClick(k)
  \/ \E c \in Channels : ChannelClick(c) \/ ChannelChanged(c)
  \/ \E r \in requests : Serve(r) \/ Deliver(r) \/ Reject(r)

Spec == Init /\ [][Next]_vars

-----------------------------------------------------------------------------
(* Properties.                                                             *)

SearchShown == search.open /\ search.error = ""
Undisturbed == requests = {} /\ ~crossed /\ n.fails = 0

(* "Not found" is said of what is not in the ledger of the channel, however *)
(* far the database is, and never because of an earlier search (the        *)
(* operations that empty the other results).  A number that parseInt does  *)
(* not read is never looked for.                                           *)
ErrorIsTrue ==
  Undisturbed /\ search.error = "absent" =>
    CASE asked.slot = "Block No"   -> \/ KeyOf(asked) = NaN
                                      \/ QueryBlock(asked.channel, KeyOf(asked)) = Absent
      [] asked.slot = "Block Hash" -> QueryBlockByHash(asked.channel, asked.key) = Absent
      [] OTHER                     -> QueryTransaction(asked.channel, asked.key) = Absent

(* What the search shows is what was searched, a block by the number that   *)
(* parseInt reads, when there is one and nothing else was done while it was *)
(* awaited (SearchByQuery's effect on searchClick).                        *)
SearchShowsAsked ==
  Undisturbed /\ SearchShown =>
    /\ search.option = asked.slot
    /\ KeyOf(asked) # NaN =>
         results[asked.slot].state = "found" /\ results[asked.slot].key = KeyOf(asked)

(* A list's dialog shows what was clicked: the transaction, in a range of   *)
(* blocks too, the chaincode (Blocks.handleDialogOpen).                    *)
DialogShowsRow ==
  Undisturbed /\ dialog.open /\ dialog.row.slot # "members" =>
    \/ /\ results[dialog.row.slot].state = "found"
       /\ results[dialog.row.slot].key = dialog.row.key
       /\ results[dialog.row.slot].channel = dialog.row.channel
    \/ /\ results[dialog.row.slot] = Absent
       /\ dialog.row.slot = "metadata" /\ dialog.row.key \notin Described

-----------------------------------------------------------------------------
(* What the documentation says and the code does not do (README, 5).       *)

(* What a search shows, if anything, is what was searched, also when it    *)
(* fails or the number typed is another for parseInt, or none              *)
(* (release_notes/v2.0.0.md:9).                                            *)
SearchIsAnswered ==
  requests = {} /\ ~crossed /\ SearchShown /\ results[search.option].state = "found" =>
    results[search.option].key = asked.key

(* The members are those of the channel of the row                         *)
(* (docs/source/presentation/index.rst:140).                               *)
MembersOfRow ==
  Undisturbed /\ dialog.open /\ dialog.row.slot = "members" =>
    results["members"].channel = dialog.row.channel

=============================================================================
