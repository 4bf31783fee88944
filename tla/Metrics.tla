------------------------------- MODULE Metrics -------------------------------
(***************************************************************************)
(* What the dashboard counts (MetricService, CRUDService's block activity, *)
(* Proxy.getTxByOrgs, dbroutes and the route txByOrg).                     *)
(*                                                                         *)
(* The explorer queries, one query at a time, a database that the sync     *)
(* process of each network fills, one row at a time.  Two networks of the  *)
(* configuration may be two organizations' views of one Fabric network:    *)
(* their channels then have the same genesis hash.  Time is counted in     *)
(* ticks; now() is the time of a query, and a transaction has the time its *)
(* client said.                                                            *)
(***************************************************************************)
EXTENDS Integers, Sequences, FiniteSetsExt

CONSTANTS
  Networks, Channels,
  Blocks,     \* channel, num, time
  Txs,        \* channel, num of the block, id, org or "" of the creator, time
  PeerOrgs,   \* organizations that have peers
  Code,       \* chaincodes: channel, name, version
  Asking,     \* what is requested: a network and a channel
  Minute, Hour, Day,  \* ticks, each a multiple of the one before
  MaxNow,     \* bound: the clock
  MaxAsked    \* bound: requests of the status and of the organizations

(* The rows are finitely many, of the channels, at some time; what is      *)
(* asked for is one of the networks and one of its channels.               *)
MetricsParameters ==
  /\ IsFiniteSet(Blocks) /\ IsFiniteSet(Txs) /\ IsFiniteSet(PeerOrgs) /\ IsFiniteSet(Code)
  /\ Asking.network \in Networks /\ Asking.channel \in Channels
  /\ \A b \in Blocks \cup Txs : b.channel \in Channels /\ b.time \in Int
  /\ \A b \in Blocks : b.num \in Nat
  /\ MaxNow \in Nat /\ MaxAsked \in Nat
  /\ Minute \in Nat \ {0} /\ Hour \in Nat \ {0} /\ Day \in Nat \ {0}
  /\ Hour % Minute = 0 /\ Day % Hour = 0

VARIABLES
  now,
  channels, blocks, txs, peers, chaincodes,  \* tables: rows with their network
  status,   \* getStatusGenerate: the next query, its numbers; stored, a history: the
            \* blocks that were there when it was asked
  byOrgs,   \* getTxByOrgs: the next query, its rows
  crossed,  \* history: something was stored during the request
  asked

tables == <<channels, blocks, txs, peers, chaincodes>>
vars == <<now, tables, status, byOrgs, crossed, asked>>

Of(rows) == {r \in rows : r.network = Asking.network /\ r.row.channel = Asking.channel}
RowsOf(data) == [network : Networks, row : data]
ChannelRow(c) == [channel |-> c]
OrgRow(c, o)  == [channel |-> c, org |-> o]
ChannelRows   == {ChannelRow(c) : c \in Channels}
PeerRows      == {OrgRow(c, o) : c \in Channels, o \in PeerOrgs}
CountRows     == [org : ({t.org : t \in Txs} \ {""}) \cup PeerOrgs, count : Nat]

Counted  == {"chaincodes", "tx", "blocks", "peers"}
Unasked  == [at |-> "none", chaincodes |-> 0, tx |-> 0, blocks |-> 0, peers |-> 0,
             stored |-> {}]
NoOrgs   == [at |-> "none", rows |-> {}]

TypeOK ==
  /\ now \in 0 .. MaxNow /\ asked \in 0 .. MaxAsked /\ crossed \in BOOLEAN
  /\ channels \subseteq RowsOf(ChannelRows)
  /\ blocks \subseteq RowsOf(Blocks) /\ txs \subseteq RowsOf(Txs)
  /\ chaincodes \subseteq RowsOf(Code)
  /\ peers \subseteq RowsOf(PeerRows)
  /\ \A r \in Of(txs) \cup Of(blocks) : ChannelRow(r.row.channel) \in {c.row : c \in channels}
  /\ status.at \in {"none", "tx", "blocks", "peers", "done"}
  /\ \A k \in Counted : status[k] \in Nat
  /\ status.stored \subseteq Blocks
  /\ byOrgs.at \in {"none", "peers", "done"}
  /\ byOrgs.rows \subseteq CountRows

(* The sync process of each network has stored its channels.               *)
Init ==
  /\ now = 0
  /\ channels = RowsOf(ChannelRows)
  /\ blocks = {} /\ txs = {} /\ peers = {} /\ chaincodes = {}
  /\ status = Unasked /\ byOrgs = NoOrgs /\ crossed = FALSE /\ asked = 0

-----------------------------------------------------------------------------
(* The sync process stores.                                                *)

TxsIn(b) == {t \in Txs : t.channel = b.channel /\ t.num = b.num}

(* MUTANT of Store: a block is stored before its transactions.             *)
StoreBlockFirst(n) ==
  \/ \E b \in Blocks :
       /\ [network |-> n, row |-> b] \notin blocks
       /\ blocks' = blocks \cup {[network |-> n, row |-> b]}
       /\ UNCHANGED <<txs, peers, chaincodes>>
  \/ \E b \in Blocks : \E t \in TxsIn(b) :
       /\ [network |-> n, row |-> b] \in blocks
       /\ [network |-> n, row |-> t] \notin txs
       /\ txs' = txs \cup {[network |-> n, row |-> t]}
       /\ UNCHANGED <<blocks, peers, chaincodes>>

(* The transactions of a block are saved one by one, and the block last.   *)
Store(n) ==
  \/ \E b \in Blocks :
       /\ [network |-> n, row |-> b] \notin blocks
       /\ {[network |-> n, row |-> t] : t \in TxsIn(b)} \subseteq txs
       /\ blocks' = blocks \cup {[network |-> n, row |-> b]}
       /\ UNCHANGED <<txs, peers, chaincodes>>
  \/ \E t \in Txs :
       /\ [network |-> n, row |-> t] \notin txs
       /\ txs' = txs \cup {[network |-> n, row |-> t]}
       /\ UNCHANGED <<blocks, peers, chaincodes>>
  \/ \E c \in Channels, o \in PeerOrgs :
       /\ [network |-> n, row |-> OrgRow(c, o)] \notin peers
       /\ peers' = peers \cup {[network |-> n, row |-> OrgRow(c, o)]}
       /\ UNCHANGED <<blocks, txs, chaincodes>>
  \/ \E k \in Code :
       /\ [network |-> n, row |-> k] \notin chaincodes
       /\ chaincodes' = chaincodes \cup {[network |-> n, row |-> k]}
       /\ UNCHANGED <<blocks, txs, peers>>

Sync(n) ==
  /\ Store(n) /\ crossed' = TRUE
  /\ UNCHANGED <<now, channels, status, byOrgs, asked>>

Tick ==
  /\ now < MaxNow /\ now' = now + 1
  /\ UNCHANGED <<tables, status, byOrgs, crossed, asked>>

-----------------------------------------------------------------------------
(* The route status.                                                       *)

GetChaincodeCount == Cardinality({r.row.name : r \in Of(chaincodes)})
GetTxCount        == Cardinality(Of(txs))
GetBlockCount     == Cardinality(Of(blocks))
GetPeerlistCount  == Cardinality(Of(peers))

GetStatus ==
  /\ asked < MaxAsked /\ asked' = asked + 1
  /\ status.at \in {"none", "done"} /\ byOrgs.at \in {"none", "done"}
  /\ status' = [Unasked EXCEPT !.at = "tx", !.chaincodes = GetChaincodeCount,
                               !.stored = {r.row : r \in Of(blocks)}]
  /\ byOrgs' = NoOrgs /\ crossed' = FALSE /\ UNCHANGED <<now, tables>>

GetStatusGenerate ==
  /\ \/ status.at = "tx" /\ status' = [status EXCEPT !.at = "blocks", !.tx = GetTxCount]
     \/ status.at = "blocks" /\ status' = [status EXCEPT !.at = "peers", !.blocks = GetBlockCount]
     \/ status.at = "peers" /\ status' = [status EXCEPT !.at = "done", !.peers = GetPeerlistCount]
  /\ UNCHANGED <<now, tables, byOrgs, crossed, asked>>

-----------------------------------------------------------------------------
(* The route txByOrg.                                                      *)

TxsOf(o) == {r \in Of(txs) : r.row.org = o}

(* MUTANT of GetTxByOrgs: those without a creator are one more.            *)
TxByAllCreators ==
  /\ asked < MaxAsked /\ asked' = asked + 1
  /\ status.at \in {"none", "done"} /\ byOrgs.at \in {"none", "done"}
  /\ byOrgs' = [at |-> "peers",
                rows |-> {[org |-> o, count |-> Cardinality(TxsOf(o))] :
                            o \in {r.row.org : r \in Of(txs)}}]
  /\ status' = Unasked /\ crossed' = FALSE /\ UNCHANGED <<now, tables>>

GetTxByOrgs ==
  /\ asked < MaxAsked /\ asked' = asked + 1
  /\ status.at \in {"none", "done"} /\ byOrgs.at \in {"none", "done"}
  /\ byOrgs' = [at |-> "peers",
                rows |-> {[org |-> o, count |-> Cardinality(TxsOf(o))] :
                            o \in {r.row.org : r \in Of(txs)} \ {""}}]
  /\ status' = Unasked /\ crossed' = FALSE /\ UNCHANGED <<now, tables>>

(* MUTANT of AddOrgs: the organizations with transactions are not left out. *)
AddAllOrgs ==
  /\ byOrgs.at = "peers"
  /\ byOrgs' = [at |-> "done",
                rows |-> byOrgs.rows \cup {[org |-> r.row.org, count |-> 0] : r \in Of(peers)}]
  /\ UNCHANGED <<now, tables, status, crossed, asked>>

(* getOrgsData, and the organizations without transactions.                *)
AddOrgs ==
  /\ byOrgs.at = "peers"
  /\ byOrgs' = [at |-> "done",
                rows |-> byOrgs.rows \cup
                  {[org |-> o, count |-> 0] :
                     o \in {r.row.org : r \in Of(peers)} \ {r.org : r \in byOrgs.rows}}]
  /\ UNCHANGED <<now, tables, status, crossed, asked>>

Next ==
  \/ \E n \in Networks : Sync(n)
  \/ Tick \/ GetStatus \/ GetStatusGenerate \/ GetTxByOrgs \/ AddOrgs

Spec == Init /\ [][Next]_vars

-----------------------------------------------------------------------------
(* The charts and the activity are one query each.                         *)

Trunc(unit, t) == (t \div unit) * unit

(* MUTANT of Chart: what is older than span is left out.                   *)
ChartFromNow(unit, span, rows) ==
  [d \in {x \in Trunc(unit, now) - span .. Trunc(unit, now) : x % unit = 0} |->
     Cardinality({r \in Of(rows) : Trunc(unit, r.row.time) = d /\ r.row.time >= now - span})]

(* generate_series from span before now to now, joined with the rows.      *)
Chart(unit, span, rows) ==
  [d \in {x \in Trunc(unit, now) - span .. Trunc(unit, now) : x % unit = 0} |->
     Cardinality({r \in Of(rows) : Trunc(unit, r.row.time) = d})]

TxByMinute(hours)     == Chart(Minute, hours * Hour, txs)
TxByHour(days)        == Chart(Hour, days * Day, txs)
BlocksByMinute(hours) == Chart(Minute, hours * Hour, blocks)
BlocksByHour(days)    == Chart(Hour, days * Day, blocks)

(* LIMIT 3                                                                 *)
FirstOf(rows) == SubSeq(rows, 1, IF Len(rows) < 3 THEN Len(rows) ELSE 3)

(* The rows of blocks are joined with those of channel by the genesis      *)
(* hash, whatever their network.                                           *)
JoinedBlocks ==
  {[num |-> b.row.num, of |-> c.network] :
     b \in Of(blocks), c \in {x \in channels : x.row.channel = Asking.channel}}

(* The sequences of all elements of a finite set, each once.               *)
InAnyOrder(S) == Injection(1 .. Cardinality(S), S)

(* MUTANT of BlockActivity: in the order of the time.                      *)
FirstBlockActivity ==
  {FirstOf(s) : s \in {x \in InAnyOrder(JoinedBlocks) :
                        \A i, j \in DOMAIN x : i < j => x[i].num <= x[j].num}}

(* getBlockActivityList: ORDER BY blocknum DESC, equal ones in any order.  *)
BlockActivity ==
  {FirstOf(s) : s \in {x \in InAnyOrder(JoinedBlocks) :
                        \A i, j \in DOMAIN x : i < j => x[i].num >= x[j].num}}

-----------------------------------------------------------------------------
(* Properties.                                                             *)

(* The numbers of the status, read one by one while rows are stored: they  *)
(* miss no block that was there when it was asked, nor one of its          *)
(* transactions, count nothing that is not stored, and are those of the    *)
(* tables if nothing was stored meanwhile (getStatusGenerate, the order in *)
(* which processBlockEvent saves).                                         *)
StatusFits ==
  status.at = "done" =>
    /\ Cardinality(status.stored) <= status.blocks /\ status.blocks <= GetBlockCount
    /\ Cardinality(UNION {TxsIn(b) : b \in status.stored}) <= status.tx
    /\ status.tx <= GetTxCount
    /\ ~crossed =>
         /\ status.chaincodes = GetChaincodeCount /\ status.peers = GetPeerlistCount
         /\ status.tx = GetTxCount /\ status.blocks = GetBlockCount

(* Every organization is one row, each with a peer or a transaction is     *)
(* there, and no row has more transactions than were stored (getTxByOrgs,  *)
(* whose two queries may see different tables).                            *)
OrgsOnce ==
  byOrgs.at = "done" =>
    /\ \A r, q \in byOrgs.rows : r.org = q.org => r = q
    /\ \A r \in byOrgs.rows : r.count <= Cardinality(TxsOf(r.org))
    /\ ~crossed => \A o \in ({r.row.org : r \in Of(txs) \cup Of(peers)} \ {""}) :
         [org |-> o, count |-> Cardinality(TxsOf(o))] \in byOrgs.rows

(* Minutes and hours tell the same of the current hour, up to the          *)
(* transactions whose time is yet to come, and a day is the sum of what    *)
(* happened in it (the four queries of getTxBy... and getBlocksBy...).     *)
ChartsAgree ==
  \A rows \in {txs, blocks} :
    LET minutes == Chart(Minute, Hour, rows)
        hours   == Chart(Hour, Day, rows)
        current == Trunc(Hour, now)
    IN  /\ hours[current] =
             Cardinality({r \in Of(rows) : r.row.time >= Trunc(Minute, now) + Minute
                                           /\ r.row.time < current + Hour})
             + SumFunction([m \in {d \in DOMAIN minutes : d >= current} |-> minutes[m]])
        /\ SumFunction(hours) = Cardinality({r \in Of(rows) : current - Day <= r.row.time
                                                          /\ r.row.time < current + Hour})

(* The activity shows the latest blocks of the network, each once, when no *)
(* other network has the channel (CRUDService.ts:57).                      *)
LatestBlocks ==
  LET nums == {b.row.num : b \in Of(blocks)}
  IN  Networks = {Asking.network} =>
        \A latest \in BlockActivity :
          /\ Len(latest) = (IF Cardinality(nums) < 3 THEN Cardinality(nums) ELSE 3)
          /\ \A i \in DOMAIN latest :
               latest[i].num \in nums
                 /\ Cardinality({k \in nums : k > latest[i].num}) = i - 1

=============================================================================
