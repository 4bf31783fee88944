------------------------------ MODULE MCTables ------------------------------
(* Instances of Tables for TLC.                                            *)
EXTENDS Tables

-----------------------------------------------------------------------------
(* The lists.                                                              *)

Tx(c, i, o) == [channel |-> c, num |-> i, tx |-> 1, org |-> o]

(* Pages of three blocks while a fourth is stored.                         *)
Sweeping == [
  View |-> "blocks", Channels |-> {"a"}, First |-> "a", Orgs |-> {"o"},
  Stored |-> {Tx("a", i, "o") : i \in 0 .. 2}, Arriving |-> {Tx("a", 3, "o")},
  Sizes |-> {1}, Default |-> 1, Limit |-> 2, Height |-> [a |-> 4],
  MaxSelections |-> 0, MaxSteps |-> 2, MaxTicks |-> 0, MaxRanges |-> 0, MaxFails |-> 0]

(* Pages of two blocks while a third is stored and the list is polled twice.*)
Polling == [
  View |-> "blocks", Channels |-> {"a"}, First |-> "a", Orgs |-> {"o"},
  Stored |-> {Tx("a", i, "o") : i \in 0 .. 1}, Arriving |-> {Tx("a", 2, "o")},
  Sizes |-> {1}, Default |-> 1, Limit |-> 2, Height |-> [a |-> 3],
  MaxSelections |-> 0, MaxSteps |-> 1, MaxTicks |-> 2, MaxRanges |-> 0, MaxFails |-> 0]

(* Two channels, the second longer.                                        *)
BlockPages == [
  View |-> "blocks", Channels |-> {"a", "b"}, First |-> "a", Orgs |-> {"o"},
  Stored |-> {Tx("a", i, "o") : i \in 0 .. 1} \cup {Tx("b", i, "o") : i \in 0 .. 2},
  Arriving |-> {}, Sizes |-> {1}, Default |-> 1, Limit |-> 2,
  Height |-> [a |-> 4, b |-> 3],
  MaxSelections |-> 1, MaxSteps |-> 1, MaxTicks |-> 0, MaxRanges |-> 0, MaxFails |-> 0]

(* Two channels selected one before the other is waited for.               *)
Leaking == [
  View |-> "blocks", Channels |-> {"a", "b"}, First |-> "a", Orgs |-> {"o"},
  Stored |-> {Tx(c, 0, "o") : c \in {"a", "b"}},
  Arriving |-> {}, Sizes |-> {1}, Default |-> 1, Limit |-> 2,
  Height |-> [a |-> 1, b |-> 1],
  MaxSelections |-> 2, MaxSteps |-> 0, MaxTicks |-> 1, MaxRanges |-> 0, MaxFails |-> 0]

(* Transactions of two organizations and pages of two sizes.               *)
TxPages == [
  View |-> "transactions", Channels |-> {"a", "b"}, First |-> "a", Orgs |-> {"o", "p"},
  Stored |-> {Tx("a", 0, "o"), Tx("a", 1, "p"), Tx("b", 1, "o")},
  Arriving |-> {Tx("a", 2, "o")}, Sizes |-> {1, 2}, Default |-> 1, Limit |-> 2,
  Height |-> [a |-> 4, b |-> 3],
  MaxSelections |-> 0, MaxSteps |-> 2, MaxTicks |-> 0, MaxRanges |-> 0, MaxFails |-> 1]

(* Ranges of blocks of a ledger of three.                                  *)
Ranges == [
  View |-> "blocks", Channels |-> {"a"}, First |-> "a", Orgs |-> {"o"},
  Stored |-> {Tx("a", i, "o") : i \in 0 .. 2}, Arriving |-> {},
  Sizes |-> {1, 2}, Default |-> 1, Limit |-> 2, Height |-> [a |-> 3],
  MaxSelections |-> 0, MaxSteps |-> 1, MaxTicks |-> 0, MaxRanges |-> 1, MaxFails |-> 1]

MCLists ==
  [sweeping |-> Sweeping, polling |-> Polling, blocks |-> BlockPages, leaking |-> Leaking,
   transactions |-> TxPages, ranges |-> Ranges]

-----------------------------------------------------------------------------
(* The look-ups: two blocks of a channel, one of them stored, and one of   *)
(* another channel.                                                        *)

Ledger == {[channel |-> "a", num |-> "0", hash |-> "h0", tx |-> "x"],
           [channel |-> "a", num |-> "1", hash |-> "h1", tx |-> "y"],
           [channel |-> "b", num |-> "0", hash |-> "k0", tx |-> "z"]}
Stored == {t \in Ledger : t.hash = "h0"}

(* Two that are numbers: parseInt stops at the letter e, and reads none in *)
(* "Infinity".                                                             *)
MCParseInt == [k \in {"1e3", "Infinity"} |-> IF k = "1e3" THEN "1" ELSE NaN]

Searching == [
  Channels |-> {"a", "b"}, First |-> "a", Ledger |-> Ledger, Stored |-> Stored,
  Texts |-> {"1e3", "Infinity", "h0", "z"}, ParseInt |-> MCParseInt,
  Chaincodes |-> {"c", "d"}, Described |-> {"c"},
  MaxSearches |-> 2, MaxEdits |-> 3, MaxClicks |-> 0, MaxMoves |-> 0, MaxFails |-> 1]

Dialogs == [
  Channels |-> {"a", "b"}, First |-> "a", Ledger |-> Ledger, Stored |-> Stored,
  Texts |-> {"y"}, ParseInt |-> MCParseInt, Chaincodes |-> {"c", "d"}, Described |-> {"c"},
  MaxSearches |-> 1, MaxEdits |-> 1, MaxClicks |-> 2, MaxMoves |-> 2, MaxFails |-> 0]

MCLookUps == [searching |-> Searching, dialogs |-> Dialogs]

-----------------------------------------------------------------------------
(* The numbers.                                                            *)

Block(c, k, t)      == [channel |-> c, num |-> k, time |-> t]
Made(c, k, i, o, t) == [channel |-> c, num |-> k, id |-> i, org |-> o, time |-> t]
Dashboard           == [network |-> "n1", channel |-> "a"]

(* Rows of two channels stored one by one, one transaction without a       *)
(* creator, a chaincode of two versions.                                   *)
Counts == [
  Networks |-> {"n1"}, Channels |-> {"a", "b"},
  Blocks |-> {Block("a", 0, 0), Block("a", 1, 1)},
  Txs |-> {Made("a", 0, "t0", "", 0), Made("a", 1, "t1", "o1", 1), Made("a", 1, "t2", "o1", 3)},
  PeerOrgs |-> {"o1", "o2"}, Code |-> {[channel |-> "a", name |-> "c", version |-> 1]},
  Asking |-> Dashboard, Minute |-> 1, Hour |-> 1, Day |-> 1, MaxNow |-> 0, MaxAsked |-> 2]

(* Minutes of 2 ticks, hours of 4 and days of 8; transactions of the past, *)
(* of the hour and of the time to come.                                    *)
Charts == [
  Networks |-> {"n1"}, Channels |-> {"a"},
  Blocks |-> {Block("a", 0, 0), Block("a", 1, 3), Block("a", 2, 6)},
  Txs |-> {Made("a", 0, "t0", "o1", 0), Made("a", 1, "t1", "o1", 1),
           Made("a", 1, "t2", "o1", 3), Made("a", 2, "t3", "o1", 7),
           Made("a", 2, "t4", "o1", 6)},
  PeerOrgs |-> {}, Code |-> {}, Asking |-> Dashboard,
  Minute |-> 2, Hour |-> 4, Day |-> 8, MaxNow |-> 14, MaxAsked |-> 0]

(* More blocks than the activity shows.                                    *)
Activity == [
  Networks |-> {"n1"}, Channels |-> {"a", "b"},
  Blocks |-> {Block("a", k, k) : k \in 0 .. 3} \cup {Block("b", 0, 1)},
  Txs |-> {}, PeerOrgs |-> {}, Code |-> {}, Asking |-> Dashboard,
  Minute |-> 1, Hour |-> 1, Day |-> 1, MaxNow |-> 0, MaxAsked |-> 0]

MCNumbers == [counts |-> Counts, charts |-> Charts, activity |-> Activity]

=============================================================================
