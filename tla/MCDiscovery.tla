---------------------------- MODULE MCDiscovery ----------------------------
(***************************************************************************)
(* Instances of Discovery: two channels, two peers of two organizations,   *)
(* one of which joined one channel only.                                   *)
(***************************************************************************)
EXTENDS Discovery

TwoOrgs     == [p |-> "org1", q |-> "org2"]
BothAndOne  == [a |-> {"p", "q"}, b |-> {"p"}]
=============================================================================
