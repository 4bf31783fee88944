------------------------- MODULE MCChannelRegistry -------------------------
(* An instance of ChannelRegistry for TLC: a peer that has the channel's   *)
(* chaincode, and an orderer.                                              *)
EXTENDS ChannelRegistry

OnePeer       == <<"peer0:7051">>
OneOrderer    == <<[host |-> "orderer", endpoint |-> "orderer:7050"]>>
OneChaincode  == {"cc"}
MCCodeRows    == <<CodeRow("cc")>>
MCCodeRefRows == <<CodeRow("cc"), CodeRef("cc", "peer0:7051")>>

=============================================================================
