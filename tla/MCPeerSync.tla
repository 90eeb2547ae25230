------------------------------- MODULE MCPeerSync -------------------------------
(* TLC instances of PeerSync: asker and daemon in one process or in two.      *)
EXTENDS PeerSync, TLC

CONSTANTS bob, carol, client, bridge, q1, q2, a1

AllToBob == [r \in Requests |-> bob]
Shared   == [r \in Requests |-> IF r = a1 THEN carol ELSE bob]
================================================================================
