------------------------------ MODULE MCPeerClock ------------------------------
(* TLC instances of PeerClock: two peers, and snapshots of the other one. *)
EXTENDS PeerClock

CONSTANTS alice, bob

ThePeers  == {alice, bob}
Snapshots == {[p \in ThePeers |-> IF p = alice THEN i ELSE j] : i, j \in {0, 2}}
================================================================================
