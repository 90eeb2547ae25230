------------------------------ MODULE MCCommServer ------------------------------
(* TLC instance of CommServer: two requests at a time. *)
EXTENDS CommServer

CONSTANT bob

ToBob == [a \in Asks |-> bob]
================================================================================
