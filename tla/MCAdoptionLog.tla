---------------------------- MODULE MCAdoptionLog ----------------------------
(* An event, one that the server rejects, and a signal that cannot be sent;   *)
(* the daemon's loop and its trigger flush at the same time.                  *)
EXTENDS AdoptionLog
CONSTANTS e1, bad, sig, loop, trigger
=============================================================================
