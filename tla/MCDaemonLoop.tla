------------------------------ MODULE MCDaemonLoop ------------------------------
(* TLC instance of DaemonLoop.  A second is two units, so that tasks can take *)
(* less than a second.  The heartbeat and the sync have the same interval, as  *)
(* by default; the other tasks come round more often.                         *)
EXTENDS DaemonLoop, TLC

CONSTANT Period

\* The quiet tasks are due in every iteration: where they fall makes the drift.
Intervals == [k \in Tasks |-> IF k \in Quiet THEN 1
                              ELSE IF k = "network_check" THEN Tick ELSE Period]

\* The adoption flush comes round less often than the network check, as by
\* default (there 300 s and 60 s).
RareFlush == [Intervals EXCEPT !["adoption_flush"] = 2 * Tick]


================================================================================
