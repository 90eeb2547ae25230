------------------------------- MODULE DaemonLoop -------------------------------
(* client/daemon.py: the single loop of ClientDaemon.  Every second it takes  *)
(* the time once and runs, in a fixed order, the tasks that are due by it.    *)
(* peer_heartbeat moves the current set of reachable peers to the previous    *)
(* one and probes again; online_sync compares the two sets and synchronises   *)
(* with the peers that are in the current one only.  The two tasks have the   *)
(* same interval and separate last_run_at.                                    *)
EXTENDS Integers

CONSTANTS Peers,
          Tick,       \* the sleep of an iteration, in units of time
          Interval,   \* Interval[k] : interval_seconds of task k, in units
          Budget,     \* bound on the time the tasks of one iteration take
          Cost        \* Budget in whole ticks

\* The order of _run_loop.
Order == << "network_check", "adoption_flush", "distill", "peer_heartbeat",
            "realtime_session_cleanup", "shadow_comm_trigger", "online_sync",
            "snapshot_refresh" >>

Tasks  == {"network_check", "adoption_flush", "distill", "peer_heartbeat",
           "realtime_session_cleanup", "shadow_comm_trigger", "online_sync",
           "snapshot_refresh"}

ASSUME LoopAssumption ==
    /\ Interval \in [Tasks -> Nat \ {0}]
    /\ Interval["online_sync"] = Interval["peer_heartbeat"]
    /\ Tick \in Nat \ {0}
    /\ Budget \in Nat
    /\ Cost \in Nat /\ Cost >= Budget
    /\ \E n \in 0 .. Cost : Cost = n * Tick

VARIABLES age,     \* age[k] : time since last_run_at of k, up to its interval
          due,     \* tasks of this iteration not reached yet
          spent,   \* time this iteration's tasks have taken
          debt,    \* Cost for every earlier iteration that took time (history)
          online,  \* _cached_network.online
          recovered, \* online again, and no flush since
          cur,     \* peers that _peer_online_cache maps to True
          prev,    \* peers that _previous_peer_online_cache maps to True
          owed     \* peers seen coming online and not synchronised with since

loopVars == <<age, due, spent, debt, online, recovered, cur, prev, owed>>
net      == <<online, recovered>>
peers    == <<cur, prev, owed>>

Quiet == {"distill", "realtime_session_cleanup", "shadow_comm_trigger", "snapshot_refresh"}

\* Every task counts as run at epoch 0: all are due in the first iteration.
LoopInit == /\ age    = Interval
            /\ due    = Tasks
            /\ spent  = 0
            /\ debt   = 0
            /\ online = FALSE
            /\ recovered = FALSE
            /\ cur    = {}
            /\ prev   = {}
            /\ owed   = {}
--------------------------------------------------------------------------------
Later(k, d) == IF age[k] + d < Interval[k] THEN age[k] + d ELSE Interval[k]
Short(k, d) == IF d < Interval[k] THEN d ELSE Interval[k]

\* should_run for every task, against the one `now` of the iteration.
DueAt(a) == {k \in Tasks : a[k] >= Interval[k]}

\* k is the first of the due tasks.
First(k) == /\ k \in due
            /\ \E i \in DOMAIN Order :
                 /\ Order[i] = k
                 /\ \A j \in 1 .. i - 1 : Order[j] \notin due

\* Task k starts, which sets its last_run_at, and takes d seconds.
Takes(k, d) ==
    /\ First(k)
    /\ spent + d <= Budget
    /\ age'   = [j \in Tasks |-> IF j = k THEN Short(k, d) ELSE Later(j, d)]
    /\ due'   = due \ {k}
    /\ spent' = spent + d
    /\ UNCHANGED debt

\* A failed probe keeps the status.
NetworkCheck(d, status) ==
    /\ Takes("network_check", d)
    /\ online'    = status
    /\ recovered' = (status /\ (recovered \/ ~online))
    /\ UNCHANGED peers

\* The flush runs only while the last check said online.
AdoptionFlush(d) ==
    /\ online
    /\ Takes("adoption_flush", d)
    /\ recovered' = FALSE
    /\ UNCHANGED <<online, peers>>

\* Mutant: the flush may be skipped while online.
AdoptionSkip_Always ==
    /\ First("adoption_flush")
    /\ due' = due \ {"adoption_flush"}
    /\ UNCHANGED <<age, spent, debt, net, peers>>

\* Offline: the task stays due and is looked at again in the next iteration.
AdoptionSkip ==
    /\ ~online
    /\ First("adoption_flush")
    /\ due' = due \ {"adoption_flush"}
    /\ UNCHANGED <<age, spent, debt, net, peers>>

\* Tasks that leave the daemon's own view of peers alone.
OtherTask(k, d) ==
    /\ k \in Quiet
    /\ Takes(k, d)
    /\ UNCHANGED <<net, peers>>

\* Mutant: the previous view is not moved on.
PeerHeartbeat_NoCopy(d, seen) ==
    /\ Takes("peer_heartbeat", d)
    /\ cur'  = seen
    /\ owed' = seen \ (cur \ owed)
    /\ UNCHANGED <<net, prev>>

\* Mutant: the previous view is taken after the probe.
PeerHeartbeat_CopyLate(d, seen) ==
    /\ Takes("peer_heartbeat", d)
    /\ prev' = seen
    /\ cur'  = seen
    /\ owed' = seen \ (cur \ owed)
    /\ UNCHANGED net

\* Peers found reachable become the current view; a failed discover_peers finds
\* none.  A peer that was not in the view before is owed a synchronisation.
PeerHeartbeat(d, seen) ==
    /\ Takes("peer_heartbeat", d)
    /\ prev' = cur
    /\ cur'  = seen
    /\ owed' = seen \ (cur \ owed)
    /\ UNCHANGED net

\* Mutant: the change is taken the other way round.
Edges_WentOffline == prev \ cur

\* offline -> online between the last two heartbeats.
Edges == cur \ prev

\* sync_with_peer and resume_conversation for every edge; an error is logged.
OnlineSync(d) ==
    /\ Takes("online_sync", d)
    /\ owed' = owed \ Edges
    /\ UNCHANGED <<net, cur, prev>>

\* What the iterations so far have cost, this one included.  (Bounded: beyond the
\* heartbeat's interval it is not counted.)
Debt == debt + (IF spent > 0 THEN Cost ELSE 0)

NextDebt == IF debt < Interval["peer_heartbeat"] THEN Debt ELSE debt

\* Mutant: online_sync is not scheduled again.
Sleep_NoSync ==
    /\ due    = {}
    /\ age'   = [k \in Tasks |-> Later(k, Tick)]
    /\ due'   = DueAt(age') \ {"online_sync"}
    /\ spent' = 0
    /\ debt'  = NextDebt
    /\ UNCHANGED <<net, peers>>

\* The end of an iteration: sleep(1.0), then the next `now`.
Sleep ==
    /\ due    = {}
    /\ age'   = [k \in Tasks |-> Later(k, Tick)]
    /\ due'   = DueAt(age')
    /\ spent' = 0
    /\ debt'  = NextDebt
    /\ UNCHANGED <<net, peers>>

LoopNext == \/ \E d \in 0 .. Budget :
                 \/ \E status \in BOOLEAN : NetworkCheck(d, status)
                 \/ AdoptionFlush(d)
                 \/ \E k \in Quiet : OtherTask(k, d)
                 \/ \E seen \in SUBSET Peers : PeerHeartbeat(d, seen)
                 \/ OnlineSync(d)
            \/ AdoptionSkip
            \/ Sleep

LoopSpec == LoopInit /\ [][LoopNext]_loopVars

\* The daemon thread is scheduled and every task returns.
LoopFairSpec == LoopSpec /\ WF_loopVars(LoopNext)
--------------------------------------------------------------------------------
(* Properties *)

LoopTypeOK == /\ age \in [Tasks -> Nat]
              /\ due \subseteq Tasks
              /\ spent \in 0 .. Budget
              /\ debt \in Nat
              /\ online \in BOOLEAN
              /\ recovered \in BOOLEAN
              /\ cur \subseteq Peers
              /\ prev \subseteq Peers
              /\ owed \subseteq Peers

\* A synchronisation never repeats for one offline -> online change: when
\* online_sync runs, every edge it acts on was seen by a heartbeat since its
\* last run, whatever the tasks' durations.  The heartbeat's earlier place in
\* the loop and the equal intervals guarantee it.
SyncOncePerEdge ==
    [][\A d \in 0 .. Budget : OnlineSync(d) => Edges \subseteq owed]_loopVars

\* A change offline -> online is still visible to online_sync until it has
\* acted on it: no heartbeat overwrites the previous view first (docstring of
\* _run_online_sync, "detects the change and triggers sync_with_peer").
EdgeNeverLost == owed \cap prev = {}

\* The two timers drift apart by what the tasks take,
\* and no change is lost until that adds up to a whole interval: as long as the
\* iterations that took time, each counted as Budget in whole ticks, cost less.
EdgeKept == Debt < Interval["peer_heartbeat"] => EdgeNeverLost

\* ... and then a peer that comes online is synchronised with, unless it goes
\* offline first.
EdgeServed ==
    [](Debt < Interval["peer_heartbeat"]) => \A p \in Peers : p \in owed ~> p \notin owed

\* A recovery of the network is followed by an adoption flush, unless the network
\* goes away again (head of daemon.py).  It is the periodic flush that does it:
\* _just_recovered_online, which should trigger one at once, is always False.
RecoveryFlushed == recovered ~> ~recovered

\* No task starves another: every task comes due, and is reached, forever.
EveryTaskReached == \A k \in Tasks : []<>(k \in due) /\ []<>(k \notin due)

================================================================================
