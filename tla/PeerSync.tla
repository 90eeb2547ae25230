-------------------------------- MODULE PeerSync --------------------------------
(* async_comm: the path of a message from PeerComm.ask_peer / share_asset,    *)
(* through the outbox, to the peer, and of the answers back into the log.     *)
(* Two processes of one member take part: the asker (an MCP bridge, a CLI     *)
(* command, or code next to the daemon) and the daemon, whose heartbeat sees  *)
(* peers come online and whose SyncProtocol then pushes, pulls, reconciles    *)
(* and resumes.  They may be one process (Asker = Daemon).                    *)
(*                                                                            *)
(* A Mailbox operation is one step here (Mailbox takes it apart), and a       *)
(* heartbeat is followed by its synchronisations before the next one          *)
(* (DaemonLoop says when that is so).                                         *)
EXTENDS Naturals, FiniteSets

CONSTANTS Peers,
          Questions, Assets,  \* requests: ask_peer, share_asset
          To,                 \* To[r] : the peer of request r
          Asker, Daemon,      \* the two processes
          Resolver,           \* TRUE: the SyncProtocol has a conflict_resolver
          MaxSyncs,           \* bound on resolution events of one question
          MayRestart          \* FALSE: no process is restarted

Requests == Questions \cup Assets
Procs    == {Asker, Daemon}

\* Messages a request may put on the wire.  An offline question becomes two:
\* PeerComm's ask and the ask of ShadowComm.
Msgs == {<<q, k>> : q \in Questions, k \in {"ask", "shadow"}}
          \cup {<<a, "asset">> : a \in Assets}

Dest(m)  == To[m[1]]
First(r) == IF r \in Questions THEN <<r, "ask">> ELSE <<r, "asset">>

ASSUME SyncAssumption == /\ Questions \cap Assets = {}
                         /\ To \in [Requests -> Peers]
                         /\ Resolver \in BOOLEAN
                         /\ MaxSyncs \in Nat
                         /\ MayRestart \in BOOLEAN

VARIABLES up,       \* peers the transport can reach now
          received, \* messages that arrived at their peer
          held,     \* messages the transport accepted, to hand on later
          replies,  \* messages their peer has answered
          lines,    \* messages with a line in outbox.jsonl
          disk,     \* state.json
          cache,    \* cache[q] : Mailbox._state of process q
          reach,    \* reach[p] : the asker's _reachability_cache
          call,     \* the asker's request and the step it is at
          done,     \* requests that returned
          answers,  \* messages whose answer is in the conversation log
          sims,     \* questions with a simulated_answer in the log
          results,  \* results[q] : resolution events of q in the log
          view,     \* peers the last heartbeat saw reachable
          todo,     \* peers that came online and are still to be synchronised
          sync      \* the synchronisation in progress

vars == <<up, received, held, replies, lines, disk, cache, reach, call, done,
          answers, sims, results, view, todo, sync>>

net    == <<up, received, held, replies>>
box    == <<lines, disk, cache>>
asker  == <<reach, call, done>>
log    == <<answers, sims, results>>
daemon == <<view, todo, sync>>

Status == {"none", "pending_delivery", "delivered"}
NoCall == [at |-> "idle"]
NoSync == [at |-> "idle"]
Calls  == {NoCall} \cup [at : {"deliver", "fetch", "queue", "shadow"}, req : Requests]
Syncs  == {NoSync} \cup [at : {"pull", "reconcile"}, peer : Peers]
                   \cup [at : {"mark"}, peer : Peers, left : SUBSET Msgs]

At(step, r)   == [at |-> step, req |-> r]
Sync(step, p) == [at |-> step, peer |-> p]

Init == /\ up       = {}
        /\ received = {}
        /\ held     = {}
        /\ replies  = {}
        /\ lines    = {}
        /\ disk     = [m \in Msgs |-> "none"]
        /\ cache    = [q \in Procs |-> [m \in Msgs |-> "none"]]
        /\ reach    = [p \in Peers |-> "unknown"]
        /\ call     = NoCall
        /\ done     = {}
        /\ answers  = {}
        /\ sims     = {}
        /\ results  = [q \in Questions |-> 0]
        /\ view     = {}
        /\ todo     = {}
        /\ sync     = NoSync
--------------------------------------------------------------------------------
(* The peers and the network *)

Flip(p) ==
    /\ up' = IF p \in up THEN up \ {p} ELSE up \cup {p}
    /\ UNCHANGED <<received, held, replies, box, asker, log, daemon>>

\* The peer answers a question it received.
Reply(m) ==
    /\ m \in received \ replies
    /\ m[1] \in Questions
    /\ Dest(m) \in up
    /\ replies' = replies \cup {m}
    /\ UNCHANGED <<up, received, held, box, asker, log, daemon>>

\* What the transport accepted reaches the peer.
Relay(m) ==
    /\ m \in held \ received
    /\ Dest(m) \in up
    /\ received' = received \cup {m}
    /\ UNCHANGED <<up, held, replies, box, asker, log, daemon>>
--------------------------------------------------------------------------------
(* The asker: ask_peer and share_asset, one call at a time *)

\* A cached reachability is at most network_check_interval_seconds old.
Expire(p) ==
    /\ reach[p] # "unknown"
    /\ reach' = [reach EXCEPT ![p] = "unknown"]
    /\ UNCHANGED <<net, box, call, done, log, daemon>>

\* _is_peer_reachable decides between the two paths.
Begin(r) ==
    /\ call = NoCall
    /\ r \notin done
    /\ reach' = IF reach[To[r]] # "unknown" THEN reach
                ELSE [reach EXCEPT ![To[r]] = IF To[r] \in up THEN "up" ELSE "down"]
    /\ call'  = At(IF reach'[To[r]] = "up" THEN "deliver" ELSE "queue", r)
    /\ UNCHANGED <<net, box, done, log, daemon>>

\* transport.deliver; its result is not looked at.  An asset is done with it.
Deliver(r) ==
    /\ call = At("deliver", r)
    /\ \/ To[r] \in up /\ received' = received \cup {First(r)} /\ UNCHANGED held
       \/ held' = held \cup {First(r)} /\ UNCHANGED received
       \/ UNCHANGED <<received, held>>
    /\ IF r \in Questions
       THEN call' = At("fetch", r) /\ UNCHANGED done
       ELSE call' = NoCall /\ done' = done \cup {r}
    /\ UNCHANGED <<up, replies, box, reach, log, daemon>>

\* transport.fetch; an answer that is not there yet leaves a pending one.
Fetch(r) ==
    /\ call = At("fetch", r)
    /\ \/ To[r] \in up /\ answers' = answers \cup (replies \cap {First(r)})
       \/ UNCHANGED answers
    /\ call' = NoCall
    /\ done' = done \cup {r}
    /\ UNCHANGED <<net, box, reach, sims, results, daemon>>

\* Mutant: the status file is written from the new entry alone.
Append_EntryOnly(q, m) ==
    /\ lines' = lines \cup {m}
    /\ cache' = [cache EXCEPT ![q] = [n \in Msgs |->
                   IF n = m THEN "pending_delivery" ELSE "none"]]
    /\ disk'  = cache'[q]

\* Mailbox.append_outbox in process q.
Append(q, m) ==
    /\ lines' = lines \cup {m}
    /\ cache' = [cache EXCEPT ![q][m] = "pending_delivery"]
    /\ disk'  = cache'[q]

\* share_asset to an unreachable peer, or the first half of _offline_ask.
Queue(r) ==
    /\ call = At("queue", r)
    /\ Append(Asker, First(r))
    /\ IF r \in Questions
       THEN call' = At("shadow", r) /\ UNCHANGED done
       ELSE call' = NoCall /\ done' = done \cup {r}
    /\ UNCHANGED <<net, reach, log, daemon>>

\* ShadowComm.ask_peer: a second ask, and the answer simulated for it.
Shadow(r) ==
    /\ call = At("shadow", r)
    /\ Append(Asker, <<r, "shadow">>)
    /\ sims' = sims \cup {r}
    /\ call' = NoCall
    /\ done' = done \cup {r}
    /\ UNCHANGED <<net, reach, answers, results, daemon>>
--------------------------------------------------------------------------------
(* The daemon *)

\* Mutant: the change is taken the other way round.
CameOnline_WentOffline == view \ up

\* Peers that the last heartbeat did not see.
CameOnline == up \ view

\* _run_peer_heartbeat, and the edges _run_online_sync finds in it.
Heartbeat ==
    /\ todo = {}
    /\ sync = NoSync
    /\ view' = up
    /\ todo' = CameOnline
    /\ UNCHANGED <<net, box, asker, log, sync>>

\* load_outbox("pending_delivery"), for one recipient.
Pending(p) == {m \in lines : Dest(m) = p /\ cache[Daemon][m] = "pending_delivery"}

\* Mutant: what was sent counts as delivered.
Successful_All(sent, ids, success) == sent

\* What counts as delivered: the messages the result names; all of them when it
\* names none and reports success.
Successful(sent, ids, success) ==
    IF ids # {} THEN sent \cap ids ELSE IF success THEN sent ELSE {}

\* What transport.deliver may do with `sent` and report: `got` arrive, `kept` are
\* accepted to be handed on later.  It names no message that has not arrived, and
\* reports a success without names (CentralTransport does) when it dropped none;
\* but a report may be lost, in whole or in part.
Result(p, sent, got, kept, ids, success) ==
    /\ got # {} => p \in up
    /\ success /\ ids = {} => got \cup kept = sent

\* The first half of _push_outbox: deliver what is pending.  What counts as
\* delivered is then marked message by message.
Push(p) ==
    /\ p \in todo
    /\ sync = NoSync
    /\ \E got \in SUBSET Pending(p) : \E kept \in SUBSET (Pending(p) \ got) :
       \E ids \in SUBSET got, success \in BOOLEAN :
         /\ Result(p, Pending(p), got, kept, ids, success)
         /\ received' = received \cup got
         /\ held'     = held \cup kept
         /\ LET left == Successful(Pending(p), ids, success)
            IN  sync' = IF left = {} THEN Sync("pull", p)
                        ELSE [at |-> "mark", peer |-> p, left |-> left]
    /\ todo' = todo \ {p}
    /\ UNCHANGED <<up, replies, box, asker, log, view>>

\* update_status(m, "delivered"), which writes the status file.
Mark(m) ==
    /\ sync.at = "mark"
    /\ m \in sync.left
    /\ cache' = [cache EXCEPT ![Daemon][m] = "delivered"]
    /\ disk'  = cache'[Daemon]
    /\ sync'  = IF sync.left = {m} THEN Sync("pull", sync.peer)
                ELSE [sync EXCEPT !.left = @ \ {m}]
    /\ UNCHANGED <<net, lines, asker, log, view, todo>>

\* _pull_inbox: answers go to the inbox and the log; a failed fetch is empty.
Pull(p) ==
    /\ sync = Sync("pull", p)
    /\ \/ p \in up /\ answers' = answers \cup {m \in replies : Dest(m) = p}
       \/ UNCHANGED answers
    /\ sync' = Sync("reconcile", p)
    /\ UNCHANGED <<net, box, asker, sims, results, view, todo>>

\* A real answer to the ask the simulated one replies to.
Matched(q) == q \in sims /\ <<q, "shadow">> \in answers

\* _reconcile_simulated_answers: a resolution event per matched question.
Reconcile(p) ==
    /\ sync = Sync("reconcile", p)
    /\ results' = [q \in Questions |->
                     IF Resolver /\ To[q] = p /\ Matched(q) /\ results[q] < MaxSyncs
                     THEN results[q] + 1 ELSE results[q]]
    /\ sync' = NoSync
    /\ UNCHANGED <<net, box, asker, answers, sims, view, todo>>

\* Process q starts again and loads state.json.  A daemon knows no peer; an
\* asker has lost its call, and what it knew of the peers' reachability.
Restart(q) ==
    /\ MayRestart
    /\ cache' = [cache EXCEPT ![q] = disk]
    /\ IF q = Daemon THEN view' = {} /\ todo' = {} /\ sync' = NoSync
                     ELSE UNCHANGED daemon
    /\ IF q = Asker
       THEN /\ reach' = [p \in Peers |-> "unknown"]
            /\ call'  = NoCall
            /\ done'  = IF call = NoCall THEN done ELSE done \cup {call.req}
       ELSE UNCHANGED asker
    /\ UNCHANGED <<net, lines, disk, log>>

AskerNext  == \/ \E r \in Requests : Begin(r) \/ Deliver(r) \/ Queue(r)
              \/ \E q \in Questions : Fetch(q) \/ Shadow(q)
DaemonNext == \/ Heartbeat
              \/ \E p \in Peers : Push(p) \/ Pull(p) \/ Reconcile(p)
              \/ \E m \in Msgs : Mark(m)

Next == \/ AskerNext
        \/ DaemonNext
        \/ \E q \in Procs : Restart(q)
        \/ \E p \in Peers : Flip(p) \/ Expire(p)
        \/ \E m \in Msgs : Reply(m) \/ Relay(m)

Spec == Init /\ [][Next]_vars

\* Both processes are scheduled.
Scheduled == WF_vars(AskerNext) /\ WF_vars(DaemonNext)

StableSpec == Spec /\ Scheduled
--------------------------------------------------------------------------------
(* Properties *)

TypeOK == /\ up \subseteq Peers
          /\ received \subseteq Msgs
          /\ held \subseteq Msgs
          /\ replies \subseteq received
          /\ lines \subseteq Msgs
          /\ disk \in [Msgs -> Status]
          /\ cache \in [Procs -> [Msgs -> Status]]
          /\ reach \in [Peers -> {"unknown", "up", "down"}]
          /\ call \in Calls
          /\ done \subseteq Requests
          /\ answers \subseteq Msgs
          /\ sims \subseteq Questions
          /\ results \in [Questions -> 0 .. MaxSyncs]
          /\ view \subseteq Peers
          /\ todo \subseteq Peers
          /\ sync \in Syncs

\* A message state.json calls delivered has arrived, or the transport accepted
\* it, however asker and daemon overwrite each other's status file and wherever
\* _push_outbox is interrupted.
Accepted == received \cup held

DeliveredAccepted == \A m \in Msgs : disk[m] = "delivered" => m \in Accepted

\* The status file is written by a process that knew another status of m.
Overwritten(m) == \E q \in Procs : cache[q][m] # disk[m] /\ disk' = cache'[q]

\* No append, synchronisation or restart makes the outbox forget a queued
\* message, or a delivery: a status on file changes to "delivered" only, unless
\* the other process overwrites the file with what it last knew.
KeptUnlessOverwritten ==
    [][\A m \in Msgs : disk[m] # "none" =>
         disk'[m] \in {disk[m], "delivered"} \/ Overwritten(m)]_vars

\* A push of everything that was pending for p has been acknowledged.
AllTaken(p) == sync.at = "mark" /\ sync.peer = p /\ sync.left = Pending(p)

\* The network gives the daemon a chance: the peer comes back again and again,
\* and of pushes begun again and again, some succeed as long as there is
\* something to push.
Chance(p) == /\ []<>(p \notin view)
             /\ []<>(p \in view)
             /\ []<>(p \in todo) => []<>(AllTaken(p) \/ Pending(p) = {})

\* A message the daemon knows to be pending is handed over, if the network gives
\* it a chance: a failed push is tried again when the peer comes back, and after
\* a restart.  (Unless the other process overwrites the file before a restart.)
QueuedHandedOver ==
    \A p \in Peers : Chance(p) =>
        \A m \in {n \in Msgs : Dest(n) = p} :
            cache[Daemon][m] = "pending_delivery"
              ~> (m \in Accepted \/ cache[Daemon][m] = "none")

\* Queued questions and assets reach the peer (shadow_comm.py: "the question is
\* written to the outbox, to be synchronised when the peer comes online").
QueuedArrives == \A m \in Msgs : disk[m] = "pending_delivery" ~> m \in received

\* ... at least while the peer stays reachable.
QueuedArrivesOnline ==
    \A m \in Msgs : disk[m] = "pending_delivery" ~> (m \in received \/ Dest(m) \notin up)

\* An unreachable peer's asset waits in the outbox (docstring of share_asset).
AssetKept == \A a \in Assets \cap done :
    <<a, "asset">> \in received \/ <<a, "asset">> \in lines

\* Repeated synchronisation has no side effect (head of sync_protocol.py).
ResolvedOnce == \A q \in Questions : results[q] <= 1

================================================================================
