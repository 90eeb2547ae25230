----------------------------- MODULE AdoptionLog -----------------------------
(***************************************************************************)
(* The adoption events of a client: the command line and the distillation  *)
(* append them to adoption-events.jsonl, the daemon sends them in batches   *)
(* to POST /v1/metrics and removes what was answered, and the server        *)
(* ingests what it does not have yet.  Answers are late or lost, a request  *)
(* goes on after its client has given up, and the daemon may end at any     *)
(* point.                                                                   *)
(***************************************************************************)
EXTENDS Naturals, FiniteSets

CONSTANTS
    Events,         \* event ids
    Signals,        \* those of type distill_signal, which the flush cannot read
    Unfit,          \* those the server makes no row of: no asset_id, or an error
    Flushers,       \* the threads that flush
    Loop,           \* ... the daemon's loop; the others are its trigger
    BatchSize,      \* flush_batch_size
    MaxBatches,     \* max_batches of flush
    NoFile,
    MaxTriggers,    \* bound on the calls of the trigger
    MaxFaults       \* bound on failed requests, lost answers, ends of the daemon

ASSUME LogAssumption ==
    /\ Signals \subseteq Events /\ Unfit \subseteq Events /\ IsFiniteSet(Events) /\ Loop \in Flushers
    /\ BatchSize \in Nat \ {0} /\ MaxBatches \in Nat \ {0}
    /\ NoFile \notin [Events -> Nat]

VARIABLES
    lines,      \* the place of an event in the file; 0 when it is not there
    tmp,        \* the file the rewrite prepares, one for all flushers
    fl,         \* what a flusher is doing
    reqs,       \* requests in the server
    rows,       \* adoption_event: the rows of an event
    refused,    \* history: events that a request rejected as unfit
    recorded,   \* history: events that were appended
    raced,      \* history: ... while a rewrite was about to replace the file
    overlapped, \* history: events that two requests ingested at once
    left        \* what is left of the bounds

adoptVars == <<lines, tmp, fl, reqs, rows, refused, recorded, raced, overlapped, left>>

NoLines == [e \in Events |-> 0]

Idle == [pc |-> "idle", todo |-> {}, acked |-> {}, n |-> 0, batch |-> {}, kept |-> NoLines]

AdoptInit ==
    /\ lines = NoLines /\ rows = NoLines
    /\ tmp = NoFile /\ reqs = {}
    /\ fl = [f \in Flushers |-> Idle]
    /\ refused = {} /\ recorded = {} /\ raced = {} /\ overlapped = {}
    /\ left = [triggers |-> MaxTriggers, faults |-> MaxFaults]

-----------------------------------------------------------------------------
(* The file.                                                               *)

InFile == {e \in Events : lines[e] > 0}

\* record, and _write_signal_event_directly: append a line.
Record(e) ==
    /\ e \notin recorded
    /\ \E n \in 1 .. Cardinality(Events) :
          /\ \A d \in Events : lines[d] < n
          /\ n = 1 \/ \E d \in Events : lines[d] = n - 1
          /\ lines' = [lines EXCEPT ![e] = n]
    /\ recorded' = recorded \cup {e}
    /\ raced'    = IF \E f \in Flushers : fl[f].pc \in {"write", "replace"} THEN raced \cup {e} ELSE raced
    /\ UNCHANGED <<tmp, fl, reqs, rows, refused, overlapped, left>>

\* The first n of a set of events, in the order of the file.
First(n, S) ==
    {T \in SUBSET S :
        /\ Cardinality(T) = IF Cardinality(S) < n THEN Cardinality(S) ELSE n
        /\ \A a \in T, b \in S \ T : lines[a] <= lines[b]}

\* Mutant: the first line that cannot be read ends the loading.
Loaded_Break ==
    First(BatchSize * MaxBatches,
          {e \in InFile : \A s \in Signals : lines[s] = 0 \/ lines[e] < lines[s]})

\* load_pending_events: lines whose type from_dict refuses are passed over.
Loaded == First(BatchSize * MaxBatches, InFile \ Signals)

\* flush: the events are loaded once, when the server is reachable.
Load(f) ==
    /\ fl[f] = Idle
    /\ \E T \in Loaded \ {{}} : fl' = [fl EXCEPT ![f].pc = "post", ![f].todo = T]
    /\ IF f = Loop THEN UNCHANGED left
                   ELSE left.triggers > 0 /\ left' = [left EXCEPT !.triggers = @ - 1]
    /\ UNCHANGED <<lines, tmp, reqs, rows, refused, recorded, raced, overlapped>>

\* The first batch of what is left of the loaded list.
Batches(f) == First(BatchSize, fl[f].todo)

\* _post_metrics_batch, until the request is with the server.
Post(f) ==
    /\ fl[f].pc = "post"
    /\ \E B \in Batches(f), n \in 1 .. Cardinality(reqs) + 1 :
          /\ \A r \in reqs : r.n # n
          /\ \A m \in 1 .. n - 1 : \E r \in reqs : r.n = m
          /\ reqs' = reqs \cup {[by |-> f, n |-> n, batch |-> B, pc |-> "new", seen |-> {}]}
          /\ fl'   = [fl EXCEPT ![f].pc = "wait", ![f].n = n, ![f].batch = B]
    /\ UNCHANGED <<lines, tmp, rows, refused, recorded, raced, overlapped, left>>

-----------------------------------------------------------------------------
(* The server.                                                             *)

\* Mutant: the ids already stored are not looked up.
Existing_None(r) == {}

\* ingest_events: the ids of the batch that are stored already.
Existing(r) == {e \in r.batch : rows[e] > 0}

IngestRead(r) ==
    /\ r \in reqs /\ r.pc = "new"
    /\ reqs' = (reqs \ {r}) \cup {[r EXCEPT !.pc = "read", !.seen = Existing(r)]}
    /\ overlapped' = overlapped
           \cup {e \in r.batch : \E q \in reqs : q.pc = "read" /\ e \in q.batch}
    /\ UNCHANGED <<lines, tmp, fl, rows, refused, recorded, raced, left>>

\* The client that still waits for a request.
Waits(r) == fl[r.by].pc = "wait" /\ fl[r.by].n = r.n

\* Those of the other events that are fit for one get a row, in one transaction.
IngestCommit(r) ==
    /\ r \in reqs /\ r.pc = "read"
    /\ LET new == r.batch \ r.seen
       IN  /\ rows'    = [e \in Events |-> IF e \in new \ Unfit THEN rows[e] + 1 ELSE rows[e]]
           /\ refused' = refused \cup (new \cap Unfit)
    /\ reqs' = reqs \ {r}
    /\ fl'   = IF Waits(r) THEN [fl EXCEPT ![r.by].pc = "answered"] ELSE fl
    /\ UNCHANGED <<lines, tmp, recorded, raced, overlapped, left>>

\* The first error ends the sending; what was answered before it is removed.
Stopped(x) == IF x.acked = {} THEN Idle ELSE [Idle EXCEPT !.pc = "rewrite", !.acked = x.acked]

\* The server fails a request: HTTP 500, nothing is stored.
IngestFails(r) ==
    /\ r \in reqs /\ left.faults > 0
    /\ left' = [left EXCEPT !.faults = @ - 1]
    /\ reqs' = reqs \ {r}
    /\ fl'   = IF Waits(r) THEN [fl EXCEPT ![r.by] = Stopped(@)] ELSE fl
    /\ UNCHANGED <<lines, tmp, rows, refused, recorded, raced, overlapped>>

-----------------------------------------------------------------------------
(* The rest of the flush.                                                  *)

\* Mutant: the batch whose answer did not come counts as sent.
LateEnds_Sent(x) == Stopped([x EXCEPT !.acked = @ \cup x.batch])

LateEnds(x) == Stopped(x)

\* request_timeout_seconds are over, or the answer is lost; the request goes on.
GiveUp(f) ==
    /\ fl[f].pc \in {"wait", "answered"} /\ left.faults > 0
    /\ left' = [left EXCEPT !.faults = @ - 1]
    /\ fl'   = [fl EXCEPT ![f] = LateEnds(@)]
    /\ UNCHANGED <<lines, tmp, reqs, rows, refused, recorded, raced, overlapped>>

\* An answer: the whole batch counts as sent, the rejected events as well.
Answered(f) ==
    /\ fl[f].pc = "answered"
    /\ LET rest == fl[f].todo \ fl[f].batch
           sent == fl[f].acked \cup fl[f].batch
       IN  fl' = [fl EXCEPT ![f] = [Idle EXCEPT !.pc = IF rest = {} THEN "rewrite" ELSE "post",
                                                !.todo = rest, !.acked = sent]]
    /\ UNCHANGED <<lines, tmp, reqs, rows, refused, recorded, raced, overlapped, left>>

\* _rewrite_events_log: read what is kept, ...
RewriteRead(f) ==
    /\ fl[f].pc = "rewrite"
    /\ LET kept == [e \in Events |-> IF e \in fl[f].acked THEN 0 ELSE lines[e]]
       IN  fl' = [fl EXCEPT ![f] = [Idle EXCEPT !.pc = "write", !.kept = kept]]
    /\ UNCHANGED <<lines, tmp, reqs, rows, refused, recorded, raced, overlapped, left>>

\* ... write it to the temporary file ...
RewriteWrite(f) ==
    /\ fl[f].pc = "write"
    /\ tmp' = fl[f].kept
    /\ fl'  = [fl EXCEPT ![f] = [Idle EXCEPT !.pc = "replace"]]
    /\ UNCHANGED <<lines, reqs, rows, refused, recorded, raced, overlapped, left>>

\* ... and replace it.  The other flusher may have taken the file away.
RewriteReplace(f) ==
    /\ fl[f].pc = "replace"
    /\ lines' = IF tmp = NoFile THEN lines ELSE tmp
    /\ tmp'   = NoFile
    /\ fl'    = [fl EXCEPT ![f] = Idle]
    /\ UNCHANGED <<reqs, rows, refused, recorded, raced, overlapped, left>>

\* The daemon ends; its requests go on.
Crash ==
    /\ left.faults > 0 /\ \E f \in Flushers : fl[f] # Idle
    /\ left' = [left EXCEPT !.faults = @ - 1]
    /\ fl' = [f \in Flushers |-> Idle]
    /\ UNCHANGED <<lines, tmp, reqs, rows, refused, recorded, raced, overlapped>>

-----------------------------------------------------------------------------
Flush(f) ==
    \/ Load(f) \/ Post(f) \/ Answered(f) \/ RewriteRead(f)
    \/ RewriteWrite(f) \/ RewriteReplace(f)

Serve(r) == IngestRead(r) \/ IngestCommit(r)

AdoptNext ==
    \/ \E e \in Events : Record(e)
    \/ \E f \in Flushers : Flush(f) \/ GiveUp(f)
    \/ \E r \in reqs : Serve(r) \/ IngestFails(r)
    \/ Crash

\* The daemon's schedule calls flush again and again, and requests end.
AdoptFairness ==
    /\ \A f \in Flushers : WF_adoptVars(Flush(f))
    /\ WF_adoptVars(\E r \in reqs : Serve(r))

AdoptSpec == AdoptInit /\ [][AdoptNext]_adoptVars /\ AdoptFairness

-----------------------------------------------------------------------------
\* Types of the file, the flushers, the requests and the histories.
AdoptTypeOK ==
    /\ lines \in [Events -> Nat] /\ rows \in [Events -> Nat]
    /\ tmp = NoFile \/ tmp \in [Events -> Nat]
    /\ fl \in [Flushers -> [pc : {"idle", "post", "wait", "answered", "rewrite", "write", "replace"},
                            todo : SUBSET Events, acked : SUBSET Events,
                            n : Nat, batch : SUBSET Events, kept : [Events -> Nat]]]
    /\ reqs \subseteq [by : Flushers, n : Nat, batch : SUBSET Events,
                       pc : {"new", "read"}, seen : SUBSET Events]
    /\ IsFiniteSet(reqs) /\ refused \subseteq Unfit
    /\ recorded \subseteq Events /\ raced \subseteq Events /\ overlapped \subseteq Events

\* The server has dealt with an event: it made a row of it, or rejected it.
Settled(e) == rows[e] > 0 \/ e \in refused

\* An event is in the file until the server has settled it, through lost
\* answers, crashes and two flushers that take each other's temporary file.  Two
\* things alone take one out of the file uncounted: it was appended while a
\* rewrite replaced the file (adoption.py:397-424 takes no lock), or the server
\* rejected it as unfit, and the flush removes the whole batch of an answer
\* (governance/metrics.py:184-187, 218-221, adoption.py:318-326).
Accounted ==
    \A e \in recorded : lines[e] > 0 \/ Settled(e) \/ e \in raced

\* Events that are sent again are counted once, as adoption.py:31 says, unless
\* a request met another one for the same event between its look at the table
\* and its commit (governance/metrics.py:172-230).
CountedOnce ==
    \A e \in Events : rows[e] > 1 => e \in overlapped

\* Whatever is recorded and fit for a row is counted in the end, also behind
\* lines that the flush cannot read and beside events that are rejected.
AllCounted ==
    \A e \in Events \ (Signals \cup Unfit) :
        (e \in recorded) ~> (rows[e] > 0 \/ e \in raced)

=============================================================================
