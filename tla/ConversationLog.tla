---------------------------- MODULE ConversationLog ----------------------------
(* async_comm/conversation_log.py: the append-only event log of a peer and the *)
(* state of its conversation with every other peer (conversation_state.json). *)
(* Threads of several processes call it.  append() checks and writes without a *)
(* lock; the conversation states are cached per process and guarded by a lock, *)
(* which resume_conversation and the daemon's timeout check release between   *)
(* reading an entry and setting it.                                           *)
EXTENDS Naturals, FiniteSets

CONSTANTS Threads, Procs,
          ProcOf,      \* ProcOf[t] : the process thread t belongs to
          Peers,
          Ids,         \* ids of events received from peers
          MaxEvents,   \* bound on the events of the conversations
          MaxCrashes   \* bound on process crashes

ASSUME LogAssumption == /\ IsFiniteSet(Threads)
                        /\ ProcOf \in [Threads -> Procs]
                        /\ MaxEvents \in Nat
                        /\ MaxCrashes \in Nat

VARIABLES lines,    \* lines[e] : lines of conversation.jsonl that carry e
          events,   \* conversation events so far: 1 .. events, oldest first
          file,     \* conversation_state.json
          cache,    \* cache[q] : self._state_cache of process q
          call,     \* call[t] : what thread t has read and will write
          crashes

vars == <<lines, events, file, cache, call, crashes>>

States   == {"active", "paused", "timeout_disconnect", "resumed"}
Waiting  == {"paused", "timeout_disconnect"}
NoEntry  == [state |-> "none", last |-> 0]
Entries  == [state : States, last : 1 .. MaxEvents] \cup {NoEntry}
Idle     == [op |-> "idle"]
Calls    == {Idle}
       \cup [op : {"write"}, id : Ids]
       \cup [op : {"set"}, peer : Peers, entry : Entries \ {NoEntry}, seen : Entries]

Entry(s, n) == [state |-> s, last |-> n]

\* Thread t is going to set p's entry to e; seen is the entry its process has now.
ToSet(t, p, e) == [op |-> "set", peer |-> p, entry |-> e, seen |-> cache[ProcOf[t]][p]]

Init == /\ lines   = [e \in Ids |-> 0]
        /\ events  = 0
        /\ file    = [p \in Peers |-> NoEntry]
        /\ cache   = [q \in Procs |-> [p \in Peers |-> NoEntry]]
        /\ call    = [t \in Threads |-> Idle]
        /\ crashes = 0
--------------------------------------------------------------------------------
\* Mutant: the existence check is left out.
AppendCheck_Blind(t, e) ==
    /\ call[t] = Idle
    /\ lines[e] < 2 + Cardinality(Threads)
    /\ call' = [call EXCEPT ![t] = [op |-> "write", id |-> e]]
    /\ UNCHANGED <<lines, events, file, cache, crashes>>

\* append: scan the file for the id; when it is there nothing happens.
AppendCheck(t, e) ==
    /\ call[t] = Idle
    /\ lines[e] = 0
    /\ call' = [call EXCEPT ![t] = [op |-> "write", id |-> e]]
    /\ UNCHANGED <<lines, events, file, cache, crashes>>

\* append, continued: write the line.
AppendWrite(t) ==
    /\ call[t].op = "write"
    /\ lines' = [lines EXCEPT ![call[t].id] = @ + 1]
    /\ call'  = [call EXCEPT ![t] = Idle]
    /\ UNCHANGED <<events, file, cache, crashes>>

\* PeerComm logs a new event of the conversation (the answer of a realtime ask,
\* the ask of an offline one) and then sets the state.
Converse(t, p, s) ==
    /\ call[t] = Idle
    /\ events < MaxEvents
    /\ events' = events + 1
    /\ call'   = [call EXCEPT ![t] = ToSet(t, p, Entry(s, events + 1))]
    /\ UNCHANGED <<lines, file, cache, crashes>>

\* resume_conversation: read the entry under the lock, release it, rebuild the
\* thread, set the state.
ResumeRead(t, p) ==
    /\ call[t] = Idle
    /\ cache[ProcOf[t]][p].state \in Waiting
    /\ call' = [call EXCEPT ![t] = ToSet(t, p, Entry("resumed", cache[ProcOf[t]][p].last))]
    /\ UNCHANGED <<lines, events, file, cache, crashes>>

\* Mutant: the oldest event of the peer is taken for the last one.
TimeoutRead_First(t, p) ==
    /\ call[t] = Idle
    /\ cache[ProcOf[t]][p].state = "active"
    /\ call' = [call EXCEPT ![t] = ToSet(t, p, Entry("timeout_disconnect", 1))]
    /\ UNCHANGED <<lines, events, file, cache, crashes>>

\* _run_session_timeout_check: list the active conversations, look up the last
\* event of one, find it too old, set the state.
TimeoutRead(t, p) ==
    /\ call[t] = Idle
    /\ cache[ProcOf[t]][p].state = "active"
    /\ call' = [call EXCEPT ![t] =
                  ToSet(t, p, Entry("timeout_disconnect", cache[ProcOf[t]][p].last))]
    /\ UNCHANGED <<lines, events, file, cache, crashes>>

\* set_conversation_state, under the lock: nothing when the entry is the same,
\* otherwise the cache is changed and saved as a whole.
SetState(t) ==
    /\ call[t].op = "set"
    /\ LET q == ProcOf[t] IN
         IF cache[q][call[t].peer] = call[t].entry
         THEN UNCHANGED <<cache, file>>
         ELSE /\ cache' = [cache EXCEPT ![q][call[t].peer] = call[t].entry]
              /\ file'  = cache'[q]
    /\ call' = [call EXCEPT ![t] = Idle]
    /\ UNCHANGED <<lines, events, crashes>>

\* clear_conversation_state.
Clear(t, p) ==
    /\ call[t] = Idle
    /\ cache[ProcOf[t]][p] # NoEntry
    /\ cache' = [cache EXCEPT ![ProcOf[t]][p] = NoEntry]
    /\ file'  = cache'[ProcOf[t]]
    /\ UNCHANGED <<lines, events, call, crashes>>

\* A process dies and starts again: its threads forget what they read, and the
\* cache is loaded from the file.
Restart(q) ==
    /\ crashes < MaxCrashes
    /\ crashes' = crashes + 1
    /\ call'  = [t \in Threads |-> IF ProcOf[t] = q THEN Idle ELSE call[t]]
    /\ cache' = [cache EXCEPT ![q] = file]
    /\ UNCHANGED <<lines, events, file>>

Next == \/ \E t \in Threads :
             \/ \E e \in Ids : AppendCheck(t, e)
             \/ AppendWrite(t)
             \/ \E p \in Peers : \/ \E s \in {"active", "paused"} : Converse(t, p, s)
                                 \/ ResumeRead(t, p)
                                 \/ TimeoutRead(t, p)
                                 \/ Clear(t, p)
             \/ SetState(t)
        \/ \E q \in Procs : Restart(q)

Spec == Init /\ [][Next]_vars
--------------------------------------------------------------------------------
(* Properties *)

TypeOK == /\ lines \in [Ids -> Nat]
          /\ events \in 0 .. MaxEvents
          /\ file \in [Peers -> Entries]
          /\ cache \in [Procs -> [Peers -> Entries]]
          /\ call \in [Threads -> Calls]
          /\ crashes \in 0 .. MaxCrashes

\* append() without a lock: each thread that had checked before the first line
\* was written may add one more, and nobody afterwards, crashes included.
DuplicatesBounded == \A e \in Ids : lines[e] <= Cardinality(Threads)

\* "Idempotent: an event id is not written twice" (append, conversation_log.py).
NoDuplicateLine == \A e \in Ids : lines[e] <= 1

SetBack(q, p) == /\ cache'[q][p] # NoEntry
                 /\ cache'[q][p].last < cache[q][p].last

\* Thread t of process q sets the entry of p, which another thread of q has
\* changed since t began.
Overtaken(t, q, p) ==
    /\ ProcOf[t] = q /\ call[t].op = "set" /\ call[t].peer = p /\ call[t].seen # cache[q][p]
    /\ call'[t] = Idle

\* A conversation's state is set back to an older event, so that resuming it
\* rebuilds a thread without the newest ask or answer, in two cases only: by a
\* thread that another one of its process has overtaken, and by the restart of a
\* process over the file that another process has saved.
NewestKept ==
    [][\A q \in Procs, p \in Peers : SetBack(q, p) =>
          \/ \E t \in Threads : Overtaken(t, q, p)
          \/ \E r \in Procs \ {q} : cache'[q] = file /\ file = cache[r]]_vars
================================================================================
