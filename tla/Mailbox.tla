-------------------------------- MODULE Mailbox --------------------------------
(* async_comm/mailbox.py: the inbox/outbox of one peer, kept in three files   *)
(* (outbox.jsonl, inbox.jsonl, state.json) by every process that builds a     *)
(* Mailbox on the same directory: the client daemon, the CLI and the MCP      *)
(* bridge.  Each process loads state.json once, when it starts, and answers   *)
(* from that cache; a save replaces state.json by the whole cache.            *)
(*                                                                            *)
(* One step is one file operation, so a crash falls between any two of them.  *)
(* A JSONL file is the bag of the ids of its lines.                           *)
EXTENDS Naturals, FiniteSets

CONSTANTS Procs,       \* processes sharing the mailbox directory
          OutIds,      \* ids the local peer creates (fresh UUIDs)
          InIds,       \* ids peers create; a transport may hand one over again
          MaxCrashes,  \* bound on process crashes
          NoFile       \* "the .tmp file does not exist"

VARIABLES lines,    \* lines[e] : how many lines of outbox/inbox.jsonl carry e
          disk,     \* state.json
          tmp,      \* state.tmp, or NoFile
          outTmp,   \* outbox.tmp, or NoFile
          cache,    \* cache[p] : self._state of process p
          job,      \* job[p] : the file operation p has to do next
          created,  \* ids of OutIds already used by some append_outbox
          removed,  \* ids remove_delivered has been asked to drop
          crashes   \* crashes so far

vars == <<lines, disk, tmp, outTmp, cache, job, created, removed, crashes>>

Ids == OutIds \cup InIds

Life == INSTANCE MessageLifecycle WITH status <- disk

Unknown    == Life!Unknown
StateFiles == [Ids -> Life!Known]
Jobs       == {"down", "idle", "dump", "replace", "rewrite"}

ASSUME MailboxAssumption ==
    /\ IsFiniteSet(Procs)
    /\ OutIds \cap InIds = {}
    /\ MaxCrashes \in Nat
    /\ NoFile \notin StateFiles
    /\ NoFile \notin [OutIds -> Nat]

Init == /\ lines   = [e \in Ids |-> 0]
        /\ disk    = [e \in Ids |-> Unknown]
        /\ tmp     = NoFile
        /\ outTmp  = NoFile
        /\ cache   = [p \in Procs |-> [e \in Ids |-> Unknown]]
        /\ job     = [p \in Procs |-> "idle"]
        /\ created = {}
        /\ removed = {}
        /\ crashes = 0
--------------------------------------------------------------------------------
\* Mutant: the id is not looked up before the line is written.
Append_NoLookup(p, e) ==
    /\ job[p] = "idle"
    /\ lines' = [lines EXCEPT ![e] = @ + 1]
    /\ cache' = [cache EXCEPT ![p][e] = Life!FirstStatus(e)]
    /\ job'   = [job EXCEPT ![p] = "dump"]
    /\ UNCHANGED <<disk, tmp, outTmp, removed, crashes>>

\* append_outbox / append_inbox: the cache decides whether the id is new; the
\* line is written first, then the cache entry is set and saved.
Append(p, e) ==
    /\ job[p] = "idle"
    /\ cache[p][e] = Unknown
    /\ lines' = [lines EXCEPT ![e] = @ + 1]
    /\ cache' = [cache EXCEPT ![p][e] = Life!FirstStatus(e)]
    /\ job'   = [job EXCEPT ![p] = "dump"]
    /\ UNCHANGED <<disk, tmp, outTmp, removed, crashes>>

\* An outgoing event has a fresh id: no process appends it twice.
AppendOutbox(p, e) == /\ e \in OutIds \ created
                      /\ Append(p, e)
                      /\ created' = created \cup {e}

\* An incoming one keeps its sender's id: fetch may return it any number of times.
AppendInbox(p, e) == /\ e \in InIds
                     /\ Append(p, e)
                     /\ UNCHANGED created

\* Mutant: only the status name is validated, not the move.
UpdateStatus_AnyMove(p, e, s) ==
    /\ job[p] = "idle"
    /\ cache[p][e] # Unknown
    /\ cache' = [cache EXCEPT ![p][e] = s]
    /\ job'   = [job EXCEPT ![p] = "dump"]
    /\ UNCHANGED <<lines, disk, tmp, outTmp, created, removed, crashes>>

\* update_status: unknown ids, equal statuses and illegal moves change nothing.
UpdateStatus(p, e, s) ==
    /\ job[p] = "idle"
    /\ <<cache[p][e], s>> \in Life!Transitions
    /\ cache' = [cache EXCEPT ![p][e] = s]
    /\ job'   = [job EXCEPT ![p] = "dump"]
    /\ UNCHANGED <<lines, disk, tmp, outTmp, created, removed, crashes>>

\* _save_state, first half: the whole cache goes to state.tmp.
DumpState(p) ==
    /\ job[p] = "dump"
    /\ tmp' = cache[p]
    /\ job' = [job EXCEPT ![p] = "replace"]
    /\ UNCHANGED <<lines, disk, outTmp, cache, created, removed, crashes>>

\* _save_state, second half: os.replace(state.tmp, state.json).  It raises when
\* another process has already moved state.tmp away.
ReplaceState(p) ==
    /\ job[p] = "replace"
    /\ disk' = IF tmp = NoFile THEN disk ELSE tmp
    /\ tmp'  = NoFile
    /\ job'  = [job EXCEPT ![p] = "idle"]
    /\ UNCHANGED <<lines, outTmp, cache, created, removed, crashes>>

\* Mutant: the lines of the given ids are kept, the others dropped.
RewriteOutbox_Inverted(p, S) ==
    /\ job[p] = "idle"
    /\ outTmp'  = [e \in OutIds |-> IF e \in S THEN lines[e] ELSE 0]
    /\ removed' = removed \cup S
    /\ job'     = [job EXCEPT ![p] = "rewrite"]
    /\ UNCHANGED <<lines, disk, tmp, cache, created, crashes>>

\* Mutant: every line that is not pending goes, asked for or not.
RewriteOutbox_KeepPending(p, S) ==
    /\ job[p] = "idle"
    /\ outTmp'  = [e \in OutIds |->
                     IF cache[p][e] = "pending_delivery" THEN lines[e] ELSE 0]
    /\ removed' = removed \cup S
    /\ job'     = [job EXCEPT ![p] = "rewrite"]
    /\ UNCHANGED <<lines, disk, tmp, cache, created, crashes>>

\* remove_delivered, first half: read outbox.jsonl, write the kept lines to
\* outbox.tmp.  The statuses of the ids are not looked at.
RewriteOutbox(p, S) ==
    /\ job[p] = "idle"
    /\ outTmp'  = [e \in OutIds |-> IF e \in S THEN 0 ELSE lines[e]]
    /\ removed' = removed \cup S
    /\ job'     = [job EXCEPT ![p] = "rewrite"]
    /\ UNCHANGED <<lines, disk, tmp, cache, created, crashes>>

\* remove_delivered, second half: os.replace(outbox.tmp, outbox.jsonl).
ReplaceOutbox(p) ==
    /\ job[p] = "rewrite"
    /\ lines'  = IF outTmp = NoFile THEN lines
                 ELSE [e \in Ids |-> IF e \in OutIds THEN outTmp[e] ELSE lines[e]]
    /\ outTmp' = NoFile
    /\ job'    = [job EXCEPT ![p] = "idle"]
    /\ UNCHANGED <<disk, tmp, cache, created, removed, crashes>>

Crash(p) ==
    /\ job[p] # "down"
    /\ crashes < MaxCrashes
    /\ crashes' = crashes + 1
    /\ job'     = [job EXCEPT ![p] = "down"]
    /\ UNCHANGED <<lines, disk, tmp, outTmp, cache, created, removed>>

\* A new process: Mailbox.__init__ loads state.json once.
Restart(p) ==
    /\ job[p] = "down"
    /\ cache' = [cache EXCEPT ![p] = disk]
    /\ job'   = [job EXCEPT ![p] = "idle"]
    /\ UNCHANGED <<lines, disk, tmp, outTmp, created, removed, crashes>>

Next == \E p \in Procs :
          \/ \E e \in Ids : \/ AppendOutbox(p, e)
                            \/ AppendInbox(p, e)
                            \/ \E s \in Life!Statuses : UpdateStatus(p, e, s)
          \/ DumpState(p)
          \/ ReplaceState(p)
          \/ \E S \in (SUBSET OutIds) \ {{}} : RewriteOutbox(p, S)
          \/ ReplaceOutbox(p)
          \/ Crash(p)
          \/ Restart(p)

Spec == Init /\ [][Next]_vars
--------------------------------------------------------------------------------
(* Properties *)

TypeOK == /\ lines \in [Ids -> Nat]
          /\ disk \in StateFiles
          /\ tmp \in StateFiles \cup {NoFile}
          /\ outTmp \in [OutIds -> Nat] \cup {NoFile}
          /\ cache \in [Procs -> StateFiles]
          /\ job \in [Procs -> Jobs]
          /\ created \subseteq OutIds
          /\ removed \subseteq OutIds
          /\ crashes \in 0 .. MaxCrashes

\* Every status change that reaches state.json, crashes included, is one legal
\* move of one message: terminal statuses are final and nothing regresses
\* (the transition table at the head of mailbox.py, through _save_state).
LifecycleKept == Life!Spec

\* Write-ahead order of append_*: a status on disk always has its line in the
\* JSONL file, unless remove_delivered was asked to drop it, so a message that
\* state.json calls pending can still be loaded and pushed.
StatusHasLine ==
    \A e \in Ids : disk[e] # Unknown => lines[e] > 0 \/ e \in removed

\* Every duplicated line of an id is paid for by a process that had not read the
\* id in state.json yet, or by a crash between a line and its save: with one
\* process and no crash, append_inbox is idempotent however often fetch repeats.
DuplicatesBounded ==
    \A e \in Ids : lines[e] <= Cardinality(Procs) + crashes

\* A process at rest answers get_status / load_outbox from a cache that equals
\* state.json.  This is what one process per directory buys.
CacheIsDisk == \A p \in Procs : job[p] = "idle" => cache[p] = disk

\* Appending is idempotent by event id: a second append of an id writes no
\* second line (docstrings of append_outbox and append_inbox).
NoDuplicateLine == \A e \in Ids : lines[e] <= 1

\* An outgoing message whose append has written its line is known to every
\* later load: no restarted process finds a line without a status.
QueuedIsKnown ==
    \A p \in Procs : \A e \in OutIds :
        job[p] = "idle" /\ lines[e] > 0 => cache[p][e] # Unknown

\* A rewrite excludes processed events only: an id nobody asked to remove keeps
\* its line.
RewriteKeepsOthers ==
    [][\A e \in Ids \ removed : lines'[e] >= lines[e]]_vars

================================================================================
