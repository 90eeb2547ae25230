-------------------------- MODULE MailboxLoop_proofs ---------------------------
(* Theorems about Mailbox, for every set of processes and of messages, and    *)
(* about DaemonLoop, for every set of peers and all task intervals.  The two  *)
(* components share no state; the loop's names carry the prefix Loop.         *)
EXTENDS Mailbox, DaemonLoop, FiniteSetTheorems, TLAPS

(* Mailbox *)
\* The status of a new message is a status.
LEMMA FirstStatusKnown ==
    ASSUME NEW e \in Ids
    PROVE  Life!FirstStatus(e) \in Life!Statuses
  BY DEF Life!FirstStatus, Life!Statuses

\* The mailbox's variables keep their types: two facts per action.
THEOREM TypeCorrect == Spec => []TypeOK
<1>1. Init => TypeOK
  BY MailboxAssumption DEF Init, TypeOK, StateFiles, Jobs, Unknown, Life!Known
<1>2. TypeOK /\ [Next]_vars => TypeOK'
  <2> SUFFICES ASSUME TypeOK, [Next]_vars PROVE TypeOK'
    OBVIOUS
  <2> USE MailboxAssumption DEF TypeOK, Jobs, StateFiles
  <2>1. ASSUME NEW p \in Procs, NEW e \in Ids, Append(p, e),
               created' \subseteq OutIds
        PROVE  TypeOK'
    <3>1. Life!FirstStatus(e) \in Life!Known
      BY FirstStatusKnown DEF Life!Known
    <3>2. lines' \in [Ids -> Nat]
      BY <2>1 DEF Append
    <3>3. cache' \in [Procs -> StateFiles]
      BY <2>1, <3>1 DEF Append
    <3> QED
      BY <2>1, <3>2, <3>3 DEF Append
  <2>2. ASSUME NEW p \in Procs, NEW e \in Ids, AppendOutbox(p, e)
        PROVE  TypeOK'
    BY <2>1, <2>2 DEF AppendOutbox
  <2>3. ASSUME NEW p \in Procs, NEW e \in Ids, AppendInbox(p, e)
        PROVE  TypeOK'
    BY <2>1, <2>3 DEF AppendInbox
  <2>4. ASSUME NEW p \in Procs, NEW e \in Ids, NEW s \in Life!Statuses,
               UpdateStatus(p, e, s)
        PROVE  TypeOK'
    BY <2>4 DEF UpdateStatus, Life!Known
  <2>5. ASSUME NEW p \in Procs, DumpState(p) PROVE TypeOK'
    BY <2>5 DEF DumpState
  <2>6. ASSUME NEW p \in Procs, ReplaceState(p) PROVE TypeOK'
    BY <2>6 DEF ReplaceState
  <2>7. ASSUME NEW p \in Procs, NEW S \in (SUBSET OutIds) \ {{}}, RewriteOutbox(p, S)
        PROVE  TypeOK'
    BY <2>7 DEF RewriteOutbox, Ids
  <2>8. ASSUME NEW p \in Procs, ReplaceOutbox(p) PROVE TypeOK'
    BY <2>8 DEF ReplaceOutbox
  <2>9. ASSUME NEW p \in Procs, Crash(p) PROVE TypeOK'
    BY <2>9 DEF Crash
  <2>10. ASSUME NEW p \in Procs, Restart(p) PROVE TypeOK'
    BY <2>10 DEF Restart
  <2>11. CASE UNCHANGED vars
    BY <2>11 DEF vars
  <2> QED
    BY <2>2, <2>3, <2>4, <2>5, <2>6, <2>7, <2>8, <2>9, <2>10, <2>11 DEF Next
<1> QED
  BY <1>1, <1>2, PTL DEF Spec
--------------------------------------------------------------------------------
(* How often an id can be written.  Holders(e) are the running processes whose *)
(* cache has e; each of them accounts for at most one line of e, and a crash    *)
(* turns at most one holder into a line nobody remembers.                       *)

Holders(e) == {p \in Procs : job[p] # "down" /\ cache[p][e] # Unknown}

LinesPaidFor == \A e \in Ids : lines[e] <= Cardinality(Holders(e)) + crashes

\* The processes whose cache has an id are finitely many.
LEMMA HoldersFinite ==
    ASSUME NEW e
    PROVE  /\ IsFiniteSet(Holders(e))
           /\ Cardinality(Holders(e)) \in Nat
           /\ Cardinality(Holders(e)) <= Cardinality(Procs)
<1>1. Holders(e) \in SUBSET Procs
  BY DEF Holders
<1>2. IsFiniteSet(Holders(e)) /\ Cardinality(Holders(e)) <= Cardinality(Procs)
  BY <1>1, MailboxAssumption, FS_Subset
<1> QED
  BY <1>2, FS_CardinalityType

\* The same of the next state.
LEMMA HoldersFinitePrime ==
    ASSUME NEW e
    PROVE  /\ IsFiniteSet(Holders(e)')
           /\ Cardinality(Holders(e)') \in Nat
<1>1. Holders(e)' \in SUBSET Procs
  BY DEF Holders
<1>2. IsFiniteSet(Holders(e)')
  BY <1>1, MailboxAssumption, FS_Subset
<1> QED
  BY <1>2, FS_CardinalityType

\* The bound survives a step that writes no line, forgets no cache entry of a
\* running process and undoes no crash.
LEMMA HoldersKept ==
    ASSUME TypeOK, TypeOK', NEW e \in Ids,
           lines[e] <= Cardinality(Holders(e)) + crashes,
           lines'[e] <= lines[e], crashes' = crashes,
           Holders(e) \subseteq Holders(e)'
    PROVE  lines'[e] <= Cardinality(Holders(e)') + crashes'
<1>1. Cardinality(Holders(e)) <= Cardinality(Holders(e)')
  BY HoldersFinitePrime, FS_Subset
<1> QED
  BY <1>1, HoldersFinite, HoldersFinitePrime DEF TypeOK

\* A line that is appended is paid for by its process.
LEMMA AppendPaid ==
    ASSUME TypeOK, TypeOK', LinesPaidFor,
           NEW p \in Procs, NEW e \in Ids, Append(p, e)
    PROVE  LinesPaidFor'
<1> SUFFICES ASSUME NEW d \in Ids
             PROVE  lines'[d] <= Cardinality(Holders(d)') + crashes'
  BY DEF LinesPaidFor
<1>0. Life!FirstStatus(e) # Unknown
  BY FirstStatusKnown DEF Unknown, Life!Unknown, Life!Statuses, Life!Terminal
<1>1. CASE d = e
  <2>1. p \notin Holders(e) /\ Holders(e)' = Holders(e) \cup {p}
    BY <1>0, <1>1 DEF Append, Holders, TypeOK, StateFiles, Unknown
  <2>2. Cardinality(Holders(e)') = Cardinality(Holders(e)) + 1
    BY <2>1, HoldersFinite, FS_AddElement
  <2>3. lines'[e] = lines[e] + 1 /\ crashes' = crashes
    BY DEF Append, TypeOK
  <2> QED
    BY <1>1, <2>2, <2>3, HoldersFinite DEF LinesPaidFor, TypeOK
<1>2. CASE d # e
  <2>1. Holders(d)' = Holders(d) /\ lines'[d] = lines[d] /\ crashes' = crashes
    BY <1>2 DEF Append, Holders, TypeOK, StateFiles
  <2> QED
    BY <2>1 DEF LinesPaidFor
<1> QED
  BY <1>1, <1>2

\* A crash pays for the line of the process it stops.
LEMMA CrashPaid ==
    ASSUME TypeOK, TypeOK', LinesPaidFor, NEW p \in Procs, Crash(p)
    PROVE  LinesPaidFor'
<1> SUFFICES ASSUME NEW d \in Ids
             PROVE  lines'[d] <= Cardinality(Holders(d)') + crashes'
  BY DEF LinesPaidFor
<1>1. Holders(d)' = Holders(d) \ {p}
  BY DEF Crash, Holders, TypeOK
<1>2. Cardinality(Holders(d)) <= Cardinality(Holders(d)') + 1
  BY <1>1, HoldersFinite, FS_RemoveElement
<1>3. lines' = lines /\ crashes' = crashes + 1
  BY DEF Crash
<1> QED
  BY <1>2, <1>3, HoldersFinite, HoldersFinitePrime DEF LinesPaidFor, TypeOK

\* What outbox.tmp holds was read from outbox.jsonl, which only grew since.
TmpBelowLines ==
    outTmp # NoFile => \A e \in OutIds : outTmp[e] <= lines[e]

DupInv == TypeOK /\ TmpBelowLines /\ LinesPaidFor

\* No step puts more lines of an id into outbox.tmp than the file has.
LEMMA TmpBelowLinesKept ==
    ASSUME TypeOK, TypeOK', TmpBelowLines, [Next]_vars
    PROVE  TmpBelowLines'
<1> USE DEF TypeOK, TmpBelowLines, Ids
<1>1. ASSUME NEW p \in Procs, NEW e \in Ids, Append(p, e) PROVE TmpBelowLines'
  BY <1>1 DEF Append
<1>2. ASSUME NEW p \in Procs, NEW S, RewriteOutbox(p, S) PROVE TmpBelowLines'
  BY <1>2 DEF RewriteOutbox
<1>3. ASSUME NEW p \in Procs, ReplaceOutbox(p) PROVE TmpBelowLines'
  BY <1>3 DEF ReplaceOutbox
<1>4. CASE UNCHANGED <<lines, outTmp>>
  BY <1>4
<1> QED
  BY <1>1, <1>2, <1>3, <1>4
  DEF Next, vars, AppendOutbox, AppendInbox, UpdateStatus, DumpState,
      ReplaceState, Crash, Restart

\* Every step keeps the lines of an id paid for.
LEMMA LinesPaidForKept ==
    ASSUME DupInv, TypeOK', [Next]_vars
    PROVE  LinesPaidFor'
<1> USE DEF DupInv
<1>1. ASSUME NEW p \in Procs, NEW e \in Ids, Append(p, e) PROVE LinesPaidFor'
  BY <1>1, AppendPaid
<1>2. ASSUME NEW p \in Procs, Crash(p) PROVE LinesPaidFor'
  BY <1>2, CrashPaid
<1>3. ASSUME \A e \in Ids : lines'[e] <= lines[e], crashes' = crashes,
             \A e \in Ids : Holders(e) \subseteq Holders(e)'
      PROVE  LinesPaidFor'
  BY <1>3, HoldersKept DEF LinesPaidFor
<1>4. ASSUME NEW p \in Procs, NEW e \in Ids, NEW s \in Life!Statuses,
             UpdateStatus(p, e, s)
      PROVE  LinesPaidFor'
  <2>1. s # Unknown
    BY DEF Unknown, Life!Unknown, Life!Statuses, Life!Terminal
  <2>2. \A d \in Ids : Holders(d) \subseteq Holders(d)'
    BY <1>4, <2>1 DEF UpdateStatus, Holders, TypeOK, StateFiles
  <2> QED
    BY <1>3, <1>4, <2>2 DEF UpdateStatus, TypeOK
<1>5. ASSUME NEW p \in Procs, DumpState(p) \/ ReplaceState(p) \/ Restart(p)
      PROVE  LinesPaidFor'
  <2>1. \A d \in Ids : Holders(d) \subseteq Holders(d)'
    BY <1>5 DEF DumpState, ReplaceState, Restart, Holders, TypeOK
  <2> QED
    BY <1>3, <1>5, <2>1 DEF DumpState, ReplaceState, Restart, TypeOK
<1>6. ASSUME NEW p \in Procs, NEW S \in SUBSET OutIds, RewriteOutbox(p, S)
      PROVE  LinesPaidFor'
  <2>1. \A d \in Ids : Holders(d) \subseteq Holders(d)'
    BY <1>6 DEF RewriteOutbox, Holders, TypeOK
  <2> QED
    BY <1>3, <1>6, <2>1 DEF RewriteOutbox, TypeOK
<1>7. ASSUME NEW p \in Procs, ReplaceOutbox(p) PROVE LinesPaidFor'
  <2>1. \A d \in Ids : Holders(d) \subseteq Holders(d)'
    BY <1>7 DEF ReplaceOutbox, Holders, TypeOK
  <2>2. \A d \in Ids : lines'[d] <= lines[d]
    BY <1>7 DEF ReplaceOutbox, TmpBelowLines, TypeOK
  <2> QED
    BY <1>3, <1>7, <2>1, <2>2 DEF ReplaceOutbox
<1>8. CASE UNCHANGED vars
  BY <1>8 DEF vars, LinesPaidFor, Holders
<1> QED
  BY <1>1, <1>2, <1>4, <1>5, <1>6, <1>7, <1>8
  DEF Next, AppendOutbox, AppendInbox

\* A re-delivered message is appended at most once per process and crash, for
\* any number of processes that share the directory.
THEOREM DuplicateBound == Spec => []DuplicatesBounded
<1>1. Init => TmpBelowLines /\ LinesPaidFor
  <2>1. ASSUME Init PROVE LinesPaidFor
    BY <2>1, HoldersFinite DEF Init, LinesPaidFor
  <2> QED
    BY <2>1 DEF Init, TmpBelowLines
<1>2. TypeOK /\ TypeOK' /\ TmpBelowLines /\ LinesPaidFor /\ [Next]_vars
        => TmpBelowLines' /\ LinesPaidFor'
  BY TmpBelowLinesKept, LinesPaidForKept DEF DupInv
<1>3. TypeOK /\ LinesPaidFor => DuplicatesBounded
  <2> SUFFICES ASSUME TypeOK, LinesPaidFor, NEW e \in Ids
               PROVE  lines[e] <= Cardinality(Procs) + crashes
    BY DEF DuplicatesBounded
  <2>1. Cardinality(Procs) \in Nat
    BY MailboxAssumption, FS_CardinalityType
  <2> QED
    BY <2>1, HoldersFinite DEF LinesPaidFor, TypeOK
<1> QED
  BY <1>1, <1>2, <1>3, TypeCorrect, PTL DEF Spec
--------------------------------------------------------------------------------
(* One process per directory.  SoleInv ties the cache of that process to       *)
(* state.json at each of its program points.                                   *)

OneChange(f, g) == \E e \in Ids : \E s \in Life!Statuses :
                     /\ Life!LegalChange(e, f[e], s)
                     /\ g = [f EXCEPT ![e] = s]

CacheInv(q) ==
    /\ job[q] \in {"idle", "rewrite"} => cache[q] = disk
    /\ job[q] \in {"dump", "replace"} => OneChange(disk, cache[q])
    /\ job[q] = "replace" => tmp = cache[q]

LineInv(q) ==
    /\ \A e \in Ids : disk[e] # Unknown => lines[e] > 0 \/ e \in removed
    /\ job[q] \in {"dump", "replace"} =>
         \A e \in Ids : cache[q][e] # Unknown => lines[e] > 0 \/ e \in removed
    /\ job[q] = "rewrite" =>
         /\ outTmp # NoFile
         /\ \A e \in OutIds \ removed : outTmp[e] = lines[e]

SoleInv(q) == TypeOK /\ CacheInv(q) /\ LineInv(q)

\* A step of the only process keeps cache and files in agreement.
LEMMA CacheInvStep ==
    ASSUME NEW q, Procs = {q}, SoleInv(q), TypeOK', [Next]_vars
    PROVE  CacheInv(q)'
<1> USE DEF SoleInv, TypeOK, StateFiles
<1>1. ASSUME NEW e \in Ids, Append(q, e) PROVE CacheInv(q)'
  <2>1. /\ cache[q] = disk /\ disk' = disk /\ job'[q] = "dump"
        /\ cache'[q] = [disk EXCEPT ![e] = Life!FirstStatus(e)]
    BY <1>1 DEF Append, CacheInv
  <2>2. Life!LegalChange(e, disk[e], Life!FirstStatus(e))
    BY <1>1, <2>1 DEF Append, Life!LegalChange, Unknown
  <2>3. OneChange(disk', cache'[q])
    BY <2>1, <2>2, FirstStatusKnown DEF OneChange
  <2> QED
    BY <2>1, <2>3 DEF CacheInv
<1>2. ASSUME NEW e \in Ids, NEW s \in Life!Statuses, UpdateStatus(q, e, s)
      PROVE  CacheInv(q)'
  <2>1. /\ cache[q] = disk /\ disk' = disk /\ job'[q] = "dump"
        /\ cache'[q] = [disk EXCEPT ![e] = s]
    BY <1>2 DEF UpdateStatus, CacheInv
  <2>2. Life!LegalChange(e, disk[e], s)
    BY <1>2, <2>1 DEF UpdateStatus, Life!LegalChange
  <2>3. OneChange(disk', cache'[q])
    BY <2>1, <2>2 DEF OneChange
  <2> QED
    BY <2>1, <2>3 DEF CacheInv
<1>3. CASE DumpState(q)
  BY <1>3 DEF DumpState, CacheInv
<1>4. CASE ReplaceState(q)
  <2>1. tmp # NoFile
    BY <1>4, MailboxAssumption DEF ReplaceState, CacheInv
  <2> QED
    BY <1>4, <2>1 DEF ReplaceState, CacheInv
<1>5. ASSUME NEW S, RewriteOutbox(q, S) PROVE CacheInv(q)'
  BY <1>5 DEF RewriteOutbox, CacheInv
<1>6. CASE ReplaceOutbox(q)
  BY <1>6 DEF ReplaceOutbox, CacheInv
<1>7. CASE Crash(q)
  BY <1>7 DEF Crash, CacheInv
<1>8. CASE Restart(q)
  BY <1>8 DEF Restart, CacheInv
<1>9. CASE UNCHANGED vars
  BY <1>9 DEF vars, CacheInv
<1> QED
  BY <1>1, <1>2, <1>3, <1>4, <1>5, <1>6, <1>7, <1>8, <1>9
  DEF Next, AppendOutbox, AppendInbox

\* A step of the only process keeps a line under every status.
LEMMA LineInvStep ==
    ASSUME NEW q, Procs = {q}, SoleInv(q), TypeOK', [Next]_vars
    PROVE  LineInv(q)'
<1> USE DEF SoleInv, TypeOK, StateFiles
<1>1. ASSUME NEW e \in Ids, Append(q, e) PROVE LineInv(q)'
  BY <1>1 DEF Append, CacheInv, LineInv
<1>2. ASSUME NEW e \in Ids, NEW s \in Life!Statuses, UpdateStatus(q, e, s)
      PROVE  LineInv(q)'
  <2>1. cache[q] = disk /\ disk[e] # Unknown
    BY <1>2 DEF UpdateStatus, CacheInv, Unknown, Life!Unknown, Life!Transitions,
                Life!Terminal
  <2> QED
    BY <1>2, <2>1 DEF UpdateStatus, LineInv
<1>3. CASE DumpState(q)
  BY <1>3 DEF DumpState, LineInv
<1>4. CASE ReplaceState(q)
  BY <1>4 DEF ReplaceState, CacheInv, LineInv
<1>5. ASSUME NEW S \in SUBSET OutIds, RewriteOutbox(q, S) PROVE LineInv(q)'
  <2>1. outTmp' # NoFile
    <3>1. outTmp' \in [OutIds -> Nat]
      BY <1>5 DEF RewriteOutbox, Ids
    <3> QED
      BY <3>1, MailboxAssumption
  <2> QED
    BY <1>5, <2>1 DEF RewriteOutbox, LineInv
<1>6. CASE ReplaceOutbox(q)
  BY <1>6 DEF ReplaceOutbox, LineInv
<1>7. CASE Crash(q)
  BY <1>7 DEF Crash, LineInv
<1>8. CASE Restart(q)
  BY <1>8 DEF Restart, LineInv
<1>9. CASE UNCHANGED vars
  BY <1>9 DEF vars, LineInv
<1> QED
  BY <1>1, <1>2, <1>3, <1>4, <1>5, <1>6, <1>7, <1>8, <1>9
  DEF Next, AppendOutbox, AppendInbox

\* Both halves of SoleInv together, for a directory with one process.
LEMMA SoleInvariant ==
    ASSUME NEW q, Procs = {q}
    PROVE  Spec => []SoleInv(q)
<1>1. Init => CacheInv(q) /\ LineInv(q)
  BY DEF Init, CacheInv, LineInv
<1>2. TypeOK /\ TypeOK' /\ CacheInv(q) /\ LineInv(q) /\ [Next]_vars
        => CacheInv(q)' /\ LineInv(q)'
  BY CacheInvStep, LineInvStep DEF SoleInv
<1>3. TypeOK /\ CacheInv(q) /\ LineInv(q) => SoleInv(q)
  BY DEF SoleInv
<1> QED
  BY <1>1, <1>2, <1>3, TypeCorrect, PTL DEF Spec

\* One process: at rest it answers from a cache that equals state.json.
THEOREM SoleCacheIsDisk ==
    ASSUME NEW q, Procs = {q}
    PROVE  Spec => []CacheIsDisk
<1>1. SoleInv(q) => CacheIsDisk
  BY DEF SoleInv, CacheInv, CacheIsDisk
<1> QED
  BY <1>1, SoleInvariant, PTL

\* One process: what state.json knows has its line, whatever the crashes.
THEOREM SoleStatusHasLine ==
    ASSUME NEW q, Procs = {q}
    PROVE  Spec => []StatusHasLine
<1>1. SoleInv(q) => StatusHasLine
  BY DEF SoleInv, LineInv, StatusHasLine
<1> QED
  BY <1>1, SoleInvariant, PTL

\* One process: a rewrite of the outbox drops what it was asked to and no more.
THEOREM SoleRewriteKeepsOthers ==
    ASSUME NEW q, Procs = {q}
    PROVE  Spec => RewriteKeepsOthers
<1>1. SoleInv(q) /\ [Next]_vars
        => [\A e \in Ids \ removed : lines'[e] >= lines[e]]_vars
  <2> SUFFICES ASSUME SoleInv(q), Next, NEW e \in Ids \ removed
               PROVE  lines'[e] >= lines[e]
    OBVIOUS
  <2> USE DEF SoleInv, TypeOK, LineInv
  <2>1. ASSUME NEW d \in Ids, Append(q, d) PROVE lines'[e] >= lines[e]
    BY <2>1 DEF Append
  <2>2. CASE ReplaceOutbox(q)
    BY <2>2 DEF ReplaceOutbox
  <2>3. CASE UNCHANGED lines
    BY <2>3
  <2> QED
    BY <2>1, <2>2, <2>3
    DEF Next, AppendOutbox, AppendInbox, UpdateStatus, DumpState, ReplaceState,
        RewriteOutbox, Crash, Restart
<1> QED
  BY <1>1, SoleInvariant, PTL DEF Spec, RewriteKeepsOthers

\* One process: the mailbox implements the message lifecycle, crashes included.
\* state.json is the abstract status; only ReplaceState changes it.
THEOREM SoleImplementsLifecycle ==
    ASSUME NEW q, Procs = {q}
    PROVE  Spec => LifecycleKept
<1>1. Init => Life!Init
  BY DEF Init, Life!Init, Ids, Life!Ids, Unknown
<1>2. SoleInv(q) /\ [Next]_vars => [Life!Next]_disk
  <2> SUFFICES ASSUME SoleInv(q), Next, disk' # disk
               PROVE  Life!Next
    BY DEF vars
  <2>1. ReplaceState(q) /\ disk' = tmp
    BY DEF Next, AppendOutbox, AppendInbox, Append, UpdateStatus, DumpState,
           ReplaceState, RewriteOutbox, ReplaceOutbox, Crash, Restart
  <2>2. OneChange(disk, disk')
    BY <2>1 DEF ReplaceState, SoleInv, CacheInv
  <2> QED
    BY <2>2 DEF OneChange, Life!Next, Life!Change, Ids, Life!Ids
<1> QED
  BY <1>1, <1>2, SoleInvariant, PTL DEF Spec, LifecycleKept, Life!Spec
--------------------------------------------------------------------------------
(* DaemonLoop *)
hb   == "peer_heartbeat"
sync == "online_sync"

\* The heartbeat and the synchronisation are two tasks of the loop.
LEMMA TwoTasks == hb \in Tasks /\ sync \in Tasks /\ hb # sync
  BY DEF hb, sync, Tasks

\* Ages after d more are numbers; that of the task which ran is not above
\* the others.
LEMMA LaterType ==
    ASSUME age \in [Tasks -> Nat], NEW k \in Tasks, NEW d \in Nat
    PROVE  /\ Later(k, d) \in Nat
           /\ Short(k, d) \in Nat
           /\ Short(k, d) <= Later(k, d)
  BY LoopAssumption DEF Later, Short

\* online_sync comes after peer_heartbeat in the loop.
LEMMA HeartbeatFirst ==
    ASSUME First(sync)
    PROVE  hb \notin due
<1>1. PICK i \in DOMAIN Order :
           Order[i] = sync /\ \A j \in 1 .. i - 1 : Order[j] \notin due
  BY DEF First
<1>2. i = 7
  BY <1>1 DEF Order, sync
<1>3. Order[4] = hb
  BY DEF Order, hb
<1> QED
  BY <1>1, <1>2, <1>3

\* The time a task takes keeps the types of the clockwork.
LEMMA TakesType ==
    ASSUME LoopTypeOK, NEW k \in Tasks, NEW d \in 0 .. Budget, Takes(k, d)
    PROVE  /\ age' \in [Tasks -> Nat]
           /\ due' \subseteq Tasks
           /\ spent' \in 0 .. Budget
           /\ debt' = debt
<1>1. age' \in [Tasks -> Nat]
  <2>1. d \in Nat /\ \A j \in Tasks : Later(j, d) \in Nat /\ Short(j, d) \in Nat
    BY LaterType, LoopAssumption DEF LoopTypeOK
  <2> QED
    BY <2>1 DEF Takes
<1>2. due' \subseteq Tasks
  BY DEF Takes, LoopTypeOK
<1>3. spent' \in 0 .. Budget
  BY LoopAssumption DEF Takes, LoopTypeOK
<1>4. debt' = debt
  BY DEF Takes
<1> QED
  BY <1>1, <1>2, <1>3, <1>4

\* The daemon's bookkeeping keeps its types.
THEOREM LoopTypeCorrect == LoopSpec => []LoopTypeOK
<1>1. LoopInit => LoopTypeOK
  <2>1. Interval \in [Tasks -> Nat] /\ 0 \in 0 .. Budget /\ 0 \in Nat
    BY LoopAssumption
  <2> QED
    BY <2>1 DEF LoopInit, LoopTypeOK
<1>2. LoopTypeOK /\ [LoopNext]_loopVars => LoopTypeOK'
  <2> SUFFICES ASSUME LoopTypeOK, [LoopNext]_loopVars PROVE LoopTypeOK'
    OBVIOUS
  <2>1. ASSUME NEW d \in 0 .. Budget, NEW status \in BOOLEAN, NetworkCheck(d, status)
        PROVE  LoopTypeOK'
    BY <2>1, TakesType DEF NetworkCheck, net, peers, LoopTypeOK, Tasks
  <2>2. ASSUME NEW d \in 0 .. Budget, AdoptionFlush(d) PROVE LoopTypeOK'
    BY <2>2, TakesType DEF AdoptionFlush, net, peers, LoopTypeOK, Tasks
  <2>3. ASSUME NEW d \in 0 .. Budget, NEW k \in Quiet, OtherTask(k, d) PROVE LoopTypeOK'
    BY <2>3, TakesType DEF OtherTask, net, peers, LoopTypeOK, Tasks, Quiet
  <2>4. ASSUME NEW d \in 0 .. Budget, NEW seen \in SUBSET Peers, PeerHeartbeat(d, seen)
        PROVE  LoopTypeOK'
    BY <2>4, TakesType DEF PeerHeartbeat, net, peers, LoopTypeOK, Tasks
  <2>5. ASSUME NEW d \in 0 .. Budget, OnlineSync(d) PROVE LoopTypeOK'
    BY <2>5, TakesType DEF OnlineSync, net, peers, LoopTypeOK, Tasks
  <2>6. CASE AdoptionSkip
    BY <2>6 DEF AdoptionSkip, net, peers, LoopTypeOK
  <2>7. CASE Sleep
    <3>1. age' \in [Tasks -> Nat]
      BY <2>7, LaterType, LoopAssumption DEF Sleep, net, peers, LoopTypeOK
    <3>2. debt' \in Nat
      BY <2>7, LoopAssumption DEF Sleep, LoopTypeOK, NextDebt, Debt
    <3> QED
      BY <2>7, <3>1, <3>2, LoopAssumption DEF Sleep, net, peers, LoopTypeOK, DueAt
  <2>8. CASE UNCHANGED loopVars
    BY <2>8 DEF loopVars, net, peers, LoopTypeOK
  <2> QED
    BY <2>1, <2>2, <2>3, <2>4, <2>5, <2>6, <2>7, <2>8 DEF LoopNext
<1> QED
  BY <1>1, <1>2, PTL DEF LoopSpec
--------------------------------------------------------------------------------
(* One synchronisation per edge.  Consumed edges leave the sync's timer behind *)
(* the heartbeat's, so the heartbeat is due whenever the sync is.              *)

Fresh == Edges \subseteq owed

SyncFollows == /\ Fresh \/ age[sync] <= age[hb]
               /\ sync \in due => hb \in due \/ Fresh

\* A task that is neither heartbeat nor synchronisation keeps SyncFollows.
LEMMA OtherTaskFollows ==
    ASSUME LoopTypeOK, SyncFollows, NEW k \in Tasks \ {hb, sync}, NEW d \in 0 .. Budget,
           Takes(k, d), UNCHANGED <<cur, prev, owed>>
    PROVE  SyncFollows'
<1>1. Fresh' <=> Fresh
  BY DEF Fresh, Edges
<1>2. age[sync] <= age[hb] => age'[sync] <= age'[hb]
  BY TwoTasks, LoopAssumption DEF Takes, Later, LoopTypeOK, hb, sync
<1>3. (sync \in due' <=> sync \in due) /\ (hb \in due' <=> hb \in due)
  BY DEF Takes
<1> QED
  BY <1>1, <1>2, <1>3 DEF SyncFollows

\* Whatever the tasks' durations, online_sync acts only on edges a heartbeat
\* saw since its last run: no edge is synchronised twice.
THEOREM SyncOnce == LoopSpec => SyncOncePerEdge
<1>1. LoopInit => SyncFollows
  BY TwoTasks DEF LoopInit, SyncFollows, Fresh, Edges
<1>2. LoopTypeOK /\ SyncFollows /\ [LoopNext]_loopVars => SyncFollows'
  <2> SUFFICES ASSUME LoopTypeOK, SyncFollows, [LoopNext]_loopVars PROVE SyncFollows'
    OBVIOUS
  <2>1. ASSUME NEW d \in 0 .. Budget, NEW status \in BOOLEAN, NetworkCheck(d, status)
        PROVE  SyncFollows'
    BY <2>1, OtherTaskFollows DEF NetworkCheck, net, peers, Tasks, hb, sync
  <2>2. ASSUME NEW d \in 0 .. Budget, AdoptionFlush(d) PROVE SyncFollows'
    BY <2>2, OtherTaskFollows DEF AdoptionFlush, net, peers, Tasks, hb, sync
  <2>3. ASSUME NEW d \in 0 .. Budget, NEW k \in Quiet, OtherTask(k, d) PROVE SyncFollows'
    BY <2>3, OtherTaskFollows DEF OtherTask, net, peers, Tasks, Quiet, hb, sync
  <2>4. ASSUME NEW d \in 0 .. Budget, NEW seen \in SUBSET Peers, PeerHeartbeat(d, seen)
        PROVE  SyncFollows'
    <3>1. Fresh'
      BY <2>4 DEF PeerHeartbeat, net, peers, Fresh, Edges
    <3> QED
      BY <3>1 DEF SyncFollows
  <2>5. ASSUME NEW d \in 0 .. Budget, OnlineSync(d) PROVE SyncFollows'
    <3>1. age'[sync] = Short(sync, d) /\ age'[hb] = Later(hb, d)
      BY <2>5, TwoTasks DEF OnlineSync, net, peers, Takes, sync
    <3>2. Short(sync, d) <= Later(hb, d)
      BY TwoTasks, LoopAssumption DEF Short, Later, LoopTypeOK, hb, sync
    <3>3. sync \notin due'
      BY <2>5 DEF OnlineSync, net, peers, Takes, sync
    <3> QED
      BY <3>1, <3>2, <3>3 DEF SyncFollows
  <2>6. CASE AdoptionSkip
    BY <2>6 DEF AdoptionSkip, net, peers, SyncFollows, Fresh, Edges, hb, sync
  <2>7. CASE Sleep
    <3>1. Fresh' <=> Fresh
      BY <2>7 DEF Sleep, net, peers, Fresh, Edges
    <3>2. age'[sync] = Later(sync, Tick) /\ age'[hb] = Later(hb, Tick)
      BY <2>7, TwoTasks DEF Sleep
    <3>3. age[sync] <= age[hb] => Later(sync, Tick) <= Later(hb, Tick)
      BY TwoTasks, LoopAssumption DEF Later, LoopTypeOK, hb, sync
    <3>4. age'[sync] <= age'[hb] /\ sync \in due' => hb \in due'
      <4>1. Interval[sync] = Interval[hb] /\ Interval[hb] \in Nat
        BY TwoTasks, LoopAssumption DEF hb, sync
      <4>2. Later(sync, Tick) \in Nat /\ Later(hb, Tick) \in Nat
        BY TwoTasks, LaterType, LoopAssumption DEF LoopTypeOK
      <4> QED
        BY <2>7, <3>2, <4>1, <4>2, TwoTasks DEF Sleep, net, peers, DueAt
    <3> QED
      BY <3>1, <3>2, <3>3, <3>4 DEF SyncFollows
  <2>8. CASE UNCHANGED loopVars
    BY <2>8 DEF loopVars, net, peers, SyncFollows, Fresh, Edges
  <2> QED
    BY <2>1, <2>2, <2>3, <2>4, <2>5, <2>6, <2>7, <2>8 DEF LoopNext
<1>3. SyncFollows /\ [LoopNext]_loopVars =>
        [\A d \in 0 .. Budget : OnlineSync(d) => Edges \subseteq owed]_loopVars
  <2> SUFFICES ASSUME SyncFollows, NEW d \in 0 .. Budget, OnlineSync(d)
               PROVE  Edges \subseteq owed
    OBVIOUS
  <2>1. First(sync)
    BY DEF OnlineSync, net, peers, Takes, sync
  <2>2. sync \in due /\ hb \notin due
    BY <2>1, HeartbeatFirst DEF First
  <2> QED
    BY <2>2 DEF SyncFollows, Fresh
<1> QED
  BY <1>1, <1>2, <1>3, LoopTypeCorrect, PTL DEF LoopSpec, SyncOncePerEdge
--------------------------------------------------------------------------------
(* No edge is lost before the drift adds up to an interval.  Iterations start  *)
(* on a grid of whole ticks, shifted by what the tasks took, so that waiting   *)
(* for the sync costs no more ticks than the drift it makes up for.            *)

Grid == {n * Tick : n \in Nat}

LEMMA GridStep ==
    ASSUME NEW x \in Grid
    PROVE  x \in Nat /\ x + Tick \in Grid
<1>1. PICK n \in Nat : x = n * Tick
  BY DEF Grid
<1>2. x + Tick = (n + 1) * Tick /\ n * Tick \in Nat
  BY <1>1, LoopAssumption
<1> QED
  BY <1>1, <1>2 DEF Grid

\* Two points of the grid are a whole tick apart.
LEMMA GridApart ==
    ASSUME NEW x \in Grid, NEW y \in Grid, x < y
    PROVE  x + Tick <= y
<1>1. PICK m \in Nat : x = m * Tick
  BY DEF Grid
<1>2. PICK n \in Nat : y = n * Tick
  BY DEF Grid
<1>3. Tick \in Nat
  BY LoopAssumption
<1>4. m < n
  <2>1. SUFFICES ASSUME n <= m PROVE FALSE
    OBVIOUS
  <2>2. PICK k \in Nat : m = n + k
    <3>1. m - n \in Nat /\ m = n + (m - n)
      BY <2>1
    <3> QED
      BY <3>1
  <2>3. m * Tick = n * Tick + k * Tick /\ k * Tick >= 0
    BY <2>2, <1>3
  <2> QED
    BY <1>1, <1>2, <1>3, <2>3
<1>5. PICK k \in Nat : n = (m + 1) + k
  <2>1. n - (m + 1) \in Nat /\ n = (m + 1) + (n - (m + 1))
    BY <1>4
  <2> QED
    BY <2>1
<1>6. n * Tick = m * Tick + Tick + k * Tick /\ k * Tick >= 0
  BY <1>5, <1>3
<1> QED
  BY <1>1, <1>2, <1>3, <1>6

LEMMA GridCost ==
    ASSUME NEW x \in Grid
    PROVE  x + Cost \in Grid
<1>1. PICK m \in Nat : x = m * Tick
  BY DEF Grid
<1>2. PICK n \in Nat : Cost = n * Tick
  BY LoopAssumption
<1>3. x + Cost = (m + n) * Tick
  BY <1>1, <1>2, LoopAssumption
<1> QED
  BY <1>3 DEF Grid

\* The interval of both tasks.
Lap == Interval[hb]

\* Nothing is owed.  The sync ran after the heartbeat, later by no more than the
\* drift; so it comes due with it, or a drift's time after it.
Synced == /\ owed = {}
          /\ age[sync] <= age[hb]
          /\ age[hb] <= age[sync] + debt + spent
          /\ sync \in due => hb \in due
          /\ hb \in due => Lap <= age[sync] + debt
          /\ hb \in due /\ sync \notin due => debt > 0

\* The heartbeat ran and the sync is still to come: of the drift a there was, it
\* has waited b, and the heartbeat's age is this wait and the drift since.
Pending == /\ owed \subseteq Edges
           /\ hb \notin due
           /\ \E a, b \in Grid :
                /\ age[hb] + a <= b + debt + spent
                /\ Lap + b <= age[sync] + a
                /\ sync \notin due => b < a

DriftInv == Debt < Lap => Synced \/ Pending

AgesCapped == \A k \in Tasks : age[k] <= Interval[k]

GridInv == LoopTypeOK /\ AgesCapped /\ debt \in Grid

\* A task's time keeps ages within their intervals and adds to the others.
LEMMA TakesAges ==
    ASSUME GridInv, NEW k \in Tasks, NEW d \in 0 .. Budget, Takes(k, d)
    PROVE  /\ GridInv' <=> LoopTypeOK'
           /\ debt' = debt /\ spent' = spent + d /\ d \in Nat /\ spent \in Nat /\ debt \in Nat
           /\ \A j \in Tasks :
                /\ age[j] \in Nat /\ age'[j] \in Nat
                /\ j # k => /\ age[j] <= age'[j] \/ age'[j] = Interval[j]
                            /\ age'[j] = age[j] + d \/ age'[j] = Interval[j]
                            /\ age'[j] <= age[j] + d
                /\ j = k => age'[j] <= d
<1>1. d \in Nat /\ spent \in Nat /\ debt \in Nat
  BY LoopAssumption DEF GridInv, LoopTypeOK
<1>2. \A j \in Tasks : age[j] \in Nat /\ age[j] <= Interval[j] /\ Interval[j] \in Nat
  BY LoopAssumption DEF GridInv, LoopTypeOK, AgesCapped
<1>3. \A j \in Tasks : age'[j] = IF j = k THEN Short(j, d) ELSE Later(j, d)
  BY DEF Takes
<1>4. \A j \in Tasks : age'[j] <= Interval[j]
  BY <1>1, <1>2, <1>3 DEF Short, Later
<1>5. \A j \in Tasks :
        /\ age[j] \in Nat /\ age'[j] \in Nat
        /\ j # k => /\ age[j] <= age'[j] \/ age'[j] = Interval[j]
                    /\ age'[j] = age[j] + d \/ age'[j] = Interval[j]
                    /\ age'[j] <= age[j] + d
        /\ j = k => age'[j] <= d
  BY <1>1, <1>2, <1>3 DEF Short, Later
<1>6. debt' = debt /\ spent' = spent + d
  BY DEF Takes
<1> QED
  BY <1>1, <1>4, <1>5, <1>6 DEF GridInv, AgesCapped

\* The grid and the caps are kept.
LEMMA GridNext ==
    ASSUME GridInv, LoopTypeOK', [LoopNext]_loopVars
    PROVE  GridInv'
<1>1. ASSUME NEW k \in Tasks, NEW d \in 0 .. Budget, Takes(k, d) PROVE GridInv'
  BY <1>1, TakesAges
<1>2. CASE Sleep
  <2>1. debt' \in Grid
    BY <1>2, GridCost DEF Sleep, NextDebt, Debt, GridInv, LoopTypeOK, Grid
  <2>2. AgesCapped'
    <3>1. ASSUME NEW k \in Tasks PROVE age'[k] <= Interval[k]
      <4>1. age'[k] = Later(k, Tick)
        BY <1>2 DEF Sleep
      <4>2. age[k] \in Nat /\ Interval[k] \in Nat /\ Tick \in Nat
        BY LoopAssumption DEF GridInv, LoopTypeOK
      <4> QED
        BY <4>1, <4>2 DEF Later
    <3> QED
      BY <3>1 DEF AgesCapped
  <2> QED
    BY <2>1, <2>2 DEF GridInv
<1>3. CASE AdoptionSkip
  BY <1>3 DEF AdoptionSkip, GridInv, AgesCapped
<1>4. CASE UNCHANGED loopVars
  BY <1>4 DEF loopVars, GridInv, AgesCapped
<1> QED
  BY <1>1, <1>2, <1>3, <1>4
  DEF LoopNext, NetworkCheck, AdoptionFlush, OtherTask, PeerHeartbeat, OnlineSync, Quiet, Tasks

\* A task that is neither heartbeat nor synchronisation keeps either phase.
LEMMA OtherTaskDrifts ==
    ASSUME GridInv, Synced \/ Pending, NEW k \in Tasks \ {hb, sync}, NEW d \in 0 .. Budget,
           Takes(k, d), UNCHANGED <<cur, prev, owed>>
    PROVE  Synced' \/ Pending'
<1>1. (sync \in due' <=> sync \in due) /\ (hb \in due' <=> hb \in due)
  BY DEF Takes
<1>2. /\ debt' = debt /\ spent' = spent + d /\ d \in Nat /\ spent \in Nat /\ debt \in Nat
      /\ age[hb] \in Nat /\ age'[hb] \in Nat /\ age[sync] \in Nat /\ age'[sync] \in Nat
      /\ age'[hb] <= age[hb] + d /\ age'[sync] <= age[sync] + d
      /\ age'[sync] = age[sync] + d \/ age'[sync] = Lap
      /\ age'[hb] = age[hb] + d \/ age'[hb] = Lap
  BY TwoTasks, TakesAges, LoopAssumption DEF Lap, hb, sync
<1>3. age[sync] <= Lap /\ age[hb] <= Lap /\ age'[sync] <= Lap /\ age'[hb] <= Lap /\ Lap \in Nat
  <2>1. age'[sync] = Later(sync, d) /\ age'[hb] = Later(hb, d)
    BY TwoTasks DEF Takes
  <2>2. Lap \in Nat /\ Interval[sync] = Lap
    BY TwoTasks, LoopAssumption DEF Lap, hb, sync
  <2> QED
    BY <1>2, <2>1, <2>2, TwoTasks DEF GridInv, AgesCapped, Later, Lap
<1>4. Edges' = Edges
  BY DEF Edges
<1>5. CASE Synced
  BY <1>1, <1>2, <1>3, <1>5 DEF Synced
<1>6. CASE Pending
  <2>1. PICK a \in Grid, b \in Grid : /\ age[hb] + a <= b + debt + spent
                                      /\ Lap + b <= age[sync] + a
                                      /\ sync \notin due => b < a
    BY <1>6 DEF Pending
  <2>2. a \in Nat /\ b \in Nat
    BY GridStep
  <2>3. /\ age'[hb] + a <= b + debt' + spent'
        /\ Lap + b <= age'[sync] + a
        /\ sync \notin due' => b < a
    BY <1>1, <1>2, <1>3, <2>1, <2>2
  <2>4. \E x, y \in Grid : /\ age'[hb] + x <= y + debt' + spent'
                           /\ Lap + y <= age'[sync] + x
                           /\ sync \notin due' => y < x
    BY <2>3
  <2> QED
    BY <1>1, <1>4, <1>6, <2>4 DEF Pending, Lap
<1> QED
  BY <1>5, <1>6

\* The heartbeat finds everything synchronised, and starts to wait for the sync.
LEMMA HeartbeatDrifts ==
    ASSUME GridInv, Synced \/ Pending, NEW d \in 0 .. Budget, NEW seen \in SUBSET Peers,
           PeerHeartbeat(d, seen)
    PROVE  Pending'
<1>1. Takes(hb, d) /\ hb \in due
  BY DEF PeerHeartbeat, net, peers, Takes, First, hb
<1>2. Synced
  BY <1>1 DEF Pending
<1>3. owed' \subseteq Edges'
  BY <1>2 DEF PeerHeartbeat, net, peers, Synced, Edges
<1>4. hb \notin due' /\ (sync \in due' <=> sync \in due)
  BY <1>1, TwoTasks DEF Takes
<1>5. /\ debt' = debt /\ spent' = spent + d /\ d \in Nat /\ spent \in Nat /\ debt \in Nat
      /\ age'[hb] \in Nat /\ age'[hb] <= d /\ age[sync] \in Nat /\ age'[sync] \in Nat
      /\ age[sync] <= age'[sync] \/ age'[sync] = Lap
  BY <1>1, TwoTasks, TakesAges, LoopAssumption DEF Lap, hb, sync
<1>6. debt \in Grid /\ 0 \in Grid /\ Lap \in Nat
  <2>1. 0 = 0 * Tick
    BY LoopAssumption
  <2>2. Lap \in Nat
    BY TwoTasks, LoopAssumption DEF Lap
  <2> QED
    BY <2>1, <2>2 DEF GridInv, Grid
<1>7. Lap <= age[sync] + debt /\ (sync \notin due => debt > 0)
  BY <1>1, <1>2 DEF Synced
<1>8. /\ age'[hb] + debt <= 0 + debt' + spent'
      /\ Lap + 0 <= age'[sync] + debt
      /\ sync \notin due' => 0 < debt
  BY <1>4, <1>5, <1>6, <1>7
<1>9. \E a, b \in Grid : /\ age'[hb] + a <= b + debt' + spent'
                         /\ Lap + b <= age'[sync] + a
                         /\ sync \notin due' => b < a
  BY <1>6, <1>8
<1> QED
  BY <1>3, <1>4, <1>9 DEF Pending, Lap

\* The sync runs after a heartbeat only, and clears what is owed.
LEMMA SyncDrifts ==
    ASSUME GridInv, Synced \/ Pending, NEW d \in 0 .. Budget, OnlineSync(d)
    PROVE  Synced'
<1>1. Takes(sync, d) /\ First(sync)
  BY DEF OnlineSync, net, peers, Takes, sync
<1>2. hb \notin due /\ sync \in due
  BY <1>1, HeartbeatFirst DEF First
<1>3. Pending
  BY <1>2 DEF Synced
<1>4. owed' = {}
  BY <1>3 DEF OnlineSync, net, peers, Pending, Edges
<1>5. hb \notin due' /\ sync \notin due'
  BY <1>1, <1>2, TwoTasks DEF Takes
<1>6. /\ debt' = debt /\ spent' = spent + d /\ d \in Nat /\ spent \in Nat /\ debt \in Nat
      /\ age[hb] \in Nat /\ age'[hb] \in Nat /\ age'[hb] <= age[hb] + d
      /\ age[sync] \in Nat /\ age'[sync] \in Nat /\ age'[sync] <= d
      /\ age'[hb] = age[hb] + d \/ age'[hb] = Lap
  BY <1>1, TwoTasks, TakesAges DEF Lap
<1>7. age[sync] <= Lap /\ age'[sync] <= Lap /\ Lap \in Nat
  <2>1. age'[sync] = Short(sync, d)
    BY <1>1, TwoTasks DEF Takes
  <2>2. Lap \in Nat /\ Interval[sync] = Lap
    BY TwoTasks, LoopAssumption DEF Lap, hb, sync
  <2> QED
    BY <1>6, <2>1, <2>2, TwoTasks DEF GridInv, AgesCapped, Short
<1>8. PICK a \in Grid, b \in Grid : /\ age[hb] + a <= b + debt + spent
                                    /\ Lap + b <= age[sync] + a
  BY <1>3 DEF Pending
<1>9. a \in Nat /\ b \in Nat
  BY GridStep
<1>10. age[hb] <= debt + spent
  BY <1>6, <1>7, <1>8, <1>9
<1>11. age'[sync] <= age'[hb] /\ age'[hb] <= age'[sync] + debt' + spent'
  BY <1>6, <1>7, <1>10
<1> QED
  BY <1>4, <1>5, <1>11 DEF Synced

\* The next iteration starts a tick later: the wait grows by a tick, and stays
\* within the drift it makes up for.
LEMMA SleepDrifts ==
    ASSUME GridInv, LoopTypeOK', Synced \/ Pending, Sleep, Debt < Lap, Debt' < Lap
    PROVE  Synced' \/ Pending'
<1>1. age'[sync] = Later(sync, Tick) /\ age'[hb] = Later(hb, Tick)
  BY TwoTasks DEF Sleep
<1>2. /\ Lap \in Nat /\ Interval[sync] = Lap /\ Interval[hb] = Lap /\ Tick \in Nat
      /\ Cost \in Nat /\ Budget \in Nat /\ Budget <= Cost
  BY TwoTasks, LoopAssumption DEF Lap, hb, sync
<1>3. /\ age[hb] \in Nat /\ age[sync] \in Nat /\ debt \in Nat /\ spent \in 0 .. Budget
      /\ age[hb] <= Lap /\ age[sync] <= Lap
  BY TwoTasks, <1>2 DEF GridInv, LoopTypeOK, AgesCapped
<1>4. /\ spent' = 0 /\ debt' = Debt /\ debt' \in Nat /\ debt + spent <= debt'
  BY <1>2, <1>3 DEF Sleep, NextDebt, Debt, Lap, hb
<1>5. /\ sync \in due' <=> age'[sync] >= Lap
      /\ hb \in due' <=> age'[hb] >= Lap
  BY <1>2, TwoTasks DEF Sleep, DueAt
<1>6. sync \notin due /\ hb \notin due
  BY DEF Sleep
<1>7. /\ age'[hb] = IF age[hb] + Tick < Lap THEN age[hb] + Tick ELSE Lap
      /\ age'[sync] = IF age[sync] + Tick < Lap THEN age[sync] + Tick ELSE Lap
  BY <1>1, <1>2 DEF Later
<1>8. owed' = owed /\ Edges' = Edges
  BY DEF Sleep, peers, Edges
<1>9. CASE Synced
  <2>1. age'[sync] <= age'[hb] /\ age'[hb] <= age'[sync] + debt' + spent'
    BY <1>2, <1>3, <1>4, <1>7, <1>9 DEF Synced
  <2>2. /\ sync \in due' => hb \in due'
        /\ hb \in due' => Lap <= age'[sync] + debt'
        /\ hb \in due' /\ sync \notin due' => debt' > 0
    BY <1>2, <1>3, <1>4, <1>5, <1>7, <2>1
  <2> QED
    BY <1>8, <1>9, <2>1, <2>2 DEF Synced
<1>10. CASE Pending
  <2>1. PICK a \in Grid, b \in Grid : /\ age[hb] + a <= b + debt + spent
                                      /\ Lap + b <= age[sync] + a
                                      /\ b < a
    BY <1>6, <1>10 DEF Pending
  <2>2. a \in Nat /\ b \in Nat /\ b + Tick \in Grid /\ b + Tick <= a
    BY <2>1, GridStep, GridApart
  <2>3. /\ age'[hb] + a <= (b + Tick) + debt' + spent'
        /\ Lap + (b + Tick) <= age'[sync] + a
        /\ sync \notin due' => b + Tick < a
    BY <1>2, <1>3, <1>4, <1>5, <1>7, <2>1, <2>2
  <2>4. hb \notin due'
    BY <1>2, <1>3, <1>4, <1>5, <1>7, <2>2, <2>3
  <2>5. \E x, y \in Grid : /\ age'[hb] + x <= y + debt' + spent'
                           /\ Lap + y <= age'[sync] + x
                           /\ sync \notin due' => y < x
    BY <2>2, <2>3
  <2> QED
    BY <1>8, <1>10, <2>4, <2>5 DEF Pending, Lap
<1> QED
  BY <1>9, <1>10

\* No offline -> online change is overwritten before online_sync has acted on
\* it, until what the iterations took adds up to a whole interval of the
\* heartbeat, whatever the interval and however the tasks' times fall.
THEOREM EdgeKeptInDrift == LoopSpec => []EdgeKept
<1>1. LoopInit => GridInv /\ DriftInv
  <2> SUFFICES ASSUME LoopInit PROVE GridInv /\ DriftInv
    OBVIOUS
  <2>1. LoopTypeOK
    <3>1. Interval \in [Tasks -> Nat] /\ 0 \in 0 .. Budget
      BY LoopAssumption
    <3> QED
      BY <3>1 DEF LoopInit, LoopTypeOK
  <2>2. AgesCapped
    BY LoopAssumption DEF LoopInit, AgesCapped
  <2>3. debt \in Grid
    <3>1. 0 = 0 * Tick
      BY LoopAssumption
    <3> QED
      BY <3>1 DEF LoopInit, Grid
  <2>4. Synced
    BY TwoTasks, LoopAssumption DEF LoopInit, Synced, Lap, hb, sync
  <2> QED
    BY <2>1, <2>2, <2>3, <2>4 DEF GridInv, DriftInv
<1>2. GridInv /\ DriftInv /\ LoopTypeOK' /\ [LoopNext]_loopVars => GridInv' /\ DriftInv'
  <2> SUFFICES ASSUME GridInv, DriftInv, LoopTypeOK', [LoopNext]_loopVars, Debt' < Lap
               PROVE  Synced' \/ Pending'
    BY GridNext DEF DriftInv, Lap
  <2>0. Debt < Lap /\ (Synced \/ Pending)
    <3>1. Lap \in Nat /\ Cost \in Nat /\ debt \in Nat /\ spent \in Nat
      BY TwoTasks, LoopAssumption DEF Lap, GridInv, LoopTypeOK
    <3>2. (debt' = debt /\ spent <= spent' /\ spent' \in Nat) \/ debt' = NextDebt
      <4>1. ASSUME NEW k \in Tasks, NEW d \in 0 .. Budget, Takes(k, d)
            PROVE  debt' = debt /\ spent <= spent' /\ spent' \in Nat
        BY <3>1, <4>1, TakesAges
      <4> QED
        BY <3>1, <4>1
        DEF LoopNext, NetworkCheck, AdoptionFlush, OtherTask, PeerHeartbeat, OnlineSync, Quiet,
            Tasks, AdoptionSkip, Sleep, loopVars
    <3>3. Debt < Lap
      <4>1. debt' \in Nat /\ spent' \in Nat
        BY LoopAssumption DEF LoopTypeOK
      <4> QED
        BY <3>1, <3>2, <4>1 DEF Debt, NextDebt, Lap, hb
    <3> QED
      BY <3>3 DEF DriftInv
  <2>1. ASSUME NEW d \in 0 .. Budget, NEW status \in BOOLEAN, NetworkCheck(d, status)
        PROVE  Synced' \/ Pending'
    BY <2>0, <2>1, OtherTaskDrifts DEF NetworkCheck, net, peers, Tasks, hb, sync
  <2>2. ASSUME NEW d \in 0 .. Budget, AdoptionFlush(d) PROVE Synced' \/ Pending'
    BY <2>0, <2>2, OtherTaskDrifts DEF AdoptionFlush, net, peers, Tasks, hb, sync
  <2>3. ASSUME NEW d \in 0 .. Budget, NEW k \in Quiet, OtherTask(k, d)
        PROVE  Synced' \/ Pending'
    BY <2>0, <2>3, OtherTaskDrifts DEF OtherTask, net, peers, Tasks, Quiet, hb, sync
  <2>4. ASSUME NEW d \in 0 .. Budget, NEW seen \in SUBSET Peers, PeerHeartbeat(d, seen)
        PROVE  Pending'
    BY <2>0, <2>4, HeartbeatDrifts
  <2>5. ASSUME NEW d \in 0 .. Budget, OnlineSync(d) PROVE Synced'
    BY <2>0, <2>5, SyncDrifts
  <2>6. CASE AdoptionSkip
    BY <2>0, <2>6, TwoTasks
    DEF AdoptionSkip, net, peers, Synced, Pending, Edges, hb, sync, Lap
  <2>7. CASE Sleep
    BY <2>0, <2>7, SleepDrifts
  <2>8. CASE UNCHANGED loopVars
    BY <2>0, <2>8 DEF loopVars, net, peers, Synced, Pending, Edges, Lap
  <2> QED
    BY <2>1, <2>2, <2>3, <2>4, <2>5, <2>6, <2>7, <2>8 DEF LoopNext
<1>3. DriftInv => EdgeKept
  BY DEF DriftInv, Synced, Pending, EdgeKept, EdgeNeverLost, Edges, Lap, hb
<1> QED
  BY <1>1, <1>2, <1>3, LoopTypeCorrect, PTL DEF LoopSpec
================================================================================
