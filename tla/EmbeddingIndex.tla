----------------------------- MODULE EmbeddingIndex -----------------------------
(* infra_db: the asset index, the outbox of embedding tasks that is written in *)
(* its transactions, the worker that carries the tasks out on the vector       *)
(* store, the hourly repair and the migration to another embedding model.      *)
(* Claiming, running and completing a batch is one transaction of the worker:  *)
(* nobody else sees it before Commit, but the vector store is written at once. *)
EXTENDS Naturals, FiniteSets, Sequences, SequencesExt

CONSTANTS Assets, Versions,
          First,        \* EMBEDDING_ACTIVE_VERSION at the start
          None,
          Batch,        \* batch_size of run_once
          MigrateLimit, \* batch_size of migrate_batch
          MaxRetries,   \* max_retries of a task
          MaxEdits, MaxFaults,  \* bounds of the model
          Reuse         \* a version may be migrated to again after a failed try

ASSUME EmbeddingAssumption ==
    /\ First \in Versions /\ None \notin Versions
    /\ Batch \in Nat \ {0} /\ MigrateLimit \in Nat \ {0} /\ MaxRetries \in Nat \ {0}
    /\ MaxEdits \in Nat /\ MaxFaults \in Nat
    /\ Reuse \in BOOLEAN /\ IsFiniteSet(Assets)

VARIABLES row,      \* asset_index: content counts edits, ver and emb are versions
          queue,    \* open tasks of embedding_task_queue by created_at
          track,    \* asset_embedding: the <<version, asset>> that have a row
          vec,      \* vec[v][a] : the content embedded in the vector store, 0: none
          batch,    \* what the worker's transaction has done, and the rows it read
          scan,     \* what the repair job has read
          active, shadow,  \* the versions, in memory
          phase, old,      \* where the operator of the migration is
          total,    \* the active assets that verify_progress counted
          tried,    \* versions that have been active or shadow
          edits, fails, crashes

index   == <<row, edits>>
versions == <<active, shadow, phase, old, total, tried>>
limits  == <<fails, crashes>>
vars    == <<index, queue, track, vec, batch, scan, versions, limits>>

Contents == 0 .. MaxEdits
Rows  == [st : {"none", "active", "deleted"}, content : Contents,
          ver : Versions \cup {None}, emb : Versions \cup {None}]
Tasks == [kind : {"upsert", "delete"}, asset : Assets, ver : Versions,
          tries : 0 .. MaxRetries - 1]

NoRow   == [st |-> "none", content |-> 0, ver |-> None, emb |-> None]
NotRead == [NoRow EXCEPT !.st = "not read"]
Idle    == [size |-> 0, outs |-> <<>>, seen |-> [a \in Assets |-> NotRead]]
NoScan  == [rows |-> {}, active |-> None, shadow |-> None]

Init == /\ row     = [a \in Assets |-> NoRow]
        /\ queue   = <<>>
        /\ track   = {}
        /\ vec     = [v \in Versions |-> [a \in Assets |-> 0]]
        /\ batch   = Idle
        /\ scan    = NoScan
        /\ active  = First  /\ shadow = None
        /\ phase   = "none" /\ old    = None
        /\ total   = 0
        /\ tried   = {First}
        /\ edits = 0 /\ fails = 0 /\ crashes = 0

ActiveRows == {a \in Assets : row[a].st = "active"}
Open(v)    == {queue[i].asset : i \in {j \in DOMAIN queue : queue[j].ver = v}}

Task(k, a, v) == [kind |-> k, asset |-> a, ver |-> v, tries |-> 0]

\* The tasks for one asset: the active version and, during a migration, the shadow.
TasksFor(k, a, act, sha) ==
    <<Task(k, a, act)>> \o (IF sha = None THEN <<>> ELSE <<Task(k, a, sha)>>)

\* The tasks for a set of assets, in some order: one each, or two during a migration.
AllTasksFor(S, act, sha) ==
    LET s == SetToSeq(S)
    IN  IF sha = None
        THEN [i \in 1 .. Len(s) |-> Task("upsert", s[i], act)]
        ELSE [i \in 1 .. 2 * Len(s) |->
                IF i % 2 = 1 THEN Task("upsert", s[(i + 1) \div 2], act)
                             ELSE Task("upsert", s[i \div 2], sha)]

\* What is left of s when only the elements at the places I are kept, in order.
Place(I, k) == CHOOSE i \in I : Cardinality({j \in I : j < i}) = k - 1
Kept(s, I)  == [k \in 1 .. Cardinality(I) |-> s[Place(I, k)]]
--------------------------------------------------------------------------------
(* AssetIndex *)

\* Bound: MaxEdits writes to the index.
Writes == edits < MaxEdits /\ edits' = edits + 1

\* Mutant: a changed asset is embedded for the active version only.
Edit_ActiveOnly(a) ==
    /\ Writes
    /\ row' = [row EXCEPT ![a] =
                 [st |-> "active", content |-> edits', ver |-> active,
                  emb |-> IF @.ver = active THEN @.emb ELSE None]]
    /\ queue' = queue \o TasksFor("upsert", a, active, None)
    /\ UNCHANGED <<track, vec, batch, scan, versions, limits>>

\* upsert: the row and its tasks in one transaction.
Edit(a) ==
    /\ Writes
    /\ row' = [row EXCEPT ![a] =
                 [st |-> "active", content |-> edits', ver |-> active,
                  emb |-> IF @.ver = active THEN @.emb ELSE None]]
    /\ queue' = queue \o TasksFor("upsert", a, active, shadow)
    /\ UNCHANGED <<track, vec, batch, scan, versions, limits>>

\* delete, soft: the row stays, marked deleted.
Delete(a) ==
    /\ Writes
    /\ row[a].st # "none"
    /\ row' = [row EXCEPT ![a].st = "deleted"]
    /\ queue' = queue \o TasksFor("delete", a, active, shadow)
    /\ UNCHANGED <<track, vec, batch, scan, versions, limits>>

\* reindex_module: tasks for the active version only.
ReindexModule ==
    /\ Writes
    /\ ActiveRows # {}
    /\ queue' = queue \o AllTasksFor(ActiveRows, active, None)
    /\ UNCHANGED <<row, track, vec, batch, scan, versions, limits>>
--------------------------------------------------------------------------------
(* OutboxWorker *)

\* _claim_tasks: the oldest open tasks.
Claim ==
    /\ batch = Idle
    /\ queue # <<>>
    /\ batch' = [Idle EXCEPT !.size = IF Len(queue) < Batch THEN Len(queue) ELSE Batch]
    /\ UNCHANGED <<index, queue, track, vec, scan, versions, limits>>

Cur == queue[Len(batch.outs) + 1]
Seen == batch.seen[Cur.asset]
Working == Len(batch.outs) < batch.size

\* _execute_task: the session reads a row once and then keeps it.
Look ==
    /\ Working
    /\ Seen = NotRead
    /\ batch' = [batch EXCEPT !.seen[Cur.asset] = row[Cur.asset]]
    /\ UNCHANGED <<index, queue, track, vec, scan, versions, limits>>

\* The current task ends with outcome o, its vector being c in the store.
Ends(o, c) ==
    /\ batch' = [batch EXCEPT !.outs = Append(@, o)]
    /\ vec' = [vec EXCEPT ![Cur.ver][Cur.asset] = c]
    /\ UNCHANGED <<index, queue, track, scan, versions, crashes>>

\* Bound: MaxFaults failed calls of the store or the model, and crashes.
MoreFaults == fails + crashes < MaxFaults

Fails == MoreFaults /\ fails' = fails + 1

IsOrphan == Cur.kind = "upsert" /\ Seen.st # "active"

\* The content is embedded and stored.
Store ==
    /\ Working /\ Seen # NotRead
    /\ Cur.kind = "upsert" /\ ~IsOrphan
    /\ Ends("stored", Seen.content)
    /\ UNCHANGED fails

\* A delete task clears the vector.
Erase ==
    /\ Working /\ Seen # NotRead
    /\ Cur.kind = "delete"
    /\ Ends("removed", 0)
    /\ UNCHANGED fails

\* The asset is gone: clear the vector, and done even when that fails.
Compensate ==
    /\ Working /\ Seen # NotRead
    /\ IsOrphan
    /\ \/ Ends("removed", 0) /\ UNCHANGED fails
       \/ Ends("removed", vec[Cur.ver][Cur.asset]) /\ Fails

\* _handle_failure: the call fails, with or without having reached the store.
Fail ==
    /\ Working /\ Seen # NotRead
    /\ ~IsOrphan
    /\ Fails
    /\ \/ Ends("retry", vec[Cur.ver][Cur.asset])
       \/ Ends("retry", IF Cur.kind = "delete" THEN 0 ELSE Seen.content)

\* The claimed tasks that failed and have a try left stay open, before those behind them.
Tries(i) == queue[i].tries + 1
Again    == {i \in 1 .. batch.size : batch.outs[i] = "retry" /\ Tries(i) < MaxRetries}
QueueLeft ==
    Kept([i \in 1 .. batch.size |-> [queue[i] EXCEPT !.tries = Tries(i)]], Again)
        \o SubSeq(queue, batch.size + 1, Len(queue))

\* _upsert_embedding_track, _delete_embedding_track: the last outcome decides.
Tracked(v, a) ==
    LET I == {i \in 1 .. batch.size : queue[i].asset = a /\ queue[i].ver = v
                                        /\ batch.outs[i] # "retry"}
    IN  IF I = {} THEN <<v, a>> \in track
        ELSE batch.outs[CHOOSE i \in I : \A j \in I : j <= i] = "stored"

\* Mutant: the row is given the vector of the other version.
Pinned_Shadow(a) ==
    \E i \in 1 .. batch.size : /\ queue[i].asset = a
                               /\ batch.outs[i] = "stored"
                               /\ queue[i].ver # batch.seen[a].ver

\* embedding_id is written when the task's version is that of the row as read,
\* and differs from what was read.
Pinned(a) ==
    \E i \in 1 .. batch.size : /\ queue[i].asset = a
                               /\ batch.outs[i] = "stored"
                               /\ queue[i].ver = batch.seen[a].ver
                               /\ queue[i].ver # batch.seen[a].emb

\* run_once commits what it has done.
Commit ==
    /\ batch # Idle /\ ~Working
    /\ queue' = QueueLeft
    /\ track' = {p \in Versions \X Assets : Tracked(p[1], p[2])}
    /\ row' = [a \in Assets |->
                 IF Pinned(a) THEN [row[a] EXCEPT !.emb = batch.seen[a].ver] ELSE row[a]]
    /\ batch' = Idle
    /\ UNCHANGED <<edits, vec, scan, versions, limits>>

\* The worker's transaction is lost: its tasks are open again, the store keeps
\* what was written.  The lease never matters: a claim is not seen before Commit.
Crash ==
    /\ MoreFaults
    /\ batch # Idle
    /\ batch' = Idle
    /\ crashes' = crashes + 1
    /\ UNCHANGED <<index, queue, track, vec, scan, versions, fails>>
--------------------------------------------------------------------------------
(* ReconcileEmbeddingTask *)

\* list_null_embedding: those of the rows without embedding that are old enough.
ReconcileScan ==
    /\ scan = NoScan
    /\ \E S \in (SUBSET {a \in ActiveRows : row[a].emb = None}) \ {{}} :
          scan' = [rows |-> S, active |-> active, shadow |-> shadow]
    /\ UNCHANGED <<index, queue, track, vec, batch, versions, limits>>

\* run, continued: a task for each that has none open in the active version.
ReconcileQueue ==
    /\ scan # NoScan
    /\ queue' = queue \o AllTasksFor(scan.rows \ Open(scan.active), scan.active, scan.shadow)
    /\ scan' = NoScan
    /\ UNCHANGED <<index, track, vec, batch, versions, limits>>
--------------------------------------------------------------------------------
(* EmbeddingMigration, driven in the order its class comment gives *)

\* start_migration: from now on every write to the index is queued twice.
StartMigration(v) ==
    /\ phase = "none"
    /\ v # active
    /\ Reuse \/ v \notin tried
    /\ shadow' = v
    /\ phase'  = "shadow"
    /\ tried'  = tried \cup {v}
    /\ UNCHANGED <<index, queue, track, vec, batch, scan, active, old, total, limits>>

\* What the query with a LIMIT and no order may return.
Candidates ==
    LET A == {a \in ActiveRows : row[a].ver = active}
    IN  {C \in SUBSET A : Cardinality(C) = IF Cardinality(A) < MigrateLimit
                                           THEN Cardinality(A) ELSE MigrateLimit}

\* migrate_batch: of MigrateLimit active assets, whichever the query returns,
\* those with neither a tracking row nor an open task of the shadow version.
MigrateBatch ==
    /\ phase = "shadow"
    /\ \E C \in Candidates :
          queue' = queue \o AllTasksFor(
              {a \in C : <<shadow, a>> \notin track} \ Open(shadow), shadow, None)
    /\ UNCHANGED <<index, track, vec, batch, scan, versions, limits>>

\* verify_progress, the first query: the active assets.  Each query sees what is
\* committed when it runs.
VerifyTotal ==
    /\ phase = "shadow"
    /\ total' = Cardinality(ActiveRows)
    /\ phase' = "counting"
    /\ UNCHANGED <<index, queue, track, vec, batch, scan, active, shadow, old, tried, limits>>

\* The tracking rows of the shadow version; which assets they are for is not
\* looked at.
VerifyCount ==
    /\ phase = "counting"
    /\ phase' = IF Cardinality({a \in Assets : <<shadow, a>> \in track}) >= total
                THEN "counted" ELSE "shadow"
    /\ total' = 0
    /\ UNCHANGED <<index, queue, track, vec, batch, scan, active, shadow, old, tried, limits>>

\* Its open tasks, and the answer.
VerifyOpen ==
    /\ phase = "counted"
    /\ phase' = IF Open(shadow) = {} THEN "ready" ELSE "shadow"
    /\ UNCHANGED <<index, queue, track, vec, batch, scan, active, shadow, old, total, tried, limits>>

\* switch_active: the versions in memory ...
Switch ==
    /\ phase = "ready"
    /\ active' = shadow /\ shadow' = None /\ old' = active
    /\ phase'  = "switching"
    /\ UNCHANGED <<index, queue, track, vec, batch, scan, total, tried, limits>>

\* ... then the rows, which lose their embedding and wait for the repair job.
SwitchRows ==
    /\ phase = "switching"
    /\ phase' = "switched"
    /\ row' = [a \in Assets |-> IF a \in ActiveRows
                                THEN [row[a] EXCEPT !.ver = active, !.emb = None]
                                ELSE row[a]]
    /\ UNCHANGED <<edits, queue, track, vec, batch, scan, active, shadow, old, total, tried, limits>>

\* The open tasks but those of version v.
QueueWithout(v) == Kept(queue, {i \in DOMAIN queue : queue[i].ver # v})

\* A DELETE waits for the rows that the worker's transaction has locked.
Unlocked(v) == \A i \in 1 .. batch.size : queue[i].ver # v

\* drop_old_version: first the vectors ...
DropVectors ==
    /\ phase = "switched"
    /\ vec'   = [vec EXCEPT ![old] = [a \in Assets |-> 0]]
    /\ phase' = "dropping"
    /\ UNCHANGED <<index, queue, track, batch, scan, active, shadow, old, total, tried, limits>>

\* ... then the tracking rows and the open tasks.
DropRows ==
    /\ phase = "dropping"
    /\ Unlocked(old)
    /\ queue' = QueueWithout(old)
    /\ track' = {p \in track : p[1] # old}
    /\ phase' = "none" /\ old' = None
    /\ UNCHANGED <<index, vec, batch, scan, active, shadow, total, tried, limits>>

\* rollback_migration: the open tasks and the vectors go, the tracking rows stay.
RollbackMigration ==
    /\ phase \in {"shadow", "ready"}
    /\ Unlocked(shadow)
    /\ queue' = QueueWithout(shadow)
    /\ vec'   = [vec EXCEPT ![shadow] = [a \in Assets |-> 0]]
    /\ shadow' = None /\ phase' = "none"
    /\ UNCHANGED <<index, track, batch, scan, active, old, total, tried, limits>>

\* The server restarts with the active version in its environment, and no shadow.
\* Within switch_active that is one or the other, and the rows are not switched.
Restart ==
    /\ MoreFaults
    /\ crashes' = crashes + 1
    /\ batch' = Idle /\ scan' = NoScan
    /\ active' \in IF phase = "switching" THEN {active, old} ELSE {active}
    /\ phase'  = IF phase \in {"switching", "torn"} THEN "torn" ELSE "none"
    /\ shadow' = None /\ old' = None /\ total' = 0
    /\ UNCHANGED <<index, queue, track, vec, tried, fails>>
--------------------------------------------------------------------------------
Next == \/ \E a \in Assets : Edit(a) \/ Delete(a)
        \/ ReindexModule
        \/ Claim \/ Look \/ Store \/ Erase \/ Compensate \/ Fail \/ Commit \/ Crash
        \/ ReconcileScan \/ ReconcileQueue
        \/ \E v \in Versions : StartMigration(v)
        \/ MigrateBatch \/ VerifyTotal \/ VerifyCount \/ VerifyOpen
        \/ Switch \/ SwitchRows \/ DropVectors \/ DropRows
        \/ RollbackMigration \/ Restart

\* The worker's loop and the hourly job go on; a call that fails is repeated; and
\* switch_active runs to its end.
Fairness == /\ WF_vars(Claim) /\ WF_vars(Look) /\ WF_vars(Commit)
            /\ WF_vars(Store \/ Erase \/ Compensate)
            /\ WF_vars(ReconcileScan) /\ WF_vars(ReconcileQueue)
            /\ WF_vars(SwitchRows)

Spec == Init /\ [][Next]_vars /\ Fairness
--------------------------------------------------------------------------------
(* Properties *)

\* Types; a task with no try left is not open, and a batch is a prefix of the queue.
TypeOK == /\ row \in [Assets -> Rows]
          /\ queue \in Seq(Tasks)
          /\ track \subseteq Versions \X Assets
          /\ vec \in [Versions -> [Assets -> Contents]]
          /\ batch \in [size : Nat, outs : Seq({"stored", "removed", "retry"}),
                        seen : [Assets -> Rows \cup {NotRead}]]
          /\ Len(batch.outs) <= batch.size /\ batch.size <= Len(queue)
          /\ scan \in [rows : SUBSET Assets, active : Versions \cup {None},
                       shadow : Versions \cup {None}]
          /\ active \in Versions /\ shadow \in (Versions \ {active}) \cup {None}
          /\ phase \in {"none", "shadow", "counting", "counted", "ready", "switching",
                        "switched", "dropping", "torn"}
          /\ total \in Nat /\ old \in Versions \cup {None} /\ tried \subseteq Versions
          /\ edits \in 0 .. MaxEdits
          /\ fails \in Nat /\ crashes \in Nat /\ fails + crashes <= MaxFaults

\* When no task is open and no call has failed, the vectors that recall searches
\* are those of the index: the content of each active asset, and of no other,
\* whatever transactions were lost and through a migration (outbox.py, models.py:219).
\* An asset can be missing, when verify_progress said ready too early, but is never
\* out of date, and what is missing has no embedding of the active version.  A
\* restart within switch_active is excluded: it leaves the rows of one version with
\* the other.
AtRestFresh ==
    queue = <<>> /\ fails = 0 /\ phase # "torn" =>
        \A a \in Assets :
            \/ vec[active][a] = IF row[a].st = "active" THEN row[a].content ELSE 0
            \/ vec[active][a] = 0 /\ row[a].emb # active

\* When verify_progress says ready and no call has failed, every active asset has
\* its present content in the shadow version (embedding_migration.py:219).
ReadyMeansMigrated ==
    [][phase' = "ready" /\ phase # "ready" /\ fails = 0 =>
          \A a \in ActiveRows : vec[shadow][a] = row[a].content]_vars

\* An active asset without an embedding gets one, also after tasks that failed for
\* good and after the switch to another version, unless the server restarts within
\* the switch (reconcile_embedding.py:3).
EventuallyEmbedded ==
    \A a \in Assets :
        (row[a].st = "active" /\ row[a].emb = None)
            ~> (row[a].st # "active" \/ row[a].emb # None \/ phase = "torn")

\* Every active asset's embedding is of the active version (asset_index.py:152).
EmbeddingIsActive == \A a \in ActiveRows : row[a].emb \in {None, row[a].ver}
================================================================================
