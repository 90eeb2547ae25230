-------------------------------- MODULE Recall --------------------------------
(***************************************************************************)
(* What an agent is given when it recalls: recall/service.py reads the      *)
(* bindings of the agent and the asset index, which a synchronisation       *)
(* brings to the commit of a webhook row by row, and falls back to an       *)
(* index of the module's files when a store cannot be reached;              *)
(* binding/binding_service.py makes and retires the bindings meanwhile; and *)
(* client/recall_client.py falls back to the clone of the client, through   *)
(* a manifest that may be of an older commit.  One agent, one module.       *)
(***************************************************************************)
EXTENDS Naturals, Sequences, FiniteSets

CONSTANTS
    Assets,
    Restricted,   \* the assets of scope restricted
    Places,       \* paths a file may have in the module
    None,
    CacheSize,    \* module_cache_size
    MaxCommits,   \* bound on the commits of the repository
    MaxFaults     \* bound on the stores that get lost and the webhooks that are late

Commits == 1 .. MaxCommits
Stores  == {"db", "vectors", "git", "server"}  \* the server: for the client

File    == [v : Commits, at : Places]

ASSUME RecallAssumption ==
    /\ Restricted \subseteq Assets /\ None \notin Assets \cup Places \cup File
    /\ {CacheSize, MaxCommits} \subseteq Nat \ {0} /\ MaxFaults \in Nat

VARIABLES
    trees,      \* trees[c][a] : the version of a at commit c and its place, or None
    copy,       \* the commit of the working copy of the server
    rows,       \* asset_index
    mark,       \* last_synced_commit, 0 when there is none
    sync,       \* the commit a synchronisation goes to, and the assets left to do
    astray,     \* history: the assets whose rows a late webhook passed over
    binds,      \* agent_binding: binds[a][v], by binding_version
    auto,       \* what an auto_bind is about to insert
    down,       \* the stores that cannot be reached
    cache,      \* the module index of a commit, None when there is none
    call,       \* the recall that is running
    answer,     \* what the last step gave to the agent
    disk,       \* the commit of the client's clone
    manifest,   \* the commit of its manifest.json, 0 when there is none
    faults

repo    == <<trees, copy>>
index   == <<rows, mark, sync, astray>>
bound   == <<binds, auto>>
clone   == <<disk, manifest>>
vars    == <<repo, index, bound, down, cache, call, answer, clone, faults>>

Last    == Len(trees)
Idle    == [op |-> "idle", strict |-> FALSE, step |-> "", start |-> 0, gone |-> {},
            asset |-> None, row |-> None, commit |-> 0, degraded |-> FALSE]
NoRow   == [status |-> "none", v |-> 0, at |-> None, commit |-> 0]
Nothing == [op |-> "none"]

Init ==
    /\ \E f \in [Assets -> File] : trees = <<f>> /\ \A a \in Assets : f[a].v = 1
    /\ copy = 1
    /\ rows = [a \in Assets |-> NoRow] /\ mark = 0
    /\ sync = [to |-> 0, todo |-> {}] /\ astray = {}
    /\ binds = [a \in Assets |-> [v \in Commits |-> "none"]] /\ auto = {}
    /\ down = {} /\ cache = [c \in Commits |-> None]
    /\ call = Idle /\ answer = Nothing
    /\ disk = 1 /\ manifest = 0
    /\ faults = 0

Files(c)    == {a \in Assets : trees[c][a] # None}
At(c, a, p) == trees[c][a] # None /\ trees[c][a].at = p
Up(S)       == S \cap down = {}

-----------------------------------------------------------------------------
(* The repository, the stores and the clones.                              *)

\* A commit changes, moves or removes an asset, or goes back to a version.
Push(a) ==
    /\ Last < MaxCommits
    /\ LET old == {trees[c][a].v : c \in {d \in 1 .. Last : a \in Files(d)}}
       IN  \E f \in [v : old \cup {Last + 1}, at : Places] \cup {None} :
              /\ f # trees[Last][a]
              /\ trees' = Append(trees, [trees[Last] EXCEPT ![a] = f])
    /\ UNCHANGED <<copy, index, bound, down, cache, clone, faults>>

Pull ==
    /\ \/ copy' = Last /\ copy # Last /\ UNCHANGED clone
       \/ disk' = Last /\ disk # Last /\ UNCHANGED <<copy, manifest>>
    /\ UNCHANGED <<trees, index, bound, down, cache, faults>>

Lose(s) ==
    /\ s \notin down /\ faults < MaxFaults
    /\ down' = down \cup {s} /\ faults' = faults + 1
    /\ UNCHANGED <<repo, index, bound, cache, clone>>

Return(s) ==
    /\ s \in down
    /\ down' = down \ {s}
    /\ UNCHANGED <<repo, index, bound, cache, clone, faults>>

\* index-reconcile --rebuild-manifest: build and save.
Rebuild ==
    /\ manifest # disk
    /\ manifest' = disk
    /\ UNCHANGED <<repo, index, bound, down, cache, disk, faults>>

-----------------------------------------------------------------------------
(* The synchronisation.  IndexSync has what goes wrong in it.              *)

Differ(c) == {a \in Assets : mark = 0 \/ trees[mark][a] # trees[c][a]}

\* The commit is that of a webhook, or the head: nothing asks whether it is newer
\* than the watermark.  Of an older one the platform's comparison, which starts at
\* the merge base, has no changes, and a clone's comparison of trees has them all.
SyncBegin(c) ==
    /\ sync.to = 0 /\ c \in 1 .. Last /\ mark # c /\ Up({"db", "git"})
    /\ \E seen \in IF c < mark THEN {{}, Differ(c)} ELSE {Differ(c)} :
          /\ sync'   = [to |-> c, todo |-> seen]
          /\ astray' = astray \cup (Differ(c) \ seen)
    /\ IF c < mark THEN faults < MaxFaults /\ faults' = faults + 1 ELSE UNCHANGED faults
    /\ UNCHANGED <<repo, rows, mark, bound, down, cache, clone>>

\* Mutant: the row is stamped with the commit the synchronisation came from.
Upserted_Before(a, f) == [status |-> "active", v |-> f.v, at |-> f.at,
                          commit |-> IF mark = 0 THEN sync.to ELSE mark]

\* AssetIndex.upsert: the row is active again, whatever it was.
Upserted(a, f) == [status |-> "active", v |-> f.v, at |-> f.at, commit |-> sync.to]

\* AssetIndex.delete disables the bindings in the transaction of the row.
Disabled(a) == [v \in Commits |-> IF binds[a][v] = "on" THEN "off" ELSE binds[a][v]]

SyncRow(a) ==
    /\ a \in sync.todo /\ Up({"db"})
    /\ sync' = [sync EXCEPT !.todo = @ \ {a}] /\ astray' = astray \ {a}
    /\ LET f == trees[sync.to][a]
       IN  IF f # None
             THEN rows' = [rows EXCEPT ![a] = Upserted(a, f)] /\ UNCHANGED binds
           ELSE IF rows[a].status = "none"
             THEN UNCHANGED <<rows, binds>>
           ELSE /\ rows'  = [rows EXCEPT ![a].status = "deleted"]
                /\ binds' = [binds EXCEPT ![a] = Disabled(a)]
    /\ UNCHANGED <<repo, mark, auto, down, cache, clone, faults>>

SyncEnd ==
    /\ sync.to # 0 /\ sync.todo = {} /\ Up({"db"})
    /\ mark' = sync.to /\ sync' = [sync EXCEPT !.to = 0]
    /\ UNCHANGED <<repo, rows, astray, bound, down, cache, clone, faults>>

-----------------------------------------------------------------------------
(* The bindings: "on" is enabled, "off" disabled by a deletion, "old"       *)
(* superseded by the binding of another version.                            *)

Binds(f) == Up({"db"}) /\ binds' = f /\ UNCHANGED <<repo, index, auto, down, cache, clone, faults>>

\* create_binding leaves the state of a row that is there.
Create(a, v) ==
    /\ rows[a].status # "none" /\ binds[a][v] = "none"
    /\ Binds([binds EXCEPT ![a][v] = "on"])

DeleteBinding(a, v) == binds[a][v] # "none" /\ Binds([binds EXCEPT ![a][v] = "none"])

\* auto_bind and apply_role_template: the routed assets that are active and have
\* no row of their version which is not superseded.  A disabled row is one.
AutoRead ==
    /\ auto = {} /\ Up({"db"})
    /\ \E T \in (SUBSET {a \in Assets : rows[a].status = "active"}) \ {{}} :
          auto' = {<<a, rows[a].v>> : a \in {b \in T : binds[b][rows[b].v] \in {"none", "old"}}}
    /\ auto' # {}
    /\ UNCHANGED <<repo, index, binds, down, cache, clone, faults>>

\* All rows are inserted, or none: a superseded row of the version is in the way.
AutoCommit ==
    /\ auto # {} /\ auto' = {}
    /\ binds' = IF Up({"db"}) /\ \A p \in auto : binds[p[1]][p[2]] = "none"
                  THEN [a \in Assets |-> [v \in Commits |-> IF <<a, v>> \in auto THEN "on" ELSE binds[a][v]]]
                  ELSE binds
    /\ UNCHANGED <<repo, index, down, cache, clone, faults>>

\* Mutant: the rows to supersede are looked up after the insert.
Superseded_All(a, v) == [w \in Commits |-> IF w = v \/ binds[a][w] \in {"on", "off"}
                                             THEN "old" ELSE binds[a][w]]

Superseded(a, v) == [w \in Commits |-> IF w = v THEN "on"
                                       ELSE IF binds[a][w] \in {"on", "off"} THEN "old"
                                       ELSE binds[a][w]]

\* write_copy_on_asset_version_change; another row of the version makes it fail.
WriteCopy(a, v) ==
    /\ rows[a].status # "none" /\ binds[a][v] = "none"
    /\ Binds([binds EXCEPT ![a] = Superseded(a, v)])

\* cleanup_superseded_bindings: what was superseded ten minutes ago goes.
Cleanup(a, v) == binds[a][v] = "old" /\ Binds([binds EXCEPT ![a][v] = "none"])

\* cascade_invalidate_asset.
Cascade(a) == Disabled(a) # binds[a] /\ Binds([binds EXCEPT ![a] = Disabled(a)])

-----------------------------------------------------------------------------
(* The client's own clone.                                                 *)

\* _local_recall: what the manifest or the disk has; with a query, what has text.
LocalFiles(query) ==
    Files(disk) \cup (IF query \/ manifest = 0 THEN {} ELSE Files(manifest))

\* _local_read: what the manifest has is looked for in its place only.
LocalRead(a) ==
    IF manifest # 0 /\ a \in Files(manifest)
      THEN IF At(disk, a, trees[manifest][a].at) THEN trees[disk][a].v ELSE 0
    ELSE IF a \in Files(disk) THEN trees[disk][a].v ELSE 0

Listed(degraded, items, files) ==
    answer' = [op |-> "list", degraded |-> degraded, items |-> items, files |-> files,
               gone |-> call.gone]

Read(how, a, v) ==
    answer' = [op |-> "read", how |-> how, asset |-> a, v |-> v, start |-> call.start]

\* The server gave no content: the client's own file is taken for it.
ReadLocal(a) ==
    IF LocalRead(a) = 0 THEN Read("gone", a, 0) ELSE Read("local", a, LocalRead(a))

-----------------------------------------------------------------------------
(* recall/list.                                                            *)

ListAsk ==
    /\ call = Idle
    /\ \E strict \in BOOLEAN, query \in BOOLEAN :
          IF Up({"server"})
            THEN /\ call' = [Idle EXCEPT !.op = "list", !.strict = strict, !.step = "asked",
                                         !.gone = {a \in Assets : rows[a].status = "deleted"}]
                 /\ answer' = Nothing
            ELSE UNCHANGED call /\ Listed(TRUE, {}, LocalFiles(query))
    /\ UNCHANGED cache

\* _resolve_consistency
Resolve ==
    /\ call.op = "list" /\ call.step = "asked"
    /\ call' = [call EXCEPT !.step = "resolved",
          !.commit = IF ~ Up({"db"}) THEN 0 ELSE IF call.strict /\ Up({"git"}) THEN Last ELSE mark,
          !.degraded = ~ Up({"db"}) \/ (call.strict /\ ~ Up({"git"}))]
    /\ answer' = Nothing /\ UNCHANGED cache

\* Mutant: the status of the asset is not looked at.
Bound_Enabled == {p \in Assets \X Commits : binds[p[1]][p[2]] = "on"}

\* _query_bound_assets: the join, a row for each enabled binding.
Bound == {p \in Assets \X Commits : binds[p[1]][p[2]] = "on" /\ rows[p[1]].status = "active"}

\* _normal_recall.  A query needs the vectors and picks among the bound assets.
\* What a degraded answer lacks is looked for in the clone.
ListNormal ==
    /\ call.op = "list" /\ call.step = "resolved" /\ Up({"db"})
    /\ \E query \in BOOLEAN :
       \E T \in IF query THEN SUBSET Bound ELSE {Bound} :
          /\ query /\ Bound # {} => Up({"vectors"})
          /\ Listed(call.degraded, T, IF call.degraded THEN LocalFiles(query) ELSE {})
    /\ call' = Idle /\ UNCHANGED cache

\* _get_or_build_module_index: what git does not give is left out, and stays out
\* until the entry expires.
Entries(c) ==
    IF cache[c] # None THEN {cache[c]}
    ELSE {S \in SUBSET Files(c) : Up({"git"}) => S = Files(c)}

\* A full cache drops entries, and those of other modules push out this one's.
Cached(c, S) ==
    /\ \E kept \in SUBSET (Commits \ {c}) :
          cache' = [d \in Commits |-> IF d = c THEN S ELSE IF d \in kept THEN cache[d] ELSE None]
    /\ Cardinality({d \in Commits : cache'[d] # None}) <= CacheSize

\* _degraded_recall, or 503 without a module; the clone has the rest.
ListDegraded ==
    /\ call.op = "list" /\ call.step = "resolved"
    /\ ~ Up({"db"}) \/ (~ Up({"vectors"}) /\ Bound # {})
    /\ LET c == IF call.commit # 0 THEN call.commit ELSE IF Up({"git"}) THEN Last ELSE 0
       IN  \/ Listed(TRUE, {}, LocalFiles(TRUE)) /\ UNCHANGED cache
           \/ /\ c # 0
              /\ \E S \in Entries(c) : Cached(c, S) /\ Listed(TRUE, {}, S \cup LocalFiles(TRUE))
    /\ call' = Idle

-----------------------------------------------------------------------------
(* recall/read.                                                            *)

\* The older of the commits the index is at and on its way to.
Oldest == IF sync.to # 0 /\ sync.to < mark THEN sync.to ELSE mark

ReadAsk(a) ==
    /\ call = Idle
    /\ IF Up({"server"})
         THEN /\ \E strict \in BOOLEAN :
                   call' = [Idle EXCEPT !.op = "read", !.asset = a, !.strict = strict,
                                        !.step = "asked", !.start = Oldest]
              /\ answer' = Nothing
         ELSE UNCHANGED call /\ ReadLocal(a)
    /\ UNCHANGED cache

\* 404, 410, 403 or 500; the reader of restricted assets may be unavailable.
Refused(a) ==
    \/ ~ Up({"db"})
    \/ rows[a].status # "active"
    \/ a \in Restricted /\ \A v \in Commits : binds[a][v] # "on"

ReadRow ==
    /\ call.op = "read" /\ call.step = "asked"
    /\ \/ /\ Refused(call.asset) \/ call.asset \in Restricted
          /\ call' = Idle /\ ReadLocal(call.asset)
       \/ /\ ~ Refused(call.asset)
          /\ call' = [call EXCEPT !.step = "row", !.row = rows[call.asset],
                                  !.start = IF call.asset \in astray THEN 0 ELSE @]
          /\ answer' = Nothing
    /\ UNCHANGED cache

\* The commit to read: last_synced_commit, or that of the row.
ReadCommit ==
    IF call.strict THEN Last ELSE IF Up({"db"}) /\ mark # 0 THEN mark ELSE call.row.commit

\* git show, or the working copy of the server.
ReadShow ==
    /\ call.op = "read" /\ call.step = "row"
    /\ LET a == call.asset
       IN  IF Up({"git"}) /\ At(ReadCommit, a, call.row.at)
             THEN Read("fresh", a, trees[ReadCommit][a].v)
           ELSE IF At(copy, a, call.row.at)
             THEN Read("copy", a, trees[copy][a].v)
             ELSE ReadLocal(a)
    /\ call' = Idle /\ UNCHANGED cache

-----------------------------------------------------------------------------
\* A module index is kept for a minute.
Expire(c) ==
    /\ cache[c] # None
    /\ cache' = [cache EXCEPT ![c] = None]
    /\ UNCHANGED <<repo, index, bound, down, clone, faults>>

Recalls ==
    /\ ListAsk \/ Resolve \/ ListNormal \/ ListDegraded \/ ReadRow \/ ReadShow
       \/ \E a \in Assets : ReadAsk(a)
    /\ UNCHANGED <<repo, index, bound, down, clone, faults>>

Index ==
    \/ \E c \in Commits : SyncBegin(c)
    \/ SyncEnd \/ \E a \in Assets : SyncRow(a)
    \/ AutoRead \/ AutoCommit
    \/ \E a \in Assets : Cascade(a)
    \/ \E a \in Assets, v \in Commits :
          Create(a, v) \/ DeleteBinding(a, v) \/ WriteCopy(a, v) \/ Cleanup(a, v)

World ==
    \/ \E a \in Assets : Push(a)
    \/ Pull \/ Rebuild
    \/ \E s \in Stores : Lose(s) \/ Return(s)
    \/ \E c \in Commits : Expire(c)

\* An upsert during a list makes its asset one that may be given again, and a
\* synchronisation that goes back during a read makes older content its due.
Meanwhile ==
    /\ call' = [call EXCEPT !.gone  = {a \in @ : rows'[a].status = "deleted"},
                            !.start = IF @ <= Oldest' THEN @ ELSE Oldest']
    /\ answer' = Nothing

Next == Recalls \/ ((Index \/ World) /\ Meanwhile)

Spec == Init /\ [][Next]_vars

-----------------------------------------------------------------------------
\* Types of repository, index, bindings and clones.
TypeOK ==
    /\ trees \in Seq([Assets -> File \cup {None}]) /\ Last \in Commits
    /\ {copy, disk} \subseteq 1 .. Last /\ {mark, manifest, sync.to} \subseteq 0 .. Last
    /\ sync.todo \subseteq Assets /\ astray \subseteq Assets
    /\ rows \in [Assets -> [status : {"none", "active", "deleted"}, v : 0 .. Last,
                           at : Places \cup {None}, commit : 0 .. Last]]
    /\ binds \in [Assets -> [Commits -> {"none", "on", "off", "old"}]]
    /\ auto \subseteq Assets \X (1 .. Last)
    /\ down \subseteq Stores /\ faults \in 0 .. MaxFaults
    /\ \A c \in Commits : cache[c] = None \/ cache[c] \subseteq Files(c)
    /\ call.asset \in Assets \cup {None} /\ call.gone \subseteq Assets

\* An asset whose deletion the index had before the recall began, and has still,
\* is in no answer that is not degraded, whatever bindings were made for it since
\* (recall/service.py:555-599: the status and the binding are both looked at).
NothingDeleted ==
    answer.op = "list" /\ ~ answer.degraded => \A p \in answer.items : p[1] \notin answer.gone

\* The content that git shows for a read is that of the asset at a commit at least
\* as new as the oldest that the index was at or on its way to while the read ran,
\* though the row, the watermark and the file are looked at one after the other
\* (recall/service.py:400-474).  For a row that a late webhook passed over
\* (webhook_sync.py:101-142) it is some version of the asset, and may be any.
ReadNotOld ==
    answer.op = "read" /\ answer.how = "fresh" =>
        \E c \in answer.start .. Last :
           c # 0 /\ answer.asset \in Files(c) /\ trees[c][answer.asset].v = answer.v

\* An agent loses the enabled binding of an asset when the asset is deleted, when
\* the binding is, or by a cascade, and never by the copy for another version or
\* its cleanup (binding/binding_service.py:458-540).
BindingKept ==
    [][\A a \in Assets :
         (\E v \in Commits : binds[a][v] = "on") /\ (\A v \in Commits : binds'[a][v] # "on")
         => \/ rows'[a].status = "deleted" \/ Cascade(a)
            \/ \E v \in Commits : DeleteBinding(a, v)]_vars

=============================================================================
