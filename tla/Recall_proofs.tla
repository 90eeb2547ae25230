----------------------------- MODULE Recall_proofs -----------------------------
(***************************************************************************)
(* What a recall gives, for any assets, places, commits and faults: no      *)
(* asset that stayed deleted since before it began, and no content older     *)
(* than the index was while it ran.  A row that no late webhook passed over  *)
(* is at a commit of the repository: the one a synchronisation goes to once  *)
(* it has done the asset, and that of the watermark until then.             *)
(***************************************************************************)
EXTENDS Recall, TLAPS

Status == {"none", "active", "deleted"}
Row    == [status : Status, v : Nat, at : Places \cup {None}, commit : Nat]
Calls  == [op : {"idle", "list", "read"}, strict : BOOLEAN,
           step : {"", "asked", "resolved", "row"}, start : Nat, gone : SUBSET Assets,
           asset : Assets \cup {None}, row : Row \cup {None}, commit : Nat, degraded : BOOLEAN]

FileOf(r) == [v |-> r.v, at |-> r.at]

\* Commits stay, and have the versions of commits before them.
RepoOK ==
    /\ trees \in Seq([Assets -> File \cup {None}]) /\ Last \in Commits
    /\ \A c \in 1 .. Last : \A a \in Files(c) : trees[c][a].v <= c

IndexOK ==
    /\ mark \in 0 .. Last /\ sync \in [to : 0 .. Last, todo : SUBSET Assets]
    /\ sync.to = 0 => sync.todo = {}
    /\ rows \in [Assets -> Row] /\ astray \subseteq Assets

BindsOK == binds \in [Assets -> [Commits -> {"none", "on", "off", "old"}]]

\* The commit the row of a is at.
RowAt(a) == IF sync.to # 0 /\ a \notin sync.todo THEN sync.to ELSE mark

RowTrue ==
    \A a \in Assets : rows[a].status = "active" =>
        /\ a \notin astray => RowAt(a) # 0 /\ trees[RowAt(a)][a] = FileOf(rows[a])
        /\ rows[a].commit \in 1 .. Last /\ trees[rows[a].commit][a] = FileOf(rows[a])

\* What is gone for a list is deleted still.
GoneDeleted == \A a \in call.gone : rows[a].status = "deleted"

\* The row of a read is that of a commit it may give.
RowHeld ==
    call.op = "read" =>
       /\ call.start <= Oldest /\ call.asset \in Assets
       /\ call.step = "row" =>
             /\ call.row \in Row
             /\ call.row.commit \in 1 .. Last
             /\ trees[call.row.commit][call.asset] = FileOf(call.row)
             /\ \E c \in call.start .. Last : c # 0 /\ trees[c][call.asset] = FileOf(call.row)

Inv == RepoOK /\ IndexOK /\ BindsOK /\ call \in Calls /\ RowTrue /\ GoneDeleted /\ RowHeld

-----------------------------------------------------------------------------
(* The invariant.                                                          *)

\* It holds at first.
LEMMA InitInv == Init => Inv
  <1> SUFFICES ASSUME Init PROVE Inv
    OBVIOUS
  <1>1. RepoOK
    <2>1. PICK f \in [Assets -> File] : trees = <<f>> /\ \A a \in Assets : f[a].v = 1
      BY DEF Init
    <2>2. trees \in Seq([Assets -> File \cup {None}]) /\ Len(trees) = 1 /\ trees[1] = f
      BY <2>1
    <2> QED
      BY <2>1, <2>2, RecallAssumption DEF RepoOK, Last, Commits, Files
  <1>2. IndexOK /\ BindsOK /\ RowTrue
    BY <1>1 DEF Init, IndexOK, BindsOK, RowTrue, RepoOK, Last, Commits, NoRow, Row, Status
  <1>3. call \in Calls /\ GoneDeleted /\ RowHeld
    BY DEF Init, Calls, GoneDeleted, RowHeld, Idle
  <1> QED
    BY <1>1, <1>2, <1>3 DEF Inv

\* What a step of the world leaves of a recall that is running.
LEMMA MeanwhileInv ==
    ASSUME Inv, Meanwhile, Last' \in Nat, Last <= Last', Oldest' \in Nat,
           \A c \in 1 .. Last : trees'[c] = trees[c]
    PROVE  call' \in Calls /\ GoneDeleted' /\ RowHeld'
  <1> DEFINE G == {a \in call.gone : rows'[a].status = "deleted"}
             s == IF call.start <= Oldest' THEN call.start ELSE Oldest'
  <1>1. call' = [call EXCEPT !.gone = G, !.start = s] /\ call \in Calls
    BY DEF Meanwhile, Inv
  <1>2. G \subseteq call.gone /\ call.gone \subseteq Assets
    BY <1>1 DEF Calls
  <1>3. call.start \in Nat /\ s \in Nat /\ s <= call.start /\ s <= Oldest'
    <2> HIDE DEF G, s
    <2>1. call.start \in Nat
      BY <1>1 DEF Calls
    <2> QED
      BY <2>1 DEF s
  <1> HIDE DEF s
  <1>4. call' \in Calls
    BY <1>1, <1>2, <1>3 DEF Calls
  <1>5. GoneDeleted'
    BY <1>1 DEF GoneDeleted, Calls
  <1> HIDE DEF G
  <1>6. /\ call'.op = call.op /\ call'.start = s /\ call'.asset = call.asset
        /\ call'.step = call.step /\ call'.row = call.row
    BY <1>1 DEF Calls
  <1>7. Last \in Nat
    BY RecallAssumption DEF Inv, RepoOK, Commits
  <1>8. RowHeld'
    <2>1. CASE call.op = "read" /\ call.step = "row"
      <3>1. PICK c \in call.start .. Last : c # 0 /\ trees[c][call.asset] = FileOf(call.row)
        BY <2>1 DEF Inv, RowHeld
      <3>2. c \in 1 .. Last /\ c \in s .. Last'
        BY <3>1, <1>3, <1>7
      <3>3. /\ call.row \in Row /\ call.asset \in Assets /\ call.row.commit \in 1 .. Last
            /\ trees[call.row.commit][call.asset] = FileOf(call.row)
        BY <2>1 DEF Inv, RowHeld
      <3>4. call.row.commit \in 1 .. Last' /\ trees'[call.row.commit] = trees[call.row.commit]
            /\ trees'[c] = trees[c]
        BY <3>2, <3>3, <1>7
      <3> QED
        BY <3>1, <3>2, <3>3, <3>4, <1>3, <1>6 DEF RowHeld, FileOf
    <2>2. CASE call.op = "read" /\ call.step # "row"
      BY <2>2, <1>3, <1>6 DEF Inv, RowHeld
    <2>3. CASE call.op # "read"
      BY <2>3, <1>6 DEF RowHeld
    <2> QED
      BY <2>1, <2>2, <2>3
  <1> QED
    BY <1>4, <1>5, <1>8

\* A commit adds a tree.
LEMMA PushInv == ASSUME Inv, NEW a \in Assets, Push(a), Meanwhile PROVE Inv'
  <1> DEFINE old == {trees[c][a].v : c \in {d \in 1 .. Last : a \in Files(d)}}
  <1>1. PICK f \in [v : old \cup {Last + 1}, at : Places] \cup {None} :
           trees' = Append(trees, [trees[Last] EXCEPT ![a] = f])
    BY DEF Push
  <1>2. Last \in Commits /\ Last < MaxCommits /\ Last \in Nat /\ Last + 1 \in Commits
        /\ trees \in Seq([Assets -> File \cup {None}]) /\ Last \in 1 .. Len(trees)
    BY RecallAssumption DEF Push, Inv, RepoOK, Commits, Last
  <1>3. \A v \in old : v \in Commits /\ v <= Last
    <2> SUFFICES ASSUME NEW c \in 1 .. Last, a \in Files(c)
                 PROVE  trees[c][a].v \in Commits /\ trees[c][a].v <= Last
      OBVIOUS
    <2>1. trees[c] \in [Assets -> File \cup {None}]
      BY <1>2 DEF Last
    <2>2. trees[c][a] \in File /\ trees[c][a].v <= c
      BY <2>1 DEF Inv, RepoOK, Files
    <2> QED
      BY <2>2, <1>2 DEF File, Commits
  <1> HIDE DEF old
  <1> DEFINE t == [trees[Last] EXCEPT ![a] = f]
  <1>4. trees[Last] \in [Assets -> File \cup {None}]
    BY <1>2
  <1>5. f \in File \cup {None} /\ (f # None => f.v <= Last + 1)
    BY <1>1, <1>2, <1>3 DEF File, Commits
  <1>6. t \in [Assets -> File \cup {None}]
    BY <1>4, <1>5
  <1>7. \A b \in Assets : t[b] # None => t[b].v <= Last + 1
    <2> SUFFICES ASSUME NEW b \in Assets, t[b] # None PROVE t[b].v <= Last + 1
      OBVIOUS
    <2>1. CASE b = a
      BY <2>1, <1>4, <1>5
    <2>2. CASE b # a
      <3>1. t[b] = trees[Last][b] /\ t[b] \in File
        BY <2>2, <1>4, <1>6
      <3>2. t[b].v <= Last
        BY <3>1, <1>2 DEF Inv, RepoOK, Files
      <3> QED
        BY <3>1, <3>2, <1>2 DEF File, Commits
    <2> QED
      BY <2>1, <2>2
  <1>8. trees' = Append(trees, t)
    BY <1>1
  <1> HIDE DEF t
  <1>9. /\ trees' \in Seq([Assets -> File \cup {None}]) /\ Last' = Last + 1
        /\ \A c \in 1 .. Last : trees'[c] = trees[c]
        /\ trees'[Last + 1] = t
    BY <1>2, <1>6, <1>8 DEF Last
  <1>10. RepoOK'
    BY <1>2, <1>7, <1>9 DEF Inv, RepoOK, Files
  <1>11. UNCHANGED <<index, binds>>
    BY DEF Push, bound
  <1>12. IndexOK' /\ BindsOK'
    BY <1>2, <1>9, <1>11 DEF Inv, IndexOK, BindsOK, index
  <1>13. RowTrue'
    <2>1. \A b \in Assets : RowAt(b) \in 0 .. Last /\ RowAt(b)' = RowAt(b)
      BY <1>11 DEF RowAt, index, Inv, IndexOK
    <2>2. rows' = rows
      BY <1>11 DEF index
    <2> SUFFICES ASSUME NEW b \in Assets, rows[b].status = "active"
                 PROVE  /\ b \notin astray => RowAt(b)' # 0 /\ trees'[RowAt(b)'][b] = FileOf(rows[b])
                        /\ rows[b].commit \in 1 .. Last'
                        /\ trees'[rows[b].commit][b] = FileOf(rows[b])
      BY <2>2, <1>11 DEF RowTrue, FileOf, index
    <2>3. /\ b \notin astray => RowAt(b) # 0 /\ trees[RowAt(b)][b] = FileOf(rows[b])
          /\ rows[b].commit \in 1 .. Last /\ trees[rows[b].commit][b] = FileOf(rows[b])
      BY DEF Inv, RowTrue
    <2>4. rows[b].commit \in 1 .. Last' /\ trees'[rows[b].commit] = trees[rows[b].commit]
      BY <1>2, <1>9, <2>3
    <2>5. ASSUME b \notin astray PROVE RowAt(b)' # 0 /\ trees'[RowAt(b)'][b] = FileOf(rows[b])
      <3>1. RowAt(b) \in 1 .. Last /\ RowAt(b)' = RowAt(b)
        BY <1>2, <2>1, <2>3, <2>5
      <3>2. trees'[RowAt(b)] = trees[RowAt(b)]
        BY <1>9, <3>1
      <3> QED
        BY <3>1, <3>2, <2>3, <2>5
    <2> QED
      BY <2>3, <2>4, <2>5
  <1>14. call' \in Calls /\ GoneDeleted' /\ RowHeld'
    <2>1. Oldest' \in Nat
      BY <1>2, <1>11 DEF Inv, IndexOK, index, Oldest
    <2> QED
      BY MeanwhileInv, <2>1, <1>2, <1>9
  <1> QED
    BY <1>10, <1>12, <1>13, <1>14 DEF Inv

\* A step that leaves repository and index alone.
LEMMA AsideInv ==
    ASSUME Inv, Meanwhile, UNCHANGED <<trees, index>>, BindsOK'
    PROVE  Inv'
  <1>1. Last' = Last /\ Last \in Nat /\ Oldest' \in Nat
    BY RecallAssumption DEF Inv, RepoOK, IndexOK, Commits, Last, index, Oldest
  <1>2. call' \in Calls /\ GoneDeleted' /\ RowHeld'
    BY <1>1, MeanwhileInv
  <1>3. RepoOK' /\ IndexOK' /\ RowTrue'
    BY DEF Inv, RepoOK, IndexOK, RowTrue, RowAt, Files, Last, index
  <1> QED
    BY <1>2, <1>3 DEF Inv

\* The start of a synchronisation: what it need not do is as it is to be, or astray.
LEMMA SyncBeginInv == ASSUME Inv, NEW c \in Commits, SyncBegin(c), Meanwhile PROVE Inv'
  <1>1. PICK seen \in {{}, Differ(c)} :
           sync' = [to |-> c, todo |-> seen] /\ astray' = astray \cup (Differ(c) \ seen)
    BY DEF SyncBegin
  <1>2. sync.to = 0 /\ c \in 1 .. Last /\ UNCHANGED <<trees, rows, mark, binds>>
    BY DEF SyncBegin, repo, bound
  <1>3. Last' = Last /\ Last \in Nat \ {0} /\ mark \in 0 .. Last
    BY <1>2, RecallAssumption DEF Inv, RepoOK, IndexOK, Commits, Last
  <1>4. Differ(c) \subseteq Assets /\ seen \subseteq Assets
    BY <1>1 DEF Differ
  <1>5. RepoOK' /\ BindsOK'
    BY <1>2, <1>3 DEF Inv, RepoOK, BindsOK, Files
  <1>6. IndexOK'
    <2>1. sync' \in [to : 0 .. Last, todo : SUBSET Assets] /\ sync'.to # 0
      BY <1>1, <1>2, <1>3, <1>4
    <2> QED
      BY <1>1, <1>2, <1>3, <1>4, <2>1 DEF Inv, IndexOK
  <1>7. RowTrue'
    <2> SUFFICES ASSUME NEW a \in Assets, rows[a].status = "active", a \notin astray'
                 PROVE  RowAt(a)' # 0 /\ trees[RowAt(a)'][a] = FileOf(rows[a])
      BY <1>2, <1>3 DEF Inv, RowTrue, FileOf
    <2>1. mark # 0 /\ trees[mark][a] = FileOf(rows[a])
      BY <1>1, <1>2 DEF Inv, RowTrue, RowAt
    <2>2. CASE a \in seen
      BY <2>1, <2>2, <1>1, <1>2 DEF RowAt
    <2>3. CASE a \notin seen
      <3>1. trees[mark][a] = trees[c][a]
        BY <2>3, <2>1, <1>1 DEF Differ
      <3>2. RowAt(a)' = c /\ c # 0
        BY <2>3, <1>1, <1>2 DEF RowAt
      <3> QED
        BY <3>1, <3>2, <2>1
    <2> QED
      BY <2>2, <2>3
  <1>8. call' \in Calls /\ GoneDeleted' /\ RowHeld'
    <2>1. Oldest' \in Nat
      BY <1>1, <1>2, <1>3 DEF Oldest
    <2> QED
      BY <1>2, <1>3, <2>1, MeanwhileInv
  <1> QED
    BY <1>5, <1>6, <1>7, <1>8 DEF Inv

\* The index takes one asset: its row is at the new commit, or deleted.
LEMMA SyncRowInv == ASSUME Inv, NEW a \in Assets, SyncRow(a), Meanwhile PROVE Inv'
  <1> DEFINE f == trees[sync.to][a]
  <1>1. /\ a \in sync.todo /\ sync' = [sync EXCEPT !.todo = @ \ {a}]
        /\ astray' = astray \ {a} /\ UNCHANGED <<trees, mark>>
    BY DEF SyncRow, repo
  <1>2. Last' = Last /\ Last \in Nat /\ mark \in Nat /\ sync \in [to : 0 .. Last, todo : SUBSET Assets]
    BY <1>1, RecallAssumption DEF Inv, RepoOK, IndexOK, Commits, Last
  <1>3. \/ f # None /\ rows' = [rows EXCEPT ![a] = Upserted(a, f)]
        \/ rows' = rows /\ rows[a].status = "none"
        \/ rows' = [rows EXCEPT ![a].status = "deleted"]
    BY DEF SyncRow
  <1>4. BindsOK'
    <2>1. Disabled(a) \in [Commits -> {"none", "on", "off", "old"}]
      BY DEF Disabled, Inv, BindsOK
    <2>2. binds' \in {binds, [binds EXCEPT ![a] = Disabled(a)]}
      BY DEF SyncRow
    <2> QED
      BY <2>1, <2>2 DEF Inv, BindsOK
  <1>5. sync' \in [to : 0 .. Last, todo : SUBSET Assets] /\ sync'.to = sync.to
        /\ sync'.todo = sync.todo \ {a}
    BY <1>1, <1>2
  <1>6. sync.to \in 1 .. Last
    BY <1>1, <1>2 DEF Inv, IndexOK
  <1>7. f # None => f \in File /\ f = FileOf(Upserted(a, f)) /\ Upserted(a, f) \in Row
    <2>1. trees[sync.to] \in [Assets -> File \cup {None}]
      BY <1>6 DEF Inv, RepoOK, Last
    <2>2. f # None => f \in File
      BY <2>1
    <2> HIDE DEF f
    <2> QED
      BY <2>2, <1>6, <1>2, RecallAssumption DEF File, FileOf, Upserted, Row, Status, Commits
  <1> HIDE DEF f
  <1>8. rows' \in [Assets -> Row]
    BY <1>3, <1>7 DEF Inv, IndexOK, Row, Status
  <1>9. RepoOK' /\ IndexOK'
    BY <1>1, <1>2, <1>5, <1>6, <1>8 DEF Inv, RepoOK, IndexOK, Files
  <1>10. RowTrue'
    <2> SUFFICES ASSUME NEW b \in Assets, rows'[b].status = "active"
                 PROVE  /\ b \notin astray' => RowAt(b)' # 0 /\ trees[RowAt(b)'][b] = FileOf(rows'[b])
                        /\ rows'[b].commit \in 1 .. Last
                        /\ trees[rows'[b].commit][b] = FileOf(rows'[b])
      BY <1>1, <1>2 DEF RowTrue, FileOf
    <2>1. CASE b = a
      <3>1. rows'[a] = Upserted(a, f) /\ f # None
        BY <2>1, <1>3 DEF Inv, IndexOK, Row
      <3>2. RowAt(a)' = sync.to
        BY <1>5, <1>6 DEF RowAt
      <3>3. trees[sync.to][a] = f
        BY DEF f
      <3>4. rows'[a].commit = sync.to
        BY <3>1 DEF Upserted
      <3> QED
        BY <2>1, <3>1, <3>2, <3>3, <3>4, <1>6, <1>7
    <2>2. CASE b # a
      <3>1. rows'[b] = rows[b] /\ RowAt(b)' = RowAt(b)
        BY <2>2, <1>1, <1>3, <1>5 DEF Inv, IndexOK, RowAt
      <3> QED
        BY <3>1, <2>2, <1>1 DEF Inv, RowTrue
    <2> QED
      BY <2>1, <2>2
  <1>11. call' \in Calls /\ GoneDeleted' /\ RowHeld'
    <2>1. Oldest' \in Nat
      BY <1>1, <1>2, <1>5, <1>6 DEF Oldest
    <2> QED
      BY <1>1, <1>2, <2>1, MeanwhileInv
  <1> QED
    BY <1>4, <1>9, <1>10, <1>11 DEF Inv

\* The watermark moves to where every row is.
LEMMA SyncEndInv == ASSUME Inv, SyncEnd, Meanwhile PROVE Inv'
  <1>1. /\ sync.to # 0 /\ sync.todo = {} /\ mark' = sync.to /\ sync' = [sync EXCEPT !.to = 0]
        /\ UNCHANGED <<trees, rows, astray, binds>>
    BY DEF SyncEnd, repo, bound
  <1>2. Last' = Last /\ Last \in Nat /\ mark \in 0 .. Last
        /\ sync \in [to : 0 .. Last, todo : SUBSET Assets]
    BY <1>1, RecallAssumption DEF Inv, RepoOK, IndexOK, Commits, Last
  <1>3. sync' \in [to : 0 .. Last, todo : SUBSET Assets] /\ sync'.to = 0 /\ sync'.todo = {}
        /\ mark' \in 0 .. Last
    BY <1>1, <1>2
  <1>4. RepoOK' /\ IndexOK' /\ BindsOK'
    BY <1>1, <1>2, <1>3 DEF Inv, RepoOK, IndexOK, BindsOK, Files
  <1>5. RowTrue'
    <2>1. \A a \in Assets : RowAt(a) = sync.to /\ RowAt(a)' = sync.to
      BY <1>1, <1>3 DEF RowAt
    <2> QED
      BY <2>1, <1>1, <1>2 DEF Inv, RowTrue
  <1>6. call' \in Calls /\ GoneDeleted' /\ RowHeld'
    <2>1. Oldest' \in Nat
      BY <1>3 DEF Oldest
    <2> QED
      BY <1>1, <1>2, <2>1, MeanwhileInv
  <1> QED
    BY <1>4, <1>5, <1>6 DEF Inv

\* What the bindings may become.
LEMMA BindingsInv ==
    ASSUME Inv, Meanwhile,
           \/ AutoRead \/ AutoCommit \/ \E a \in Assets : Cascade(a)
           \/ \E a \in Assets, v \in Commits :
                 Create(a, v) \/ DeleteBinding(a, v) \/ WriteCopy(a, v) \/ Cleanup(a, v)
    PROVE  Inv'
  <1>1. UNCHANGED <<trees, index>>
    BY DEF AutoRead, AutoCommit, Cascade, Create, DeleteBinding, WriteCopy, Cleanup, Binds, repo
  <1>2. BindsOK'
    <2>1. \A a \in Assets : Disabled(a) \in [Commits -> {"none", "on", "off", "old"}]
      BY DEF Disabled, Inv, BindsOK
    <2>2. \A a \in Assets, v \in Commits :
             Superseded(a, v) \in [Commits -> {"none", "on", "off", "old"}]
      BY DEF Superseded, Inv, BindsOK
    <2>3. CASE AutoCommit
      BY <2>3 DEF AutoCommit, Inv, BindsOK
    <2>4. CASE AutoRead
      BY <2>4 DEF AutoRead, Inv, BindsOK
    <2>5. ASSUME NEW a \in Assets, Cascade(a) PROVE BindsOK'
      BY <2>1, <2>5 DEF Cascade, Binds, Inv, BindsOK
    <2>6. ASSUME NEW a \in Assets, NEW v \in Commits,
                 Create(a, v) \/ DeleteBinding(a, v) \/ WriteCopy(a, v) \/ Cleanup(a, v)
          PROVE  BindsOK'
      <3>1. \/ \E s \in {"on", "none"} : binds' = [binds EXCEPT ![a][v] = s]
            \/ binds' = [binds EXCEPT ![a] = Superseded(a, v)]
        BY <2>6 DEF Create, DeleteBinding, WriteCopy, Cleanup, Binds
      <3>2. ASSUME NEW f \in [Commits -> {"none", "on", "off", "old"}],
                   binds' = [binds EXCEPT ![a] = f]
            PROVE  BindsOK'
        BY <3>2 DEF Inv, BindsOK
      <3>3. ASSUME NEW s \in {"on", "none"}, binds' = [binds EXCEPT ![a][v] = s]
            PROVE  BindsOK'
        <4>1. [binds[a] EXCEPT ![v] = s] \in [Commits -> {"none", "on", "off", "old"}]
          BY DEF Inv, BindsOK
        <4>2. binds' = [binds EXCEPT ![a] = [binds[a] EXCEPT ![v] = s]]
          BY <3>3
        <4> QED
          BY <4>1, <4>2, <3>2
      <3> QED
        BY <2>2, <3>1, <3>2, <3>3
    <2> QED
      BY <2>3, <2>4, <2>5, <2>6
  <1> QED
    BY <1>1, <1>2, AsideInv

\* A recall leaves the world alone.
LEMMA RecallsInv == ASSUME Inv, Recalls PROVE Inv'
  <1>1. UNCHANGED <<trees, index, binds>>
    BY DEF Recalls, repo, bound
  <1>2. Last' = Last /\ RepoOK' /\ IndexOK' /\ BindsOK' /\ RowTrue'
    BY <1>1 DEF Inv, RepoOK, IndexOK, BindsOK, RowTrue, RowAt, Files, Last, index
  <1>3. Last \in Nat /\ mark \in 0 .. Last /\ Last \in 1 .. Last
        /\ Oldest' = Oldest /\ Oldest \in Nat
    BY <1>1, RecallAssumption DEF Inv, RepoOK, IndexOK, Commits, Oldest, index
  <1>4. Idle \in Calls
    BY DEF Calls, Idle
  <1> DEFINE Right == call' \in Calls /\ GoneDeleted' /\ RowHeld'
  <1> SUFFICES Right
    BY <1>2 DEF Inv
  <1>5. CASE call' = call
    BY <1>1, <1>2, <1>3, <1>5 DEF Inv, GoneDeleted, RowHeld, index
  <1>6. CASE call' = Idle
    BY <1>4, <1>6 DEF GoneDeleted, RowHeld, Idle
  <1>7. ASSUME NEW G \in SUBSET Assets, NEW strict \in BOOLEAN,
               \A a \in G : rows[a].status = "deleted",
               call' = [Idle EXCEPT !.op = "list", !.strict = strict, !.step = "asked", !.gone = G]
        PROVE  Right
    BY <1>1, <1>4, <1>7 DEF Calls, GoneDeleted, RowHeld, Idle, index
  <1>8. CASE Resolve
    <2> DEFINE c == IF ~ Up({"db"}) THEN 0 ELSE IF call.strict /\ Up({"git"}) THEN Last ELSE mark
               d == ~ Up({"db"}) \/ (call.strict /\ ~ Up({"git"}))
    <2>1. call' = [call EXCEPT !.step = "resolved", !.commit = c, !.degraded = d]
          /\ c \in Nat /\ d \in BOOLEAN
      BY <1>3, <1>8 DEF Resolve
    <2> HIDE DEF c, d
    <2>2. call.op = "list" /\ call \in Calls
      BY <1>8 DEF Resolve, Inv
    <2>3. call' \in Calls /\ call'.op = "list" /\ call'.gone = call.gone
      BY <2>1, <2>2 DEF Calls
    <2> QED
      BY <1>1, <2>3 DEF Inv, GoneDeleted, RowHeld, index
  <1>9. ASSUME NEW a \in Assets, NEW strict \in BOOLEAN,
               call' = [Idle EXCEPT !.op = "read", !.asset = a, !.strict = strict,
                                    !.step = "asked", !.start = Oldest]
        PROVE  Right
    <2>1. /\ call' \in Calls /\ call'.gone = {} /\ call'.start = Oldest /\ call'.asset = a
          /\ call'.step = "asked"
      BY <1>3, <1>9 DEF Calls, Idle
    <2> QED
      BY <2>1, <1>3 DEF GoneDeleted, RowHeld
  <1>10. ASSUME call.op = "read", ~ Refused(call.asset),
                call' = [call EXCEPT !.step = "row", !.row = rows[call.asset],
                                     !.start = IF call.asset \in astray THEN 0 ELSE @]
         PROVE  Right
    <2> DEFINE r == rows[call.asset]
               s == IF call.asset \in astray THEN 0 ELSE call.start
    <2>1. call \in Calls /\ call.asset \in Assets /\ call.start <= Oldest
      BY <1>10 DEF Inv, RowHeld
    <2>2. call' = [call EXCEPT !.step = "row", !.row = r, !.start = s] /\ r.status = "active"
      BY <1>10 DEF Refused
    <2>3. r \in Row /\ r.commit \in 1 .. Last /\ trees[r.commit][call.asset] = FileOf(r)
      BY <2>1, <2>2 DEF Inv, RowTrue, IndexOK
    <2>4. s \in Nat /\ s <= call.start /\ call.start \in Nat
      <3> HIDE DEF r, s
      <3>1. call.start \in Nat
        BY <2>1 DEF Calls
      <3> QED
        BY <3>1 DEF s
    <2>5. \E c \in s .. Last : c # 0 /\ trees[c][call.asset] = FileOf(r)
      <3>1. CASE call.asset \in astray
        BY <3>1, <2>3
      <3>2. CASE call.asset \notin astray
        <4>1. RowAt(call.asset) # 0 /\ trees[RowAt(call.asset)][call.asset] = FileOf(r)
          BY <3>2, <2>1, <2>2 DEF Inv, RowTrue
        <4>2. RowAt(call.asset) \in s .. Last
          BY <2>1, <2>4, <1>3 DEF RowAt, Oldest, Inv, IndexOK
        <4> QED
          BY <4>1, <4>2
      <3> QED
        BY <3>1, <3>2
    <2> HIDE DEF r, s
    <2>6. /\ call' \in Calls /\ call'.op = "read" /\ call'.step = "row" /\ call'.row = r
          /\ call'.start = s /\ call'.asset = call.asset /\ call'.gone = call.gone
      BY <1>10, <2>1, <2>2, <2>3, <2>4 DEF Calls
    <2> QED
      BY <1>1, <1>2, <1>3, <2>1, <2>3, <2>4, <2>5, <2>6 DEF Inv, GoneDeleted, RowHeld, index
  <1> QED
    <2>1. CASE ListAsk
      <3> DEFINE G == {a \in Assets : rows[a].status = "deleted"}
      <3>1. (\E strict \in BOOLEAN : call' = [Idle EXCEPT !.op = "list", !.strict = strict,
                                              !.step = "asked", !.gone = G])
            \/ call' = call
        BY <2>1 DEF ListAsk
      <3>2. G \in SUBSET Assets /\ \A a \in G : rows[a].status = "deleted"
        OBVIOUS
      <3> HIDE DEF G
      <3> QED
        BY <3>1, <3>2, <1>5, <1>7
    <2>2. CASE ListNormal \/ ListDegraded \/ ReadShow
      BY <2>2, <1>6 DEF ListNormal, ListDegraded, ReadShow
    <2>3. CASE ReadRow
      <3>1. CASE call' = Idle
        BY <3>1, <1>6
      <3>2. CASE call' # Idle
        BY <3>2, <2>3, <1>10 DEF ReadRow
      <3> QED
        BY <3>1, <3>2
    <2>4. ASSUME NEW a \in Assets, ReadAsk(a) PROVE Right
      BY <2>4, <1>5, <1>9 DEF ReadAsk
    <2> QED
      BY <2>1, <2>2, <2>3, <2>4, <1>8 DEF Recalls

\* Every step keeps the invariant.
LEMMA NextInv == Inv /\ [Next]_vars => Inv'
  <1> SUFFICES ASSUME Inv, [Next]_vars PROVE Inv'
    OBVIOUS
  <1>1. CASE Recalls
    BY <1>1, RecallsInv
  <1>2. CASE Index /\ Meanwhile
    BY <1>2, SyncBeginInv, SyncRowInv, SyncEndInv, BindingsInv DEF Index
  <1>3. CASE World /\ Meanwhile
    <2>1. ASSUME NEW a \in Assets, Push(a) PROVE Inv'
      BY <2>1, <1>3, PushInv
    <2>2. CASE Pull \/ Rebuild \/ (\E s \in Stores : Lose(s) \/ Return(s)) \/ (\E c \in Commits : Expire(c))
      <3>1. UNCHANGED <<trees, index, binds>>
        BY <2>2 DEF Pull, Rebuild, Lose, Return, Expire, repo, bound
      <3> QED
        BY <3>1, <1>3, AsideInv DEF Inv, BindsOK
    <2> QED
      BY <2>1, <2>2, <1>3 DEF World
  <1>4. CASE UNCHANGED vars
    BY <1>4 DEF vars, repo, index, bound, Inv, RepoOK, IndexOK, BindsOK, RowTrue, RowAt, GoneDeleted,
       RowHeld, Files, Last, Oldest
  <1> QED
    BY <1>1, <1>2, <1>3, <1>4 DEF Next

\* So it holds always.
LEMMA Invariant == Spec => []Inv
  BY InitInv, NextInv, PTL DEF Spec

-----------------------------------------------------------------------------
(* What is given.                                                          *)

\* The world gives nothing, and a step that is none keeps what was given.
LEMMA OnlyRecallsGive ==
    ASSUME [Next]_vars, ~ Recalls
    PROVE  answer' = Nothing \/ (answer' = answer /\ trees' = trees)
  BY DEF Next, Meanwhile, vars, repo

\* A list is one of what is bound and active, unless it is degraded, and a read
\* that git gave is of the commit that was to be read.
LEMMA Given ==
    ASSUME Recalls
    PROVE  \/ answer' = Nothing
           \/ \E items, files : answer' = [op |-> "list", degraded |-> TRUE, items |-> items,
                                           files |-> files, gone |-> call.gone]
           \/ \E T, d, files : T \subseteq Bound
                 /\ answer' = [op |-> "list", degraded |-> d, items |-> T,
                               files |-> files, gone |-> call.gone]
           \/ \E how, a, v : how # "fresh"
                 /\ answer' = [op |-> "read", how |-> how, asset |-> a, v |-> v, start |-> call.start]
           \/ /\ call.op = "read" /\ call.step = "row"
              /\ At(ReadCommit, call.asset, call.row.at)
              /\ answer' = [op |-> "read", how |-> "fresh", asset |-> call.asset,
                            v |-> trees[ReadCommit][call.asset].v, start |-> call.start]
  <1>1. CASE ListAsk
    BY <1>1 DEF ListAsk, Listed
  <1>2. CASE Resolve
    BY <1>2 DEF Resolve
  <1>3. CASE ListNormal
    BY <1>3 DEF ListNormal, Listed
  <1>4. CASE ListDegraded
    BY <1>4 DEF ListDegraded, Listed
  <1>5. CASE ReadRow
    BY <1>5 DEF ReadRow, ReadLocal, Read
  <1>6. CASE ReadShow
    BY <1>6 DEF ReadShow, ReadLocal, Read
  <1>7. ASSUME NEW a \in Assets, ReadAsk(a)
        PROVE  answer' = Nothing \/ ReadLocal(a)
    BY <1>7 DEF ReadAsk
  <1>8. CASE \E a \in Assets : ReadAsk(a)
    BY <1>7, <1>8 DEF ReadLocal, Read
  <1> QED
    BY <1>1, <1>2, <1>3, <1>4, <1>5, <1>6, <1>8 DEF Recalls

\* An asset that was deleted when the recall began, and is still, is not given.
THEOREM DeletedIsNotGiven == Spec => []NothingDeleted
  <1>1. Init => NothingDeleted
    BY DEF Init, Nothing, NothingDeleted
  <1>2. Inv /\ NothingDeleted /\ [Next]_vars => NothingDeleted'
    <2> SUFFICES ASSUME Inv, NothingDeleted, [Next]_vars PROVE NothingDeleted'
      OBVIOUS
    <2>1. CASE Recalls
      <3> SUFFICES ASSUME answer'.op = "list", ~ answer'.degraded,
                          NEW p \in answer'.items, p[1] \in answer'.gone
                   PROVE  FALSE
        BY DEF NothingDeleted
      <3>1. p \in Bound /\ answer'.gone = call.gone
        BY <2>1, Given DEF Nothing
      <3> QED
        BY <3>1 DEF Bound, Inv, GoneDeleted
    <2>2. CASE ~ Recalls
      BY <2>2, OnlyRecallsGive DEF NothingDeleted, Nothing
    <2> QED
      BY <2>1, <2>2
  <1> QED
    BY <1>1, <1>2, Invariant, PTL DEF Spec

\* What git shows for a read is not older than the index was while it ran.
THEOREM ReadIsNotOld == Spec => []ReadNotOld
  <1>1. Init => ReadNotOld
    BY DEF Init, Nothing, ReadNotOld
  <1>2. Inv /\ ReadNotOld /\ [Next]_vars => ReadNotOld'
    <2> SUFFICES ASSUME Inv, ReadNotOld, [Next]_vars PROVE ReadNotOld'
      OBVIOUS
    <2>1. CASE Recalls
      <3> SUFFICES ASSUME answer'.op = "read", answer'.how = "fresh"
                   PROVE  \E c \in answer'.start .. Last' :
                             c # 0 /\ answer'.asset \in Files(c)'
                             /\ trees'[c][answer'.asset].v = answer'.v
        BY DEF ReadNotOld
      <3> DEFINE a == call.asset
                 k == ReadCommit
      <3>1. /\ call.op = "read" /\ call.step = "row" /\ At(k, a, call.row.at)
            /\ answer' = [op |-> "read", how |-> "fresh", asset |-> a, v |-> trees[k][a].v,
                          start |-> call.start]
        BY <2>1, Given DEF Nothing
      <3>2. trees' = trees /\ Last' = Last /\ (\A c : Files(c)' = Files(c))
        BY <2>1 DEF Recalls, repo, Last, Files
      <3>3. /\ call.start \in Nat /\ call.start <= Oldest /\ a \in Assets
            /\ call.row.commit \in 1 .. Last
            /\ trees[call.row.commit][a] = FileOf(call.row)
        BY <3>1 DEF Inv, RowHeld, Calls
      <3>4. mark \in 0 .. Last /\ Last \in Nat \ {0} /\ Oldest <= mark /\ Oldest \in Nat
        BY RecallAssumption DEF Inv, IndexOK, RepoOK, Commits, Oldest
      <3> SUFFICES \E c \in call.start .. Last :
                      c # 0 /\ trees[c][a] # None /\ trees[c][a].v = trees[k][a].v
        BY <3>1, <3>2, <3>3 DEF Files
      <3>5. CASE k \in {Last, mark} /\ k # 0
        BY <3>1, <3>3, <3>4, <3>5 DEF At
      <3>6. CASE k = call.row.commit
        <4>1. PICK c \in call.start .. Last : c # 0 /\ trees[c][a] = FileOf(call.row)
          BY <3>1 DEF Inv, RowHeld
        <4>2. trees[k][a] # None /\ trees[c][a] = trees[k][a]
          BY <4>1, <3>1, <3>3, <3>6 DEF At
        <4> QED
          BY <4>1, <4>2
      <3> QED
        BY <3>4, <3>5, <3>6 DEF ReadCommit
    <2>2. CASE ~ Recalls
      BY <2>2, OnlyRecallsGive DEF ReadNotOld, Nothing, Last, Files
    <2> QED
      BY <2>1, <2>2
  <1> QED
    BY <1>1, <1>2, Invariant, PTL DEF Spec

\* No binding of an asset is on after a step that a deletion or a cascade was not.
THEOREM BindingIsKept == Spec => BindingKept
  <1> DEFINE Keeps ==
         \A a \in Assets :
            (\E v \in Commits : binds[a][v] = "on") /\ (\A v \in Commits : binds'[a][v] # "on")
            => \/ rows'[a].status = "deleted" \/ Cascade(a)
               \/ \E v \in Commits : DeleteBinding(a, v)
  <1>1. Inv /\ [Next]_vars => [Keeps]_vars
    <2> SUFFICES ASSUME BindsOK, IndexOK, Next, NEW a \in Assets, NEW v \in Commits, binds[a][v] = "on",
                        \A w \in Commits : binds'[a][w] # "on", ~ Cascade(a),
                        \A w \in Commits : ~ DeleteBinding(a, w)
                 PROVE  rows'[a].status = "deleted"
      BY DEF Inv
    <2>1. binds'[a] # binds[a]
      OBVIOUS
    <2>2. ASSUME NEW b \in Assets, SyncRow(b) PROVE rows'[a].status = "deleted"
      <3>1. binds' # binds
        BY <2>1
      <3>2. /\ binds' = [binds EXCEPT ![b] = Disabled(b)]
            /\ rows'  = [rows EXCEPT ![b].status = "deleted"]
        BY <3>1, <2>2 DEF SyncRow
      <3>3. a = b
        BY <3>2, <2>1 DEF BindsOK
      <3> QED
        BY <3>2, <3>3 DEF IndexOK, Row
    <2>3. CASE AutoCommit
      BY <2>3 DEF AutoCommit, BindsOK
    <2>4. ASSUME NEW b \in Assets, Cascade(b) PROVE FALSE
      BY <2>1, <2>4 DEF Cascade, Binds, BindsOK
    <2>5. ASSUME NEW b \in Assets, NEW w \in Commits, DeleteBinding(b, w) PROVE FALSE
      BY <2>1, <2>5 DEF DeleteBinding, Binds, BindsOK
    <2>6. ASSUME NEW b \in Assets, NEW w \in Commits, Create(b, w) \/ Cleanup(b, w) PROVE FALSE
      BY <2>6 DEF Create, Cleanup, Binds, BindsOK
    <2>7. ASSUME NEW b \in Assets, NEW w \in Commits, WriteCopy(b, w) PROVE FALSE
      <3>1. binds' = [binds EXCEPT ![b] = Superseded(b, w)]
        BY <2>7 DEF WriteCopy, Binds
      <3>2. Superseded(b, w)[w] = "on"
        BY DEF Superseded
      <3> QED
        BY <2>1, <3>1, <3>2 DEF BindsOK
    <2>8. ASSUME UNCHANGED binds PROVE FALSE
      BY <2>1, <2>8
    <2> QED
      BY <2>2, <2>3, <2>4, <2>5, <2>6, <2>7, <2>8
      DEF Next, Recalls, Index, World, SyncBegin, SyncEnd, AutoRead, Push, Pull, Lose, Return, Rebuild,
          Expire, bound
  <1> QED
    BY <1>1, Invariant, PTL DEF Spec, BindingKept

===============================================================================
