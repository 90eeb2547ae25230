---------------------------- MODULE IndexSync_proofs ----------------------------
(* With the watermark at the head the index is the repository, for any files,  *)
(* commits, threads and faults.  Every row is always that of some commit: the  *)
(* one of the watermark, one that a request was cut short in, or the one that   *)
(* the request which runs is asked for.                                        *)
EXTENDS IndexSync, TLAPS

\* The row of p is what commit c makes of it; nothing is live at commit 0.  A removal
\* that came as a rename leaves the row.
Right(p, c) ==
    IF c # 0 /\ trees[c][p] # 0 THEN p \in live /\ content[p] = trees[c][p]
    ELSE p \notin Aliased \cup renamed => p \notin live

TreesOK ==
    /\ trees \in Seq([Paths -> 0 .. MaxCommits]) /\ Last \in Commits /\ head \in 1 .. Last
    /\ mark \in 0 .. Last \cup {None} /\ torn \subseteq 1 .. Last
    /\ missed \in BOOLEAN

IndexOK == content \in [Paths -> 0 .. MaxCommits] /\ live \subseteq Paths

\* A request is for a commit that is there, and takes files over in its last step.
ReqOK ==
    /\ req \in [Workers -> Requests]
    /\ \A w \in Workers :
          /\ req[w].step # "idle" => req[w].to \in 1 .. Last
          /\ req[w].step # "files" => ~ req[w].taken /\ req[w].todo = {} /\ ~ req[w].count

\* Requests do not overlap.
OneRuns ==
    \A v, w \in Workers : req[v].step = "files" /\ req[w].step = "files" => v = w

\* Every row is of the watermark or of a commit that was begun.
RowsBegun ==
    \A p \in Top(Paths) : \E c \in {Watermark} \cup torn \cup Torn(Workers) : Right(p, c)

\* What a request has done, or need not do, is of the commit it goes to, unless it
\* is of one that was cut short.
RowsDone ==
    \A w \in Workers : req[w].step = "files" =>
       \A p \in Top(Paths) \ req[w].todo : \E c \in {req[w].to} \cup torn : Right(p, c)

Follows == ~ missed => OneRuns /\ RowsBegun /\ RowsDone

Inv == TreesOK /\ IndexOK /\ ReqOK /\ Follows

--------------------------------------------------------------------------------
(* Rows.                                                                       *)

\* Commits are never rewritten: a row that no step writes stays what it was.
LEMMA RightStays ==
    ASSUME NEW p \in Paths, NEW c \in 0 .. Last, Right(p, c), TreesOK,
           content'[p] = content[p], p \in live' <=> p \in live, p \in renamed => p \in renamed',
           \A d \in 1 .. Last : trees'[d] = trees[d]
    PROVE  Right(p, c)'
  BY DEF Right, TreesOK, Commits

\* The commits that rows may be of are there.
LEMMA BegunThere ==
    ASSUME TreesOK, ReqOK
    PROVE  /\ Last \in Nat \ {0} /\ Watermark \in 0 .. Last
           /\ torn \subseteq 1 .. Last
           /\ \A W \in SUBSET Workers : Torn(W) \subseteq 1 .. Last
  <1>1. Last \in Nat \ {0}
    BY IndexSyncAssumption DEF TreesOK, Commits
  <1>2. Watermark \in 0 .. Last
    BY <1>1, IndexSyncAssumption DEF TreesOK, Watermark
  <1>3. ASSUME NEW w \in Workers, req[w].taken PROVE req[w].to \in 1 .. Last
    BY <1>3 DEF ReqOK
  <1> QED
    BY <1>1, <1>2, <1>3 DEF Torn, TreesOK

\* A step that writes no row and forgets no commit that was begun.
LEMMA SameRows ==
    ASSUME TreesOK, ReqOK, Follows,
           UNCHANGED <<content, live, renamed, missed>>, \A c \in 1 .. Last : trees'[c] = trees[c],
           missed \/ /\ torn \subseteq torn' /\ Watermark' = Watermark
                     /\ Torn(Workers) \subseteq torn' \cup Torn(Workers)',
           \A w \in Workers : req'[w].step = "files" =>
               /\ req[w].step = "files" /\ req'[w].to = req[w].to /\ req'[w].todo = req[w].todo
    PROVE  Follows'
  <1> SUFFICES ASSUME ~ missed PROVE OneRuns' /\ RowsBegun' /\ RowsDone'
    BY DEF Follows
  <1>1. \A p \in Paths : \A c \in 0 .. Last : Right(p, c) => Right(p, c)'
    BY RightStays
  <1>2. OneRuns'
    BY DEF Follows, OneRuns
  <1>3. RowsBegun'
    <2> SUFFICES ASSUME NEW p \in Top(Paths)
                 PROVE  \E c \in {Watermark'} \cup torn' \cup Torn(Workers)' : Right(p, c)'
      BY DEF RowsBegun, Top
    <2>1. PICK c \in {Watermark} \cup torn \cup Torn(Workers) : Right(p, c)
      BY DEF Follows, RowsBegun
    <2>2. c \in 0 .. Last /\ p \in Paths
      BY <2>1, BegunThere DEF Top
    <2> QED
      BY <1>1, <2>1, <2>2
  <1>4. RowsDone'
    <2> SUFFICES ASSUME NEW w \in Workers, req'[w].step = "files", NEW p \in Top(Paths) \ req'[w].todo
                 PROVE  \E c \in {req'[w].to} \cup torn' : Right(p, c)'
      BY DEF RowsDone, Top
    <2>1. PICK c \in {req[w].to} \cup torn : Right(p, c)
      BY DEF Follows, RowsDone
    <2>2. c \in 0 .. Last /\ p \in Paths
      BY <2>1, BegunThere DEF Top, ReqOK
    <2> QED
      BY <1>1, <2>1, <2>2
  <1> QED
    BY <1>2, <1>3, <1>4

--------------------------------------------------------------------------------
(* The invariant.                                                              *)

\* It holds at first: no row is live.
LEMMA InitInv == Init => Inv
  <1> SUFFICES ASSUME Init PROVE Inv
    OBVIOUS
  <1>1. Len(trees) = 1 /\ trees \in Seq([Paths -> 0 .. MaxCommits])
    <2>1. [p \in Paths |-> IF p \in First THEN 1 ELSE 0] \in [Paths -> 0 .. MaxCommits]
      BY IndexSyncAssumption
    <2> QED
      BY <2>1 DEF Init
  <1>2. TreesOK /\ IndexOK
    <2>1. Last = 1 /\ Last \in Commits
      BY <1>1, IndexSyncAssumption DEF Last, Commits
    <2>2. content \in [Paths -> 0 .. MaxCommits]
      BY IndexSyncAssumption DEF Init
    <2>3. head \in 1 .. Last
      BY <2>1 DEF Init
    <2> QED
      BY <1>1, <2>1, <2>2, <2>3 DEF Init, TreesOK, IndexOK
  <1>3. ReqOK
    <2>1. Idle \in Requests
      BY IndexSyncAssumption DEF Idle, Requests
    <2> QED
      BY <2>1 DEF Init, ReqOK, Idle
  <1>4. Watermark = 0 /\ \A p \in Paths : Right(p, 0)
    BY DEF Init, Watermark, Right
  <1>5. OneRuns /\ RowsBegun /\ RowsDone
    BY <1>4 DEF Init, OneRuns, RowsBegun, RowsDone, Idle, Top
  <1> QED
    BY <1>2, <1>3, <1>5 DEF Inv, Follows

\* A request that has taken nothing over changes.
LEMMA AskedInv ==
    ASSUME Inv, NEW w \in Workers, NEW x \in Requests, x.step # "files", ~ x.taken, x.todo = {}, ~ x.count,
           x.step # "idle" => x.to \in 1 .. Last,
           req[w].step # "files", req' = [req EXCEPT ![w] = x],
           mark' \in {mark, Watermark}, UNCHANGED <<trees, head, content, live, renamed, missed, torn>>
    PROVE  Inv'
  <1>1. Last' = Last /\ Last \in Nat \ {0} /\ Watermark \in 0 .. Last
    BY BegunThere DEF Inv, Last
  <1>2. TreesOK' /\ IndexOK' /\ Watermark' = Watermark
    BY <1>1, IndexSyncAssumption DEF Inv, TreesOK, IndexOK, Watermark, Commits
  <1>3. ReqOK'
    BY <1>1 DEF Inv, ReqOK
  <1>4. Torn(Workers) \subseteq Torn(Workers)'
    <2>1. ASSUME NEW v \in Workers, req[v].taken PROVE req'[v] = req[v]
      BY <2>1 DEF Inv, ReqOK
    <2> QED
      BY <2>1 DEF Torn
  <1>5. \A v \in Workers : req'[v].step = "files" => req'[v] = req[v]
    BY DEF Inv, ReqOK
  <1>6. Follows'
    BY <1>2, <1>4, <1>5, SameRows DEF Inv
  <1> QED
    BY <1>2, <1>3, <1>6 DEF Inv

\* A commit is added, of any branch.
LEMMA CommitInv ==
    ASSUME Inv, NEW tree \in [Paths -> 0 .. MaxCommits], NEW onMain \in BOOLEAN,
           Commit(tree, onMain)
    PROVE  Inv'
  <1>1. trees' = Append(trees, tree) /\ head' \in {head, Last + 1}
    BY DEF Commit
  <1>2. Last \in Nat \ {0} /\ Last < MaxCommits /\ MaxCommits \in Nat
    BY BegunThere, IndexSyncAssumption DEF Commit, Inv
  <1>6. /\ trees' \in Seq([Paths -> 0 .. MaxCommits]) /\ Last' = Last + 1
        /\ \A d \in 1 .. Last : trees'[d] = trees[d]
    BY <1>1, <1>2 DEF Inv, TreesOK, Last
  <1>7. UNCHANGED <<content, live, renamed, mark, req, missed, torn>> /\ Watermark' = Watermark
    BY DEF Commit, index, Watermark
  <1>8. TreesOK' /\ IndexOK' /\ ReqOK'
    BY <1>1, <1>2, <1>6, <1>7 DEF Inv, TreesOK, IndexOK, ReqOK, Commits
  <1>9. Follows'
    BY <1>6, <1>7, SameRows DEF Inv, Torn
  <1> QED
    BY <1>8, <1>9 DEF Inv

\* A push and a rename make a tree from the one of the head.
LEMMA PushInv ==
    ASSUME Inv, NEW p \in Paths, (\E onMain \in BOOLEAN : Push(p, onMain)) \/ (\E q \in Paths : Rename(p, q))
    PROVE  Inv'
  <1>1. Last \in Nat \ {0} /\ head \in 1 .. Last /\ MaxCommits \in Nat
    BY BegunThere, IndexSyncAssumption DEF Inv, TreesOK
  <1>2. \A i \in 1 .. Last : trees[i] \in [Paths -> 0 .. MaxCommits]
    BY DEF Inv, TreesOK, Last
  <1>3. ASSUME NEW onMain \in BOOLEAN, Push(p, onMain) PROVE Inv'
    <2>1. PICK c \in {Last + 1, 0} \cup {trees[i][p] : i \in 1 .. Last} :
             Commit([trees[head] EXCEPT ![p] = c], onMain)
      BY <1>3 DEF Push
    <2>2. Last < MaxCommits
      BY <2>1 DEF Commit
    <2>3. c \in 0 .. MaxCommits
      BY <1>1, <1>2, <2>1, <2>2
    <2>4. [trees[head] EXCEPT ![p] = c] \in [Paths -> 0 .. MaxCommits]
      BY <1>1, <1>2, <2>3
    <2> QED
      BY <2>1, <2>4, CommitInv
  <1>4. ASSUME NEW q \in Paths, Rename(p, q) PROVE Inv'
    <2>1. trees[head] \in [Paths -> 0 .. MaxCommits] /\ 0 \in 0 .. MaxCommits
      BY <1>1, <1>2
    <2>2. [trees[head] EXCEPT ![p] = 0, ![q] = trees[head][p]] \in [Paths -> 0 .. MaxCommits]
      BY <2>1
    <2> QED
      BY <1>4, <2>2, CommitInv DEF Rename
  <1> QED
    BY <1>3, <1>4

\* Counting takes nothing over.
LEMMA CountInv == ASSUME Inv, NEW w \in Workers, Count(w) PROVE Inv'
  <1>1. /\ req' = [req EXCEPT ![w].count = FALSE] /\ req[w].step = "files"
        /\ UNCHANGED <<trees, head, content, live, renamed, mark, missed, torn>>
    BY DEF Count, repo
  <1>2. TreesOK' /\ IndexOK' /\ Last' = Last /\ Watermark' = Watermark
    BY <1>1 DEF Inv, TreesOK, IndexOK, Last, Watermark
  <1>3. req \in [Workers -> Requests]
    BY DEF Inv, ReqOK
  <1>4. /\ req' \in [Workers -> Requests]
        /\ req'[w].step = req[w].step /\ req'[w].to = req[w].to
        /\ req'[w].todo = req[w].todo
        /\ req[w].taken => req'[w].taken
        /\ \A v \in Workers \ {w} : req'[v] = req[v]
    <2> DEFINE x == [req[w] EXCEPT !.count = FALSE]
    <2>1. req' = [req EXCEPT ![w] = x]
      BY <1>1
    <2>2. /\ x \in Requests /\ x.step = req[w].step /\ x.to = req[w].to /\ x.todo = req[w].todo
          /\ req[w].taken => x.taken
      BY <1>3 DEF Requests
    <2> HIDE DEF x
    <2> QED
      BY <1>3, <2>1, <2>2
  <1>5. ReqOK'
    BY <1>1, <1>2, <1>4 DEF Inv, ReqOK
  <1>6. Torn(Workers) \subseteq Torn(Workers)'
    <2> SUFFICES ASSUME NEW v \in Workers, req[v].taken PROVE req[v].to \in Torn(Workers)'
      BY DEF Torn
    <2>1. req'[v].taken /\ req'[v].to = req[v].to
      BY <1>4
    <2> QED
      BY <2>1 DEF Torn
  <1>7. Follows'
    BY <1>1, <1>2, <1>4, <1>6, SameRows DEF Inv
  <1> QED
    BY <1>2, <1>5, <1>7 DEF Inv

\* A request that ends before its end leaves its commit among those cut short.
LEMMA EndsInv == ASSUME Inv, NEW w \in Workers, Ends(w) PROVE Inv'
  <1>1. /\ req' = [req EXCEPT ![w] = Idle] /\ torn' = Noted(torn \cup Torn({w}))
        /\ UNCHANGED <<trees, head, content, live, renamed, mark, missed>>
    BY DEF Ends, repo, index
  <1>2. Last' = Last /\ Watermark' = Watermark /\ torn' \subseteq 1 .. Last
    BY <1>1, BegunThere DEF Inv, Last, Watermark, Noted
  <1>3. TreesOK' /\ IndexOK'
    BY <1>1, <1>2 DEF Inv, TreesOK, IndexOK
  <1>4. ReqOK'
    <2>1. Idle \in Requests
      BY IndexSyncAssumption DEF Idle, Requests
    <2> QED
      BY <1>1, <1>2, <2>1 DEF Inv, ReqOK, Idle
  <1>5. Torn(Workers) \subseteq Torn({w}) \cup Torn(Workers)'
    <2>1. \A v \in Workers \ {w} : req'[v] = req[v]
      BY <1>1 DEF Inv, ReqOK
    <2> QED
      BY <2>1 DEF Torn
  <1>6. \A v \in Workers : req'[v].step = "files" => req'[v] = req[v]
    BY <1>1 DEF Inv, ReqOK, Idle
  <1>7. Follows'
    BY <1>1, <1>2, <1>5, <1>6, SameRows DEF Inv, Noted
  <1> QED
    BY <1>3, <1>4, <1>7 DEF Inv

\* So does a restart, of every request.
LEMMA RestartInv == ASSUME Inv, Restart PROVE Inv'
  <1>1. /\ req' = [w \in Workers |-> Idle] /\ torn' = Noted(torn \cup Torn(Workers))
        /\ UNCHANGED <<trees, head, content, live, renamed, mark, missed>>
    BY DEF Restart, repo, index
  <1>2. Last' = Last /\ Watermark' = Watermark /\ torn' \subseteq 1 .. Last
    BY <1>1, BegunThere DEF Inv, Last, Watermark, Noted
  <1>3. TreesOK' /\ IndexOK'
    BY <1>1, <1>2 DEF Inv, TreesOK, IndexOK
  <1>4. ReqOK'
    <2>1. Idle \in Requests
      BY IndexSyncAssumption DEF Idle, Requests
    <2> QED
      BY <1>1, <2>1 DEF ReqOK, Idle
  <1>5. \A v \in Workers : req'[v].step # "files"
    BY <1>1 DEF Idle
  <1>6. Follows'
    BY <1>1, <1>2, <1>5, SameRows DEF Inv, Noted
  <1> QED
    BY <1>3, <1>4, <1>6 DEF Inv

\* A request begins, from the watermark: what it need not do is as it is to be.
LEMMA BeginInv ==
    ASSUME Inv, NEW w \in Workers, Begin(w), Provider = "compare"
    PROVE  Inv'
  <1> DEFINE c == req[w].to
             b == Watermark
  <1>0. PICK lost \in (IF b = 0 THEN {{}} ELSE SUBSET Moved(b, c)) :
              /\ req' = [req EXCEPT
                   ![w].step = "files",
                   ![w].full = (b = 0),
                   ![w].created = (mark = None),
                   ![w].todo = IF b = 0 THEN Scanned(c) ELSE Top(Changed(b, c)) \ lost,
                   ![w].count = IF b = 0 THEN TRUE
                                ELSE Changed(b, c) # {} /\ Counts(From(b, c)) # Counts(c)]
              /\ renamed' = renamed \cup lost
    BY DEF Begin
  <1> DEFINE T == IF b = 0 THEN Scanned(c) ELSE Top(Changed(b, c)) \ lost
  <1>1. /\ req[w].step = "asked" /\ mark # c
        /\ ~ missed' => /\ ~ missed /\ (b # 0 => MergeBase(b, c) = b)
                        /\ \A v \in Workers : req[v].step # "files"
        /\ missed' \in BOOLEAN
        /\ UNCHANGED <<trees, head, content, live, mark, torn>>
    BY DEF Begin, repo
  <1>2. PICK full \in BOOLEAN, created \in BOOLEAN, count \in BOOLEAN :
           req' = [req EXCEPT ![w].step = "files", ![w].full = full, ![w].created = created,
                              ![w].todo = T, ![w].count = count]
    <2> DEFINE full == b = 0
               created == mark = None
               count == IF b = 0 THEN TRUE
                        ELSE Changed(b, c) # {} /\ Counts(From(b, c)) # Counts(c)
    <2>1. full \in BOOLEAN /\ created \in BOOLEAN /\ count \in BOOLEAN
      OBVIOUS
    <2>2. req' = [req EXCEPT ![w].step = "files", ![w].full = full, ![w].created = created,
                             ![w].todo = T, ![w].count = count]
      BY <1>0
    <2> HIDE DEF full, created, count
    <2> QED
      BY <2>1, <2>2
  <1>3. req \in [Workers -> Requests] /\ c \in 1 .. Last /\ ~ req[w].taken
    BY <1>1 DEF Inv, ReqOK
  <1>4. T \subseteq Paths
    BY DEF Scanned, Top, Changed, Files
  <1> HIDE DEF T
  <1>5. /\ req' \in [Workers -> Requests]
        /\ req'[w].step = "files" /\ req'[w].to = c /\ req'[w].todo = T
        /\ ~ req'[w].taken
        /\ \A v \in Workers \ {w} : req'[v] = req[v]
    <2> DEFINE x == [req[w] EXCEPT !.step = "files", !.full = full, !.created = created,
                                   !.todo = T, !.count = count]
    <2>1. req' = [req EXCEPT ![w] = x]
      BY <1>2
    <2>2. x \in Requests /\ x.step = "files" /\ x.to = c /\ x.todo = T /\ ~ x.taken
      BY <1>3, <1>4 DEF Requests
    <2> HIDE DEF x
    <2>3. req \in [Workers -> Requests]
      BY <1>3
    <2>4. req' \in [Workers -> Requests] /\ \A v \in Workers \ {w} : req'[v] = req[v]
      BY <2>1, <2>2, <2>3
    <2>5. req'[w] = x
      BY <2>1, <2>3
    <2> HIDE DEF c
    <2> QED
      BY <2>2, <2>4, <2>5
  <1>6. Last' = Last /\ Watermark' = Watermark /\ Last \in Nat \ {0} /\ b \in 0 .. Last
    BY <1>1, BegunThere DEF Inv, Last, Watermark
  <1>7. TreesOK' /\ IndexOK'
    BY <1>1, <1>6 DEF Inv, TreesOK, IndexOK
  <1>8. ReqOK'
    BY <1>1, <1>3, <1>5, <1>6 DEF Inv, ReqOK
  <1>9. ASSUME ~ missed' PROVE OneRuns' /\ RowsBegun' /\ RowsDone'
    <2>1. ~ missed /\ (b # 0 => MergeBase(b, c) = b) /\ \A v \in Workers : req[v].step # "files"
      BY <1>1, <1>9
    <2>2. Torn(Workers) = {}
      BY <2>1 DEF Torn, Inv, ReqOK
    <2>3. \A p \in Paths : \A d \in 0 .. Last : Right(p, d) => Right(p, d)'
      BY <1>0, <1>1, RightStays DEF Inv
    <2>4. ASSUME NEW p \in Top(Paths)
          PROVE  \E d \in {b} \cup torn : Right(p, d) /\ Right(p, d)'
      <3>1. PICK d \in {b} \cup torn : Right(p, d)
        BY <2>1, <2>2 DEF Inv, Follows, RowsBegun
      <3>2. d \in 0 .. Last /\ p \in Paths
        BY <1>6, <3>1, BegunThere DEF Inv, Top
      <3> QED
        BY <2>3, <3>1, <3>2
    <2>5. RowsBegun'
      BY <1>1, <1>6, <2>4 DEF RowsBegun, Top
    <2>6. ASSUME NEW p \in Top(Paths) \ T, Right(p, b), NEW d \in 1 .. Last, d = c
          PROVE  Right(p, d)'
      <3>1. p \in Paths /\ p \notin Nested
        BY DEF Top
      <3>2. d \in 0 .. Last /\ d # 0
        BY <1>6
      <3>3. CASE b = 0
        <4>1. trees[d][p] = 0
          BY <2>6, <3>1, <3>3 DEF T, Scanned, Files
        <4>2. Right(p, d)
          BY <2>6, <3>3, <4>1 DEF Right
        <4> QED
          BY <2>3, <3>1, <3>2, <4>2
      <3>4. CASE b # 0 /\ p \in lost
        <4>1. p \in Moved(b, c)
          BY <1>0, <3>4
        <4>2. trees[d][p] = 0 /\ p \in renamed'
          BY <1>0, <2>6, <4>1, <3>4 DEF Moved
        <4>3. trees'[d][p] = 0
          BY <1>1, <4>2
        <4> QED
          BY <4>2, <4>3 DEF Right
      <3>5. CASE b # 0 /\ p \notin lost
        <4>1. trees[b][p] = trees[d][p]
          <5>1. p \notin Changed(b, c)
            BY <3>1, <3>5 DEF T, Top
          <5>2. Changed(b, c) = {q \in Paths : trees[b][q] # trees[c][q]}
            BY <2>1, <3>5 DEF Changed, From
          <5> QED
            BY <2>6, <3>1, <5>1, <5>2
        <4> HIDE DEF b
        <4>2. Right(p, d)
          BY <2>6, <3>2, <3>5, <4>1 DEF Right
        <4> QED
          BY <2>3, <3>1, <3>2, <4>2
      <3> QED
        BY <3>3, <3>4, <3>5
    <2>7. RowsDone'
      <3> SUFFICES ASSUME NEW v \in Workers, req'[v].step = "files", NEW p \in Top(Paths) \ req'[v].todo
                   PROVE  \E d \in {req'[v].to} \cup torn' : Right(p, d)'
        BY DEF RowsDone, Top
      <3>1. v = w
        BY <1>5, <2>1
      <3>2. PICK d \in {b} \cup torn : Right(p, d) /\ Right(p, d)'
        BY <2>4
      <3>3. CASE d = b
        <4>1. PICK e \in 1 .. Last : e = c
          BY <1>3
        <4>2. Right(p, e)'
          BY <1>5, <2>6, <3>1, <3>2, <3>3, <4>1
        <4> QED
          BY <1>5, <3>1, <4>1, <4>2
      <3> QED
        BY <1>1, <3>2, <3>3
    <2>8. OneRuns'
      BY <1>5, <2>1 DEF OneRuns
    <2> QED
      BY <2>5, <2>7, <2>8
  <1> QED
    BY <1>7, <1>8, <1>9 DEF Inv, Follows

\* A file that is taken over is as the commit has it.
LEMMA TakeInv == ASSUME Inv, NEW w \in Workers, NEW p \in Paths, Take(w, p) PROVE Inv'
  <1> PICK c \in {req[w].to} : TRUE
    OBVIOUS
  <1>1. /\ p \in req[w].todo
        /\ live' = Remaining(w, p)
        /\ content' = IF trees[c][p] = 0 THEN content ELSE [content EXCEPT ![p] = trees[c][p]]
        /\ req' = [req EXCEPT ![w].todo = @ \ {p}, ![w].taken = TRUE]
        /\ renamed' = renamed \ {p}
        /\ UNCHANGED <<trees, head, mark, missed, torn>>
    BY DEF Take, repo
  <1>2. req \in [Workers -> Requests] /\ req[w].step = "files" /\ c \in 1 .. Last
    BY <1>1 DEF Inv, ReqOK, Requests
  <1>3. /\ req' \in [Workers -> Requests]
        /\ req'[w].step = "files" /\ req'[w].to = c /\ req'[w].todo = req[w].todo \ {p}
        /\ req'[w].taken
        /\ \A v \in Workers \ {w} : req'[v] = req[v]
    <2> DEFINE x == [req[w] EXCEPT !.todo = @ \ {p}, !.taken = TRUE]
    <2>1. req' = [req EXCEPT ![w] = x]
      BY <1>1
    <2>2. x \in Requests /\ x.step = "files" /\ x.to = c /\ x.todo = req[w].todo \ {p} /\ x.taken
      BY <1>2 DEF Requests
    <2> HIDE DEF x
    <2> QED
      BY <1>2, <2>1, <2>2
  <1>4. Last' = Last /\ Watermark' = Watermark /\ Last \in Nat \ {0} /\ Watermark \in 0 .. Last
    BY <1>1, BegunThere DEF Inv, Last, Watermark
  <1>5. trees[c] \in [Paths -> 0 .. MaxCommits]
    BY <1>2 DEF Inv, TreesOK, Last
  <1>6. TreesOK' /\ IndexOK'
    BY <1>1, <1>4, <1>5 DEF Inv, TreesOK, IndexOK, Remaining
  <1>7. ReqOK'
    BY <1>2, <1>3, <1>4 DEF Inv, ReqOK
  <1>8. Right(p, c)'
    BY <1>1, <1>2, <1>5 DEF Right, Remaining, Inv, IndexOK
  <1>9. \A q \in Paths \ {p} : \A d \in 0 .. Last : Right(q, d) => Right(q, d)'
    <2>1. \A q \in Paths \ {p} : content'[q] = content[q] /\ (q \in live' <=> q \in live)
      BY <1>1 DEF Remaining, Inv, IndexOK
    <2> QED
      BY <1>1, <2>1, RightStays DEF Inv
  <1>10. ASSUME ~ missed' PROVE OneRuns' /\ RowsBegun' /\ RowsDone'
    <2>1. ~ missed /\ \A v \in Workers \ {w} : req'[v].step # "files"
      BY <1>1, <1>2, <1>3, <1>10 DEF Inv, Follows, OneRuns
    <2>2. c \in Torn(Workers)' /\ Torn(Workers) \subseteq Torn(Workers)'
      <3>1. c \in Torn(Workers)'
        BY <1>3 DEF Torn
      <3> SUFFICES ASSUME NEW v \in Workers, req[v].taken PROVE req[v].to \in Torn(Workers)'
        BY <3>1 DEF Torn
      <3>2. CASE v = w
        BY <3>1, <3>2
      <3>3. CASE v # w
        BY <1>3, <3>3 DEF Torn
      <3> QED
        BY <3>2, <3>3
    <2>3. RowsBegun'
      <3> SUFFICES ASSUME NEW q \in Top(Paths)
                   PROVE  \E d \in {Watermark'} \cup torn' \cup Torn(Workers)' : Right(q, d)'
        BY DEF RowsBegun, Top
      <3>1. CASE q = p
        BY <1>8, <2>2, <3>1
      <3>2. CASE q # p
        <4>1. PICK d \in {Watermark} \cup torn \cup Torn(Workers) : Right(q, d)
          BY <2>1 DEF Inv, Follows, RowsBegun
        <4>2. d \in 0 .. Last /\ q \in Paths \ {p}
          BY <1>4, <3>2, <4>1, BegunThere DEF Inv, Top
        <4> QED
          BY <1>1, <1>4, <1>9, <2>2, <4>1, <4>2
      <3> QED
        BY <3>1, <3>2
    <2>4. RowsDone'
      <3> SUFFICES ASSUME NEW q \in Top(Paths) \ req'[w].todo
                   PROVE  \E d \in {c} \cup torn' : Right(q, d)'
        BY <1>3, <2>1 DEF RowsDone, Top
      <3>1. CASE q = p
        BY <1>8, <3>1
      <3>2. CASE q # p
        <4>1. q \in Top(Paths) \ req[w].todo
          BY <1>3, <3>2
        <4>2. PICK d \in {c} \cup torn : Right(q, d)
          BY <1>2, <2>1, <4>1 DEF Inv, Follows, RowsDone
        <4>3. d \in 0 .. Last /\ q \in Paths \ {p}
          BY <1>2, <1>4, <3>2, <4>2, BegunThere DEF Inv, Top
        <4> QED
          BY <1>1, <1>9, <4>2, <4>3
      <3> QED
        BY <3>1, <3>2
    <2>5. OneRuns'
      BY <1>3, <2>1 DEF OneRuns
    <2> QED
      BY <2>3, <2>4, <2>5
  <1> QED
    BY <1>6, <1>7, <1>10 DEF Inv, Follows

\* A file that is passed over ends the claim.
LEMMA PassedOverInv ==
    ASSUME Inv, NEW w \in Workers, NEW p \in Paths, Unreadable(w, p) \/ Error(w, p)
    PROVE  Inv'
  <1>1. UNCHANGED <<trees, head, content, live, renamed, mark, torn>> /\ missed' = TRUE
        /\ p \in req[w].todo
    BY DEF Unreadable, Error, repo, index
  <1>2. req \in [Workers -> Requests] /\ req[w].step = "files"
    BY <1>1 DEF Inv, ReqOK, Requests
  <1>3. PICK x \in Requests : /\ req' = [req EXCEPT ![w] = x]
                              /\ x.step = "files" /\ x.to = req[w].to
    <2> DEFINE x == [req[w] EXCEPT !.todo = @ \ {p}]
               y == [req[w] EXCEPT !.todo = @ \ {p}, !.errors = TRUE]
    <2>1. req' = [req EXCEPT ![w] = x] \/ req' = [req EXCEPT ![w] = y]
      BY DEF Unreadable, Error
    <2>2. x \in Requests /\ x.step = "files" /\ x.to = req[w].to
      BY <1>2 DEF Requests
    <2>3. y \in Requests /\ y.step = "files" /\ y.to = req[w].to
      BY <1>2 DEF Requests
    <2> HIDE DEF x, y
    <2> QED
      BY <2>1, <2>2, <2>3
  <1>4. TreesOK' /\ IndexOK' /\ Last' = Last
    BY <1>1 DEF Inv, TreesOK, IndexOK, Last
  <1>5. ReqOK'
    BY <1>2, <1>3, <1>4 DEF Inv, ReqOK
  <1> QED
    BY <1>1, <1>4, <1>5 DEF Inv, Follows

\* At the end all is done, but for what was cut short in another commit.
LEMMA FinishInv == ASSUME Inv, NEW w \in Workers, Finish(w) PROVE Inv'
  <1> PICK c \in {req[w].to} : TRUE
    OBVIOUS
  <1>1. /\ req[w].step = "files" /\ req[w].todo = {} /\ mark' = c
        /\ req' = [req EXCEPT ![w] = Idle] /\ torn' = Noted(torn \ {c})
        /\ UNCHANGED <<trees, head, content, live, renamed, missed>>
    BY DEF Finish, repo, index
  <1>2. Last' = Last /\ Last \in Nat \ {0} /\ c \in 1 .. Last /\ torn' \subseteq 1 .. Last
    BY <1>1, BegunThere DEF Inv, ReqOK, Last, Noted
  <1>3. TreesOK' /\ IndexOK' /\ Watermark' = c
    <2>0. Last \in 1 .. MaxCommits /\ MaxCommits \in Nat /\ None \notin 0 .. MaxCommits
      BY IndexSyncAssumption DEF Inv, TreesOK, Commits
    <2>1. c # None
      BY <1>2, <2>0
    <2>2. mark' \in 0 .. Last' /\ torn' \subseteq 1 .. Last'
      <3>1. c \in 0 .. Last
        BY <1>2
      <3> QED
        BY <1>1, <1>2, <3>1
    <2>3. TreesOK' /\ IndexOK'
      BY <1>1, <1>2, <2>2 DEF Inv, TreesOK, IndexOK
    <2> QED
      BY <1>1, <2>1, <2>3 DEF Watermark
  <1>4. ReqOK'
    <2>1. Idle \in Requests
      BY IndexSyncAssumption DEF Idle, Requests
    <2> QED
      BY <1>1, <1>2, <2>1 DEF Inv, ReqOK, Idle
  <1>5. ASSUME ~ missed' PROVE OneRuns' /\ RowsBegun' /\ RowsDone'
    <2>1. ~ missed /\ torn' = torn \ {c} /\ \A v \in Workers : req'[v].step # "files"
      BY <1>1, <1>5 DEF Inv, Follows, OneRuns, ReqOK, Noted, Idle
    <2>2. RowsBegun'
      <3> SUFFICES ASSUME NEW p \in Top(Paths)
                   PROVE  \E d \in {c} \cup torn' : Right(p, d)'
        BY <1>3 DEF RowsBegun, Top
      <3>1. PICK d \in {c} \cup torn : Right(p, d)
        BY <1>1, <2>1 DEF Inv, Follows, RowsDone
      <3>2. d \in 0 .. Last /\ p \in Paths
        BY <1>2, <3>1, BegunThere DEF Inv, Top
      <3> QED
        BY <1>1, <2>1, <3>1, <3>2, RightStays DEF Inv
    <2> QED
      BY <2>1, <2>2 DEF OneRuns, RowsDone
  <1> QED
    BY <1>3, <1>4, <1>5 DEF Inv, Follows

\* Every step keeps the invariant.
LEMMA NextInv ==
    ASSUME Provider = "compare"
    PROVE  Inv /\ [Next]_vars => Inv'
  <1> SUFFICES ASSUME Inv, [Next]_vars PROVE Inv'
    OBVIOUS
  <1>1. ASSUME NEW w \in Workers, NEW c \in 1 .. Last, Asks(w, c), UNCHANGED <<trees, head, content, live, renamed, missed, torn>>,
               mark' \in {mark, Watermark}
        PROVE  Inv'
    <2> DEFINE x == [Idle EXCEPT !.step = "asked", !.to = c]
    <2>1. c \in 0 .. MaxCommits
      BY BegunThere, IndexSyncAssumption DEF Inv, TreesOK, Commits
    <2>2. x \in Requests /\ x.step = "asked" /\ x.to = c /\ ~ x.taken /\ x.todo = {} /\ ~ x.count
      BY <2>1 DEF Idle, Requests
    <2>3. req' = [req EXCEPT ![w] = x] /\ req[w].step = "idle"
      BY <1>1 DEF Asks, Idle
    <2> HIDE DEF x
    <2> QED
      BY <1>1, <2>2, <2>3, AskedInv
  <1>2. ASSUME NEW w \in Workers, Skip(w) PROVE Inv'
    <2>1. Idle \in Requests /\ Idle.step = "idle" /\ ~ Idle.taken /\ Idle.todo = {} /\ ~ Idle.count
      BY IndexSyncAssumption DEF Idle, Requests
    <2>2. req[w].step = "asked" /\ req' = [req EXCEPT ![w] = Idle]
          /\ UNCHANGED <<trees, head, content, live, renamed, mark, missed, torn>>
      BY <1>2 DEF Skip, repo, index
    <2> QED
      BY <2>1, <2>2, AskedInv
  <1>3. ASSUME NEW w \in Workers, Sync(w) PROVE Inv'
    <2>1. CASE Skip(w) \/ Count(w) \/ Finish(w)
      BY <1>2, <2>1, CountInv, FinishInv
    <2>2. CASE Begin(w)
      BY <2>2, BeginInv
    <2>3. CASE Conflict(w)
      BY <2>3, EndsInv DEF Conflict
    <2>4. ASSUME NEW p \in Paths, Take(w, p) PROVE Inv'
      BY <2>4, TakeInv
    <2> QED
      BY <1>3, <2>1, <2>2, <2>3, <2>4 DEF Sync
  <1>4. ASSUME NEW w \in Handlers, NEW c \in Commits, Webhook(w, c) PROVE Inv'
    BY <1>1, <1>4 DEF Webhook, repo, index, Workers
  <1>5. CASE CronBehind
    <2>1. head \in 1 .. Last /\ Cron \in Workers
      BY DEF Inv, TreesOK, Workers
    <2>2. /\ Asks(Cron, head) /\ mark' = Watermark
          /\ UNCHANGED <<trees, head, content, live, renamed, missed, torn>>
      BY <1>5 DEF CronBehind, repo, index
    <2> QED
      BY <1>1, <2>1, <2>2
  <1>6. CASE CronInStep \/ UNCHANGED vars
    <2>1. UNCHANGED <<trees, head, content, live, renamed, mark, req, missed, torn>>
      BY <1>6 DEF CronInStep, vars, repo, index
    <2> QED
      BY <2>1 DEF Inv, TreesOK, IndexOK, ReqOK, Follows, OneRuns, RowsBegun, RowsDone, Right,
         Watermark, Torn, Last
  <1>7. ASSUME NEW w \in Workers, Fail(w) PROVE Inv'
    BY <1>7, EndsInv DEF Fail
  <1> QED
    BY <1>3, <1>4, <1>5, <1>6, <1>7, PushInv, RestartInv, PassedOverInv DEF Next

\* With a provider that compares commits: at the head, every plain file has its
\* active row with the content of the head, and a removed one has none (unless its
\* removal came as a rename), after any failures and restarts whose commits were
\* done again, and any commits of other branches that were not handled.
THEOREM HeadIsIndexed ==
    ASSUME Provider = "compare"
    PROVE  Spec => []AtHeadIndexed
  <1>1. Inv => AtHeadIndexed
    <2> SUFFICES ASSUME Inv, AtRest, mark = head, ~ missed, torn = {}, NEW p \in Top(Paths)
                 PROVE  /\ p \in Files(head) => p \in live /\ content[p] = trees[head][p]
                        /\ p \notin Files(head) /\ p \notin Aliased \cup renamed => p \notin live
      BY DEF AtHeadIndexed
    <2>1. Torn(Workers) = {}
      BY DEF AtRest, Torn, Idle
    <2>2. Watermark = head /\ head # 0
      BY BegunThere, IndexSyncAssumption DEF Inv, TreesOK, Watermark, Commits
    <2>3. Right(p, head)
      BY <2>1, <2>2 DEF Inv, Follows, RowsBegun
    <2>4. p \in Paths
      BY DEF Top
    <2> QED
      BY <2>2, <2>3, <2>4 DEF Right, Files
  <1> QED
    BY <1>1, InitInv, NextInv, PTL DEF Spec

================================================================================
