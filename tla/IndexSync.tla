-------------------------------- MODULE IndexSync --------------------------------
(* infra_db/webhook_sync.py and reconciliation.py: the asset index follows the *)
(* team repository.  A webhook or a period of the reconciliation job asks for a *)
(* commit; the watermark says which commit the index was last brought to.  The *)
(* rows are written one by one, each in a transaction of its own, and the       *)
(* watermark in another when all have been tried.                               *)
EXTENDS Naturals, FiniteSets, Sequences

CONSTANTS Paths,      \* asset files
          First,      \* those in the first commit
          Nested,     \* those under modules/<m>/submodules/
          Aliased,    \* those whose frontmatter id is not their file name
          Handlers,   \* threads that handle webhooks
          Cron,       \* the thread of the reconciliation job
          Provider,   \* "compare": GitLab or Gitea; "libgit2": a local clone
          None,
          MaxCommits,  \* bounds of the model; the second
          MaxFaults    \* counts the commits of other branches too

Workers == Handlers \cup {Cron}  \* threads that run sync_commit

ASSUME IndexSyncAssumption ==
    /\ Cron \notin Handlers
    /\ Nested \subseteq Paths /\ First \subseteq Paths /\ Aliased \subseteq Paths
    /\ IsFiniteSet(Paths)
    /\ Provider \in {"compare", "libgit2"}
    /\ MaxCommits \in Nat \ {0} /\ MaxFaults \in Nat /\ None \notin 0 .. MaxCommits

VARIABLES trees,    \* trees[c][p] : the content of p at commit c, 0: no such file
          fork,     \* fork[c] : c, or the commit of the main branch that c branches off
          head,     \* the head of the main branch
          told,     \* commits whose webhook has been handled: ProcessedTracker
          content,  \* content[p] : content_snapshot of the asset of p, 0: no row
          live,     \* the assets with status active
          agree,    \* counts_consistent of module_stats: those of INDEX.md were found
          mark,     \* last_synced_commit: None without a row, 0 when empty
          lag,      \* lag_periods
          req,      \* req[w] : the synchronisation that thread w runs
          renamed,  \* paths whose removal came as the rename of a file
          missed,   \* a file was passed over, a commit was handled that does not
                    \* descend from the watermark, or two requests ran at once
          torn,     \* commits of which some files were taken over, and not the rest
          faults

repo  == <<trees, fork, head>>
index == <<content, live, agree, renamed>>
vars  == <<repo, told, index, mark, lag, req, missed, torn, faults>>

Commits == 1 .. MaxCommits
Last    == Len(trees)   \* the last commit, of any branch

Idle == [step |-> "idle", to |-> 0, full |-> FALSE, created |-> FALSE,
         todo |-> {}, taken |-> FALSE, count |-> FALSE, errors |-> FALSE]
Requests == [step : {"idle", "asked", "files"}, to : 0 .. MaxCommits,
             full : BOOLEAN, created : BOOLEAN, todo : SUBSET Paths,
             taken : BOOLEAN, count : BOOLEAN, errors : BOOLEAN]

Init == /\ trees   = <<[p \in Paths |-> IF p \in First THEN 1 ELSE 0]>>
        /\ fork    = <<1>>
        /\ head    = 1
        /\ told    = {}
        /\ content = [p \in Paths |-> 0]
        /\ live    = {}
        /\ agree   = TRUE
        /\ mark    = None
        /\ lag     = 0
        /\ req     = [w \in Workers |-> Idle]
        /\ renamed = {}
        /\ missed  = FALSE
        /\ torn    = {}
        /\ faults  = 0

Files(c)  == {p \in Paths : trees[c][p] # 0}
Top(S)    == S \ Nested
Faults    == faults < MaxFaults /\ faults' = faults + 1
Watermark == IF mark = None THEN 0 ELSE mark
--------------------------------------------------------------------------------
\* A commit to the main branch, or the one of a branch off its head.  Each keeps
\* the counts of the root INDEX.md right.
Commit(tree, onMain) ==
    /\ Last < MaxCommits
    /\ tree # trees[head]
    /\ IF onMain THEN UNCHANGED faults ELSE Faults
    /\ trees' = Append(trees, tree)
    /\ head'  = IF onMain THEN Last + 1 ELSE head
    /\ fork'  = Append(fork, head')
    /\ UNCHANGED <<told, index, mark, lag, req, missed, torn>>

\* A file is changed or added or, on the main branch, removed or reverted.
Push(p, onMain) ==
    \E c \in {Last + 1} \cup (IF onMain THEN {0} \cup {trees[i][p] : i \in 1 .. Last} ELSE {}) :
       Commit([trees[head] EXCEPT ![p] = c], onMain)

\* A file is renamed.  (One with an id of its own would keep its row.)
Rename(p, q) ==
    /\ p \in Files(head) \ Aliased /\ q \in (Paths \ Files(head)) \ Aliased
    /\ Commit([trees[head] EXCEPT ![p] = 0, ![q] = trees[head][p]], TRUE)

Asks(w, c) ==
    /\ req[w] = Idle
    /\ req' = [req EXCEPT ![w] = [Idle EXCEPT !.step = "asked", !.to = c]]

\* receive_git_webhook: a commit is handled once, whatever its branch (the ref of
\* the event is not looked at); webhooks may come in any order.
Webhook(w, c) ==
    /\ c \in 1 .. Last
    /\ c \notin told
    /\ Asks(w, c)
    /\ UNCHANGED <<repo, told, index, mark, lag, missed, torn, faults>>

\* Mutant: no more is tried after a period that failed.
CronBehind_GiveUp ==
    /\ mark # head /\ lag = 0
    /\ Asks(Cron, head)
    /\ mark' = Watermark
    /\ UNCHANGED <<repo, told, index, lag, missed, torn, faults>>

\* run_once, with the watermark not at the head.
CronBehind ==
    /\ mark # head
    /\ Asks(Cron, head)
    /\ mark' = Watermark
    /\ UNCHANGED <<repo, told, index, lag, missed, torn, faults>>

\* run_once, with nothing to do.
CronInStep ==
    /\ req[Cron] = Idle
    /\ mark = head
    /\ lag # 0
    /\ lag' = 0
    /\ UNCHANGED <<repo, told, index, mark, req, missed, torn, faults>>

\* The answer to a commit that is the watermark already.
Skip(w) ==
    /\ req[w].step = "asked"
    /\ mark = req[w].to
    /\ req'  = [req EXCEPT ![w] = Idle]
    /\ told' = IF w # Cron THEN told \cup {req[w].to} ELSE told
    /\ lag'  = IF w = Cron THEN 0 ELSE lag
    /\ UNCHANGED <<repo, index, mark, missed, torn, faults>>

\* The commit that two commits have in common.
MergeBase(b, c) == CASE b = c               -> b
                     [] fork[b] <= fork[c]  -> fork[b]
                     [] OTHER               -> fork[c]

\* git.diff(b, c) compares trees; a server's comparison is one with the common
\* ancestor.
From(b, c) == IF Provider = "compare" THEN MergeBase(b, c) ELSE b

\* Mutant: only the last commit is looked at.
Changed_LastOnly(b, c) == {p \in Paths : trees[IF c = 1 THEN 1 ELSE c - 1][p] # trees[c][p]}

\* The paths in which b and c differ.
Changed(b, c) == {p \in Paths : trees[From(b, c)][p] # trees[c][p]}

\* The removed ones among them that a server may tell as the rename of a file: such
\* an entry has the new path only, and is no removal of the old one.
\* A local clone looks for no renames.
Moved(b, c) ==
    {p \in Changed(b, c) :
       /\ Provider = "compare" /\ trees[c][p] = 0
       /\ \E q \in Changed(b, c) : /\ trees[From(b, c)][q] = 0
                                  /\ trees[c][q] = trees[From(b, c)][p]}

Counts(c) == Cardinality(Top(Files(c)))

\* ls_tree of a local clone gives names without their directory: nothing is found.
Scanned(c) == IF Provider = "libgit2" THEN {} ELSE Files(c)

\* sync_commit reads the watermark.  The files of the commit are scanned when there
\* is none, else the changes since; of these, those of nested modules are ignored.
Begin(w) ==
    LET c == req[w].to
        b == Watermark
    IN  /\ req[w].step = "asked"
        /\ mark # c
        /\ \E lost \in IF b = 0 THEN {{}} ELSE SUBSET Moved(b, c) :
             /\ req' = [req EXCEPT
                  ![w].step = "files",
                  ![w].full = (b = 0),
                  ![w].created = (mark = None),
                  ![w].todo = IF b = 0 THEN Scanned(c) ELSE Top(Changed(b, c)) \ lost,
                  ![w].count = IF b = 0 THEN TRUE
                               ELSE Changed(b, c) # {} /\ Counts(From(b, c)) # Counts(c)]
             /\ renamed' = renamed \cup lost
        /\ missed' = (\/ missed \/ (b # 0 /\ MergeBase(b, c) # b)
                      \/ \E v \in Workers : req[v].step = "files")
        /\ UNCHANGED <<repo, told, content, live, agree, mark, lag, torn, faults>>

\* The active assets after p has been taken over.  A removal looks for the id that
\* is the file name.
Remaining(w, p) == IF trees[req[w].to][p] # 0 THEN live \cup {p}
                   ELSE IF p \in Aliased THEN live ELSE live \ {p}

\* INDEX.md comes before the asset directories in a list of changes, and after
\* them in a full scan.
CountIsNext(w) == req[w].count /\ (req[w].full => req[w].todo = {})

\* _handle_asset_diff, _upsert_asset_from_content
Take(w, p) ==
    /\ p \in req[w].todo
    /\ ~CountIsNext(w)
    /\ live' = Remaining(w, p)
    /\ content' = IF trees[req[w].to][p] = 0 THEN content
                  ELSE [content EXCEPT ![p] = trees[req[w].to][p]]
    /\ renamed' = renamed \ {p}
    /\ req' = [req EXCEPT ![w].todo = @ \ {p}, ![w].taken = TRUE]
    /\ UNCHANGED <<repo, told, agree, mark, lag, missed, torn, faults>>

\* The file cannot be read: it is passed over without a word.
Unreadable(w, p) ==
    /\ p \in req[w].todo
    /\ ~CountIsNext(w)
    /\ Faults
    /\ req' = [req EXCEPT ![w].todo = @ \ {p}]
    /\ missed' = TRUE
    /\ UNCHANGED <<repo, told, index, mark, lag, torn>>

\* A file among the changes cannot be indexed: noted, and the others go on.
Error(w, p) ==
    /\ p \in req[w].todo
    /\ ~CountIsNext(w) /\ ~req[w].full
    /\ Faults
    /\ req' = [req EXCEPT ![w].todo = @ \ {p}, ![w].errors = TRUE]
    /\ missed' = TRUE
    /\ UNCHANGED <<repo, told, index, mark, lag, torn>>

\* check_and_persist: the declared count and the one of the index at this moment.
Count(w) ==
    /\ req[w].step = "files"
    /\ CountIsNext(w)
    /\ agree' = (Counts(req[w].to) = Cardinality(Top(live)))
    /\ req' = [req EXCEPT ![w].count = FALSE]
    /\ UNCHANGED <<repo, told, content, live, renamed, mark, lag, missed, torn, faults>>

\* Noted for as long as it is claimed that the index follows.
Noted(C) == IF missed THEN {} ELSE C

Torn(W) == {req[w].to : w \in {v \in W : req[v].taken}}

\* The exception ends the request: nothing of the state row is kept.
Ends(w) ==
    /\ req' = [req EXCEPT ![w] = Idle]
    /\ lag' = IF w = Cron /\ mark # None THEN lag + 1 ELSE lag
    /\ torn' = Noted(torn \cup Torn({w}))
    /\ UNCHANGED <<repo, told, index, mark, missed>>

\* The call of git fails, or a file in a full scan.
Fail(w) ==
    /\ \/ req[w].step = "asked" /\ mark # req[w].to
       \/ req[w].step = "files" /\ req[w].full /\ req[w].todo # {}
    /\ Faults
    /\ Ends(w)

\* Two requests have both found no row: the second insert fails.
Conflict(w) ==
    /\ req[w].step = "files" /\ req[w].todo = {} /\ ~req[w].count
    /\ req[w].created /\ mark # None
    /\ Ends(w)
    /\ UNCHANGED faults

\* sync_commit, the end: the watermark moves, whatever was noted.
Finish(w) ==
    /\ req[w].step = "files" /\ req[w].todo = {} /\ ~req[w].count
    /\ ~(req[w].created /\ mark # None)
    /\ mark' = req[w].to
    /\ told' = IF w # Cron THEN told \cup {req[w].to} ELSE told
    /\ lag'  = IF w = Cron /\ req[w].errors THEN 1 ELSE 0
    /\ req'  = [req EXCEPT ![w] = Idle]
    /\ torn' = Noted(torn \ {req[w].to})
    /\ UNCHANGED <<repo, index, missed, faults>>

\* The server restarts: requests end where they are, the webhooks handled are forgotten.
Restart ==
    /\ Faults
    /\ torn' = Noted(torn \cup Torn(Workers))
    /\ told' = {}
    /\ req'  = [w \in Workers |-> Idle]
    /\ UNCHANGED <<repo, index, mark, lag, missed>>
--------------------------------------------------------------------------------
Sync(w) == \/ Skip(w) \/ Begin(w) \/ Count(w) \/ Conflict(w) \/ Finish(w)
           \/ \E p \in Paths : Take(w, p)

Next == \/ \E p \in Paths : \/ \E onMain \in BOOLEAN : Push(p, onMain)
                          \/ \E q \in Paths : Rename(p, q)
        \/ \E w \in Handlers, c \in Commits : Webhook(w, c)
        \/ CronInStep \/ CronBehind \/ Restart
        \/ \E w \in Workers : \/ Sync(w) \/ Fail(w)
                              \/ \E p \in Paths : Unreadable(w, p) \/ Error(w, p)

\* A request runs to its end, and the job has a period after the other.
Fairness == WF_vars(CronBehind) /\ \A w \in Workers : WF_vars(Sync(w))

Spec == Init /\ [][Next]_vars /\ Fairness
--------------------------------------------------------------------------------
(* Properties *)

\* Types; what a request has to do lies within the commit it was asked for.
TypeOK == /\ trees \in Seq([Paths -> 0 .. MaxCommits]) /\ Last \in Commits
          /\ head \in 1 .. Last /\ fork \in [1 .. Last -> 1 .. Last]
          /\ told \subseteq 1 .. Last
          /\ content \in [Paths -> 0 .. MaxCommits] /\ live \subseteq Paths
          /\ agree \in BOOLEAN
          /\ mark \in 0 .. Last \cup {None}
          /\ lag \in 0 .. MaxFaults + 1
          /\ req \in [Workers -> Requests]
          /\ \A w \in Workers : /\ req[w].to <= Last
                               /\ req[w].full => req[w].todo \subseteq Files(req[w].to)
          /\ renamed \subseteq Paths
          /\ missed \in BOOLEAN /\ torn \subseteq 1 .. Last
          /\ faults \in 0 .. MaxFaults

AtRest == \A w \in Workers : req[w] = Idle

\* With the watermark at the head, the index is the repository: each file has its
\* active row with the content of the head, and a removed one has none, also after
\* requests that failed or were cut short, provided that what they had begun was
\* done again, that no file was passed over, no commit handled that does not descend
\* from the one before it and no two requests ran at once.
\* Files of nested modules are followed by the full scan only, and removals only
\* under the file name (webhook_sync.py:101); that of a file which a server tells as
\* a rename is not seen, until the path is written again.
AtHeadIndexed ==
    AtRest /\ mark = head /\ ~missed /\ torn = {} =>
        \A p \in Top(Paths) :
            /\ p \in Files(head) => p \in live /\ content[p] = trees[head][p]
            /\ p \notin Files(head) /\ p \notin Aliased \cup renamed => p \notin live

\* The watermark reaches the head, after failures and late webhooks too
\* (reconciliation.py:83).
ReachesHead == (mark # head) ~> (mark = head)

\* The counts of INDEX.md, which every commit keeps right, are found to agree with
\* those of the index (counts_check.py:5; webhook_sync.py:160 orders the full scan
\* so that they do).
StatsTrue == AtRest /\ mark = head /\ faults = 0 => agree
================================================================================
