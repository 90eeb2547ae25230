--------------------------- MODULE PersonalDistill ---------------------------
(***************************************************************************)
(* One member's personal distillation: the incremental collector and its   *)
(* watermark, the stages Light, REM and Deep, the daily token budget, the  *)
(* pending candidates that wait for the next day, and the requests of      *)
(* other clients that are charged to the same budget.  What a session says *)
(* is the set of topics it speaks of; what the language model answers is   *)
(* any of its outcomes.                                                    *)
(***************************************************************************)
EXTENDS Integers, Sequences, FiniteSets, SequencesExt

CONSTANTS
    Sessions,       \* session files of the coding tools
    Peers,          \* members with a conversation in the ConversationLog
    Topics,         \* candidate types with a keyword: the clusters of REM
    TopicsOf,       \* what a session or a conversation speaks of
    OneTime,        \* topics with a keyword of one-time context
    Vague,          \* topics described in less than 20 characters
    Refused,        \* topics for which the language model never answers well
    Threshold,      \* promotion_threshold, in hundredths of a per cent
    LowSignals, HighSignals,    \* SIGNAL_COUNT_LOW_THRESHOLD, ..._HIGH_...
    MaxSessions,    \* max_sessions of collect
    Daily,          \* default_daily_budget
    MaxTime,        \* bound on the file times
    MaxEvents       \* bound on the crashes, the watermark reads that fail, the
                    \* runs over the conversation log and the requests charged

ASSUME DataAssumption ==
    /\ Sessions \cap Peers = {}
    /\ TopicsOf \in [Sessions \cup Peers -> SUBSET Topics]
    /\ OneTime \subseteq Topics /\ Vague \subseteq Topics /\ Refused \subseteq Topics
    /\ MaxSessions \in Nat \ {0} /\ Daily \in Nat /\ MaxTime \in Nat

Sources == Sessions \cup Peers

VARIABLES
    now,        \* the file time of the last write
    mtime,      \* of each session file; 0 when there is none
    mark,       \* the watermark file
    taken,      \* history: the file times of the sessions handed out
    since,      \* history: the versions handed out since a watermark read failed
    unseen,     \* history: sessions whose version a listing missed or misplaced
    job,        \* what the member's distillation is doing
    pending,    \* the candidates in .dreams/pending, oldest first
    budget,     \* LLMBudget of the member, in memory
    owed,       \* what a charge under way is about to add
    left        \* what is left of the bound on events

distillVars == <<now, mtime, mark, taken, since, unseen, job, pending, budget, owed, left>>

files   == <<now, mtime, mark, taken, since, unseen>>

Nothing == [pc |-> "idle"]
Fresh   == [daily |-> Daily, used |-> 0, due |-> FALSE]

DistillInit ==
    /\ now = 0 /\ mark = 0
    /\ mtime   = [s \in Sessions |-> 0]
    /\ taken   = {} /\ since = {} /\ unseen = {}
    /\ job     = Nothing /\ pending = <<>>
    /\ budget  = Fresh /\ owed = 0
    /\ left    = MaxEvents

-----------------------------------------------------------------------------
(* The budget.                                                             *)

Remaining(b) == IF b.used < b.daily THEN b.daily - b.used ELSE 0
Exhausted(b) == Remaining(b) = 0

\* get_budget: the reset that a new day has made due.
Renewed(b) == IF b.due THEN [b EXCEPT !.used = 0, !.due = FALSE] ELSE b

\* adjust_budget_by_signal_count, rounded down as int() does.
Adjusted(daily, n) ==
    IF n >= HighSignals THEN (daily * 12) \div 10
    ELSE IF n < LowSignals THEN (daily * 8) \div 10
    ELSE daily

\* The reset time of the budget is reached.
NextDay ==
    /\ ~budget.due
    /\ budget' = [budget EXCEPT !.due = TRUE]
    /\ UNCHANGED <<files, job, pending, owed, left>>

\* _charge_budget after an answer of POST /v1/llm/chat: consume computes what
\* it may take and adds it in a second step, without a lock.
ChargeRead(tokens) ==
    /\ owed = 0 /\ left > 0
    /\ budget' = Renewed(budget)
    /\ owed'   = IF tokens < Remaining(budget') THEN tokens ELSE Remaining(budget')
    /\ left'   = left - 1
    /\ UNCHANGED <<files, job, pending>>

ChargeAdd ==
    /\ owed > 0
    /\ budget' = [budget EXCEPT !.used = @ + owed]
    /\ owed'   = 0
    /\ UNCHANGED <<files, job, pending, left>>

-----------------------------------------------------------------------------
(* Collection.                                                             *)

\* The sessions whose file time a listing has still to take again.
Waiting == {x.id : x \in job.todo}

\* A coding tool writes a session, at a new file time or within the last one.  A
\* listing that has passed the file, or read the directory before, misses it.
Write(s) ==
    /\ now' \in {now, now + 1} /\ now' \in 1 .. MaxTime
    /\ mtime[s] # now'
    /\ mtime'  = [mtime EXCEPT ![s] = now']
    /\ unseen' = IF job.pc = "list" /\ s \notin Waiting
                 THEN unseen \cup {s} ELSE unseen \ {s}
    /\ UNCHANGED <<mark, taken, since, job, pending, budget, owed, left>>

\* ... or removes it.
Unlink(s) ==
    /\ mtime[s] # 0
    /\ mtime'  = [mtime EXCEPT ![s] = 0]
    /\ unseen' = unseen \ {s}
    /\ UNCHANGED <<now, mark, taken, since, job, pending, budget, owed, left>>

\* collect starts: it reads the watermark, as 0 when the file cannot be read or
\* parsed, and list_trae_sessions reads the directory and the file times.
CollectStart(readable) ==
    /\ job = Nothing
    /\ readable \/ left > 0
    /\ since' = IF readable THEN since ELSE {}
    /\ left'  = IF readable THEN left ELSE left - 1
    /\ job'   = [pc     |-> "list",
                 before |-> IF readable THEN mark ELSE 0,
                 todo   |-> {[id |-> s, key |-> mtime[s]] : s \in {x \in Sessions : mtime[x] # 0}},
                 seen   |-> {}]
    /\ UNCHANGED <<now, mtime, mark, taken, unseen, pending, budget, owed>>

\* list_sessions takes the file time of one session again.
List(x) ==
    /\ job.pc = "list" /\ x \in job.todo
    /\ job' = [job EXCEPT !.todo = @ \ {x},
                          !.seen = IF mtime[x.id] = 0 THEN @ ELSE
                                   @ \cup {[id |-> x.id, key |-> x.key, at |-> mtime[x.id]]}]
    /\ UNCHANGED <<files, pending, budget, owed, left>>

\* ... or cannot, or the whole listing of its tool fails: it is skipped.
Skip(x) ==
    /\ job.pc = "list" /\ x \in job.todo
    /\ job'    = [job EXCEPT !.todo = @ \ {x}]
    /\ unseen' = IF mtime[x.id] = 0 THEN unseen ELSE unseen \cup {x.id}
    /\ UNCHANGED <<now, mtime, mark, taken, since, pending, budget, owed, left>>

\* Mutant: a session as old as the watermark is new as well.
Newer_NotOlder(seen, before) == {x \in seen : x.at >= before}

\* Sessions newer than the watermark.
Newer(seen, before) == {x \in seen : x.at > before}

\* What the list is sorted by: the file times it holds
\* (CompositeSessionProvider), or those the directory was sorted by before they
\* were taken again (TraeSessionProvider alone).
SortKey(x, composite) == IF composite THEN x.at ELSE x.key

\* Mutant: the newest are handed out first.
Batches_Newest(new, composite) ==
    {S \in SUBSET new :
        /\ Cardinality(S) = IF Cardinality(new) < MaxSessions
                            THEN Cardinality(new) ELSE MaxSessions
        /\ \A a \in S, b \in new \ S : SortKey(a, composite) >= SortKey(b, composite)}

\* The first max_sessions of the sorted list.
Batches(new, composite) ==
    {S \in SUBSET new :
        /\ Cardinality(S) = IF Cardinality(new) < MaxSessions
                            THEN Cardinality(new) ELSE MaxSessions
        /\ \A a \in S, b \in new \ S : SortKey(a, composite) <= SortKey(b, composite)}

Stamped(seen) == {<<x.id, x.at>> : x \in seen}

\* A file time changed between the two looks at it, and the list is not sorted
\* again.
OutOfOrder(composite) == ~composite /\ \E x \in job.seen : x.key # x.at

\* The end of collect: the watermark is on disk before the sessions are handed
\* out; it is the newest file time among them.
Collect(composite) ==
    /\ job.pc = "list" /\ job.todo = {}
    /\ \E S \in Batches(Newer(job.seen, job.before), composite) :
          /\ S # {}
          /\ mark'  \in {x.at : x \in S} /\ \A x \in S : x.at <= mark'
          /\ taken' = taken \cup {x.at : x \in S}
          /\ since' = since \cup Stamped(S)
          /\ job'   = [pc |-> "light", batch |-> {x.id : x \in S}]
    /\ unseen' = IF OutOfOrder(composite) THEN unseen \cup {x.id : x \in job.seen} ELSE unseen
    /\ UNCHANGED <<now, mtime, pending, budget, owed, left>>

\* Nothing is new.
CollectNone ==
    /\ job.pc = "list" /\ job.todo = {} /\ Newer(job.seen, job.before) = {}
    /\ job' = Nothing
    /\ UNCHANGED <<files, pending, budget, owed, left>>

\* The peers whose conversation is not active, paused or cut off just now.
Completed == (SUBSET Peers) \ {{}}

\* run_with_conversation_log: every conversation that is completed now, those
\* of earlier runs included.
Converse ==
    /\ job = Nothing /\ left > 0
    /\ \E S \in Completed : job' = [pc |-> "light", batch |-> S]
    /\ left' = left - 1
    /\ UNCHANGED <<files, pending, budget, owed>>

-----------------------------------------------------------------------------
(* The stages.                                                             *)

\* The sessions of the batch that can still be read.
Readable == {s \in job.batch : s \in Sessions => mtime[s] # 0}

\* Light: a signal per topic of a session.
Signals(S) == {y \in S \X Topics : y[2] \in TopicsOf[y[1]]}

\* No conversation could be read: run_with_conversation_log returns at once.
NothingSaid ==
    /\ job.pc = "light" /\ job.batch \subseteq Peers
    /\ job' = Nothing
    /\ UNCHANGED <<files, pending, budget, owed, left>>

\* Each session of the batch is read, which may fail and then skips it; the
\* number of signals moves the daily budget.
Light ==
    /\ job.pc = "light"
    /\ \E S \in SUBSET Readable :
          /\ job.batch \subseteq Peers => S # {}
          /\ budget' = [Renewed(budget) EXCEPT !.daily = Adjusted(@, Cardinality(Signals(S)))]
          /\ job'    = [pc |-> "rem", signals |-> Signals(S)]
    /\ UNCHANGED <<files, pending, owed, left>>

\* _cluster_signals and _induce_intent: one intent per topic that is not of
\* one-time use, with the sessions it was seen in.
Intents(signals) ==
    {[topic |-> t, from |-> {x[1] : x \in {y \in signals : y[2] = t}}] :
        t \in {x[2] : x \in signals} \ OneTime}

Rem ==
    /\ job.pc = "rem"
    /\ budget' = Renewed(budget)
    /\ job'    = [pc |-> "deep", todo |-> Intents(job.signals)]
    /\ UNCHANGED <<files, pending, owed, left>>

Capped(n) == IF n < 100 THEN n ELSE 100

\* _score_intent and FiveDimScore.total: frequency, cross-session, reusability
\* (always that of a reusable intent), clarity, and a type that always fits.
Score(i) ==
    LET n == Cardinality(i.from)
    IN  15 * Capped(40 + 30 * (n - 1)) + 25 * Capped(30 + 70 * (n - 1))
            + 25 * 80 + 20 * (IF i.topic \in Vague THEN 40 ELSE 80) + 15 * 100

\* _distill_with_llm: an asset, the model's own skip, or None.
Answers(i) == IF i.topic \in Refused THEN {"none"} ELSE {"asset", "skip", "none"}

Done(i) == [job EXCEPT !.todo = @ \ {i}]

\* DeepStage.run, one intent: below the threshold it is dropped, without
\* budget it becomes a candidate, and what the model does not answer is lost.
\* The budget is the object of get_budget: a new day does not reset it here.
Deep(i) ==
    /\ job.pc = "deep" /\ i \in job.todo
    /\ pending' = IF Score(i) >= Threshold /\ Exhausted(budget)
                  THEN Append(pending, i) ELSE pending
    /\ job' = Done(i)
    /\ UNCHANGED <<files, budget, owed, left>>

DeepEnds ==
    /\ job.pc = "deep" /\ job.todo = {}
    /\ job' = Nothing
    /\ UNCHANGED <<files, pending, budget, owed, left>>

-----------------------------------------------------------------------------
(* The pending candidates.                                                 *)

\* process_pending takes the list as it is; a candidate at a time is looked at.
ProcessPending ==
    /\ job = Nothing /\ pending # <<>>
    /\ budget' = Renewed(budget)
    /\ job'    = [pc |-> "process", list |-> pending]
    /\ UNCHANGED <<files, pending, owed, left>>

\* The end of the list, or of the budget.
ProcessEnds ==
    /\ job.pc = "process"
    /\ budget' = Renewed(budget)
    /\ job.list = <<>> \/ Exhausted(budget')
    /\ job' = Nothing
    /\ UNCHANGED <<files, pending, owed, left>>

\* Mutant: a failure ends the processing.
AfterTry_Break(answer) ==
    IF answer = "none" THEN Nothing ELSE [job EXCEPT !.pc = "delete"]

\* What becomes of a candidate that run_single was called for: one that is
\* answered, or does not reach the threshold, is deleted next; the others stay.
AfterTry(answer) ==
    IF answer = "none" THEN [job EXCEPT !.list = Tail(@)]
    ELSE [job EXCEPT !.pc = "delete"]

Try(answer) ==
    /\ job.pc = "process" /\ job.list # <<>>
    /\ budget' = Renewed(budget)
    /\ ~Exhausted(budget')
    /\ answer \in IF Score(Head(job.list)) < Threshold THEN {"skip"}
                  ELSE Answers(Head(job.list))
    /\ job' = AfterTry(answer)
    /\ UNCHANGED <<files, pending, owed, left>>

\* store.delete of a candidate that was processed.
DeleteCandidate ==
    /\ job.pc = "delete"
    /\ pending' = RemoveFirst(pending, Head(job.list))
    /\ job'     = [pc |-> "process", list |-> Tail(job.list)]
    /\ UNCHANGED <<files, budget, owed, left>>

\* The process ends: the run, its assets and the budget are gone.
DistillCrash ==
    /\ left > 0
    /\ left' = left - 1
    /\ job' = Nothing /\ budget' = Fresh /\ owed' = 0
    /\ UNCHANGED <<files, pending>>

-----------------------------------------------------------------------------
ListStep == \E x \in IF job.pc = "list" THEN job.todo ELSE {} : List(x) \/ Skip(x)
DeepStep == \E i \in IF job.pc = "deep" THEN job.todo ELSE {} : Deep(i)
TryAny   == \E answer \in {"asset", "skip", "none"} : Try(answer)

DistillNext ==
    \/ \E s \in Sessions : Write(s)
    \/ \E s \in Sessions : Unlink(s)
    \/ (\E readable \in BOOLEAN : CollectStart(readable))
    \/ ListStep
    \/ (\E composite \in BOOLEAN : Collect(composite))
    \/ CollectNone \/ Converse \/ NothingSaid \/ Light \/ Rem \/ DeepStep \/ DeepEnds
    \/ ProcessPending \/ ProcessEnds \/ TryAny \/ DeleteCandidate
    \/ NextDay \/ (\E k \in 1 .. 2 : ChargeRead(k)) \/ ChargeAdd
    \/ DistillCrash

DistillSpec == DistillInit /\ [][DistillNext]_distillVars

\* A run goes on until it ends; days pass; somebody processes the pending
\* candidates again and again; and a topic that the model can answer at all is
\* answered one day.
DistillFairness ==
    /\ WF_distillVars(ListStep)
    /\ WF_distillVars(CollectNone \/ \E composite \in BOOLEAN : Collect(composite))
    /\ WF_distillVars(Light) /\ WF_distillVars(Rem)
    /\ WF_distillVars(DeepStep) /\ WF_distillVars(DeepEnds)
    /\ WF_distillVars(ProcessEnds) /\ WF_distillVars(TryAny) /\ WF_distillVars(DeleteCandidate)
    /\ WF_distillVars(NextDay) /\ SF_distillVars(ProcessPending) /\ WF_distillVars(ChargeAdd)
    /\ \A t \in Topics \ Refused :
          SF_distillVars(/\ job.pc = "process" /\ job.list # <<>> /\ Head(job.list).topic = t
                         /\ \E answer \in {"asset", "skip"} : Try(answer))

DistillFairSpec == DistillSpec /\ DistillFairness

-----------------------------------------------------------------------------
Intent == [topic : Topics, from : SUBSET Sources]

\* Types of the files, the run and the budget.
DistillTypeOK ==
    /\ now \in 0 .. MaxTime /\ mark \in 0 .. now
    /\ mtime \in [Sessions -> 0 .. now]
    /\ taken \subseteq 1 .. now /\ since \subseteq Sessions \X (1 .. now)
    /\ unseen \subseteq Sessions
    /\ \/ job = Nothing
       \/ /\ job.pc = "list" /\ job.before \in 0 .. now
          /\ job.todo \subseteq [id : Sessions, key : 1 .. now]
          /\ job.seen \subseteq [id : Sessions, key : 1 .. now, at : 1 .. now]
       \/ job.pc = "light" /\ job.batch \subseteq Sources
       \/ job.pc = "rem" /\ job.signals \subseteq Sources \X Topics
       \/ job.pc = "deep" /\ job.todo \subseteq Intent
       \/ job.pc \in {"process", "delete"} /\ \A i \in 1 .. Len(job.list) : job.list[i] \in Intent
    /\ \A i \in 1 .. Len(pending) : pending[i] \in Intent
    /\ budget \in [daily : Nat, used : Nat, due : BOOLEAN]
    /\ owed \in Nat

\* No version of a session is handed out twice, whatever crashes, ties of the
\* file times, truncated batches and files that change under the listing there
\* are, as long as the watermark can be read: a read that fails starts over.
HandedOnce ==
    [][job.pc = "list" /\ job'.pc = "light" =>
           Stamped({x \in job.seen : x.id \in job'.batch}) \cap since = {}]_distillVars

\* The watermark passes a session only by handing out its version, or another
\* session of the same file time (incremental_collector.py:121-124: max_sessions
\* skips none in between), or when the listing did not show it as it was: a
\* tool's listing failed, or files changed while it ran.
NonePassed ==
    \A s \in Sessions :
        mtime[s] # 0 /\ mtime[s] <= mark =>
            mtime[s] \in taken \/ s \in unseen

\* A candidate that ran out of budget is processed one day, also behind one
\* that always fails, if the daily budget stays above zero: the promise of
\* budget.py:6 about the recovery on the next day.
PendingProcessed ==
    <>[](budget.daily > 0) =>
        \A t \in Topics \ Refused :
            (\E i \in 1 .. Len(pending) : pending[i].topic = t)
                ~> (\A i \in 1 .. Len(pending) : pending[i].topic # t)

=============================================================================
