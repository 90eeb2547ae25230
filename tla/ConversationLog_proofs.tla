------------------------- MODULE ConversationLog_proofs -------------------------
(* Theorems about ConversationLog. *)
EXTENDS ConversationLog, FiniteSetTheorems, TLAPS

Setting == [op : {"set"}, peer : Peers, entry : Entries \ {NoEntry}, seen : Entries]
Writing == [op : {"write"}, id : Ids]

\* A call that is about to write or to set carries what it needs for that.
LEMMA CallCases ==
    ASSUME NEW c \in Calls
    PROVE  /\ c.op = "write" => c \in Writing
           /\ c.op = "set" => c \in Setting
  BY DEF Calls, Idle, Setting, Writing

\* An entry made by a state and an event number is an entry of the state
\* file.
LEMMA EntryIsEntry ==
    ASSUME NEW s \in States, NEW n \in 1 .. MaxEvents
    PROVE  Entry(s, n) \in Entries \ {NoEntry}
  BY DEF Entry, Entries, NoEntry, States

\* An entry with a state names the event it was set by.
LEMMA KnownEntry ==
    ASSUME NEW e \in Entries, e.state \in States
    PROVE  e.last \in 1 .. MaxEvents
  BY DEF Entries, NoEntry, States

\* A call that has read and will set is a call.
LEMMA ToSetIsCall ==
    ASSUME TypeOK, NEW t \in Threads, NEW p \in Peers, NEW e \in Entries \ {NoEntry}
    PROVE  ToSet(t, p, e) \in Calls
  BY LogAssumption DEF ToSet, Calls, TypeOK

\* The log's variables keep their types.
THEOREM TypeCorrect == Spec => []TypeOK
<1>1. Init => TypeOK
  BY LogAssumption DEF Init, TypeOK, Calls, Entries
<1>2. TypeOK /\ [Next]_vars => TypeOK'
  <2> SUFFICES ASSUME TypeOK, [Next]_vars PROVE TypeOK'
    OBVIOUS
  <2> USE LogAssumption DEF TypeOK
  <2>0. Idle \in Calls /\ NoEntry \in Entries
    BY DEF Calls, Entries
  <2>1. ASSUME NEW t \in Threads, NEW e \in Ids, AppendCheck(t, e) PROVE TypeOK'
    <3>1. [op |-> "write", id |-> e] \in Calls
      BY DEF Calls
    <3> QED
      BY <2>1, <3>1 DEF AppendCheck
  <2>2. ASSUME NEW t \in Threads, AppendWrite(t) PROVE TypeOK'
    <3>1. call[t].id \in Ids
      BY <2>2, CallCases DEF AppendWrite, Writing
    <3> QED
      BY <2>0, <2>2, <3>1 DEF AppendWrite
  <2>3. ASSUME NEW t \in Threads, NEW p \in Peers, NEW s \in {"active", "paused"},
               Converse(t, p, s)
        PROVE  TypeOK'
    <3>1. events + 1 \in 1 .. MaxEvents
      BY <2>3 DEF Converse
    <3>2. ToSet(t, p, Entry(s, events + 1)) \in Calls
      BY <3>1, EntryIsEntry, ToSetIsCall DEF States
    <3> QED
      BY <2>3, <3>1, <3>2 DEF Converse
  <2>4. ASSUME NEW t \in Threads, NEW p \in Peers, ResumeRead(t, p) PROVE TypeOK'
    <3> DEFINE e == cache[ProcOf[t]][p]
    <3>1. e \in Entries /\ e.state \in States
      BY <2>4 DEF ResumeRead, Waiting, States
    <3>2. ToSet(t, p, Entry("resumed", e.last)) \in Calls
      BY <3>1, KnownEntry, EntryIsEntry, ToSetIsCall DEF States
    <3> QED
      BY <2>4, <3>2 DEF ResumeRead
  <2>5. ASSUME NEW t \in Threads, NEW p \in Peers, TimeoutRead(t, p) PROVE TypeOK'
    <3> DEFINE e == cache[ProcOf[t]][p]
    <3>1. e \in Entries /\ e.state \in States
      BY <2>5 DEF TimeoutRead, States
    <3>2. ToSet(t, p, Entry("timeout_disconnect", e.last)) \in Calls
      BY <3>1, KnownEntry, EntryIsEntry, ToSetIsCall DEF States
    <3> QED
      BY <2>5, <3>2 DEF TimeoutRead
  <2>6. ASSUME NEW t \in Threads, SetState(t) PROVE TypeOK'
    <3>1. call[t].peer \in Peers /\ call[t].entry \in Entries
      BY <2>6, CallCases DEF SetState, Setting
    <3> DEFINE q == ProcOf[t]
               c == [cache EXCEPT ![q][call[t].peer] = call[t].entry]
    <3>2. q \in Procs
      OBVIOUS
    <3>3. c \in [Procs -> [Peers -> Entries]]
      BY <3>1, <3>2
    <3>4. c[q] \in [Peers -> Entries]
      BY <3>2, <3>3
    <3>5. cache' \in [Procs -> [Peers -> Entries]] /\ file' \in [Peers -> Entries]
      <4>1. CASE cache[q][call[t].peer] = call[t].entry
        BY <2>6, <4>1 DEF SetState
      <4>2. CASE cache[q][call[t].peer] # call[t].entry
        BY <2>6, <3>3, <3>4, <4>2 DEF SetState
      <4> QED
        BY <4>1, <4>2
    <3>6. call' \in [Threads -> Calls]
      BY <2>0, <2>6 DEF SetState
    <3> QED
      BY <2>6, <3>5, <3>6 DEF SetState
  <2>7. ASSUME NEW t \in Threads, NEW p \in Peers, Clear(t, p) PROVE TypeOK'
    BY <2>0, <2>7 DEF Clear
  <2>8. ASSUME NEW q \in Procs, Restart(q) PROVE TypeOK'
    BY <2>0, <2>8 DEF Restart
  <2>9. CASE UNCHANGED vars
    BY <2>9 DEF vars
  <2> QED
    BY <2>1, <2>2, <2>3, <2>4, <2>5, <2>6, <2>7, <2>8, <2>9 DEF Next
<1> QED
  BY <1>1, <1>2, PTL DEF Spec
--------------------------------------------------------------------------------
(* Writers(e) are the threads past the existence check of e: a line each is   *)
(* still to come.                                                             *)

Writers(e) == {t \in Threads : call[t] = [op |-> "write", id |-> e]}

LinesPaid == \A e \in Ids : lines[e] + Cardinality(Writers(e)) <= Cardinality(Threads)

\* The threads about to write an id are finitely many.
LEMMA WritersFinite ==
    ASSUME NEW e
    PROVE  /\ IsFiniteSet(Writers(e))
           /\ Cardinality(Writers(e)) \in Nat
           /\ Cardinality(Writers(e)) <= Cardinality(Threads)
           /\ Cardinality(Threads) \in Nat
<1>1. Writers(e) \subseteq Threads
  BY DEF Writers
<1> QED
  BY <1>1, LogAssumption, FS_Subset, FS_CardinalityType

\* However many threads append without a lock, an event has at most one line
\* per thread (append's check then write; crashes lose checks, not lines).
THEOREM LinesBounded == Spec => []DuplicatesBounded
<1>1. Init => LinesPaid
  BY WritersFinite DEF Init, LinesPaid
<1>2. TypeOK /\ LinesPaid /\ [Next]_vars => LinesPaid'
  <2> SUFFICES ASSUME TypeOK, LinesPaid, [Next]_vars, NEW e \in Ids
               PROVE  lines'[e] + Cardinality(Writers(e)') <= Cardinality(Threads)
    BY DEF LinesPaid
  <2>0. /\ lines[e] \in Nat
        /\ lines[e] + Cardinality(Writers(e)) <= Cardinality(Threads)
    BY DEF TypeOK, LinesPaid
  <2>a. ASSUME lines' = lines, Writers(e)' \subseteq Writers(e)
        PROVE  lines'[e] + Cardinality(Writers(e)') <= Cardinality(Threads)
    <3>1. Cardinality(Writers(e)') \in Nat /\ Cardinality(Writers(e)') <= Cardinality(Writers(e))
      BY <2>a, WritersFinite, FS_Subset, FS_CardinalityType
    <3> QED
      BY <2>0, <2>a, <3>1, WritersFinite
  <2>1. ASSUME NEW t \in Threads, NEW d \in Ids, AppendCheck(t, d)
        PROVE  lines'[e] + Cardinality(Writers(e)') <= Cardinality(Threads)
    <3>1. CASE d = e
      <4>1. Writers(e)' \subseteq Threads
        BY DEF Writers
      <4>2. Cardinality(Writers(e)') \in Nat /\ Cardinality(Writers(e)') <= Cardinality(Threads)
        BY <4>1, LogAssumption, FS_Subset, FS_CardinalityType
      <4>3. lines'[e] = 0
        BY <2>1, <3>1 DEF AppendCheck
      <4> QED
        BY <4>2, <4>3, WritersFinite
    <3>2. CASE d # e
      BY <2>1, <2>a, <3>2 DEF AppendCheck, Writers, TypeOK
    <3> QED
      BY <3>1, <3>2
  <2>2. ASSUME NEW t \in Threads, AppendWrite(t)
        PROVE  lines'[e] + Cardinality(Writers(e)') <= Cardinality(Threads)
    <3>0. call[t] \in Writing
      BY <2>2, CallCases DEF AppendWrite, TypeOK
    <3>1. CASE call[t].id = e
      <4>1. t \in Writers(e)
        BY <3>0, <3>1 DEF Writers, Writing
      <4>2. Writers(e)' = Writers(e) \ {t}
        BY <2>2 DEF AppendWrite, Writers, Idle, TypeOK
      <4>3. Cardinality(Writers(e)') = Cardinality(Writers(e)) - 1
        BY <4>1, <4>2, WritersFinite, FS_RemoveElement
      <4>4. lines'[e] = lines[e] + 1
        BY <2>2, <3>1 DEF AppendWrite, TypeOK
      <4> QED
        BY <2>0, <4>3, <4>4, WritersFinite
    <3>2. CASE call[t].id # e
      <4>1. lines'[e] = lines[e]
        BY <2>2, <3>2 DEF AppendWrite, TypeOK
      <4>2. Writers(e)' = Writers(e)
        BY <2>2, <3>2 DEF AppendWrite, Writers, Idle, TypeOK
      <4> QED
        BY <2>0, <4>1, <4>2
    <3> QED
      BY <3>1, <3>2
  <2>3. ASSUME NEW t \in Threads, NEW p \in Peers, NEW s \in {"active", "paused"},
               Converse(t, p, s)
        PROVE  lines' = lines /\ Writers(e)' \subseteq Writers(e)
    BY <2>3 DEF Converse, Writers, ToSet, TypeOK
  <2>4. ASSUME NEW t \in Threads, NEW p \in Peers, ResumeRead(t, p)
        PROVE  lines' = lines /\ Writers(e)' \subseteq Writers(e)
    BY <2>4 DEF ResumeRead, Writers, ToSet, TypeOK
  <2>5. ASSUME NEW t \in Threads, NEW p \in Peers, TimeoutRead(t, p)
        PROVE  lines' = lines /\ Writers(e)' \subseteq Writers(e)
    BY <2>5 DEF TimeoutRead, Writers, ToSet, TypeOK
  <2>6. ASSUME NEW t \in Threads, SetState(t)
        PROVE  lines' = lines /\ Writers(e)' \subseteq Writers(e)
    BY <2>6 DEF SetState, Writers, Idle, TypeOK
  <2>7. ASSUME NEW t \in Threads, NEW p \in Peers, Clear(t, p)
        PROVE  lines' = lines /\ Writers(e)' \subseteq Writers(e)
    BY <2>7 DEF Clear, Writers
  <2>8. ASSUME NEW q \in Procs, Restart(q)
        PROVE  lines' = lines /\ Writers(e)' \subseteq Writers(e)
    BY <2>8 DEF Restart, Writers, Idle
  <2>9. CASE UNCHANGED vars
    BY <2>a, <2>9 DEF vars, Writers
  <2> QED
    BY <2>a, <2>1, <2>2, <2>3, <2>4, <2>5, <2>6, <2>7, <2>8, <2>9 DEF Next
<1>3. TypeOK /\ LinesPaid => DuplicatesBounded
  <2> SUFFICES ASSUME TypeOK, LinesPaid, NEW e \in Ids
               PROVE  lines[e] <= Cardinality(Threads)
    BY DEF DuplicatesBounded
  <2>1. lines[e] \in Nat /\ lines[e] + Cardinality(Writers(e)) <= Cardinality(Threads)
    BY DEF TypeOK, LinesPaid
  <2> QED
    BY <2>1, WritersFinite
<1> QED
  BY <1>1, <1>2, <1>3, TypeCorrect, PTL DEF Spec
--------------------------------------------------------------------------------
(* Conversations: what threads that overlap, and processes that save the whole  *)
(* of their cache, can do to an entry.                                         *)

\* What a set carries is not older than the entry its thread found.
SetIsNew ==
    \A t \in Threads : call[t].op = "set" =>
        /\ call[t].seen.last <= call[t].entry.last
        /\ call[t].entry.last <= events

\* Nothing remembered is newer than the newest event.
LastIsPast ==
    \A q \in Procs : \A p \in Peers : cache[q][p].last <= events

\* The file is the cache of one process, that of the one that saved last.
SavedByOne == \A q \in Procs : \E r \in Procs : file = cache[r]

\* The last event of an entry is a number.
LEMMA EntryLast ==
    ASSUME NEW e \in Entries
    PROVE  e.last \in Nat
  BY LogAssumption DEF Entries, NoEntry

\* A read takes the entry as its process has it.
LEMMA ToSetNew ==
    ASSUME TypeOK, SetIsNew, LastIsPast, NEW t \in Threads, NEW p \in Peers, NEW s, NEW n \in Nat,
           cache[ProcOf[t]][p].last <= n, n <= events', UNCHANGED cache, events <= events',
           events' \in Nat, call' = [call EXCEPT ![t] = ToSet(t, p, Entry(s, n))]
    PROVE  SetIsNew' /\ LastIsPast'
<1>1. \A u \in Threads : call'[u] = IF u = t THEN ToSet(t, p, Entry(s, n)) ELSE call[u]
  BY DEF TypeOK
<1>2. /\ ToSet(t, p, Entry(s, n)).entry.last = n
      /\ ToSet(t, p, Entry(s, n)).seen = cache[ProcOf[t]][p]
  BY DEF ToSet, Entry
<1>3. events \in Nat
  BY LogAssumption DEF TypeOK
<1>4. ASSUME NEW u \in Threads, call[u].op = "set"
      PROVE  call[u].seen.last <= call[u].entry.last /\ call[u].entry.last <= events'
  <2>1. call[u].entry.last \in Nat /\ call[u].entry.last <= events
    BY <1>4, CallCases, EntryLast DEF SetIsNew, Setting, TypeOK
  <2> QED
    BY <1>3, <1>4, <2>1 DEF SetIsNew
<1>5. SetIsNew'
  BY <1>1, <1>2, <1>4 DEF SetIsNew
<1>6. ASSUME NEW q \in Procs, NEW r \in Peers PROVE cache'[q][r].last <= events'
  <2>1. cache[q][r].last \in Nat /\ cache[q][r].last <= events
    BY EntryLast DEF LastIsPast, TypeOK
  <2> QED
    BY <1>3, <2>1
<1> QED
  BY <1>5, <1>6 DEF LastIsPast

\* Processes keep the caches they have, or take what is saved.
LEMMA CachesPast ==
    ASSUME TypeOK, LastIsPast, SavedByOne, NEW q \in Procs, NEW p \in Peers
    PROVE  file[p].last <= events
  BY DEF LastIsPast, SavedByOne

\* Every step keeps what a call carries, what is remembered and what is saved.
LEMMA LogInvStep ==
    ASSUME TypeOK, SetIsNew, LastIsPast, SavedByOne, [Next]_vars
    PROVE  SetIsNew' /\ LastIsPast' /\ SavedByOne'
<1>0. events \in Nat
  BY LogAssumption DEF TypeOK
<1>1. ASSUME UNCHANGED <<cache, file>> PROVE SavedByOne'
  BY <1>1 DEF SavedByOne
<1>2. ASSUME NEW t \in Threads, NEW c, c.op # "set", call' = [call EXCEPT ![t] = c], events' = events
      PROVE  SetIsNew'
  BY <1>2 DEF SetIsNew, TypeOK
<1>3. Idle.op # "set"
  BY DEF Idle
<1>4. ASSUME NEW t \in Threads, NEW e \in Ids, AppendCheck(t, e)
      PROVE  SetIsNew' /\ LastIsPast' /\ SavedByOne'
  <2> DEFINE c == [op |-> "write", id |-> e]
  <2>1. c.op # "set" /\ call' = [call EXCEPT ![t] = c] /\ UNCHANGED <<events, file, cache>>
    BY <1>4 DEF AppendCheck
  <2> HIDE DEF c
  <2> QED
    BY <1>1, <1>2, <2>1 DEF LastIsPast
<1>5. ASSUME NEW t \in Threads, AppendWrite(t)
      PROVE  SetIsNew' /\ LastIsPast' /\ SavedByOne'
  BY <1>1, <1>2, <1>3, <1>5 DEF AppendWrite, LastIsPast
<1>6. ASSUME NEW t \in Threads, NEW p \in Peers, NEW s \in {"active", "paused"}, Converse(t, p, s)
      PROVE  SetIsNew' /\ LastIsPast' /\ SavedByOne'
  <2> DEFINE n == events + 1
  <2>1. /\ n \in Nat /\ events' = n /\ UNCHANGED <<cache, file>>
        /\ call' = [call EXCEPT ![t] = ToSet(t, p, Entry(s, n))]
    BY <1>0, <1>6 DEF Converse
  <2>2. cache[ProcOf[t]][p].last \in Nat /\ cache[ProcOf[t]][p].last <= events
    BY LogAssumption, EntryLast DEF LastIsPast, TypeOK
  <2>3. cache[ProcOf[t]][p].last <= n /\ n <= events' /\ events <= events'
    BY <1>0, <2>1, <2>2
  <2> HIDE DEF n
  <2> QED
    BY <1>1, <2>1, <2>3, ToSetNew
<1>7. ASSUME NEW t \in Threads, NEW p \in Peers, ResumeRead(t, p) \/ TimeoutRead(t, p)
      PROVE  SetIsNew' /\ LastIsPast' /\ SavedByOne'
  <2> DEFINE n == cache[ProcOf[t]][p].last
  <2>1. PICK s : call' = [call EXCEPT ![t] = ToSet(t, p, Entry(s, n))]
    BY <1>7 DEF ResumeRead, TimeoutRead
  <2>2. UNCHANGED <<events, cache, file>>
    BY <1>7 DEF ResumeRead, TimeoutRead
  <2>3. n \in Nat /\ n <= events /\ cache[ProcOf[t]][p].last <= n
    BY LogAssumption, EntryLast DEF LastIsPast, TypeOK
  <2> HIDE DEF n
  <2>4. n <= events' /\ events <= events' /\ events' \in Nat /\ UNCHANGED cache
    BY <1>0, <2>2, <2>3
  <2>5. SetIsNew' /\ LastIsPast'
    BY <2>1, <2>3, <2>4, ToSetNew
  <2> QED
    BY <1>1, <2>2, <2>5
<1>8. ASSUME NEW t \in Threads, SetState(t)
      PROVE  SetIsNew' /\ LastIsPast' /\ SavedByOne'
  <2> DEFINE o == ProcOf[t]
             r == call[t].peer
             e == call[t].entry
  <2>0. call[t] \in Setting
    BY <1>8, CallCases DEF SetState, TypeOK
  <2>1. o \in Procs /\ r \in Peers /\ e \in Entries
    BY <2>0, LogAssumption DEF Setting
  <2>2. e.last <= events
    BY <1>8 DEF SetState, SetIsNew
  <2>3. /\ call' = [call EXCEPT ![t] = Idle] /\ events' = events
        /\ \/ UNCHANGED <<cache, file>>
           \/ cache' = [cache EXCEPT ![o][r] = e] /\ file' = cache'[o]
    BY <1>8 DEF SetState
  <2> HIDE DEF o, r, e
  <2>4. \A q \in Procs, p \in Peers : cache'[q][p] \in {cache[q][p], e}
    BY <2>1, <2>3 DEF TypeOK
  <2>5. LastIsPast'
    BY <2>2, <2>3, <2>4 DEF LastIsPast
  <2>6. SavedByOne'
    BY <1>1, <2>1, <2>3 DEF SavedByOne
  <2> QED
    BY <1>2, <1>3, <2>3, <2>5, <2>6
<1>9. ASSUME NEW t \in Threads, NEW p \in Peers, Clear(t, p)
      PROVE  SetIsNew' /\ LastIsPast' /\ SavedByOne'
  <2>1. ProcOf[t] \in Procs
    BY LogAssumption
  <2>2. UNCHANGED <<call, events>>
    BY <1>9 DEF Clear
  <2>3. \A q \in Procs, r \in Peers : cache'[q][r] \in {cache[q][r], NoEntry}
    BY <1>9, <2>1 DEF Clear, TypeOK
  <2>4. NoEntry.last <= events
    BY <1>0 DEF NoEntry
  <2>5. LastIsPast'
    BY <2>2, <2>3, <2>4 DEF LastIsPast
  <2>6. SavedByOne'
    BY <1>9, <2>1 DEF Clear, SavedByOne
  <2> QED
    BY <2>2, <2>5, <2>6 DEF SetIsNew
<1>10. ASSUME NEW o \in Procs, Restart(o)
       PROVE  SetIsNew' /\ LastIsPast' /\ SavedByOne'
  <2>1. /\ events' = events /\ file' = file
        /\ \A t \in Threads : call'[t] \in {Idle, call[t]}
        /\ \A q \in Procs : cache'[q] = IF q = o THEN file ELSE cache[q]
    BY <1>10 DEF Restart, TypeOK
  <2>2. SetIsNew'
    BY <1>3, <2>1 DEF SetIsNew
  <2>3. LastIsPast'
    BY <2>1, CachesPast DEF LastIsPast
  <2>4. SavedByOne'
    BY <2>1 DEF SavedByOne
  <2> QED
    BY <2>2, <2>3, <2>4
<1>11. CASE UNCHANGED vars
  BY <1>11 DEF vars, SetIsNew, LastIsPast, SavedByOne
<1> QED
  BY <1>4, <1>5, <1>6, <1>7, <1>8, <1>9, <1>10, <1>11 DEF Next

\* What NewestKept says of a step.
Kept ==
    \A q \in Procs, p \in Peers : SetBack(q, p) =>
        \/ \E t \in Threads : Overtaken(t, q, p)
        \/ \E r \in Procs \ {q} : cache'[q] = file /\ file = cache[r]

\* A set by a thread that nobody has overtaken is not older than what it replaces,
\* and what a restart loads is what some process has, be it another one.
LEMMA KeptStep ==
    ASSUME TypeOK, SetIsNew, SavedByOne, [Next]_vars
    PROVE  Kept
<1> SUFFICES ASSUME NEW q \in Procs, NEW p \in Peers, SetBack(q, p)
             PROVE  \/ \E t \in Threads : Overtaken(t, q, p)
                    \/ \E r \in Procs \ {q} : cache'[q] = file /\ file = cache[r]
  BY DEF Kept
<1>0. cache[q][p] \in Entries /\ cache[q][p].last \in Nat
  BY EntryLast DEF TypeOK
<1>1. cache'[q][p] # cache[q][p] /\ cache'[q][p] # NoEntry
  BY <1>0 DEF SetBack
<1>2. ASSUME NEW t \in Threads, SetState(t) PROVE Overtaken(t, q, p)
  <2>1. /\ ProcOf[t] = q /\ call[t].peer = p /\ call[t].op = "set"
        /\ cache'[q][p] = call[t].entry /\ call'[t] = Idle
    BY <1>1, <1>2, LogAssumption DEF SetState, TypeOK
  <2>2. /\ call[t].seen \in Entries /\ call[t].entry \in Entries
        /\ call[t].seen.last \in Nat /\ call[t].entry.last \in Nat
    BY <2>1, CallCases, EntryLast DEF Setting, TypeOK
  <2>3. call[t].seen.last <= call[t].entry.last
    BY <2>1 DEF SetIsNew
  <2>4. call[t].seen # cache[q][p]
    BY <1>0, <2>1, <2>2, <2>3 DEF SetBack
  <2> QED
    BY <2>1, <2>4 DEF Overtaken
<1>3. ASSUME NEW t \in Threads, NEW r \in Peers, Clear(t, r) PROVE FALSE
  BY <1>1, <1>3, LogAssumption DEF Clear, TypeOK
<1>4. ASSUME NEW o \in Procs, Restart(o)
      PROVE  \E r \in Procs \ {q} : cache'[q] = file /\ file = cache[r]
  <2>1. o = q /\ cache'[q] = file
    BY <1>1, <1>4 DEF Restart, TypeOK
  <2>2. PICK r \in Procs : file = cache[r]
    BY DEF SavedByOne
  <2> QED
    BY <1>1, <2>1, <2>2
<1>5. cache' # cache
  BY <1>1
<1> QED
  BY <1>2, <1>3, <1>4, <1>5
  DEF Next, vars, AppendCheck, AppendWrite, Converse, ResumeRead, TimeoutRead

\* With any number of threads and processes, a conversation is set back to an older
\* event only by a thread that another one has overtaken between its read and its
\* set, or by a restart over what another process has saved.
THEOREM NewestUnlessOvertaken == Spec => NewestKept
<1>1. Init => SetIsNew /\ LastIsPast /\ SavedByOne
  BY DEF Init, SetIsNew, LastIsPast, SavedByOne, Idle, NoEntry
<1>2. TypeOK /\ SetIsNew /\ LastIsPast /\ SavedByOne /\ [Next]_vars
        => SetIsNew' /\ LastIsPast' /\ SavedByOne'
  BY LogInvStep
<1>3. TypeOK /\ SetIsNew /\ SavedByOne /\ [Next]_vars => [Kept]_vars
  BY KeptStep
<1>4. NewestKept <=> [][Kept]_vars
  BY DEF NewestKept, Kept
<1> QED
  BY <1>1, <1>2, <1>3, <1>4, TypeCorrect, PTL DEF Spec
================================================================================
