------------------------ MODULE EmbeddingDistill_proofs ------------------------
(* EmbeddingIndex: the vectors that recall searches, for any assets, versions,  *)
(* batches and faults.  PersonalDistill: what holds of the collector and its    *)
(* watermark for any number of sessions, file times, batches and crashes.  The  *)
(* components share no state; the names of the distillation that both have      *)
(* carry the prefix Distill.                                                    *)
EXTENDS EmbeddingIndex, PersonalDistill, FiniteSetTheorems, SequenceTheorems, TLAPS

(* EmbeddingIndex *)
--------------------------------------------------------------------------------
(* Sequences.                                                                  *)

\* How many members of a set of places lie before a place of it.
Rank(I, i) == Cardinality({j \in I : j < i})

\* Ranks are numbers below the size of the set, and grow with the place.
LEMMA RankType ==
    ASSUME NEW n \in Nat, NEW I \in SUBSET (1 .. n)
    PROVE  /\ IsFiniteSet(I) /\ Cardinality(I) \in Nat
           /\ \A i \in I : Rank(I, i) \in 0 .. Cardinality(I) - 1
           /\ \A i, j \in I : i < j => Rank(I, i) < Rank(I, j)
  <1>1. IsFiniteSet(I) /\ Cardinality(I) \in Nat
    <2>1. IsFiniteSet(1 .. n)
      BY FS_Interval
    <2> QED
      BY <2>1, FS_Subset, FS_CardinalityType
  <1>2. ASSUME NEW i \in I
        PROVE  /\ IsFiniteSet({j \in I : j < i}) /\ Rank(I, i) \in Nat
               /\ Cardinality({j \in I : j < i} \cup {i}) = Rank(I, i) + 1
    <2>1. IsFiniteSet({j \in I : j < i}) /\ i \notin {j \in I : j < i}
      <3>1. {j \in I : j < i} \in SUBSET I /\ i \in Nat
        OBVIOUS
      <3> QED
        BY <1>1, <3>1, FS_Subset
    <2> QED
      BY <2>1, FS_CardinalityType, FS_AddElement DEF Rank
  <1>3. ASSUME NEW i \in I PROVE Rank(I, i) \in 0 .. Cardinality(I) - 1
    <2> DEFINE U == {j \in I : j < i} \cup {i}
    <2>1. U \in SUBSET I
      OBVIOUS
    <2>2. Rank(I, i) \in Nat /\ Cardinality(U) = Rank(I, i) + 1
      BY <1>2
    <2> HIDE DEF U
    <2>3. Cardinality(U) <= Cardinality(I)
      BY <1>1, <2>1, FS_Subset
    <2> QED
      BY <1>1, <2>2, <2>3
  <1>4. ASSUME NEW i \in I, NEW j \in I, i < j PROVE Rank(I, i) < Rank(I, j)
    <2>1. {k \in I : k < i} \cup {i} \in SUBSET {k \in I : k < j}
      <3>1. \A k \in I : k \in Nat
        OBVIOUS
      <3>2. ASSUME NEW k \in I, k < i PROVE k < j
        BY <1>4, <3>1, <3>2
      <3> QED
        BY <1>4, <3>2
    <2>2. IsFiniteSet({k \in I : k < j}) /\ Rank(I, j) \in Nat
      BY <1>2
    <2>3. Cardinality({k \in I : k < i} \cup {i}) <= Rank(I, j)
      BY <2>1, <2>2, FS_Subset DEF Rank
    <2>4. Cardinality({k \in I : k < i} \cup {i}) = Rank(I, i) + 1 /\ Rank(I, i) \in Nat
      BY <1>2
    <2> HIDE DEF Rank
    <2> QED
      BY <2>2, <2>3, <2>4
  <1> QED
    BY <1>1, <1>3, <1>4

\* The places of a set are numbered from 1 in their order, none left out, and the
\* first ones are numbered by themselves when the set begins with all of them.
LEMMA Places ==
    ASSUME NEW n \in Nat, NEW I \in SUBSET (1 .. n)
    PROVE  /\ Cardinality(I) \in Nat
           /\ \A k \in 1 .. Cardinality(I) : Place(I, k) \in I
           /\ \A i \in I : \E k \in 1 .. Cardinality(I) : Place(I, k) = i
           /\ \A k, l \in 1 .. Cardinality(I) : k < l => Place(I, k) < Place(I, l)
           /\ \A m \in Nat : 1 .. m \subseteq I =>
                 m <= Cardinality(I) /\ \A k \in 1 .. m : Place(I, k) = k
  <1> DEFINE c == Cardinality(I)
             f == [i \in I |-> Rank(I, i) + 1]
  <1>1. /\ IsFiniteSet(I) /\ c \in Nat
        /\ \A i \in I : Rank(I, i) \in 0 .. c - 1
        /\ \A i, j \in I : i < j => Rank(I, i) < Rank(I, j)
    BY RankType
  <1>2. \A i, j \in I : Rank(I, i) = Rank(I, j) => i = j
    <2> SUFFICES ASSUME NEW i \in I, NEW j \in I, Rank(I, i) = Rank(I, j), i # j PROVE FALSE
      OBVIOUS
    <2>1. i < j \/ j < i
      OBVIOUS
    <2> QED
      BY <1>1, <2>1
  <1>3. f \in Surjection(I, 1 .. c)
    <2>1. f \in [I -> 1 .. c]
      BY <1>1
    <2>2. IsInjective(f)
      BY <1>1, <1>2 DEF IsInjective
    <2>3. f \in Injection(I, 1 .. c)
      BY <2>1, <2>2 DEF Injection
    <2>4. IsFiniteSet(1 .. c) /\ Cardinality(1 .. c) = c
      BY <1>1, FS_Interval
    <2> QED
      BY <2>3, <2>4, FS_Injection
  <1>4. ASSUME NEW k \in 1 .. c PROVE Place(I, k) \in I /\ Rank(I, Place(I, k)) = k - 1
    <2>1. PICK i \in I : f[i] = k
      BY <1>3 DEF Surjection
    <2>2. Cardinality({j \in I : j < i}) = k - 1
      BY <1>1, <2>1 DEF Rank
    <2> QED
      BY <2>2 DEF Place, Rank
  <1>5. ASSUME NEW i \in I PROVE \E k \in 1 .. c : Place(I, k) = i
    <2>1. Rank(I, i) + 1 \in 1 .. c
      BY <1>1
    <2>2. Place(I, Rank(I, i) + 1) \in I /\ Rank(I, Place(I, Rank(I, i) + 1)) = Rank(I, i)
      BY <1>1, <1>4, <2>1
    <2> QED
      BY <1>2, <2>1, <2>2
  <1>6. ASSUME NEW k \in 1 .. c, NEW l \in 1 .. c, k < l PROVE Place(I, k) < Place(I, l)
    <2> DEFINE x == Place(I, k)
               y == Place(I, l)
    <2>1. x \in I /\ Rank(I, x) = k - 1 /\ y \in I /\ Rank(I, y) = l - 1
      BY <1>4
    <2>2. x \in Nat /\ y \in Nat
      <3>1. \A i \in I : i \in Nat
        OBVIOUS
      <3> HIDE DEF x, y
      <3> QED
        BY <2>1, <3>1
    <2> HIDE DEF x, y, f
    <2>3. ~ y < x /\ x # y
      <3>1. y < x => Rank(I, y) < Rank(I, x)
        BY <1>1, <2>1
      <3>2. k - 1 < l - 1
        BY <1>1, <1>6
      <3> QED
        BY <1>1, <2>1, <3>1, <3>2
    <2>4. x < y
      BY <2>2, <2>3
    <2> QED
      BY <2>4 DEF x, y
  <1>7. ASSUME NEW m \in Nat, 1 .. m \subseteq I
        PROVE  m <= c /\ \A k \in 1 .. m : Place(I, k) = k
    <2>1. ASSUME NEW k \in 1 .. m PROVE k \in I /\ Rank(I, k) = k - 1
      <3>1. {j \in I : j < k} = 1 .. k - 1
        <4>1. \A j \in I : j \in Nat /\ 1 <= j
          OBVIOUS
        <4>2. \A j \in 1 .. k - 1 : j \in 1 .. m /\ j \in I /\ j < k
          BY <1>7
        <4>3. \A j \in I : j < k => j \in 1 .. k - 1
          BY <4>1
        <4> QED
          BY <4>2, <4>3
      <3>2. k \in I /\ k \in Int /\ 1 \in Int /\ k - 1 \in Int
        BY <1>7
      <3>3. Cardinality(1 .. k - 1) = k - 1
        <4>1. Cardinality(1 .. k - 1) = IF 1 > k - 1 THEN 0 ELSE k - 1 - 1 + 1
          BY <3>2, FS_Interval
        <4> QED
          BY <4>1
      <3> QED
        BY <3>1, <3>2, <3>3 DEF Rank
    <2>2. m <= c
      <3>1. CASE m = 0
        BY <1>1, <3>1
      <3>2. CASE m # 0
        <4>1. m \in 1 .. m
          BY <3>2
        <4>2. m \in I /\ Rank(I, m) = m - 1
          BY <2>1, <4>1
        <4>3. m - 1 \in 0 .. c - 1
          BY <1>1, <4>2
        <4> HIDE DEF c
        <4> QED
          BY <1>1, <4>3
      <3> QED
        BY <3>1, <3>2
    <2>3. ASSUME NEW k \in 1 .. m PROVE Place(I, k) = k
      <3>1. k \in 1 .. c
        BY <1>1, <2>2
      <3>2. Place(I, k) \in I /\ Rank(I, Place(I, k)) = k - 1
        BY <1>4, <3>1
      <3>3. k \in I /\ Rank(I, k) = k - 1
        BY <2>1
      <3> QED
        BY <1>2, <3>2, <3>3
    <2> QED
      BY <2>2, <2>3
  <1> QED
    BY <1>1, <1>4, <1>5, <1>6, <1>7

\* Kept gives a sequence of elements of the one it is taken from.
LEMMA KeptType ==
    ASSUME NEW S, NEW s \in Seq(S), NEW I \in SUBSET (1 .. Len(s))
    PROVE  /\ Kept(s, I) \in Seq(S)
           /\ Len(Kept(s, I)) = Cardinality(I)
           /\ \A k \in 1 .. Cardinality(I) : Kept(s, I)[k] = s[Place(I, k)]
  <1>1. Len(s) \in Nat
    OBVIOUS
  <1>4. Cardinality(I) \in Nat
    BY <1>1, Places
  <1>2. \A k \in 1 .. Cardinality(I) : Place(I, k) \in 1 .. Len(s)
    BY <1>1, Places
  <1>3. \A k \in 1 .. Cardinality(I) : s[Place(I, k)] \in S
    BY <1>2
  <1> QED
    BY <1>4, <1>3 DEF Kept

--------------------------------------------------------------------------------
(* Types.                                                                      *)

\* The tasks for a set of assets: each is for one of them and for a version given.
LEMMA AllTasks ==
    ASSUME NEW S \in SUBSET Assets, NEW act \in Versions, NEW sha \in Versions \cup {None}
    PROVE  LET q == AllTasksFor(S, act, sha)
           IN  /\ q \in Seq(Tasks)
               /\ \A i \in 1 .. Len(q) :
                     /\ q[i].kind = "upsert" /\ q[i].asset \in S
                     /\ q[i].ver \in {act, sha} \ {None}
  <1> DEFINE s == SetToSeq(S)
             n == Cardinality(S)
             q == AllTasksFor(S, act, sha)
  <1>1. IsFiniteSet(S) /\ n \in Nat /\ ExistsBijection(1 .. n, S)
    BY EmbeddingAssumption, FS_Subset, FS_CardinalityType
  <1>2. s \in [1 .. n -> S] /\ IsInjective(s)
    <2>1. PICK f : f \in [1 .. n -> S] /\ IsInjective(f)
      BY <1>1 DEF ExistsBijection, Bijection, Injection
    <2> QED
      BY <2>1 DEF SetToSeq
  <1>4. Len(s) = n
    BY <1>1, <1>2
  <1> HIDE DEF s, n
  <1>5. \A a \in S, v \in Versions :
           /\ Task("upsert", a, v) \in Tasks /\ Task("upsert", a, v).kind = "upsert"
           /\ Task("upsert", a, v).asset = a /\ Task("upsert", a, v).ver = v
    BY EmbeddingAssumption DEF Task, Tasks
  <1>6. CASE sha = None
    <2>1. q = [i \in 1 .. n |-> Task("upsert", s[i], act)]
      BY <1>4, <1>6 DEF AllTasksFor, s
    <2>2. \A i \in 1 .. n : q[i] = Task("upsert", s[i], act) /\ s[i] \in S
      BY <1>2, <2>1
    <2>3. q \in Seq(Tasks) /\ Len(q) = n
      BY <1>1, <1>5, <2>1, <2>2
    <2> HIDE DEF q
    <2>4. \A i \in 1 .. n : /\ q[i].kind = "upsert" /\ q[i].asset = s[i] /\ q[i].ver = act
      BY <1>5, <2>2
    <2> QED
      BY <2>2, <2>3, <2>4, EmbeddingAssumption DEF q
  <1>7. CASE sha # None
    <2> DEFINE g(i) == IF i % 2 = 1 THEN Task("upsert", s[(i + 1) \div 2], act)
                                    ELSE Task("upsert", s[i \div 2], sha)
    <2>1. q = [i \in 1 .. 2 * n |-> g(i)]
      BY <1>4, <1>7 DEF AllTasksFor, s
    <2>2. \A i \in 1 .. 2 * n : \E j \in 1 .. n, v \in {act, sha} : g(i) = Task("upsert", s[j], v)
      <3> SUFFICES ASSUME NEW i \in 1 .. 2 * n
                   PROVE  \E j \in 1 .. n, v \in {act, sha} : g(i) = Task("upsert", s[j], v)
        OBVIOUS
      <3>1. CASE i % 2 = 1
        <4>1. (i + 1) \div 2 \in 1 .. n
          BY <1>1, <3>1
        <4> QED
          BY <3>1, <4>1
      <3>2. CASE i % 2 # 1
        <4>1. i \div 2 \in 1 .. n
          BY <1>1, <3>2
        <4> QED
          BY <3>2, <4>1
      <3> QED
        BY <3>1, <3>2
    <2> HIDE DEF g
    <2>4. \A i \in 1 .. 2 * n : /\ g(i) \in Tasks /\ g(i).kind = "upsert" /\ g(i).asset \in S
                               /\ g(i).ver \in {act, sha}
      BY <1>2, <1>5, <1>7, <2>2
    <2>5. q \in Seq(Tasks) /\ Len(q) = 2 * n /\ \A i \in 1 .. 2 * n : q[i] = g(i)
      BY <1>1, <2>1, <2>4
    <2> HIDE DEF q
    <2> QED
      BY <1>7, <2>4, <2>5, EmbeddingAssumption DEF q
  <1> QED
    BY <1>6, <1>7

\* The tasks for the versions V.
TasksOf(V) == {t \in Tasks : t.ver \in V}

\* What a commit leaves in the queue are tasks, of the versions that were there.
LEMMA QueueLeftType ==
    ASSUME NEW V, queue \in Seq(TasksOf(V)), batch.size \in 0 .. Len(queue)
    PROVE  QueueLeft \in Seq(TasksOf(V))
  <1> DEFINE T == [kind : {"upsert", "delete"}, asset : Assets, ver : Versions, tries : Nat]
             s == [i \in 1 .. batch.size |-> [queue[i] EXCEPT !.tries = Tries(i)]]
             q == Kept(s, Again)
  <1>1. \A i \in 1 .. batch.size : /\ queue[i] \in TasksOf(V) /\ s[i] \in T
                                   /\ s[i].ver \in V /\ s[i].tries = Tries(i)
    <2> SUFFICES ASSUME NEW i \in 1 .. batch.size
                 PROVE  /\ queue[i] \in TasksOf(V) /\ s[i] \in T
                        /\ s[i].ver \in V /\ s[i].tries = Tries(i)
      OBVIOUS
    <2>1. queue[i] \in TasksOf(V)
      OBVIOUS
    <2>2. queue[i] \in T /\ queue[i].ver \in V
      BY <2>1, EmbeddingAssumption DEF TasksOf, Tasks
    <2>3. s[i] = [queue[i] EXCEPT !.tries = Tries(i)] /\ Tries(i) \in Nat
      BY <2>2 DEF Tries
    <2> HIDE DEF s
    <2> QED
      BY <2>1, <2>2, <2>3
  <1>2. s \in Seq(T) /\ Len(s) = batch.size /\ Again \in SUBSET (1 .. Len(s))
    <2>1. Len(queue) \in Nat
      OBVIOUS
    <2>2. batch.size \in Nat
      BY <2>1
    <2> HIDE DEF T
    <2>3. s \in [1 .. batch.size -> T]
      <3>1. \A i \in 1 .. batch.size : [queue[i] EXCEPT !.tries = Tries(i)] \in T
        BY <1>1
      <3> QED
        BY <3>1
    <2> HIDE DEF s
    <2>4. s \in Seq(T) /\ Len(s) = batch.size
      BY <2>2, <2>3
    <2> QED
      BY <2>4 DEF Again
  <1>3. \A i \in Again : s[i] \in TasksOf(V)
    <2> SUFFICES ASSUME NEW i \in Again PROVE s[i] \in TasksOf(V)
      OBVIOUS
    <2>1. i \in 1 .. batch.size /\ Tries(i) < MaxRetries
      BY DEF Again
    <2>2. s[i] \in T /\ s[i].ver \in V /\ s[i].tries < MaxRetries
      BY <1>1, <2>1
    <2> HIDE DEF s
    <2>3. s[i].tries \in 0 .. MaxRetries - 1
      BY <2>2, EmbeddingAssumption
    <2> QED
      BY <2>2, <2>3 DEF Tasks, TasksOf
  <1> HIDE DEF s, T
  <1>4. /\ q \in Seq(T) /\ Len(q) = Cardinality(Again)
        /\ \A k \in 1 .. Cardinality(Again) : q[k] = s[Place(Again, k)]
    BY <1>2, KeptType
  <1>5. \A k \in 1 .. Cardinality(Again) : Place(Again, k) \in Again
    <2>1. Len(s) \in Nat
      BY <1>2
    <2> QED
      BY <1>2, <2>1, Places
  <1>6. q \in Seq(TasksOf(V))
    <2> HIDE DEF q
    <2> QED
      BY <1>3, <1>4, <1>5
  <1>7. SubSeq(queue, batch.size + 1, Len(queue)) \in Seq(TasksOf(V))
    OBVIOUS
  <1> HIDE DEF q
  <1> QED
    BY <1>6, <1>7 DEF QueueLeft, q, s

\* A version that was not tried has no vectors, and no row has its embedding.
Untried == \A v \in Versions \ tried : \A a \in Assets : vec[v][a] = 0 /\ row[a].emb # v

\* The versions in use, those that tasks are for and those that were scanned were
\* tried; the operator's place says which there are.
Roles ==
    /\ active \in tried /\ shadow \in tried \cup {None}
    /\ queue \in Seq(TasksOf(tried))
    /\ scan # NoScan => scan.active \in tried /\ scan.shadow \in tried \cup {None}
    /\ (phase \in {"shadow", "counting", "counted", "ready"}) <=> (shadow # None)
    /\ phase \in {"switching", "switched", "dropping"} => old \in (tried \cap Versions) \ {active}

Base == TypeOK /\ Untried /\ Roles

\* Base holds at first.
LEMMA InitBase == Init => Base
  <1> SUFFICES ASSUME Init PROVE Base
    OBVIOUS
  <1>1. Idle \in [size : Nat, outs : Seq({"stored", "removed", "retry"}),
                  seen : [Assets -> Rows \cup {NotRead}]]
        /\ Len(Idle.outs) = 0 /\ Idle.size = 0
    BY DEF Idle
  <1>2. TypeOK
    BY <1>1, EmbeddingAssumption DEF Init, TypeOK, NoRow, Rows, Contents, NoScan
  <1>3. Untried /\ Roles
    BY EmbeddingAssumption DEF Init, Untried, Roles, NoRow
  <1> QED
    BY <1>2, <1>3 DEF Base

\* The tasks of one write: one for each version in use.
LEMMA TasksForIs ==
    ASSUME Base, NEW k \in {"upsert", "delete"}, NEW a \in Assets
    PROVE  LET q == TasksFor(k, a, active, shadow)
           IN  /\ q \in Seq(TasksOf(tried))
               /\ \A i \in 1 .. Len(q) : q[i].kind = k /\ q[i].asset = a
               /\ \E i \in 1 .. Len(q) : q[i].ver = active
               /\ shadow # None => \E i \in 1 .. Len(q) : q[i].ver = shadow
  <1>1. \A v \in tried : /\ Task(k, a, v) \in TasksOf(tried) /\ Task(k, a, v).kind = k
                     /\ Task(k, a, v).asset = a /\ Task(k, a, v).ver = v
    BY EmbeddingAssumption DEF Task, Tasks, TasksOf, Base, TypeOK
  <1>4. active \in tried /\ shadow \in tried \cup {None}
    BY DEF Base, Roles
  <1> DEFINE q == TasksFor(k, a, active, shadow)
  <1>2. CASE shadow = None
    <2>1. q = <<Task(k, a, active)>>
      BY <1>2 DEF TasksFor
    <2>2. q \in Seq(TasksOf(tried)) /\ Len(q) = 1 /\ q[1] = Task(k, a, active)
      BY <1>1, <1>4, <2>1
    <2> HIDE DEF q
    <2> QED
      BY <1>1, <1>2, <1>4, <2>2 DEF q
  <1>3. CASE shadow # None
    <2> DEFINE x == <<Task(k, a, active)>>
               y == <<Task(k, a, shadow)>>
    <2>1. q = x \o y
      BY <1>3 DEF TasksFor
    <2>3. /\ x \in Seq(TasksOf(tried)) /\ Len(x) = 1 /\ x[1] = Task(k, a, active)
          /\ y \in Seq(TasksOf(tried)) /\ Len(y) = 1 /\ y[1] = Task(k, a, shadow)
      BY <1>1, <1>3, <1>4
    <2> HIDE DEF x, y
    <2>2. /\ q \in Seq(TasksOf(tried)) /\ Len(q) = 2
          /\ q[1] = Task(k, a, active) /\ q[2] = Task(k, a, shadow)
      <3>1. /\ x \o y \in Seq(TasksOf(tried)) /\ Len(x \o y) = Len(x) + Len(y)
            /\ \A i \in 1 .. Len(x) + Len(y) :
                  (x \o y)[i] = IF i <= Len(x) THEN x[i] ELSE y[i - Len(x)]
        BY <2>3, ConcatProperties
      <3> HIDE DEF q
      <3> QED
        BY <2>1, <2>3, <3>1
    <2> HIDE DEF q
    <2> QED
      BY <1>1, <1>3, <1>4, <2>2 DEF q
  <1> QED
    BY <1>2, <1>3

\* What the queue and the batch are.
LEMMA BatchIs ==
    ASSUME Base
    PROVE  /\ Len(queue) \in Nat /\ DOMAIN queue = 1 .. Len(queue)
           /\ \A i \in 1 .. Len(queue) : queue[i] \in TasksOf(tried)
           /\ tried \in SUBSET Versions
           /\ \A t \in TasksOf(tried) : t.asset \in Assets /\ t.ver \in tried
                                         /\ t.kind \in {"upsert", "delete"}
           /\ batch.size \in 0 .. Len(queue) /\ batch.size \in Nat
           /\ Len(batch.outs) \in 0 .. batch.size
           /\ batch.seen \in [Assets -> Rows \cup {NotRead}]
           /\ Working => Cur \in TasksOf(tried) /\ Cur = queue[Len(batch.outs) + 1]
                        /\ Len(batch.outs) + 1 \in 1 .. batch.size
  <1>1. Len(queue) \in Nat /\ DOMAIN queue = 1 .. Len(queue)
    BY DEF Base, Roles
  <1>2. \A i \in 1 .. Len(queue) : queue[i] \in TasksOf(tried)
    BY DEF Base, Roles
  <1>3. /\ batch.size \in Nat /\ batch.outs \in Seq({"stored", "removed", "retry"})
        /\ batch.seen \in [Assets -> Rows \cup {NotRead}]
        /\ Len(batch.outs) <= batch.size /\ batch.size <= Len(queue)
        /\ tried \in SUBSET Versions
    BY DEF Base, TypeOK
  <1>4. Len(batch.outs) \in Nat
    BY <1>3
  <1>5. Working => Len(batch.outs) + 1 \in 1 .. batch.size /\ Cur \in TasksOf(tried)
    BY <1>1, <1>2, <1>3, <1>4 DEF Working, Cur
  <1> QED
    BY <1>1, <1>2, <1>3, <1>4, <1>5 DEF TasksOf, Tasks, Cur

\* The queue without the tasks of a version that no claimed task is for: the places
\* that stay are found again in their order, and the claimed ones where they were.
LEMMA QueueWithoutIs ==
    ASSUME Base, NEW v, Unlocked(v), queue' = QueueWithout(v)
    PROVE  /\ queue' \in Seq(TasksOf(tried))
           /\ Len(queue') \in Nat /\ batch.size <= Len(queue')
           /\ \E e \in [1 .. Len(queue') -> 1 .. Len(queue)] :
                 /\ \A k \in 1 .. Len(queue') : queue'[k] = queue[e[k]] /\ queue[e[k]].ver # v
                 /\ \A k, l \in 1 .. Len(queue') : k < l => e[k] < e[l]
                 /\ \A k \in 1 .. batch.size : e[k] = k
                 /\ \A i \in 1 .. Len(queue) :
                       queue[i].ver # v => \E k \in 1 .. Len(queue') : e[k] = i
  <1> DEFINE I == {i \in 1 .. Len(queue) : queue[i].ver # v}
             c == Cardinality(I)
             p == [k \in 1 .. c |-> Place(I, k)]
  <1>1. Len(queue) \in Nat /\ I \in SUBSET (1 .. Len(queue)) /\ queue' = Kept(queue, I)
    <2>1. Len(queue) \in Nat /\ DOMAIN queue = 1 .. Len(queue)
      BY BatchIs
    <2> QED
      BY <2>1 DEF QueueWithout
  <1>2. /\ queue \in Seq(TasksOf(tried)) /\ batch.size \in 0 .. Len(queue)
        /\ batch.size \in Nat
    BY BatchIs DEF Base, Roles
  <1>3. 1 .. batch.size \subseteq I
    BY <1>1, <1>2 DEF Unlocked
  <1>4. /\ queue' \in Seq(TasksOf(tried)) /\ Len(queue') = c
        /\ \A k \in 1 .. c : queue'[k] = queue[Place(I, k)]
    <2> HIDE DEF I
    <2> QED
      BY <1>1, <1>2, KeptType
  <1>5. /\ c \in Nat
        /\ \A k \in 1 .. c : Place(I, k) \in I
        /\ \A i \in I : \E k \in 1 .. c : Place(I, k) = i
        /\ \A k, l \in 1 .. c : k < l => Place(I, k) < Place(I, l)
        /\ batch.size <= c /\ \A k \in 1 .. batch.size : Place(I, k) = k
    <2> HIDE DEF I
    <2> QED
      BY <1>1, <1>3, <1>2, Places
  <1> HIDE DEF c
  <1>6. /\ p \in [1 .. Len(queue') -> 1 .. Len(queue)]
        /\ \A k \in 1 .. Len(queue') : queue'[k] = queue[p[k]] /\ queue[p[k]].ver # v
        /\ \A k, l \in 1 .. Len(queue') : k < l => p[k] < p[l]
    <2>1. \A k \in 1 .. c : p[k] = Place(I, k) /\ p[k] \in I
      BY <1>5
    <2>2. \A i \in I : i \in 1 .. Len(queue) /\ queue[i].ver # v
      OBVIOUS
    <2>3. p \in [1 .. c -> 1 .. Len(queue)]
      BY <1>5, <2>2
    <2> HIDE DEF p, I
    <2> QED
      BY <1>4, <1>5, <2>1, <2>2, <2>3
  <1>7. \A k \in 1 .. batch.size : p[k] = k
    BY <1>2, <1>4, <1>5
  <1>8. \A i \in 1 .. Len(queue) : queue[i].ver # v => \E k \in 1 .. Len(queue') : p[k] = i
    BY <1>4, <1>5
  <1> HIDE DEF p
  <1>9. Len(queue') \in Nat /\ batch.size <= Len(queue')
    BY <1>4, <1>5
  <1> QED
    BY <1>4, <1>6, <1>7, <1>8, <1>9

\* Writes to the index.
LEMMA WritesBase ==
    ASSUME Base, NEW a \in Assets, Edit(a) \/ Delete(a)
    PROVE  Base'
  <1>1. PICK k \in {"upsert", "delete"} : queue' = queue \o TasksFor(k, a, active, shadow)
    BY DEF Edit, Delete
  <1>2. TasksFor(k, a, active, shadow) \in Seq(TasksOf(tried))
    BY TasksForIs
  <1>3. queue' \in Seq(TasksOf(tried)) /\ Len(queue) <= Len(queue')
    BY <1>1, <1>2 DEF Base, Roles
  <1>4. queue' \in Seq(Tasks)
    BY <1>3 DEF TasksOf
  <1>9. \A b \in Assets : row'[b].emb \in {row[b].emb, None}
    <2>1. row \in [Assets -> Rows] /\ row[a] \in Rows
      BY DEF Base, TypeOK
    <2>2. [row[a] EXCEPT !.st = "deleted"].emb = row[a].emb
      BY <2>1 DEF Rows
    <2>3. CASE Edit(a)
      BY <2>1, <2>3 DEF Edit
    <2>4. CASE Delete(a)
      <3>1. row' = [row EXCEPT ![a] = [row[a] EXCEPT !.st = "deleted"]]
        BY <2>4 DEF Delete
      <3> QED
        BY <2>1, <2>2, <3>1
    <2> QED
      BY <2>3, <2>4
  <1>5. edits' \in 0 .. MaxEdits /\ row' \in [Assets -> Rows]
    <2>1. edits' \in 0 .. MaxEdits
      BY EmbeddingAssumption DEF Edit, Delete, Writes, Base, TypeOK
    <2>2. CASE Edit(a)
      BY <2>1, <2>2 DEF Edit, Base, TypeOK, Rows, Contents
    <2>3. CASE Delete(a)
      <3>1. [row[a] EXCEPT !.st = "deleted"] \in Rows
        <4>1. row[a] \in Rows
          BY DEF Base, TypeOK
        <4> QED
          BY <4>1 DEF Rows
      <3>2. row' = [row EXCEPT ![a] = [row[a] EXCEPT !.st = "deleted"]]
        BY <2>3 DEF Delete
      <3> QED
        BY <2>1, <3>1, <3>2 DEF Base, TypeOK
    <2> QED
      BY <2>1, <2>2, <2>3
  <1>6. /\ UNCHANGED <<track, vec, batch, scan, active, shadow, phase, old, total, tried, fails, crashes>>
    BY DEF Edit, Delete, versions, limits
  <1>7. TypeOK'
    <2>1. batch'.size <= Len(queue')
      BY <1>3, <1>6, BatchIs
    <2> QED
      BY <1>4, <1>5, <1>6, <2>1 DEF Base, TypeOK
  <1>8. Untried' /\ Roles'
    BY <1>3, <1>6, <1>9, EmbeddingAssumption DEF Base, Untried, Roles, NoScan
  <1> QED
    BY <1>7, <1>8 DEF Base

\* Tasks that are queued without a write: those of a set of assets.
LEMMA QueueBase ==
    ASSUME Base, ReindexModule \/ ReconcileQueue \/ MigrateBatch
    PROVE  /\ Base'
           /\ \E q \in Seq(TasksOf(tried)) :
                 queue' = queue \o q /\ \A i \in 1 .. Len(q) : q[i].kind = "upsert"
  <1>1. \E S \in SUBSET Assets, act \in tried, sha \in tried \cup {None} :
           queue' = queue \o AllTasksFor(S, act, sha)
    <2>1. CASE ReindexModule
      <3>1. ActiveRows \in SUBSET Assets /\ active \in tried
        BY DEF ActiveRows, Base, Roles
      <3> QED
        BY <2>1, <3>1 DEF ReindexModule
    <2>2. CASE ReconcileQueue
      <3>1. /\ scan.active \in tried /\ scan.shadow \in tried \cup {None}
            /\ scan.rows \ Open(scan.active) \in SUBSET Assets
        BY <2>2 DEF ReconcileQueue, Base, Roles, TypeOK
      <3> QED
        BY <2>2, <3>1 DEF ReconcileQueue
    <2>3. CASE MigrateBatch
      <3>1. PICK C \in Candidates :
               queue' = queue \o AllTasksFor(
                  {a \in C : <<shadow, a>> \notin track} \ Open(shadow), shadow, None)
        BY <2>3 DEF MigrateBatch
      <3>2. C \in SUBSET Assets
        BY DEF Candidates, ActiveRows
      <3>3. shadow \in tried
        BY <2>3 DEF MigrateBatch, Base, Roles
      <3> QED
        BY <3>1, <3>2, <3>3
    <2> QED
      BY <2>1, <2>2, <2>3
  <1>2. PICK S \in SUBSET Assets, act \in tried, sha \in tried \cup {None} :
           queue' = queue \o AllTasksFor(S, act, sha)
    BY <1>1
  <1> DEFINE q == AllTasksFor(S, act, sha)
  <1>3. /\ q \in Seq(TasksOf(tried))
        /\ \A i \in 1 .. Len(q) : q[i].kind = "upsert"
    <2>1. act \in Versions /\ sha \in Versions \cup {None}
      BY BatchIs
    <2>2. /\ q \in Seq(Tasks)
          /\ \A i \in 1 .. Len(q) : q[i].kind = "upsert" /\ q[i].ver \in {act, sha} \ {None}
      BY <2>1, AllTasks
    <2> HIDE DEF q
    <2>3. \A i \in 1 .. Len(q) : q[i] \in TasksOf(tried)
      BY <2>2 DEF TasksOf
    <2> QED
      BY <2>2, <2>3
  <1> HIDE DEF q
  <1>4. queue' = queue \o q
    BY <1>2 DEF q
  <1>5. queue' \in Seq(TasksOf(tried)) /\ Len(queue) <= Len(queue')
    BY <1>3, <1>4 DEF Base, Roles
  <1>6. queue' \in Seq(Tasks)
    BY <1>5 DEF TasksOf
  <1>7. /\ UNCHANGED <<row, track, vec, batch, active, shadow, phase, old, total, tried, fails, crashes>>
        /\ scan' \in {scan, NoScan} /\ edits' \in 0 .. MaxEdits
    BY EmbeddingAssumption DEF ReindexModule, ReconcileQueue, MigrateBatch, index, versions, limits,
       Writes, Base, TypeOK
  <1>8. TypeOK'
    <2>1. batch'.size <= Len(queue')
      BY <1>5, <1>7, BatchIs
    <2> QED
      BY <1>6, <1>7, <2>1 DEF Base, TypeOK, NoScan
  <1>9. Untried' /\ Roles'
    BY <1>5, <1>7 DEF Base, Untried, Roles, NoScan
  <1> QED
    BY <1>3, <1>4, <1>8, <1>9 DEF Base

\* The worker's steps inside its transaction.
LEMMA WorkBase ==
    ASSUME Base, Claim \/ Look \/ Store \/ Erase \/ Compensate \/ Fail \/ Crash
    PROVE  Base'
  <1> DEFINE BatchTypes == [size : Nat, outs : Seq({"stored", "removed", "retry"}),
                            seen : [Assets -> Rows \cup {NotRead}]]
  <1>1. batch \in BatchTypes /\ Idle \in BatchTypes /\ Len(Idle.outs) = 0 /\ Idle.size = 0
    BY DEF Base, TypeOK, Idle
  <1>2. /\ UNCHANGED <<row, edits, queue, track, scan, active, shadow, phase, old, total, tried>>
        /\ fails' \in Nat /\ crashes' \in Nat /\ fails' + crashes' <= MaxFaults
    <2>1. fails \in Nat /\ crashes \in Nat /\ fails + crashes <= MaxFaults /\ MaxFaults \in Nat
      BY EmbeddingAssumption DEF Base, TypeOK
    <2>2. UNCHANGED <<row, edits, queue, track, scan, active, shadow, phase, old, total, tried>>
      BY DEF Claim, Look, Store, Erase, Compensate, Fail, Crash, Ends, index, versions
    <2>3. \/ UNCHANGED <<fails, crashes>>
          \/ fails + crashes < MaxFaults /\ fails' = fails + 1 /\ crashes' = crashes
          \/ fails + crashes < MaxFaults /\ fails' = fails /\ crashes' = crashes + 1
      BY DEF Claim, Look, Store, Erase, Compensate, Fail, Crash, Ends, Fails, MoreFaults, limits
    <2> QED
      BY <2>1, <2>2, <2>3
  <1>3. ASSUME Working, NEW o \in {"stored", "removed", "retry"}, NEW c \in Contents, Ends(o, c)
        PROVE  /\ batch' \in BatchTypes /\ Len(batch'.outs) <= batch'.size /\ batch'.size = batch.size
               /\ vec' \in [Versions -> [Assets -> Contents]]
               /\ \A v \in Versions \ tried : vec'[v] = vec[v]
    <2>1. Cur \in TasksOf(tried) /\ Cur.asset \in Assets /\ Cur.ver \in tried /\ Cur.ver \in Versions
      BY <1>3, BatchIs
    <2>2. vec' = [vec EXCEPT ![Cur.ver][Cur.asset] = c]
      BY <1>3 DEF Ends
    <2>3. vec \in [Versions -> [Assets -> Contents]]
      BY DEF Base, TypeOK
    <2>4. vec' \in [Versions -> [Assets -> Contents]] /\ \A v \in Versions \ tried : vec'[v] = vec[v]
      BY <2>1, <2>2, <2>3
    <2>5. batch' = [batch EXCEPT !.outs = Append(batch.outs, o)]
      BY <1>3 DEF Ends
    <2>6. /\ Append(batch.outs, o) \in Seq({"stored", "removed", "retry"})
          /\ Len(Append(batch.outs, o)) = Len(batch.outs) + 1
      BY <1>1, <1>3
    <2>7. Len(batch.outs) + 1 <= batch.size
      BY <1>3, BatchIs
    <2>8. batch' \in BatchTypes /\ batch'.outs = Append(batch.outs, o) /\ batch'.size = batch.size
      BY <1>1, <2>5, <2>6
    <2> QED
      BY <2>4, <2>6, <2>7, <2>8
  <1>4. /\ batch' \in BatchTypes /\ Len(batch'.outs) <= batch'.size /\ batch'.size <= Len(queue)
        /\ vec' \in [Versions -> [Assets -> Contents]]
        /\ \A v \in Versions \ tried : vec'[v] = vec[v]
    <2>1. CASE Claim
      <3>1. vec' = vec /\ vec \in [Versions -> [Assets -> Contents]]
        BY <2>1 DEF Claim, Base, TypeOK
      <3>2. PICK n \in Nat : n <= Len(queue) /\ batch' = [Idle EXCEPT !.size = n]
        <4>1. Len(queue) \in Nat /\ Batch \in Nat
          BY BatchIs, EmbeddingAssumption
        <4> QED
          BY <2>1, <4>1 DEF Claim
      <3>3. batch' \in BatchTypes /\ batch'.size = n /\ batch'.outs = Idle.outs
        BY <1>1, <3>2
      <3> QED
        BY <1>1, <3>1, <3>2, <3>3
    <2>2. CASE Look
      <3>1. vec' = vec /\ vec \in [Versions -> [Assets -> Contents]]
        BY <2>2 DEF Look, Base, TypeOK
      <3>2. Cur.asset \in Assets /\ row[Cur.asset] \in Rows
        BY <2>2, BatchIs DEF Look, Base, TypeOK
      <3>3. batch' = [batch EXCEPT !.seen = [batch.seen EXCEPT ![Cur.asset] = row[Cur.asset]]]
        BY <2>2 DEF Look
      <3>4. batch' \in BatchTypes /\ batch'.size = batch.size /\ batch'.outs = batch.outs
        BY <1>1, <3>2, <3>3
      <3> QED
        BY <3>1, <3>4, BatchIs
    <2>3. ASSUME Working PROVE Cur.asset \in Assets /\ Cur.ver \in Versions
      BY <2>3, BatchIs
    <2>4. ASSUME Working, Seen # NotRead PROVE Seen.content \in Contents
      BY <2>3, <2>4 DEF Seen, Base, TypeOK, Rows
    <2>5. ASSUME Working PROVE vec[Cur.ver][Cur.asset] \in Contents /\ 0 \in Contents
      BY <2>3, <2>5, EmbeddingAssumption DEF Base, TypeOK, Contents
    <2>6. CASE Store \/ Erase \/ Compensate \/ Fail
      <3>1. Working
        BY <2>6 DEF Store, Erase, Compensate, Fail
      <3>2. \E o \in {"stored", "removed", "retry"} : \E c \in Contents : Ends(o, c)
        BY <2>4, <2>5, <2>6, <3>1 DEF Store, Erase, Compensate, Fail
      <3> QED
        BY <1>3, <3>1, <3>2, BatchIs
    <2>7. CASE Crash
      BY <1>1, <2>7, BatchIs DEF Crash, Base, TypeOK
    <2> QED
      BY <2>1, <2>2, <2>6, <2>7
  <1> HIDE DEF BatchTypes
  <1>5. TypeOK'
    BY <1>2, <1>4 DEF Base, TypeOK, BatchTypes
  <1>6. Untried' /\ Roles'
    BY <1>2, <1>4 DEF Base, Untried, Roles, NoScan
  <1> QED
    BY <1>5, <1>6 DEF Base

\* The worker's commit.
LEMMA CommitBase ==
    ASSUME Base, Commit
    PROVE  Base'
  <1>1. queue' \in Seq(TasksOf(tried))
    BY QueueLeftType, BatchIs DEF Commit, Base, Roles
  <1>2. /\ batch' = Idle /\ Idle.size = 0 /\ Len(Idle.outs) = 0
        /\ Idle \in [size : Nat, outs : Seq({"stored", "removed", "retry"}),
                     seen : [Assets -> Rows \cup {NotRead}]]
    BY DEF Commit, Idle
  <1>3. UNCHANGED <<edits, vec, scan, active, shadow, phase, old, total, tried, fails, crashes>>
    BY DEF Commit, versions, limits
  <1>4. /\ row' \in [Assets -> Rows]
        /\ \A a \in Assets : row'[a].emb = row[a].emb \/ row'[a].emb \in tried
    <2>1. ASSUME NEW a \in Assets, Pinned(a)
          PROVE  batch.seen[a].ver \in Versions /\ batch.seen[a].ver \in tried
      <3>1. PICK i \in 1 .. batch.size : queue[i].ver = batch.seen[a].ver
        BY <2>1 DEF Pinned
      <3> QED
        BY <3>1, BatchIs
    <2>2. ASSUME NEW a \in Assets, Pinned(a)
          PROVE  /\ [row[a] EXCEPT !.emb = batch.seen[a].ver] \in Rows
                 /\ [row[a] EXCEPT !.emb = batch.seen[a].ver].emb = batch.seen[a].ver
      <3>1. row[a] \in Rows /\ batch.seen[a].ver \in Versions \cup {None}
        BY <2>1, <2>2 DEF Base, TypeOK
      <3> QED
        BY <3>1 DEF Rows
    <2> QED
      BY <2>1, <2>2 DEF Commit, Base, TypeOK
  <1>5. track' \subseteq Versions \X Assets
    BY DEF Commit
  <1>6. TypeOK'
    <2>1. queue' \in Seq(Tasks) /\ Len(queue') \in Nat
      BY <1>1 DEF TasksOf
    <2>2. Len(batch'.outs) <= batch'.size /\ batch'.size <= Len(queue')
      BY <1>2, <2>1
    <2> QED
      BY <1>2, <1>3, <1>4, <1>5, <2>1, <2>2 DEF Base, TypeOK
  <1>7. Untried' /\ Roles'
    BY <1>1, <1>3, <1>4 DEF Base, Untried, Roles, NoScan
  <1> QED
    BY <1>6, <1>7 DEF Base

\* The hourly job, the operator of a migration and restarts.
LEMMA OthersBase ==
    ASSUME Base,
           \/ ReconcileScan \/ VerifyTotal \/ VerifyCount \/ VerifyOpen
           \/ Switch \/ SwitchRows \/ DropVectors \/ Restart
           \/ \E v \in Versions : StartMigration(v)
    PROVE  Base'
  <1>1. /\ queue' = queue /\ track' = track /\ edits' = edits
        /\ fails' \in Nat /\ crashes' \in Nat /\ fails' + crashes' <= MaxFaults
    <2>1. fails \in Nat /\ crashes \in Nat /\ fails + crashes <= MaxFaults /\ MaxFaults \in Nat
      BY EmbeddingAssumption DEF Base, TypeOK
    <2>2. \/ UNCHANGED <<fails, crashes>>
          \/ fails + crashes < MaxFaults /\ fails' = fails /\ crashes' = crashes + 1
      BY DEF ReconcileScan, VerifyTotal, VerifyCount, VerifyOpen, Switch, SwitchRows, DropVectors, Restart, StartMigration, limits, MoreFaults
    <2>3. queue' = queue /\ track' = track /\ edits' = edits
      BY DEF ReconcileScan, VerifyTotal, VerifyCount, VerifyOpen, Switch, SwitchRows, DropVectors, Restart, StartMigration, index
    <2> QED
      BY <2>1, <2>2, <2>3
  <1>2. /\ batch' \in {batch, Idle} /\ Idle.size = 0 /\ Len(Idle.outs) = 0
        /\ Idle \in [size : Nat, outs : Seq({"stored", "removed", "retry"}),
                     seen : [Assets -> Rows \cup {NotRead}]]
    <2>1. batch' \in {batch, Idle}
      BY DEF ReconcileScan, VerifyTotal, VerifyCount, VerifyOpen, Switch, SwitchRows, DropVectors, Restart, StartMigration
    <2> QED
      BY <2>1 DEF Idle
  <1>3. vec' \in [Versions -> [Assets -> Contents]]
        /\ \A v \in Versions \ tried : \A a \in Assets : vec'[v][a] = 0
    <2>1. CASE DropVectors
      <3>1. old \in Versions /\ 0 \in Contents
        BY <2>1, EmbeddingAssumption DEF DropVectors, Base, Roles, Contents
      <3>2. vec \in [Versions -> [Assets -> Contents]]
            /\ \A v \in Versions \ tried : \A a \in Assets : vec[v][a] = 0
        BY DEF Base, TypeOK, Untried
      <3> QED
        BY <2>1, <3>1, <3>2 DEF DropVectors
    <2>2. CASE vec' = vec
      BY <2>2 DEF Base, TypeOK, Untried
    <2> QED
      BY <2>1, <2>2 DEF ReconcileScan, VerifyTotal, VerifyCount, VerifyOpen, Switch, SwitchRows, Restart, StartMigration
  <1>4. row' \in [Assets -> Rows] /\ \A a \in Assets : row'[a].emb \in {row[a].emb, None}
    <2>1. CASE SwitchRows
      <3>1. active \in Versions
        BY DEF Base, TypeOK
      <3>2. ASSUME NEW a \in Assets
            PROVE  /\ [row[a] EXCEPT !.ver = active, !.emb = None] \in Rows /\ row[a] \in Rows
                   /\ [row[a] EXCEPT !.ver = active, !.emb = None].emb = None
        <4>1. row[a] \in Rows
          BY DEF Base, TypeOK
        <4> QED
          BY <3>1, <4>1 DEF Rows
      <3> QED
        BY <2>1, <3>2 DEF SwitchRows
    <2>2. CASE row' = row
      BY <2>2 DEF Base, TypeOK
    <2> QED
      BY <2>1, <2>2 DEF ReconcileScan, VerifyTotal, VerifyCount, VerifyOpen, Switch, DropVectors,
         Restart, StartMigration, index
  <1> DEFINE Moved ==
               /\ tried \subseteq tried' /\ tried' \subseteq Versions
               /\ scan' \in [rows : SUBSET Assets, active : Versions \cup {None},
                             shadow : Versions \cup {None}]
               /\ active' \in Versions /\ shadow' \in (Versions \ {active'}) \cup {None}
               /\ phase' \in {"none", "shadow", "counting", "counted", "ready", "switching",
                              "switched", "dropping", "torn"}
               /\ total' \in Nat
               /\ old' \in Versions \cup {None}
               /\ active' \in tried' /\ shadow' \in tried' \cup {None}
               /\ scan' # NoScan => scan'.active \in tried' /\ scan'.shadow \in tried' \cup {None}
               /\ (phase' \in {"shadow", "counting", "counted", "ready"}) <=> (shadow' # None)
               /\ phase' \in {"switching", "switched", "dropping"} =>
                      old' \in (tried' \cap Versions) \ {active'}
  <1>5. Moved
    <2>1. CASE ReconcileScan
      <3>1. ActiveRows \subseteq Assets
        BY DEF ActiveRows
      <3> QED
        BY <2>1, <3>1 DEF ReconcileScan, versions, Base, TypeOK, Roles
    <2>2. ASSUME NEW v \in Versions, StartMigration(v) PROVE Moved
      BY <2>2, EmbeddingAssumption DEF StartMigration, Base, TypeOK, Roles
    <2>3. CASE VerifyTotal \/ VerifyCount \/ VerifyOpen
      <3>1. Cardinality(ActiveRows) \in Nat
        <4>1. ActiveRows \in SUBSET Assets
          BY DEF ActiveRows
        <4> QED
          BY <4>1, EmbeddingAssumption, FS_Subset, FS_CardinalityType
      <3> QED
        BY <2>3, <3>1 DEF VerifyTotal, VerifyCount, VerifyOpen, Base, TypeOK, Roles
    <2>4. CASE Switch
      BY <2>4, EmbeddingAssumption DEF Switch, Base, TypeOK, Roles
    <2>7. CASE SwitchRows
      BY <2>7 DEF SwitchRows, Base, TypeOK, Roles
    <2>5. CASE DropVectors
      BY <2>5 DEF DropVectors, Base, TypeOK, Roles
    <2>6. CASE Restart
      BY <2>6 DEF Restart, Base, TypeOK, Roles, NoScan
    <2> QED
      BY <2>1, <2>2, <2>3, <2>4, <2>5, <2>6, <2>7
  <1>6. TypeOK'
    <2>1. Len(batch'.outs) <= batch'.size /\ batch'.size <= Len(queue)
      BY <1>2, BatchIs
    <2> QED
      BY <1>1, <1>2, <1>3, <1>4, <1>5, <2>1 DEF Base, TypeOK
  <1>7. Untried'
    BY <1>3, <1>4, <1>5, EmbeddingAssumption DEF Base, Untried
  <1>8. Roles'
    <2>1. queue \in Seq(TasksOf(tried'))
      <3>1. \A i \in 1 .. Len(queue) : queue[i] \in TasksOf(tried')
        BY <1>5, BatchIs DEF TasksOf
      <3> QED
        BY <3>1 DEF Base, Roles
    <2> QED
      BY <1>1, <1>5, <2>1 DEF Roles, NoScan
  <1> QED
    BY <1>6, <1>7, <1>8 DEF Base

\* The operator drops the tasks of a version.
LEMMA DropBase ==
    ASSUME Base, DropRows \/ RollbackMigration
    PROVE  Base'
  <1>1. PICK v \in {old, shadow} : Unlocked(v) /\ queue' = QueueWithout(v)
    BY DEF DropRows, RollbackMigration
  <1>2. queue' \in Seq(TasksOf(tried)) /\ batch.size <= Len(queue')
    BY <1>1, BatchIs, QueueWithoutIs DEF Base, Roles
  <1>3. /\ track' \subseteq track /\ shadow' = None /\ phase' = "none" /\ old' \in {old, None}
        /\ UNCHANGED <<row, edits, batch, scan, active, total, tried, fails, crashes>>
    BY DEF DropRows, RollbackMigration, index, limits, Base, Roles
  <1>4. /\ vec' \in [Versions -> [Assets -> Contents]]
        /\ \A w \in Versions \ tried : \A a \in Assets : vec'[w][a] = 0
    <2>1. 0 \in Contents
      BY EmbeddingAssumption DEF Contents
    <2>2. vec \in [Versions -> [Assets -> Contents]]
      BY DEF Base, TypeOK
    <2>3. \A w \in Versions \ tried : \A a \in Assets : vec[w][a] = 0
      BY DEF Base, Untried
    <2>4. vec' \in {vec, [vec EXCEPT ![shadow] = [a \in Assets |-> 0]]}
      BY DEF DropRows, RollbackMigration
    <2> QED
      BY <2>1, <2>2, <2>3, <2>4
  <1>5. TypeOK'
    <2>1. queue' \in Seq(Tasks)
      BY <1>2 DEF TasksOf
    <2> QED
      BY <1>2, <1>3, <1>4, <2>1 DEF Base, TypeOK
  <1>6. Untried' /\ Roles'
    BY <1>2, <1>3, <1>4 DEF Base, Untried, Roles, NoScan
  <1> QED
    BY <1>5, <1>6 DEF Base

\* Every step keeps Base.
LEMMA NextBase == Base /\ [Next]_vars => Base'
  <1> SUFFICES ASSUME Base, [Next]_vars PROVE Base'
    OBVIOUS
  <1>1. CASE UNCHANGED vars
    BY <1>1 DEF vars, index, versions, limits, Base, TypeOK, Untried, Roles, NoScan
  <1>2. CASE Next
    BY <1>2, WritesBase, QueueBase, WorkBase, CommitBase, OthersBase, DropBase DEF Next
  <1> QED
    BY <1>1, <1>2

\* The index, the queue, the store and the migration keep their types, for any
\* assets, versions, batch sizes and faults.
THEOREM TypeCorrect == Spec => []TypeOK
  BY InitBase, NextBase, PTL DEF Spec, Base

--------------------------------------------------------------------------------
(* What recall searches, while no version is migrated to twice.                *)

Live == {active, shadow} \ {None}

\* Behind place n of the queue s is a task for the vector of a in v.
Behind(s, a, v, n) == \E i \in n + 1 .. Len(s) : s[i].asset = a /\ s[i].ver = v

\* A row that the worker read is no longer what it was.
Stale(seen, r) == seen # NotRead /\ (seen.st # r.st \/ seen.content # r.content)

\* The vector that a should have.
Want(a) == IF row[a].st = "active" THEN row[a].content ELSE 0

\* Nothing was embedded for a in version v, and its row does not say so.
Untouched(v, a) == vec[v][a] = 0 /\ row[a].emb # v /\ ~ Behind(queue, a, v, 0)

\* A task that erases what is active again has another behind it.
DeletesFollow ==
    \A i \in 1 .. Len(queue) :
        queue[i].ver \in Live /\ queue[i].kind = "delete" /\ row[queue[i].asset].st = "active"
            => Behind(queue, queue[i].asset, queue[i].ver, i)

\* An asset that changed after the worker read it has a task behind the batch.
StaleAgain ==
    \A i \in 1 .. batch.size :
        queue[i].ver \in Live /\ Stale(batch.seen[queue[i].asset], row[queue[i].asset])
            => Behind(queue, queue[i].asset, queue[i].ver, batch.size)

\* A vector that is not what it should be has a task that is not done, or is one that
\* the migration did not come to.
Covered ==
    \A v \in Live, a \in Assets :
        \/ Behind(queue, a, v, Len(batch.outs))
        \/ vec[v][a] = Want(a)
        \/ Untouched(v, a)

\* Without a fault every task is done, and what was stored was active when read.
AllDone ==
    \A i \in 1 .. Len(batch.outs) :
        /\ batch.outs[i] # "retry"
        /\ batch.outs[i] = "stored" => batch.seen[queue[i].asset].st = "active"

Core == DeletesFollow /\ StaleAgain /\ Covered /\ AllDone

Inv == Base /\ (fails = 0 /\ phase # "torn" => Core)

\* What is behind a place when tasks are added to the queue.
LEMMA BehindAppend ==
    ASSUME NEW q \in Seq(Tasks), queue \in Seq(Tasks), queue' = queue \o q
    PROVE  /\ \A i \in 1 .. Len(queue) : i \in 1 .. Len(queue') /\ queue'[i] = queue[i]
           /\ \A i \in 1 .. Len(queue') : i \notin 1 .. Len(queue) =>
                 i - Len(queue) \in 1 .. Len(q) /\ queue'[i] = q[i - Len(queue)]
           /\ \A a, v : \A n \in Nat : Behind(queue, a, v, n) => Behind(queue', a, v, n)
           /\ \A a, v : \A n \in Nat : Behind(queue', a, v, n) =>
                 \/ Behind(queue, a, v, n)
                 \/ \E i \in 1 .. Len(q) : q[i].asset = a /\ q[i].ver = v
           /\ \A n \in 0 .. Len(queue) : \A i \in 1 .. Len(q) :
                 Behind(queue', q[i].asset, q[i].ver, n)
  <1>1. Len(queue) \in Nat /\ Len(q) \in Nat
    OBVIOUS
  <1>2. /\ Len(queue') = Len(queue) + Len(q)
        /\ \A i \in 1 .. Len(queue') :
              queue'[i] = IF i <= Len(queue) THEN queue[i] ELSE q[i - Len(queue)]
    <2>1. /\ Len(queue \o q) = Len(queue) + Len(q)
          /\ \A i \in 1 .. Len(queue) + Len(q) :
                (queue \o q)[i] = IF i <= Len(queue) THEN queue[i] ELSE q[i - Len(queue)]
      BY ConcatProperties
    <2> QED
      BY <2>1
  <1>3. /\ \A i \in 1 .. Len(queue) : i \in 1 .. Len(queue') /\ queue'[i] = queue[i]
        /\ \A i \in 1 .. Len(queue') : i \notin 1 .. Len(queue) =>
              i - Len(queue) \in 1 .. Len(q) /\ queue'[i] = q[i - Len(queue)]
        /\ \A i \in 1 .. Len(q) : /\ Len(queue) + i \in Len(queue) + 1 .. Len(queue')
                                  /\ queue'[Len(queue) + i] = q[i]
    BY <1>1, <1>2
  <1>4. ASSUME NEW a, NEW v, NEW n \in Nat, Behind(queue, a, v, n) PROVE Behind(queue', a, v, n)
    BY <1>1, <1>2, <1>3, <1>4 DEF Behind
  <1>5. ASSUME NEW a, NEW v, NEW n \in Nat, Behind(queue', a, v, n),
               ~ \E i \in 1 .. Len(q) : q[i].asset = a /\ q[i].ver = v
        PROVE  Behind(queue, a, v, n)
    <2>1. PICK i \in n + 1 .. Len(queue') : queue'[i].asset = a /\ queue'[i].ver = v
      BY <1>5 DEF Behind
    <2>2. i \in 1 .. Len(queue)
      BY <1>1, <1>2, <1>3, <1>5, <2>1
    <2> QED
      BY <1>1, <1>3, <2>1, <2>2 DEF Behind
  <1>6. ASSUME NEW n \in 0 .. Len(queue), NEW i \in 1 .. Len(q)
        PROVE  Behind(queue', q[i].asset, q[i].ver, n)
    <2>1. Len(queue) + i \in n + 1 .. Len(queue') /\ queue'[Len(queue) + i] = q[i]
      BY <1>1, <1>2, <1>3
    <2> QED
      BY <2>1 DEF Behind
  <1> QED
    BY <1>3, <1>4, <1>5, <1>6

\* Tasks are added: for every asset whose row changes one for each version in use,
\* and none that erases what is active.
LEMMA AppendCore ==
    ASSUME Base, Core,
           NEW q \in Seq(Tasks), NEW W \in SUBSET Assets, queue' = queue \o q,
           UNCHANGED <<track, vec, batch, active, shadow, phase>>,
           \A b \in Assets \ W : row'[b] = row[b],
           \A b \in W, v \in Live :
               \E i \in 1 .. Len(q) : q[i].asset = b /\ q[i].ver = v,
           \A i \in 1 .. Len(q) : q[i].kind = "delete" => row'[q[i].asset].st # "active"
    PROVE  Core'
  <1>1. queue \in Seq(Tasks)
    BY DEF Base, TypeOK
  <1>2. /\ \A i \in 1 .. Len(queue) : i \in 1 .. Len(queue') /\ queue'[i] = queue[i]
        /\ \A i \in 1 .. Len(queue') : i \notin 1 .. Len(queue) =>
              i - Len(queue) \in 1 .. Len(q) /\ queue'[i] = q[i - Len(queue)]
    BY <1>1, BehindAppend
  <1>3. \A a, v : \A n \in Nat : Behind(queue, a, v, n) => Behind(queue', a, v, n)
    BY <1>1, BehindAppend
  <1>4. \A a, v : \A n \in Nat : Behind(queue', a, v, n) =>
           Behind(queue, a, v, n) \/ \E i \in 1 .. Len(q) : q[i].asset = a /\ q[i].ver = v
    BY <1>1, BehindAppend
  <1>5. \A n \in 0 .. Len(queue) : \A i \in 1 .. Len(q) : Behind(queue', q[i].asset, q[i].ver, n)
    BY <1>1, BehindAppend
  <1>6. /\ Live' = Live
        /\ \A b \in W, v \in Live : \A n \in 0 .. Len(queue) : Behind(queue', b, v, n)
    <2>1. Live' = Live
      BY DEF Live
    <2>2. ASSUME NEW b \in W, NEW v \in Live, NEW n \in 0 .. Len(queue)
          PROVE  Behind(queue', b, v, n)
      <3>1. PICK i \in 1 .. Len(q) : q[i].asset = b /\ q[i].ver = v
        OBVIOUS
      <3>2. Behind(queue', q[i].asset, q[i].ver, n)
        BY <1>5
      <3> QED
        BY <3>1, <3>2
    <2> QED
      BY <2>1, <2>2
  <1>7. /\ Len(queue) \in Nat /\ batch.size \in 0 .. Len(queue)
        /\ Len(batch.outs) \in 0 .. batch.size /\ Len(batch.outs) \in 0 .. Len(queue)
        /\ \A i \in 1 .. Len(queue) : queue[i].asset \in Assets
    BY BatchIs
  <1>8. DeletesFollow'
    <2> SUFFICES ASSUME NEW i \in 1 .. Len(queue'), queue'[i].ver \in Live,
                        queue'[i].kind = "delete", row'[queue'[i].asset].st = "active"
                 PROVE  Behind(queue', queue'[i].asset, queue'[i].ver, i)
      BY <1>6 DEF DeletesFollow
    <2>1. i \in 1 .. Len(queue) /\ queue'[i] = queue[i]
      BY <1>2
    <2>2. CASE queue[i].asset \in W
      BY <1>6, <1>7, <2>1, <2>2
    <2>3. CASE queue[i].asset \notin W
      <3>1. row[queue[i].asset].st = "active"
        BY <1>7, <2>1, <2>3
      <3>2. Behind(queue, queue[i].asset, queue[i].ver, i)
        BY <2>1, <3>1 DEF Core, DeletesFollow
      <3> QED
        BY <1>3, <1>7, <2>1, <3>2
    <2> QED
      BY <2>2, <2>3
  <1>9. StaleAgain'
    <2> SUFFICES ASSUME NEW i \in 1 .. batch.size, queue'[i].ver \in Live,
                        Stale(batch.seen[queue'[i].asset], row'[queue'[i].asset])
                 PROVE  Behind(queue', queue'[i].asset, queue'[i].ver, batch.size)
      BY <1>6 DEF StaleAgain
    <2>1. i \in 1 .. Len(queue) /\ queue'[i] = queue[i]
      BY <1>2, <1>7
    <2>2. CASE queue[i].asset \in W
      BY <1>6, <1>7, <2>1, <2>2
    <2>3. CASE queue[i].asset \notin W
      <3>1. Stale(batch.seen[queue[i].asset], row[queue[i].asset])
        BY <1>7, <2>1, <2>3
      <3>2. Behind(queue, queue[i].asset, queue[i].ver, batch.size)
        BY <2>1, <3>1 DEF Core, StaleAgain
      <3> QED
        BY <1>3, <1>7, <2>1, <3>2
    <2> QED
      BY <2>2, <2>3
  <1>10. Covered'
    <2> SUFFICES ASSUME NEW v \in Live, NEW a \in Assets, ~ Behind(queue', a, v, Len(batch.outs))
                 PROVE  vec[v][a] = Want(a)' \/ Untouched(v, a)'
      BY <1>6 DEF Covered
    <2>1. a \notin W /\ ~ Behind(queue, a, v, Len(batch.outs))
      BY <1>3, <1>6, <1>7
    <2>2. Want(a)' = Want(a)
      BY <2>1 DEF Want
    <2>3. ASSUME Untouched(v, a) PROVE Untouched(v, a)'
      <3>1. ~ \E i \in 1 .. Len(q) : q[i].asset = a /\ q[i].ver = v
        BY <1>5, <1>7
      <3>2. ~ Behind(queue', a, v, 0)
        BY <1>4, <2>3, <3>1 DEF Untouched
      <3> QED
        BY <2>1, <2>3, <3>2 DEF Untouched
    <2> QED
      BY <2>1, <2>2, <2>3 DEF Core, Covered
  <1>11. AllDone'
    BY <1>2, <1>7 DEF Core, AllDone
  <1> QED
    BY <1>8, <1>9, <1>10, <1>11 DEF Core

\* Every write to the index queues a task for each version in use.
LEMMA WritesCore ==
    ASSUME Base, Core, NEW a \in Assets, Edit(a) \/ Delete(a)
    PROVE  Core'
  <1>1. PICK k \in {"upsert", "delete"} :
           /\ queue' = queue \o TasksFor(k, a, active, shadow)
           /\ k = "delete" => Delete(a)
    BY DEF Edit, Delete
  <1> DEFINE q == TasksFor(k, a, active, shadow)
  <1>2. /\ q \in Seq(TasksOf(tried))
        /\ \A i \in 1 .. Len(q) : q[i].kind = k /\ q[i].asset = a
        /\ \A v \in Live : \E i \in 1 .. Len(q) : q[i].ver = v
    <2>1. /\ q \in Seq(TasksOf(tried))
          /\ \A i \in 1 .. Len(q) : q[i].kind = k /\ q[i].asset = a
          /\ \E i \in 1 .. Len(q) : q[i].ver = active
          /\ shadow # None => \E i \in 1 .. Len(q) : q[i].ver = shadow
      BY TasksForIs
    <2> HIDE DEF q
    <2> QED
      BY <2>1 DEF Live
  <1> HIDE DEF q
  <1>3. q \in Seq(Tasks) /\ queue' = queue \o q
    <2>1. queue' = queue \o q
      BY <1>1 DEF q
    <2> QED
      BY <1>2, <2>1 DEF TasksOf
  <1>4. /\ UNCHANGED <<track, vec, batch, active, shadow, phase>>
        /\ \A b \in Assets \ {a} : row'[b] = row[b]
    <2>1. row \in [Assets -> Rows]
      BY DEF Base, TypeOK
    <2> QED
      BY <2>1 DEF Edit, Delete, versions
  <1>5. Delete(a) => row'[a].st = "deleted"
    <2>1. row \in [Assets -> Rows] /\ row[a] \in Rows
      BY DEF Base, TypeOK
    <2> QED
      BY <2>1 DEF Delete, Rows
  <1>6. \A i \in 1 .. Len(q) : q[i].kind = "delete" => row'[q[i].asset].st # "active"
    BY <1>1, <1>2, <1>5
  <1>7. PICK W \in SUBSET Assets : W = {a}
    OBVIOUS
  <1>8. \A b \in W, v \in Live : \E i \in 1 .. Len(q) : q[i].asset = b /\ q[i].ver = v
    BY <1>2, <1>7
  <1>9. \A b \in Assets \ W : row'[b] = row[b]
    BY <1>4, <1>7
  <1> QED
    BY <1>3, <1>4, <1>6, <1>8, <1>9, AppendCore

\* Tasks that are queued without a write erase nothing.
LEMMA QueueCore ==
    ASSUME Base, Core, ReindexModule \/ ReconcileQueue \/ MigrateBatch
    PROVE  Core'
  <1>1. PICK q \in Seq(TasksOf(tried)) :
           queue' = queue \o q /\ \A i \in 1 .. Len(q) : q[i].kind = "upsert"
    BY QueueBase
  <1>2. q \in Seq(Tasks)
    BY DEF TasksOf
  <1>3. UNCHANGED <<row, track, vec, batch, active, shadow, phase>>
    BY DEF ReindexModule, ReconcileQueue, MigrateBatch, index, versions
  <1>4. PICK W \in SUBSET Assets : W = {}
    OBVIOUS
  <1>5. /\ \A b \in Assets \ W : row'[b] = row[b]
        /\ \A b \in W, v \in Live : \E i \in 1 .. Len(q) : q[i].asset = b /\ q[i].ver = v
        /\ \A i \in 1 .. Len(q) : q[i].kind = "delete" => row'[q[i].asset].st # "active"
    BY <1>1, <1>3, <1>4
  <1> QED
    BY <1>1, <1>2, <1>3, <1>5, AppendCore

\* Behind a place are those behind the next one, and that one's.
LEMMA BehindNext ==
    ASSUME Base, NEW a, NEW v, NEW n \in Nat, NEW m \in Nat
    PROVE  /\ Behind(queue, a, v, n) /\ m <= n => Behind(queue, a, v, m)
           /\ Behind(queue, a, v, n) =>
                 \/ Behind(queue, a, v, n + 1)
                 \/ queue[n + 1].asset = a /\ queue[n + 1].ver = v
  <1>1. Len(queue) \in Nat
    BY BatchIs
  <1>2. ASSUME Behind(queue, a, v, n), m <= n PROVE Behind(queue, a, v, m)
    BY <1>1, <1>2 DEF Behind
  <1>3. ASSUME Behind(queue, a, v, n), ~ Behind(queue, a, v, n + 1)
        PROVE  queue[n + 1].asset = a /\ queue[n + 1].ver = v
    <2>1. PICK i \in n + 1 .. Len(queue) : queue[i].asset = a /\ queue[i].ver = v
      BY <1>3 DEF Behind
    <2>2. i \notin n + 1 + 1 .. Len(queue)
      BY <1>3, <2>1 DEF Behind
    <2>3. i = n + 1
      BY <1>1, <2>2
    <2> QED
      BY <2>1, <2>3
  <1> QED
    BY <1>2, <1>3

\* The worker takes tasks or reads a row.
LEMMA ReadCore ==
    ASSUME Base, Core, Claim \/ Look
    PROVE  Core'
  <1>1. UNCHANGED <<row, queue, track, vec, active, shadow, phase>>
    BY DEF Claim, Look, index, versions
  <1>2. batch'.outs = batch.outs
    BY DEF Claim, Look, Idle, Base, TypeOK
  <1>3. DeletesFollow' /\ Covered'
    <2>1. Live' = Live
      BY <1>1 DEF Live
    <2> QED
      BY <1>1, <1>2, <2>1 DEF Core, DeletesFollow, Covered, Want, Untouched
  <1>4. batch.seen \in [Assets -> Rows \cup {NotRead}] /\ row \in [Assets -> Rows]
    BY DEF Base, TypeOK
  <1>5. CASE Claim
    <2>1. /\ batch = Idle /\ \A a \in Assets : batch'.seen[a] = NotRead
          /\ \A i \in 1 .. batch'.size : i \in 1 .. Len(queue)
      <3>1. PICK n \in Nat : n <= Len(queue) /\ batch' = [Idle EXCEPT !.size = n]
        <4>1. Len(queue) \in Nat /\ Batch \in Nat
          BY BatchIs, EmbeddingAssumption
        <4> QED
          BY <1>5, <4>1 DEF Claim
      <3>2. batch'.size = n /\ batch'.seen = [a \in Assets |-> NotRead]
        BY <3>1 DEF Idle
      <3> QED
        BY <1>5, <3>1, <3>2, BatchIs DEF Claim
    <2>2. \A i \in 1 .. Len(queue) : queue[i].asset \in Assets
      BY BatchIs
    <2>3. StaleAgain'
      BY <1>1, <2>1, <2>2 DEF StaleAgain, Stale
    <2>4. AllDone'
      <3>1. Len(batch'.outs) = 0
        BY <1>2, <2>1 DEF Idle
      <3> QED
        BY <3>1 DEF AllDone
    <2> QED
      BY <1>3, <2>3, <2>4 DEF Core
  <1>6. CASE Look
    <2> DEFINE c == Cur.asset
    <2>1. c \in Assets /\ \A i \in 1 .. batch.size : queue[i].asset \in Assets
      BY <1>6, BatchIs DEF Look
    <2>2. batch' = [batch EXCEPT !.seen = [batch.seen EXCEPT ![c] = row[c]]]
      BY <1>6 DEF Look
    <2> HIDE DEF c
    <2>3. /\ batch'.size = batch.size /\ batch'.seen[c] = row[c]
          /\ \A a \in Assets \ {c} : batch'.seen[a] = batch.seen[a]
      BY <1>4, <2>1, <2>2 DEF Base, TypeOK
    <2>4. StaleAgain'
      <3>1. \A a \in Assets : Stale(batch'.seen[a], row[a]) => Stale(batch.seen[a], row[a])
        BY <2>3 DEF Stale
      <3>2. Live' = Live
        BY <1>1 DEF Live
      <3> QED
        BY <1>1, <2>1, <2>3, <3>1, <3>2 DEF Core, StaleAgain
    <2>5. AllDone'
      <3>1. batch.seen[c] = NotRead /\ NotRead.st # "active"
        BY <1>6 DEF Look, Seen, NotRead, NoRow, c
      <3>2. \A i \in 1 .. Len(batch.outs) : queue[i].asset \in Assets
        BY BatchIs
      <3> QED
        BY <1>1, <1>2, <2>3, <3>1, <3>2 DEF Core, AllDone
    <2> QED
      BY <1>3, <2>4, <2>5 DEF Core
  <1> QED
    BY <1>5, <1>6

\* A task ends as it should, and what it leaves to do has a task behind it.
LEMMA TaskCore ==
    ASSUME Base, Core, Store \/ Erase \/ Compensate, fails' = fails
    PROVE  Core'
  <1> DEFINE n == Len(batch.outs)
             t == queue[n + 1]
  <1>1. /\ n \in Nat /\ n + 1 \in 1 .. batch.size /\ batch.size \in Nat /\ Cur = t
        /\ t.asset \in Assets /\ t.ver \in Versions /\ n + 1 \in 1 .. Len(queue)
        /\ t.kind \in {"upsert", "delete"}
        /\ \A i \in 1 .. batch.size : queue[i].asset \in Assets
    BY BatchIs DEF Store, Erase, Compensate
  <1> HIDE DEF n, t
  <1>2. PICK o \in {"stored", "removed"}, c \in {0, Seen.content} :
           /\ Ends(o, c)
           /\ \/ t.kind = "upsert" /\ o = "stored" /\ Seen.st = "active" /\ c = Seen.content
              \/ t.kind = "delete" /\ o = "removed" /\ c = 0
              \/ t.kind = "upsert" /\ o = "removed" /\ Seen.st # "active" /\ c = 0
    <2>1. fails \in Nat
      BY DEF Base, TypeOK
    <2>2. ~ Fails
      BY <2>1 DEF Fails
    <2> QED
      <3>1. CASE Store
        BY <1>1, <3>1 DEF Store, IsOrphan
      <3>2. CASE Erase
        BY <1>1, <3>2 DEF Erase
      <3>3. CASE Compensate
        BY <1>1, <2>2, <3>3 DEF Compensate, IsOrphan
      <3> QED
        BY <3>1, <3>2, <3>3
  <1>3. Seen = batch.seen[t.asset] /\ Seen # NotRead
    BY <1>1 DEF Store, Erase, Compensate, Seen
  <1>4. UNCHANGED <<row, queue, track, active, shadow, phase>>
    BY <1>2 DEF Ends, index, versions
  <1>5. /\ batch'.size = batch.size /\ batch'.seen = batch.seen /\ Len(batch'.outs) = n + 1
        /\ \A i \in 1 .. n : batch'.outs[i] = batch.outs[i]
        /\ batch'.outs[n + 1] = o
    <2>1. batch.outs \in Seq({"stored", "removed", "retry"})
      BY DEF Base, TypeOK
    <2>2. batch' = [batch EXCEPT !.outs = Append(batch.outs, o)]
      BY <1>2 DEF Ends
    <2>3. batch'.size = batch.size /\ batch'.seen = batch.seen /\ batch'.outs = Append(batch.outs, o)
      BY <2>2 DEF Base, TypeOK
    <2>4. /\ Len(Append(batch.outs, o)) = n + 1
          /\ \A i \in 1 .. n : Append(batch.outs, o)[i] = batch.outs[i]
          /\ Append(batch.outs, o)[n + 1] = o
      BY <2>1 DEF n
    <2> QED
      BY <2>3, <2>4
  <1>6. /\ vec'[t.ver][t.asset] = c
        /\ \A v \in Versions, a \in Assets : v # t.ver \/ a # t.asset => vec'[v][a] = vec[v][a]
    <2>1. vec \in [Versions -> [Assets -> Contents]]
      BY DEF Base, TypeOK
    <2>2. vec' = [vec EXCEPT ![t.ver][t.asset] = c]
      BY <1>1, <1>2 DEF Ends
    <2> QED
      BY <1>1, <2>1, <2>2
  <1>7. Live' = Live /\ Live \subseteq Versions
    BY <1>4 DEF Live, Base, TypeOK
  <1>8. DeletesFollow' /\ StaleAgain'
    BY <1>4, <1>5, <1>7 DEF Core, DeletesFollow, StaleAgain
  <1>9. AllDone'
    <2> SUFFICES ASSUME NEW i \in 1 .. n + 1
                 PROVE  /\ batch'.outs[i] # "retry"
                        /\ batch'.outs[i] = "stored" => batch.seen[queue[i].asset].st = "active"
      BY <1>4, <1>5 DEF AllDone
    <2>1. CASE i = n + 1
      BY <1>2, <1>3, <1>5, <2>1 DEF t
    <2>2. CASE i \in 1 .. n
      BY <1>5, <2>2 DEF Core, AllDone, n
    <2> QED
      BY <1>1, <2>1, <2>2
  <1>10. Covered'
    <2> SUFFICES ASSUME NEW v \in Live, NEW a \in Assets, ~ Behind(queue, a, v, n + 1)
                 PROVE  vec'[v][a] = Want(a) \/ Untouched(v, a)'
      BY <1>4, <1>5, <1>7 DEF Covered, Want
    <2>1. CASE v = t.ver /\ a = t.asset
      <3>1. ~ Behind(queue, a, v, batch.size)
        BY <1>1, BehindNext
      <3>2. ~ Stale(batch.seen[a], row[a])
        BY <1>1, <2>1, <3>1 DEF Core, StaleAgain, t
      <3>3. Seen.st = row[a].st /\ Seen.content = row[a].content
        BY <1>3, <2>1, <3>2 DEF Stale
      <3>4. t.kind = "delete" => row[a].st # "active"
        BY <1>1, <2>1 DEF Core, DeletesFollow, t
      <3>5. c = Want(a)
        BY <1>2, <3>3, <3>4 DEF Want
      <3> QED
        BY <1>6, <2>1, <3>5
    <2>2. CASE v # t.ver \/ a # t.asset
      <3>1. ~ Behind(queue, a, v, n)
        BY <1>1, <2>2, BehindNext DEF t
      <3>2. vec'[v][a] = vec[v][a]
        BY <1>6, <1>7, <2>2
      <3>3. Untouched(v, a) => Untouched(v, a)'
        BY <1>4, <3>2 DEF Untouched
      <3> QED
        BY <3>1, <3>2, <3>3 DEF Core, Covered, n
    <2> QED
      BY <2>1, <2>2
  <1> QED
    BY <1>8, <1>9, <1>10 DEF Core

\* The worker's transaction is lost.
LEMMA CrashCore ==
    ASSUME Base, Core, Crash \/ Restart, phase' # "torn"
    PROVE  Core'
  <1>1. UNCHANGED <<row, queue, vec, active>> /\ batch' = Idle /\ shadow' \in {shadow, None}
    BY DEF Crash, Restart, index, versions
  <1>2. Idle.size = 0 /\ Len(Idle.outs) = 0
    BY DEF Idle
  <1>3. Live' \subseteq Live
    BY <1>1 DEF Live
  <1>4. DeletesFollow' /\ StaleAgain' /\ AllDone'
    BY <1>1, <1>2, <1>3 DEF Core, DeletesFollow, StaleAgain, AllDone
  <1>5. Covered'
    <2> SUFFICES ASSUME NEW v \in Live', NEW a \in Assets, ~ Behind(queue, a, v, 0)
                 PROVE  vec[v][a] = Want(a) \/ Untouched(v, a)'
      BY <1>1, <1>2 DEF Covered, Want
    <2>1. v \in Live
      BY <1>3
    <2>2. Len(batch.outs) \in Nat /\ 0 \in Nat /\ 0 <= Len(batch.outs)
      BY BatchIs
    <2>3. ~ Behind(queue, a, v, Len(batch.outs))
      BY <2>2, BehindNext
    <2> QED
      BY <1>1, <2>1, <2>3 DEF Core, Covered, Untouched
  <1> QED
    BY <1>4, <1>5 DEF Core

\* When no task has to be tried again, a commit leaves what was behind the batch.
LEMMA QueueLeftIs ==
    ASSUME Base, Again = {}
    PROVE  LET q == QueueLeft
           IN  /\ Len(q) = Len(queue) - batch.size
               /\ \A i \in 1 .. Len(q) : q[i] = queue[batch.size + i]
  <1> DEFINE x == Kept([i \in 1 .. batch.size |-> [queue[i] EXCEPT !.tries = Tries(i)]], Again)
             y == SubSeq(queue, batch.size + 1, Len(queue))
  <1>1. x \in Seq(Tasks) /\ Len(x) = 0
    BY FS_EmptySet DEF Kept
  <1>2. /\ Len(queue) \in Nat /\ batch.size \in 0 .. Len(queue) /\ batch.size \in Nat
        /\ \A i \in 1 .. Len(queue) : queue[i] \in Tasks
    BY BatchIs DEF TasksOf
  <1>3. /\ y \in Seq(Tasks) /\ Len(y) = Len(queue) - batch.size
        /\ \A i \in 1 .. Len(queue) - batch.size : y[i] = queue[batch.size + i]
    <2> DEFINE m == batch.size + 1
    <2>1. m \in Int /\ Len(queue) \in Int /\ \A i \in m .. Len(queue) : queue[i] \in Tasks
      BY <1>2
    <2> HIDE DEF m
    <2>2. /\ y \in Seq(Tasks)
          /\ Len(y) = IF m <= Len(queue) THEN Len(queue) - m + 1 ELSE 0
          /\ \A i \in 1 .. Len(queue) - m + 1 : y[i] = queue[m + i - 1]
      BY <2>1, SubSeqProperties DEF m
    <2> HIDE DEF x, y
    <2>3. Len(y) = Len(queue) - batch.size
      BY <1>2, <2>2 DEF m
    <2>4. ASSUME NEW i \in 1 .. Len(queue) - batch.size PROVE y[i] = queue[batch.size + i]
      <3>1. i \in 1 .. Len(queue) - m + 1 /\ m + i - 1 = batch.size + i
        BY <1>2 DEF m
      <3> QED
        BY <2>2, <3>1
    <2> QED
      BY <2>2, <2>3, <2>4
  <1> HIDE DEF x, y
  <1>4. x \o y = y
    <2>1. x = << >>
      BY <1>1
    <2> QED
      BY <1>3, <2>1, ConcatEmptySeq
  <1>5. QueueLeft = y
    BY <1>4 DEF QueueLeft, x, y
  <1> QED
    BY <1>3, <1>5

\* A set of places has a last one.
LEMMA LastPlace ==
    ASSUME NEW n \in Nat, NEW I \in SUBSET (1 .. n), I # {}
    PROVE  \E i \in I : \A j \in I : j <= i
  <1> DEFINE c == Cardinality(I)
  <1>1. /\ c \in Nat
        /\ \A k \in 1 .. c : Place(I, k) \in I
        /\ \A i \in I : \E k \in 1 .. c : Place(I, k) = i
        /\ \A k, l \in 1 .. c : k < l => Place(I, k) < Place(I, l)
    BY Places
  <1> HIDE DEF c
  <1>2. c \in 1 .. c
    <2>1. \E k \in 1 .. c : TRUE
      BY <1>1
    <2> QED
      BY <1>1, <2>1
  <1>3. ASSUME NEW j \in I PROVE j <= Place(I, c)
    <2>1. PICK k \in 1 .. c : Place(I, k) = j
      BY <1>1
    <2>2. k = c \/ k < c
      BY <1>1
    <2>3. j \in Nat /\ Place(I, c) \in Nat
      <3>1. \A i \in I : i \in Nat
        OBVIOUS
      <3> QED
        BY <1>1, <1>2, <3>1
    <2> QED
      BY <1>1, <1>2, <2>1, <2>2, <2>3
  <1> QED
    BY <1>1, <1>2, <1>3

\* The batch is committed.
LEMMA CommitCore ==
    ASSUME Base, Core, Commit
    PROVE  Core'
  <1> DEFINE n == batch.size
  <1>1. /\ n \in Nat /\ n <= Len(queue) /\ Len(queue) \in Nat /\ Len(batch.outs) = n
        /\ \A i \in 1 .. Len(queue) : queue[i].asset \in Assets
    BY BatchIs DEF Commit, Working
  <1>2. Again = {}
    BY <1>1 DEF Core, AllDone, Again
  <1>3. /\ Len(queue') = Len(queue) - n /\ Len(queue') \in Nat
        /\ \A i \in 1 .. Len(queue') : queue'[i] = queue[n + i]
    BY <1>1, <1>2, QueueLeftIs DEF Commit
  <1>4. /\ UNCHANGED <<vec, active, shadow, phase>> /\ Live' = Live
        /\ batch'.size = 0 /\ Len(batch'.outs) = 0
    <2>1. UNCHANGED <<vec, active, shadow, phase>> /\ batch' = Idle
      BY DEF Commit, versions
    <2> QED
      BY <2>1 DEF Idle, Live
  <1>5. \A a \in Assets : row'[a].st = row[a].st /\ row'[a].content = row[a].content
    <2>1. ASSUME NEW a \in Assets
          PROVE  LET r == [row[a] EXCEPT !.emb = batch.seen[a].ver]
                 IN  r.st = row[a].st /\ r.content = row[a].content
      <3>1. row[a] \in Rows
        BY DEF Base, TypeOK
      <3> QED
        BY <3>1 DEF Rows
    <2>2. row' = [a \in Assets |->
                    IF Pinned(a) THEN [row[a] EXCEPT !.emb = batch.seen[a].ver] ELSE row[a]]
      BY DEF Commit
    <2> QED
      BY <2>1, <2>2
  <1> HIDE DEF n
  <1>6. ASSUME NEW a, NEW v, NEW m \in Nat, Behind(queue, a, v, n + m)
        PROVE  Behind(queue', a, v, m)
    <2>1. PICK i \in n + m + 1 .. Len(queue) : queue[i].asset = a /\ queue[i].ver = v
      BY <1>6 DEF Behind
    <2>2. i - n \in m + 1 .. Len(queue') /\ queue'[i - n] = queue[i]
      BY <1>1, <1>3, <2>1
    <2> QED
      BY <2>1, <2>2 DEF Behind
  <1>7. ASSUME NEW a, NEW v, Behind(queue', a, v, 0) PROVE Behind(queue, a, v, n)
    <2>1. PICK i \in 1 .. Len(queue') : queue'[i].asset = a /\ queue'[i].ver = v
      BY <1>7 DEF Behind
    <2>2. n + i \in n + 1 .. Len(queue) /\ queue'[i] = queue[n + i]
      BY <1>1, <1>3, <2>1
    <2> QED
      BY <2>1, <2>2 DEF Behind
  <1>8. DeletesFollow'
    <2> SUFFICES ASSUME NEW i \in 1 .. Len(queue'), queue'[i].ver \in Live,
                        queue'[i].kind = "delete", row'[queue'[i].asset].st = "active"
                 PROVE  Behind(queue', queue'[i].asset, queue'[i].ver, i)
      BY <1>4 DEF DeletesFollow
    <2>1. n + i \in 1 .. Len(queue) /\ queue'[i] = queue[n + i] /\ i \in Nat
      BY <1>1, <1>3
    <2>2. row[queue[n + i].asset].st = "active"
      BY <1>1, <1>5, <2>1
    <2>3. Behind(queue, queue[n + i].asset, queue[n + i].ver, n + i)
      BY <2>1, <2>2 DEF Core, DeletesFollow
    <2> QED
      BY <1>6, <2>1, <2>3
  <1>9. StaleAgain' /\ AllDone'
    BY <1>4 DEF StaleAgain, AllDone
  <1>10. ASSUME NEW v \in Live, NEW a \in Assets, Untouched(v, a) PROVE Untouched(v, a)'
    <2>1. ~ Behind(queue', a, v, 0)
      <3>1. Behind(queue, a, v, n) => Behind(queue, a, v, 0)
        BY <1>1, BehindNext
      <3> QED
        BY <1>7, <1>10, <3>1 DEF Untouched
    <2>2. \A i \in 1 .. n : ~ (queue[i].asset = a /\ queue[i].ver = v)
      BY <1>1, <1>10 DEF Untouched, Behind
    <2>3. row[a] \in Rows
      BY DEF Base, TypeOK
    <2>4. row'[a].emb # v
      <3>1. CASE Pinned(a)
        <4>1. batch.seen[a].ver # v
          BY <2>2, <3>1 DEF Pinned, n
        <4>2. row'[a] = [row[a] EXCEPT !.emb = batch.seen[a].ver]
          BY <3>1 DEF Commit
        <4> QED
          BY <2>3, <4>1, <4>2 DEF Rows
      <3>2. CASE ~ Pinned(a)
        BY <1>10, <3>2 DEF Commit, Untouched
      <3> QED
        BY <3>1, <3>2
    <2> QED
      BY <1>4, <1>10, <2>1, <2>4 DEF Untouched
  <1>11. Covered'
    <2> SUFFICES ASSUME NEW v \in Live, NEW a \in Assets, ~ Behind(queue', a, v, 0)
                 PROVE  vec[v][a] = Want(a) \/ Untouched(v, a)'
      BY <1>4, <1>5 DEF Covered, Want
    <2>1. ~ Behind(queue, a, v, n)
      BY <1>1, <1>6
    <2> QED
      BY <1>1, <1>10, <2>1 DEF Core, Covered
  <1> QED
    BY <1>8, <1>9, <1>11 DEF Core

\* The tasks of a version that is not in use any more are dropped.
LEMMA DropCore ==
    ASSUME Base, Core, DropRows \/ RollbackMigration
    PROVE  Core'
  <1>1. PICK u \in Versions \ {active} :
           /\ Unlocked(u) /\ queue' = QueueWithout(u)
           /\ vec'[active] = vec[active]
    <2>1. CASE DropRows
      BY <2>1 DEF DropRows, Base, Roles
    <2>2. CASE RollbackMigration
      <3>1. shadow \in Versions \ {active}
        BY <2>2 DEF RollbackMigration, Base, Roles, TypeOK
      <3>2. vec \in [Versions -> [Assets -> Contents]] /\ active \in Versions
        BY DEF Base, TypeOK
      <3> QED
        BY <2>2, <3>1, <3>2 DEF RollbackMigration
    <2> QED
      BY <2>1, <2>2
  <1>2. /\ UNCHANGED <<row, batch, active>> /\ shadow' = None
        /\ Live' = {active} /\ active \in Live
    <2>1. UNCHANGED <<row, batch, active>> /\ shadow' = None
      BY DEF DropRows, RollbackMigration, index, Base, Roles
    <2>2. active # None
      BY EmbeddingAssumption DEF Base, TypeOK
    <2> QED
      BY <2>1, <2>2 DEF Live
  <1>3. /\ Len(queue) \in Nat /\ batch.size \in 0 .. Len(queue) /\ batch.size \in Nat
        /\ Len(batch.outs) \in 0 .. batch.size
    BY BatchIs
  <1>4. /\ Len(queue') \in Nat /\ batch.size <= Len(queue')
        /\ \E e \in [1 .. Len(queue') -> 1 .. Len(queue)] :
              /\ \A k \in 1 .. Len(queue') : queue'[k] = queue[e[k]]
              /\ \A k, l \in 1 .. Len(queue') : k < l => e[k] < e[l]
              /\ \A k \in 1 .. batch.size : e[k] = k
              /\ \A i \in 1 .. Len(queue) :
                    queue[i].ver # u => \E k \in 1 .. Len(queue') : e[k] = i
    <2>1. Base /\ Unlocked(u) /\ queue' = QueueWithout(u) /\ Len(queue) \in Nat
      BY <1>1, <1>3
    <2> QED
      BY <2>1, QueueWithoutIs
  <1>5. PICK e \in [1 .. Len(queue') -> 1 .. Len(queue)] :
              /\ \A k \in 1 .. Len(queue') : queue'[k] = queue[e[k]]
              /\ \A k, l \in 1 .. Len(queue') : k < l => e[k] < e[l]
              /\ \A k \in 1 .. batch.size : e[k] = k
              /\ \A i \in 1 .. Len(queue) :
                    queue[i].ver # u => \E k \in 1 .. Len(queue') : e[k] = i
    BY <1>4
  <1>6. ASSUME NEW a, NEW k \in 1 .. Len(queue'), Behind(queue, a, active, e[k])
        PROVE  Behind(queue', a, active, k)
    <2>1. PICK i \in e[k] + 1 .. Len(queue) : queue[i].asset = a /\ queue[i].ver = active
      BY <1>6 DEF Behind
    <2>2. e[k] \in 1 .. Len(queue) /\ i \in 1 .. Len(queue) /\ e[k] < i
      BY <1>3, <2>1
    <2>3. PICK l \in 1 .. Len(queue') : e[l] = i
      BY <1>1, <1>5, <2>1, <2>2
    <2>4. k < l
      <3>1. ~ l < k /\ l # k
        BY <1>5, <2>2, <2>3
      <3> QED
        BY <3>1
    <2>5. l \in k + 1 .. Len(queue') /\ queue'[l] = queue[i]
      BY <1>4, <1>5, <2>3, <2>4
    <2> QED
      BY <2>1, <2>5 DEF Behind
  <1>7. ASSUME NEW a, NEW n \in 0 .. batch.size, Behind(queue, a, active, n)
        PROVE  Behind(queue', a, active, n)
    <2>1. PICK i \in n + 1 .. Len(queue) : queue[i].asset = a /\ queue[i].ver = active
      BY <1>7 DEF Behind
    <2>2. i \in 1 .. Len(queue) /\ n < i
      BY <1>3, <2>1
    <2>3. PICK k \in 1 .. Len(queue') : e[k] = i
      BY <1>1, <1>5, <2>1, <2>2
    <2>4. ~ k <= n
      <3>1. k <= n => k \in 1 .. batch.size
        BY <1>3
      <3> QED
        BY <1>5, <2>2, <2>3, <3>1
    <2>5. k \in n + 1 .. Len(queue') /\ queue'[k] = queue[i]
      BY <1>3, <1>4, <1>5, <2>3, <2>4
    <2> QED
      BY <2>1, <2>5 DEF Behind
  <1>8. DeletesFollow'
    <2> SUFFICES ASSUME NEW k \in 1 .. Len(queue'), queue'[k].ver = active,
                        queue'[k].kind = "delete", row[queue'[k].asset].st = "active"
                 PROVE  Behind(queue', queue'[k].asset, active, k)
      BY <1>2 DEF DeletesFollow
    <2>1. e[k] \in 1 .. Len(queue) /\ queue'[k] = queue[e[k]]
      BY <1>5
    <2>2. Behind(queue, queue[e[k]].asset, active, e[k])
      BY <1>2, <2>1 DEF Core, DeletesFollow
    <2> QED
      BY <1>6, <2>1, <2>2
  <1>9. \A i \in 1 .. batch.size : queue'[i] = queue[i]
    BY <1>3, <1>4, <1>5
  <1>10. StaleAgain'
    <2> SUFFICES ASSUME NEW i \in 1 .. batch.size, queue[i].ver = active,
                        Stale(batch.seen[queue[i].asset], row[queue[i].asset])
                 PROVE  Behind(queue', queue[i].asset, active, batch.size)
      BY <1>2, <1>9 DEF StaleAgain
    <2>1. Behind(queue, queue[i].asset, active, batch.size)
      BY <1>2 DEF Core, StaleAgain
    <2> QED
      BY <1>3, <1>7, <2>1
  <1>11. AllDone'
    BY <1>2, <1>3, <1>9 DEF Core, AllDone
  <1>12. Covered'
    <2> SUFFICES ASSUME NEW a \in Assets, ~ Behind(queue', a, active, Len(batch.outs))
                 PROVE  vec[active][a] = Want(a) \/ Untouched(active, a)'
      BY <1>1, <1>2 DEF Covered, Want
    <2>1. ~ Behind(queue, a, active, Len(batch.outs))
      BY <1>3, <1>7
    <2>2. Behind(queue', a, active, 0) => Behind(queue, a, active, 0)
      <3> SUFFICES ASSUME NEW k \in 1 .. Len(queue'), queue'[k].asset = a, queue'[k].ver = active
                   PROVE  Behind(queue, a, active, 0)
        BY DEF Behind
      <3>1. e[k] \in 1 .. Len(queue) /\ queue'[k] = queue[e[k]]
        BY <1>5
      <3> QED
        BY <3>1 DEF Behind
    <2>3. Untouched(active, a) => Untouched(active, a)'
      BY <1>1, <1>2, <2>2 DEF Untouched
    <2> QED
      BY <1>2, <2>1, <2>3 DEF Core, Covered
  <1> QED
    BY <1>8, <1>10, <1>11, <1>12 DEF Core

\* The hourly job only reads, and a migration moves on.
LEMMA MoveCore ==
    ASSUME Base, Core,
           \/ ReconcileScan \/ VerifyTotal \/ VerifyCount \/ VerifyOpen
           \/ Switch \/ SwitchRows \/ DropVectors
    PROVE  Core'
  <1>1. UNCHANGED <<queue, batch>> /\ Live' \subseteq Live
    <2>1. CASE Switch
      <3>1. shadow # None
        BY <2>1 DEF Switch, Base, Roles
      <3> QED
        BY <2>1, <3>1 DEF Switch, Live
    <2> QED
      BY <2>1 DEF ReconcileScan, VerifyTotal, VerifyCount, VerifyOpen, SwitchRows, DropVectors,
         versions, Live
  <1>2. /\ \A a \in Assets : row'[a].st = row[a].st /\ row'[a].content = row[a].content
        /\ \A a \in Assets : row'[a].emb \in {row[a].emb, None}
    <2>1. CASE SwitchRows
      <3>1. ASSUME NEW a \in Assets
            PROVE  LET r == [row[a] EXCEPT !.ver = active, !.emb = None]
                   IN  r.st = row[a].st /\ r.content = row[a].content /\ r.emb = None
        <4>1. row[a] \in Rows
          BY DEF Base, TypeOK
        <4> QED
          BY <4>1 DEF Rows
      <3>2. row' = [a \in Assets |-> IF a \in ActiveRows
                                     THEN [row[a] EXCEPT !.ver = active, !.emb = None]
                                     ELSE row[a]]
        BY <2>1 DEF SwitchRows
      <3> QED
        BY <3>1, <3>2
    <2> QED
      BY <2>1 DEF ReconcileScan, VerifyTotal, VerifyCount, VerifyOpen, Switch, DropVectors, index
  <1>3. \A i \in 1 .. Len(queue) : queue[i].asset \in Assets
    BY BatchIs
  <1>4. batch.size \in 0 .. Len(queue) /\ Len(queue) \in Nat
    BY BatchIs
  <1>5. DeletesFollow' /\ AllDone'
    BY <1>1, <1>2, <1>3 DEF Core, DeletesFollow, AllDone
  <1>6. StaleAgain'
    BY <1>1, <1>2, <1>3, <1>4 DEF Core, StaleAgain, Stale
  <1>7. ASSUME NEW v \in Live' PROVE vec'[v] = vec[v]
    <2>1. CASE DropVectors
      <3>1. old # active /\ shadow = None /\ active' = active /\ shadow' = shadow
        BY <2>1 DEF DropVectors, Base, Roles
      <3>2. v # old
        BY <3>1 DEF Live
      <3> QED
        BY <1>1, <2>1, <3>2 DEF DropVectors, Base, TypeOK, Live
    <2> QED
      BY <2>1 DEF ReconcileScan, VerifyTotal, VerifyCount, VerifyOpen, Switch, SwitchRows
  <1>8. Covered'
    <2> SUFFICES ASSUME NEW v \in Live', NEW a \in Assets,
                        ~ Behind(queue, a, v, Len(batch.outs))
                 PROVE  vec[v][a] = Want(a) \/ Untouched(v, a)'
      BY <1>1, <1>2, <1>7 DEF Covered, Want
    <2>1. v \in Live /\ v # None
      BY <1>1 DEF Live
    <2>2. Untouched(v, a) => Untouched(v, a)'
      BY <1>1, <1>2, <1>7, <2>1 DEF Untouched
    <2> QED
      BY <2>1, <2>2 DEF Core, Covered
  <1> QED
    BY <1>5, <1>6, <1>8 DEF Core

\* A migration starts to a version that was not tried: nothing is there.
LEMMA StartCore ==
    ASSUME Base, Core, Reuse = FALSE, NEW u \in Versions, StartMigration(u)
    PROVE  Core'
  <1>1. /\ UNCHANGED <<row, queue, track, vec, batch, active>>
        /\ shadow' = u /\ phase' = "shadow" /\ u \notin tried
    BY DEF StartMigration, index
  <1>2. Live' = {active, u} /\ active \in Live
    <2>1. active # None /\ u # None
      BY EmbeddingAssumption DEF Base, TypeOK
    <2> QED
      BY <1>1, <2>1 DEF Live
  <1>3. /\ \A i \in 1 .. Len(queue) : queue[i].ver # u
        /\ batch.size \in 0 .. Len(queue) /\ Len(queue) \in Nat
    BY <1>1, BatchIs
  <1>4. \A a \in Assets : row[a].emb # u /\ vec[u][a] = 0
    BY <1>1 DEF Base, Untried
  <1>5. DeletesFollow'
    BY <1>1, <1>2, <1>3 DEF Core, DeletesFollow
  <1>6. StaleAgain'
    BY <1>1, <1>2, <1>3 DEF Core, StaleAgain
  <1>7. AllDone'
    BY <1>1 DEF Core, AllDone
  <1>8. Covered'
    <2> SUFFICES ASSUME NEW v \in {active, u}, NEW a \in Assets,
                        ~ Behind(queue, a, v, Len(batch.outs))
                 PROVE  vec[v][a] = Want(a) \/ Untouched(v, a)'
      BY <1>1, <1>2 DEF Covered, Want
    <2>1. CASE v = active
      BY <1>1, <1>2, <2>1 DEF Core, Covered, Untouched
    <2>2. CASE v = u
      <3>1. ~ Behind(queue, a, u, 0)
        BY <1>3 DEF Behind
      <3> QED
        BY <1>1, <1>4, <2>2, <3>1 DEF Untouched
    <2> QED
      BY <2>1, <2>2
  <1> QED
    BY <1>5, <1>6, <1>7, <1>8 DEF Core

\* The invariant holds at first, and every step keeps it: after a fault nothing but
\* Base is claimed, and the number of faults does not go down.
LEMMA InvHolds ==
    ASSUME Reuse = FALSE
    PROVE  (Init => Inv) /\ (Inv /\ [Next]_vars => Inv')
  <1>1. Init => Inv
    <2> SUFFICES ASSUME Init PROVE Inv
      OBVIOUS
    <2>1. Base
      BY InitBase
    <2>2. Len(queue) = 0 /\ batch.size = 0 /\ Len(batch.outs) = 0 /\ shadow = None
      BY DEF Init, Idle
    <2>3. Covered
      <3>1. First \in Versions
        BY EmbeddingAssumption
      <3> QED
        BY <3>1 DEF Init, Covered, Live, Want, NoRow
    <2>4. DeletesFollow /\ StaleAgain /\ AllDone
      BY <2>2 DEF DeletesFollow, StaleAgain, AllDone
    <2> QED
      BY <2>1, <2>3, <2>4 DEF Inv, Core
  <1>2. Inv /\ [Next]_vars => Inv'
    <2> SUFFICES ASSUME Base, Core, [Next]_vars, fails' = 0, fails = 0, phase' # "torn" PROVE Core'
      <3>1. ASSUME Base, [Next]_vars, fails' = 0 PROVE fails = 0
        <4>1. fails \in Nat
          BY <3>1 DEF Base, TypeOK
        <4>2. fails' \in {fails, fails + 1}
          BY <3>1 DEF Next, vars, limits, Edit, Delete, ReindexModule, Claim, Look, Store, Erase,
             Compensate, Fail, Ends, Fails, Commit, Crash, ReconcileScan, ReconcileQueue,
             StartMigration, MigrateBatch, VerifyTotal, VerifyCount, VerifyOpen, Switch, SwitchRows,
             DropVectors, DropRows,
             RollbackMigration, Restart
        <4> QED
          BY <3>1, <4>1, <4>2
      <3>2. ASSUME [Next]_vars, phase = "torn" PROVE phase' = "torn"
        BY <3>2 DEF Next, vars, versions, Edit, Delete, ReindexModule, Claim, Look, Store, Erase,
           Compensate, Fail, Ends, Commit, Crash, ReconcileScan, ReconcileQueue,
           StartMigration, MigrateBatch, VerifyTotal, VerifyCount, VerifyOpen, Switch, SwitchRows,
           DropVectors, DropRows, RollbackMigration, Restart
      <3> QED
        BY <3>1, <3>2, NextBase DEF Inv
    <2>1. CASE UNCHANGED vars
      <3>1. UNCHANGED <<row, queue, track, vec, batch, active, shadow, phase>>
        BY <2>1 DEF vars, index, versions
      <3> QED
        BY <3>1 DEF Core, DeletesFollow, StaleAgain, Covered, AllDone, Live, Want,
           Untouched
    <2>2. CASE Next
      <3>1. ~ Fail
        BY DEF Fail, Fails
      <3> QED
        BY <2>2, <3>1, WritesCore, QueueCore, ReadCore, TaskCore, CommitCore, CrashCore,
           MoveCore, StartCore, DropCore DEF Next
    <2> QED
      BY <2>1, <2>2
  <1> QED
    BY <1>1, <1>2

\* When no task is open and no call has failed, no vector that recall searches is out
\* of date, and what has none has no embedding of the active version: for any assets,
\* versions, batches, lost transactions and restarts but within switch_active, while no
\* version is migrated to twice.
THEOREM AtRestIsFresh ==
    ASSUME Reuse = FALSE
    PROVE  Spec => []AtRestFresh
  <1>1. Inv => AtRestFresh
    <2> SUFFICES ASSUME Inv, queue = <<>>, fails = 0, phase # "torn", NEW a \in Assets
                 PROVE  vec[active][a] = Want(a) \/ Untouched(active, a)
      BY DEF AtRestFresh, Want, Untouched
    <2>1. active \in Live
      BY EmbeddingAssumption DEF Inv, Base, TypeOK, Live
    <2>2. ~ Behind(queue, a, active, Len(batch.outs))
      <3>1. Len(queue) = 0
        OBVIOUS
      <3>2. Len(batch.outs) \in Nat
        BY BatchIs DEF Inv
      <3> QED
        BY <3>1, <3>2 DEF Behind
    <2> QED
      BY <2>1, <2>2 DEF Inv, Core, Covered
  <1> QED
    BY <1>1, InvHolds, PTL DEF Spec

--------------------------------------------------------------------------------
(* PersonalDistill *)
\* A listing under way: the watermark it read, and what it has and has not seen.
Listing == [pc     : {"list"},
            before : Nat,
            todo   : SUBSET [id : Sessions, key : Nat],
            seen   : SUBSET [id : Sessions, key : Nat, at : Nat]]

\* A session is as the listing will have it, or the listing has missed it.
Followed(s) ==
    \/ mtime[s] = 0
    \/ s \in unseen
    \/ s \in Waiting
    \/ \E x \in job.seen : x.id = s /\ x.at = mtime[s]

\* No session is listed twice.
SeenOnce ==
    /\ \A x, y \in job.todo : x.id = y.id => x = y
    /\ \A x, y \in job.seen : x.id = y.id => x = y
    /\ \A x \in job.todo, y \in job.seen : x.id # y.id

\* What a listing knows while the tools write on.
ListInv ==
    job.pc = "list" =>
        /\ job \in Listing /\ SeenOnce
        /\ job.before <= mark
        /\ \A x \in since : x[2] <= job.before
        /\ \A x \in job.seen : x.at <= now
        /\ \A s \in Sessions : Followed(s)

\* The watermark is the file time of something handed out, never ahead of the last
\* write; what was handed out since a misread is as old as it.
CollectInv ==
    /\ "pc" \in DOMAIN job
    /\ now \in Nat /\ mark \in Nat /\ mark <= now
    /\ mtime \in [Sessions -> Nat]
    /\ \A s \in Sessions : mtime[s] <= now
    /\ \A x \in since : x[2] \in Nat /\ x[2] <= mark
    /\ mark # 0 => mark \in taken
    /\ NonePassed
    /\ ListInv

\* The actions that list nothing, collect nothing and write no session.
Elsewhere ==
    /\ UNCHANGED files
    /\ "pc" \in DOMAIN job =>
           /\ "pc" \in DOMAIN job'
           /\ job' # job => job'.pc # "list" /\ (job.pc = "list" => job'.pc # "light")

\* The actions of the collector and of the tools that write the sessions.
Collecting ==
    \/ \E s \in Sessions : Write(s)
    \/ \E s \in Sessions : Unlink(s)
    \/ \E readable \in BOOLEAN : CollectStart(readable)
    \/ \E x \in job.todo : job.pc = "list" /\ (List(x) \/ Skip(x))
    \/ \E composite \in BOOLEAN : Collect(composite)

\* All other actions leave the sessions and the watermark alone.
LEMMA Steps == DistillNext => Collecting \/ Elsewhere
<1> SUFFICES ASSUME DistillNext PROVE Collecting \/ Elsewhere
  OBVIOUS
<1>1. CASE CollectNone \/ Converse \/ NothingSaid
  BY <1>1 DEF CollectNone, Converse, NothingSaid, Elsewhere, Nothing
<1>2. CASE Light \/ Rem
  BY <1>2 DEF Light, Rem, Elsewhere
<1>3. CASE DeepStep
  BY <1>3 DEF DeepStep, Deep, Done, Elsewhere
<1>4. CASE DeepEnds \/ ProcessPending \/ ProcessEnds \/ DeleteCandidate
  BY <1>4 DEF DeepEnds, ProcessPending, ProcessEnds, DeleteCandidate, Elsewhere, Nothing
<1>5. CASE TryAny
  BY <1>5 DEF TryAny, Try, AfterTry, Elsewhere
<1>6. CASE NextDay \/ (\E k \in 1 .. 2 : ChargeRead(k)) \/ ChargeAdd
  BY <1>6 DEF NextDay, ChargeRead, ChargeAdd, Elsewhere
<1>7. CASE DistillCrash
  BY <1>7 DEF DistillCrash, Elsewhere, Nothing
<1>8. CASE ListStep
  BY <1>8 DEF ListStep, Collecting
<1> QED
  BY <1>1, <1>2, <1>3, <1>4, <1>5, <1>6, <1>7, <1>8 DEF DistillNext, Collecting

\* Before the first run no watermark passed a session.
LEMMA CollectInit == DistillInit => CollectInv
BY DataAssumption DEF DistillInit, CollectInv, ListInv, NonePassed, Nothing

\* A tool that writes a session behind a listing leaves it among those missed.
LEMMA WriteStep ==
    ASSUME CollectInv, NEW s \in Sessions, Write(s)
    PROVE  CollectInv'
<1>1. now' \in Nat /\ now' >= now /\ now' # 0
  BY DataAssumption DEF Write, CollectInv
<1>2. mtime' = [mtime EXCEPT ![s] = now'] /\ mark' = mark /\ taken' = taken /\ since' = since
      /\ job' = job
  BY DEF Write
<1>3. /\ mtime' \in [Sessions -> Nat]
      /\ \A u \in Sessions : mtime'[u] = IF u = s THEN now' ELSE mtime[u]
  BY <1>1, <1>2 DEF CollectInv
<1>4. \A u \in Sessions : mtime'[u] <= now'
  BY <1>1, <1>3 DEF CollectInv
<1>5. \A u \in Sessions : u # s => (u \in unseen' <=> u \in unseen)
  BY DEF Write
<1>6. NonePassed'
  <2> SUFFICES ASSUME NEW u \in Sessions, mtime'[u] # 0, mtime'[u] <= mark
               PROVE  mtime'[u] \in taken \/ u \in unseen'
    BY <1>2 DEF NonePassed
  <2>1. CASE u = s
    BY <1>1, <1>3, <2>1 DEF CollectInv
  <2>2. CASE u # s
    BY <1>3, <1>5, <2>2 DEF CollectInv, NonePassed
  <2> QED  BY <2>1, <2>2
<1>7. ListInv'
  <2> SUFFICES ASSUME job.pc = "list" PROVE ListInv'
    BY <1>2 DEF ListInv
  <2>1. job \in Listing /\ job.before <= mark /\ \A x \in since : x[2] <= job.before
    BY DEF CollectInv, ListInv
  <2>2. \A x \in job.seen : x.at <= now'
    <3> SUFFICES ASSUME NEW x \in job.seen PROVE x.at <= now'
      OBVIOUS
    <3>1. x.at \in Nat /\ x.at <= now
      BY <2>1 DEF CollectInv, ListInv, Listing
    <3> QED  BY <1>1, <3>1 DEF CollectInv
  <2>3. ASSUME NEW u \in Sessions PROVE Followed(u)'
    <3>1. CASE u = s
      <4>1. s \in Waiting \/ s \in unseen'
        BY DEF Write
      <4> QED  BY <1>2, <3>1, <4>1 DEF Followed, Waiting
    <3>2. CASE u # s
      <4>1. Followed(u)
        BY DEF CollectInv, ListInv
      <4> QED  BY <1>2, <1>3, <1>5, <3>2, <4>1 DEF Followed, Waiting
    <3> QED  BY <3>1, <3>2
  <2>4. SeenOnce'
    BY <1>2 DEF CollectInv, ListInv, SeenOnce
  <2> QED  BY <1>2, <2>1, <2>2, <2>3, <2>4 DEF ListInv
<1> QED  BY <1>1, <1>2, <1>3, <1>4, <1>6, <1>7 DEF CollectInv

\* A session that is removed is no longer there to be passed.
LEMMA UnlinkStep ==
    ASSUME CollectInv, NEW s \in Sessions, Unlink(s)
    PROVE  CollectInv'
<1>1. /\ mtime' = [mtime EXCEPT ![s] = 0] /\ unseen' = unseen \ {s}
      /\ now' = now /\ mark' = mark /\ taken' = taken /\ since' = since /\ job' = job
  BY DEF Unlink
<1>2. /\ mtime' \in [Sessions -> Nat]
      /\ \A u \in Sessions : mtime'[u] = IF u = s THEN 0 ELSE mtime[u]
  BY <1>1 DEF CollectInv
<1>3. \A u \in Sessions : mtime'[u] <= now'
  BY <1>1, <1>2 DEF CollectInv
<1>4. NonePassed'
  BY <1>1, <1>2 DEF CollectInv, NonePassed
<1>5. ListInv'
  <2>1. ASSUME NEW u \in Sessions, Followed(u) PROVE Followed(u)'
    BY <1>1, <1>2, <2>1 DEF Followed, Waiting
  <2>2. SeenOnce => SeenOnce'
    BY <1>1 DEF SeenOnce
  <2> QED  BY <1>1, <2>1, <2>2 DEF CollectInv, ListInv
<1> QED  BY <1>1, <1>2, <1>3, <1>4, <1>5 DEF CollectInv

\* A listing starts with every session before it, and with the watermark or 0.
LEMMA StartListing ==
    ASSUME CollectInv, NEW readable \in BOOLEAN, CollectStart(readable)
    PROVE  CollectInv'
<1> DEFINE before == IF readable THEN mark ELSE 0
           todo   == {[id |-> s, key |-> mtime[s]] : s \in {x \in Sessions : mtime[x] # 0}}
<1>1. /\ now' = now /\ mtime' = mtime /\ mark' = mark /\ taken' = taken /\ unseen' = unseen
      /\ since' = IF readable THEN since ELSE {}
      /\ job' = [pc |-> "list", before |-> before, todo |-> todo, seen |-> {}]
  BY DEF CollectStart
<1>2. before \in Nat /\ before <= mark /\ \A x \in since' : x[2] <= before
  BY <1>1 DEF CollectInv
<1>3. todo \in SUBSET [id : Sessions, key : Nat]
  BY DEF CollectInv
<1>4. job'.todo = todo /\ job'.before = before /\ job'.seen = {} /\ job' \in Listing
      /\ "pc" \in DOMAIN job'
  <2> HIDE DEF before, todo
  <2> QED  BY <1>1, <1>2, <1>3 DEF Listing
<1>5. ASSUME NEW s \in Sessions PROVE Followed(s)'
  <2>1. CASE mtime[s] = 0
    BY <1>1, <2>1 DEF Followed
  <2>2. CASE mtime[s] # 0
    <3>1. [id |-> s, key |-> mtime[s]] \in todo
      BY <2>2
    <3>2. [id |-> s, key |-> mtime[s]].id = s
      OBVIOUS
    <3>3. s \in {x.id : x \in todo}
      BY <3>1, <3>2
    <3>4. s \in Waiting'
      BY <1>4, <3>3 DEF Waiting
    <3> QED  BY <3>4 DEF Followed
  <2> QED  BY <2>1, <2>2
<1>6. SeenOnce'
  <2>1. ASSUME NEW x \in todo, NEW y \in todo, x.id = y.id PROVE x = y
    <3>1. PICK s \in Sessions : x = [id |-> s, key |-> mtime[s]]
      OBVIOUS
    <3>2. PICK u \in Sessions : y = [id |-> u, key |-> mtime[u]]
      OBVIOUS
    <3> QED  BY <2>1, <3>1, <3>2
  <2> HIDE DEF todo
  <2> QED  BY <1>4, <2>1 DEF SeenOnce
<1>8. ListInv'
  <2> HIDE DEF before, todo
  <2> QED  BY <1>1, <1>2, <1>4, <1>5, <1>6 DEF ListInv
<1>7. NonePassed'
  BY <1>1 DEF CollectInv, NonePassed
<1> QED  BY <1>1, <1>4, <1>8, <1>7 DEF CollectInv

\* One session is looked at again, or skipped.
LEMMA ListingStep ==
    ASSUME CollectInv, NEW x \in job.todo, job.pc = "list", List(x) \/ Skip(x)
    PROVE  CollectInv'
<1>1. job \in Listing /\ x \in [id : Sessions, key : Nat]
  BY DEF CollectInv, ListInv, Listing
<1>2. now' = now /\ mtime' = mtime /\ mark' = mark /\ taken' = taken /\ since' = since
      /\ unseen \subseteq unseen'
  BY DEF List, Skip, files
<1> DEFINE s == x.id
           more == [id |-> s, key |-> x.key, at |-> mtime[s]]
<1>3. s \in Sessions /\ mtime[s] \in Nat /\ mtime[s] <= now
  BY <1>1 DEF CollectInv
<1>4. /\ job' \in Listing /\ job'.pc = "list" /\ "pc" \in DOMAIN job'
      /\ job'.before = job.before /\ job'.todo = job.todo \ {x}
      /\ job.seen \subseteq job'.seen
      /\ \A y \in job'.seen : y \in job.seen \/ y = more
  <2>1. CASE List(x) /\ mtime[s] # 0
    <3>1. job' = [job EXCEPT !.todo = @ \ {x}, !.seen = @ \cup {more}]
      BY <2>1 DEF List
    <3>2. more \in [id : Sessions, key : Nat, at : Nat]
      BY <1>1, <1>3
    <3> HIDE DEF more
    <3> QED  BY <1>1, <3>1, <3>2 DEF Listing
  <2>2. CASE List(x) /\ mtime[s] = 0
    <3>1. job' = [job EXCEPT !.todo = @ \ {x}, !.seen = @]
      BY <2>2 DEF List
    <3> QED  BY <1>1, <3>1 DEF Listing
  <2>3. CASE Skip(x)
    <3>1. job' = [job EXCEPT !.todo = @ \ {x}]
      BY <2>3 DEF Skip
    <3> QED  BY <1>1, <3>1 DEF Listing
  <2> QED  BY <2>1, <2>2, <2>3
<1>5. \A y \in job'.seen : y.at <= now
  <2> SUFFICES ASSUME NEW y \in job'.seen PROVE y.at <= now
    OBVIOUS
  <2>1. CASE y \in job.seen
    BY <2>1 DEF CollectInv, ListInv
  <2>2. CASE y = more
    BY <1>3, <2>2
  <2> QED  BY <1>4, <2>1, <2>2
<1>6. ASSUME NEW u \in Sessions PROVE Followed(u)'
  <2>1. Followed(u)
    BY DEF CollectInv, ListInv
  <2>2. CASE u # s \/ u \notin Waiting
    <3>1. u \in Waiting => u \in Waiting'
      <4> SUFFICES ASSUME NEW y \in job.todo, u = y.id, u # s PROVE u \in Waiting'
        BY <2>2 DEF Waiting
      <4>1. y \in job'.todo
        BY <1>4
      <4> QED  BY <4>1 DEF Waiting
    <3> QED  BY <1>2, <1>4, <2>1, <3>1 DEF Followed
  <2>3. CASE u = s /\ mtime[s] # 0
    <3>1. CASE List(x)
      <4>1. job' = [job EXCEPT !.todo = @ \ {x}, !.seen = @ \cup {more}]
        BY <2>3, <3>1 DEF List
      <4>2. more \in job'.seen
        <5> HIDE DEF more
        <5> QED  BY <1>1, <4>1 DEF Listing
      <4>3. more.id = u /\ more.at = mtime'[u]
        BY <1>2, <2>3
      <4> QED  BY <4>2, <4>3 DEF Followed
    <3>2. CASE Skip(x)
      BY <2>3, <3>2 DEF Skip, Followed
    <3> QED  BY <3>1, <3>2
  <2>4. CASE u = s /\ mtime[s] = 0
    BY <1>2, <2>4 DEF Followed
  <2> QED  BY <2>2, <2>3, <2>4
<1>9. SeenOnce'
  <2>1. SeenOnce
    BY DEF CollectInv, ListInv
  <2>2. \A y \in job.seen : y.id # s
    BY <2>1 DEF SeenOnce
  <2>3. \A y \in job'.todo : y \in job.todo /\ y.id # s
    BY <1>4, <2>1 DEF SeenOnce
  <2>4. more.id = s
    OBVIOUS
  <2> HIDE DEF s, more
  <2> QED  BY <1>4, <2>1, <2>2, <2>3, <2>4 DEF SeenOnce
<1>7. ListInv'
  <2> HIDE DEF s, more
  <2> QED  BY <1>2, <1>4, <1>5, <1>6, <1>9 DEF CollectInv, ListInv
<1>8. NonePassed'
  BY <1>2 DEF CollectInv, NonePassed
<1> QED  BY <1>2, <1>4, <1>7, <1>8 DEF CollectInv

\* The watermark moves to the newest of what is handed out, and what it passes was
\* handed out, is as old, or was not seen as it is.
LEMMA CollectKeeps ==
    ASSUME CollectInv, NEW composite \in BOOLEAN, Collect(composite)
    PROVE  CollectInv'
<1> DEFINE new == Newer(job.seen, job.before)
<1>1. job.pc = "list" /\ job.todo = {} /\ now' = now /\ mtime' = mtime
  BY DEF Collect
<1>2. job \in Listing /\ job.before <= mark /\ (\A x \in job.seen : x.at <= now)
      /\ \A x \in since : x[2] <= job.before
  BY <1>1 DEF CollectInv, ListInv
<1>3. PICK S \in Batches(new, composite) :
          /\ mark' \in {x.at : x \in S} /\ \A x \in S : x.at <= mark'
          /\ taken' = taken \cup {x.at : x \in S}
          /\ since' = since \cup Stamped(S)
          /\ job' = [pc |-> "light", batch |-> {x.id : x \in S}]
  BY DEF Collect
<1>4. S \subseteq new /\ \A a \in S, b \in new \ S : SortKey(a, composite) <= SortKey(b, composite)
  BY <1>3 DEF Batches
<1>5. \A x \in new : x \in job.seen /\ x.at > job.before
  BY DEF Newer
<1>6. PICK top \in S : mark' = top.at
  BY <1>3
<1>7. mark' \in Nat /\ mark' <= now /\ mark' > job.before
  BY <1>2, <1>4, <1>5, <1>6 DEF Listing
<1>8. mark' \in taken'
  BY <1>3, <1>6
<1>9. \A x \in since' : x[2] \in Nat /\ x[2] <= mark'
  <2> SUFFICES ASSUME NEW x \in since' PROVE x[2] \in Nat /\ x[2] <= mark'
    OBVIOUS
  <2>1. CASE x \in since
    BY <1>2, <1>7, <2>1 DEF CollectInv, Listing
  <2>2. CASE x \in Stamped(S)
    <3>1. PICK y \in S : x = <<y.id, y.at>>
      BY <2>2 DEF Stamped
    <3>2. y.at \in Nat /\ y.at <= mark'
      BY <1>2, <1>3, <1>4, <1>5 DEF Listing
    <3> QED  BY <3>1, <3>2
  <2> QED  BY <1>3, <2>1, <2>2
<1>10. NonePassed'
  <2> SUFFICES ASSUME NEW u \in Sessions, mtime[u] # 0, mtime[u] <= mark'
               PROVE  mtime[u] \in taken' \/ u \in unseen'
    BY <1>1 DEF NonePassed
  <2>1. taken \subseteq taken' /\ unseen \subseteq unseen'
    BY <1>3 DEF Collect
  <2>2. CASE u \in unseen
    BY <2>1, <2>2
  <2>3. CASE mtime[u] <= job.before
    BY <1>2, <2>1, <2>3 DEF CollectInv, NonePassed, Listing
  <2>4. CASE u \notin unseen /\ mtime[u] > job.before
    <3>1. u \notin Waiting
      BY <1>1 DEF Waiting
    <3>2. PICK x \in job.seen : x.id = u /\ x.at = mtime[u]
      BY <1>1, <2>4, <3>1 DEF CollectInv, ListInv, Followed
    <3>3. x \in new
      BY <2>4, <3>2 DEF Newer
    <3>4. CASE OutOfOrder(composite)
      <4>1. unseen' = unseen \cup {y.id : y \in job.seen}
        BY <3>4 DEF Collect
      <4> QED  BY <3>2, <4>1
    <3>5. CASE x \in S
      BY <1>3, <3>2, <3>5
    <3>6. CASE x \notin S /\ ~OutOfOrder(composite)
      <4>1. \A y \in job.seen : SortKey(y, composite) = y.at
        BY <3>6 DEF OutOfOrder, SortKey
      <4>2. top.at <= x.at
        BY <1>4, <1>5, <1>6, <3>2, <3>3, <3>6, <4>1
      <4>3. mtime[u] = mark'
        BY <1>6, <1>7, <3>2, <4>2 DEF CollectInv
      <4> QED  BY <1>8, <4>3
    <3> QED  BY <3>4, <3>5, <3>6
  <2> QED  BY <1>2, <2>2, <2>3, <2>4 DEF CollectInv, Listing
<1>11. ListInv' /\ "pc" \in DOMAIN job'
  BY <1>3 DEF ListInv
<1> QED  BY <1>1, <1>7, <1>8, <1>9, <1>10, <1>11 DEF CollectInv

\* Every step keeps CollectInv: only collect moves the watermark and hands
\* sessions out.
LEMMA CollectStep == CollectInv /\ [DistillNext]_distillVars => CollectInv'
<1> SUFFICES ASSUME CollectInv, [DistillNext]_distillVars PROVE CollectInv'
  OBVIOUS
<1>1. CASE Elsewhere
  <2>1. UNCHANGED files /\ "pc" \in DOMAIN job' /\ (job' = job \/ job'.pc # "list")
    BY <1>1 DEF Elsewhere, CollectInv
  <2>2. ListInv'
    <3>1. CASE job' = job
      BY <2>1, <3>1 DEF files, CollectInv, ListInv, Followed, Waiting, SeenOnce
    <3>2. CASE job'.pc # "list"
      BY <3>2 DEF ListInv
    <3> QED  BY <2>1, <3>1, <3>2
  <2> QED  BY <2>1, <2>2 DEF files, CollectInv, NonePassed
<1>2. CASE Collecting
  BY <1>2, WriteStep, UnlinkStep, StartListing, ListingStep, CollectKeeps DEF Collecting
<1>3. CASE UNCHANGED distillVars
  BY <1>1, <1>3 DEF distillVars, files, Elsewhere
<1> QED  BY <1>1, <1>2, <1>3, Steps

\* The watermark runs past a session only by handing out one as old, or when the
\* listing did not show it as it was, for any sessions and any max_sessions
\* (collect, list_sessions).
THEOREM NoneIsPassed == DistillSpec => []NonePassed
<1>1. CollectInv => NonePassed
  BY DEF CollectInv
<1> QED  BY <1>1, CollectInit, CollectStep, PTL DEF DistillSpec

\* As long as the watermark can be read, a version of a session is handed out at
\* most once, whatever crashes, is removed or is written while collect lists
\* (collect, read_watermark, write_watermark).
THEOREM OnceHanded == DistillSpec => HandedOnce
<1>1. ASSUME CollectInv, [DistillNext]_distillVars, job.pc = "list", job'.pc = "light"
      PROVE  Stamped({x \in job.seen : x.id \in job'.batch}) \cap since = {}
  <2>1. job' # job
    BY <1>1
  <2>2. ~Elsewhere
    BY <1>1, <2>1 DEF CollectInv, Elsewhere
  <2>3. Collecting
    BY <1>1, <2>1, <2>2, Steps DEF distillVars
  <2>4. job \in Listing /\ SeenOnce /\ \A x \in since : x[2] <= job.before
    BY <1>1 DEF CollectInv, ListInv
  <2>5. ASSUME NEW x \in job.todo, List(x) \/ Skip(x) PROVE FALSE
    <3>1. job'.pc = job.pc
      BY <2>4, <2>5 DEF List, Skip, Listing
    <3> QED  BY <1>1, <3>1
  <2>6. PICK composite \in BOOLEAN : Collect(composite)
    BY <1>1, <2>1, <2>3, <2>5 DEF Collecting, Write, Unlink, CollectStart, Nothing
  <2>7. PICK S \in Batches(Newer(job.seen, job.before), composite) :
            job' = [pc |-> "light", batch |-> {x.id : x \in S}]
    BY <2>6 DEF Collect
  <2>8. \A y \in S : y \in job.seen /\ y.at > job.before
    BY <2>7 DEF Batches, Newer
  <2> SUFFICES ASSUME NEW v \in since, v \in Stamped({x \in job.seen : x.id \in job'.batch})
               PROVE  FALSE
    OBVIOUS
  <2>9. PICK x \in job.seen : x.id \in job'.batch /\ v = <<x.id, x.at>>
    BY DEF Stamped
  <2>10. PICK y \in S : y.id = x.id
    BY <2>7, <2>9
  <2>11. x = y
    BY <2>4, <2>8, <2>10 DEF SeenOnce
  <2> QED  BY <2>4, <2>8, <2>9, <2>11 DEF Listing
<1>2. CollectInv /\ [DistillNext]_distillVars =>
          [job.pc = "list" /\ job'.pc = "light" =>
              Stamped({x \in job.seen : x.id \in job'.batch}) \cap since = {}]_distillVars
  BY <1>1
<1> QED  BY <1>2, CollectInit, CollectStep, PTL DEF DistillSpec, HandedOnce
================================================================================
