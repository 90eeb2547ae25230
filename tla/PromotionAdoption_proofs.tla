----------------------- MODULE PromotionAdoption_proofs ------------------------
(* Theorems about the two logs that team knowledge is built from.  Promotion: *)
(* for every set of prompts, kinds of rules and memories, and for all limits  *)
(* that LimitsAssumption allows.  AdoptionLog: for any events, batch sizes,   *)
(* flushers, faults and crashes.  The components share no state; the names of *)
(* the adoption log carry the prefix Adopt.                                   *)
EXTENDS Promotion, AdoptionLog, FiniteSetTheorems, WellFoundedInduction, TLAPS

(* Promotion *)
\* A nonempty set of numbers has a least one.
LEMMA LeastNumber ==
    ASSUME NEW T \in SUBSET Nat, T # {}
    PROVE  \E x \in T : \A y \in T : x <= y
<1>1. IsWellFoundedOn(OpToRel(<, Nat), Nat)
  BY NatLessThanWellFounded
<1>2. \E x \in T : \A y \in T : ~ (<<y, x>> \in OpToRel(<, Nat))
  BY <1>1, WFMin
<1>3. OpToRel(<, Nat) = {ss \in Nat \X Nat : ss[1] < ss[2]}
  BY DEF OpToRel
<1>4. \E x \in T : \A y \in T : ~ (<<y, x>> \in {ss \in Nat \X Nat : ss[1] < ss[2]})
  BY <1>2, <1>3, Zenon
<1>5. PICK x \in T : \A y \in T : ~ (<<y, x>> \in {ss \in Nat \X Nat : ss[1] < ss[2]})
  BY <1>4
<1>6. ASSUME NEW y \in T PROVE x <= y
  <2>1. <<y, x>> \in Nat \X Nat
    OBVIOUS
  <2>2. ~ (<<y, x>>[1] < <<y, x>>[2])
    BY <1>5, <2>1
  <2>3. <<y, x>>[1] = y /\ <<y, x>>[2] = x
    OBVIOUS
  <2>4. ~ (y < x)
    BY <2>2, <2>3
  <2> QED
    BY <2>4
<1> QED
  BY <1>6

\* A bounded set of numbers has a largest one: the least of its bounds.
LEMMA MaxOf ==
    ASSUME NEW S \in SUBSET Nat, S # {}, NEW n \in Nat, \A x \in S : x <= n
    PROVE  Max(S) \in S /\ \A x \in S : x <= Max(S)
<1> DEFINE Bounds == {b \in Nat : \A x \in S : x <= b}
<1>1. PICK b \in Bounds : \A c \in Bounds : b <= c
  BY LeastNumber
<1>2. b \in S
  <2> SUFFICES ASSUME b \notin S PROVE FALSE
    OBVIOUS
  <2>1. \A x \in S : x <= b - 1
    BY <1>1
  <2>2. PICK x \in S : x <= b - 1
    BY <2>1
  <2>3. b - 1 \in Bounds
    BY <2>1, <2>2, <1>1
  <2> QED
    BY <2>3, <1>1
<1>3. \A x \in S : b >= x
  BY <1>1
<1> QED
  BY <1>2, <1>3 DEF Max

\* The number after a bounded set of numbers is positive and new.
LEMMA NextNumber ==
    ASSUME NEW S \in SUBSET Nat, NEW n \in Nat, \A x \in S : x <= n
    PROVE  /\ Next1(S) \in Numbers
           /\ \A x \in S : x < Next1(S)
           /\ Next1(S) <= n + 1
<1>0. S \cup {0} \in SUBSET Nat /\ S \cup {0} # {} /\ \A x \in S \cup {0} : x <= n
  OBVIOUS
<1>1. Max(S \cup {0}) \in S \cup {0} /\ \A x \in S \cup {0} : x <= Max(S \cup {0})
  BY <1>0, MaxOf
<1>2. Max(S \cup {0}) \in Nat /\ Max(S \cup {0}) <= n
  BY <1>0, <1>1
<1> DEFINE m == Max(S \cup {0})
<1> HIDE DEF m
<1>3. m \in Nat /\ m <= n /\ \A x \in S : x <= m
  BY <1>1, <1>2 DEF m
<1>4. Next1(S) = m + 1
  BY DEF Next1, m
<1> QED
  BY <1>3, <1>4 DEF Numbers
--------------------------------------------------------------------------------
RuleNums == {i[2] : i \in {k \in DOMAIN nodes : k[1] = "R"}}

\* The rules of the graph are numbered without a gap, and the entries of the
\* archive, which are removed at times, are bounded.
Numbered ==
    /\ \E n \in Nat : RuleNums = 1 .. n
    /\ \E n \in Nat : \A a \in archive : a.num <= n

\* What is known of the run under way at each place of promote().
Past(pcs) == job # None /\ job.pc \in pcs

RunInv ==
    /\ job # None => kind[job.rule] # None /\ Unfused
    /\ Past({"dedup", "retest", "promote"}) =>
         /\ job.layer # "global_top"
         /\ job.promote = Rank(job.layer) /\ job.retest = 0
         /\ job.dedup = IF job.pc = "dedup" THEN job.promote ELSE job.promote + 1
    /\ Past({"promote"}) => Rule.pass = "all"
    /\ Past({"node", "experience", "origin"}) => job.entry # None
    /\ Past({"experience", "origin"}) => job.node # None /\ R(job.node) \in DOMAIN nodes
    /\ Past({"pattern_node"}) => job.pattern # None /\ job.pattern.num = NextRule
    /\ Past({"pattern_links"}) => job.pattern # None /\ R(job.pattern.num) \in DOMAIN nodes

HotInv == \A p \in hot : kind[p] # None

\* HotFromTested, OriginKnown and RuleNodesKeep hold of the reachable states
\* because of what the run knows at the places that write the files.
PromotionInv ==
    /\ TypeOK /\ Numbered /\ RunInv /\ HotInv /\ HotFromTested /\ OriginKnown

\* None is a value of its own.
LEMMA NoneNumber == None \notin Numbers
  BY DataAssumption DEF Numbers

\* The number of the next R node is free, and extends the row of numbers.
LEMMA RuleNumber ==
    ASSUME TypeOK, Numbered
    PROVE  /\ NextRule \in Numbers
           /\ R(NextRule) \notin DOMAIN nodes
           /\ RuleNums \cup {NextRule} = 1 .. NextRule
<1>1. PICK n \in Nat : RuleNums = 1 .. n
  BY DEF Numbered
<1>2. RuleNums = {m[2] : m \in {i \in DOMAIN nodes : i[1] = "R"}}
  BY DEF RuleNums
<1>3. NextRule = Next1(RuleNums)
  BY <1>2 DEF NextRule
<1>4. RuleNums \in SUBSET Nat /\ \A x \in RuleNums : x <= n
  BY <1>1
<1>5. Next1(RuleNums) \in Numbers /\ Next1(RuleNums) <= n + 1
      /\ \A x \in RuleNums : x < Next1(RuleNums)
  BY <1>4, NextNumber
<1>6. NextRule = n + 1
  <2>1. n > 0 => n \in RuleNums
    BY <1>1
  <2>2. NextRule \in Nat /\ NextRule > 0
    BY <1>3, <1>5 DEF Numbers
  <2> QED
    BY <1>3, <1>5, <2>1, <2>2
<1>7. R(NextRule) \notin DOMAIN nodes
  <2> SUFFICES ASSUME R(NextRule) \in DOMAIN nodes PROVE FALSE
    OBVIOUS
  <2>1. R(NextRule)[1] = "R" /\ R(NextRule)[2] = NextRule
    BY DEF R
  <2>2. NextRule \in RuleNums
    BY <2>1 DEF RuleNums
  <2> QED
    BY <2>2, <1>1, <1>6
<1> QED
  BY <1>1, <1>3, <1>5, <1>6, <1>7

\* The number of the next archive entry is not below any in use.
LEMMA EntryNumber ==
    ASSUME TypeOK, Numbered
    PROVE  /\ NextEntry \in Numbers
           /\ \A a \in archive : a.num <= NextEntry
<1>1. PICK n \in Nat : \A a \in archive : a.num <= n
  BY DEF Numbered
<1> DEFINE S == {a.num : a \in archive}
<1>2. S \in SUBSET Nat /\ \A x \in S : x <= n
  BY <1>1 DEF TypeOK, Numbers
<1>3. Next1(S) \in Numbers /\ \A x \in S : x < Next1(S)
  BY <1>2, NextNumber
<1>4. NextEntry = Next1(S)
  BY DEF NextEntry
<1>5. ASSUME NEW a \in archive PROVE a.num <= NextEntry
  <2>1. a.num \in S
    OBVIOUS
  <2>2. a.num \in Nat /\ a.num < NextEntry /\ NextEntry \in Nat
    BY <2>1, <1>2, <1>3, <1>4 DEF Numbers
  <2> QED
    BY <2>2
<1> QED
  BY <1>3, <1>4, <1>5

\* The empty knowledge base satisfies the invariant.
LEMMA InitInv == Init => PromotionInv
<1> SUFFICES ASSUME Init PROVE PromotionInv
  OBVIOUS
<1>1. RuleNums = {}
  BY DEF Init, RuleNums
<1>2. Numbered
  <2>1. RuleNums = 1 .. 0
    BY <1>1
  <2> QED
    BY <2>1 DEF Numbered, Init
<1>3. TypeOK
  BY DEF Init, TypeOK
<1> QED
  BY <1>2, <1>3 DEF Init, PromotionInv, RunInv, Past, HotInv, HotFromTested, OriginKnown

\* The steps up to the archive touch neither the graph nor the archive.
LEMMA SubmitInv ==
    ASSUME PromotionInv, NEW p \in Prompts, NEW k \in Kinds, Submit(p, k)
    PROVE  PromotionInv'
<1> USE DEF PromotionInv, Submit, rules, graph
<1>1. kind' \in [Prompts -> Kinds \cup {None}] /\ kind'[p] = k /\ k # None
  BY DataAssumption DEF TypeOK
<1>2. job' \in RunType
  BY DEF Run, RunType, Layers, Statuses
<1>3. TypeOK'
  BY <1>1, <1>2 DEF TypeOK
<1>4. Numbered'
  BY DEF Numbered, RuleNums
<1>5. RunInv'
  BY <1>1, <1>2 DEF RunInv, Past, Run, Unfused, Rank
<1>6. (HotInv /\ HotFromTested /\ OriginKnown)'
  BY DEF HotInv, HotFromTested, OriginKnown, TypeOK
<1> QED
  BY <1>3, <1>4, <1>5, <1>6

\* The duplicate check decides where the job goes, and writes nothing.
LEMMA CheckInv ==
    ASSUME PromotionInv, NEW dup \in BOOLEAN, CheckDuplicate(dup)
    PROVE  PromotionInv'
<1> USE DEF PromotionInv, CheckDuplicate, rules, graph
<1>1. job \in RunType /\ job.pc = "dedup"
  BY DEF At, TypeOK
<1>2. job.promote = Rank(job.layer) /\ job.retest = 0 /\ job.dedup = job.promote
      /\ job.layer \in {"project", "rules_file"}
  BY <1>1 DEF At, RunInv, Past, RunType, Layers
<1>3. ~DedupFuse /\ Iteration < GlobalMax
  BY <1>2, LimitsAssumption DEF DedupFuse, Iteration, Rank
<1>4. job' = [job EXCEPT !.dedup = job.dedup + 1,
                         !.status = IF dup THEN "archived" ELSE job.status,
                         !.pc = IF dup THEN "archive" ELSE "retest"]
  BY <1>3
<1>5a. /\ job' \in RunType /\ job'.rule = job.rule /\ job'.layer = job.layer
       /\ job'.dedup = job.dedup + 1 /\ job'.retest = job.retest /\ job'.promote = job.promote
       /\ dup => job'.status = "archived" /\ job'.pc = "archive"
       /\ ~dup => job'.status = job.status /\ job'.pc = "retest"
  <2>1. job.dedup + 1 \in Nat /\ job.status \in Statuses
    BY <1>1 DEF RunType
  <2> HIDE DEF PromotionInv, CheckDuplicate, rules, graph
  <2>2. CASE dup
    <3>1. job' = [job EXCEPT !.dedup = job.dedup + 1, !.status = "archived", !.pc = "archive"]
      BY <1>4, <2>2
    <3> QED
      BY <1>1, <2>1, <2>2, <3>1 DEF RunType, Statuses
  <2>3. CASE ~dup
    <3>1. job' = [job EXCEPT !.dedup = job.dedup + 1, !.status = job.status, !.pc = "retest"]
      BY <1>4, <2>3
    <3> QED
      BY <1>1, <2>1, <2>3, <3>1 DEF RunType
  <2> QED
    BY <2>2, <2>3
<1>5. TypeOK'
  BY <1>1, <1>5a DEF TypeOK, RunType
<1>6. Numbered'
  BY DEF Numbered, RuleNums
<1>7. RunInv'
  <2>1. job.dedup + 1 \in Nat /\ job.rule \in Prompts /\ kind[job.rule] # None /\ Unfused
    BY <1>1 DEF RunType, RunInv, At
  <2> QED
    BY <1>2, <1>5a, <2>1 DEF RunInv, Past, Unfused
<1>8. (HotInv /\ HotFromTested /\ OriginKnown)'
  BY DEF HotInv, HotFromTested, OriginKnown
<1> QED
  BY <1>5, <1>6, <1>7, <1>8

\* A retest moves the job and writes no file.
LEMMA RetestInv ==
    ASSUME PromotionInv, RetestPass \/ RetestFail
    PROVE  PromotionInv'
<1> USE DEF PromotionInv, RetestPass, RetestFail, rules, graph
<1>1. job \in RunType /\ job.pc = "retest"
  BY DEF At, TypeOK
<1>2. job.retest = 0 /\ job.promote = Rank(job.layer) /\ job.dedup = job.promote + 1
      /\ job.layer # "global_top"
  BY <1>1 DEF At, RunInv, Past
<1>3a. \/ Rule.pass = "all" /\ job' = [job EXCEPT !.pc = "promote"]
       \/ job' = [job EXCEPT !.retest = 1, !.pc = "archive", !.status = job.status]
  <2>1. ~ (job.retest + 1 >= RetestMax)
    BY <1>2, LimitsAssumption
  <2> QED
    BY <1>2, <2>1
<1>3. job' \in RunType
  <2>1. [job EXCEPT !.pc = "promote"] \in RunType
    BY <1>1 DEF RunType
  <2>2. [job EXCEPT !.retest = 1, !.pc = "archive", !.status = job.status] \in RunType
    BY <1>1 DEF RunType
  <2> QED
    BY <1>3a, <2>1, <2>2
<1>4. TypeOK'
  BY <1>3 DEF TypeOK
<1>5. Numbered'
  BY DEF Numbered, RuleNums
<1>6. RunInv'
  <2>1. kind[job.rule] # None /\ Unfused
    BY <1>1 DEF RunInv, At
  <2>2. CASE Rule.pass = "all" /\ job' = [job EXCEPT !.pc = "promote"]
    BY <1>1, <1>2, <2>1, <2>2 DEF RunInv, Past, Unfused, RunType, Rule
  <2>3. CASE job' = [job EXCEPT !.retest = 1, !.pc = "archive", !.status = job.status]
    BY <1>1, <2>1, <2>3 DEF RunInv, Past, Unfused, RunType
  <2> QED
    BY <1>3a, <2>2, <2>3
<1>7. (HotInv /\ HotFromTested /\ OriginKnown)'
  BY DEF HotInv, HotFromTested, OriginKnown
<1> QED
  BY <1>4, <1>5, <1>6, <1>7

\* A run writes the rule to its next file, or settles without one.
LEMMA PromoteInv ==
    ASSUME PromotionInv, Promote \/ Settle
    PROVE  PromotionInv'
<1> USE DEF PromotionInv
<1>1. job \in RunType /\ job.pc = "promote" /\ At("promote")
  BY DEF At, TypeOK, Promote, Settle
<1>2. job.promote = Rank(job.layer) /\ job.retest = 0 /\ job.dedup = job.promote + 1
      /\ job.layer \in {"project", "rules_file"} /\ Rule.pass = "all"
      /\ kind[job.rule] # None /\ Unfused
  BY <1>1 DEF At, RunInv, Past, RunType, Layers
<1>3. UNCHANGED <<kind, crossing, archive, missed, nodes, edges>>
  BY DEF Promote, Settle, rules, graph
<1>4. Numbered' /\ OriginKnown'
  BY <1>3 DEF Numbered, RuleNums, OriginKnown
<1>5. CASE Settle
  <2>1. job' \in RunType /\ job' = [job EXCEPT !.status = "promoted", !.pc = "archive"]
        /\ UNCHANGED <<lib, hot>>
    BY <1>1, <1>5 DEF Settle, RunType, Statuses, rules
  <2>2. TypeOK' /\ (HotInv /\ HotFromTested)'
    BY <2>1, <1>3 DEF TypeOK, HotInv, HotFromTested
  <2>3. RunInv'
    BY <1>1, <1>2, <1>3, <2>1 DEF RunInv, Past, Unfused, RunType
  <2> QED
    BY <1>4, <2>2, <2>3
<1>6. CASE Promote /\ job.layer = "project"
  <2>0. Above = "rules_file" /\ job.promote + 1 = 1 /\ ~ (job.promote + 1 >= PromoteMax)
    BY <1>2, <1>6, LimitsAssumption DEF Above, Rank
  <2>1a. job' = [job EXCEPT !.promote = 1, !.layer = "rules_file", !.status = job.status,
                            !.pc = "dedup"]
    BY <1>6, <2>0 DEF Promote
  <2>1. UNCHANGED hot /\ lib' = lib \cup {job.rule}
    BY <1>6, <2>0 DEF Promote
  <2>2. job' \in RunType
    BY <1>1, <2>1a DEF RunType, Layers
  <2>3. TypeOK' /\ (HotInv /\ HotFromTested)'
    BY <1>1, <2>1, <2>2, <1>3 DEF TypeOK, HotInv, HotFromTested, RunType
  <2>4. RunInv'
    BY <1>1, <1>2, <1>3, <1>6, <2>1a DEF RunInv, Past, Unfused, RunType, Rank
  <2> QED
    BY <1>4, <2>3, <2>4
<1>7. CASE Promote /\ job.layer = "rules_file"
  <2>1. job' = [job EXCEPT !.promote = 2, !.layer = "global_top", !.status = "promoted",
                           !.pc = "archive"]
        /\ UNCHANGED lib /\ hot' = hot \cup {job.rule}
    BY <1>1, <1>2, <1>7, LimitsAssumption DEF Promote, Above, Rank, RunType
  <2>2. job' \in RunType
    BY <1>1, <2>1 DEF RunType, Layers, Statuses
  <2>3. ~Rule.specific /\ Rule.terse
    BY <1>7 DEF Promote, Eligible
  <2>4. TypeOK' /\ (HotInv /\ HotFromTested)'
    BY <1>1, <1>2, <2>1, <2>2, <2>3, <1>3 DEF TypeOK, HotInv, HotFromTested, Rule, RunType
  <2>5. RunInv'
    BY <1>1, <1>2, <1>3, <2>1 DEF RunInv, Past, Unfused, RunType
  <2> QED
    BY <1>4, <2>4, <2>5
<1> QED
  BY <1>2, <1>5, <1>6, <1>7

\* An entry of the archive gets the number after the largest one there.
LEMMA ArchiveInv ==
    ASSUME PromotionInv, Archive
    PROVE  PromotionInv'
<1> USE DEF PromotionInv, Archive, rules, graph
<1>1. job \in RunType /\ job.pc = "archive" /\ At("archive") /\ kind[job.rule] # None /\ Unfused
  BY DEF At, TypeOK, RunInv
<1>2. NextEntry \in Numbers /\ \A a \in archive : a.num <= NextEntry
  BY EntryNumber
<1>3. archive' = archive \cup {[num |-> NextEntry, rule |-> job.rule, full |-> TRUE]}
      /\ job' = [job EXCEPT !.entry = NextEntry, !.pc = "node"]
  BY <1>1
<1>4. job' \in RunType
  BY <1>1, <1>2, <1>3 DEF RunType
<1>5. TypeOK'
  <2>1. [num |-> NextEntry, rule |-> job.rule, full |-> TRUE]
            \in [num : Numbers, rule : Prompts, full : BOOLEAN]
    BY <1>1, <1>2 DEF RunType
  <2> QED
    BY <2>1, <1>3, <1>4 DEF TypeOK
<1>6. Numbered'
  <2>1. \A a \in archive' : a.num <= NextEntry
    BY <1>2, <1>3 DEF Numbers
  <2>2. \E n \in Nat : \A a \in archive' : a.num <= n
    BY <1>2, <2>1 DEF Numbers
  <2>3. RuleNums' = RuleNums
    BY DEF RuleNums
  <2> QED
    BY <2>2, <2>3 DEF Numbered
<1>7. RunInv'
  <2>1. job'.entry # None
    BY <1>1, <1>2, <1>3, NoneNumber DEF RunType
  <2> QED
    BY <1>1, <1>3, <2>1 DEF RunInv, Past, Unfused, RunType
<1>8. (HotInv /\ HotFromTested /\ OriginKnown)'
  BY DEF HotInv, HotFromTested, OriginKnown
<1> QED
  BY <1>5, <1>6, <1>7, <1>8

\* A rule gets the number after the last one.
LEMMA RegisterInv ==
    ASSUME PromotionInv, NEW name \in Prompts \cup Patterns,
           nodes' = Register(R(NextRule), name),
           UNCHANGED <<kind, lib, hot, crossing, archive, missed, edges>>,
           job' \in RunType \cup {None}
    PROVE  /\ (TypeOK /\ Numbered /\ HotInv /\ HotFromTested /\ OriginKnown)'
           /\ DOMAIN nodes' = DOMAIN nodes \cup {R(NextRule)}
<1> USE DEF PromotionInv
<1>1. /\ DOMAIN nodes' = DOMAIN nodes \cup {R(NextRule)}
      /\ \A i \in DOMAIN nodes \ {R(NextRule)} : nodes'[i] = nodes[i]
      /\ nodes'[R(NextRule)] = [name |-> name, status |-> "active"]
  BY DEF Register
<1>2. NextRule \in Numbers /\ RuleNums \cup {NextRule} = 1 .. NextRule
  BY RuleNumber
<1>3. R(NextRule) \in NodeIds
  BY <1>2 DEF NodeIds, R
<1>4. TypeOK'
  BY <1>1, <1>3 DEF TypeOK
<1>5. RuleNums' = RuleNums \cup {NextRule}
  BY <1>1 DEF RuleNums, R
<1>6. Numbered'
  <2>1. \E n \in Nat : RuleNums' = 1 .. n
    BY <1>2, <1>5 DEF Numbers
  <2> QED
    BY <2>1 DEF Numbered
<1>7. (HotInv /\ HotFromTested /\ OriginKnown)'
  BY <1>1 DEF HotInv, HotFromTested, OriginKnown
<1> QED
  BY <1>1, <1>4, <1>6, <1>7

\* A new R node takes the next free number.
LEMMA RegisterRuleInv ==
    ASSUME PromotionInv, RegisterRule
    PROVE  PromotionInv'
<1> USE DEF PromotionInv, RegisterRule, rules
<1>1. job \in RunType /\ job.pc = "node" /\ At("node") /\ kind[job.rule] # None /\ Unfused
      /\ job.entry # None
  BY DEF At, TypeOK, RunInv, Past
<1>2. NextRule \in Numbers
  BY RuleNumber
<1>3. job' = [job EXCEPT !.node = NextRule, !.pc = "experience"] /\ job' \in RunType
  BY <1>1, <1>2 DEF RunType
<1>4. /\ (TypeOK /\ Numbered /\ HotInv /\ HotFromTested /\ OriginKnown)'
      /\ DOMAIN nodes' = DOMAIN nodes \cup {R(NextRule)}
  BY <1>1, <1>3, RegisterInv DEF RunType
<1>5. RunInv'
  BY <1>1, <1>2, <1>3, <1>4, NoneNumber DEF RunInv, Past, Unfused, RunType
<1> QED
  BY <1>4, <1>5

\* A new E node stands for an entry of the archive.
LEMMA RegisterExperienceInv ==
    ASSUME PromotionInv, RegisterExperience
    PROVE  PromotionInv'
<1> USE DEF PromotionInv, RegisterExperience, rules
<1>1. job \in RunType /\ job.pc = "experience" /\ kind[job.rule] # None /\ Unfused
      /\ job.entry # None /\ job.node # None /\ R(job.node) \in DOMAIN nodes
  BY DEF At, TypeOK, RunInv, Past
<1>2. E(job.entry) \in NodeIds
  BY <1>1 DEF RunType, NodeIds, E
<1>3. job' = [job EXCEPT !.pc = "origin"] /\ job' \in RunType
  BY <1>1 DEF RunType
<1>4. /\ DOMAIN nodes' = DOMAIN nodes \cup {E(job.entry)}
      /\ \A i \in DOMAIN nodes \ {E(job.entry)} : nodes'[i] = nodes[i]
      /\ nodes'[E(job.entry)] = [name |-> job.rule, status |-> "active"]
  BY DEF Register
<1>5. TypeOK'
  <2>1. job.rule \in Prompts
    BY <1>1 DEF RunType
  <2>2. DOMAIN nodes' \subseteq NodeIds
    BY <1>2, <1>4 DEF TypeOK
  <2>3. \A i \in DOMAIN nodes' : nodes'[i] \in [name : Prompts \cup Patterns,
                                            status : {"active", "pending_confirmation"}]
    BY <1>4, <2>1 DEF TypeOK
  <2> QED
    BY <1>3, <2>2, <2>3 DEF TypeOK
<1>6. RuleNums' = RuleNums
  BY <1>4 DEF RuleNums, E
<1>7. Numbered'
  BY <1>6 DEF Numbered
<1>8. RunInv'
  BY <1>1, <1>3, <1>4 DEF RunInv, Past, Unfused, RunType
<1>9. (HotInv /\ HotFromTested /\ OriginKnown)'
  BY <1>4 DEF HotInv, HotFromTested, OriginKnown
<1> QED
  BY <1>5, <1>7, <1>8, <1>9

\* The relation of a run joins its rule's node to its experience's.
LEMMA LinkInv ==
    ASSUME PromotionInv, LinkOrigin
    PROVE  PromotionInv'
<1> USE DEF PromotionInv, LinkOrigin, rules
<1>1. job \in RunType /\ job.pc = "origin" /\ kind[job.rule] # None /\ Unfused
      /\ job.entry # None /\ job.node # None /\ R(job.node) \in DOMAIN nodes
  BY DEF At, TypeOK, RunInv, Past
<1>2. R(job.node) \in NodeIds /\ E(job.entry) \in NodeIds
  BY <1>1 DEF RunType, NodeIds, R, E
<1>3. job' = [job EXCEPT !.pc = "scan"] /\ job' \in RunType
  BY <1>1 DEF RunType
<1>4. TypeOK'
  <2>1. edges' \subseteq [src : NodeIds, dst : NodeIds, rel : Relations]
    BY <1>2 DEF TypeOK, Edge, Relations
  <2> QED
    BY <1>3, <2>1 DEF TypeOK
<1>5. Numbered'
  BY DEF Numbered, RuleNums
<1>6. RunInv'
  BY <1>1, <1>3 DEF RunInv, Past, Unfused, RunType
<1>7. OriginKnown'
  BY <1>1 DEF OriginKnown, Edge
<1>8. (HotInv /\ HotFromTested)'
  BY DEF HotInv, HotFromTested
<1> QED
  BY <1>4, <1>5, <1>6, <1>7, <1>8

\* Scanning and writing a rule file leave archive and graph alone.
LEMMA PatternFileInv ==
    ASSUME PromotionInv, Scan \/ \E t \in Patterns : PatternFile(t)
    PROVE  PromotionInv'
<1> USE DEF PromotionInv
<1>1. job \in RunType /\ kind[job.rule] # None /\ Unfused
  BY DEF At, TypeOK, RunInv, Scan, PatternFile
<1>2. UNCHANGED <<kind, lib, hot, archive, missed, nodes, edges>>
  BY DEF Scan, PatternFile, rules, graph
<1>3. (Numbered /\ HotInv /\ HotFromTested /\ OriginKnown)'
  BY <1>2 DEF Numbered, RuleNums, HotInv, HotFromTested, OriginKnown
<1>4. NextRule \in Numbers /\ NextRule' = NextRule
  BY <1>2, RuleNumber DEF NextRule
<1>5. CASE Scan
  <2>1. job' = [job EXCEPT !.todo = Patterns, !.pc = "pattern"] /\ job' \in RunType
    BY <1>1, <1>5 DEF Scan, RunType
  <2>2. TypeOK'
    BY <1>2, <1>5, <2>1 DEF TypeOK, Scan, rules
  <2>3. RunInv'
    BY <1>1, <1>2, <2>1 DEF RunInv, Past, Unfused, RunType
  <2> QED
    BY <1>3, <2>2, <2>3
<1>6. ASSUME NEW t \in Patterns, PatternFile(t) PROVE PromotionInv'
  <2>1. job' = [job EXCEPT !.todo = job.todo \ {t},
                           !.pattern = [num |-> NextRule, topic |-> t], !.pc = "pattern_node"]
    BY <1>6 DEF PatternFile
  <2>2. job.todo \ {t} \in SUBSET Patterns
        /\ [num |-> NextRule, topic |-> t] \in [num : Numbers, topic : Patterns]
    BY <1>1, <1>4 DEF RunType
  <2>3. job' \in RunType
    BY <1>1, <2>1, <2>2 DEF RunType
  <2>4. Cites(t) \subseteq Numbers
    BY DataAssumption DEF Cites, Sources, Numbers
  <2>5. crossing' \subseteq [num : Numbers, topic : Patterns, cites : SUBSET Numbers]
    <3>1. [num |-> NextRule, topic |-> t, cites |-> Cites(t)]
              \in [num : Numbers, topic : Patterns, cites : SUBSET Numbers]
      BY <1>4, <2>4
    <3>2. crossing' \subseteq crossing \cup {[num |-> NextRule, topic |-> t, cites |-> Cites(t)]}
      BY <1>6 DEF PatternFile
    <3> QED
      BY <3>1, <3>2 DEF TypeOK
  <2>6. TypeOK'
    BY <1>2, <2>3, <2>5 DEF TypeOK
  <2>7. job'.pattern # None /\ job'.pattern.num = NextRule'
    <3>1. job'.pattern = [num |-> NextRule, topic |-> t]
      BY <1>1, <2>1 DEF RunType
    <3>2. [num |-> NextRule, topic |-> t] # None
      BY DataAssumption, <2>2 DEF Patterns, Numbers
    <3> QED
      BY <1>4, <3>1, <3>2
  <2>8. RunInv'
    BY <1>1, <1>2, <2>1, <2>7 DEF RunInv, Past, Unfused, RunType
  <2> QED
    BY <1>3, <2>6, <2>8
<1> QED
  BY <1>5, <1>6

\* A pattern's node takes the number its file was given, which is still the
\* next one.
LEMMA PatternNodeInv ==
    ASSUME PromotionInv, PatternNode
    PROVE  PromotionInv'
<1> USE DEF PromotionInv, PatternNode, rules
<1>1. job \in RunType /\ job.pc = "pattern_node" /\ kind[job.rule] # None /\ Unfused
      /\ job.pattern # None /\ job.pattern.num = NextRule
  BY DEF At, TypeOK, RunInv, Past
<1>2. job.pattern \in [num : Numbers, topic : Patterns]
  BY <1>1 DEF RunType
<1>3. job' = [job EXCEPT !.pc = "pattern_links"] /\ job' \in RunType
  BY <1>1 DEF RunType
<1>4. /\ (TypeOK /\ Numbered /\ HotInv /\ HotFromTested /\ OriginKnown)'
      /\ DOMAIN nodes' = DOMAIN nodes \cup {R(NextRule)}
  BY <1>1, <1>2, <1>3, RegisterInv
<1>5. RunInv'
  BY <1>1, <1>3, <1>4 DEF RunInv, Past, Unfused, RunType
<1> QED
  BY <1>4, <1>5

\* Whichever of a pattern's relations get written, they only add to the
\* graph.
LEMMA PatternLinksInv ==
    ASSUME PromotionInv, PatternLinks
    PROVE  PromotionInv'
<1> USE DEF PromotionInv
<1>1. job \in RunType /\ job.pc = "pattern_links" /\ kind[job.rule] # None /\ Unfused
      /\ job.pattern # None /\ R(job.pattern.num) \in DOMAIN nodes
  BY DEF At, TypeOK, RunInv, Past, PatternLinks
<1>2. job.pattern \in [num : Numbers, topic : Patterns]
  BY <1>1 DEF RunType
<1>3. [job EXCEPT !.pattern = None, !.pc = "pattern"] \in RunType
  BY <1>1 DEF RunType
<1> DEFINE all == PatternEdges(job.pattern.num, job.pattern.topic)
<1>4. all \subseteq [src : NodeIds, dst : NodeIds, rel : Relations]
  BY <1>2, DataAssumption DEF PatternEdges, Edge, Sources, NodeIds, R, E, Relations, Numbers
<1>5. \A e \in all : e.rel = "promoted_from" => e.src = R(job.pattern.num)
  BY DEF PatternEdges, Edge
<1>6. PICK part \in SUBSET all :
        /\ edges' = edges \cup part
        /\ job' \in {[job EXCEPT !.pattern = None, !.pc = "pattern"], None}
  BY DEF PatternLinks
<1>7. UNCHANGED <<kind, lib, hot, crossing, archive, missed, nodes>>
  BY DEF PatternLinks, rules
<1> HIDE DEF all
<1>8. TypeOK'
  BY <1>3, <1>4, <1>6, <1>7 DEF TypeOK
<1>9. Numbered'
  BY <1>7 DEF Numbered, RuleNums
<1>10. RunInv'
  BY <1>1, <1>6, <1>7 DEF RunInv, Past, Unfused, RunType
<1>11. (HotInv /\ HotFromTested /\ OriginKnown)'
  BY <1>1, <1>5, <1>6, <1>7 DEF HotInv, HotFromTested, OriginKnown
<1> QED
  BY <1>8, <1>9, <1>10, <1>11

\* The cascade changes the status of nodes and nothing else in the graph.
LEMMA CascadeInv ==
    ASSUME PromotionInv, Cascade \/ Interrupted
    PROVE  PromotionInv'
<1> USE DEF PromotionInv
<1>1. job' = None /\ UNCHANGED <<kind, lib, hot, crossing, archive, missed, edges>>
  BY DEF Cascade, Interrupted, rules, graph
<1>2. /\ DOMAIN nodes' = DOMAIN nodes
      /\ \A i \in DOMAIN nodes : /\ nodes'[i].name = nodes[i].name
                                /\ nodes'[i] \in [name : Prompts \cup Patterns,
                                                 status : {"active", "pending_confirmation"}]
  <2>1. \A i \in DOMAIN nodes : nodes[i] \in [name : Prompts \cup Patterns,
                                              status : {"active", "pending_confirmation"}]
    BY DEF TypeOK
  <2>2. \/ nodes' = nodes
        \/ nodes' = [i \in DOMAIN nodes |->
                      IF i \in Marked(R(job.node))
                      THEN [nodes[i] EXCEPT !.status = "pending_confirmation"] ELSE nodes[i]]
    BY DEF Cascade, Interrupted, graph
  <2> QED
    BY <2>1, <2>2
<1>3. TypeOK'
  BY <1>1, <1>2 DEF TypeOK
<1>4. Numbered'
  BY <1>1, <1>2 DEF Numbered, RuleNums
<1>5. RunInv'
  BY <1>1 DEF RunInv, Past
<1>6. (HotInv /\ HotFromTested /\ OriginKnown)'
  BY <1>1, <1>2 DEF HotInv, HotFromTested, OriginKnown
<1> QED
  BY <1>3, <1>4, <1>5, <1>6

\* Compression drops archive entries and the graph stays as it is.
LEMMA CompressInv ==
    ASSUME PromotionInv, CompressArchive
    PROVE  PromotionInv'
<1> USE DEF PromotionInv, CompressArchive, rules, graph
<1>1. \A a \in archive' : /\ a \in [num : Numbers, rule : Prompts, full : BOOLEAN]
                          /\ \E b \in archive : a.num = b.num
  <2>1. ASSUME NEW a \in archive
        PROVE  /\ [a EXCEPT !.full = FALSE] \in [num : Numbers, rule : Prompts, full : BOOLEAN]
               /\ [a EXCEPT !.full = FALSE].num = a.num
    BY DEF TypeOK
  <2>2. \A a \in archive' : a \in archive \/ \E b \in archive : a = [b EXCEPT !.full = FALSE]
    OBVIOUS
  <2> QED
    BY <2>1, <2>2 DEF TypeOK
<1>2. TypeOK'
  BY <1>1 DEF TypeOK
<1>3. Numbered'
  <2>1. PICK n \in Nat : \A a \in archive : a.num <= n
    BY DEF Numbered
  <2>2. \A a \in archive' : a.num <= n
    BY <2>1, <1>1
  <2> QED
    BY <2>2 DEF Numbered, RuleNums
<1>4. RunInv'
  BY DEF RunInv, Past, Unfused, Rule, NextRule
<1>5. (HotInv /\ HotFromTested /\ OriginKnown)'
  BY DEF HotInv, HotFromTested, OriginKnown
<1> QED
  BY <1>2, <1>3, <1>4, <1>5

\* Dependencies, and the rule files somebody deletes, are no part of a run.
LEMMA OutsideInv ==
    ASSUME PromotionInv,
           \/ \E i, j \in 1 .. MaxDependent : AddDepends(i, j)
           \/ \E e \in edges : RemoveRelation(e)
           \/ \E p \in Prompts : DeleteRule(p)
           \/ UNCHANGED vars
    PROVE  PromotionInv'
<1> USE DEF PromotionInv
<1>1. UNCHANGED <<kind, job, hot, crossing, archive, missed, nodes>>
  BY DEF AddDepends, RemoveRelation, DeleteRule, vars, rules, graph
<1>2. edges' \subseteq [src : NodeIds, dst : NodeIds, rel : Relations] /\ lib' \subseteq Prompts
  <2>1. ASSUME NEW i \in 1 .. MaxDependent, NEW j \in 1 .. MaxDependent
        PROVE  Edge(R(i), R(j), "depends_on") \in [src : NodeIds, dst : NodeIds, rel : Relations]
    <3>1. {i, j} \subseteq Numbers
      BY LimitsAssumption DEF Numbers
    <3> QED
      BY <3>1 DEF R, NodeIds, Edge, Relations
  <2>2. ASSUME NEW i \in 1 .. MaxDependent, NEW j \in 1 .. MaxDependent, AddDepends(i, j)
        PROVE  edges' \subseteq [src : NodeIds, dst : NodeIds, rel : Relations]
    <3>1. edges' = edges \cup {Edge(R(i), R(j), "depends_on")}
      BY <2>2 DEF AddDepends
    <3> QED
      BY <2>1, <3>1 DEF TypeOK
  <2>3. ASSUME ~ \E i, j \in 1 .. MaxDependent : AddDepends(i, j) PROVE edges' \subseteq edges
    BY <2>3 DEF RemoveRelation, DeleteRule, vars, graph
  <2>4. lib' \subseteq Prompts
    BY DEF TypeOK, AddDepends, RemoveRelation, DeleteRule, vars, rules
  <2> QED
    BY <2>2, <2>3, <2>4 DEF TypeOK
<1>3. \A e \in edges' : e \in edges \/ e.rel = "depends_on"
  BY DEF AddDepends, RemoveRelation, DeleteRule, vars, Edge, graph
<1>4. TypeOK'
  BY <1>1, <1>2 DEF TypeOK
<1>5. (Numbered /\ RunInv /\ HotInv /\ HotFromTested)'
  BY <1>1 DEF Numbered, RuleNums, RunInv, Past, Unfused, Rule, NextRule, HotInv, HotFromTested
<1>6. OriginKnown'
  BY <1>1, <1>3 DEF OriginKnown
<1> QED
  BY <1>4, <1>5, <1>6

\* One case per action.
LEMMA NextInv == PromotionInv /\ [Next]_vars => PromotionInv'
<1> SUFFICES ASSUME PromotionInv, [Next]_vars PROVE PromotionInv'
  OBVIOUS
<1>1. CASE Step
  BY <1>1, CheckInv, RetestInv, PromoteInv, ArchiveInv, RegisterRuleInv, RegisterExperienceInv,
     LinkInv, PatternFileInv, PatternNodeInv, PatternLinksInv, CascadeInv DEF Step
<1>2. CASE ~Step
  BY <1>2, SubmitInv, CascadeInv, CompressInv, OutsideInv DEF Next
<1> QED
  BY <1>1, <1>2

\* Every reachable state satisfies the invariant.
THEOREM Reachable == Spec => []PromotionInv
  BY InitInv, NextInv, PTL DEF Spec

\* The files, the graph and the run keep their types.
THEOREM TypeSafe == Spec => []TypeOK
<1>1. PromotionInv => TypeOK
  BY DEF PromotionInv
<1> QED
  BY <1>1, Reachable, PTL

\* Only principles of general and short rules that every case supports reach the
\* hot section of the profile, however often they are submitted and interrupted.
THEOREM HotSafe == Spec => []HotFromTested
<1>1. PromotionInv => HotFromTested
  BY DEF PromotionInv
<1> QED
  BY <1>1, Reachable, PTL

\* No fuse of promote() ever blows, for all limits the assumption allows.
THEOREM FusesSafe == Spec => []FusesHold
<1>1. PromotionInv => FusesHold
  BY DEF PromotionInv, RunInv, FusesHold
<1> QED
  BY <1>1, Reachable, PTL

\* A relation to an experience starts at a registered rule.
THEOREM OriginSafe == Spec => []OriginKnown
<1>1. PromotionInv => OriginKnown
  BY DEF PromotionInv
<1> QED
  BY <1>1, Reachable, PTL
--------------------------------------------------------------------------------
\* The nodes of the graph stay, and so does the name of a rule.
LEMMA NodesStay ==
    ASSUME PromotionInv, [Next]_vars, NEW i \in DOMAIN nodes, i[1] = "R"
    PROVE  i \in DOMAIN nodes' /\ nodes'[i].name = nodes[i].name
<1>1. R(NextRule) \notin DOMAIN nodes
  BY RuleNumber DEF PromotionInv
<1>2. CASE RegisterRule
  BY <1>1, <1>2 DEF RegisterRule, Register
<1>3. CASE RegisterExperience
  BY <1>3 DEF RegisterExperience, Register, E
<1>4. CASE PatternNode
  <2>1. job.pattern.num = NextRule
    BY <1>4 DEF PatternNode, At, PromotionInv, RunInv, Past
  <2> QED
    BY <1>1, <1>4, <2>1 DEF PatternNode, Register
<1>5. CASE Cascade
  <2>1. nodes[i] \in [name : Prompts \cup Patterns, status : {"active", "pending_confirmation"}]
    BY DEF PromotionInv, TypeOK
  <2> QED
    BY <1>5, <2>1 DEF Cascade
<1>6. CASE ~RegisterRule /\ ~RegisterExperience /\ ~PatternNode /\ ~Cascade
  <2>1. nodes' = nodes
    BY <1>6 DEF Next, Step, CheckDuplicate, RetestPass, RetestFail, Promote, Settle, Archive,
       LinkOrigin, Scan, PatternFile, PatternLinks, Submit, Interrupted, CompressArchive,
       AddDepends, RemoveRelation, DeleteRule, vars, graph
  <2> QED
    BY <2>1
<1> QED
  BY <1>2, <1>3, <1>4, <1>5, <1>6

\* A rule keeps its node and its number for ever.
THEOREM RulesSafe == Spec => RuleNodesKeep
<1>1. PromotionInv /\ [Next]_vars =>
        [\A i \in DOMAIN nodes : i[1] = "R" =>
           i \in DOMAIN nodes' /\ nodes'[i].name = nodes[i].name]_vars
  BY NodesStay
<1> QED
  BY <1>1, Reachable, PTL DEF Spec, RuleNodesKeep
--------------------------------------------------------------------------------
\* No cycle in a set of relations, said of the nodes it joins and of any nodes.
Acyclic(D) ==
    \A S \in SUBSET UNION {{e.src, e.dst} : e \in D} :
        S # {} => \E x \in S : \A e \in D : e.src = x => e.dst \notin S

\* In an acyclic graph every nonempty set, of nodes or not, has a member
\* without an edge into the set.
LEMMA AcyclicAny ==
    ASSUME NEW D, Acyclic(D), NEW S, S # {}
    PROVE  \E x \in S : \A e \in D : e.src = x => e.dst \notin S
<1> DEFINE N == UNION {{e.src, e.dst} : e \in D}
<1>1. \A e \in D : e.src \in N /\ e.dst \in N
  OBVIOUS
<1>2. CASE S \cap N = {}
  BY <1>1, <1>2
<1>3. CASE S \cap N # {}
  <2>1. S \cap N \in SUBSET N
    OBVIOUS
  <2>2. PICK x \in S \cap N : \A e \in D : e.src = x => e.dst \notin S \cap N
    BY <1>3, <2>1 DEF Acyclic
  <2> QED
    BY <1>1, <2>2
<1> QED
  BY <1>2, <1>3

\* A part of an acyclic set is acyclic, and so is one with a new relation from
\* a to b when no chain leads from b to a: a closed set T tells them apart.
LEMMA AcyclicPart ==
    ASSUME NEW D, Acyclic(D), NEW C \in SUBSET D
    PROVE  Acyclic(C)
  BY AcyclicAny DEF Acyclic

\* An edge between nodes that no path leads back between keeps the graph
\* acyclic.
LEMMA AcyclicMore ==
    ASSUME NEW D, Acyclic(D), NEW f, ~Reaches(D, f.dst, f.src)
    PROVE  Acyclic(D \cup {f})
<1>1. PICK T : /\ f.dst \in T /\ f.src \notin T
               /\ \A e \in D : e.src \in T => e.dst \in T
  BY DEF Reaches
<1>2. SUFFICES ASSUME NEW S, S # {}
               PROVE  \E x \in S : \A e \in D \cup {f} : e.src = x => e.dst \notin S
  BY DEF Acyclic
<1>3. CASE f.dst \in S
  <2>1. PICK x \in S \cap T : \A e \in D : e.src = x => e.dst \notin S \cap T
    BY <1>1, <1>3, AcyclicAny
  <2>2. \A e \in D \cup {f} : e.src = x => e.dst \notin S
    BY <1>1, <2>1
  <2> QED
    BY <2>1, <2>2
<1>4. CASE f.dst \notin S
  <2>1. PICK x \in S : \A e \in D : e.src = x => e.dst \notin S
    BY <1>2, AcyclicAny
  <2> QED
    BY <1>4, <2>1
<1> QED
  BY <1>3, <1>4

\* The dependencies of the graph never form a cycle.
THEOREM AcyclicSafe == Spec => []DependsAcyclic
<1>1. DependsAcyclic <=> Acyclic(DependsOn)
  BY DEF DependsAcyclic, Acyclic
<1>2. Init => DependsAcyclic
  BY DEF Init, DependsAcyclic, DependsOn
<1>3. DependsAcyclic /\ [Next]_vars => DependsAcyclic'
  <2> SUFFICES ASSUME DependsAcyclic, [Next]_vars PROVE DependsAcyclic'
    OBVIOUS
  <2>1. Acyclic(DependsOn)
    BY <1>1
  <2>2. ASSUME NEW i, NEW j, AddDepends(i, j) PROVE Acyclic(DependsOn')
    <3> DEFINE f == Edge(R(i), R(j), "depends_on")
    <3>1. ~Reaches(DependsOn, f.dst, f.src)
      BY <2>2 DEF AddDepends, DetectCycle, Edge
    <3>2. DependsOn' = DependsOn \cup {f}
      BY <2>2 DEF AddDepends, DependsOn, Edge
    <3> QED
      BY <2>1, <3>1, <3>2, AcyclicMore
  <2>3. ASSUME ~ \E i, j \in 1 .. MaxDependent : AddDepends(i, j) PROVE Acyclic(DependsOn')
    <3>1. DependsOn' \subseteq DependsOn
      <4>1. \A e \in edges' : e \in edges \/ e.rel # "depends_on"
        <5>1. CASE LinkOrigin
          BY <5>1 DEF LinkOrigin, Edge
        <5>2. CASE PatternLinks
          BY <5>2 DEF PatternLinks, PatternEdges, Edge
        <5>3. CASE \E e \in edges : RemoveRelation(e)
          BY <5>3 DEF RemoveRelation
        <5>4. CASE ~LinkOrigin /\ ~PatternLinks /\ ~ \E e \in edges : RemoveRelation(e)
          <6>1. edges' = edges
            BY <2>3, <5>4 DEF Next, Step, CheckDuplicate, RetestPass, RetestFail, Promote, Settle,
               Archive, RegisterRule, RegisterExperience, Scan, PatternFile, PatternNode,
               Cascade, Submit, Interrupted, CompressArchive, DeleteRule, vars, graph
          <6> QED
            BY <6>1
        <5> QED
          BY <5>1, <5>2, <5>3, <5>4
      <4> QED
        BY <4>1 DEF DependsOn
    <3> QED
      BY <2>1, <3>1, AcyclicPart
  <2>4. Acyclic(DependsOn')
    BY <2>2, <2>3
  <2> QED
    BY <2>4 DEF DependsAcyclic, Acyclic
<1> QED
  BY <1>2, <1>3, PTL DEF Spec
--------------------------------------------------------------------------------
(* AdoptionLog *)
\* Whatever was recorded is in the lines of a file, was settled, or was raced.
Holds(file) == \A e \in recorded : file[e] > 0 \/ Settled(e) \/ e \in raced

BatchKnown == \A r \in reqs : Waits(r) => fl[r.by].batch = r.batch

SeenStored == \A r \in reqs : r.pc = "read" => \A e \in r.seen : rows[e] > 0

AnsweredStored ==
    \A f \in Flushers : fl[f].pc = "answered" => \A e \in fl[f].batch : Settled(e)

AckedStored == \A f \in Flushers : \A e \in fl[f].acked : Settled(e)

KeptHolds == \A f \in Flushers : fl[f].pc = "write" => Holds(fl[f].kept)

TmpHolds == (\E f \in Flushers : fl[f].pc = "replace") => tmp = NoFile \/ Holds(tmp)

AdoptInv ==
    /\ AdoptTypeOK
    /\ BatchKnown /\ SeenStored
    /\ AnsweredStored /\ AckedStored
    /\ KeptHolds /\ TmpHolds
    /\ Accounted

-----------------------------------------------------------------------------
(* The type of the records.                                                *)

Flusher == [pc : {"idle", "post", "wait", "answered", "rewrite", "write", "replace"},
            todo : SUBSET Events, acked : SUBSET Events,
            n : Nat, batch : SUBSET Events, kept : [Events -> Nat]]

\* An idle flusher and what an error leaves of one are flushers.
LEMMA Ends ==
    ASSUME NEW x \in Flusher
    PROVE  /\ Idle \in Flusher /\ Idle.pc = "idle" /\ Idle.acked = {} /\ Idle.batch = {}
           /\ Stopped(x) \in Flusher
           /\ Stopped(x).pc \in {"idle", "rewrite"}
           /\ Stopped(x).acked \subseteq x.acked
  BY DEF Flusher, Idle, NoLines, Stopped

\* The first events of a set are events of the set.
LEMMA FirstIsPart ==
    ASSUME NEW n, NEW S, NEW T \in First(n, S)
    PROVE  T \subseteq S
  BY DEF First

-----------------------------------------------------------------------------
(* The invariant.                                                          *)

\* It holds at first.
LEMMA AdoptInitInv == AdoptInit => AdoptInv
  <1> SUFFICES ASSUME AdoptInit PROVE AdoptInv
    OBVIOUS
  <1>1. NoLines \in [Events -> Nat]
    BY DEF NoLines
  <1>2. AdoptTypeOK
    BY <1>1, FS_EmptySet DEF AdoptInit, AdoptTypeOK, Idle
  <1> QED
    BY <1>2 DEF AdoptInit, AdoptInv, BatchKnown, SeenStored, AnsweredStored, AckedStored,
               KeptHolds, TmpHolds, Accounted, Idle

\* A step that leaves the file, the rows, the histories and the requests
\* alone keeps it when what it makes of the flushers is right.
LEMMA FlusherStep ==
    ASSUME AdoptInv, NEW f \in Flushers, NEW x \in Flusher,
           fl' = [fl EXCEPT ![f] = x],
           UNCHANGED <<lines, rows, refused, recorded, raced, overlapped>>,
           tmp' = NoFile \/ tmp' \in [Events -> Nat],
           reqs' \subseteq reqs, x.pc # "wait",
           \A e \in x.acked : Settled(e),
           x.pc = "answered" => \A e \in x.batch : Settled(e),
           x.pc = "write" => Holds(x.kept),
           tmp' # tmp => tmp' = NoFile \/ Holds(tmp'),
           x.pc = "replace" => tmp' = NoFile \/ Holds(tmp')
    PROVE  AdoptInv'
  <1>1. IsFiniteSet(reqs')
    BY FS_Subset DEF AdoptInv, AdoptTypeOK
  <1>2. AdoptTypeOK'
    BY <1>1 DEF AdoptInv, AdoptTypeOK, Flusher
  <1>3. \A g \in Flushers : fl'[g] = IF g = f THEN x ELSE fl[g]
    BY DEF AdoptInv, AdoptTypeOK
  <1>4. BatchKnown'
    BY <1>3 DEF AdoptInv, AdoptTypeOK, BatchKnown, Waits
  <1>5. SeenStored' /\ Accounted'
    BY DEF AdoptInv, SeenStored, Accounted, Settled
  <1>6. AnsweredStored' /\ AckedStored'
    BY <1>3 DEF AdoptInv, AnsweredStored, AckedStored, Settled
  <1>7. KeptHolds'
    BY <1>3 DEF AdoptInv, KeptHolds, Holds, Settled
  <1>8. TmpHolds'
    BY <1>3 DEF AdoptInv, TmpHolds, Holds, Settled
  <1> QED
    BY <1>2, <1>4, <1>5, <1>6, <1>7, <1>8 DEF AdoptInv

-----------------------------------------------------------------------------
(* The steps.                                                              *)

\* A recorded event is in the file, and raced where a rewrite passes it.
LEMMA RecordInv == ASSUME AdoptInv, NEW e \in Events, Record(e) PROVE AdoptInv'
  <1>1. PICK n \in 1 .. Cardinality(Events) : lines' = [lines EXCEPT ![e] = n]
    BY DEF Record
  <1>2. n \in Nat /\ n > 0
    BY FS_CardinalityType, LogAssumption
  <1>3. AdoptTypeOK'
    BY <1>1, <1>2 DEF AdoptInv, AdoptTypeOK, Record
  <1>4. Accounted'
    BY <1>1, <1>2 DEF AdoptInv, AdoptTypeOK, Record, Accounted, Settled
  <1>5. KeptHolds' /\ TmpHolds'
    BY DEF AdoptInv, Record, KeptHolds, TmpHolds, Holds, Settled
  <1>6. BatchKnown' /\ SeenStored' /\ AnsweredStored' /\ AckedStored'
    BY DEF AdoptInv, Record, BatchKnown, SeenStored, AnsweredStored, AckedStored, Waits, Settled
  <1> QED
    BY <1>3, <1>4, <1>5, <1>6 DEF AdoptInv

\* A flusher that has loaded the file has events to send, and no batch or
\* answer yet.
LEMMA LoadInv == ASSUME AdoptInv, NEW f \in Flushers, Load(f) PROVE AdoptInv'
  <1>1. PICK T \in Loaded : fl' = [fl EXCEPT ![f].pc = "post", ![f].todo = T]
    BY DEF Load
  <1>2. T \subseteq Events
    BY <1>1, FirstIsPart DEF Loaded, InFile
  <1> DEFINE x == [Idle EXCEPT !.pc = "post", !.todo = T]
  <1>3. fl' = [fl EXCEPT ![f] = x]
    <2>1. fl[f] = Idle
      BY DEF Load
    <2> QED
      BY <1>1, <2>1
  <1>4. x \in Flusher /\ x.pc = "post" /\ x.acked = {}
    BY <1>2 DEF Idle, Flusher, NoLines
  <1> HIDE DEF x
  <1>5. /\ UNCHANGED <<lines, tmp, reqs, rows, refused, recorded, raced, overlapped>>
        /\ tmp = NoFile \/ tmp \in [Events -> Nat]
    BY DEF Load, AdoptInv, AdoptTypeOK
  <1> QED
    BY <1>3, <1>4, <1>5, FlusherStep

\* The number of a new request is new: no other request is waited for by it.
LEMMA PostInv == ASSUME AdoptInv, NEW f \in Flushers, Post(f) PROVE AdoptInv'
  <1>1. PICK B \in Batches(f), n \in 1 .. Cardinality(reqs) + 1 :
          /\ \A r \in reqs : r.n # n
          /\ reqs' = reqs \cup {[by |-> f, n |-> n, batch |-> B, pc |-> "new", seen |-> {}]}
          /\ fl'   = [fl EXCEPT ![f].pc = "wait", ![f].n = n, ![f].batch = B]
    BY DEF Post
  <1>2. B \subseteq Events /\ fl[f] \in Flusher
    BY <1>1, FirstIsPart DEF Batches, AdoptInv, AdoptTypeOK, Flusher
  <1>3. n \in Nat
    BY FS_CardinalityType DEF AdoptInv, AdoptTypeOK
  <1> DEFINE x == [fl[f] EXCEPT !.pc = "wait", !.n = n, !.batch = B]
             q == [by |-> f, n |-> n, batch |-> B, pc |-> "new", seen |-> {}]
  <1>4. fl' = [fl EXCEPT ![f] = x] /\ reqs' = reqs \cup {q}
    BY <1>1
  <1>5. /\ x \in Flusher /\ x.pc = "wait" /\ x.n = n /\ x.batch = B
        /\ x.acked = fl[f].acked
    BY <1>2, <1>3 DEF Flusher
  <1>6. /\ q \in [by : Flushers, n : Nat, batch : SUBSET Events,
                  pc : {"new", "read"}, seen : SUBSET Events]
        /\ q.by = f /\ q.n = n /\ q.batch = B /\ q.pc = "new"
    BY <1>2, <1>3
  <1> HIDE DEF x, q
  <1>7. \A g \in Flushers : fl'[g] = IF g = f THEN x ELSE fl[g]
    BY <1>4 DEF AdoptInv, AdoptTypeOK
  <1>8. UNCHANGED <<lines, tmp, rows, refused, recorded, raced, overlapped>>
    BY DEF Post
  <1>9. IsFiniteSet(reqs')
    BY <1>4, FS_AddElement DEF AdoptInv, AdoptTypeOK
  <1>10. AdoptTypeOK'
    BY <1>4, <1>5, <1>6, <1>8, <1>9 DEF AdoptInv, AdoptTypeOK, Flusher
  <1>11. BatchKnown'
    <2> SUFFICES ASSUME NEW r \in reqs', Waits(r)' PROVE fl'[r.by].batch = r.batch
      BY DEF BatchKnown
    <2>1. CASE r = q
      BY <2>1, <1>5, <1>6, <1>7
    <2>2. CASE r \in reqs
      <3>1. r.by \in Flushers /\ r.n # n
        BY <2>2, <1>1 DEF AdoptInv, AdoptTypeOK
      <3>2. r.by # f
        BY <3>1, <1>5, <1>7 DEF Waits
      <3> QED
        BY <2>2, <3>1, <3>2, <1>7 DEF AdoptInv, BatchKnown, Waits
    <2> QED
      BY <2>1, <2>2, <1>4
  <1>12. SeenStored'
    BY <1>4, <1>6, <1>8 DEF AdoptInv, SeenStored
  <1>13. AnsweredStored' /\ AckedStored' /\ KeptHolds' /\ TmpHolds' /\ Accounted'
    BY <1>5, <1>7, <1>8 DEF AdoptInv, AnsweredStored, AckedStored, KeptHolds, TmpHolds, Holds, Accounted, Settled
  <1> QED
    BY <1>10, <1>11, <1>12, <1>13 DEF AdoptInv

\* What a request has seen has a row.
LEMMA IngestReadInv == ASSUME AdoptInv, NEW r \in reqs, IngestRead(r) PROVE AdoptInv'
  <1> DEFINE q == [r EXCEPT !.pc = "read", !.seen = Existing(r)]
  <1>1. reqs' = (reqs \ {r}) \cup {q} /\ UNCHANGED <<lines, tmp, fl, rows, refused, recorded, raced>>
    BY DEF IngestRead
  <1>2. /\ q \in [by : Flushers, n : Nat, batch : SUBSET Events,
                  pc : {"new", "read"}, seen : SUBSET Events]
        /\ q.by = r.by /\ q.n = r.n /\ q.batch = r.batch
        /\ \A e \in q.seen : rows[e] > 0
    BY DEF AdoptInv, AdoptTypeOK, Existing
  <1>3. IsFiniteSet(reqs')
    BY <1>1, FS_AddElement, FS_RemoveElement DEF AdoptInv, AdoptTypeOK
  <1>4. overlapped' \subseteq Events
    BY DEF AdoptInv, AdoptTypeOK, IngestRead
  <1> HIDE DEF q
  <1>5. AdoptTypeOK'
    BY <1>1, <1>2, <1>3, <1>4 DEF AdoptInv, AdoptTypeOK
  <1>6. BatchKnown' /\ SeenStored'
    BY <1>1, <1>2 DEF AdoptInv, BatchKnown, SeenStored, Waits
  <1>7. AnsweredStored' /\ AckedStored' /\ KeptHolds' /\ TmpHolds' /\ Accounted'
    BY <1>1 DEF AdoptInv, AnsweredStored, AckedStored, KeptHolds, TmpHolds, Holds, Accounted, Settled
  <1> QED
    BY <1>5, <1>6, <1>7 DEF AdoptInv

\* A committed batch is stored, the part that was seen before as well.
LEMMA IngestCommitInv == ASSUME AdoptInv, NEW r \in reqs, IngestCommit(r) PROVE AdoptInv'
  <1>1. /\ UNCHANGED <<lines, tmp, recorded, raced, overlapped>>
        /\ reqs' = reqs \ {r} /\ r.pc = "read" /\ r.by \in Flushers
        /\ fl' = IF Waits(r) THEN [fl EXCEPT ![r.by].pc = "answered"] ELSE fl
    BY DEF IngestCommit, AdoptInv, AdoptTypeOK
  <1>2. /\ rows' \in [Events -> Nat]
        /\ refused \subseteq refused' /\ refused' \subseteq Unfit
        /\ \A e \in Events : rows[e] > 0 => rows'[e] > 0
    BY LogAssumption DEF IngestCommit, AdoptInv, AdoptTypeOK
  <1>2a. /\ \A e \in Events : Settled(e) => Settled(e)'
         /\ \A e \in r.batch : Settled(e)'
    <2>1. \A e \in Events : Settled(e) => Settled(e)'
      BY <1>2 DEF Settled
    <2> SUFFICES ASSUME NEW e \in r.batch PROVE Settled(e)'
      BY <2>1
    <2>2. e \in Events /\ rows[e] \in Nat
      BY DEF AdoptInv, AdoptTypeOK
    <2>3. CASE e \in r.seen
      BY <1>1, <2>1, <2>2, <2>3 DEF AdoptInv, SeenStored, Settled
    <2>4. CASE e \notin r.seen /\ e \in Unfit
      BY <2>4 DEF IngestCommit, Settled
    <2>5. CASE e \notin r.seen /\ e \notin Unfit
      BY <2>2, <2>5 DEF IngestCommit, Settled
    <2> QED
      BY <2>3, <2>4, <2>5
  <1>3. /\ fl' \in [Flushers -> Flusher]
        /\ \A g \in Flushers :
              /\ fl'[g].acked = fl[g].acked /\ fl'[g].kept = fl[g].kept
              /\ fl'[g].n = fl[g].n /\ fl'[g].batch = fl[g].batch
              /\ fl'[g].pc = fl[g].pc \/ (g = r.by /\ Waits(r) /\ fl'[g].pc = "answered")
    <2> DEFINE x == [fl[r.by] EXCEPT !.pc = "answered"]
    <2>1. fl \in [Flushers -> Flusher]
      BY DEF AdoptInv, AdoptTypeOK, Flusher
    <2>2. /\ x \in Flusher /\ x.pc = "answered" /\ x.acked = fl[r.by].acked
          /\ x.kept = fl[r.by].kept /\ x.n = fl[r.by].n /\ x.batch = fl[r.by].batch
      BY <1>1, <2>1 DEF Flusher
    <2>3. fl' = IF Waits(r) THEN [fl EXCEPT ![r.by] = x] ELSE fl
      BY <1>1
    <2> HIDE DEF x
    <2> QED
      BY <1>1, <2>1, <2>2, <2>3
  <1>4. IsFiniteSet(reqs')
    BY <1>1, FS_RemoveElement DEF AdoptInv, AdoptTypeOK
  <1>5. AdoptTypeOK'
    BY <1>1, <1>2, <1>3, <1>4 DEF AdoptInv, AdoptTypeOK, Flusher
  <1>6. BatchKnown' /\ SeenStored'
    BY <1>1, <1>2, <1>3 DEF AdoptInv, AdoptTypeOK, BatchKnown, SeenStored, Waits
  <1>7. AnsweredStored'
    BY <1>1, <1>2a, <1>3 DEF AdoptInv, AdoptTypeOK, AnsweredStored, BatchKnown, Flusher
  <1>8. AckedStored'
    BY <1>2a, <1>3 DEF AdoptInv, AdoptTypeOK, AckedStored, Flusher
  <1>9. KeptHolds' /\ TmpHolds' /\ Accounted'
    BY <1>1, <1>2a, <1>3 DEF AdoptInv, AdoptTypeOK, KeptHolds, TmpHolds, Holds, Accounted
  <1> QED
    BY <1>5, <1>6, <1>7, <1>8, <1>9 DEF AdoptInv

\* A failed request removes nothing that was not answered before it.
LEMMA IngestFailsInv == ASSUME AdoptInv, NEW r \in reqs, IngestFails(r) PROVE AdoptInv'
  <1>1. /\ UNCHANGED <<lines, tmp, rows, refused, recorded, raced, overlapped>>
        /\ reqs' \subseteq reqs /\ IsFiniteSet(reqs') /\ r.by \in Flushers
        /\ fl[r.by] \in Flusher
        /\ tmp = NoFile \/ tmp \in [Events -> Nat]
    BY FS_RemoveElement DEF IngestFails, AdoptInv, AdoptTypeOK, Flusher
  <1>2. CASE Waits(r)
    <2> DEFINE x == Stopped(fl[r.by])
    <2>1. fl' = [fl EXCEPT ![r.by] = x]
      BY <1>2 DEF IngestFails
    <2>2. x \in Flusher /\ x.pc \in {"idle", "rewrite"} /\ x.acked \subseteq fl[r.by].acked
      BY <1>1, Ends
    <2>3. \A e \in x.acked : Settled(e)
      BY <1>1, <2>2 DEF AdoptInv, AckedStored
    <2> HIDE DEF x
    <2> QED
      BY <1>1, <2>1, <2>2, <2>3, FlusherStep
  <1>3. CASE ~ Waits(r)
    <2>1. fl' = fl
      BY <1>3 DEF IngestFails
    <2> QED
      BY <1>1, <2>1 DEF AdoptInv, AdoptTypeOK, BatchKnown, SeenStored, AnsweredStored, AckedStored,
                        KeptHolds, TmpHolds, Holds, Accounted, Settled, Waits
  <1> QED
    BY <1>2, <1>3

\* A flusher that stops keeps the answers it has, and those are stored rows.
LEMMA GiveUpInv == ASSUME AdoptInv, NEW f \in Flushers, GiveUp(f) PROVE AdoptInv'
  <1>1. /\ UNCHANGED <<lines, tmp, reqs, rows, refused, recorded, raced, overlapped>>
        /\ fl' = [fl EXCEPT ![f] = Stopped(fl[f])] /\ fl[f] \in Flusher
        /\ tmp = NoFile \/ tmp \in [Events -> Nat]
    BY DEF GiveUp, LateEnds, AdoptInv, AdoptTypeOK, Flusher
  <1>2. \A e \in Stopped(fl[f]).acked : Settled(e)
    BY <1>1, Ends DEF AdoptInv, AckedStored
  <1> QED
    BY <1>1, <1>2, Ends, FlusherStep

\* The batch of an answer joins what may be removed: it has rows.
LEMMA AnsweredInv == ASSUME AdoptInv, NEW f \in Flushers, Answered(f) PROVE AdoptInv'
  <1> DEFINE rest == fl[f].todo \ fl[f].batch
             sent == fl[f].acked \cup fl[f].batch
             x == [Idle EXCEPT !.pc = IF rest = {} THEN "rewrite" ELSE "post",
                               !.todo = rest, !.acked = sent]
  <1>1. /\ UNCHANGED <<lines, tmp, reqs, rows, refused, recorded, raced, overlapped>>
        /\ fl' = [fl EXCEPT ![f] = x] /\ fl[f] \in Flusher
        /\ tmp = NoFile \/ tmp \in [Events -> Nat]
    BY DEF Answered, AdoptInv, AdoptTypeOK, Flusher
  <1>2. \A e \in sent : Settled(e)
    BY DEF Answered, AdoptInv, AckedStored, AnsweredStored
  <1>3. rest \subseteq Events /\ sent \subseteq Events
    BY <1>1 DEF Flusher
  <1>4. x \in Flusher /\ x.pc \in {"rewrite", "post"} /\ x.acked = sent
    BY <1>3 DEF Flusher, Idle, NoLines
  <1> HIDE DEF rest, sent, x
  <1> QED
    BY <1>1, <1>2, <1>4, FlusherStep

\* What the rewrite keeps in memory is the file without the answered events.
LEMMA RewriteReadInv == ASSUME AdoptInv, NEW f \in Flushers, RewriteRead(f) PROVE AdoptInv'
  <1> DEFINE kept == [e \in Events |-> IF e \in fl[f].acked THEN 0 ELSE lines[e]]
             x == [Idle EXCEPT !.pc = "write", !.kept = kept]
  <1>1. /\ UNCHANGED <<lines, tmp, reqs, rows, refused, recorded, raced, overlapped>>
        /\ fl' = [fl EXCEPT ![f] = x]
        /\ tmp = NoFile \/ tmp \in [Events -> Nat]
    BY DEF RewriteRead, AdoptInv, AdoptTypeOK
  <1>2. kept \in [Events -> Nat]
    BY DEF AdoptInv, AdoptTypeOK
  <1>3. Holds(kept)
    BY DEF AdoptInv, AdoptTypeOK, Accounted, AckedStored, Holds
  <1>4. x \in Flusher /\ x.pc = "write" /\ x.acked = {} /\ x.kept = kept
    BY <1>2 DEF Flusher, Idle, NoLines
  <1> HIDE DEF kept, x
  <1> QED
    BY <1>1, <1>3, <1>4, FlusherStep

\* The temporary file then holds what the flusher kept.
LEMMA RewriteWriteInv == ASSUME AdoptInv, NEW f \in Flushers, RewriteWrite(f) PROVE AdoptInv'
  <1> DEFINE x == [Idle EXCEPT !.pc = "replace"]
  <1>1. /\ UNCHANGED <<lines, reqs, rows, refused, recorded, raced, overlapped>>
        /\ fl' = [fl EXCEPT ![f] = x] /\ tmp' = fl[f].kept
    BY DEF RewriteWrite
  <1>2. tmp' \in [Events -> Nat]
    BY <1>1 DEF AdoptInv, AdoptTypeOK
  <1>3. Holds(tmp')
    BY <1>1 DEF RewriteWrite, AdoptInv, KeptHolds
  <1>4. x \in Flusher /\ x.pc = "replace" /\ x.acked = {}
    BY DEF Flusher, Idle, NoLines
  <1> HIDE DEF x
  <1> QED
    BY <1>1, <1>2, <1>3, <1>4, FlusherStep

\* What replaces the file holds all that it has to.
LEMMA RewriteReplaceInv == ASSUME AdoptInv, NEW f \in Flushers, RewriteReplace(f) PROVE AdoptInv'
  <1>1. /\ UNCHANGED <<reqs, rows, refused, recorded, raced, overlapped>>
        /\ lines' = (IF tmp = NoFile THEN lines ELSE tmp) /\ tmp' = NoFile
        /\ fl' = [fl EXCEPT ![f] = Idle]
    BY DEF RewriteReplace
  <1>2. Idle \in Flusher /\ Idle.pc = "idle" /\ Idle.acked = {} /\ Idle.batch = {}
    BY DEF Flusher, Idle, NoLines
  <1>3. \A g \in Flushers : fl'[g] = IF g = f THEN Idle ELSE fl[g]
    BY <1>1 DEF AdoptInv, AdoptTypeOK
  <1>4. AdoptTypeOK'
    BY <1>1, <1>2 DEF AdoptInv, AdoptTypeOK, Flusher
  <1>5. Accounted'
    BY <1>1 DEF RewriteReplace, AdoptInv, AdoptTypeOK, TmpHolds, Holds, Accounted, Settled
  <1>6. BatchKnown' /\ SeenStored' /\ AnsweredStored' /\ AckedStored' /\ KeptHolds' /\ TmpHolds'
    BY <1>1, <1>2, <1>3 DEF AdoptInv, AdoptTypeOK, BatchKnown, SeenStored, AnsweredStored, AckedStored,
                            KeptHolds, TmpHolds, Holds, Waits, Settled
  <1> QED
    BY <1>4, <1>5, <1>6 DEF AdoptInv

\* A crash empties every flusher and leaves both files as they are.
LEMMA CrashInv == ASSUME AdoptInv, Crash PROVE AdoptInv'
  <1>1. /\ UNCHANGED <<lines, tmp, reqs, rows, refused, recorded, raced, overlapped>>
        /\ fl' = [f \in Flushers |-> Idle]
    BY DEF Crash
  <1>2. Idle \in Flusher /\ Idle.pc = "idle" /\ Idle.acked = {} /\ Idle.batch = {}
    BY DEF Flusher, Idle, NoLines
  <1>3. AdoptTypeOK'
    BY <1>1, <1>2 DEF AdoptInv, AdoptTypeOK, Flusher
  <1> QED
    BY <1>1, <1>2, <1>3 DEF AdoptInv, AdoptTypeOK, BatchKnown, SeenStored, AnsweredStored, AckedStored,
                            KeptHolds, TmpHolds, Holds, Accounted, Settled, Waits

-----------------------------------------------------------------------------
(* The theorem.                                                            *)

\* Every step keeps the invariant.
LEMMA AdoptNextInv == AdoptInv /\ [AdoptNext]_adoptVars => AdoptInv'
  <1> SUFFICES ASSUME AdoptInv, [AdoptNext]_adoptVars PROVE AdoptInv'
    OBVIOUS
  <1>1. CASE \E e \in Events : Record(e)
    BY <1>1, RecordInv
  <1>2. ASSUME NEW f \in Flushers, Flush(f) \/ GiveUp(f) PROVE AdoptInv'
    BY <1>2, LoadInv, PostInv, AnsweredInv, RewriteReadInv, RewriteWriteInv,
       RewriteReplaceInv, GiveUpInv DEF Flush
  <1>3. ASSUME NEW r \in reqs, Serve(r) \/ IngestFails(r) PROVE AdoptInv'
    BY <1>3, IngestReadInv, IngestCommitInv, IngestFailsInv DEF Serve
  <1>4. CASE Crash
    BY <1>4, CrashInv
  <1>5. CASE UNCHANGED adoptVars
    BY <1>5 DEF adoptVars, AdoptInv, AdoptTypeOK, BatchKnown, SeenStored, AnsweredStored, AckedStored,
                KeptHolds, TmpHolds, Holds, Accounted, Settled, Waits
  <1> QED
    BY <1>1, <1>2, <1>3, <1>4, <1>5 DEF AdoptNext

\* An event is in the file until the server has made a row of it or rejected
\* it, whatever fails and ends (adoption.py:266-411, governance/metrics.py:143-224).
THEOREM NothingIsLost == AdoptSpec => []Accounted
  <1>1. AdoptInv => Accounted
    BY DEF AdoptInv
  <1> QED
    BY AdoptInitInv, AdoptNextInv, <1>1, PTL DEF AdoptSpec

-----------------------------------------------------------------------------
(* Counting.  An event gets its second row only from a request that was     *)
(* between its look at the table and its commit when another one looked: of  *)
(* an event that no two requests ingested at once, at most one request has   *)
(* looked and not committed, and while it has not found the event there is    *)
(* no row.                                                                  *)

Ingests(r, e) == r \in reqs /\ r.pc = "read" /\ e \in r.batch

UnseenIsNew ==
    \A r \in reqs : \A e \in Events \ overlapped :
        Ingests(r, e) /\ e \notin r.seen => rows[e] = 0

OneIngests ==
    \A q, r \in reqs : \A e \in Events \ overlapped :
        Ingests(q, e) /\ Ingests(r, e) => q = r

CountInv == UnseenIsNew /\ OneIngests /\ CountedOnce

\* A step that stores nothing keeps it when it brings no request to the point
\* of ingestion.
LEMMA NothingIngested ==
    ASSUME CountInv, UNCHANGED <<rows, overlapped>>,
           \A r \in reqs' : r.pc = "read" => r \in reqs
    PROVE  CountInv'
  BY DEF CountInv, UnseenIsNew, OneIngests, CountedOnce, Ingests

\* A request that looks finds no other one at work on an event, or the event
\* is overlapped from now on.
LEMMA IngestReadCounts ==
    ASSUME AdoptTypeOK, CountInv, NEW r \in reqs, IngestRead(r)
    PROVE  CountInv'
  <1> DEFINE q == [r EXCEPT !.pc = "read", !.seen = Existing(r)]
  <1>1. /\ reqs' = (reqs \ {r}) \cup {q} /\ rows' = rows
        /\ overlapped' = overlapped
              \cup {e \in r.batch : \E p \in reqs : p.pc = "read" /\ e \in p.batch}
    BY DEF IngestRead
  <1>2. q.batch = r.batch /\ q.seen = {e \in r.batch : rows[e] > 0}
    BY DEF AdoptTypeOK, Existing
  <1> HIDE DEF q
  <1>3. \A e \in Events \ overlapped' : \A p \in reqs :
            e \in q.batch => ~ Ingests(p, e)
    BY <1>1, <1>2 DEF Ingests
  <1>4. UnseenIsNew'
    <2> SUFFICES ASSUME NEW p \in reqs', NEW e \in Events \ overlapped',
                        Ingests(p, e)', e \notin p.seen
                 PROVE  rows[e] = 0
      BY <1>1 DEF UnseenIsNew
    <2>1. CASE p = q
      BY <2>1, <1>2 DEF Ingests, AdoptTypeOK
    <2>2. CASE p \in reqs
      BY <1>1, <2>2 DEF CountInv, UnseenIsNew, Ingests
    <2> QED
      BY <1>1, <2>1, <2>2
  <1>5. OneIngests'
    BY <1>1, <1>3 DEF CountInv, OneIngests, Ingests
  <1>6. CountedOnce'
    BY <1>1 DEF CountInv, CountedOnce
  <1> QED
    BY <1>4, <1>5, <1>6 DEF CountInv

\* The row that is stored is the first, and no other request is about to store
\* one.
LEMMA IngestCommitCounts ==
    ASSUME AdoptTypeOK, CountInv, NEW r \in reqs, IngestCommit(r)
    PROVE  CountInv'
  <1>1. /\ rows' = [e \in Events |->
                      IF e \in (r.batch \ r.seen) \ Unfit THEN rows[e] + 1 ELSE rows[e]]
        /\ reqs' = reqs \ {r} /\ overlapped' = overlapped /\ r.pc = "read"
    BY DEF IngestCommit
  <1>2. UnseenIsNew'
    <2> SUFFICES ASSUME NEW p \in reqs \ {r}, NEW e \in Events \ overlapped,
                        Ingests(p, e), e \notin p.seen
                 PROVE  rows'[e] = 0
      BY <1>1 DEF UnseenIsNew, Ingests
    <2>1. e \notin r.batch
      BY <1>1 DEF CountInv, OneIngests, Ingests
    <2> QED
      BY <1>1, <2>1 DEF CountInv, UnseenIsNew
  <1>3. OneIngests'
    BY <1>1 DEF CountInv, OneIngests, Ingests
  <1>4. CountedOnce'
    <2> SUFFICES ASSUME NEW e \in Events \ overlapped PROVE ~ (rows'[e] > 1)
      BY <1>1 DEF CountedOnce
    <2>1. rows[e] \in Nat /\ ~ (rows[e] > 1)
      BY DEF AdoptTypeOK, CountInv, CountedOnce
    <2>2. e \in (r.batch \ r.seen) \ Unfit => rows[e] = 0
      BY <1>1 DEF CountInv, UnseenIsNew, Ingests
    <2> QED
      BY <1>1, <2>1, <2>2
  <1> QED
    BY <1>2, <1>3, <1>4 DEF CountInv

\* A retried event has one row, unless two requests for it were between their
\* look at the table and their commit at once (adoption.py:31,
\* governance/metrics.py:172-230).
THEOREM RetriesAreCountedOnce == AdoptSpec => []CountedOnce
  <1>1. AdoptInit => CountInv
    BY DEF AdoptInit, CountInv, UnseenIsNew, OneIngests, CountedOnce, Ingests, NoLines
  <1>2. ASSUME AdoptInv, CountInv, [AdoptNext]_adoptVars PROVE CountInv'
    <2>1. ASSUME NEW f \in Flushers, Flush(f) \/ GiveUp(f) PROVE CountInv'
      <3>1. CASE Post(f)
        <4>1. /\ UNCHANGED <<rows, refused, overlapped>>
              /\ \A r \in reqs' : r.pc = "read" => r \in reqs
          BY <3>1 DEF Post
        <4> QED
          BY <4>1, <1>2, NothingIngested
      <3>2. CASE ~ Post(f)
        BY <1>2, <2>1, <3>2, NothingIngested
           DEF Flush, Load, Answered, RewriteRead, RewriteWrite, RewriteReplace, GiveUp
      <3> QED
        BY <3>1, <3>2
    <2>2. ASSUME NEW r \in reqs, Serve(r) \/ IngestFails(r) PROVE CountInv'
      <3>1. CASE IngestFails(r)
        BY <1>2, <3>1, NothingIngested DEF IngestFails
      <3> QED
        BY <1>2, <2>2, <3>1, IngestReadCounts, IngestCommitCounts DEF Serve, AdoptInv
    <2>3. CASE (\E e \in Events : Record(e)) \/ Crash \/ UNCHANGED adoptVars
      BY <1>2, <2>3, NothingIngested DEF Record, Crash, adoptVars
    <2> QED
      BY <1>2, <2>1, <2>2, <2>3 DEF AdoptNext
  <1>3. CountInv => CountedOnce
    BY DEF CountInv
  <1> QED
    BY <1>1, <1>2, <1>3, AdoptInitInv, AdoptNextInv, PTL DEF AdoptSpec
================================================================================
