------------------------------- MODULE Promotion -------------------------------
(* distill_team/promotion: PromotionOrchestrator.promote takes a distilled    *)
(* rule through duplicate check, retest and promotion (at most two layers     *)
(* up), files it in archive.md, registers it in graph.md, promotes patterns   *)
(* found across projects and cascades over the graph.  Every step below is    *)
(* one rewrite of one file: the process may die, or a write raise, between    *)
(* any two.  A text is abstracted to its topic, and texts of the same topic   *)
(* are similar beyond the 0.9 threshold.                                      *)
EXTENDS Naturals, FiniteSets, FiniteSetsExt

CONSTANTS Prompts,       \* prompt ids the distillation produces
          Kinds,         \* what a rule can be like (RuleKind): pass is what its cases
                         \* make of the text, lead what they make of the principle
          ProjectRules,  \* [topic, cat] of the rule files of the project
          Within,        \* <<s, t>> : every keyword of topic s occurs in t
          Memories,      \* [project, num, topic] : experiences of all projects
          NoCat, None,
          DedupMax, RetestMax, PromoteMax, GlobalMax,
          MaxDependent   \* bound: dependencies join rules up to this number

Layers   == {"project", "rules_file", "global_top"}
Statuses == {"promoting", "promoted", "pending_confirmation", "not_to_top", "archived"}
Relations == {"promoted_from", "depends_on", "same_source"}

Rank(l) == CASE l = "project" -> 0 [] l = "rules_file" -> 1 [] l = "global_top" -> 2

\* The layers bound how often one rule goes round the loop.
ASSUME LimitsAssumption ==
    /\ DedupMax \in Nat /\ RetestMax \in Nat /\ PromoteMax \in Nat /\ GlobalMax \in Nat
    /\ DedupMax > 2 /\ RetestMax > 1 /\ PromoteMax > 2 /\ GlobalMax > 4
    /\ MaxDependent \in Nat

ASSUME DataAssumption ==
    /\ None \notin Kinds /\ None \notin Nat
    /\ None \notin [num : Nat \ {0}, topic : {m.topic : m \in Memories}]
    /\ \A m \in Memories : m.num \in Nat \ {0}

VARIABLES kind,     \* kind[p] : the rule submitted as prompt p, None before
          job,      \* the run of promote() under way, None between runs
          lib,      \* prompts with a file in the global rules directory
          hot,      \* prompts whose principle is in the hot-rule section of
                    \* user_profile.md
          crossing, \* [num, topic, cites] : files of cross-project rules
          archive,  \* [num, rule, full] : entries of archive.md
          missed,   \* prompts with a trigger-failure case in archive.md
          nodes,    \* graph.md: node id -> [name, status]
          edges     \* graph.md: [src, dst, rel]

vars  == <<kind, job, lib, hot, crossing, archive, missed, nodes, edges>>
rules == <<lib, hot, crossing>>
graph == <<nodes, edges>>

R(n) == <<"R", n>>
E(n) == <<"E", n>>

Init == /\ kind     = [p \in Prompts |-> None]
        /\ job      = None
        /\ lib      = {}
        /\ hot      = {}
        /\ crossing = {}
        /\ archive  = {}
        /\ missed   = {}
        /\ nodes    = [i \in {} |-> None]
        /\ edges    = {}
--------------------------------------------------------------------------------
\* register_node: a known id is replaced with all its fields.
Register(id, name) ==
    [i \in DOMAIN nodes \cup {id} |->
        IF i = id THEN [name |-> name, status |-> "active"] ELSE nodes[i]]

\* One more than the largest number in use.
Next1(nums) == Max(nums \cup {0}) + 1

\* Mutant: the rule files are counted instead.
NextRule_Files == Cardinality(lib) + Cardinality(crossing) + 1

NextRule  == Next1({n[2] : n \in {i \in DOMAIN nodes : i[1] = "R"}})
NextEntry == Next1({a.num : a \in archive})

Edge(s, d, r) == [src |-> s, dst |-> d, rel |-> r]

\* Some chain of dependencies leads from a to b: no set that holds a and is
\* closed under the dependencies of es leaves b out.
Reaches(es, a, b) ==
    \A S \in SUBSET ({a, b} \cup UNION {{e.src, e.dst} : e \in es}) :
        (a \in S /\ \A e \in es : e.src \in S => e.dst \in S) => b \in S

DependsOn == {e \in edges : e.rel = "depends_on"}

\* Mutant: only a direct dependency back is looked for.
DetectCycle_Direct(s, d) == s = d \/ Edge(d, s, "depends_on") \in edges

DetectCycle(s, d) == Reaches(DependsOn, d, s)
--------------------------------------------------------------------------------
Run(p) == [rule |-> p, pc |-> "dedup", layer |-> "project", status |-> "promoting",
           dedup |-> 0, retest |-> 0, promote |-> 0,
           entry |-> None, node |-> None, todo |-> {}, pattern |-> None]

\* _apply_promotion: a prompt that passed the gate becomes a rule.
Submit(p, k) ==
    /\ job = None
    /\ kind[p] = None
    /\ kind' = [kind EXCEPT ![p] = k]
    /\ job'  = Run(p)
    /\ UNCHANGED <<rules, archive, missed, graph>>

Rule      == kind[job.rule]
Iteration == job.dedup + job.retest + job.promote
At(pc)    == job # None /\ job.pc = pc

\* A rule without a category is compared with the global files as well, and
\* those carry none: the frontmatter promote() writes has id and title only.
Bucket ==
    ProjectRules \cup
    (IF Rule.cat = NoCat \/ job.layer = "global_top"
     THEN {[topic |-> kind[p].topic, cat |-> NoCat] : p \in lib} ELSE {})

Similar == {r \in Bucket : r.topic = Rule.topic}

\* Whether the rule duplicates the best match; ties are broken by file order.
SameScope(dup) ==
    IF Similar # {}
    THEN \E r \in Similar : dup = (r.cat = Rule.cat)
    ELSE dup = \E r \in Bucket : <<Rule.topic, r.topic>> \in Within /\ r.cat = Rule.cat

DedupFuse == Iteration >= GlobalMax \/ job.dedup + 1 >= DedupMax

\* check() and the branches on its verdict.  A duplicate gets a trigger failure
\* and leaves the loop; one that only overlaps goes on like a new rule.
CheckDuplicate(dup) ==
    /\ At("dedup")
    /\ SameScope(dup)
    /\ missed' = IF dup /\ ~DedupFuse THEN missed \cup {job.rule} ELSE missed
    /\ job' = [job EXCEPT
                 !.dedup  = IF Iteration < GlobalMax THEN @ + 1 ELSE @,
                 !.status = CASE DedupFuse -> "pending_confirmation"
                              [] dup /\ ~DedupFuse -> "archived"
                              [] OTHER -> @,
                 !.pc     = IF dup \/ DedupFuse THEN "archive" ELSE "retest"]
    /\ UNCHANGED <<kind, rules, archive, graph>>
--------------------------------------------------------------------------------
\* Mutant: a rule that some of its cases support goes on.
RetestPass_Partial ==
    /\ At("retest")
    /\ Rule.pass \in {"all", "partial"}
    /\ job' = [job EXCEPT !.pc = "promote"]
    /\ UNCHANGED <<kind, rules, archive, missed, graph>>

\* The whole text is held against the cases; without any it has passed all.
RetestPass ==
    /\ At("retest")
    /\ Rule.pass = "all"
    /\ job' = [job EXCEPT !.pc = "promote"]
    /\ UNCHANGED <<kind, rules, archive, missed, graph>>

\* A strategy is chosen and nobody applies it: the run leaves the loop with
\* status "promoting", or blows the fuse of the retests.
RetestFail ==
    /\ At("retest")
    /\ Rule.pass # "all"
    /\ job' = [job EXCEPT !.retest = @ + 1, !.pc = "archive",
                          !.status = IF job.retest + 1 >= RetestMax
                                     THEN "pending_confirmation" ELSE @]
    /\ UNCHANGED <<kind, rules, archive, missed, graph>>

\* check_promotion_eligibility: general rules leave the project, short ones
\* reach the top.
Eligible == \/ job.layer = "project" /\ ~Rule.specific
            \/ job.layer = "rules_file" /\ ~Rule.specific /\ Rule.terse

Above == IF job.layer = "project" THEN "rules_file" ELSE "global_top"

\* Mutant: the layer is not moved on.
Promote_SameLayer ==
    /\ At("promote") /\ Eligible
    /\ lib' = lib \cup {job.rule}
    /\ job' = [job EXCEPT !.promote = @ + 1, !.pc = "dedup"]
    /\ UNCHANGED <<kind, hot, crossing, archive, missed, graph>>

\* abstract_rule and _write_to_layer.  A rule that leaves the project has no place
\* or name of it to be taken out; at the top only its first paragraph is written,
\* the principle, which nobody tests.  Below the top the rule is checked again
\* against what is there.
Promote ==
    /\ At("promote") /\ Eligible
    /\ IF Above = "rules_file"
       THEN lib' = lib \cup {job.rule} /\ UNCHANGED hot
       ELSE hot' = hot \cup {job.rule} /\ UNCHANGED lib
    /\ job' = [job EXCEPT
                 !.promote = @ + 1,
                 !.layer   = Above,
                 !.status  = CASE job.promote + 1 >= PromoteMax -> "not_to_top"
                               [] job.promote + 1 < PromoteMax /\ Above = "global_top" -> "promoted"
                               [] OTHER -> @,
                 !.pc      = IF job.promote + 1 >= PromoteMax \/ Above = "global_top"
                             THEN "archive" ELSE "dedup"]
    /\ UNCHANGED <<kind, crossing, archive, missed, graph>>

\* As high as it goes.
Settle ==
    /\ At("promote") /\ ~Eligible
    /\ job' = [job EXCEPT !.status = "promoted", !.pc = "archive"]
    /\ UNCHANGED <<kind, rules, archive, missed, graph>>
--------------------------------------------------------------------------------
Unfused == job.status \notin {"pending_confirmation", "not_to_top"}

\* _archive_rule: every run whose fuses held files an experience, a failed
\* retest and a duplicate included; the others have no node either.
Archive ==
    /\ At("archive")
    /\ IF Unfused
       THEN /\ archive' = archive \cup {[num |-> NextEntry, rule |-> job.rule, full |-> TRUE]}
            /\ job' = [job EXCEPT !.entry = NextEntry, !.pc = "node"]
       ELSE job' = [job EXCEPT !.pc = "scan"] /\ UNCHANGED archive
    /\ UNCHANGED <<kind, rules, missed, graph>>

\* _register_graph_node: the rule, then the experience, then the relation.
RegisterRule ==
    /\ At("node")
    /\ nodes' = Register(R(NextRule), job.rule)
    /\ job'   = [job EXCEPT !.node = NextRule, !.pc = "experience"]
    /\ UNCHANGED <<kind, rules, archive, missed, edges>>

RegisterExperience ==
    /\ At("experience")
    /\ nodes' = Register(E(job.entry), job.rule)
    /\ job'   = [job EXCEPT !.pc = "origin"]
    /\ UNCHANGED <<kind, rules, archive, missed, edges>>

LinkOrigin ==
    /\ At("origin")
    /\ edges' = edges \cup {Edge(R(job.node), E(job.entry), "promoted_from")}
    /\ job'   = [job EXCEPT !.pc = "scan"]
    /\ UNCHANGED <<kind, rules, archive, missed, nodes>>
--------------------------------------------------------------------------------
\* find_abstract_pattern: two experiences or more that share their keywords.
Sources(t) == {m \in Memories : m.topic = t}
Patterns   == {t \in {m.topic : m \in Memories} : Cardinality(Sources(t)) > 1}

\* scan_cross_project_patterns: nothing remembers that a pattern was promoted.
Scan ==
    /\ At("scan")
    /\ job' = [job EXCEPT !.todo = Patterns, !.pc = "pattern"]
    /\ UNCHANGED <<kind, rules, archive, missed, graph>>

Cites(t) == {m.num : m \in Sources(t)}

\* Mutant: the relations are written before the node.
PatternFile_LinksFirst(t) ==
    /\ At("pattern") /\ t \in job.todo
    /\ edges' = edges \cup {Edge(R(NextRule), E(m), "promoted_from") : m \in Cites(t)}
    /\ job' = [job EXCEPT !.todo = @ \ {t}, !.pattern = [num |-> NextRule, topic |-> t],
                          !.pc = "pattern_node"]
    /\ UNCHANGED <<kind, rules, archive, missed, nodes>>

\* promote_pattern: the rule file, the node, the relations.
PatternFile(t) ==
    /\ At("pattern") /\ t \in job.todo
    /\ crossing' = {c \in crossing : c.num # NextRule}
                     \cup {[num |-> NextRule, topic |-> t, cites |-> Cites(t)]}
    /\ job' = [job EXCEPT !.todo = @ \ {t}, !.pattern = [num |-> NextRule, topic |-> t],
                          !.pc = "pattern_node"]
    /\ UNCHANGED <<kind, lib, hot, archive, missed, graph>>

PatternNode ==
    /\ At("pattern_node")
    /\ nodes' = Register(R(job.pattern.num), job.pattern.topic)
    /\ job'   = [job EXCEPT !.pc = "pattern_links"]
    /\ UNCHANGED <<kind, rules, archive, missed, edges>>

\* The numbers of the projects' experiences are taken as they are: two
\* projects' E001 are one node here, and one with this archive's E001.
PatternEdges(n, t) ==
    {Edge(R(n), E(m.num), "promoted_from") : m \in Sources(t)} \cup
    {Edge(E(k[1].num), E(k[2].num), "same_source") :
        k \in {q \in Sources(t) \X Sources(t) : q[1] # q[2] /\ q[1].num <= q[2].num}}

\* One rewrite of graph.md per relation: the run may end after any of them.
PatternLinks ==
    /\ At("pattern_links")
    /\ \E part \in SUBSET PatternEdges(job.pattern.num, job.pattern.topic) :
         /\ edges' = edges \cup part
         /\ job' = IF part = PatternEdges(job.pattern.num, job.pattern.topic)
                   THEN [job EXCEPT !.pattern = None, !.pc = "pattern"] ELSE None
    /\ UNCHANGED <<kind, rules, archive, missed, nodes>>

\* _evaluate_node walks the relations in both directions and takes every
\* relation that leads back onto its path for a cycle, the one it came by
\* included: m is marked when some relation other than same_source joins it
\* to a y, and m is on the path before y.
Marked(src) ==
    LET Joined == {<<e.src, e.dst>> : e \in edges} \cup {<<e.dst, e.src>> : e \in edges}
        Avoiding(y) == {[src |-> j[1], dst |-> j[2]] : j \in {k \in Joined : y \notin {k[1], k[2]}}}
        Strict == {e \in edges : e.rel # "same_source" /\ e.src # e.dst}
    IN  {m \in DOMAIN nodes :
            \E e \in Strict :
               /\ m \in {e.src, e.dst}
               /\ LET y == IF m = e.src THEN e.dst ELSE e.src
                  IN  m = src \/ (y # src /\ Reaches(Avoiding(y), src, m))}

\* cascade_from the node of this run, then the final status.
Cascade ==
    /\ At("pattern") /\ job.todo = {}
    /\ nodes' = IF job.node = None THEN nodes
                ELSE [i \in DOMAIN nodes |->
                        IF i \in Marked(R(job.node))
                        THEN [nodes[i] EXCEPT !.status = "pending_confirmation"] ELSE nodes[i]]
    /\ job' = None
    /\ UNCHANGED <<kind, rules, archive, missed, edges>>

\* A step raises (the run ends as pending_confirmation) or the process dies:
\* what was written stays, and nothing takes the run up again.
Interrupted ==
    /\ job # None
    /\ job' = None
    /\ UNCHANGED <<kind, rules, archive, missed, graph>>
--------------------------------------------------------------------------------
\* Rule files that mention experience n: only those of cross-project rules do.
Mentions(n) == {c \in crossing : n \in c.cites}

\* _rule_exists: the hot section is not searched.
Kept(a)   == Cardinality(Mentions(a.num)) > 1
Shortened(a) == Cardinality(Mentions(a.num)) = 1 /\ a.rule \in lib

\* compress_archive rewrites archive.md; the graph is not told.
CompressArchive ==
    /\ archive # {}
    /\ archive' = {a \in archive : Kept(a)}
                    \cup {[a EXCEPT !.full = FALSE] : a \in {b \in archive : ~Kept(b) /\ Shortened(b)}}
    /\ UNCHANGED <<kind, job, rules, missed, graph>>

\* add_relation of a dependency: nothing asks whether the two rules are registered.
\* Between the search for a cycle and the edge no other dependency is added.
AddDepends(i, j) ==
    /\ ~DetectCycle(R(i), R(j))
    /\ edges' = edges \cup {Edge(R(i), R(j), "depends_on")}
    /\ UNCHANGED <<kind, job, rules, archive, missed, nodes>>

RemoveRelation(e) ==
    /\ e \in DependsOn
    /\ edges' = edges \ {e}
    /\ UNCHANGED <<kind, job, rules, archive, missed, nodes>>

\* Somebody deletes a rule file of the global directory.
DeleteRule(p) ==
    /\ p \in lib
    /\ lib' = lib \ {p}
    /\ UNCHANGED <<kind, job, hot, crossing, archive, missed, graph>>

Step == \/ \E dup \in BOOLEAN : CheckDuplicate(dup)
        \/ RetestPass \/ RetestFail \/ Promote \/ Settle \/ Archive
        \/ RegisterRule \/ RegisterExperience \/ LinkOrigin
        \/ Scan \/ PatternNode \/ PatternLinks \/ Cascade
        \/ \E t \in Patterns : PatternFile(t)

Next == \/ Step
        \/ \E p \in Prompts, k \in Kinds : Submit(p, k)
        \/ Interrupted
        \/ CompressArchive
        \/ \E i, j \in 1 .. MaxDependent : AddDepends(i, j)
        \/ \E e \in edges : RemoveRelation(e)
        \/ \E p \in Prompts : DeleteRule(p)

Spec == Init /\ [][Next]_vars
--------------------------------------------------------------------------------
RuleKind == [topic : {k.topic : k \in Kinds}, cat : {k.cat : k \in Kinds},
             specific : BOOLEAN, terse : BOOLEAN,
             pass : {"all", "partial", "none"}, lead : {"all", "partial", "none"}]
Numbers  == Nat \ {0}
NodeIds  == {"R", "E"} \X Numbers
RunType  == [rule : Prompts,
             pc : {"dedup", "retest", "promote", "archive", "node", "experience",
                   "origin", "scan", "pattern", "pattern_node", "pattern_links"},
             layer : Layers, status : Statuses,
             dedup : Nat, retest : Nat, promote : Nat,
             entry : Numbers \cup {None}, node : Numbers \cup {None},
             todo : SUBSET Patterns,
             pattern : [num : Numbers, topic : Patterns] \cup {None}]

TypeOK ==
    /\ kind \in [Prompts -> Kinds \cup {None}]
    /\ job \in RunType \cup {None}
    /\ lib \subseteq Prompts /\ hot \subseteq Prompts /\ missed \subseteq Prompts
    /\ crossing \subseteq [num : Numbers, topic : Patterns, cites : SUBSET Numbers]
    /\ archive \subseteq [num : Numbers, rule : Prompts, full : BOOLEAN]
    /\ DOMAIN nodes \subseteq NodeIds
    /\ \A i \in DOMAIN nodes : nodes[i] \in [name : Prompts \cup Patterns,
                                             status : {"active", "pending_confirmation"}]
    /\ edges \subseteq [src : NodeIds, dst : NodeIds, rel : Relations]

\* What everybody gets to read first is the principle of a rule that is general,
\* short, and was, as a whole, held against every case it came from, at whatever
\* layer and round it was checked.
HotFromTested ==
    \A p \in hot : ~kind[p].specific /\ kind[p].terse /\ kind[p].pass = "all"

\* What everybody gets to read first passes every case (promote.py:228 cuts the
\* text after the test).
HotIsTested == \A p \in hot : kind[p].lead = "all"

\* The layers, not the fuses, end the loop of promote(): no run ever waits for
\* a person because it went round too often.
FusesHold == job # None => Unfused

\* A relation to an experience starts at a rule that is in the graph, wherever
\* a run was cut off.
OriginKnown ==
    \A e \in edges : e.rel = "promoted_from" => e.src \in DOMAIN nodes

\* No chain of dependencies comes back: every non-empty set of nodes has one
\* that depends on none of them (detect_cycle).
DependsAcyclic ==
    \A S \in SUBSET UNION {{e.src, e.dst} : e \in DependsOn} :
        S # {} => \E x \in S : \A e \in DependsOn : e.src = x => e.dst \notin S

\* The number of a rule is never given to another rule, though two places of
\* the code take numbers and a run may end between taking and registering.
RuleNodesKeep ==
    [][\A i \in DOMAIN nodes : i[1] = "R" =>
         i \in DOMAIN nodes' /\ nodes'[i].name = nodes[i].name]_vars
================================================================================
