------------------------------ MODULE MCPromotion ------------------------------
(* Two prompts of any of four kinds, on topics with a rule file in the        *)
(* project already or without one, and two projects that hold the same        *)
(* numbered experience on a shared topic.                                     *)
EXTENDS Promotion, TLC

Symmetry == Permutations(Prompts)

Kind(t, c, specific, terse, pass, lead) ==
    [topic |-> t, cat |-> c, specific |-> specific, terse |-> terse,
     pass |-> pass, lead |-> lead]

MCKinds == {Kind("retry", "io", FALSE, TRUE, "all", "all"),
            Kind("retry", NoCat, FALSE, TRUE, "all", "partial"),
            Kind("paths", "io", TRUE, TRUE, "all", "all"),
            Kind("retry", "io", FALSE, TRUE, "partial", "all")}

MCProjectRules == {[topic |-> "naming", cat |-> "db"]}
MCWithin       == {<<"paths", "naming">>}
MCMemories     == {[project |-> "a", num |-> 1, topic |-> "cache"],
                   [project |-> "b", num |-> 1, topic |-> "cache"],
                   [project |-> "b", num |-> 2, topic |-> "locks"]}
================================================================================
