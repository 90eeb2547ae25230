------------------------- MODULE MCPersonalDistill -------------------------
(* Two session files and a conversation; of their topics one is of one-time  *)
(* use, one too vague for the threshold, and one the model never answers.    *)
EXTENDS PersonalDistill
CONSTANTS s1, s2, bob, memory, tool, rule, once
MCTopicsOf == (s1 :> {memory, rule}) @@ (s2 :> {tool, once}) @@ (bob :> {memory, tool})
=============================================================================
