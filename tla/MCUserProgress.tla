--------------------------- MODULE MCUserProgress ---------------------------
(* Two submissions to one problem and one to another that shares a skill.   *)
EXTENDS UserProgress, TLC

CONSTANTS s1, s2, s3, p, q, array, graph

MCProblemOf == (s1 :> p) @@ (s2 :> p) @@ (s3 :> q)
MCTags == (p :> {array}) @@ (q :> {array, graph})
=============================================================================
