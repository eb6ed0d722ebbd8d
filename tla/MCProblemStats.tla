--------------------------- MODULE MCProblemStats ---------------------------
(* Two submissions and one listing of problem p, one submission of q.       *)
EXTENDS ProblemStats, TLC

CONSTANTS s1, s2, s3, l1, p, q

MCProblemOf == (s1 :> p) @@ (s2 :> p) @@ (s3 :> q) @@ (l1 :> p)
=============================================================================
