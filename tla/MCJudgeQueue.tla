---------------------------- MODULE MCJudgeQueue ----------------------------
(* Instances of JudgeQueue for TLC: requests and statuses are model values, *)
(* and the requests are interchangeable.                                    *)
EXTENDS JudgeQueue, TLC

Symmetry == Permutations(Requests)
=============================================================================
