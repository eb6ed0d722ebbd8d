----------------------------- MODULE MCJudging -----------------------------
(* Instances of Judging for TLC. Two of the three test cases come from two  *)
(* uploads and share a sequence number.                                     *)
EXTENDS Judging

CONSTANTS t1, t2, t3

TiedSeqNo == (t1 :> 1) @@ (t2 :> 2) @@ (t3 :> 2)
=============================================================================
