---------------------------- MODULE MCProblemPage ----------------------------
(* Instances of ProblemPage for TLC.  A visit follows one of the plans: the  *)
(* number of clicks the user has on each panel.  Each plan concentrates on   *)
(* what can go wrong around one or two panels; timers, answers and the       *)
(* server take their steps in all of them.                                   *)
EXTENDS ProblemPage

CONSTANTS python, java, s1, s2, c1, c2

MCPanels == {"edit", "judge", "try", "assist", "leave", "hour", "talk"}

Plan(edit, judge, try, assist, leave, hour, talk) ==
  [p \in MCPanels |->
     CASE p = "edit" -> edit
       [] p = "judge" -> judge
       [] p = "try" -> try
       [] p = "assist" -> assist
       [] p = "leave" -> leave
       [] p = "hour" -> hour
       [] p = "talk" -> talk]

MCPlans ==
  {Plan(0, 0, 0, 0, 1, 0, 2),   \* looking at the discussion
   Plan(4, 0, 0, 0, 0, 0, 0),   \* writing and switching languages
   Plan(4, 0, 0, 0, 1, 0, 0),   \* ... leaving and coming back
   Plan(0, 1, 0, 0, 1, 0, 0),   \* leaving while a submission is on its way
   Plan(0, 3, 0, 0, 0, 0, 0),   \* submitting, picking, going back
   Plan(1, 1, 0, 0, 0, 0, 0),   \* submitting what is being written
   Plan(1, 0, 1, 0, 1, 0, 0),   \* leaving while the code runs
   Plan(0, 0, 3, 0, 0, 0, 0),   \* editing and running test cases
   Plan(1, 0, 0, 1, 0, 0, 0),   \* a hint or a completion, while writing
   Plan(0, 0, 0, 2, 0, 1, 0)}   \* several of them, and the hour passes

(* The user may have submitted in the first language before.               *)
MCFirstCodes ==
  {[l \in {python, java} |-> NoText],
   [l \in {python, java} |->
      IF l = python THEN [lang |-> python, version |-> 1] ELSE NoText]}

MCRequests == {"submit", "run", "hint", c1, c2}
MCServices == {"code_submission", "code_execution", "ai_hint",
               "code_completion"}
MCServiceOf ==
  [r \in MCRequests |->
     CASE r = "submit" -> "code_submission"
       [] r = "run" -> "code_execution"
       [] r = "hint" -> "ai_hint"
       [] OTHER -> "code_completion"]
MCLimit == [s \in MCServices |-> IF s = "code_submission" THEN 2 ELSE 1]

(* The page opens on an older submission without a verdict.                *)
MCFirstVerdicts == {[s \in {s1, s2} |-> IF s = s1 THEN "pending" ELSE "none"]}

(* The older submission fails, the one made here is accepted.              *)
MCEnds == [s \in {s1, s2} |-> IF s = s1 THEN "failed" ELSE "accepted"]

MCSamples == <<[input |-> "in1", expected |-> "right"],
               [input |-> "in2", expected |-> "right"]>>
MCOutput == [in \in {"in1", "in2", "empty"} |->
               CASE in = "in1" -> "right" [] in = "in2" -> "wrong"
                 [] in = "empty" -> "crash"]
=============================================================================
