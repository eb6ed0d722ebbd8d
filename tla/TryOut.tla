------------------------------- MODULE TryOut -------------------------------
(***************************************************************************)
(* The test cases under the editor of the problem page and the Run button  *)
(* (frontend/src/pages/problems/[problemId].tsx): the user edits cases and *)
(* runs the code on their inputs; each result is shown at the place of a   *)
(* case, next to the case it was paired with when it came back.            *)
(*                                                                         *)
(* Inputs and outputs are members of small sets; the empty text is the one *)
(* the code treats in a way of its own (cases without input are not run).  *)
(* What the code prints for an input is the constant Output: the editor's  *)
(* text matters to module Drafts, not here.                                *)
(***************************************************************************)
EXTENDS ProblemScreen, Sequences, FiniteSets

CONSTANTS
  Inputs,       \* inputs that are not empty
  Outputs,      \* outputs and expected outputs that are not empty
  Empty,        \* the empty text
  Output,       \* what the user's code prints for an input, or Crash
  Crash,        \* the run of the code does not succeed
  Samples,      \* sample_test_cases of the problem
  MaxCases      \* bound on the number of test cases

Case == [input : Inputs \cup {Empty}, expected : Outputs \cup {Empty}]

ASSUME TryOutAssumption ==
  /\ Output \in [Inputs \cup {Empty} -> Outputs \cup {Empty, Crash}]
  /\ Samples \in Seq(Case)
  /\ MaxCases \in Nat \ {0}

VARIABLES
  cases,        \* customTestCases
  activeCase,   \* activeTestCase, counted from 1
  running,      \* cases of the run in flight, or NoRun
  results       \* testCaseResults: the input that was run, and the case

tryVars == <<cases, activeCase, running, results>>

NoRun == <<"no run">>
NoCase == [input |-> Crash, expected |-> Crash]

BlankCase == [input |-> Empty, expected |-> Empty]

TryTypeOK ==
  /\ cases \in Seq(Case) /\ Len(cases) <= MaxCases + Len(Samples)
  /\ activeCase \in 1..Len(cases)
  /\ running = NoRun \/ running \in Seq(Case)
  /\ results \in Seq([ran : Inputs \cup {Empty}, case : Case \cup {NoCase}])

TryInit ==
  /\ cases = <<BlankCase>>
  /\ activeCase = 1
  /\ running = NoRun
  /\ results = <<>>

(* fetchProblem replaces the cases by the samples, if there are any.       *)
SamplesArrive ==
  /\ ProblemArrives
  /\ cases' = IF Samples = <<>> THEN cases ELSE Samples
  /\ UNCHANGED <<activeCase, running, results>>

(* The two text areas edit the active case; the results stay.              *)
EditInput(in) ==
  /\ Click("try")
  /\ cases' = [cases EXCEPT ![activeCase].input = in]
  /\ UNCHANGED <<activeCase, running, results>>

EditExpected(out) ==
  /\ Click("try")
  /\ cases' = [cases EXCEPT ![activeCase].expected = out]
  /\ UNCHANGED <<activeCase, running, results>>

SelectCase(i) ==
  /\ Click("try")
  /\ activeCase' = i
  /\ UNCHANGED <<cases, running, results>>

AddCase ==
  /\ Click("try")
  /\ Len(cases) < MaxCases
  /\ cases' = Append(cases, BlankCase)
  /\ UNCHANGED <<activeCase, running, results>>

\* Mutant: the new case is looked for behind the end.
AddFailedCaseBehind(case) ==
  /\ Len(cases) < MaxCases
  /\ cases' = Append(cases, case)
  /\ activeCase' = Len(cases) + 2
  /\ UNCHANGED <<running, results>>

(* "Add as Test Case" of a failed submission: the case it failed.          *)
AddFailedCase(case) ==
  /\ Len(cases) < MaxCases
  /\ cases' = Append(cases, case)
  /\ activeCase' = Len(cases) + 1
  /\ UNCHANGED <<running, results>>
-----------------------------------------------------------------------------
(* handleRunCode up to its await: the old results go, the handler keeps    *)
(* the cases of this moment.  The button is disabled while it runs.        *)
Run ==
  /\ Click("try")
  /\ running = NoRun
  /\ running' = cases
  /\ results' = <<>>
  /\ execError' = FALSE
  /\ UNCHANGED <<cases, activeCase>>
  /\ UNCHANGED <<signedIn, authCheck, fetching, problem, pageError, tab, threads>>

RunBlank ==
  /\ Click("try")
  /\ running = NoRun
  /\ execError' = TRUE
  /\ UNCHANGED tryVars
  /\ UNCHANGED <<signedIn, authCheck, fetching, problem, pageError, tab, threads>>

(* The inputs that are sent: those of the cases that have one, in their    *)
(* order, or a single empty one.                                           *)
HasInput(cs) == {i \in DOMAIN cs : cs[i].input # Empty}

Place(cs, k) ==
  CHOOSE i \in HasInput(cs) : Cardinality({j \in HasInput(cs) : j <= i}) = k

InputsOf(cs) ==
  IF HasInput(cs) = {} THEN <<Empty>>
  ELSE [k \in 1..Cardinality(HasInput(cs)) |-> cs[Place(cs, k)].input]

(* The answer to /execute: the i-th result is paired with the i-th case.   *)
Paired(inputs, cs) ==
  [i \in DOMAIN inputs |->
     [ran |-> inputs[i], case |-> IF i \in DOMAIN cs THEN cs[i] ELSE NoCase]]

\* Mutant: results are paired with the cases of the moment they arrive.
RunArrivesLate ==
  /\ running # NoRun
  /\ results' = Paired(InputsOf(running), cases)
  /\ running' = NoRun
  /\ UNCHANGED <<cases, activeCase>>

RunArrives ==
  /\ running # NoRun
  /\ results' = Paired(InputsOf(running), running)
  /\ running' = NoRun
  /\ UNCHANGED <<cases, activeCase>>

RunFails ==
  /\ running # NoRun
  /\ running' = NoRun
  /\ execError' = TRUE
  /\ UNCHANGED <<cases, activeCase, results>>
  /\ UNCHANGED <<signedIn, authCheck, fetching, problem, pageError, tab, threads,
                 clicks>>

TryReopens ==
  /\ cases' = <<BlankCase>>
  /\ activeCase' = 1
  /\ running' = NoRun
  /\ results' = <<>>
-----------------------------------------------------------------------------
(* The dot of case i: green, red, yellow or grey.                          *)
Dot(i) ==
  IF i \notin DOMAIN results THEN "grey"
  ELSE CASE Output[results[i].ran] = Crash -> "yellow"
         [] Output[results[i].ran] = results[i].case.expected -> "green"
         [] OTHER -> "red"

(* The pane beside the active case.                                        *)
OutputPane ==
  CASE running # NoRun -> "executing"
    [] running = NoRun /\ execError -> "error"
    [] running = NoRun /\ ~execError /\ activeCase \in DOMAIN results ->
         IF Dot(activeCase) = "green" THEN "Accepted"
         ELSE IF Dot(activeCase) = "red" THEN "Wrong Answer" ELSE "Failed"
    [] OTHER -> "hint"

Earned(i) ==
  \/ Output[results[i].case.input] = results[i].case.expected
  \/ \E j \in 1..i : results[j].case.input = Empty

(* A green dot, and the word "Accepted" beside the active case, are        *)
(* earned: the code prints the expected output of the case the run was     *)
(* started with at that place, however the cases are edited, added or      *)
(* selected while it runs; unless a case without input stands before it    *)
(* (it is not run, and the results after it move up).                      *)
(* (handleRunCode: filter, index and the closure over customTestCases.)    *)
GreenIsEarned ==
  /\ \A i \in DOMAIN cases : Dot(i) = "green" => Earned(i)
  /\ OutputPane = "Accepted" => Earned(activeCase)
=============================================================================
