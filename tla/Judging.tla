------------------------------ MODULE Judging ------------------------------
(***************************************************************************)
(* The judgement of ONE submission: processSubmission of                   *)
(* backend/internal/handlers/submission.go, from the id it is given to the *)
(* verdict it stores, with runCodeAgainstTestCases (execute.go),           *)
(* ai.ExecuteCode and the language executors below it.  JudgeQueue shows   *)
(* that judgements never overlap and that each starts on a PENDING row     *)
(* with its code file in place.                                            *)
(*                                                                         *)
(* Around the judge run, all at any moment:                                *)
(*   - an author, who publishes the problem and adds its test cases one    *)
(*     after the other (GenerateExpectedOutputs, BulkAddTestCasesHandler,  *)
(*     AddTestCaseHandler); sequence numbers may repeat, since every       *)
(*     upload numbers its cases from 1;                                    *)
(*   - the clock: ONE context of 10 seconds serves the reads at the start  *)
(*     and, after the program has run on every test case, the writes to    *)
(*     submission_results, so it may be over by then;                      *)
(*   - the user, who opens the details page (GetSubmissionDetailsHandler   *)
(*     reads the row first and the stored results after that).             *)
(***************************************************************************)
EXTENDS Naturals, FiniteSets, SequencesExt

CONSTANTS
  Tests,       \* documents of test_cases the problem may get
  SeqNo,       \* their field sequence_number
  Languages,   \* languages a client submits
  Behaviours,  \* what a program may do on a test case
  None         \* no test case

Executors == {"python", "javascript", "cpp", "java"}

ASSUME JudgingAssumption ==
  /\ IsFiniteSet(Tests)
  /\ SeqNo \in [Tests -> Nat]
  /\ Languages \subseteq Executors \cup {"pseudocode"}
  /\ Behaviours \subseteq {"right", "wrong", "chatty", "crash", "hang", "broken"}
  /\ None \notin Tests

VARIABLES
  language,   \* of the submission
  program,    \* what the submitted program does on each test case
  escapes,    \* the submitted code has backslash escapes
  parsers,    \* problem_artifacts has the I/O code for this language
  failing,    \* database, file, AI and executor calls may fail
  published,  \* the problem is in the database
  suite,      \* its test cases in the database
  pc,         \* where processSubmission is
  fresh,      \* its 10 second context is not over
  order,      \* the test cases it has read, by sequence number
  replies,    \* what the executor answered, in that order
  seen,       \* how many replies the result loop has handled
  verdict,    \* what it is going to store
  results,    \* database: submission_results of this submission
  row,        \* database: the verdict fields of the submission
  spawned,    \* follow-up goroutines started
  page        \* what the details page has read

author == <<published, suite>>
given == <<language, program, escapes, parsers, failing>>
work == <<order, replies, seen, verdict>>
vars == <<language, program, escapes, parsers, failing, published, suite, pc, fresh,
          order, replies, seen, verdict, results, row, spawned, page>>

TestStatuses == {"PASSED", "WRONG_ANSWER", "TIME_LIMIT_EXCEEDED", "RUNTIME_ERROR"}
Verdicts == {"ACCEPTED", "WRONG_ANSWER", "TIME_LIMIT_EXCEEDED", "RUNTIME_ERROR"}
Replies == {"match", "differ", "runtime_error", "compilation_error",
            "time_limit_exceeded", "error"}
Verdict(Status) ==
  [status : Status, passed : Nat, total : Nat, failed : Tests \cup {None}, analysed : BOOLEAN]

TypeOK ==
  /\ language \in Languages
  /\ program \in [Tests -> Behaviours]
  /\ escapes \in BOOLEAN
  /\ parsers \in BOOLEAN
  /\ failing \in BOOLEAN
  /\ published \in BOOLEAN
  /\ suite \subseteq Tests
  /\ pc \in {"row", "problem", "tests", "code", "parsers", "running", "saving",
             "analysing", "updating", "done"}
  /\ fresh \in BOOLEAN
  /\ order \in Seq(Tests)
  /\ replies \in Seq(Replies)
  /\ seen \in Nat
  /\ verdict \in Verdict(Verdicts)
  /\ results \subseteq [test : Tests, status : TestStatuses]
  /\ row \in Verdict(Verdicts \cup {"PENDING"})
  /\ spawned \subseteq {"statistics", "skills"}
  /\ page \in [at : {"closed", "row", "shown"}, status : Verdicts \cup {"PENDING"},
               failed : Tests \cup {None}]

Outcome(status, passed, total, failed) ==
  [status |-> status, passed |-> passed, total |-> total, failed |-> failed,
   analysed |-> FALSE]

Init ==
  /\ language \in Languages
  /\ program \in [Tests -> Behaviours]
  /\ \A t, u \in Tests : program[t] = "broken" => program[u] = "broken"
  /\ escapes \in BOOLEAN
  /\ parsers \in BOOLEAN
  /\ failing \in BOOLEAN
  /\ published = FALSE
  /\ suite = {}
  /\ pc = "row"
  /\ fresh = TRUE
  /\ order = <<>>
  /\ replies = <<>>
  /\ seen = 0
  /\ verdict = Outcome("ACCEPTED", 0, 0, None)
  /\ results = {}
  /\ row = Outcome("PENDING", 0, 0, None)
  /\ spawned = {}
  /\ page = [at |-> "closed", status |-> "PENDING", failed |-> None]

-----------------------------------------------------------------------------
(* The executors *)

\* What the executor may run instead of a program that does b on a test case.
\* execute.go puts Python between triple quotes and escapes only those: a
\* backslash in it is interpreted, which gives some other program, or none. For
\* the others it marks the parts with lines that begin with "# ", an error there.
Wrapped(b) ==
  IF language # "python" THEN {"broken"}
  ELSE IF escapes THEN Behaviours \cup {"broken"}
  ELSE {b}

\* The Lambda takes the exit code for success, the containers also want an empty
\* stderr; g++ and javac run before the program, node and python compile it.
Execute(lang, b) ==
  CASE b = "right" -> "match"
    [] b = "wrong" -> "differ"
    [] b = "chatty" -> IF lang = "python" THEN "match" ELSE "runtime_error"
    [] b = "crash" -> "runtime_error"
    [] b = "hang" -> "time_limit_exceeded"
    [] b = "broken" -> IF lang \in {"cpp", "java"} THEN "compilation_error" ELSE "runtime_error"

\* ai.ExecuteCode; an error of its own is "error" in runCodeAgainstTestCases.
ExecuteCode(b) ==
  IF language \notin Executors THEN {"error"}
  ELSE {Execute(language, r) : r \in Wrapped(b)} \cup (IF failing THEN {"error"} ELSE {})

-----------------------------------------------------------------------------
(* processSubmission *)

Go(from, to) == pc = from /\ pc' = to

\* Mutant: an early return without updateSubmissionStatus.
GiveUpSilently(from) ==
  /\ Go(from, "done")
  /\ verdict' = Outcome("RUNTIME_ERROR", 0, 0, None)
  /\ UNCHANGED <<given, author, fresh, order, replies, seen, results, row, spawned, page>>

\* updateSubmissionStatus(id, RUNTIME_ERROR, 0, 0, 0, 0, "", "", nil); return
GiveUp(from) ==
  /\ Go(from, "updating")
  /\ verdict' = Outcome("RUNTIME_ERROR", 0, 0, None)
  /\ UNCHANGED <<given, author, fresh, order, replies, seen, results, row, spawned, page>>

\* A read through the 10 second context.
Read(from, to) ==
  /\ Go(from, to)
  /\ fresh
  /\ UNCHANGED <<given, author, fresh, work, results, row, spawned, page>>
ReadFails(from) == (~fresh \/ failing) /\ GiveUp(from)

ReadSubmission == Read("row", "problem") \/ ReadFails("row")

\* SubmitSolutionHandler does not check that the problem exists.
ReadProblem ==
  \/ published /\ Read("problem", "tests")
  \/ (~published /\ GiveUp("problem"))
  \/ ReadFails("problem")

\* The results of the sort on sequence_number: ties come in any order.
Sorted(S) ==
  {s \in SetToSeqs(S) : \A i, j \in 1 .. Len(s) : i < j => SeqNo[s[i]] <= SeqNo[s[j]]}

ReadTests ==
  \/ /\ Go("tests", "code")
     /\ fresh
     /\ suite # {}
     /\ order' \in Sorted(suite)
     /\ UNCHANGED <<given, author, fresh, replies, seen, verdict, results, row, spawned, page>>
  \/ ReadFails("tests")

\* No test cases: "accepted by default".
AcceptByDefault ==
  /\ Go("tests", "updating")
  /\ fresh
  /\ suite = {}
  /\ verdict' = Outcome("ACCEPTED", 0, 0, None)
  /\ UNCHANGED <<given, author, fresh, order, replies, seen, results, row, spawned, page>>

\* The code file needs no context; it is there (JudgeQueue!WorkIsReady).
ReadCode ==
  \/ /\ Go("code", "parsers")
     /\ UNCHANGED <<given, author, fresh, work, results, row, spawned, page>>
  \/ failing /\ GiveUp("code")

\* database.GetGeneratedCode, with a context that never ends.
ReadParsers ==
  \/ /\ parsers
     /\ Go("parsers", "running")
     /\ UNCHANGED <<given, author, fresh, work, results, row, spawned, page>>
  \/ (~parsers \/ failing) /\ GiveUp("parsers")

\* Mutant: an executor that cannot be reached counts as a success.
RunTestLenient ==
  /\ pc = "running"
  /\ \E a \in ExecuteCode(program[order[Len(replies) + 1]]) :
       replies' = Append(replies, IF a = "error" THEN "match" ELSE a)
  /\ pc' = IF Len(replies') = Len(order) THEN "saving" ELSE "running"
  /\ UNCHANGED <<given, author, fresh, order, seen, verdict, results, row, spawned, page>>

\* Every test case is run, whatever the ones before it gave.
RunTest ==
  /\ pc = "running"
  /\ \E a \in ExecuteCode(program[order[Len(replies) + 1]]) :
       replies' = Append(replies, a)
  /\ pc' = IF Len(replies') = Len(order) THEN "saving" ELSE "running"
  /\ UNCHANGED <<given, author, fresh, order, seen, verdict, results, row, spawned, page>>

\* The loop asks for "timeout", which is not among the executors' answers.
TestStatus(reply) ==
  CASE reply = "match" -> "PASSED"
    [] reply = "differ" -> "WRONG_ANSWER"
    [] reply = "timeout" -> "TIME_LIMIT_EXCEEDED"
    [] OTHER -> "RUNTIME_ERROR"

\* Mutant: the last failure wins.
TallyLast(v, test, status) ==
  IF status = "PASSED" THEN [v EXCEPT !.passed = @ + 1]
  ELSE [v EXCEPT !.status = status, !.failed = test]

\* finalStatus and firstFailedResult keep the first failure.
Tally(v, test, status) ==
  [v EXCEPT !.passed = IF status = "PASSED" THEN @ + 1 ELSE @,
            !.status = IF @ = "ACCEPTED" /\ status # "PASSED" THEN status ELSE @,
            !.failed = IF @ = None /\ status # "PASSED" THEN test ELSE @]

\* InsertOne through the 10 second context; an error is only logged.
Saved(result) ==
  (IF fresh THEN {results \cup {result}} ELSE {})
    \cup (IF fresh /\ ~failing THEN {} ELSE {results})

\* Mutant: the row shows the progress of the result loop.
SaveResultLive ==
  LET test == order[seen + 1]
      status == TestStatus(replies[seen + 1])
  IN /\ pc = "saving"
     /\ seen' = seen + 1
     /\ verdict' = [Tally(verdict, test, status) EXCEPT !.total = Len(order)]
     /\ row' = verdict'
     /\ results' \in Saved([test |-> test, status |-> status])
     /\ pc' = IF seen' < Len(order) THEN "saving"
              ELSE IF verdict'.status = "ACCEPTED" THEN "analysing" ELSE "updating"
     /\ UNCHANGED <<given, author, fresh, order, replies, spawned, page>>

SaveResult ==
  LET test == order[seen + 1]
      status == TestStatus(replies[seen + 1])
  IN /\ pc = "saving"
     /\ seen' = seen + 1
     /\ verdict' = [Tally(verdict, test, status) EXCEPT !.total = Len(order)]
     /\ results' \in Saved([test |-> test, status |-> status])
     /\ pc' = IF seen' < Len(order) THEN "saving"
              ELSE IF verdict'.status = "ACCEPTED" THEN "analysing" ELSE "updating"
     /\ UNCHANGED <<given, author, fresh, order, replies, row, spawned, page>>

\* ai.AnalyzeCodeComplexity within 60 seconds; its failure is tolerated.
Analyse ==
  /\ Go("analysing", "updating")
  /\ \E ok \in BOOLEAN : verdict' = [verdict EXCEPT !.analysed = ok]
  /\ UNCHANGED <<given, author, fresh, order, replies, seen, results, row, spawned, page>>

\* UpdateUserSkill and recordCheckinInternal run in a goroutine of their own,
\* even when the row could not be updated; not after an early return.
Credit == IF verdict.status = "ACCEPTED" /\ verdict.total > 0 THEN {"skills"} ELSE {}

\* Mutant: the row gets the status of the last test result.
UpdateRowLast ==
  /\ Go("updating", "done")
  /\ row' = IF replies = <<>> THEN verdict
            ELSE [verdict EXCEPT !.status = TestStatus(replies[Len(replies)])]
  /\ spawned' = spawned \cup {"statistics"} \cup Credit
  /\ UNCHANGED <<given, author, fresh, work, results, page>>

\* updateSubmissionStatus: one FindOne, one UpdateOne; nobody else writes the row.
UpdateRow ==
  /\ Go("updating", "done")
  /\ row' = verdict
  /\ spawned' = spawned \cup {"statistics"} \cup Credit
  /\ UNCHANGED <<given, author, fresh, work, results, page>>

\* Logged, not retried; an UpdateOne that reports an error may have taken effect.
UpdateFails ==
  /\ failing
  /\ Go("updating", "done")
  /\ row' \in {row, verdict}
  /\ spawned' = spawned \cup Credit
  /\ UNCHANGED <<given, author, fresh, work, results, page>>

Judge ==
  \/ ReadSubmission
  \/ ReadProblem
  \/ ReadTests
  \/ AcceptByDefault
  \/ ReadCode
  \/ ReadParsers
  \/ RunTest
  \/ SaveResult
  \/ Analyse
  \/ UpdateRow
  \/ UpdateFails

-----------------------------------------------------------------------------
(* The author, the clock and the details page *)

PublishProblem ==
  /\ ~published
  /\ published' = TRUE
  /\ UNCHANGED <<given, suite, pc, fresh, work, results, row, spawned, page>>

AddTest(t) ==
  /\ published
  /\ t \notin suite
  /\ suite' = suite \cup {t}
  /\ UNCHANGED <<given, published, pc, fresh, work, results, row, spawned, page>>

TenSecondsPass ==
  /\ fresh
  /\ pc # "done"
  /\ fresh' = FALSE
  /\ UNCHANGED <<given, author, pc, work, results, row, spawned, page>>

\* FindOne on submissions; an accepted one needs no failed test case.
OpenDetails ==
  /\ page.at # "row"
  /\ page' = [at |-> IF row.status = "ACCEPTED" THEN "shown" ELSE "row",
              status |-> row.status, failed |-> None]
  /\ UNCHANGED <<given, author, pc, fresh, work, results, row, spawned>>

\* Mutants: no sort; no filter on the status.
ShowFailureUnsorted ==
  /\ page.at = "row"
  /\ LET rejected == {r.test : r \in {x \in results : x.status # "PASSED"}}
     IN page' \in {[page EXCEPT !.at = "shown", !.failed = t] :
                     t \in rejected \cup (IF rejected = {} \/ failing THEN {None} ELSE {})}
  /\ UNCHANGED <<given, author, pc, fresh, work, results, row, spawned>>
ShowFailureAny ==
  /\ page.at = "row"
  /\ LET stored == {r.test : r \in results}
         first == {t \in stored : \A u \in stored : SeqNo[t] <= SeqNo[u]}
     IN page' \in {[page EXCEPT !.at = "shown", !.failed = t] :
                     t \in first \cup (IF stored = {} \/ failing THEN {None} ELSE {})}
  /\ UNCHANGED <<given, author, pc, fresh, work, results, row, spawned>>

\* FindOne on submission_results: not PASSED, lowest sequence_number.
ShowFailure ==
  /\ page.at = "row"
  /\ LET rejected == {r.test : r \in {x \in results : x.status # "PASSED"}}
         first == {t \in rejected : \A u \in rejected : SeqNo[t] <= SeqNo[u]}
     IN page' \in {[page EXCEPT !.at = "shown", !.failed = t] :
                     t \in first \cup (IF rejected = {} \/ failing THEN {None} ELSE {})}
  /\ UNCHANGED <<given, author, pc, fresh, work, results, row, spawned>>

Environment ==
  \/ PublishProblem
  \/ \E t \in Tests : AddTest(t)
  \/ TenSecondsPass
  \/ OpenDetails
  \/ ShowFailure

Next == Judge \/ Environment

Spec == Init /\ [][Next]_vars

\* The processor goroutine goes on; every call it makes ends (contexts of 10, 15
\* and 60 seconds, 8 seconds in the Lambda). Users and authors owe nothing.
FairSpec == Spec /\ WF_vars(Judge)

-----------------------------------------------------------------------------
(* Properties *)

Decided == row.status # "PENDING"

Failures == {i \in 1 .. Len(replies) : replies[i] # "match"}

(***************************************************************************)
(* A stored verdict that counts test cases is the verdict of the run: the  *)
(* number passed is the number of replies that match, and status and       *)
(* failed_test_case_details are those of the FIRST failure in the order of *)
(* the sequence numbers (submission.go:293-358, 391).  The loop is spread  *)
(* over several interleaved steps, and later failures differ in kind.      *)
(***************************************************************************)
VerdictMatchesRun ==
  Decided /\ row.total > 0 =>
    /\ row.total = Len(order)
    /\ row.passed = row.total - Cardinality(Failures)
    /\ IF Failures = {} THEN row.status = "ACCEPTED" /\ row.failed = None
       ELSE \E i \in Failures :
              /\ \A j \in Failures : i <= j
              /\ row.status = TestStatus(replies[i])
              /\ row.failed = order[i]

(***************************************************************************)
(* Nobody is told ACCEPTED with passed test cases, and nobody is credited  *)
(* with the problem, unless the executor found the expected output on      *)
(* every test case the judge read, whichever calls fail and however late   *)
(* the clock (submission.go:293-403).  If the code has no backslash        *)
(* escapes it is the submitted program that prints it.                     *)
(***************************************************************************)
SolvesAll ==
  /\ order # <<>>
  /\ Len(replies) = Len(order) /\ Failures = {}
  /\ ~escapes => \A t \in ToSet(order) : Execute(language, program[t]) = "match"

AcceptedIsEarned ==
  /\ row.status = "ACCEPTED" /\ row.total > 0 => SolvesAll
  /\ "skills" \in spawned => SolvesAll

(***************************************************************************)
(* Once the row has its verdict, neither the row nor the stored results    *)
(* change: what a client reads after it has seen a verdict is final, so    *)
(* polling for the row and then reading the results is sound.              *)
(***************************************************************************)
FrozenAfterVerdict == [][Decided => UNCHANGED <<row, results>>]_vars

(***************************************************************************)
(* The two reads of the details page are not atomic, and inserts may be    *)
(* lost.  Even so a page that shows a rejection never shows a failure from *)
(* before the one the verdict is about.                                    *)
(***************************************************************************)
PageShowsFailure ==
  page.at = "shown" /\ page.status \notin {"PENDING", "ACCEPTED"} /\ page.failed # None

ShownFailureIsReal ==
  PageShowsFailure =>
    /\ row.failed # None
    /\ SeqNo[row.failed] <= SeqNo[page.failed]
    /\ \E i \in Failures : order[i] = page.failed

(***************************************************************************)
(* While no call fails, the page shows a failure with the sequence number  *)
(* of the first one: the context that runs out during the inserts loses    *)
(* the last results, never the first.                                      *)
(***************************************************************************)
ShownFailureIsFirst ==
  ~failing /\ PageShowsFailure => SeqNo[page.failed] = SeqNo[row.failed]

(***************************************************************************)
(* While no call fails every judgement ends with a verdict in the row, on  *)
(* each of its seven early returns, whenever the clock runs out and        *)
(* whatever the author adds meanwhile.                                     *)
(***************************************************************************)
JudgementEnds == ~failing => <>Decided

(***************************************************************************)
(* README.md:79, "Time Limit Exceeded: Solutions that take too long to     *)
(* execute": if the first failing test case ran out of time, the verdict   *)
(* says so.                                                                *)
(***************************************************************************)
TimeLimitReported ==
  \A i \in Failures :
    Decided /\ row.total > 0 /\ row.failed = order[i]
      => (replies[i] = "time_limit_exceeded" => row.status = "TIME_LIMIT_EXCEEDED")

(***************************************************************************)
(* README.md:18, "Multiple Languages: Support for Python, JavaScript, C++, *)
(* and Java": if no call fails, a program that is right on every test case *)
(* and has been run on them is accepted, in each of these languages.  In   *)
(* Python this is so only for code without backslash escapes.              *)
(***************************************************************************)
RightProgramAccepted ==
  ~failing /\ Decided /\ row.total > 0 /\ language \in Executors
    /\ (\A t \in Tests : program[t] = "right") => row.status = "ACCEPTED"
=============================================================================
