---------------------------- MODULE JudgingProofs ----------------------------
(* Theorems about Judging, for any test cases, sequence numbers, languages  *)
(* and programs, with failing calls or without.                             *)
EXTENDS Judging, SequenceTheorems, FiniteSetTheorems, TLAPS

Before == {"row", "problem", "tests", "code", "parsers"}
NotJudged == Outcome("PENDING", 0, 0, None)

(* v is the tally of the first n replies. *)
Bad(n) == {i \in 1 .. n : replies[i] # "match"}
FirstBad(n, i) == i \in Bad(n) /\ \A j \in Bad(n) : i <= j
Tallied(v, n) ==
  /\ v.passed = n - Cardinality(Bad(n))
  /\ Bad(n) = {} => v.status = "ACCEPTED" /\ v.failed = None
  /\ Bad(n) # {} => \E i \in 1 .. n :
                      /\ FirstBad(n, i)
                      /\ v.status = TestStatus(replies[i])
                      /\ v.failed = order[i]

(* The run is over, and the verdict is its tally. *)
Complete ==
  /\ order # <<>>
  /\ Len(replies) = Len(order)
  /\ seen = Len(order)
  /\ verdict.total = Len(order)
  /\ Tallied(verdict, Len(order))

(* Where processSubmission is says what it has done. *)
Stage ==
  /\ pc \in Before => replies = <<>>
  /\ pc \in Before \cup {"running"} =>
       seen = 0 /\ verdict = Outcome("ACCEPTED", 0, 0, None)
  /\ pc \in {"code", "parsers", "running"} => order # <<>>
  /\ pc = "running" => Len(replies) < Len(order)
  /\ pc = "saving" =>
       Len(replies) = Len(order) /\ seen < Len(order) /\ Tallied(verdict, seen)
  /\ pc \in {"analysing", "updating", "done"} =>
       Complete \/ (verdict.total = 0 /\ seen = 0)

(* The row is written by the last step alone. *)
RowIsLast ==
  /\ pc # "done" => row = NotJudged
  /\ row \in {NotJudged, verdict}
  /\ "skills" \in spawned =>
       pc = "done" /\ verdict.status = "ACCEPTED" /\ verdict.total > 0

(* A reply that matches comes from a program that is right, if the program  *)
(* that ran is the one that was submitted.                                  *)
RepliesAreHonest ==
  /\ Len(replies) <= Len(order)
  /\ \A i \in 1 .. Len(replies) :
       ~escapes /\ replies[i] = "match" => Execute(language, program[order[i]]) = "match"

InOrder ==
  \A i, j \in 1 .. Len(order) : i < j => SeqNo[order[i]] <= SeqNo[order[j]]

(* The stored results are those of the replies handled so far, and without  *)
(* failing calls the first of them, up to where the context ended.          *)
ResultOf(i) == [test |-> order[i], status |-> TestStatus(replies[i])]
ResultsUpTo(k) == {ResultOf(i) : i \in 1 .. k}
ResultsAreReal ==
  /\ seen <= Len(replies)
  /\ results \subseteq ResultsUpTo(seen)
  /\ ~failing => \E k \in 0 .. seen :
                  results = ResultsUpTo(k) /\ (fresh => k = seen)

(* A page that has read a verdict has read the one in the row, and what it  *)
(* shows as a failure is one, by then the first one.                        *)
PageIsReal ==
  /\ page.status # "PENDING" => page.status = row.status
  /\ page.failed # None => page.failed \in {order[i] : i \in Bad(seen)}
  /\ ~failing /\ page.failed # None /\ page.status # "PENDING"
       => \A j \in Bad(seen) : SeqNo[page.failed] <= SeqNo[order[j]]

JudgingInv ==
  /\ TypeOK
  /\ Stage
  /\ RowIsLast
  /\ RepliesAreHonest
  /\ InOrder
  /\ ResultsAreReal
  /\ PageIsReal

-----------------------------------------------------------------------------
(* The operators *)

(* The sort returns the test cases of the suite, in order.                  *)
LEMMA SortedIsASequence ==
  ASSUME suite \subseteq Tests, NEW s \in Sorted(suite)
  PROVE  /\ s \in Seq(Tests)
         /\ suite # {} => s # <<>>
         /\ \A i, j \in 1 .. Len(s) : i < j => SeqNo[s[i]] <= SeqNo[s[j]]
<1>1. IsFiniteSet(suite)
      BY FS_Subset, JudgingAssumption
<1>2. Cardinality(suite) \in Nat /\ (suite # {} => Cardinality(suite) # 0)
      BY <1>1, FS_CardinalityType, FS_EmptySet
<1>3. s \in [1 .. Cardinality(suite) -> suite]
      BY DEF Sorted, SetToSeqs
<1>4. s \in Seq(Tests) /\ Len(s) = Cardinality(suite)
      BY <1>2, <1>3
<1>5. suite # {} => s # <<>>
      BY <1>2, <1>4
<1> QED BY <1>4, <1>5 DEF Sorted

LEMMA TestStatusType ==
  ASSUME NEW reply \in Replies
  PROVE  /\ TestStatus(reply) \in TestStatuses
         /\ TestStatus(reply) = "PASSED" <=> reply = "match"
         /\ TestStatus(reply) # "ACCEPTED"
BY DEF TestStatus, TestStatuses, Replies

(* Code without backslash escapes is not changed on its way to the executor *)
(* or cannot run: a match is earned by the program.                         *)
LEMMA ExecuteCodeIsHonest ==
  ASSUME NEW b \in Behaviours, NEW a \in ExecuteCode(b)
  PROVE  /\ a \in Replies
         /\ ~escapes /\ a = "match" => Execute(language, b) = "match"
<1>1. Behaviours \cup {"broken"} \subseteq {"right", "wrong", "chatty", "crash", "hang", "broken"}
      BY JudgingAssumption
<1>2. ASSUME NEW c \in Behaviours \cup {"broken"}
      PROVE  Execute(language, c) \in Replies /\ Execute(language, "broken") # "match"
      BY <1>1 DEF Execute, Replies
<1>3. a = "error" \/ \E r \in Wrapped(b) : a = Execute(language, r)
      BY DEF ExecuteCode
<1>4. /\ Wrapped(b) \subseteq Behaviours \cup {"broken"}
      /\ ~escapes => Wrapped(b) \subseteq {b, "broken"}
      BY DEF Wrapped
<1> QED BY <1>2, <1>3, <1>4 DEF Replies

(* The result loop keeps the tally.                                         *)
LEMMA TallyCounts ==
  ASSUME replies \in Seq(Replies), order \in Seq(Tests), seen \in Nat,
         seen < Len(order), Len(replies) = Len(order),
         NEW v \in Verdict(Verdicts), Tallied(v, seen),
         NEW w, w = Tally(v, order[seen + 1], TestStatus(replies[seen + 1]))
  PROVE  /\ w \in Verdict(Verdicts)
         /\ Tallied(w, seen + 1)
<1> DEFINE n == seen + 1
           status == TestStatus(replies[n])
<1>1. /\ n \in 1 .. Len(replies)
      /\ replies[n] \in Replies
      /\ order[n] \in Tests
      /\ None \notin Tests
      /\ n \in Nat /\ n - 1 = seen
      BY ElementOfSeq, JudgingAssumption
<1>2. /\ status \in TestStatuses
      /\ status = "PASSED" <=> replies[n] = "match"
      /\ status # "ACCEPTED"
      BY <1>1, TestStatusType
<1>3. /\ IsFiniteSet(Bad(seen))
      /\ Cardinality(Bad(seen)) \in Nat
      /\ Cardinality(Bad(seen)) <= seen
  <2>1. IsFiniteSet(1 .. seen) /\ Cardinality(1 .. seen) = seen
        BY FS_Interval
  <2>2. Bad(seen) \subseteq 1 .. seen
        BY DEF Bad
  <2>3. IsFiniteSet(Bad(seen)) /\ Cardinality(Bad(seen)) <= Cardinality(1 .. seen)
        BY <2>1, <2>2, FS_Subset
  <2> QED BY <2>1, <2>3, FS_CardinalityType
<1>4. /\ v.status \in Verdicts /\ v.passed \in Nat /\ v.total \in Nat
      /\ v.failed \in Tests \cup {None} /\ v.analysed \in BOOLEAN
      BY DEF Verdict
<1>5. /\ w.passed = IF status = "PASSED" THEN v.passed + 1 ELSE v.passed
      /\ w.status = IF v.status = "ACCEPTED" /\ status # "PASSED" THEN status ELSE v.status
      /\ w.failed = IF v.failed = None /\ status # "PASSED" THEN order[n] ELSE v.failed
      BY <1>4 DEF Tally, Verdict
<1>6. w \in Verdict(Verdicts)
  <2>1. w.passed \in Nat /\ w.status \in Verdicts /\ w.failed \in Tests \cup {None}
        BY <1>1, <1>2, <1>4, <1>5 DEF Verdicts, TestStatuses
  <2>2. w = [v EXCEPT !.passed = w.passed, !.status = w.status, !.failed = w.failed]
        BY <1>4, <1>5 DEF Tally, Verdict
  <2> QED BY <2>1, <2>2 DEF Verdict
<1> HIDE DEF n, status
<1> SUFFICES Tallied(w, n)
    BY <1>6 DEF n
<1>7. CASE replies[n] = "match"
  <2>1. Bad(n) = Bad(seen)
        BY <1>1, <1>7 DEF Bad, n
  <2>2. w.status = v.status /\ w.failed = v.failed /\ w.passed = v.passed + 1
        BY <1>2, <1>5, <1>7
  <2>3. w.passed = n - Cardinality(Bad(n))
        BY <1>1, <1>3, <2>1, <2>2 DEF Tallied
  <2>4. ASSUME NEW i \in 1 .. seen, FirstBad(seen, i)
        PROVE  i \in 1 .. n /\ FirstBad(n, i)
        BY <1>1, <2>1, <2>4 DEF FirstBad
  <2> QED BY <2>1, <2>2, <2>3, <2>4 DEF Tallied, n
<1>8. CASE replies[n] # "match"
  <2>1. Bad(n) = Bad(seen) \cup {n} /\ n \notin Bad(seen)
        BY <1>1, <1>8 DEF Bad, n
  <2>2. Cardinality(Bad(n)) = Cardinality(Bad(seen)) + 1
        BY <1>3, <2>1, FS_AddElement
  <2>3. w.passed = n - Cardinality(Bad(n))
        BY <1>1, <1>2, <1>3, <1>5, <1>8, <2>2 DEF Tallied
  <2>4. CASE Bad(seen) = {}
    <3>1. FirstBad(n, n)
          BY <1>1, <2>1, <2>4 DEF FirstBad
    <3>2. w.status = status /\ w.failed = order[n]
          BY <1>2, <1>5, <1>8, <2>4 DEF Tallied
    <3> QED BY <1>1, <2>1, <2>3, <3>1, <3>2 DEF Tallied, n, status
  <2>5. CASE Bad(seen) # {}
    <3>1. PICK i \in 1 .. seen : /\ FirstBad(seen, i)
                                 /\ v.status = TestStatus(replies[i])
                                 /\ v.failed = order[i]
          BY <2>5 DEF Tallied
    <3>2. i \in 1 .. n /\ FirstBad(n, i)
          BY <1>1, <2>1, <3>1 DEF FirstBad
    <3>3. replies[i] \in Replies /\ order[i] \in Tests
          BY <1>1, ElementOfSeq
    <3>4. v.status # "ACCEPTED" /\ v.failed # None
          BY <1>1, <3>1, <3>3, TestStatusType
    <3>5. w.status = v.status /\ w.failed = v.failed
          BY <1>5, <3>4
    <3> QED BY <2>1, <2>3, <3>1, <3>2, <3>5 DEF Tallied, n
  <2> QED BY <2>4, <2>5
<1> QED BY <1>7, <1>8

-----------------------------------------------------------------------------
(* The invariant, one lemma per kind of step *)

LEMMA EmptyTally ==
  ASSUME NEW v, v.status = "ACCEPTED", v.passed = 0, v.failed = None
  PROVE  Tallied(v, 0)
<1>1. Bad(0) = {}
      BY DEF Bad
<1> QED BY <1>1, FS_EmptySet DEF Tallied

LEMMA JudgingInvAtStart == Init => JudgingInv
<1> SUFFICES ASSUME Init PROVE JudgingInv
    OBVIOUS
<1> USE DEF Init
<1>1. TypeOK
  <2>1. verdict \in Verdict(Verdicts) /\ row \in Verdict(Verdicts \cup {"PENDING"})
        BY DEF Verdict, Outcome, Verdicts
  <2>2. order \in Seq(Tests) /\ replies \in Seq(Replies)
        OBVIOUS
  <2>3. page \in [at : {"closed", "row", "shown"}, status : Verdicts \cup {"PENDING"},
                  failed : Tests \cup {None}]
        OBVIOUS
  <2> QED BY <2>1, <2>2, <2>3 DEF TypeOK
<1>2. Stage
      BY DEF Stage, Before
<1>3. RowIsLast
      BY DEF RowIsLast, NotJudged
<1>4. RepliesAreHonest /\ InOrder
      BY DEF RepliesAreHonest, InOrder
<1>5. ResultsAreReal
  <2>1. ResultsUpTo(0) = {}
        BY DEF ResultsUpTo
  <2> QED BY <2>1 DEF ResultsAreReal
<1>6. PageIsReal
      BY DEF PageIsReal
<1> QED BY <1>1, <1>2, <1>3, <1>4, <1>5, <1>6 DEF JudgingInv

(* Steps before the run is over that leave the work alone.                  *)
LEMMA MovesOn ==
  ASSUME JudgingInv, NEW to \in {"problem", "tests", "parsers", "running"},
         pc \in Before, pc' = to,
         to \in {"parsers", "running"} => order # <<>>,
         UNCHANGED <<given, author, fresh, work, results, row, spawned, page>>
  PROVE  JudgingInv'
<1> USE DEF JudgingInv, given, author, work
<1>1. TypeOK'
      BY DEF TypeOK
<1>2. Stage'
  <2>1. order # <<>> => Len(order) # 0 /\ Len(order) \in Nat
        BY DEF TypeOK
  <2>2. Len(<<>>) = 0
        OBVIOUS
  <2> QED BY <2>1, <2>2 DEF Stage, Before
<1>3. RowIsLast'
      BY DEF RowIsLast, Before, NotJudged
<1>4. RepliesAreHonest' /\ InOrder'
      BY DEF RepliesAreHonest, InOrder
<1>5. ResultsAreReal'
      BY DEF ResultsAreReal, ResultsUpTo, ResultOf
<1>6. PageIsReal'
      BY DEF PageIsReal, Bad
<1> QED BY <1>1, <1>2, <1>3, <1>4, <1>5, <1>6

(* The early returns, and the acceptance by default.                        *)
LEMMA Leaves ==
  ASSUME JudgingInv, NEW status \in Verdicts, pc \in Before, pc' = "updating",
         verdict' = Outcome(status, 0, 0, None),
         UNCHANGED <<given, author, fresh, order, replies, seen, results, row, spawned, page>>
  PROVE  JudgingInv'
<1> USE DEF JudgingInv, given, author
<1>1. TypeOK'
  <2>1. verdict' \in Verdict(Verdicts)
        BY DEF Outcome, Verdict
  <2> QED BY <2>1 DEF TypeOK
<1>2. Stage'
  <2>1. verdict'.total = 0
        BY DEF Outcome
  <2> QED BY <2>1 DEF Stage, Before
<1>3. RowIsLast'
      BY DEF RowIsLast, Before, NotJudged
<1>4. RepliesAreHonest' /\ InOrder'
      BY DEF RepliesAreHonest, InOrder
<1>5. ResultsAreReal'
      BY DEF ResultsAreReal, ResultsUpTo, ResultOf
<1>6. PageIsReal'
      BY DEF PageIsReal, Bad
<1> QED BY <1>1, <1>2, <1>3, <1>4, <1>5, <1>6

LEMMA ReadTestsInv ==
  ASSUME JudgingInv, ReadTests
  PROVE  JudgingInv'
<1>1. CASE ReadFails("tests")
      BY <1>1, Leaves DEF ReadFails, GiveUp, Go, Verdicts, Before
<1>2. CASE ~ReadFails("tests")
  <2> USE DEF JudgingInv, given, author
  <2>1. /\ pc = "tests" /\ pc' = "code"
        /\ suite \subseteq Tests /\ suite # {}
        /\ order' \in Sorted(suite)
        /\ UNCHANGED <<given, author, fresh, replies, seen, verdict, results, row, spawned, page>>
        BY <1>2 DEF ReadTests, Go, TypeOK
  <2>2. /\ order' \in Seq(Tests)
        /\ order' # <<>>
        /\ InOrder'
        BY <2>1, SortedIsASequence DEF InOrder
  <2>3. replies = <<>> /\ seen = 0 /\ verdict = Outcome("ACCEPTED", 0, 0, None)
        BY <2>1 DEF Stage, Before
  <2>4. TypeOK'
        BY <2>1, <2>2 DEF TypeOK
  <2>5. Stage'
        BY <2>1, <2>2, <2>3 DEF Stage, Before
  <2>6. RowIsLast'
        BY <2>1 DEF RowIsLast, NotJudged
  <2>7. RepliesAreHonest'
        BY <2>1, <2>2, <2>3 DEF RepliesAreHonest
  <2>8. ResultsAreReal'
    <3>1. ResultsUpTo(0) = {} /\ ResultsUpTo(0)' = {}
          BY DEF ResultsUpTo
    <3>2. results = {}
          BY <2>3, <3>1 DEF ResultsAreReal
    <3> QED BY <2>1, <2>3, <3>1, <3>2 DEF ResultsAreReal
  <2>9. PageIsReal'
    <3>1. Bad(0) = {} /\ Bad(0)' = {}
          BY DEF Bad
    <3>2. page.failed = None
          BY <2>3, <3>1 DEF PageIsReal
    <3> QED BY <2>1, <3>2 DEF PageIsReal
  <2> QED BY <2>2, <2>4, <2>5, <2>6, <2>7, <2>8, <2>9
<1> QED BY <1>1, <1>2

LEMMA RunTestInv ==
  ASSUME JudgingInv, RunTest
  PROVE  JudgingInv'
<1> USE DEF JudgingInv, given, author
<1> DEFINE n == Len(replies) + 1
<1>1. /\ pc = "running"
      /\ order \in Seq(Tests) /\ replies \in Seq(Replies)
      /\ Len(replies) < Len(order)
      /\ seen = 0 /\ verdict = Outcome("ACCEPTED", 0, 0, None)
      /\ UNCHANGED <<given, author, fresh, order, seen, verdict, results, row, spawned, page>>
      BY DEF RunTest, TypeOK, Stage
<1>2. n \in 1 .. Len(order) /\ order[n] \in Tests
      BY <1>1, ElementOfSeq, LenProperties
<1>3. program[order[n]] \in Behaviours
      BY <1>2 DEF TypeOK
<1>4. PICK a \in ExecuteCode(program[order[n]]) : replies' = Append(replies, a)
      BY DEF RunTest
<1>5. a \in Replies /\ (~escapes /\ a = "match" => Execute(language, program[order[n]]) = "match")
      BY <1>3, <1>4, ExecuteCodeIsHonest
<1>6. /\ replies' \in Seq(Replies)
      /\ Len(replies') = n
      /\ replies'[n] = a
      /\ \A i \in 1 .. Len(replies) : replies'[i] = replies[i]
      BY <1>1, <1>4, <1>5, AppendProperties
<1>7. pc' = IF n = Len(order) THEN "saving" ELSE "running"
      BY <1>6 DEF RunTest
<1>8. TypeOK'
      BY <1>1, <1>6, <1>7 DEF TypeOK
<1>9. Stage'
  <2>1. verdict.status = "ACCEPTED" /\ verdict.passed = 0 /\ verdict.failed = None
        BY <1>1 DEF Outcome
  <2>2. Tallied(verdict, 0)'
    <3>1. {i \in 1 .. 0 : replies'[i] # "match"} = {}
          OBVIOUS
    <3>2. verdict' = verdict /\ Cardinality({}) = 0
          BY <1>1, FS_EmptySet
    <3> QED BY <2>1, <3>1, <3>2 DEF Tallied, Bad
  <2>3. order # <<>>
        BY <1>1 DEF Stage
  <2>4. n < Len(order) \/ n = Len(order)
        BY <1>2
  <2> QED BY <1>1, <1>2, <1>6, <1>7, <2>2, <2>3, <2>4 DEF Stage, Before
<1>10. RowIsLast'
      BY <1>1, <1>7 DEF RowIsLast, NotJudged
<1>11. RepliesAreHonest'
  <2>1. ASSUME NEW i \in 1 .. n, replies'[i] = "match", ~escapes
        PROVE  Execute(language, program[order[i]]) = "match"
    <3>1. CASE i = n
          BY <3>1, <2>1, <1>5, <1>6
    <3>2. CASE i # n
      <4>1. i \in 1 .. Len(replies)
            BY <1>1, <3>2
      <4>2. replies[i] = "match"
            BY <2>1, <4>1, <1>6
      <4> QED BY <2>1, <4>1, <4>2 DEF RepliesAreHonest
    <3> QED BY <3>1, <3>2
  <2>2. UNCHANGED <<language, program, escapes, order>>
        BY <1>1
  <2> HIDE DEF n
  <2> QED BY <1>2, <1>6, <2>1, <2>2 DEF RepliesAreHonest
<1>12. InOrder'
      BY <1>1 DEF InOrder
<1>13. ResultsAreReal'
  <2>1. ResultsUpTo(0) = {} /\ ResultsUpTo(0)' = {}
        BY DEF ResultsUpTo
  <2>2. results = {}
        BY <1>1, <2>1 DEF ResultsAreReal
  <2> QED BY <1>1, <1>2, <1>6, <2>1, <2>2 DEF ResultsAreReal
<1>14. PageIsReal'
  <2>1. Bad(0) = {} /\ Bad(0)' = {}
        BY DEF Bad
  <2>2. page.failed = None
        BY <1>1, <2>1 DEF PageIsReal
  <2> QED BY <1>1, <2>2 DEF PageIsReal
<1> QED BY <1>8, <1>9, <1>10, <1>11, <1>12, <1>13, <1>14

LEMMA SaveResultInv ==
  ASSUME JudgingInv, SaveResult
  PROVE  JudgingInv'
<1> USE DEF JudgingInv, given, author
<1> DEFINE n == seen + 1
           w == Tally(verdict, order[n], TestStatus(replies[n]))
<1>1. /\ pc = "saving"
      /\ order \in Seq(Tests) /\ replies \in Seq(Replies) /\ seen \in Nat
      /\ Len(replies) = Len(order) /\ seen < Len(order)
      /\ Tallied(verdict, seen)
      /\ verdict \in Verdict(Verdicts)
      /\ UNCHANGED <<given, author, fresh, order, replies, row, spawned, page>>
      BY DEF SaveResult, TypeOK, Stage
<1>2. w \in Verdict(Verdicts) /\ Tallied(w, n)
      BY <1>1, TallyCounts
<1>3. /\ n \in 1 .. Len(order) /\ n \in Nat
      /\ Len(order) \in Nat
      /\ order[n] \in Tests /\ replies[n] \in Replies
      BY <1>1, ElementOfSeq, LenProperties
<1>4. /\ seen' = n
      /\ verdict' = [w EXCEPT !.total = Len(order)]
      /\ results' \in Saved(ResultOf(n))
      /\ pc' = IF n < Len(order) THEN "saving"
               ELSE IF verdict'.status = "ACCEPTED" THEN "analysing" ELSE "updating"
      BY DEF SaveResult, ResultOf
<1> HIDE DEF w
<1>5. /\ verdict' \in Verdict(Verdicts)
      /\ verdict'.total = Len(order)
      /\ verdict'.status = w.status /\ verdict'.passed = w.passed
      /\ verdict'.failed = w.failed
      BY <1>2, <1>3, <1>4 DEF Verdict
<1>6. Tallied(verdict, seen)'
  <2>1. Tallied(verdict', n)
        BY <1>2, <1>5 DEF Tallied
  <2>2. replies' = replies /\ order' = order /\ seen' = n
        BY <1>1, <1>4
  <2> HIDE DEF n
  <2> QED BY <2>1, <2>2 DEF Tallied, Bad, FirstBad
<1>7. ResultOf(n) \in [test : Tests, status : TestStatuses]
      BY <1>3, TestStatusType DEF ResultOf
<1>8. results' \in {results, results \cup {ResultOf(n)}}
      BY <1>4 DEF Saved
<1>9. TypeOK'
      BY <1>1, <1>3, <1>4, <1>5, <1>7, <1>8 DEF TypeOK
<1>10. order # <<>>
      BY <1>1
<1>11. Stage'
  <2>1. CASE n < Len(order)
        BY <1>1, <1>3, <1>4, <1>6, <2>1 DEF Stage, Before
  <2>2. CASE ~(n < Len(order))
    <3>1. n = Len(order)
          BY <1>1, <1>3, <2>2
    <3>2. Complete'
      <4>1. order' = order /\ replies' = replies /\ seen' = Len(order)
            BY <1>1, <1>4, <3>1
      <4>2. Tallied(verdict, Len(order))'
            BY <1>6, <4>1 DEF Tallied, Bad, FirstBad
      <4> QED BY <1>1, <1>5, <1>10, <4>1, <4>2 DEF Complete
    <3>3. pc' \in {"analysing", "updating"}
          BY <1>4, <2>2
    <3> QED BY <3>2, <3>3 DEF Stage, Before
  <2> QED BY <2>1, <2>2
<1>12. RowIsLast'
      BY <1>1, <1>4 DEF RowIsLast, NotJudged
<1>13. RepliesAreHonest' /\ InOrder'
      BY <1>1 DEF RepliesAreHonest, InOrder
<1>14. ResultsAreReal'
  <2>1. ResultsUpTo(n) = ResultsUpTo(seen) \cup {ResultOf(n)}
    <3>1. 1 .. n = 1 .. seen \cup {n}
          BY <1>1
    <3> QED BY <3>1 DEF ResultsUpTo
  <2>2. \A k : ResultsUpTo(k)' = ResultsUpTo(k)
        BY <1>1 DEF ResultsUpTo, ResultOf
  <2>3. results' \subseteq ResultsUpTo(n)
        BY <1>8, <2>1 DEF ResultsAreReal
  <2> HIDE DEF n
  <2>4. ASSUME ~failing
        PROVE  \E k \in 0 .. n : results' = ResultsUpTo(k) /\ (fresh => k = n)
    <3>1. PICK k \in 0 .. seen : results = ResultsUpTo(k) /\ (fresh => k = seen)
          BY <2>4 DEF ResultsAreReal
    <3>2. CASE fresh
      <4>1. results' = results \cup {ResultOf(n)}
            BY <1>4, <2>4, <3>2 DEF Saved
      <4>2. results' = ResultsUpTo(n) /\ n \in 0 .. n
            BY <1>3, <2>1, <3>1, <3>2, <4>1
      <4> QED BY <4>2
    <3>3. CASE ~fresh
      <4>1. results' = results
            BY <1>4, <3>3 DEF Saved
      <4>2. k \in 0 .. n
            BY <1>1 DEF n
      <4> QED BY <3>1, <3>3, <4>1, <4>2
    <3> QED BY <3>2, <3>3
  <2>5. seen' <= Len(replies')
        BY <1>1, <1>3, <1>4
  <2> QED BY <1>1, <1>4, <2>2, <2>3, <2>4, <2>5 DEF ResultsAreReal
<1>15. PageIsReal'
  <2>1. page.status = "PENDING"
        BY <1>1 DEF PageIsReal, RowIsLast, NotJudged, Outcome
  <2>2. Bad(seen) \subseteq Bad(n)
        BY <1>1 DEF Bad
  <2>3. \A k : Bad(k)' = Bad(k)
        BY <1>1 DEF Bad
  <2>4. page.failed # None => page.failed \in {order[i] : i \in Bad(n)}
        BY <2>2 DEF PageIsReal
  <2> QED BY <1>1, <1>4, <2>1, <2>3, <2>4 DEF PageIsReal
<1> QED BY <1>9, <1>11, <1>12, <1>13, <1>14, <1>15

LEMMA AnalyseInv ==
  ASSUME JudgingInv, Analyse
  PROVE  JudgingInv'
<1> USE DEF JudgingInv, given, author
<1>1. /\ pc = "analysing" /\ pc' = "updating"
      /\ UNCHANGED <<given, author, fresh, order, replies, seen, results, row, spawned, page>>
      BY DEF Analyse, Go
<1>2. PICK ok \in BOOLEAN : verdict' = [verdict EXCEPT !.analysed = ok]
      BY DEF Analyse
<1>3. /\ verdict' \in Verdict(Verdicts)
      /\ verdict'.total = verdict.total /\ verdict'.status = verdict.status
      /\ verdict'.passed = verdict.passed /\ verdict'.failed = verdict.failed
      BY <1>2 DEF TypeOK, Verdict
<1>4. TypeOK'
      BY <1>1, <1>3 DEF TypeOK
<1>5. Complete => Complete'
      BY <1>1, <1>3 DEF Complete, Tallied, Bad, FirstBad
<1>6. Complete \/ (verdict.total = 0 /\ seen = 0)
      BY <1>1 DEF Stage
<1>7. Stage'
      BY <1>1, <1>3, <1>5, <1>6 DEF Stage, Before
<1>8. RowIsLast'
      BY <1>1 DEF RowIsLast, NotJudged
<1>9. RepliesAreHonest' /\ InOrder'
      BY <1>1 DEF RepliesAreHonest, InOrder
<1>10. ResultsAreReal'
      BY <1>1 DEF ResultsAreReal, ResultsUpTo, ResultOf
<1>11. PageIsReal'
      BY <1>1 DEF PageIsReal, Bad
<1> QED BY <1>4, <1>7, <1>8, <1>9, <1>10, <1>11

(* The row is written, or its update fails.                                 *)
LEMMA UpdateInv ==
  ASSUME JudgingInv, UpdateRow \/ UpdateFails
  PROVE  JudgingInv'
<1> USE DEF JudgingInv, given, author, work
<1>1. /\ pc = "updating" /\ pc' = "done"
      /\ row' \in {row, verdict}
      /\ spawned' \subseteq spawned \cup {"statistics"} \cup Credit
      /\ UNCHANGED <<given, author, fresh, work, results, page>>
      BY DEF UpdateRow, UpdateFails, Go
<1>2. row = NotJudged
      BY <1>1 DEF RowIsLast
<1>3. row' \in {NotJudged, verdict}
      BY <1>1, <1>2
<1>4. TypeOK'
  <2>1. Verdict(Verdicts) \subseteq Verdict(Verdicts \cup {"PENDING"})
        BY DEF Verdict
  <2>2. row' \in Verdict(Verdicts \cup {"PENDING"})
        BY <1>1, <2>1 DEF TypeOK
  <2>3. spawned' \subseteq {"statistics", "skills"}
        BY <1>1 DEF TypeOK, Credit
  <2> QED BY <1>1, <2>2, <2>3 DEF TypeOK
<1>5. Stage'
  <2>1. Complete' = Complete
        BY <1>1 DEF Complete, Tallied, Bad, FirstBad
  <2>2. Complete \/ (verdict.total = 0 /\ seen = 0)
        BY <1>1 DEF Stage
  <2> QED BY <1>1, <2>1, <2>2 DEF Stage, Before
<1>6. RowIsLast'
  <2>1. "skills" \notin spawned
        BY <1>1 DEF RowIsLast
  <2>2. "skills" \in spawned' => verdict.status = "ACCEPTED" /\ verdict.total > 0
        BY <1>1, <2>1 DEF Credit
  <2> QED BY <1>1, <1>3, <2>2 DEF RowIsLast, NotJudged
<1>7. RepliesAreHonest' /\ InOrder'
      BY <1>1 DEF RepliesAreHonest, InOrder
<1>8. ResultsAreReal'
      BY <1>1 DEF ResultsAreReal, ResultsUpTo, ResultOf
<1>9. PageIsReal'
  <2>1. page.status = "PENDING"
        BY <1>2 DEF PageIsReal, NotJudged, Outcome
  <2> QED BY <1>1, <2>1 DEF PageIsReal, Bad
<1> QED BY <1>4, <1>5, <1>6, <1>7, <1>8, <1>9

(* The author and the clock.                                                *)
LEMMA AroundInv ==
  ASSUME JudgingInv,
         PublishProblem \/ (\E t \in Tests : AddTest(t)) \/ TenSecondsPass
  PROVE  JudgingInv'
<1> USE DEF JudgingInv, given, author, work
<1>1. /\ UNCHANGED <<given, pc, work, results, row, spawned, page>>
      /\ published' \in BOOLEAN /\ suite' \subseteq Tests
      /\ fresh' \in BOOLEAN /\ (fresh' => fresh)
  <2> DEFINE Moved == /\ UNCHANGED <<given, pc, work, results, row, spawned, page>>
                      /\ published' \in BOOLEAN /\ suite' \subseteq Tests
                      /\ fresh' \in BOOLEAN /\ (fresh' => fresh)
  <2>1. published \in BOOLEAN /\ suite \subseteq Tests /\ fresh \in BOOLEAN
        BY DEF TypeOK
  <2>2. PublishProblem => Moved
        BY <2>1 DEF PublishProblem
  <2>3. ASSUME NEW t \in Tests, AddTest(t) PROVE Moved
        BY <2>1, <2>3 DEF AddTest
  <2>4. TenSecondsPass => Moved
        BY <2>1 DEF TenSecondsPass
  <2> QED BY <2>2, <2>3, <2>4
<1>2. TypeOK'
      BY <1>1 DEF TypeOK
<1>3. Stage'
      BY <1>1 DEF Stage, Complete, Tallied, Bad, FirstBad
<1>4. RowIsLast' /\ RepliesAreHonest' /\ InOrder'
      BY <1>1 DEF RowIsLast, NotJudged, RepliesAreHonest, InOrder
<1>5. ResultsAreReal'
  <2>1. ASSUME NEW k \in 0 .. seen,
               results = ResultsUpTo(k) /\ (fresh => k = seen)
        PROVE  results' = ResultsUpTo(k)' /\ (fresh' => k = seen')
        BY <1>1, <2>1 DEF ResultsUpTo, ResultOf
  <2>2. seen' = seen /\ ResultsUpTo(seen)' = ResultsUpTo(seen)
        BY <1>1 DEF ResultsUpTo, ResultOf
  <2> QED BY <1>1, <2>1, <2>2 DEF ResultsAreReal
<1>6. PageIsReal'
      BY <1>1 DEF PageIsReal, Bad
<1> QED BY <1>2, <1>3, <1>4, <1>5, <1>6

LEMMA OpenDetailsInv ==
  ASSUME JudgingInv, OpenDetails
  PROVE  JudgingInv'
<1> USE DEF JudgingInv, given, author, work
<1>1. /\ UNCHANGED <<given, author, pc, fresh, work, results, row, spawned>>
      /\ page' = [at |-> IF row.status = "ACCEPTED" THEN "shown" ELSE "row",
                  status |-> row.status, failed |-> None]
      BY DEF OpenDetails
<1>2. TypeOK'
      BY <1>1 DEF TypeOK, Verdict
<1>3. Stage'
      BY <1>1 DEF Stage, Complete, Tallied, Bad, FirstBad
<1>4. RowIsLast' /\ RepliesAreHonest' /\ InOrder'
      BY <1>1 DEF RowIsLast, NotJudged, RepliesAreHonest, InOrder
<1>5. ResultsAreReal'
      BY <1>1 DEF ResultsAreReal, ResultsUpTo, ResultOf
<1>6. PageIsReal'
      BY <1>1 DEF PageIsReal
<1> QED BY <1>2, <1>3, <1>4, <1>5, <1>6

LEMMA ShowFailureInv ==
  ASSUME JudgingInv, ShowFailure
  PROVE  JudgingInv'
<1> USE DEF JudgingInv, given, author, work
<1> DEFINE rejected == {r.test : r \in {x \in results : x.status # "PASSED"}}
<1>1. UNCHANGED <<given, author, pc, fresh, work, results, row, spawned>>
      BY DEF ShowFailure
<1>2. PICK t \in rejected \cup {None} :
        /\ page' = [page EXCEPT !.at = "shown", !.failed = t]
        /\ t # None => t \in rejected /\ \A u \in rejected : SeqNo[t] <= SeqNo[u]
  <2> DEFINE first == {t \in rejected : \A u \in rejected : SeqNo[t] <= SeqNo[u]}
             found == first \cup (IF rejected = {} \/ failing THEN {None} ELSE {})
  <2>1. page' \in {[page EXCEPT !.at = "shown", !.failed = t] : t \in found}
        BY DEF ShowFailure
  <2>2. \A t \in found : t = None \/ t \in first
        OBVIOUS
  <2> QED BY <2>1, <2>2
<1>3. /\ order \in Seq(Tests) /\ replies \in Seq(Replies) /\ seen \in Nat
      /\ seen <= Len(replies) /\ Len(replies) <= Len(order)
      /\ Len(replies) \in Nat /\ Len(order) \in Nat
      BY LenProperties DEF TypeOK, ResultsAreReal, RepliesAreHonest
<1>4. ASSUME NEW i \in 1 .. seen
      PROVE  /\ i \in 1 .. Len(replies) /\ i \in 1 .. Len(order)
             /\ order[i] \in Tests
             /\ TestStatus(replies[i]) # "PASSED" <=> i \in Bad(seen)
  <2>1. i \in 1 .. Len(replies) /\ i \in 1 .. Len(order)
        BY <1>3
  <2>2. replies[i] \in Replies /\ order[i] \in Tests
        BY <1>3, <2>1, ElementOfSeq
  <2> QED BY <2>1, <2>2, TestStatusType DEF Bad
<1>5. ASSUME NEW k \in 0 .. seen
      PROVE  \A r \in ResultsUpTo(k) : r.status # "PASSED" =>
               \E i \in 1 .. k : i \in Bad(seen) /\ r.test = order[i]
      BY <1>3, <1>4 DEF ResultsUpTo, ResultOf
<1>6. \A f \in rejected : f \in Tests /\ f \in {order[i] : i \in Bad(seen)}
  <2>1. \A r \in results : r.status # "PASSED" =>
          \E i \in 1 .. seen : i \in Bad(seen) /\ r.test = order[i]
        BY <1>3, <1>5 DEF ResultsAreReal
  <2> QED BY <1>4, <2>1
<1>7. /\ page'.status = page.status /\ page'.at = "shown" /\ page'.failed = t
      /\ page' \in [at : {"closed", "row", "shown"}, status : Verdicts \cup {"PENDING"},
                   failed : Tests \cup {None}]
      BY <1>2, <1>6 DEF TypeOK
<1>8. ASSUME ~failing, t # None, NEW j \in Bad(seen)
      PROVE  SeqNo[t] <= SeqNo[order[j]]
  <2>1. PICK k \in 0 .. seen : results = ResultsUpTo(k)
        BY <1>8 DEF ResultsAreReal
  <2>2. PICK i \in 1 .. k : t = order[i]
        BY <1>2, <1>5, <1>8, <2>1
  <2>3. j \in 1 .. seen
        BY DEF Bad
  <2>4. CASE j <= k
    <3>1. ResultOf(j) \in results
          BY <2>1, <2>3, <2>4 DEF ResultsUpTo
    <3>2. order[j] \in rejected
          BY <1>4, <2>3, <3>1 DEF ResultOf
    <3> QED BY <1>2, <1>8, <3>2
  <2>5. CASE ~(j <= k)
    <3>1. i < j /\ i \in 1 .. Len(order) /\ j \in 1 .. Len(order)
          BY <1>3, <1>4, <2>3, <2>5
    <3> QED BY <2>2, <3>1 DEF InOrder
  <2> QED BY <2>4, <2>5
<1> HIDE DEF rejected
<1>9. TypeOK'
      BY <1>1, <1>7 DEF TypeOK
<1>10. Stage'
      BY <1>1 DEF Stage, Complete, Tallied, Bad, FirstBad
<1>11. RowIsLast' /\ RepliesAreHonest' /\ InOrder'
      BY <1>1 DEF RowIsLast, NotJudged, RepliesAreHonest, InOrder
<1>12. ResultsAreReal'
      BY <1>1 DEF ResultsAreReal, ResultsUpTo, ResultOf
<1>13. PageIsReal'
  <2>1. order' = order /\ Bad(seen)' = Bad(seen) /\ row' = row /\ failing' = failing
        BY <1>1 DEF Bad
  <2>2. t # None => t \in {order[i] : i \in Bad(seen)}
        BY <1>2, <1>6
  <2> QED BY <1>7, <1>8, <2>1, <2>2 DEF PageIsReal
<1> QED BY <1>9, <1>10, <1>11, <1>12, <1>13

LEMMA JudgingInvStep == JudgingInv /\ [Next]_vars => JudgingInv'
<1> SUFFICES ASSUME JudgingInv, [Next]_vars PROVE JudgingInv'
    OBVIOUS
<1>1. CASE UNCHANGED vars
  <2> USE <1>1 DEF JudgingInv, vars, given, author, work
  <2>1. TypeOK' /\ RowIsLast' /\ RepliesAreHonest' /\ InOrder'
        BY DEF TypeOK, RowIsLast, NotJudged, RepliesAreHonest, InOrder
  <2>2. Stage'
        BY DEF Stage, Complete, Tallied, Bad, FirstBad
  <2>3. ResultsAreReal' /\ PageIsReal'
        BY DEF ResultsAreReal, ResultsUpTo, ResultOf, PageIsReal, Bad
  <2> QED BY <2>1, <2>2, <2>3
<1>2. ASSUME NEW from \in Before, GiveUp(from) PROVE JudgingInv'
      BY <1>2, Leaves DEF GiveUp, Go, Verdicts
<1>3. CASE ReadSubmission
      BY <1>2, <1>3, MovesOn DEF ReadSubmission, Read, ReadFails, Go, Before
<1>4. CASE ReadProblem
      BY <1>2, <1>4, MovesOn DEF ReadProblem, Read, ReadFails, Go, Before
<1>5. CASE ReadTests
      BY <1>5, ReadTestsInv
<1>6. CASE AcceptByDefault
      BY <1>6, Leaves DEF AcceptByDefault, Go, Verdicts, Before
<1>7. CASE ReadCode
  <2>1. CASE GiveUp("code")
        BY <1>2, <2>1 DEF Before
  <2>2. CASE ~GiveUp("code")
    <3>1. pc = "code" => order # <<>>
          BY DEF JudgingInv, Stage
    <3> QED BY <1>7, <2>2, <3>1, MovesOn DEF ReadCode, Go, Before
  <2> QED BY <2>1, <2>2
<1>8. CASE ReadParsers
  <2>1. CASE GiveUp("parsers")
        BY <1>2, <2>1 DEF Before
  <2>2. CASE ~GiveUp("parsers")
    <3>1. order # <<>>
      <4>1. pc = "parsers"
            BY <1>8, <2>2 DEF ReadParsers, Go
      <4> QED BY <4>1 DEF JudgingInv, Stage
    <3> QED BY <1>8, <2>2, <3>1, MovesOn DEF ReadParsers, Go, Before
  <2> QED BY <2>1, <2>2
<1>9. CASE RunTest
      BY <1>9, RunTestInv
<1>10. CASE SaveResult
      BY <1>10, SaveResultInv
<1>11. CASE Analyse
      BY <1>11, AnalyseInv
<1>12. CASE UpdateRow \/ UpdateFails
      BY <1>12, UpdateInv
<1>13. CASE PublishProblem \/ (\E t \in Tests : AddTest(t)) \/ TenSecondsPass
      BY <1>13, AroundInv
<1>14. CASE OpenDetails
      BY <1>14, OpenDetailsInv
<1>15. CASE ShowFailure
      BY <1>15, ShowFailureInv
<1> QED BY <1>1, <1>3, <1>4, <1>5, <1>6, <1>7, <1>8, <1>9, <1>10, <1>11, <1>12,
           <1>13, <1>14, <1>15 DEF Next, Judge, Environment

LEMMA JudgingInvHolds == Spec => []JudgingInv
<1> QED BY JudgingInvAtStart, JudgingInvStep, PTL DEF Spec

-----------------------------------------------------------------------------
(* The theorems *)

(* The variables of a judgement keep their types, for any test cases,       *)
(* programs and languages, whatever fails (submission.go:215-424).          *)
THEOREM JudgingTypeCorrect == Spec => []TypeOK
<1>1. JudgingInv => TypeOK
      BY DEF JudgingInv
<1> QED BY <1>1, JudgingInvHolds, PTL

(* A row with a verdict has the one processSubmission was going to store.   *)
LEMMA RowIsTheTally ==
  ASSUME JudgingInv, Decided, row.total > 0
  PROVE  pc = "done" /\ row = verdict /\ Complete
<1>1. row # NotJudged
      BY DEF Decided, NotJudged, Outcome
<1>2. pc = "done" /\ row = verdict
      BY <1>1 DEF JudgingInv, RowIsLast
<1>3. Complete \/ verdict.total = 0
      BY <1>2 DEF JudgingInv, Stage
<1> QED BY <1>2, <1>3

(* A stored verdict that counts test cases is the tally of the replies, with *)
(* the status and the test case of the first failure, for any number of test *)
(* cases and replies (submission.go:293-358).                                *)
THEOREM VerdictIsTheRun == Spec => []VerdictMatchesRun
<1>1. JudgingInv => VerdictMatchesRun
  <2> SUFFICES ASSUME JudgingInv, Decided, row.total > 0
               PROVE  /\ row.total = Len(order)
                      /\ row.passed = row.total - Cardinality(Failures)
                      /\ IF Failures = {} THEN row.status = "ACCEPTED" /\ row.failed = None
                         ELSE \E i \in Failures :
                                /\ \A j \in Failures : i <= j
                                /\ row.status = TestStatus(replies[i])
                                /\ row.failed = order[i]
      BY DEF VerdictMatchesRun
  <2>1. row = verdict /\ Complete
        BY RowIsTheTally
  <2>2. Failures = Bad(Len(order))
        BY <2>1 DEF Failures, Bad, Complete
  <2> QED BY <2>1, <2>2 DEF Complete, Tallied, FirstBad
<1> QED BY <1>1, JudgingInvHolds, PTL

(* A tally that says ACCEPTED is that of replies that all match, and of a   *)
(* submitted program that is right unless escapes changed it.               *)
LEMMA AcceptedTallyIsEarned ==
  ASSUME JudgingInv, Complete, verdict.status = "ACCEPTED"
  PROVE  SolvesAll
<1>1. /\ order # <<>> /\ order \in Seq(Tests) /\ replies \in Seq(Replies)
      /\ Len(replies) = Len(order) /\ Tallied(verdict, Len(order))
      BY DEF JudgingInv, TypeOK, Complete
<1>2. Bad(Len(order)) = {}
  <2>1. ASSUME NEW i \in 1 .. Len(order), verdict.status = TestStatus(replies[i])
        PROVE  FALSE
    <3>1. replies[i] \in Replies
          BY <1>1, ElementOfSeq
    <3> QED BY <2>1, <3>1, TestStatusType
  <2> QED BY <1>1, <2>1 DEF Tallied
<1>3. ~escapes => \A i \in 1 .. Len(order) : Execute(language, program[order[i]]) = "match"
      BY <1>1, <1>2 DEF Bad, JudgingInv, RepliesAreHonest
<1>4. DOMAIN order = 1 .. Len(order)
      BY <1>1, LenProperties
<1>5. Failures = {}
      BY <1>1, <1>2 DEF Failures, Bad
<1> QED BY <1>1, <1>3, <1>4, <1>5 DEF SolvesAll, ToSet

(* ACCEPTED with passed test cases, and the credit for the problem, are     *)
(* earned on every test case the judge read, whichever executor, database   *)
(* or AI call fails and however late the clock (submission.go:293-424): the *)
(* executor found the expected output on each, and the submitted program    *)
(* prints it unless its code has backslash escapes (execute.go:27).         *)
THEOREM AcceptanceIsEarned == Spec => []AcceptedIsEarned
<1>1. JudgingInv => AcceptedIsEarned
  <2> SUFFICES ASSUME JudgingInv PROVE AcceptedIsEarned
      OBVIOUS
  <2>1. row.status = "ACCEPTED" /\ row.total > 0 => SolvesAll
        BY RowIsTheTally, AcceptedTallyIsEarned DEF Decided
  <2>2. ASSUME "skills" \in spawned PROVE SolvesAll
    <3>1. pc = "done" /\ verdict.status = "ACCEPTED" /\ verdict.total > 0
          BY <2>2 DEF JudgingInv, RowIsLast
    <3>2. Complete
          BY <3>1 DEF JudgingInv, Stage
    <3> QED BY <3>1, <3>2, AcceptedTallyIsEarned
  <2> QED BY <2>1, <2>2 DEF AcceptedIsEarned
<1> QED BY <1>1, JudgingInvHolds, PTL

(* A failure on the details page comes from a row that was rejected, and    *)
(* the row names the first one.                                             *)
LEMMA ShownFailure ==
  ASSUME JudgingInv, PageShowsFailure
  PROVE  /\ row.failed # None
         /\ \E i \in Bad(seen) : page.failed = order[i] /\ i \in 1 .. Len(replies)
         /\ \E f \in Bad(seen) : /\ row.failed = order[f]
                                 /\ \A j \in Bad(seen) : SeqNo[order[f]] <= SeqNo[order[j]]
         /\ SeqNo \in [Tests -> Nat]
         /\ \A i \in Bad(seen) : order[i] \in Tests
<1>1. page.failed # None /\ page.status \notin {"PENDING", "ACCEPTED"}
      BY DEF PageShowsFailure
<1>2. row.status = page.status
      BY <1>1 DEF JudgingInv, PageIsReal
<1>3. pc = "done" /\ row = verdict
      BY <1>1, <1>2 DEF JudgingInv, RowIsLast, NotJudged, Outcome
<1>4. PICK i \in Bad(seen) : page.failed = order[i]
      BY <1>1 DEF JudgingInv, PageIsReal
<1>5. /\ seen \in Nat /\ seen <= Len(replies) /\ i \in 1 .. seen
      /\ order \in Seq(Tests) /\ replies \in Seq(Replies)
      BY <1>4 DEF JudgingInv, TypeOK, ResultsAreReal, Bad
<1>6. Complete
      BY <1>3, <1>5 DEF JudgingInv, Stage
<1>7. PICK f \in 1 .. seen : FirstBad(seen, f) /\ verdict.failed = order[f]
      BY <1>4, <1>6 DEF Complete, Tallied
<1>8. \A j \in Bad(seen) : j \in 1 .. Len(order) /\ order[j] \in Tests
      BY <1>5, <1>6, ElementOfSeq DEF Bad, Complete
<1>9. f \in Bad(seen) /\ \A j \in Bad(seen) : f <= j
      BY <1>7 DEF FirstBad
<1>10. ASSUME NEW j \in Bad(seen)
       PROVE  SeqNo[order[f]] <= SeqNo[order[j]]
  <2>1. SeqNo[order[f]] \in Nat
        BY <1>8, <1>9, JudgingAssumption
  <2>2. f \in 1 .. Len(order) /\ j \in 1 .. Len(order) /\ f <= j
        BY <1>8, <1>9
  <2>3. CASE f = j
        BY <2>1, <2>3
  <2>4. CASE f # j
    <3>1. f < j
          BY <2>2, <2>4
    <3>2. InOrder
          BY DEF JudgingInv
    <3> QED BY <2>2, <3>1, <3>2 DEF InOrder
  <2> QED BY <2>3, <2>4
<1>11. row.failed # None
      BY <1>3, <1>7, <1>8, <1>9, JudgingAssumption
<1>12. i \in 1 .. Len(replies)
      BY <1>5, LenProperties
<1> QED BY <1>3, <1>4, <1>7, <1>8, <1>9, <1>10, <1>11, <1>12, JudgingAssumption

(* A page that shows a rejection shows a failure of the run, and none from  *)
(* before the one the verdict is about, however its two reads interleave    *)
(* with the judge and whichever inserts are lost (submission.go:811-896).   *)
THEOREM ShownFailureBelongs == Spec => []ShownFailureIsReal
<1>1. JudgingInv => ShownFailureIsReal
  <2> SUFFICES ASSUME JudgingInv, PageShowsFailure
               PROVE  /\ row.failed # None
                      /\ SeqNo[row.failed] <= SeqNo[page.failed]
                      /\ \E i \in Failures : order[i] = page.failed
      BY DEF ShownFailureIsReal
  <2>1. PICK i \in Bad(seen) : page.failed = order[i] /\ i \in 1 .. Len(replies)
        BY ShownFailure
  <2>2. i \in Failures
        BY <2>1 DEF Failures, Bad
  <2>3. SeqNo[row.failed] <= SeqNo[page.failed]
        BY <2>1, ShownFailure
  <2> QED BY <2>1, <2>2, <2>3, ShownFailure
<1> QED BY <1>1, JudgingInvHolds, PTL

(* While no call fails, the failure shown has the sequence number of the    *)
(* first one, also when the 10 seconds end between two inserts.             *)
THEOREM ShownFailureIsTheFirst == Spec => []ShownFailureIsFirst
<1>1. JudgingInv => ShownFailureIsFirst
  <2> SUFFICES ASSUME JudgingInv, ~failing, PageShowsFailure
               PROVE  SeqNo[page.failed] = SeqNo[row.failed]
      BY DEF ShownFailureIsFirst
  <2>1. PICK f \in Bad(seen) :
          row.failed = order[f] /\ \A j \in Bad(seen) : SeqNo[order[f]] <= SeqNo[order[j]]
        BY ShownFailure
  <2>2. PICK i \in Bad(seen) : page.failed = order[i]
        BY ShownFailure
  <2>3. SeqNo[page.failed] <= SeqNo[order[f]]
        BY DEF JudgingInv, PageIsReal, PageShowsFailure
  <2>4. SeqNo[order[f]] \in Nat /\ SeqNo[order[i]] \in Nat
        BY ShownFailure
  <2> QED BY <2>1, <2>2, <2>3, <2>4
<1> QED BY <1>1, JudgingInvHolds, PTL

(* Once the row has its verdict neither the row nor the stored results      *)
(* change: polling for the row and then reading the results is sound, for   *)
(* any number of test cases and failing calls.                              *)
THEOREM VerdictIsFrozen == Spec => FrozenAfterVerdict
<1>1. JudgingInv /\ [Next]_vars => [Decided => UNCHANGED <<row, results>>]_vars
  <2> SUFFICES ASSUME JudgingInv, Next, Decided
               PROVE  UNCHANGED <<row, results>>
      BY DEF vars
  <2>1. pc = "done"
        BY DEF JudgingInv, RowIsLast, Decided, NotJudged, Outcome
  <2>2. ~Judge
        BY <2>1 DEF Judge, ReadSubmission, ReadProblem, ReadTests, AcceptByDefault,
           ReadCode, ReadParsers, RunTest, SaveResult, Analyse, UpdateRow,
           UpdateFails, Read, ReadFails, GiveUp, Go
  <2>3. Environment
        BY <2>2 DEF Next
  <2> QED BY <2>3 DEF Environment, PublishProblem, AddTest, TenSecondsPass,
             OpenDetails, ShowFailure
<1> QED BY <1>1, JudgingInvHolds, PTL DEF Spec, FrozenAfterVerdict

-----------------------------------------------------------------------------
(* How long a judgement can take *)

(* The steps processSubmission may still take.  Until it has read the test  *)
(* cases it may find all there are; it then runs and saves each one it read. *)
StepsLeft ==
  CASE pc = "row" -> 2 * Cardinality(Tests) + 7
    [] pc = "problem" -> 2 * Cardinality(Tests) + 6
    [] pc = "tests" -> 2 * Cardinality(Tests) + 5
    [] pc = "code" -> 2 * Len(order) + 4
    [] pc = "parsers" -> 2 * Len(order) + 3
    [] pc = "running" -> (Len(order) - Len(replies)) + Len(order) + 2
    [] pc = "saving" -> (Len(order) - seen) + 2
    [] pc = "analysing" -> 2
    [] pc = "updating" -> 1
    [] pc = "done" -> 0

StepsAreBounded ==
  /\ StepsLeft \in 0 .. 2 * Cardinality(Tests) + 7
  /\ StepsLeft = 0 <=> pc = "done"

(* The judge reads no more test cases than there are.                       *)
ReadsWhatThereIs == Len(order) <= Cardinality(Tests)

LEMMA ThereAreFinitelyMany == Cardinality(Tests) \in Nat
BY JudgingAssumption, FS_CardinalityType

LEMMA SortedLength ==
  ASSUME suite \subseteq Tests, NEW s \in Sorted(suite)
  PROVE  Len(s) <= Cardinality(Tests)
<1>1. IsFiniteSet(suite) /\ Cardinality(suite) <= Cardinality(Tests)
      BY FS_Subset, JudgingAssumption
<1>2. Cardinality(suite) \in Nat
      BY <1>1, FS_CardinalityType
<1>3. s \in [1 .. Cardinality(suite) -> suite]
      BY DEF Sorted, SetToSeqs
<1> QED BY <1>1, <1>2, <1>3

LEMMA ReadsStep ==
  ASSUME JudgingInv, ReadsWhatThereIs, [Next]_vars
  PROVE  ReadsWhatThereIs'
<1>1. suite \subseteq Tests
      BY DEF JudgingInv, TypeOK
<1>2. order' \in Sorted(suite) \/ order' = order
      BY DEF Next, Judge, Environment, ReadSubmission, ReadProblem, ReadTests,
         AcceptByDefault, ReadCode, ReadParsers, RunTest, SaveResult, Analyse,
         UpdateRow, UpdateFails, PublishProblem, AddTest, TenSecondsPass,
         OpenDetails, ShowFailure, Read, ReadFails, GiveUp, work, vars
<1> QED BY <1>1, <1>2, SortedLength DEF ReadsWhatThereIs

LEMMA ReadsHold == Spec => []ReadsWhatThereIs
<1>1. Init => ReadsWhatThereIs
      BY ThereAreFinitelyMany DEF Init, ReadsWhatThereIs
<1> QED BY <1>1, ReadsStep, JudgingInvHolds, PTL DEF Spec

(* The lengths the measure is made of. *)
LEMMA Lengths ==
  ASSUME JudgingInv
  PROVE  Len(order) \in Nat /\ Len(replies) \in Nat /\ seen \in Nat
BY DEF JudgingInv, TypeOK

LEMMA MeasureIsBounded ==
  ASSUME JudgingInv, ReadsWhatThereIs
  PROVE  StepsAreBounded
<1> DEFINE n == Cardinality(Tests)
           k == Len(order)
           r == Len(replies)
<1>1. n \in Nat /\ k \in Nat /\ r \in Nat /\ seen \in Nat /\ k <= n
      BY ThereAreFinitelyMany, Lengths DEF ReadsWhatThereIs
<1>2. pc \in {"row", "problem", "tests", "code", "parsers", "running", "saving",
              "analysing", "updating", "done"}
      BY DEF JudgingInv, TypeOK
<1>3. (pc = "running" => r < k) /\ (pc = "saving" => seen < k)
      BY DEF JudgingInv, Stage
<1> HIDE DEF n, k, r
<1>4. \/ pc = "done" /\ StepsLeft = 0
      \/ pc # "done" /\ StepsLeft \in {2 * n + 7, 2 * n + 6, 2 * n + 5, 2 * k + 4, 2 * k + 3}
      \/ pc = "running" /\ StepsLeft = (k - r) + k + 2
      \/ pc = "saving" /\ StepsLeft = (k - seen) + 2
      \/ pc # "done" /\ StepsLeft \in {1, 2}
      BY <1>2 DEF StepsLeft, n, k, r
<1>5. StepsLeft \in 0 .. 2 * n + 7 /\ (StepsLeft = 0 <=> pc = "done")
      BY <1>1, <1>3, <1>4
<1> QED BY <1>5 DEF StepsAreBounded, n

(* An early return, and the acceptance by default. *)
LEMMA LeavingIsShorter ==
  ASSUME JudgingInv, pc \in Before, pc' = "updating"
  PROVE  StepsLeft' < StepsLeft
<1>1. StepsLeft' = 1
      BY DEF StepsLeft
<1>2. Cardinality(Tests) \in Nat /\ Len(order) \in Nat
      BY ThereAreFinitelyMany, Lengths
<1>3. StepsLeft \in {2 * Cardinality(Tests) + 7, 2 * Cardinality(Tests) + 6,
                    2 * Cardinality(Tests) + 5, 2 * Len(order) + 4, 2 * Len(order) + 3}
      BY DEF StepsLeft, Before
<1> QED BY <1>1, <1>2, <1>3

LEMMA JudgeStepsDown ==
  ASSUME JudgingInv, ReadsWhatThereIs, ReadsWhatThereIs', JudgingInv', Judge
  PROVE  StepsLeft' < StepsLeft
<1>0. /\ Cardinality(Tests) \in Nat
      /\ Len(order) \in Nat /\ Len(replies) \in Nat /\ seen \in Nat
      /\ Len(order') \in Nat /\ Len(replies') \in Nat /\ seen' \in Nat
      BY ThereAreFinitelyMany, Lengths DEF JudgingInv, TypeOK
<1>1. ASSUME NEW from \in Before, GiveUp(from) PROVE StepsLeft' < StepsLeft
      BY <1>1, LeavingIsShorter DEF GiveUp, Go
<1>2. CASE ReadSubmission
  <2>1. GiveUp("row") \/ (pc = "row" /\ pc' = "problem")
        BY <1>2 DEF ReadSubmission, Read, ReadFails, Go
  <2>2. CASE GiveUp("row")
        BY <1>1, <2>2 DEF Before
  <2>3. CASE pc = "row" /\ pc' = "problem"
        BY <1>0, <2>3 DEF StepsLeft
  <2> QED BY <2>1, <2>2, <2>3
<1>3. CASE ReadProblem
  <2>1. GiveUp("problem") \/ (pc = "problem" /\ pc' = "tests")
        BY <1>3 DEF ReadProblem, Read, ReadFails, Go
  <2>2. CASE GiveUp("problem")
        BY <1>1, <2>2 DEF Before
  <2>3. CASE pc = "problem" /\ pc' = "tests"
        BY <1>0, <2>3 DEF StepsLeft
  <2> QED BY <2>1, <2>2, <2>3
<1>4. CASE ReadTests
  <2>1. CASE ReadFails("tests")
        BY <1>1, <2>1 DEF ReadFails, Before
  <2>2. CASE ~ReadFails("tests")
    <3>1. pc = "tests" /\ pc' = "code"
          BY <1>4, <2>2 DEF ReadTests, Go
    <3>2. Len(order') <= Cardinality(Tests)
          BY DEF ReadsWhatThereIs
    <3> QED BY <1>0, <3>1, <3>2 DEF StepsLeft
  <2> QED BY <2>1, <2>2
<1>5. CASE AcceptByDefault
      BY <1>5, LeavingIsShorter DEF AcceptByDefault, Go, Before
<1>6. CASE ReadCode
  <2>1. CASE GiveUp("code")
        BY <1>1, <2>1 DEF Before
  <2>2. CASE ~GiveUp("code")
    <3>1. pc = "code" /\ pc' = "parsers" /\ order' = order
          BY <1>6, <2>2 DEF ReadCode, Go, work
    <3> QED BY <1>0, <3>1 DEF StepsLeft
  <2> QED BY <2>1, <2>2
<1>7. CASE ReadParsers
  <2>1. CASE GiveUp("parsers")
        BY <1>1, <2>1 DEF Before
  <2>2. CASE ~GiveUp("parsers")
    <3>1. pc = "parsers" /\ pc' = "running" /\ order' = order /\ replies' = replies
          BY <1>7, <2>2 DEF ReadParsers, Go, work
    <3>2. Len(replies) = 0
          BY <3>1 DEF JudgingInv, Stage, Before
    <3> QED BY <1>0, <3>1, <3>2 DEF StepsLeft
  <2> QED BY <2>1, <2>2
<1>8. CASE RunTest
  <2>1. /\ pc = "running" /\ order' = order /\ seen' = seen
        /\ \E a \in ExecuteCode(program[order[Len(replies) + 1]]) :
             replies' = Append(replies, a)
        /\ pc' = IF Len(replies') = Len(order) THEN "saving" ELSE "running"
        BY <1>8 DEF RunTest
  <2>2. Len(replies') = Len(replies) + 1
        BY <2>1 DEF JudgingInv, TypeOK
  <2>3. seen = 0 /\ Len(replies) < Len(order)
        BY <2>1 DEF JudgingInv, Stage
  <2>4. CASE Len(replies') = Len(order)
        BY <1>0, <2>1, <2>2, <2>3, <2>4 DEF StepsLeft
  <2>5. CASE Len(replies') # Len(order)
        BY <1>0, <2>1, <2>2, <2>3, <2>5 DEF StepsLeft
  <2> QED BY <2>4, <2>5
<1>9. CASE SaveResult
  <2>1. /\ pc = "saving" /\ order' = order /\ seen' = seen + 1
        /\ pc' \in {"saving", "analysing", "updating"}
        BY <1>9 DEF SaveResult
  <2>2. seen < Len(order)
        BY <2>1 DEF JudgingInv, Stage
  <2> QED BY <1>0, <2>1, <2>2 DEF StepsLeft
<1>10. CASE Analyse \/ UpdateRow \/ UpdateFails
      BY <1>10 DEF Analyse, UpdateRow, UpdateFails, Go, StepsLeft
<1> QED BY <1>2, <1>3, <1>4, <1>5, <1>6, <1>7, <1>8, <1>9, <1>10 DEF Judge

(* A judgement is finite whatever fails: at every moment the number of      *)
(* steps processSubmission has left is bounded by the test cases there are, *)
(* each of its steps lowers it, and nothing the author, the clock or a      *)
(* reader of the page does raises it, not even test cases added meanwhile.  *)
(* So no early return, retry or late test case makes it loop, and "the      *)
(* judge goes on" is all that JudgementEnds takes from fairness             *)
(* (submission.go:215-424).                                                 *)
THEOREM JudgementIsFinite ==
  Spec => /\ []StepsAreBounded
          /\ [][IF Judge THEN StepsLeft' < StepsLeft ELSE StepsLeft' = StepsLeft]_vars
<1>1. JudgingInv /\ ReadsWhatThereIs => StepsAreBounded
      BY MeasureIsBounded
<1>2. ASSUME Environment PROVE StepsLeft' = StepsLeft
      BY <1>2 DEF Environment, PublishProblem, AddTest, TenSecondsPass, OpenDetails,
         ShowFailure, StepsLeft, work
<1>3. JudgingInv /\ JudgingInv' /\ ReadsWhatThereIs /\ ReadsWhatThereIs' /\ [Next]_vars
        => [IF Judge THEN StepsLeft' < StepsLeft ELSE StepsLeft' = StepsLeft]_vars
      BY <1>2, JudgeStepsDown DEF Next
<1> QED BY <1>1, <1>3, JudgingInvHolds, ReadsHold, PTL DEF Spec
=============================================================================
