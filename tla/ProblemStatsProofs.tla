------------------------- MODULE ProblemStatsProofs -------------------------
(***************************************************************************)
(* Proofs about ProblemStats for any finite set of submissions, any set of *)
(* listings and of problems, and any number of failures and crashes.       *)
(***************************************************************************)
EXTENDS ProblemStats, FiniteSetTheorems, TLAPS

-----------------------------------------------------------------------------
(* Type correctness *)

\* Counting rows gives numbers, and at most as many rows are accepted as there
\* are (acceptance_rate.go:16, 30).
LEMMA Sizes ==
  ASSUME NEW p \in Problems
  PROVE  /\ IsFiniteSet(Rows(p))
         /\ IsFiniteSet(Accepted(p))
         /\ Cardinality(Rows(p)) \in Nat
         /\ Cardinality(Accepted(p)) \in Nat
         /\ Cardinality(Accepted(p)) <= Cardinality(Rows(p))
<1>1. IsFiniteSet(Submissions)
  BY StatsAssumption DEF StatsAssumption
<1>2. Rows(p) \subseteq Submissions /\ Accepted(p) \subseteq Rows(p)
  BY DEF Rows, Accepted
<1>3. IsFiniteSet(Rows(p))
  BY <1>1, <1>2, FS_Subset
<1>4. IsFiniteSet(Accepted(p)) /\ Cardinality(Accepted(p)) <= Cardinality(Rows(p))
  BY <1>2, <1>3, FS_Subset
<1>5. QED
  BY <1>3, <1>4, FS_CardinalityType

\* Every submission and every listing belongs to a problem.
LEMMA WriterProblem == \A w \in Writers : ProblemOf[w] \in Problems
  BY StatsAssumption DEF StatsAssumption

\* Each step keeps the variables in their types.
LEMMA StepType == TypeOK /\ [Next]_vars => TypeOK'
<1> SUFFICES ASSUME TypeOK, [Next]_vars PROVE TypeOK'
  OBVIOUS
<1> USE WriterProblem DEF TypeOK, counts
<1>1. ASSUME NEW s \in Submissions, Insert(s) PROVE TypeOK'
  BY <1>1 DEF Insert
<1>2. ASSUME NEW s \in Submissions, StoreVerdict(s)
      PROVE  /\ row' \in [Submissions -> {"none", "PENDING", "ACCEPTED", "REJECTED"}]
             /\ analysed' \subseteq Submissions
  BY <1>2 DEF StoreVerdict
<1>3. ASSUME NEW s \in Submissions, Decide(s) PROVE TypeOK'
  BY <1>2, <1>3 DEF Decide, Go, Writers
<1>4. ASSUME NEW s \in Submissions, DecideFails(s) PROVE TypeOK'
  <2>1. /\ row' \in [Submissions -> {"none", "PENDING", "ACCEPTED", "REJECTED"}]
        /\ analysed' \subseteq Submissions
    BY <1>2, <1>4 DEF DecideFails
  <2>2. QED
    BY <1>4, <2>1 DEF DecideFails, Fault, Go, Writers
<1>5. ASSUME NEW l \in Listings, List(l) PROVE TypeOK'
  BY <1>5 DEF List, Go, Writers
<1>6. ASSUME NEW w \in Writers, CountTotal(w) PROVE TypeOK'
  BY <1>6, Sizes DEF CountTotal, Go
<1>7. ASSUME NEW w \in Writers, CountAccepted(w) PROVE TypeOK'
  BY <1>7, Sizes DEF CountAccepted, Go
<1>8. ASSUME NEW w \in Writers, StoreRate(w), faults' \in Nat PROVE TypeOK'
  <2>1. ProblemOf[w] \in Problems
    OBVIOUS
  <2>2. QED
    BY <1>8, <2>1 DEF StoreRate, Go, Rest
<1>9. ASSUME NEW w \in Writers, WriteRate(w) PROVE TypeOK'
  BY <1>8, <1>9 DEF WriteRate
<1>10. ASSUME NEW w \in Writers, RateFails(w) PROVE TypeOK'
  <2>1. faults' \in Nat
    BY <1>10 DEF RateFails, Fault
  <2>2. CASE StoreRate(w)
    BY <1>8, <2>1, <2>2
  <2>3. CASE ~StoreRate(w)
    BY <1>10, <2>1, <2>3 DEF RateFails, Rest
  <2>4. QED
    BY <2>2, <2>3
<1>11. ASSUME NEW s \in Submissions, Increment(s) PROVE stats' \in [Submissions -> Nat]
  BY <1>11 DEF Increment, StatsOf
<1>12. ASSUME NEW s \in Submissions, CountComplexity(s) PROVE TypeOK'
  BY <1>11, <1>12 DEF CountComplexity, Go, Writers
<1>13. ASSUME NEW s \in Submissions, FindNoStats(s) PROVE TypeOK'
  <2>1. s \in Writers /\ ProblemOf[s] \in Problems
    BY DEF Writers
  <2>2. QED
    BY <1>13, <2>1 DEF FindNoStats, Go
<1>14. ASSUME NEW s \in Submissions, CreateStats(s) PROVE TypeOK'
  BY <1>14 DEF CreateStats, Go, Writers
<1>15. ASSUME NEW s \in Submissions, ComplexityFails(s) PROVE TypeOK'
  <2>1. stats' \in [Submissions -> Nat]
    BY <1>11, <1>15 DEF ComplexityFails
  <2>2. faults' \in Nat /\ UNCHANGED <<row, analysed, total, accepted, rate, lowered, twice>>
    BY <1>15 DEF ComplexityFails, Fault
  <2>3. pc' = [pc EXCEPT ![s] = "done"]
    BY <1>15 DEF ComplexityFails
  <2>4. QED
    BY <2>1, <2>2, <2>3
<1>16. ASSUME Crash PROVE TypeOK'
  BY <1>16 DEF Crash, Fault
<1>17. CASE UNCHANGED vars
  BY <1>17 DEF vars
<1>18. QED
  BY <1>1, <1>3, <1>4, <1>5, <1>6, <1>7, <1>9, <1>10, <1>12, <1>13, <1>14, <1>15,
     <1>16, <1>17 DEF Next, Rating, Complexity

\* The variables keep their types in every behaviour.
THEOREM TypeCorrect == Spec => []TypeOK
<1>1. Init => TypeOK
  BY DEF Init, TypeOK
<1>2. QED
  BY <1>1, StepType, PTL DEF Spec

-----------------------------------------------------------------------------
(* What the steps do to the rows that are counted *)

Waiting(p) == \E s \in Submissions : ProblemOf[s] = p /\ row[s] = "PENDING"

\* A database call about the statistics does not touch the submissions.
LEMMA RowsKept ==
  ASSUME row' = row, NEW p
  PROVE  /\ Rows(p)' = Rows(p)
         /\ Accepted(p)' = Accepted(p)
         /\ Waiting(p)' = Waiting(p)
  BY DEF Rows, Accepted, Waiting

\* A new submission waits; it is counted in the rows of its own problem.
LEMMA RowInserted ==
  ASSUME TypeOK, NEW s \in Submissions, Insert(s), NEW p
  PROVE  /\ Rows(p) \subseteq Rows(p)'
         /\ Accepted(p)' = Accepted(p)
         /\ p # ProblemOf[s] => Rows(p)' = Rows(p)
         /\ Waiting(p) => Waiting(p)'
         /\ Waiting(ProblemOf[s])'
  BY DEF TypeOK, Insert, Rows, Accepted, Waiting

\* A verdict makes no row, takes no acceptance back, and concerns the problem
\* of its submission only.
LEMMA RowJudged ==
  ASSUME TypeOK, NEW s \in Submissions, row[s] = "PENDING", StoreVerdict(s), NEW p
  PROVE  /\ Rows(p)' = Rows(p)
         /\ Accepted(p) \subseteq Accepted(p)'
         /\ p # ProblemOf[s] => Accepted(p)' = Accepted(p)
         /\ p # ProblemOf[s] /\ Waiting(p) => Waiting(p)'
<1>1. PICK v \in {"ACCEPTED", "REJECTED"} : row' = [row EXCEPT ![s] = v]
  BY DEF StoreVerdict
<1>2. QED
  BY <1>1 DEF TypeOK, Rows, Accepted, Waiting

\* No step takes away a row or an acceptance.
LEMMA RowsGrow ==
  ASSUME TypeOK, [Next]_vars, NEW p
  PROVE  Rows(p) \subseteq Rows(p)' /\ Accepted(p) \subseteq Accepted(p)'
<1>1. ASSUME NEW s \in Submissions, Insert(s)
      PROVE  Rows(p) \subseteq Rows(p)' /\ Accepted(p) \subseteq Accepted(p)'
  BY <1>1, RowInserted
<1>2. ASSUME NEW s \in Submissions, Decide(s) \/ DecideFails(s)
      PROVE  Rows(p) \subseteq Rows(p)' /\ Accepted(p) \subseteq Accepted(p)'
  <2>1. row[s] = "PENDING" /\ (StoreVerdict(s) \/ row' = row)
    BY <1>2 DEF Decide, DecideFails
  <2>2. QED
    BY <2>1, RowJudged, RowsKept
<1>3. CASE row' = row
  BY <1>3, RowsKept
<1>4. QED
  BY <1>1, <1>2, <1>3 DEF Next, Rating, Complexity, List, CountTotal, CountAccepted,
     WriteRate, RateFails, StoreRate, CountComplexity, FindNoStats, CreateStats,
     ComplexityFails, Crash, vars

-----------------------------------------------------------------------------
(* Counts are never ahead of the rows *)

\* What is read or stored was true once, and rows and acceptances only become
\* more: it is at most what is true now.
Behind ==
  /\ \A w \in Writers : /\ total[w] <= Cardinality(Rows(ProblemOf[w]))
                        /\ accepted[w] <= Cardinality(Accepted(ProblemOf[w]))
  /\ \A p \in Problems : /\ rate[p].total <= Cardinality(Rows(p))
                         /\ rate[p].accepted <= Cardinality(Accepted(p))

\* The numbers of rows and of acceptances do not go down.
LEMMA SizesGrow ==
  ASSUME TypeOK, [Next]_vars, NEW p \in Problems
  PROVE  /\ Cardinality(Rows(p)') \in Nat /\ Cardinality(Accepted(p)') \in Nat
         /\ Cardinality(Rows(p)) <= Cardinality(Rows(p)')
         /\ Cardinality(Accepted(p)) <= Cardinality(Accepted(p)')
<1>1. Rows(p)' \subseteq Submissions /\ Accepted(p)' \subseteq Submissions
  BY DEF Rows, Accepted
<1>2. IsFiniteSet(Rows(p)') /\ IsFiniteSet(Accepted(p)')
  BY <1>1, FS_Subset, StatsAssumption DEF StatsAssumption
<1>3. QED
  BY <1>2, RowsGrow, FS_Subset, FS_CardinalityType

\* Every step keeps the counts behind the rows.
LEMMA StepBehind == TypeOK /\ Behind /\ [Next]_vars => Behind'
<1> SUFFICES ASSUME TypeOK, Behind, [Next]_vars PROVE Behind'
  OBVIOUS
<1>1. \A w \in Writers :
        /\ \/ total'[w] = total[w]
           \/ total'[w] = Cardinality(Rows(ProblemOf[w]))
        /\ \/ accepted'[w] = accepted[w]
           \/ accepted'[w] = Cardinality(Accepted(ProblemOf[w]))
  BY DEF TypeOK, Next, Rating, Complexity, Insert, Decide, DecideFails, List, CountTotal,
     CountAccepted, WriteRate, RateFails, StoreRate, CountComplexity, FindNoStats,
     CreateStats, ComplexityFails, Crash, vars, counts
<1>2. \A p \in Problems :
        \/ rate'[p] = rate[p]
        \/ \E w \in Writers : /\ ProblemOf[w] = p
                              /\ rate'[p] = [accepted |-> accepted[w], total |-> total[w]]
  <2>1. CASE rate' = rate
    BY <2>1
  <2>2. ASSUME NEW w \in Writers, StoreRate(w), NEW p \in Problems
        PROVE  \/ rate'[p] = rate[p]
               \/ /\ ProblemOf[w] = p
                  /\ rate'[p] = [accepted |-> accepted[w], total |-> total[w]]
    BY <2>2 DEF StoreRate, TypeOK
  <2>3. QED
    BY <2>1, <2>2 DEF Next, Rating, Complexity, Insert, Decide, DecideFails, List,
       CountTotal, CountAccepted, WriteRate, RateFails, CountComplexity, FindNoStats,
       CreateStats, ComplexityFails, Crash, vars
<1>3. ASSUME NEW w \in Writers
      PROVE  /\ total'[w] <= Cardinality(Rows(ProblemOf[w])')
             /\ accepted'[w] <= Cardinality(Accepted(ProblemOf[w])')
  <2>1. ProblemOf[w] \in Problems
    BY WriterProblem
  <2>2. /\ total[w] \in Nat /\ accepted[w] \in Nat
        /\ total[w] <= Cardinality(Rows(ProblemOf[w]))
        /\ accepted[w] <= Cardinality(Accepted(ProblemOf[w]))
    BY DEF Behind, TypeOK
  <2>3. QED
    BY <1>1, <2>1, <2>2, SizesGrow, Sizes
<1>4. ASSUME NEW p \in Problems
      PROVE  /\ rate'[p].total <= Cardinality(Rows(p)')
             /\ rate'[p].accepted <= Cardinality(Accepted(p)')
  <2>1. /\ rate'[p].total \in Nat /\ rate'[p].total <= Cardinality(Rows(p))
        /\ rate'[p].accepted \in Nat /\ rate'[p].accepted <= Cardinality(Accepted(p))
    <3>1. CASE rate'[p] = rate[p]
      BY <3>1 DEF Behind, TypeOK
    <3>2. CASE \E w \in Writers :
                 /\ ProblemOf[w] = p
                 /\ rate'[p] = [accepted |-> accepted[w], total |-> total[w]]
      BY <3>2 DEF Behind, TypeOK
    <3>3. QED
      BY <1>2, <3>1, <3>2
  <2>2. QED
    BY <2>1, SizesGrow, Sizes
<1>5. QED
  BY <1>3, <1>4 DEF Behind

-----------------------------------------------------------------------------
(* The rate is exact at rest *)

\* What w has counted is still so.
UpToDate(w) ==
  \/ pc[w] = "total"
  \/ /\ pc[w] = "accepted"
     /\ total[w] = Cardinality(Rows(ProblemOf[w]))
  \/ /\ pc[w] = "write"
     /\ total[w] = Cardinality(Rows(ProblemOf[w]))
     /\ accepted[w] = Cardinality(Accepted(ProblemOf[w]))

Exact(p) ==
  /\ rate[p].total = Cardinality(Rows(p))
  /\ rate[p].accepted = Cardinality(Accepted(p))

\* The rate is exact, or somebody will still see to it.
Coming(p) ==
  \/ Waiting(p)
  \/ \E w \in Writers : ProblemOf[w] = p /\ UpToDate(w)
  \/ Exact(p)

Fresh == faults = 0 => \A p \in Problems \ lowered : Coming(p)

\* A step that changes neither rows nor rates, keeps the counts and takes no
\* writer that has still to store its rate from where it is leaves all as it was.
LEMMA NothingCounted ==
  ASSUME Fresh, UNCHANGED <<row, counts, rate, faults, lowered>>,
         \A w \in Writers : pc[w] \in {"total", "accepted", "write"} => pc'[w] = pc[w]
  PROVE  Fresh'
<1>1. \A w \in Writers : UpToDate(w) => UpToDate(w)'
  BY RowsKept DEF UpToDate, counts
<1>2. \A p : Exact(p) => Exact(p)'
  BY RowsKept DEF Exact
<1>3. QED
  BY <1>1, <1>2, RowsKept DEF Fresh, Coming

\* Every step leaves each rate exact or to somebody who will see to it.
LEMMA StepFresh == TypeOK /\ Behind /\ Fresh /\ [Next]_vars => Fresh'
<1> SUFFICES ASSUME TypeOK, Behind, Fresh, [Next]_vars PROVE Fresh'
  OBVIOUS
<1>1. ASSUME NEW s \in Submissions, Insert(s) PROVE Fresh'
  <2>1. UNCHANGED <<pc, total, accepted, rate, faults, lowered>>
    BY <1>1 DEF Insert, counts
  <2>2. ASSUME NEW p \in Problems, Coming(p) PROVE Coming(p)'
    <3>1. CASE p = ProblemOf[s]
      BY <1>1, <3>1, RowInserted DEF Coming
    <3>2. CASE p # ProblemOf[s]
      <4>1. Rows(p)' = Rows(p) /\ Accepted(p)' = Accepted(p) /\ (Waiting(p) => Waiting(p)')
        BY <1>1, <3>2, RowInserted
      <4>2. QED
        BY <2>1, <2>2, <4>1 DEF Coming, UpToDate, Exact
    <3>3. QED
      BY <3>1, <3>2
  <2>3. QED
    BY <2>1, <2>2 DEF Fresh
<1>2. ASSUME NEW s \in Submissions, Decide(s) PROVE Fresh'
  <2>1. UNCHANGED <<total, accepted, rate, faults, lowered>>
    BY <1>2 DEF Decide, counts
  <2>2. /\ s \in Writers /\ pc'[s] = "total" /\ pc[s] = "idle"
        /\ \A w \in Writers : w # s => pc'[w] = pc[w]
    BY <1>2 DEF Decide, Go, TypeOK, Writers
  <2>3. ASSUME NEW p \in Problems, Coming(p) PROVE Coming(p)'
    <3>1. CASE p = ProblemOf[s]
      BY <2>2, <3>1 DEF Coming, UpToDate
    <3>2. CASE p # ProblemOf[s]
      <4>1. Rows(p)' = Rows(p) /\ Accepted(p)' = Accepted(p) /\ (Waiting(p) => Waiting(p)')
        BY <1>2, <3>2, RowJudged DEF Decide
      <4>2. QED
        BY <2>1, <2>2, <2>3, <3>2, <4>1 DEF Coming, UpToDate, Exact
    <3>3. QED
      BY <3>1, <3>2
  <2>4. QED
    BY <2>1, <2>3 DEF Fresh
<1>3. ASSUME NEW l \in Listings, List(l) PROVE Fresh'
  BY <1>3, NothingCounted DEF List, Go, TypeOK, Writers
<1>4. ASSUME NEW w \in Writers, CountTotal(w) PROVE Fresh'
  <2>1. UNCHANGED <<row, accepted, rate, faults, lowered>>
    BY <1>4 DEF CountTotal
  <2>2. /\ pc'[w] = "accepted" /\ total'[w] = Cardinality(Rows(ProblemOf[w]))
        /\ \A v \in Writers : v # w => pc'[v] = pc[v] /\ total'[v] = total[v]
    BY <1>4 DEF CountTotal, Go, TypeOK
  <2>3. \A v \in Writers : UpToDate(v) => UpToDate(v)'
    BY <2>1, <2>2, RowsKept DEF UpToDate
  <2>4. \A p : Exact(p) => Exact(p)'
    BY <2>1, RowsKept DEF Exact
  <2>5. QED
    BY <2>1, <2>3, <2>4, RowsKept DEF Fresh, Coming
<1>5. ASSUME NEW w \in Writers, CountAccepted(w) PROVE Fresh'
  <2>1. UNCHANGED <<row, total, rate, faults, lowered>>
    BY <1>5 DEF CountAccepted
  <2>2. /\ pc[w] = "accepted" /\ pc'[w] = "write"
        /\ accepted'[w] = Cardinality(Accepted(ProblemOf[w]))
        /\ \A v \in Writers : v # w => pc'[v] = pc[v] /\ accepted'[v] = accepted[v]
    BY <1>5 DEF CountAccepted, Go, TypeOK
  <2>3. \A v \in Writers : UpToDate(v) => UpToDate(v)'
    BY <2>1, <2>2, RowsKept DEF UpToDate
  <2>4. \A p : Exact(p) => Exact(p)'
    BY <2>1, RowsKept DEF Exact
  <2>5. QED
    BY <2>1, <2>3, <2>4, RowsKept DEF Fresh, Coming
<1>6. ASSUME NEW w \in Writers, WriteRate(w) PROVE Fresh'
  <2>1. UNCHANGED <<row, total, accepted, faults>> /\ lowered \subseteq lowered'
    BY <1>6 DEF WriteRate, StoreRate, counts
  <2>2. /\ pc[w] = "write"
        /\ rate'[ProblemOf[w]] = [accepted |-> accepted[w], total |-> total[w]]
        /\ \A v \in Writers : v # w => pc'[v] = pc[v]
        /\ \A p \in Problems : p # ProblemOf[w] => rate'[p] = rate[p]
    BY <1>6, WriterProblem DEF WriteRate, StoreRate, Go, TypeOK
  <2>3. \A v \in Writers : v # w /\ UpToDate(v) => UpToDate(v)'
    BY <2>1, <2>2, RowsKept DEF UpToDate
  <2>4. ASSUME NEW p \in Problems \ lowered', Coming(p) PROVE Coming(p)'
    <3>1. CASE p = ProblemOf[w]
      <4>1. ~Lowers(w)
        BY <1>6, <2>4, <3>1 DEF WriteRate, StoreRate
      <4>2. CASE Waiting(p)
        BY <2>1, <4>2, RowsKept DEF Coming
      <4>3. CASE \E v \in Writers : v # w /\ ProblemOf[v] = p /\ UpToDate(v)
        BY <2>3, <4>3 DEF Coming
      <4>4. CASE UpToDate(w)
        BY <2>1, <2>2, <3>1, <4>4, RowsKept DEF Coming, UpToDate, Exact
      <4>5. CASE Exact(p)
        <5>1. /\ total[w] = Cardinality(Rows(p))
              /\ accepted[w] = Cardinality(Accepted(p))
          <6>1. /\ total[w] \in Nat /\ total[w] <= Cardinality(Rows(p))
                /\ accepted[w] \in Nat /\ accepted[w] <= Cardinality(Accepted(p))
            BY <3>1 DEF Behind, TypeOK
          <6>2. /\ ~(total[w] < Cardinality(Rows(p)))
                /\ ~(accepted[w] < Cardinality(Accepted(p)))
            BY <3>1, <4>1, <4>5 DEF Lowers, Exact
          <6>3. Cardinality(Rows(p)) \in Nat /\ Cardinality(Accepted(p)) \in Nat
            BY Sizes
          <6>4. QED
            BY <6>1, <6>2, <6>3
        <5>2. QED
          BY <2>1, <2>2, <3>1, <5>1, RowsKept DEF Coming, Exact
      <4>6. QED
        BY <2>4, <4>2, <4>3, <4>4, <4>5 DEF Coming
    <3>2. CASE p # ProblemOf[w]
      BY <2>1, <2>2, <2>3, <2>4, <3>2, RowsKept DEF Coming, Exact
    <3>3. QED
      BY <3>1, <3>2
  <2>5. QED
    BY <2>1, <2>4 DEF Fresh
<1>7. ASSUME NEW s \in Submissions, CountComplexity(s) \/ FindNoStats(s) \/ CreateStats(s)
      PROVE  Fresh'
  BY <1>7, NothingCounted DEF CountComplexity, FindNoStats, CreateStats, Go, TypeOK, Writers
<1>8. ASSUME Fault PROVE Fresh'
  BY <1>8 DEF Fault, Fresh, TypeOK
<1>9. CASE UNCHANGED vars
  BY <1>9, NothingCounted DEF vars
<1>10. QED
  BY <1>1, <1>2, <1>3, <1>4, <1>5, <1>6, <1>7, <1>8, <1>9
     DEF Next, Rating, Complexity, DecideFails, RateFails, ComplexityFails, Crash

\* Once all submissions of a problem are judged and counted and nothing failed,
\* its stored rate is exact, unless a smaller count was put back over a larger.
THEOREM ExactAtRest == Spec => []RateIsExactAtRest
<1>1. Init => Behind /\ Fresh
  <2> SUFFICES ASSUME Init PROVE Behind /\ Fresh
    OBVIOUS
  <2>1. \A p : Cardinality(Rows(p)) = 0 /\ Cardinality(Accepted(p)) = 0
    BY FS_EmptySet DEF Init, Rows, Accepted
  <2>2. QED
    BY <2>1, WriterProblem DEF Init, Behind, Fresh, Coming, Exact
<1>2. TypeOK /\ Fresh => RateIsExactAtRest
  <2> SUFFICES ASSUME TypeOK, Fresh, NEW p \in Problems \ lowered, Settled(p)
               PROVE  rate[p] = [accepted |-> Cardinality(Accepted(p)),
                                 total |-> Cardinality(Rows(p))]
    BY DEF RateIsExactAtRest
  <2>1. Exact(p)
    BY DEF Settled, Busy, Waiting, Fresh, Coming, UpToDate
  <2>2. rate[p] \in [accepted : Nat, total : Nat]
    BY DEF TypeOK
  <2>3. QED
    BY <2>1, <2>2 DEF Exact
<1>3. QED
  BY <1>1, <1>2, TypeCorrect, StepBehind, StepFresh, PTL DEF Spec

-----------------------------------------------------------------------------
(* The complexity counters *)

\* in assigns to each acceptance of C the document of p that counts it.
Tallied(p, C, in) ==
  /\ C \subseteq Ended(p)
  /\ faults = 0 => C = Ended(p)
  /\ in \in [C -> StatsOf(p)]
  /\ \A d \in StatsOf(p) : stats[d] = Cardinality({s \in C : in[s] = d})

\* Only the goroutine of an analysed acceptance comes to the counters, and only
\* one that has created a document has one.
Counting ==
  /\ \A p \in Problems : \E C, in : Tallied(p, C, in)
  /\ \A w \in Writers : pc[w] \in {"complexity", "create"} => w \in analysed
  /\ \A s \in Submissions : stats[s] > 0 => pc[s] = "done"

\* A step in which nobody who had ended is undone, and somebody new ends only
\* by a failure, leaves the tally alone.
LEMMA TallyKept ==
  ASSUME UNCHANGED stats, faults' = 0 => faults = 0,
         NEW p, Ended(p) \subseteq Ended(p)', faults' = 0 => Ended(p)' = Ended(p),
         \E C, in : Tallied(p, C, in)
  PROVE  \E C, in : Tallied(p, C, in)'
  BY DEF Tallied, StatsOf

\* s ends, and adds one to document d of its problem, which may be new.
LEMMA TallyOneMore ==
  ASSUME TypeOK, Counting, NEW s \in analysed, NEW d \in Submissions,
         pc[s] # "done", UNCHANGED analysed, pc' = [pc EXCEPT ![s] = "done"],
         stats' = [stats EXCEPT ![d] = @ + 1], ProblemOf[d] = ProblemOf[s],
         faults' = 0 => faults = 0
  PROVE  \A p \in Problems : \E C, in : Tallied(p, C, in)'
<1>1. s \in Submissions /\ s \in Writers /\ ProblemOf[s] \in Problems
  BY StatsAssumption DEF TypeOK, Writers, StatsAssumption
<1>2. \A t \in Submissions : t \in Writers /\ stats[t] \in Nat
  BY DEF TypeOK, Writers
<1>3. \A t \in analysed : t \in Submissions
  BY DEF TypeOK
<1>4. /\ pc'[s] = "done"
      /\ \A t \in Submissions : t # s => pc'[t] = pc[t]
      /\ stats'[d] = stats[d] + 1
      /\ \A t \in Submissions : t # d => stats'[t] = stats[t]
  BY <1>1, <1>2 DEF TypeOK
<1>5. ASSUME NEW p \in Problems, p # ProblemOf[s] PROVE \E C, in : Tallied(p, C, in)'
  <2>1. Ended(p)' = Ended(p)
    BY <1>3, <1>4, <1>5 DEF Ended
  <2>2. StatsOf(p)' = StatsOf(p)
    BY <1>4, <1>5 DEF StatsOf
  <2>3. \A t \in StatsOf(p) : stats'[t] = stats[t]
    BY <1>4, <1>5 DEF StatsOf
  <2>4. PICK C, in : Tallied(p, C, in)
    BY DEF Counting
  <2>5. Tallied(p, C, in)'
    BY <2>1, <2>2, <2>3, <2>4 DEF Tallied
  <2>6. QED
    BY <2>5
<1>6. ASSUME NEW p \in Problems, p = ProblemOf[s] PROVE \E C, in : Tallied(p, C, in)'
  <2>1. Ended(p)' = Ended(p) \cup {s} /\ s \notin Ended(p)
    BY <1>1, <1>3, <1>4, <1>6 DEF Ended
  <2>2. StatsOf(p)' = StatsOf(p) \cup {d}
    BY <1>2, <1>4, <1>6 DEF StatsOf
  <2>3. PICK C, in : Tallied(p, C, in)
    BY DEF Counting
  <2> DEFINE D == C \cup {s}
             at == [t \in D |-> IF t = s THEN d ELSE in[t]]
             Of(e) == {t \in C : in[t] = e}
  <2>4. C \subseteq Ended(p) /\ s \notin C /\ in \in [C -> StatsOf(p)]
    BY <2>1, <2>3 DEF Tallied
  <2>5. IsFiniteSet(C)
    <3>1. C \subseteq Submissions
      BY <1>3, <2>4 DEF Ended
    <3>2. QED
      BY <3>1, FS_Subset, StatsAssumption DEF StatsAssumption
  <2>6. \A e \in Submissions : ProblemOf[e] = p => stats[e] = Cardinality(Of(e))
    <3> SUFFICES ASSUME NEW e \in Submissions, ProblemOf[e] = p
                 PROVE  stats[e] = Cardinality(Of(e))
      OBVIOUS
    <3>1. CASE e \in StatsOf(p)
      BY <2>3, <3>1 DEF Tallied
    <3>2. CASE e \notin StatsOf(p)
      <4>1. stats[e] = 0
        BY <1>2, <3>2 DEF StatsOf
      <4>2. Of(e) = {}
        BY <2>4, <3>2
      <4>3. QED
        BY <4>1, <4>2, FS_EmptySet
    <3>3. QED
      BY <3>1, <3>2
  <2>7. at \in [D -> StatsOf(p)']
    BY <2>2, <2>4
  <2>8. \A e \in StatsOf(p)' : stats'[e] = Cardinality({t \in D : at[t] = e})
    <3> SUFFICES ASSUME NEW e \in StatsOf(p)'
                 PROVE  stats'[e] = Cardinality({t \in D : at[t] = e})
      OBVIOUS
    <3>1. e \in Submissions /\ ProblemOf[e] = p
      BY DEF StatsOf
    <3>2. CASE e = d
      <4>1. {t \in D : at[t] = e} = Of(d) \cup {s} /\ s \notin Of(d)
        BY <2>4, <3>2
      <4>2. IsFiniteSet(Of(d))
        <5>1. Of(d) \subseteq C
          OBVIOUS
        <5>2. QED
          BY <2>5, <5>1, FS_Subset
      <4>3. Cardinality(Of(d) \cup {s}) = Cardinality(Of(d)) + 1
        BY <4>1, <4>2, FS_AddElement
      <4>4. stats[d] = Cardinality(Of(d))
        BY <2>6, <3>1, <3>2
      <4>5. QED
        BY <1>4, <3>2, <4>1, <4>3, <4>4
    <3>3. CASE e # d
      <4>1. {t \in D : at[t] = e} = Of(e)
        BY <2>4, <3>3
      <4>2. stats'[e] = stats[e] /\ stats[e] = Cardinality(Of(e))
        BY <1>4, <2>6, <3>1, <3>3
      <4>3. QED
        BY <4>1, <4>2
    <3>4. QED
      BY <3>2, <3>3
  <2>9. D \subseteq Ended(p)' /\ (faults' = 0 => D = Ended(p)')
    BY <2>1, <2>3 DEF Tallied
  <2> HIDE DEF D, at
  <2>10. Tallied(p, D, at)'
    BY <2>7, <2>8, <2>9 DEF Tallied
  <2>11. QED
    BY <2>10
<1>7. QED
  BY <1>5, <1>6

\* What a step outside updateProblemStats does to its goroutines.
LEMMA TallyElsewhere ==
  ASSUME TypeOK, Counting,
         \/ \E s \in Submissions : Insert(s) \/ Decide(s) \/ DecideFails(s)
         \/ \E l \in Listings : List(l)
         \/ \E w \in Writers : Rating(w)
         \/ Crash
  PROVE  Counting'
<1>1. \A s \in analysed : s \in Submissions /\ s \in Writers
  BY DEF TypeOK, Writers
<1>2. /\ stats' = stats /\ faults \in Nat
      /\ faults' = faults \/ Fault
  BY DEF Insert, Decide, DecideFails, List, Rating, CountTotal, CountAccepted, WriteRate,
     RateFails, StoreRate, Crash, TypeOK
<1>3. faults' = 0 => faults = 0 /\ faults' = faults
  BY <1>2 DEF Fault
<1>4. analysed \subseteq analysed'
  BY DEF Insert, Decide, DecideFails, StoreVerdict, List, Rating, CountTotal,
     CountAccepted, WriteRate, RateFails, StoreRate, Crash
<1>5. \A w \in Writers :
        /\ pc[w] = "done" => pc'[w] = "done"
        /\ pc'[w] \in {"complexity", "create"} =>
             \/ pc'[w] = pc[w]
             \/ pc'[w] = Rest(w)
  BY DEF Insert, Decide, DecideFails, List, Rating, CountTotal, CountAccepted, WriteRate,
     RateFails, StoreRate, Crash, Go, TypeOK
<1>6. \A s \in analysed' : pc'[s] = "done" /\ faults' = faults =>
        s \in analysed /\ pc[s] = "done"
  <2>1. ASSUME NEW s \in Submissions, Insert(s), NEW t \in analysed', pc'[t] = "done"
        PROVE  t \in analysed /\ pc[t] = "done"
    BY <2>1 DEF Insert
  <2>2. ASSUME NEW s \in Submissions, Decide(s), NEW t \in analysed', pc'[t] = "done"
        PROVE  t \in analysed /\ pc[t] = "done"
    BY <1>1, <2>2 DEF Decide, StoreVerdict, Go, TypeOK, Writers
  <2>3. ASSUME NEW w \in Writers,
               List(w) \/ CountTotal(w) \/ CountAccepted(w) \/ WriteRate(w),
               NEW t \in analysed', pc'[t] = "done"
        PROVE  t \in analysed /\ pc[t] = "done"
    BY <1>1, <2>3 DEF List, CountTotal, CountAccepted, WriteRate, StoreRate, Go, Rest, TypeOK
  <2>4. CASE Fault
    BY <1>2, <2>4 DEF Fault
  <2>5. QED
    BY <2>1, <2>2, <2>3, <2>4 DEF DecideFails, Rating, RateFails, Crash, Writers
<1>7. \A p : Ended(p) \subseteq Ended(p)' /\ (faults' = 0 => Ended(p)' = Ended(p))
  BY <1>1, <1>3, <1>4, <1>5, <1>6 DEF Ended
<1>8. \A p \in Problems : \E C, in : Tallied(p, C, in)'
  BY <1>2, <1>3, <1>7, TallyKept DEF Counting
<1>9. \A w \in Writers : pc'[w] \in {"complexity", "create"} => w \in analysed'
  BY <1>4, <1>5 DEF Counting, Rest
<1>10. \A s \in Submissions : stats'[s] > 0 => pc'[s] = "done"
  BY <1>2, <1>5 DEF Counting, Writers
<1>11. QED
  BY <1>8, <1>9, <1>10 DEF Counting

\* What updateProblemStats does to the tally: each call adds its own acceptance.
LEMMA TallyComplexity ==
  ASSUME TypeOK, Counting, NEW s \in Submissions, Complexity(s)
  PROVE  Counting'
<1>1. s \in Writers /\ faults \in Nat /\ \A t \in Submissions : t \in Writers /\ stats[t] \in Nat
  BY DEF Writers, TypeOK
<1>2. pc[s] \in {"complexity", "create"} /\ s \in analysed /\ pc[s] # "done"
  BY <1>1 DEF Complexity, CountComplexity, FindNoStats, CreateStats, ComplexityFails, Go,
     Counting
<1>3. analysed' = analysed /\ (faults' = 0 => faults = 0)
  BY <1>1 DEF Complexity, CountComplexity, FindNoStats, CreateStats, ComplexityFails, Fault
<1>4. ~(stats[s] > 0)
  BY <1>2 DEF Counting
<1>5. CASE FindNoStats(s)
  <2>1. pc' = [pc EXCEPT ![s] = "create"] /\ UNCHANGED <<stats, faults>>
    BY <1>5 DEF FindNoStats, Go
  <2>2. \A t \in analysed : t \in Writers
    BY DEF TypeOK, Writers
  <2>3. \A p : Ended(p)' = Ended(p)
    BY <1>1, <1>2, <1>3, <2>1, <2>2 DEF Ended, TypeOK
  <2>4. \A p \in Problems : \E C, in : Tallied(p, C, in)'
    BY <1>3, <2>1, <2>3, TallyKept DEF Counting
  <2>5. \A w \in Writers : pc'[w] \in {"complexity", "create"} => w \in analysed'
    BY <1>1, <1>2, <1>3, <2>1 DEF Counting, TypeOK
  <2>6. \A t \in Submissions : stats'[t] > 0 => pc'[t] = "done"
    BY <1>1, <1>4, <2>1 DEF Counting, TypeOK
  <2>7. QED
    BY <2>4, <2>5, <2>6 DEF Counting
<1>6. ASSUME pc' = [pc EXCEPT ![s] = "done"],
             \/ UNCHANGED stats /\ faults' # 0
             \/ Increment(s)
             \/ stats' = [stats EXCEPT ![s] = 1]
      PROVE  Counting'
  <2>1. /\ pc'[s] = "done"
        /\ \A w \in Writers : w # s => pc'[w] = pc[w]
    BY <1>1, <1>6 DEF TypeOK
  <2>2. \A w \in Writers : pc'[w] \in {"complexity", "create"} => w \in analysed'
    BY <1>3, <2>1 DEF Counting
  <2>3. CASE UNCHANGED stats /\ faults' # 0
    <3>1. \A p : Ended(p) \subseteq Ended(p)'
      BY <1>1, <1>3, <2>1 DEF Ended, TypeOK
    <3>2. \A p \in Problems : \E C, in : Tallied(p, C, in)'
      BY <2>3, <3>1, <1>3, TallyKept DEF Counting
    <3>3. \A t \in Submissions : stats'[t] > 0 => pc'[t] = "done"
      BY <1>1, <2>1, <2>3 DEF Counting
    <3>4. QED
      BY <2>2, <3>2, <3>3 DEF Counting
  <2>4. CASE Increment(s)
    <3>1. PICK d \in StatsOf(ProblemOf[s]) : stats' = [stats EXCEPT ![d] = @ + 1]
      BY <2>4 DEF Increment
    <3>2. d \in Submissions /\ ProblemOf[d] = ProblemOf[s] /\ stats[d] > 0
      BY DEF StatsOf
    <3>3. \A p \in Problems : \E C, in : Tallied(p, C, in)'
      BY <1>2, <1>3, <1>6, <3>1, <3>2, TallyOneMore
    <3>4. \A t \in Submissions : stats'[t] > 0 => pc'[t] = "done"
      BY <1>1, <2>1, <3>1, <3>2 DEF Counting, TypeOK
    <3>5. QED
      BY <2>2, <3>3, <3>4 DEF Counting
  <2>5. CASE stats' = [stats EXCEPT ![s] = 1]
    <3>1. stats' = [stats EXCEPT ![s] = @ + 1]
      <4>1. stats[s] + 1 = 1
        BY <1>1, <1>4
      <4>2. QED
        BY <2>5, <4>1
    <3>2. \A p \in Problems : \E C, in : Tallied(p, C, in)'
      BY <1>2, <1>3, <1>6, <3>1, TallyOneMore
    <3>3. \A t \in Submissions : stats'[t] > 0 => pc'[t] = "done"
      BY <1>1, <2>1, <2>5 DEF Counting, TypeOK
    <3>4. QED
      BY <2>2, <3>2, <3>3 DEF Counting
  <2>6. QED
    BY <1>6, <2>3, <2>4, <2>5
<1>7. CASE CountComplexity(s) \/ CreateStats(s) \/ ComplexityFails(s)
  <2>1. /\ pc' = [pc EXCEPT ![s] = "done"]
        /\ \/ UNCHANGED stats /\ Fault
           \/ Increment(s)
           \/ stats' = [stats EXCEPT ![s] = 1]
    BY <1>7 DEF CountComplexity, CreateStats, ComplexityFails, Go
  <2>2. Fault => faults' # 0
    BY <1>1 DEF Fault
  <2>3. QED
    BY <1>6, <2>1, <2>2
<1>8. QED
  BY <1>5, <1>7 DEF Complexity

-----------------------------------------------------------------------------
(* One document *)

Creating(p) == {s \in Submissions : ProblemOf[s] = p /\ pc[s] = "create"}

\* Of a problem outside twice, nobody creates a document when there is one, and
\* no two create one.
Single ==
  \A p \in Problems \ twice :
    /\ \A d, e \in StatsOf(p) : d = e
    /\ Creating(p) # {} => StatsOf(p) = {}
    /\ \A s, t \in Creating(p) : s = t

\* A step that creates no document and sends nobody to create one leaves it so.
LEMMA SingleKept ==
  ASSUME TypeOK, Single, twice' = twice,
         \A p \in Problems : StatsOf(p)' = StatsOf(p) /\ Creating(p)' \subseteq Creating(p)
  PROVE  Single'
  BY DEF Single

\* Every step keeps the documents single.
LEMMA StepSingle == TypeOK /\ Single /\ [Next]_vars => Single'
<1> SUFFICES ASSUME TypeOK, Single, [Next]_vars PROVE Single'
  OBVIOUS
<1>0. \A s \in Submissions : s \in Writers /\ stats[s] \in Nat
  BY DEF TypeOK, Writers
<1>1. CASE /\ UNCHANGED <<stats, twice>>
           /\ \A s \in Submissions : pc'[s] = "create" => pc[s] = "create"
  BY <1>1, SingleKept DEF StatsOf, Creating
<1>2. ASSUME NEW s \in Submissions, Increment(s), UNCHANGED twice,
             pc' = [pc EXCEPT ![s] = "done"]
      PROVE  Single'
  <2>1. PICK d \in StatsOf(ProblemOf[s]) : stats' = [stats EXCEPT ![d] = @ + 1]
    BY <1>2 DEF Increment
  <2>2. \A p : StatsOf(p)' = StatsOf(p)
    BY <1>0, <2>1 DEF StatsOf, TypeOK
  <2>3. \A p : Creating(p)' \subseteq Creating(p)
    BY <1>0, <1>2 DEF Creating, TypeOK
  <2>4. QED
    BY <1>2, <2>2, <2>3, SingleKept
<1>3. ASSUME NEW s \in Submissions, pc[s] = "create", stats' = [stats EXCEPT ![s] = 1],
             UNCHANGED twice, pc' = [pc EXCEPT ![s] = "done"]
      PROVE  Single'
  <2>1. \A p : Creating(p)' = Creating(p) \ {s}
    BY <1>0, <1>3 DEF Creating, TypeOK
  <2>2. \A p : p # ProblemOf[s] => StatsOf(p)' = StatsOf(p)
    BY <1>0, <1>3 DEF StatsOf, TypeOK
  <2>3. s \in Creating(ProblemOf[s])
    BY <1>3 DEF Creating
  <2>4. StatsOf(ProblemOf[s])' = StatsOf(ProblemOf[s]) \cup {s}
    BY <1>0, <1>3 DEF StatsOf, TypeOK
  <2>5. ASSUME NEW p \in Problems \ twice
        PROVE  /\ \A d, e \in StatsOf(p)' : d = e
               /\ Creating(p)' # {} => StatsOf(p)' = {}
               /\ \A t, u \in Creating(p)' : t = u
    <3>1. CASE p = ProblemOf[s]
      BY <2>1, <2>3, <2>4, <3>1 DEF Single
    <3>2. CASE p # ProblemOf[s]
      BY <2>1, <2>2, <3>2 DEF Single
    <3>3. QED
      BY <3>1, <3>2
  <2>6. QED
    BY <1>3, <2>5 DEF Single
<1>4. ASSUME NEW s \in Submissions, FindNoStats(s) PROVE Single'
  <2>1. /\ pc' = [pc EXCEPT ![s] = "create"] /\ stats' = stats
        /\ StatsOf(ProblemOf[s]) = {}
        /\ twice \subseteq twice'
        /\ Creating(ProblemOf[s]) # {} => ProblemOf[s] \in twice'
    BY <1>4 DEF FindNoStats, Go, Creating
  <2>2. \A p : StatsOf(p)' = StatsOf(p)
    BY <2>1 DEF StatsOf
  <2>3. /\ \A p : p # ProblemOf[s] => Creating(p)' = Creating(p)
        /\ Creating(ProblemOf[s])' = Creating(ProblemOf[s]) \cup {s}
    BY <1>0, <2>1 DEF Creating, TypeOK
  <2>4. ASSUME NEW p \in Problems \ twice'
        PROVE  /\ \A d, e \in StatsOf(p)' : d = e
               /\ Creating(p)' # {} => StatsOf(p)' = {}
               /\ \A t, u \in Creating(p)' : t = u
    BY <2>1, <2>2, <2>3, <2>4 DEF Single
  <2>5. QED
    BY <2>4 DEF Single
<1>5. ASSUME NEW s \in Submissions, CountComplexity(s) \/ CreateStats(s) \/ ComplexityFails(s)
      PROVE  Single'
  <2>1. /\ pc' = [pc EXCEPT ![s] = "done"] /\ twice' = twice
        /\ \/ UNCHANGED stats
           \/ Increment(s)
           \/ pc[s] = "create" /\ stats' = [stats EXCEPT ![s] = 1]
    BY <1>5 DEF CountComplexity, CreateStats, ComplexityFails, Go
  <2>2. CASE UNCHANGED stats
    <3>1. \A t \in Submissions : pc'[t] = "create" => pc[t] = "create"
      BY <1>0, <2>1 DEF TypeOK
    <3>2. QED
      BY <1>1, <2>1, <2>2, <3>1
  <2>3. QED
    BY <1>2, <1>3, <2>1, <2>2
<1>6. ASSUME NEW w \in Writers, Rating(w) PROVE Single'
  <2>1. UNCHANGED <<stats, twice>>
    BY <1>6 DEF Rating, CountTotal, CountAccepted, WriteRate, RateFails, StoreRate
  <2>2. \A s \in Submissions : pc'[s] = "create" => pc[s] = "create"
    BY <1>0, <1>6 DEF Rating, CountTotal, CountAccepted, WriteRate, RateFails, StoreRate,
       Go, Rest, TypeOK
  <2>3. QED
    BY <1>1, <2>1, <2>2
<1>7. ASSUME NEW s \in Submissions, Insert(s) \/ Decide(s) \/ DecideFails(s) PROVE Single'
  BY <1>0, <1>1, <1>7 DEF Insert, Decide, DecideFails, Go, TypeOK
<1>8. ASSUME NEW l \in Listings, List(l) PROVE Single'
  BY <1>0, <1>1, <1>8 DEF List, Go, TypeOK, Writers
<1>9. ASSUME Crash PROVE Single'
  BY <1>0, <1>1, <1>9 DEF Crash
<1>10. CASE UNCHANGED vars
  BY <1>1, <1>10 DEF vars
<1>11. QED
  BY <1>4, <1>5, <1>6, <1>7, <1>8, <1>9, <1>10 DEF Next, Complexity

\* The documents of a problem count each analysed acceptance once when nothing
\* fails and never more than once, and there is one document unless two
\* goroutines created the first one at the same time.
THEOREM Counters == Spec => []CountersExact
<1>1. Init => Counting /\ Single
  <2> SUFFICES ASSUME Init PROVE Counting /\ Single
    OBVIOUS
  <2>1. \A p : Ended(p) = {} /\ StatsOf(p) = {} /\ Creating(p) = {}
    BY DEF Init, Ended, StatsOf, Creating, Writers
  <2>2. ASSUME NEW p PROVE \E C, in : Tallied(p, C, in)
    <3> DEFINE in == [s \in {} |-> s]
    <3>1. in \in [{} -> StatsOf(p)]
      OBVIOUS
    <3>2. Tallied(p, {}, in)
      BY <2>1, <3>1 DEF Tallied
    <3>3. QED
      BY <3>2
  <2>3. /\ \A w \in Writers : pc[w] = "idle"
        /\ \A s \in Submissions : ~(stats[s] > 0)
    BY DEF Init
  <2>4. Counting
    BY <2>2, <2>3 DEF Counting
  <2>5. Single
    BY <2>1 DEF Single
  <2>6. QED
    BY <2>4, <2>5
<1>2. TypeOK /\ Counting /\ [Next]_vars => Counting'
  <2>1. UNCHANGED vars /\ Counting => Counting'
    BY DEF vars, Counting, Tallied, Ended, StatsOf
  <2>2. QED
    BY <2>1, TallyElsewhere, TallyComplexity DEF Next
<1>3. Counting /\ Single => CountersExact
  <2> SUFFICES ASSUME Counting, Single, NEW p \in Problems
               PROVE  /\ \E C \in SUBSET Ended(p) :
                           /\ faults = 0 => C = Ended(p)
                           /\ \E in \in [C -> StatsOf(p)] :
                                \A d \in StatsOf(p) :
                                  stats[d] = Cardinality({s \in C : in[s] = d})
                      /\ p \notin twice => \A d, e \in StatsOf(p) : d = e
    BY DEF CountersExact
  <2>1. PICK C, in : Tallied(p, C, in)
    BY DEF Counting
  <2>2. QED
    BY <2>1 DEF Tallied, Single
<1>4. QED
  BY <1>1, <1>2, <1>3, TypeCorrect, StepSingle, PTL DEF Spec
=============================================================================
