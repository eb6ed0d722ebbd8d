---------------------------- MODULE ProblemStats ----------------------------
(***************************************************************************)
(* The statistics of a problem: its acceptance rate (problems) and its     *)
(* complexity counters (problem_stats).                                    *)
(*                                                                         *)
(* updateSubmissionStatus, once it has stored a verdict, starts a          *)
(* goroutine that counts the rows of the problem, counts the accepted      *)
(* ones, stores the quotient, and then, for an accepted submission with a  *)
(* complexity analysis, increments the counters.  An update that reports   *)
(* an error starts none, even if it took effect.  Judgements follow each   *)
(* other without waiting for these goroutines, so several of them run at   *)
(* once.  GetProblemsHandler does the same counting and storing for a      *)
(* problem whose stored rate is zero.                                      *)
(*                                                                         *)
(* The counters are in a document found by problem_id and created by the   *)
(* first upsert; problem_id has no unique index (mongodb.go:54-63), so     *)
(* that two first upserts at once create two documents.                    *)
(*                                                                         *)
(* The rate is kept as the two numbers it is the quotient of.  Rows are    *)
(* never deleted, so the branch for a total of zero is left to readers of  *)
(* a problem without rows, whose quotient is 0 of 0.                       *)
(***************************************************************************)
EXTENDS Naturals, FiniteSets

CONSTANTS
  Submissions,
  Listings,    \* requests for the problem list, one per problem they show
  Problems,
  ProblemOf,   \* the problem of a submission or of a listing
  MaxFaults    \* bound on failing database calls and crashes

Writers == Submissions \cup Listings

ASSUME StatsAssumption ==
  /\ IsFiniteSet(Submissions)
  /\ Submissions \cap Listings = {}
  /\ ProblemOf \in [Writers -> Problems]
  /\ MaxFaults \in Nat

VARIABLES
  row,       \* database: the status of each submission
  analysed,  \* accepted submissions with both complexities
  pc,        \* where the goroutine or the listing is
  total,     \* its totalCount
  accepted,  \* its acceptedCount
  rate,      \* database: acceptance_rate of each problem
  stats,     \* database: total_accepted_submissions in the document that the
             \* goroutine of a submission created, 0 if it created none
  faults,    \* calls that failed and crashes so far
  lowered,   \* auxiliary: problems whose rate was replaced by smaller counts
  twice      \* auxiliary: problems two goroutines created a document for at once

counts == <<total, accepted>>
vars == <<row, analysed, pc, counts, rate, stats, faults, lowered, twice>>

TypeOK ==
  /\ row \in [Submissions -> {"none", "PENDING", "ACCEPTED", "REJECTED"}]
  /\ analysed \subseteq Submissions
  /\ pc \in [Writers -> {"idle", "total", "accepted", "write", "complexity", "create", "done"}]
  /\ total \in [Writers -> Nat]
  /\ accepted \in [Writers -> Nat]
  /\ rate \in [Problems -> [accepted : Nat, total : Nat]]
  /\ stats \in [Submissions -> Nat]
  /\ faults \in Nat
  /\ lowered \subseteq Problems
  /\ twice \subseteq Problems

Init ==
  /\ row = [s \in Submissions |-> "none"]
  /\ analysed = {}
  /\ pc = [w \in Writers |-> "idle"]
  /\ total = [w \in Writers |-> 0]
  /\ accepted = [w \in Writers |-> 0]
  /\ rate = [p \in Problems |-> [accepted |-> 0, total |-> 0]]
  /\ stats = [s \in Submissions |-> 0]
  /\ faults = 0
  /\ lowered = {}
  /\ twice = {}

Rows(p) == {s \in Submissions : ProblemOf[s] = p /\ row[s] # "none"}
Accepted(p) == {s \in Rows(p) : row[s] = "ACCEPTED"}
Busy(p) == {w \in Writers : ProblemOf[w] = p /\ pc[w] \notin {"idle", "done"}}

Go(w, from, to) == pc[w] = from /\ pc' = [pc EXCEPT ![w] = to]
Fault == faults < MaxFaults /\ faults' = faults + 1

-----------------------------------------------------------------------------
(* Submissions arrive and are judged; JudgeQueue and Judging say how. *)

\* Mutant: the row is inserted without a status.
InsertNoStatus(s) ==
  /\ row[s] = "none"
  /\ row' = [row EXCEPT ![s] = ""]
  /\ UNCHANGED <<analysed, pc, counts, rate, stats, faults, lowered, twice>>

Insert(s) ==
  /\ row[s] = "none"
  /\ row' = [row EXCEPT ![s] = "PENDING"]
  /\ UNCHANGED <<analysed, pc, counts, rate, stats, faults, lowered, twice>>

\* The verdict reaches the row, with both complexities or without.
StoreVerdict(s) ==
  \E v \in {"ACCEPTED", "REJECTED"} :
    /\ row' = [row EXCEPT ![s] = v]
    /\ analysed' \in {analysed} \cup (IF v = "ACCEPTED" THEN {analysed \cup {s}} ELSE {})

\* Mutant: only an accepted submission updates the statistics.
DecideAcceptedOnly(s) ==
  /\ row[s] = "PENDING"
  /\ StoreVerdict(s)
  /\ Go(s, "idle", IF row'[s] = "ACCEPTED" THEN "total" ELSE "done")
  /\ UNCHANGED <<counts, rate, stats, faults, lowered, twice>>

\* The UpdateOne of updateSubmissionStatus, and its go statement.
Decide(s) ==
  /\ row[s] = "PENDING"
  /\ StoreVerdict(s)
  /\ Go(s, "idle", "total")
  /\ UNCHANGED <<counts, rate, stats, faults, lowered, twice>>

\* FindOne or UpdateOne reports an error: it returns before the go statement,
\* also when the update has taken effect.
DecideFails(s) ==
  /\ Fault
  /\ row[s] = "PENDING"
  /\ StoreVerdict(s) \/ UNCHANGED <<row, analysed>>
  /\ Go(s, "idle", "done")
  /\ UNCHANGED <<counts, rate, stats, lowered, twice>>

\* GetProblemsHandler comes to a problem whose stored rate is not positive.
List(l) ==
  /\ rate[ProblemOf[l]].accepted = 0
  /\ Go(l, "idle", "total")
  /\ UNCHANGED <<row, analysed, counts, rate, stats, faults, lowered, twice>>

-----------------------------------------------------------------------------
(* CalculateAcceptanceRate and the update after it *)

CountTotal(w) ==
  /\ Go(w, "total", "accepted")
  /\ total' = [total EXCEPT ![w] = Cardinality(Rows(ProblemOf[w]))]
  /\ UNCHANGED <<row, analysed, accepted, rate, stats, faults, lowered, twice>>

CountAccepted(w) ==
  /\ Go(w, "accepted", "write")
  /\ accepted' = [accepted EXCEPT ![w] = Cardinality(Accepted(ProblemOf[w]))]
  /\ UNCHANGED <<row, analysed, total, rate, stats, faults, lowered, twice>>

\* Mutant: updateProblemStats whatever the verdict.
RestAlways(w) == "complexity"

\* updateProblemStats follows, for an analysed submission.
Rest(w) == IF w \in analysed THEN "complexity" ELSE "done"

\* Auxiliary: w read one of its counts before what is stored now was read.
Lowers(w) ==
  \/ total[w] < rate[ProblemOf[w]].total
  \/ accepted[w] < rate[ProblemOf[w]].accepted

StoreRate(w) ==
  /\ Go(w, "write", Rest(w))
  /\ rate' = [rate EXCEPT ![ProblemOf[w]] =
                [accepted |-> accepted[w], total |-> total[w]]]
  /\ lowered' = IF Lowers(w) THEN lowered \cup {ProblemOf[w]} ELSE lowered
  /\ UNCHANGED <<row, analysed, counts, stats, twice>>
WriteRate(w) == StoreRate(w) /\ UNCHANGED faults

\* A count or the update fails: logged, and the counters come next. An update
\* that is reported to fail may have taken effect.
RateFails(w) ==
  /\ Fault
  /\ \/ /\ pc[w] \in {"total", "accepted", "write"}
        /\ pc' = [pc EXCEPT ![w] = Rest(w)]
        /\ UNCHANGED <<row, analysed, counts, rate, stats, lowered, twice>>
     \/ StoreRate(w)

-----------------------------------------------------------------------------
(* updateProblemStats *)

StatsOf(p) == {s \in Submissions : ProblemOf[s] = p /\ stats[s] > 0}

\* $inc by 1 of the document the filter finds: atomic in the database.
Increment(s) ==
  \E d \in StatsOf(ProblemOf[s]) : stats' = [stats EXCEPT ![d] = @ + 1]

CountComplexity(s) ==
  /\ Go(s, "complexity", "done")
  /\ Increment(s)
  /\ UNCHANGED <<row, analysed, counts, rate, faults, lowered, twice>>

\* The upsert finds no document and is going to create one.
FindNoStats(s) ==
  /\ Go(s, "complexity", "create")
  /\ StatsOf(ProblemOf[s]) = {}
  /\ twice' = IF \E t \in Submissions : ProblemOf[t] = ProblemOf[s] /\ pc[t] = "create"
              THEN twice \cup {ProblemOf[s]} ELSE twice
  /\ UNCHANGED <<row, analysed, counts, rate, stats, faults, lowered>>

CreateStats(s) ==
  /\ Go(s, "create", "done")
  /\ stats' = [stats EXCEPT ![s] = 1]
  /\ UNCHANGED <<row, analysed, counts, rate, faults, lowered, twice>>

\* Logged; an upsert that is reported to fail may have taken effect.
ComplexityFails(s) ==
  /\ Fault
  /\ pc[s] \in {"complexity", "create"}
  /\ pc' = [pc EXCEPT ![s] = "done"]
  /\ \/ UNCHANGED stats
     \/ pc[s] = "complexity" /\ Increment(s)
     \/ pc[s] = "create" /\ stats' = [stats EXCEPT ![s] = 1]
  /\ UNCHANGED <<row, analysed, counts, rate, lowered, twice>>

\* The server dies: what its goroutines had still to do is not done later.
Crash ==
  /\ Fault
  /\ pc' = [w \in Writers |-> IF pc[w] = "idle" THEN "idle" ELSE "done"]
  /\ UNCHANGED <<row, analysed, counts, rate, stats, lowered, twice>>

Rating(w) ==
  \/ CountTotal(w)
  \/ CountAccepted(w)
  \/ WriteRate(w)
  \/ RateFails(w)

Complexity(s) ==
  \/ CountComplexity(s)
  \/ FindNoStats(s)
  \/ CreateStats(s)
  \/ ComplexityFails(s)

Next ==
  \/ \E s \in Submissions : Insert(s) \/ Decide(s) \/ DecideFails(s) \/ Complexity(s)
  \/ \E l \in Listings : List(l)
  \/ \E w \in Writers : Rating(w)
  \/ Crash

Spec == Init /\ [][Next]_vars

-----------------------------------------------------------------------------
(* Properties *)

Settled(p) ==
  /\ faults = 0
  /\ Busy(p) = {}
  /\ \A s \in Submissions : ProblemOf[s] = p => row[s] # "PENDING"

(***************************************************************************)
(* Once every submission of a problem has its verdict, all writers have    *)
(* ended and nothing failed, the stored rate is exact, however the writers *)
(* overlapped and whatever arrived or was judged between their two counts  *)
(* (submission.go:485-508): the writer of the last verdict has counted     *)
(* everything.  The one exception is a writer that puts back a smaller     *)
(* count after it.                                                         *)
(***************************************************************************)
RateIsExactAtRest ==
  \A p \in Problems \ lowered :
    Settled(p) =>
      rate[p] = [accepted |-> Cardinality(Accepted(p)), total |-> Cardinality(Rows(p))]

(***************************************************************************)
(* The documents of a problem between them count each analysed acceptance  *)
(* exactly once when nothing fails, whoever overlaps; each failure or      *)
(* crash loses at most the acceptances whose own goroutine it hit, and     *)
(* none is ever counted twice.  There is one document, the one a reader    *)
(* finds, unless two goroutines created the first one at the same time     *)
(* (submission.go:512-533).                                                *)
(***************************************************************************)
Ended(p) == {s \in analysed : ProblemOf[s] = p /\ pc[s] = "done"}
CountersExact ==
  \A p \in Problems :
    /\ \E C \in SUBSET Ended(p) :
         /\ faults = 0 => C = Ended(p)
         /\ \E in \in [C -> StatsOf(p)] :
              \A d \in StatsOf(p) : stats[d] = Cardinality({s \in C : in[s] = d})
    /\ p \notin twice => \A d, e \in StatsOf(p) : d = e

(***************************************************************************)
(* models/problem.go:21 calls the stored number the percentage of accepted *)
(* submissions.  The two counts are two queries: a submission that arrives *)
(* and is accepted between them is in the second only, and its own writer  *)
(* may store the right rate before the wrong one is stored.  Then more     *)
(* than 100 percent stay when everything is judged and counted.            *)
(***************************************************************************)
RateIsAPercentage ==
  \A p \in Problems : Settled(p) => rate[p].accepted <= rate[p].total
=============================================================================
