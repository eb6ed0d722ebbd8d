---------------------------- MODULE UserProgress ----------------------------
(***************************************************************************)
(* What one user's accepted submissions add to the user's progress: solved *)
(* problems for each skill (user_skills), daily check-ins (user_checkins)  *)
(* and streaks (user_stats).  All three are kept by user, and users share  *)
(* nothing.                                                                *)
(*                                                                         *)
(* processSubmission ends by starting a goroutine that, for an accepted    *)
(* submission, runs UpdateUserSkill and then recordCheckinInternal.  The   *)
(* next submission is judged meanwhile, so two of them may run at once.  A *)
(* submission accepted for want of test cases has no such goroutine.  The  *)
(* handler RecordCheckin would run recordCheckinInternal too, but answers  *)
(* 401 to everybody: it looks for the user under the string "userID", and  *)
(* the middleware stores it under a key of another type.                   *)
(* UpdateUserSkill reads the profile, counts the accepted submissions of   *)
(* the problem, and writes the whole profile back; the check-in looks for  *)
(* one of today, inserts one, reads all of them and stores two numbers.    *)
(*                                                                         *)
(* user_skills and user_stats are found by user_id, which has no unique    *)
(* index (mongodb.go:54-63): two first writes at once, or one and the      *)
(* insert of GetUserStats, make two documents.  The model has the one that *)
(* is found; what is written into the other is lost.                       *)
(*                                                                         *)
(* Left out: the counts by difficulty and the level, which are written     *)
(* together with problems_solved and computed from the same data.          *)
(***************************************************************************)
EXTENDS Naturals, FiniteSets, Sequences, FiniteSetsExt, Functions

CONSTANTS
  Submissions, \* submissions of the user
  Problems,
  ProblemOf,   \* the problem of each submission
  Skills,
  Tags,        \* the skills a problem is about
  MaxDay,      \* last day of the model
  MaxFaults    \* bound on failing calls and crashes

ASSUME ProgressAssumption ==
  /\ IsFiniteSet(Submissions)
  /\ IsFiniteSet(Problems)
  /\ ProblemOf \in [Submissions -> Problems]
  /\ Tags \in [Problems -> SUBSET Skills]
  /\ MaxDay \in Nat \ {0}
  /\ MaxFaults \in Nat

VARIABLES
  accepted,  \* database: submissions whose row says ACCEPTED
  untested,  \* those of them that were run on no test case
  pc,        \* where the goroutine of each submission is
  profile,   \* the profile it has read, and later is going to write
  solved,    \* database: problems_solved for each skill
  today,
  day,       \* the day it checks in for, 0 before it has read the clock
  computed,  \* the streaks it has computed from the check-ins it has read
  checkins,  \* database: the day of the check-in each goroutine inserted, or 0
  streak,    \* database: current_streak and max_streak
  faults,    \* failed calls and crashes so far
  crossed,   \* auxiliary: a goroutine started while another one ran
  doubled    \* auxiliary: GetUserStats inserted a second user_stats document

skills == <<profile, solved>>
calendar == <<day, computed, checkins, streak>>
rows == <<accepted, untested>>
vars == <<accepted, untested, pc, profile, solved, today, day, computed, checkins,
          streak, faults, crossed, doubled>>

SkillSteps == {"profile", "count", "save"}
CheckinSteps == {"day", "look", "insert", "read", "store"}

Streaks == [current : Nat, max : Nat]

TypeOK ==
  /\ accepted \subseteq Submissions
  /\ untested \subseteq accepted
  /\ pc \in [Submissions -> {"idle", "done"} \cup SkillSteps \cup CheckinSteps]
  /\ profile \in [Submissions -> [Skills -> Nat]]
  /\ solved \in [Skills -> Nat]
  /\ today \in 1 .. MaxDay
  /\ day \in [Submissions -> 0 .. MaxDay]
  /\ computed \in [Submissions -> Streaks]
  /\ checkins \in [Submissions -> 0 .. MaxDay]
  /\ streak \in Streaks
  /\ faults \in Nat
  /\ crossed \in BOOLEAN
  /\ doubled \in BOOLEAN

NoSkills == [k \in Skills |-> 0]
NoStreak == [current |-> 0, max |-> 0]

Init ==
  /\ accepted = {}
  /\ untested = {}
  /\ pc = [s \in Submissions |-> "idle"]
  /\ profile = [s \in Submissions |-> NoSkills]
  /\ solved = NoSkills
  /\ today = 1
  /\ day = [s \in Submissions |-> 0]
  /\ computed = [s \in Submissions |-> NoStreak]
  /\ checkins = [s \in Submissions |-> 0]
  /\ streak = NoStreak
  /\ faults = 0
  /\ crossed = FALSE
  /\ doubled = FALSE

Go(s, from, to) == pc[s] = from /\ pc' = [pc EXCEPT ![s] = to]
Running == {s \in Submissions : pc[s] \notin {"idle", "done"}}
Fault == faults < MaxFaults /\ faults' = faults + 1
SameProblem(s) == {t \in accepted : ProblemOf[t] = ProblemOf[s]}

-----------------------------------------------------------------------------
(* The judge, the clock, the server and other requests *)

\* A problem without tags leaves the profile alone.
FirstStep(s) == IF Tags[ProblemOf[s]] = {} THEN "day" ELSE "profile"
Start(s) == Go(s, "idle", FirstStep(s)) /\ crossed' = (crossed \/ Running # {})

\* The verdict is stored and the goroutine started.
Accept(s) ==
  /\ Start(s)
  /\ accepted' = accepted \cup {s}
  /\ UNCHANGED <<untested, skills, today, calendar, faults, doubled>>

\* No test cases yet (they are never removed): the row says ACCEPTED, and
\* processSubmission returns before it starts a goroutine.
AcceptByDefault(s) ==
  /\ Go(s, "idle", "done")
  /\ SameProblem(s) \subseteq untested
  /\ accepted' = accepted \cup {s}
  /\ untested' = untested \cup {s}
  /\ UNCHANGED <<skills, today, calendar, faults, crossed, doubled>>

\* updateSubmissionStatus fails; the goroutine is started all the same.
AcceptUnstored(s) ==
  /\ Fault
  /\ Start(s)
  /\ UNCHANGED <<rows, skills, today, calendar, doubled>>

\* GetUserStats has found no document and inserts one of zeros late: if there
\* is one by now, the new one may be the one that is found.
InsertStats ==
  /\ streak # NoStreak
  /\ streak' = NoStreak
  /\ doubled' = TRUE
  /\ UNCHANGED <<rows, pc, skills, today, day, computed, checkins, faults, crossed>>

Midnight ==
  /\ today < MaxDay
  /\ today' = today + 1
  /\ UNCHANGED <<rows, pc, skills, calendar, faults, crossed, doubled>>

Crash ==
  /\ Fault
  /\ pc' = [s \in Submissions |-> IF pc[s] = "idle" THEN "idle" ELSE "done"]
  /\ UNCHANGED <<rows, skills, today, calendar, crossed, doubled>>

-----------------------------------------------------------------------------
(* UpdateUserSkill *)

ReadProfile(s) ==
  /\ Go(s, "profile", "count")
  /\ profile' = [profile EXCEPT ![s] = solved]
  /\ UNCHANGED <<rows, solved, today, calendar, faults, crossed, doubled>>

\* Mutants: every acceptance counts; the count is compared with 0.
CountAlways(s) ==
  /\ Go(s, "count", "save")
  /\ profile' = [profile EXCEPT ![s] =
                   [k \in Skills |-> IF k \in Tags[ProblemOf[s]] THEN @[k] + 1 ELSE @[k]]]
  /\ UNCHANGED <<rows, solved, today, calendar, faults, crossed, doubled>>
CountNever(s) ==
  /\ Go(s, "count", "save")
  /\ UNCHANGED <<rows, skills, today, calendar, faults, crossed, doubled>>

\* The submission itself is among those counted, if its row was stored. With
\* another one the code takes the problem for counted.
CountAccepted(s) ==
  /\ Go(s, "count", "save")
  /\ profile' = IF Cardinality(SameProblem(s)) > 1 THEN profile
                ELSE [profile EXCEPT ![s] = [k \in Skills |->
                        IF k \in Tags[ProblemOf[s]] THEN @[k] + 1 ELSE @[k]]]
  /\ UNCHANGED <<rows, solved, today, calendar, faults, crossed, doubled>>

\* Where goroutines have overlapped a write may be one into a second document.
Lost(old) == IF crossed THEN {old} ELSE {}

\* What a goroutine has read is reset once it is of no use.
SaveProfile(s) ==
  /\ Go(s, "save", "day")
  /\ solved' \in {profile[s]} \cup Lost(solved)
  /\ profile' = [profile EXCEPT ![s] = NoSkills]
  /\ UNCHANGED <<rows, today, calendar, faults, crossed, doubled>>

\* Logged; the check-in is tried nevertheless, unless the problem could not be
\* read. A write that is reported to fail may have taken effect.
SkillsFail(s) ==
  /\ Fault
  /\ pc[s] \in SkillSteps
  /\ \E next \in {"day"} \cup (IF pc[s] = "profile" THEN {"done"} ELSE {}) :
       pc' = [pc EXCEPT ![s] = next]
  /\ solved' \in {solved} \cup (IF pc[s] = "save" THEN {profile[s]} ELSE {})
  /\ profile' = [profile EXCEPT ![s] = NoSkills]
  /\ UNCHANGED <<rows, today, calendar, crossed, doubled>>

-----------------------------------------------------------------------------
(* recordCheckinInternal *)

ReadDay(s) ==
  /\ Go(s, "day", "look")
  /\ day' = [day EXCEPT ![s] = today]
  /\ UNCHANGED <<rows, skills, today, computed, checkins, streak, faults, crossed, doubled>>

CheckedIn(d) == \E t \in Submissions : checkins[t] = d

\* Mutants: the test is left out; it looks for any check-in, of whatever day.
LookNowhere(s) ==
  /\ Go(s, "look", "insert")
  /\ UNCHANGED <<rows, skills, today, calendar, faults, crossed, doubled>>
LookAnyDay(s) ==
  /\ Go(s, "look", IF \E d \in 1 .. MaxDay : CheckedIn(d) THEN "done" ELSE "insert")
  /\ UNCHANGED <<rows, skills, today, calendar, faults, crossed, doubled>>

Look(s) ==
  /\ Go(s, "look", IF CheckedIn(day[s]) THEN "done" ELSE "insert")
  /\ UNCHANGED <<rows, skills, today, calendar, faults, crossed, doubled>>

\* Mutant: the date of a time zone ahead of UTC.
InsertCheckinAhead(s) ==
  /\ Go(s, "insert", "read")
  /\ checkins' = [checkins EXCEPT ![s] = day[s] + 1]
  /\ UNCHANGED <<rows, skills, today, day, computed, streak, faults, crossed, doubled>>

InsertCheckin(s) ==
  /\ Go(s, "insert", "read")
  /\ checkins' = [checkins EXCEPT ![s] = day[s]]
  /\ UNCHANGED <<rows, skills, today, day, computed, streak, faults, crossed, doubled>>

-----------------------------------------------------------------------------
(* UpdateUserStreak *)

\* The lists of days the database may answer with: a day as often as it has a
\* check-in, oldest first.
Sorted(c) ==
  LET found == {t \in DOMAIN c : c[t] > 0}
      orders == {o \in Bijection(1 .. Cardinality(found), found) :
                   \A i, j \in 1 .. Cardinality(found) : i < j => c[o[i]] <= c[o[j]]}
  IN {[i \in 1 .. Cardinality(found) |-> c[o[i]]] : o \in orders}

\* Elements i to j of d are consecutive days.
Consecutive(d, i, j) == \A k \in i .. j - 1 : d[k + 1] = d[k] + 1

\* Backwards from the newest, which must be of today or yesterday.
CurrentStreak(d, now) ==
  LET n == Len(d)
  IN IF n = 0 \/ d[n] + 1 < now THEN 0
     ELSE Max({k \in 1 .. n : Consecutive(d, n - k + 1, n)})

\* Mutant: the length of the whole list.
MaxStreakLength(d) == Len(d)

MaxStreak(d) ==
  Max({0} \cup {k \in 1 .. Len(d) :
                 \E i \in 1 .. Len(d) - k + 1 : Consecutive(d, i, i + k - 1)})

StreakOf(d) == [current |-> CurrentStreak(d, today), max |-> MaxStreak(d)]

\* Mutant: the check-ins are read before the insert.
ReadCheckinsEarly(s) ==
  /\ Go(s, "read", "store")
  /\ \E d \in Sorted([checkins EXCEPT ![s] = 0]) :
       computed' = [computed EXCEPT ![s] = StreakOf(d)]
  /\ UNCHANGED <<rows, skills, today, day, checkins, streak, faults, crossed, doubled>>

\* The clock is read next to the check-ins.
ReadCheckins(s) ==
  /\ Go(s, "read", "store")
  /\ \E d \in Sorted(checkins) : computed' = [computed EXCEPT ![s] = StreakOf(d)]
  /\ UNCHANGED <<rows, skills, today, day, checkins, streak, faults, crossed, doubled>>

StoreStreak(s) ==
  /\ Go(s, "store", "done")
  /\ streak' \in {computed[s]} \cup Lost(streak)
  /\ computed' = [computed EXCEPT ![s] = NoStreak]
  /\ UNCHANGED <<rows, skills, today, day, checkins, faults, crossed, doubled>>

\* The goroutine ends. A write that is reported to fail may have taken effect.
CheckinFails(s) ==
  /\ Fault
  /\ pc[s] \in CheckinSteps
  /\ pc' = [pc EXCEPT ![s] = "done"]
  /\ checkins' \in {checkins} \cup
       (IF pc[s] = "insert" THEN {[checkins EXCEPT ![s] = day[s]]} ELSE {})
  /\ streak' \in {streak} \cup (IF pc[s] = "store" THEN {computed[s]} ELSE {})
  /\ UNCHANGED <<rows, skills, today, day, computed, crossed, doubled>>

FollowUp(s) ==
  \/ ReadProfile(s)
  \/ CountAccepted(s)
  \/ SaveProfile(s)
  \/ SkillsFail(s)
  \/ ReadDay(s)
  \/ Look(s)
  \/ InsertCheckin(s)
  \/ ReadCheckins(s)
  \/ StoreStreak(s)
  \/ CheckinFails(s)

Next ==
  \/ \E s \in Submissions :
       \/ Accept(s)
       \/ AcceptByDefault(s)
       \/ AcceptUnstored(s)
       \/ FollowUp(s)
  \/ InsertStats
  \/ Midnight
  \/ Crash

Spec == Init /\ [][Next]_vars

-----------------------------------------------------------------------------
(* Properties *)

SolvedProblems(k) == {ProblemOf[s] : s \in {t \in accepted : k \in Tags[ProblemOf[t]]}}
Days == {checkins[s] : s \in Submissions} \ {0}
\* The longest run of consecutive days with a check-in.
LongestRun(D) ==
  Max({0} \cup {k \in 1 .. MaxDay : \E d \in D : d .. d + k - 1 \subseteq D})
AtRest == Running = {} /\ faults = 0 /\ ~crossed

(***************************************************************************)
(* A skill never counts more problems than the user has solved, however    *)
(* the goroutines interleave, as long as no call fails: of all submissions *)
(* to one problem at most one can find itself the only accepted one, and   *)
(* writing back an older profile only takes counts away                    *)
(* (user_skills.go:115, "to avoid double counting").  It needs the row to  *)
(* be stored: with two verdicts lost, the problem could be counted twice.  *)
(***************************************************************************)
NotCountedTwice ==
  faults = 0 => \A k \in Skills : solved[k] <= Cardinality(SolvedProblems(k))

(***************************************************************************)
(* If no goroutine started while an earlier one ran and none failed, each  *)
(* solved problem is counted once, but for those that were once accepted   *)
(* without test cases (submission.go:259-264): these are counted never,    *)
(* since a real acceptance then finds two rows (user_skills.go:134).  With *)
(* overlap any problem may be missed: both goroutines find two accepted    *)
(* submissions, or the second writes back a profile read too early.        *)
(***************************************************************************)
Untested == {ProblemOf[s] : s \in untested}
SolvedIsExact ==
  AtRest => \A k \in Skills : solved[k] = Cardinality(SolvedProblems(k) \ Untested)

(***************************************************************************)
(* Unless goroutines overlapped, a day has one check-in at most, even if   *)
(* calls fail, the server dies or midnight passes between the look and the *)
(* insert: both use the day read before.                                   *)
(***************************************************************************)
OneCheckinADay ==
  ~crossed => \A s, t \in Submissions : checkins[s] = checkins[t] /\ checkins[s] > 0 => s = t

(***************************************************************************)
(* With no failure, a goroutine that has ended leaves its day checked in,  *)
(* by itself or by another one, overlapping or not.                        *)
(***************************************************************************)
EndedIsCheckedIn ==
  faults = 0 =>
    \A s \in Submissions \ untested : pc[s] = "done" => CheckedIn(day[s])

(***************************************************************************)
(* The stored streaks never claim more days in a row than the check-ins    *)
(* hold, and the current streak is never longer than the longest one,      *)
(* although two goroutines may store them in the wrong order and a         *)
(* repeated day cuts a run in two.                                         *)
(***************************************************************************)
StreakIsBacked == streak.max <= LongestRun(Days) /\ streak.current <= streak.max

(***************************************************************************)
(* Unless goroutines overlapped, a call failed or the statistics page put  *)
(* a document of zeros in front, the longest streak is exact when all of   *)
(* them have ended.                                                        *)
(***************************************************************************)
StreakIsExact == AtRest /\ ~doubled => streak.max = LongestRun(Days)
=============================================================================
