------------------------- MODULE UserProgressProofs -------------------------
(* Theorems about UserProgress, for any submissions, problems, skills, days *)
(* and number of failing calls and crashes.                                 *)
EXTENDS UserProgress, FiniteSetTheorems, FunctionTheorems, WellFoundedInduction, TLAPS

(* The part of the types the theorems need.                                 *)
ProgressTypes ==
  /\ accepted \subseteq Submissions
  /\ untested \subseteq accepted
  /\ pc \in [Submissions -> {"idle", "done"} \cup SkillSteps \cup CheckinSteps]
  /\ profile \in [Submissions -> [Skills -> Nat]]
  /\ solved \in [Skills -> Nat]
  /\ today \in 1 .. MaxDay
  /\ day \in [Submissions -> 0 .. MaxDay]
  /\ checkins \in [Submissions -> 0 .. MaxDay]
  /\ faults \in Nat
  /\ crossed \in BOOLEAN
  /\ doubled \in BOOLEAN

(* Only a stored acceptance updates the skills, and one by default does not. *)
RowsAgree ==
  /\ \A s \in accepted : pc[s] # "idle"
  /\ \A s \in untested : pc[s] = "done"
  /\ faults = 0 => \A s \in Submissions : pc[s] \in SkillSteps => s \in accepted

(* Unless goroutines overlapped, one runs at a time.                        *)
OneAtATime == ~crossed => \A s, t \in Running : s = t

(* A check-in is inserted once, for the day that was read.                  *)
Calendar ==
  /\ \A s \in Submissions :
       /\ pc[s] \in {"idle"} \cup SkillSteps \cup {"day", "look", "insert"} => checkins[s] = 0
       /\ pc[s] \in {"look", "insert", "read", "store"} => day[s] # 0
       /\ ~crossed /\ pc[s] = "insert" => ~CheckedIn(day[s])
  /\ faults = 0 => \A s \in Submissions \ untested :
       /\ pc[s] = "done" => day[s] # 0
       /\ pc[s] \in {"read", "store", "done"} => CheckedIn(day[s])

(* The problems of skill k that a goroutine may have added to a profile. A  *)
(* problem enters with the goroutine that finds itself alone, or later.     *)
Counted(k) ==
  {ProblemOf[s] : s \in {t \in accepted : k \in Tags[ProblemOf[t]]
                                          /\ pc[t] \notin {"profile", "count"}}}
CountsAreBounded ==
  faults = 0 =>
    \A k \in Skills :
      /\ solved[k] <= Cardinality(Counted(k))
      /\ \A s \in Submissions : profile[s][k] <= Cardinality(Counted(k))

(* The problems that a profile may hold, and those of them whose goroutine  *)
(* has written it back.                                                     *)
Creditable(k) == SolvedProblems(k) \ Untested
Stored(k) ==
  {ProblemOf[s] : s \in {t \in accepted : k \in Tags[ProblemOf[t]]
                                          /\ pc[t] \notin SkillSteps}} \ Untested
CountsAreExact ==
  faults = 0 /\ ~crossed =>
    \A k \in Skills :
      /\ solved[k] = Cardinality(Stored(k))
      /\ \A s \in Submissions :
           /\ pc[s] = "count" => profile[s][k] = solved[k]
           /\ pc[s] = "save" => profile[s][k] = Cardinality(Creditable(k))

ProgressInv ==
  /\ ProgressTypes
  /\ RowsAgree
  /\ OneAtATime
  /\ Calendar
  /\ OneCheckinADay
  /\ CountsAreBounded
  /\ CountsAreExact

LEMMA ProgressInvAtStart == Init => ProgressInv
<1> SUFFICES ASSUME Init PROVE ProgressInv
    OBVIOUS
<1> USE ProgressAssumption DEF Init
<1>1. ProgressTypes
  <2>1. today \in 1 .. MaxDay /\ 0 \in 0 .. MaxDay
        OBVIOUS
  <2>2. NoSkills \in [Skills -> Nat]
        BY DEF NoSkills
  <2>3. day \in [Submissions -> 0 .. MaxDay] /\ checkins \in [Submissions -> 0 .. MaxDay]
        BY <2>1
  <2>4. solved \in [Skills -> Nat] /\ profile \in [Submissions -> [Skills -> Nat]]
        BY <2>2
  <2> QED BY <2>1, <2>3, <2>4 DEF ProgressTypes
<1>2. OneAtATime
      BY DEF OneAtATime, Running
<1>3. Calendar
      BY DEF Calendar, SkillSteps
<1>4. OneCheckinADay
      BY DEF OneCheckinADay
<1>5. ASSUME NEW k \in Skills
      PROVE  Counted(k) = {} /\ Stored(k) = {}
  <2>1. Counted(k) = {}
        BY DEF Counted
  <2>2. \A x : x \notin Stored(k)
        BY DEF Stored
  <2> QED BY <2>1, <2>2
<1>6. CountsAreBounded
  <2>1. \A k \in Skills : Cardinality(Counted(k)) = 0
        BY <1>5, FS_EmptySet
  <2>2. \A k \in Skills : solved[k] = 0 /\ \A s \in Submissions : profile[s][k] = 0
        BY DEF NoSkills
  <2> QED BY <2>1, <2>2 DEF CountsAreBounded
<1>7. CountsAreExact
      BY <1>5, FS_EmptySet DEF CountsAreExact, NoSkills
<1>8. RowsAgree
      BY DEF RowsAgree, SkillSteps
<1> QED BY <1>1, <1>2, <1>3, <1>4, <1>6, <1>7, <1>8 DEF ProgressInv

-----------------------------------------------------------------------------
(* What the steps have in common *)

(* The judge starts a goroutine.                                            *)
Starts(s) == Accept(s) \/ AcceptUnstored(s)
SkillStep(s) == ReadProfile(s) \/ CountAccepted(s) \/ SaveProfile(s) \/ SkillsFail(s)
CheckinStep(s) ==
  ReadDay(s) \/ Look(s) \/ InsertCheckin(s) \/ ReadCheckins(s) \/ StoreStreak(s)
    \/ CheckinFails(s)

LEMMA NextIsOneOf ==
  ASSUME Next
  PROVE  \/ \E s \in Submissions :
              Starts(s) \/ AcceptByDefault(s) \/ SkillStep(s) \/ CheckinStep(s)
         \/ InsertStats
         \/ Midnight
         \/ Crash
BY DEF Next, FollowUp, Starts, SkillStep, CheckinStep

LEMMA FaultCounts ==
  ASSUME faults \in Nat, Fault
  PROVE  faults' \in Nat /\ faults' # 0
BY DEF Fault

(* Steps that concern neither the profiles nor the check-ins.               *)
LEMMA QuietProperties ==
  ASSUME UNCHANGED vars \/ InsertStats \/ Midnight
  PROVE  UNCHANGED <<accepted, untested, pc, profile, solved, day, checkins, faults, crossed>>
BY DEF vars, InsertStats, Midnight, rows, skills, calendar

LEMMA StartsProperties ==
  ASSUME ProgressTypes, NEW s \in Submissions, Starts(s)
  PROVE  /\ pc[s] = "idle"
         /\ pc' = [pc EXCEPT ![s] = pc'[s]]
         /\ pc'[s] \in {"day", "profile"}
         /\ crossed' = (crossed \/ Running # {})
         /\ UNCHANGED <<untested, profile, solved, today, day, checkins, computed, streak, doubled>>
         /\ faults' \in Nat
         /\ faults' = 0 => faults = 0
         /\ pc'[s] = FirstStep(s)
         /\ \/ faults' # 0 /\ accepted' = accepted
            \/ accepted' = accepted \cup {s}
<1>1. FirstStep(s) \in {"day", "profile"}
      BY DEF FirstStep
<1>2. /\ faults \in Nat
      /\ pc \in [Submissions -> {"idle", "done"} \cup SkillSteps \cup CheckinSteps]
      BY DEF ProgressTypes
<1>3. CASE Accept(s)
  <2>1. /\ pc[s] = "idle" /\ pc' = [pc EXCEPT ![s] = FirstStep(s)]
        /\ crossed' = (crossed \/ Running # {})
        BY <1>3 DEF Accept, Start, Go
  <2>2. /\ UNCHANGED <<untested, profile, solved, today, day, checkins, computed, streak>>
        /\ faults' = faults /\ doubled' = doubled
        /\ accepted' = accepted \cup {s}
        BY <1>3 DEF Accept, skills, calendar
  <2>3. pc'[s] = FirstStep(s)
        BY <1>2, <2>1
  <2> QED BY <1>1, <1>2, <2>1, <2>2, <2>3
<1>4. CASE AcceptUnstored(s)
  <2>1. /\ pc[s] = "idle" /\ pc' = [pc EXCEPT ![s] = FirstStep(s)]
        /\ crossed' = (crossed \/ Running # {})
        BY <1>4 DEF AcceptUnstored, Start, Go
  <2>2. /\ UNCHANGED <<accepted, untested, profile, solved, today, day, checkins, computed, streak>>
        /\ doubled' = doubled
        BY <1>4 DEF AcceptUnstored, rows, skills, calendar
  <2>3. pc'[s] = FirstStep(s)
        BY <1>2, <2>1
  <2>4. faults' \in Nat /\ faults' # 0
        BY <1>2, <1>4, FaultCounts DEF AcceptUnstored
  <2> QED BY <1>1, <1>2, <2>1, <2>2, <2>3, <2>4
<1> QED BY <1>3, <1>4 DEF Starts

LEMMA DefaultProperties ==
  ASSUME ProgressTypes, NEW s \in Submissions, AcceptByDefault(s)
  PROVE  /\ pc[s] = "idle" /\ pc'[s] = "done"
         /\ pc' = [pc EXCEPT ![s] = "done"]
         /\ SameProblem(s) \subseteq untested
         /\ accepted' = accepted \cup {s} /\ untested' = untested \cup {s}
         /\ UNCHANGED <<profile, solved, today, day, checkins, computed, streak, faults,
                        crossed, doubled>>
BY DEF AcceptByDefault, Go, ProgressTypes, skills, calendar

LEMMA SkillStepProperties ==
  ASSUME ProgressTypes, NEW s \in Submissions, SkillStep(s)
  PROVE  /\ pc[s] \in SkillSteps
         /\ \E next \in {"count", "save", "day", "done"} :
              /\ pc' = [pc EXCEPT ![s] = next]
              /\ faults' = 0 => next # "done"
         /\ UNCHANGED <<accepted, untested, today, day, checkins, computed, streak, crossed,
                        doubled>>
         /\ faults' \in Nat
         /\ faults' = 0 => faults = 0
<1>1. faults \in Nat
      BY DEF ProgressTypes
<1>2. CASE ReadProfile(s)
      BY <1>1, <1>2 DEF ReadProfile, Go, SkillSteps, rows, calendar
<1>3. CASE CountAccepted(s)
      BY <1>1, <1>3 DEF CountAccepted, Go, SkillSteps, rows, calendar
<1>4. CASE SaveProfile(s)
      BY <1>1, <1>4 DEF SaveProfile, Go, SkillSteps, rows, calendar
<1>5. CASE SkillsFail(s)
      BY <1>1, <1>5, FaultCounts DEF SkillsFail, rows, calendar
<1> QED BY <1>2, <1>3, <1>4, <1>5 DEF SkillStep

LEMMA CheckinStepProperties ==
  ASSUME ProgressTypes, NEW s \in Submissions, CheckinStep(s)
  PROVE  /\ pc[s] \in CheckinSteps
         /\ \E next \in {"look", "insert", "read", "store", "done"} :
              pc' = [pc EXCEPT ![s] = next]
         /\ UNCHANGED <<accepted, untested, profile, solved, today, crossed, doubled>>
         /\ faults' \in Nat
         /\ faults' = 0 => faults = 0
<1>1. faults \in Nat
      BY DEF ProgressTypes
<1>2. CASE ReadDay(s)
      BY <1>1, <1>2 DEF ReadDay, Go, CheckinSteps, rows, skills
<1>3. CASE Look(s)
      BY <1>1, <1>3 DEF Look, Go, CheckinSteps, rows, skills
<1>4. CASE InsertCheckin(s)
      BY <1>1, <1>4 DEF InsertCheckin, Go, CheckinSteps, rows, skills
<1>5. CASE ReadCheckins(s)
      BY <1>1, <1>5 DEF ReadCheckins, Go, CheckinSteps, rows, skills
<1>6. CASE StoreStreak(s)
      BY <1>1, <1>6 DEF StoreStreak, Go, CheckinSteps, rows, skills
<1>7. CASE CheckinFails(s)
      BY <1>1, <1>7, FaultCounts DEF CheckinFails, rows, skills
<1> QED BY <1>2, <1>3, <1>4, <1>5, <1>6, <1>7 DEF CheckinStep

LEMMA CrashProperties ==
  ASSUME ProgressTypes, Crash
  PROVE  /\ pc' = [s \in Submissions |-> IF pc[s] = "idle" THEN "idle" ELSE "done"]
         /\ UNCHANGED <<accepted, untested, profile, solved, today, day, checkins, crossed,
                        doubled>>
         /\ faults' \in Nat /\ faults' # 0
BY FaultCounts DEF Crash, ProgressTypes, rows, skills, calendar

(* The days of the check-ins change in one place.                           *)
LEMMA CalendarMoves ==
  ASSUME ProgressTypes, NEW s \in Submissions, CheckinStep(s)
  PROVE  \/ /\ pc[s] = "day" /\ pc' = [pc EXCEPT ![s] = "look"]
            /\ day' = [day EXCEPT ![s] = today] /\ checkins' = checkins
         \/ /\ pc[s] = "look" /\ UNCHANGED <<day, checkins>>
            /\ pc' = [pc EXCEPT ![s] = IF CheckedIn(day[s]) THEN "done" ELSE "insert"]
         \/ /\ pc[s] = "insert" /\ day' = day /\ pc' = [pc EXCEPT ![s] = "read"]
            /\ checkins' = [checkins EXCEPT ![s] = day[s]]
         \/ /\ pc[s] = "insert" /\ day' = day /\ pc' = [pc EXCEPT ![s] = "done"]
            /\ checkins' \in {checkins, [checkins EXCEPT ![s] = day[s]]}
            /\ faults' # 0
         \/ /\ pc[s] = "read" /\ pc' = [pc EXCEPT ![s] = "store"]
            /\ UNCHANGED <<day, checkins>>
         \/ /\ pc[s] = "store" /\ pc' = [pc EXCEPT ![s] = "done"]
            /\ UNCHANGED <<day, checkins>>
         \/ /\ pc[s] \in CheckinSteps /\ pc' = [pc EXCEPT ![s] = "done"]
            /\ UNCHANGED <<day, checkins>> /\ faults' # 0
<1>1. faults \in Nat
      BY DEF ProgressTypes
<1>2. CASE ReadDay(s)
      BY <1>2 DEF ReadDay, Go
<1>3. CASE Look(s)
      BY <1>3 DEF Look, Go, calendar
<1>4. CASE InsertCheckin(s)
      BY <1>4 DEF InsertCheckin, Go
<1>5. CASE ReadCheckins(s)
      BY <1>5 DEF ReadCheckins, Go
<1>6. CASE StoreStreak(s)
      BY <1>6 DEF StoreStreak, Go
<1>7. CASE CheckinFails(s)
  <2>1. faults' # 0
        BY <1>1, <1>7, FaultCounts DEF CheckinFails
  <2> QED BY <1>7, <2>1 DEF CheckinFails, CheckinSteps
<1> QED BY <1>2, <1>3, <1>4, <1>5, <1>6, <1>7 DEF CheckinStep

-----------------------------------------------------------------------------
(* The invariant, one part after the other *)

LEMMA TypesStep == ProgressTypes /\ [Next]_vars => ProgressTypes'
<1> SUFFICES ASSUME ProgressTypes, [Next]_vars PROVE ProgressTypes'
    OBVIOUS
<1> DEFINE Places == {"idle", "done"} \cup SkillSteps \cup CheckinSteps
<1>1. CASE UNCHANGED vars \/ InsertStats \/ Midnight
  <2>1. today' = today \/ (today < MaxDay /\ today' = today + 1)
        BY <1>1 DEF Midnight, InsertStats, vars
  <2>2. today \in 1 .. MaxDay /\ MaxDay \in Nat
        BY ProgressAssumption DEF ProgressTypes
  <2>3. today' \in 1 .. MaxDay
        BY <2>1, <2>2
  <2>4. doubled' \in BOOLEAN
        BY <1>1 DEF Midnight, InsertStats, vars, ProgressTypes
  <2> QED BY <1>1, <2>3, <2>4, QuietProperties DEF ProgressTypes
<1>2. ASSUME NEW s \in Submissions, Starts(s) PROVE ProgressTypes'
  <2>1. pc'[s] \in Places
        BY <1>2, StartsProperties DEF SkillSteps, CheckinSteps
  <2>2. pc' \in [Submissions -> Places]
    <3>1. pc \in [Submissions -> Places] /\ pc' = [pc EXCEPT ![s] = pc'[s]]
          BY <1>2, StartsProperties DEF ProgressTypes
    <3> HIDE DEF Places
    <3> QED BY <2>1, <3>1
  <2>3. accepted' \subseteq Submissions /\ untested' \subseteq accepted' /\ crossed' \in BOOLEAN
        BY <1>2, StartsProperties DEF ProgressTypes
  <2> QED BY <1>2, <2>2, <2>3, StartsProperties DEF ProgressTypes
<1>3. ASSUME NEW s \in Submissions, SkillStep(s) PROVE ProgressTypes'
  <2>1. pc' \in [Submissions -> Places]
        BY <1>3, SkillStepProperties DEF ProgressTypes, SkillSteps, CheckinSteps
  <2>2. profile \in [Submissions -> [Skills -> Nat]] /\ solved \in [Skills -> Nat]
        BY DEF ProgressTypes
  <2>3. NoSkills \in [Skills -> Nat]
        BY DEF NoSkills
  <2>4. profile' \in [Submissions -> [Skills -> Nat]] /\ solved' \in [Skills -> Nat]
    <3>1. CASE ReadProfile(s)
          BY <3>1, <2>2 DEF ReadProfile
    <3>2. CASE CountAccepted(s)
      <4> DEFINE more == [k \in Skills |-> IF k \in Tags[ProblemOf[s]]
                                           THEN profile[s][k] + 1 ELSE profile[s][k]]
      <4>1. more \in [Skills -> Nat]
            BY <2>2
      <4>2. profile' = profile \/ profile' = [profile EXCEPT ![s] = more]
            BY <3>2, <2>2 DEF CountAccepted
      <4> HIDE DEF more
      <4>3. profile' \in [Submissions -> [Skills -> Nat]]
            BY <2>2, <4>1, <4>2
      <4>4. solved' = solved
            BY <3>2 DEF CountAccepted
      <4> QED BY <2>2, <4>3, <4>4
    <3>3. CASE SaveProfile(s)
          BY <3>3, <2>2, <2>3 DEF SaveProfile, Lost
    <3>4. CASE SkillsFail(s)
          BY <3>4, <2>2, <2>3 DEF SkillsFail
    <3> QED BY <1>3, <3>1, <3>2, <3>3, <3>4 DEF SkillStep
  <2> QED BY <1>3, <2>1, <2>4, SkillStepProperties DEF ProgressTypes
<1>4. ASSUME NEW s \in Submissions, CheckinStep(s) PROVE ProgressTypes'
  <2>1. pc' \in [Submissions -> Places]
        BY <1>4, CheckinStepProperties DEF ProgressTypes, SkillSteps, CheckinSteps
  <2>2. /\ day \in [Submissions -> 0 .. MaxDay] /\ checkins \in [Submissions -> 0 .. MaxDay]
        /\ today \in 0 .. MaxDay
        BY ProgressAssumption DEF ProgressTypes
  <2>3. /\ day' \in {day, [day EXCEPT ![s] = today]}
        /\ checkins' \in {checkins, [checkins EXCEPT ![s] = day[s]]}
        BY <1>4, CalendarMoves
  <2>4. day' \in [Submissions -> 0 .. MaxDay] /\ checkins' \in [Submissions -> 0 .. MaxDay]
        BY <2>2, <2>3
  <2> QED BY <1>4, <2>1, <2>4, CheckinStepProperties DEF ProgressTypes
<1>5. ASSUME NEW s \in Submissions, AcceptByDefault(s) PROVE ProgressTypes'
  <2>1. pc' \in [Submissions -> Places]
        BY <1>5, DefaultProperties DEF ProgressTypes
  <2>2. accepted' \subseteq Submissions /\ untested' \subseteq accepted'
        BY <1>5, DefaultProperties DEF ProgressTypes
  <2> QED BY <1>5, <2>1, <2>2, DefaultProperties DEF ProgressTypes
<1>6. CASE Crash
      BY <1>6, CrashProperties DEF ProgressTypes
<1> QED BY <1>1, <1>2, <1>3, <1>4, <1>5, <1>6, NextIsOneOf

LEMMA RowsStep ==
  ProgressTypes /\ RowsAgree /\ [Next]_vars => RowsAgree'
<1> SUFFICES ASSUME ProgressTypes, RowsAgree, [Next]_vars PROVE RowsAgree'
    OBVIOUS
<1>1. /\ pc \in [Submissions -> {"idle", "done"} \cup SkillSteps \cup CheckinSteps]
      /\ untested \subseteq accepted /\ accepted \subseteq Submissions
      BY DEF ProgressTypes
<1>2. CASE UNCHANGED vars \/ InsertStats \/ Midnight
      BY <1>2, QuietProperties DEF RowsAgree
<1>3. ASSUME NEW s \in Submissions, Starts(s) PROVE RowsAgree'
  <2>1. /\ pc[s] = "idle" /\ pc'[s] \in {"day", "profile"} /\ untested' = untested
        /\ \A t \in Submissions \ {s} : pc'[t] = pc[t]
        /\ faults' = 0 => faults = 0
        /\ accepted' \subseteq accepted \cup {s}
        /\ faults' = 0 => accepted' = accepted \cup {s}
        BY <1>1, <1>3, StartsProperties
  <2>2. s \notin accepted
        BY <2>1 DEF RowsAgree
  <2>3. \A t \in accepted' : pc'[t] # "idle"
        BY <1>1, <2>1 DEF RowsAgree
  <2>4. \A t \in untested' : pc'[t] = "done"
        BY <1>1, <2>1, <2>2 DEF RowsAgree
  <2>5. ASSUME faults' = 0, NEW t \in Submissions, pc'[t] \in SkillSteps PROVE t \in accepted'
        BY <2>1, <2>5 DEF RowsAgree, SkillSteps
  <2> QED BY <2>3, <2>4, <2>5 DEF RowsAgree
<1>4. ASSUME NEW s \in Submissions, AcceptByDefault(s) PROVE RowsAgree'
      BY <1>1, <1>4, DefaultProperties DEF RowsAgree, SkillSteps
<1>5. ASSUME NEW s \in Submissions, SkillStep(s) PROVE RowsAgree'
      BY <1>1, <1>5, SkillStepProperties DEF RowsAgree, SkillSteps
<1>6. ASSUME NEW s \in Submissions, CheckinStep(s) PROVE RowsAgree'
      BY <1>1, <1>6, CheckinStepProperties DEF RowsAgree, SkillSteps, CheckinSteps
<1>7. CASE Crash
      BY <1>1, <1>7, CrashProperties DEF RowsAgree
<1> QED BY <1>2, <1>3, <1>4, <1>5, <1>6, <1>7, NextIsOneOf

LEMMA OneAtATimeStep ==
  ProgressTypes /\ OneAtATime /\ [Next]_vars => OneAtATime'
<1> SUFFICES ASSUME ProgressTypes, OneAtATime, [Next]_vars PROVE OneAtATime'
    OBVIOUS
<1>1. pc \in [Submissions -> {"idle", "done"} \cup SkillSteps \cup CheckinSteps]
      BY DEF ProgressTypes
<1>2. ASSUME Running' \subseteq Running, crossed' = crossed PROVE OneAtATime'
      BY <1>2 DEF OneAtATime
<1>3. CASE UNCHANGED vars \/ InsertStats \/ Midnight
      BY <1>2, <1>3, QuietProperties DEF Running
<1>4. ASSUME NEW s \in Submissions, Starts(s) PROVE OneAtATime'
  <2>1. /\ \A t \in Submissions \ {s} : pc'[t] = pc[t]
        /\ crossed' = (crossed \/ Running # {})
        BY <1>1, <1>4, StartsProperties
  <2>2. Running' \subseteq Running \cup {s}
        BY <1>1, <2>1 DEF Running
  <2> QED BY <2>1, <2>2 DEF OneAtATime
<1>5. ASSUME NEW s \in Submissions, SkillStep(s) PROVE OneAtATime'
  <2>1. Running' \subseteq Running /\ crossed' = crossed
        BY <1>1, <1>5, SkillStepProperties DEF Running, SkillSteps
  <2> QED BY <1>2, <2>1
<1>6. ASSUME NEW s \in Submissions, CheckinStep(s) PROVE OneAtATime'
  <2>1. Running' \subseteq Running /\ crossed' = crossed
        BY <1>1, <1>6, CheckinStepProperties DEF Running, CheckinSteps
  <2> QED BY <1>2, <2>1
<1>7. ASSUME NEW s \in Submissions, AcceptByDefault(s) PROVE OneAtATime'
  <2>1. Running' \subseteq Running /\ crossed' = crossed
        BY <1>1, <1>7, DefaultProperties DEF Running
  <2> QED BY <1>2, <2>1
<1>8. CASE Crash
  <2>1. Running' = {}
        BY <1>8, CrashProperties DEF Running
  <2> QED BY <1>2, <1>8, <2>1, CrashProperties
<1> QED BY <1>3, <1>4, <1>5, <1>6, <1>7, <1>8, NextIsOneOf

(* Steps that leave the check-ins alone, and nobody new at the check-in.    *)
LEMMA CalendarQuiet ==
  ASSUME ProgressTypes, Calendar, OneCheckinADay,
         day' = day, checkins' = checkins,
         crossed => crossed', faults' = 0 => faults = 0, untested \subseteq untested',
         \A t \in Submissions :
           \/ pc'[t] = pc[t]
           \/ /\ pc[t] \in {"idle"} \cup SkillSteps
              /\ pc'[t] \in SkillSteps \cup {"day"}
           \/ faults' # 0 /\ pc'[t] = "done"
           \/ pc'[t] = "done" /\ t \in untested'
  PROVE  Calendar' /\ OneCheckinADay'
<1>1. \A d : CheckedIn(d)' = CheckedIn(d)
      BY DEF CheckedIn
<1>2. OneCheckinADay'
      BY DEF OneCheckinADay
<1>3. ASSUME NEW t \in Submissions
      PROVE  /\ pc'[t] \in {"idle"} \cup SkillSteps \cup {"day", "look", "insert"} => checkins[t] = 0
             /\ pc'[t] \in {"look", "insert", "read", "store"} => day[t] # 0
             /\ ~crossed' /\ pc'[t] = "insert" => ~CheckedIn(day[t])
      BY DEF Calendar, SkillSteps
<1>4. ASSUME faults' = 0, NEW t \in Submissions \ untested'
      PROVE  /\ pc'[t] = "done" => day[t] # 0
             /\ pc'[t] \in {"read", "store", "done"} => CheckedIn(day[t])
      BY <1>4 DEF Calendar, SkillSteps
<1>5. Calendar'
      BY <1>1, <1>3, <1>4 DEF Calendar
<1> QED BY <1>2, <1>5

LEMMA CalendarOfCheckin ==
  ASSUME ProgressTypes, OneAtATime, Calendar, OneCheckinADay,
         NEW s \in Submissions, CheckinStep(s)
  PROVE  Calendar' /\ OneCheckinADay'
<1>1. /\ pc \in [Submissions -> {"idle", "done"} \cup SkillSteps \cup CheckinSteps]
      /\ day \in [Submissions -> 0 .. MaxDay] /\ checkins \in [Submissions -> 0 .. MaxDay]
      /\ today # 0 /\ pc[s] \in CheckinSteps
      BY CheckinStepProperties DEF ProgressTypes
<1>2. /\ \A t \in Submissions \ {s} : pc'[t] = pc[t]
      /\ faults' = 0 => faults = 0
      /\ crossed' = crossed /\ untested' = untested
      BY <1>1, CheckinStepProperties
<1>3. ~crossed => \A t \in Submissions \ {s} : pc[t] # "insert"
  <2>1. s \in Running
        BY <1>1 DEF Running, CheckinSteps
  <2>2. ASSUME NEW t \in Submissions \ {s}, pc[t] = "insert" PROVE t \in Running
        BY <2>2 DEF Running
  <2> QED BY <2>1, <2>2 DEF OneAtATime
<1>4. CASE pc[s] = "day" /\ pc' = [pc EXCEPT ![s] = "look"]
           /\ day' = [day EXCEPT ![s] = today] /\ checkins' = checkins
  <2>1. \A d : CheckedIn(d)' = CheckedIn(d)
        BY <1>4 DEF CheckedIn
  <2>2. /\ pc'[s] = "look" /\ day'[s] = today
        /\ \A t \in Submissions \ {s} : day'[t] = day[t]
        BY <1>1, <1>4
  <2>3. checkins[s] = 0
        BY <1>4 DEF Calendar
  <2>4. Calendar'
        BY <1>1, <1>2, <1>4, <2>1, <2>2, <2>3 DEF Calendar, SkillSteps
  <2> QED BY <1>2, <1>4, <2>4 DEF OneCheckinADay
<1>5. CASE pc[s] = "look" /\ UNCHANGED <<day, checkins>>
           /\ pc' = [pc EXCEPT ![s] = IF CheckedIn(day[s]) THEN "done" ELSE "insert"]
  <2>1. \A d : CheckedIn(d)' = CheckedIn(d)
        BY <1>5 DEF CheckedIn
  <2>2. pc'[s] = IF CheckedIn(day[s]) THEN "done" ELSE "insert"
        BY <1>1, <1>5
  <2>3. checkins[s] = 0 /\ day[s] # 0
        BY <1>5 DEF Calendar
  <2>4. Calendar'
        BY <1>1, <1>2, <1>5, <2>1, <2>2, <2>3 DEF Calendar, SkillSteps
  <2> QED BY <1>2, <1>5, <2>4 DEF OneCheckinADay
<1>6. CASE pc[s] = "insert" /\ day' = day /\ checkins' = [checkins EXCEPT ![s] = day[s]]
           /\ (pc' = [pc EXCEPT ![s] = "read"] \/ (pc' = [pc EXCEPT ![s] = "done"] /\ faults' # 0))
  <2>1. checkins[s] = 0 /\ day[s] # 0 /\ (~crossed => ~CheckedIn(day[s]))
        BY <1>6 DEF Calendar
  <2>2. /\ checkins'[s] = day[s]
        /\ \A t \in Submissions \ {s} : checkins'[t] = checkins[t]
        BY <1>1, <1>6
  <2>3. \A d : d # 0 /\ CheckedIn(d) => CheckedIn(d)'
        BY <2>1, <2>2 DEF CheckedIn
  <2>4. CheckedIn(day[s])'
        BY <1>6, <2>2 DEF CheckedIn
  <2>5. pc'[s] \in {"read", "done"} /\ (pc'[s] = "done" => faults' # 0)
        BY <1>1, <1>6
  <2>6. ASSUME NEW t \in Submissions
        PROVE  /\ pc'[t] \in {"idle"} \cup SkillSteps \cup {"day", "look", "insert"} => checkins'[t] = 0
               /\ pc'[t] \in {"look", "insert", "read", "store"} => day[t] # 0
               /\ ~(~crossed' /\ pc'[t] = "insert")
        BY <1>2, <1>3, <2>1, <2>2, <2>5 DEF Calendar, SkillSteps
  <2>7. ASSUME faults' = 0, NEW t \in Submissions \ untested'
        PROVE  /\ pc'[t] = "done" => day[t] # 0
               /\ pc'[t] \in {"read", "store", "done"} => CheckedIn(day[t])'
    <3>1. CASE t = s
          BY <1>6, <2>4, <2>5, <2>7, <3>1
    <3>2. CASE t # s
      <4>1. pc'[t] = pc[t] /\ faults = 0
            BY <1>2, <2>7, <3>2
      <4>2. pc[t] \in {"read", "store", "done"} => day[t] # 0 /\ CheckedIn(day[t])
            BY <1>2, <4>1 DEF Calendar
      <4>3. day[t] # 0 /\ CheckedIn(day[t]) => CheckedIn(day[t])'
            BY <1>6, <2>3
      <4> QED BY <4>1, <4>2, <4>3
    <3> QED BY <3>1, <3>2
  <2>8. Calendar'
        BY <1>6, <2>6, <2>7 DEF Calendar
  <2>9. OneCheckinADay'
    <3>1. ~crossed => \A t \in Submissions : checkins[t] # day[s]
          BY <2>1 DEF CheckedIn
    <3> QED BY <1>2, <2>2, <3>1 DEF OneCheckinADay
  <2> QED BY <2>8, <2>9
<1>7. CASE UNCHANGED <<day, checkins>>
           /\ \/ pc[s] = "read" /\ pc' = [pc EXCEPT ![s] = "store"]
              \/ pc[s] = "store" /\ pc' = [pc EXCEPT ![s] = "done"]
              \/ pc' = [pc EXCEPT ![s] = "done"] /\ faults' # 0
  <2>1. \A d : CheckedIn(d)' = CheckedIn(d)
        BY <1>7 DEF CheckedIn
  <2>2. \/ pc[s] = "read" /\ pc'[s] = "store"
        \/ pc[s] = "store" /\ pc'[s] = "done"
        \/ pc'[s] = "done" /\ faults' # 0
        BY <1>1, <1>7
  <2>3. Calendar'
        BY <1>1, <1>2, <1>7, <2>1, <2>2 DEF Calendar, SkillSteps
  <2> QED BY <1>2, <1>7, <2>3 DEF OneCheckinADay
<1> QED BY <1>4, <1>5, <1>6, <1>7, CalendarMoves

LEMMA CalendarStep ==
  ProgressTypes /\ OneAtATime /\ Calendar /\ OneCheckinADay /\ [Next]_vars
    => Calendar' /\ OneCheckinADay'
<1> SUFFICES ASSUME ProgressTypes, OneAtATime, Calendar, OneCheckinADay, [Next]_vars
             PROVE  Calendar' /\ OneCheckinADay'
    OBVIOUS
<1>1. pc \in [Submissions -> {"idle", "done"} \cup SkillSteps \cup CheckinSteps]
      BY DEF ProgressTypes
<1>2. CASE UNCHANGED vars \/ InsertStats \/ Midnight
      BY <1>2, QuietProperties, CalendarQuiet
<1>3. ASSUME NEW s \in Submissions, Starts(s) PROVE Calendar' /\ OneCheckinADay'
  <2>1. \A t \in Submissions :
          pc'[t] = pc[t] \/ (pc[t] = "idle" /\ pc'[t] \in {"day", "profile"})
        BY <1>1, <1>3, StartsProperties
  <2> QED BY <1>3, <2>1, StartsProperties, CalendarQuiet DEF SkillSteps
<1>4. ASSUME NEW s \in Submissions, SkillStep(s) PROVE Calendar' /\ OneCheckinADay'
      BY <1>1, <1>4, SkillStepProperties, CalendarQuiet DEF SkillSteps
<1>5. ASSUME NEW s \in Submissions, CheckinStep(s) PROVE Calendar' /\ OneCheckinADay'
      BY <1>5, CalendarOfCheckin
<1>6. ASSUME NEW s \in Submissions, AcceptByDefault(s) PROVE Calendar' /\ OneCheckinADay'
  <2>1. \A t \in Submissions : pc'[t] = pc[t] \/ (pc'[t] = "done" /\ t \in untested')
        BY <1>1, <1>6, DefaultProperties
  <2> QED BY <1>6, <2>1, DefaultProperties, CalendarQuiet
<1>7. CASE Crash
      BY <1>1, <1>7, CrashProperties, CalendarQuiet
<1> QED BY <1>2, <1>3, <1>4, <1>5, <1>6, <1>7, NextIsOneOf

-----------------------------------------------------------------------------
(* The counts of problems *)

LEMMA SetsOfProblems ==
  ASSUME ProgressTypes, NEW k
  PROVE  /\ IsFiniteSet(Counted(k)) /\ Cardinality(Counted(k)) \in Nat
         /\ IsFiniteSet(Stored(k)) /\ Cardinality(Stored(k)) \in Nat
         /\ IsFiniteSet(SolvedProblems(k)) /\ Cardinality(SolvedProblems(k)) \in Nat
         /\ IsFiniteSet(Creditable(k)) /\ Cardinality(Creditable(k)) \in Nat
         /\ Cardinality(Counted(k)) <= Cardinality(SolvedProblems(k))
<1>1. SolvedProblems(k) \subseteq Problems
      BY ProgressAssumption DEF SolvedProblems, ProgressTypes
<1>2. /\ Counted(k) \subseteq SolvedProblems(k) /\ Stored(k) \subseteq SolvedProblems(k)
      /\ Creditable(k) \subseteq SolvedProblems(k)
      BY DEF Counted, Stored, SolvedProblems, Creditable
<1>3. IsFiniteSet(SolvedProblems(k))
      BY <1>1, ProgressAssumption, FS_Subset
<1> QED BY <1>2, <1>3, FS_Subset, FS_CardinalityType

(* Of several accepted submissions to the problem, or of one.               *)
LEMMA AloneOrNot ==
  ASSUME ProgressTypes, NEW s \in accepted
  PROVE  IF Cardinality(SameProblem(s)) > 1 THEN \E t \in SameProblem(s) : t # s
         ELSE \A t \in SameProblem(s) : t = s
<1> DEFINE same == SameProblem(s)
<1>1. same \subseteq Submissions /\ s \in same
      BY DEF ProgressTypes, SameProblem
<1>2. IsFiniteSet(same) /\ Cardinality(same) \in Nat
      BY <1>1, ProgressAssumption, FS_Subset, FS_CardinalityType
<1>3. Cardinality(same) # 0
      BY <1>1, <1>2, FS_EmptySet
<1>4. ASSUME Cardinality(same) > 1 PROVE \E t \in same : t # s
  <2>1. same # {s}
    <3>1. Cardinality({s}) = 1
          BY FS_Singleton
    <3> HIDE DEF same
    <3> QED BY <1>2, <1>4, <3>1
  <2> QED BY <1>1, <2>1
<1>5. ASSUME ~(Cardinality(same) > 1) PROVE \A t \in same : t = s
  <2>1. Cardinality(same) = 1
        BY <1>2, <1>3, <1>5
  <2>2. PICK x : same = {x}
        BY <1>2, <2>1, FS_Singleton
  <2> QED BY <1>1, <2>2
<1> QED BY <1>4, <1>5

LEMMA BoundsGrow ==
  ASSUME ProgressTypes, ProgressTypes',
         faults' = 0 =>
           \A k \in Skills :
             /\ Counted(k) \subseteq Counted(k)'
             /\ solved'[k] <= Cardinality(Counted(k))
             /\ \A s \in Submissions : profile'[s][k] <= Cardinality(Counted(k))
  PROVE  CountsAreBounded'
<1>1. ASSUME NEW k \in Skills, Counted(k) \subseteq Counted(k)',
             NEW n \in Nat, n <= Cardinality(Counted(k))
      PROVE  n <= Cardinality(Counted(k)')
  <2>1. IsFiniteSet(Counted(k)')
    <3>1. Counted(k)' \subseteq Problems
          BY ProgressAssumption DEF Counted, ProgressTypes
    <3> QED BY <3>1, ProgressAssumption, FS_Subset
  <2>2. Cardinality(Counted(k)) <= Cardinality(Counted(k)')
        BY <1>1, <2>1, FS_Subset
  <2>3. Cardinality(Counted(k)) \in Nat /\ Cardinality(Counted(k)') \in Nat
        BY <2>1, FS_CardinalityType, SetsOfProblems
  <2> QED BY <1>1, <2>2, <2>3
<1>2. \A k \in Skills : solved'[k] \in Nat /\ \A s \in Submissions : profile'[s][k] \in Nat
      BY DEF ProgressTypes
<1> QED BY <1>1, <1>2 DEF CountsAreBounded

LEMMA BoundsOfStart ==
  ASSUME ProgressTypes, ProgressTypes', RowsAgree, CountsAreBounded,
         NEW s \in Submissions, Starts(s) \/ AcceptByDefault(s)
  PROVE  CountsAreBounded'
<1>1. /\ pc[s] = "idle"
      /\ \A t \in Submissions \ {s} : pc'[t] = pc[t]
      /\ UNCHANGED <<profile, solved>>
      /\ faults' = 0 => faults = 0
      /\ accepted \subseteq accepted'
      BY StartsProperties, DefaultProperties DEF ProgressTypes
<1>2. \A t \in accepted : t \in accepted' /\ pc'[t] = pc[t]
      BY <1>1 DEF RowsAgree, ProgressTypes
<1>3. \A k : Counted(k) \subseteq Counted(k)'
      BY <1>2 DEF Counted
<1> QED BY <1>1, <1>3, BoundsGrow DEF CountsAreBounded

LEMMA BoundsOfSkills ==
  ASSUME ProgressTypes, ProgressTypes', RowsAgree, CountsAreBounded,
         NEW s \in Submissions, SkillStep(s)
  PROVE  CountsAreBounded'
<1> SUFFICES ASSUME faults' = 0 PROVE CountsAreBounded'
    BY DEF CountsAreBounded
<1>1. pc[s] \in SkillSteps /\ accepted' = accepted /\ faults = 0
      BY SkillStepProperties
<1>2. \A k \in Skills :
        /\ solved[k] <= Cardinality(Counted(k))
        /\ \A t \in Submissions : profile[t][k] <= Cardinality(Counted(k))
      BY <1>1 DEF CountsAreBounded
<1>3. /\ \A k \in Skills : Cardinality(Counted(k)) \in Nat
      /\ \A k \in Skills : IsFiniteSet(Counted(k))
      BY SetsOfProblems
<1>4. s \in accepted
      BY <1>1 DEF RowsAgree
<1>5. \A t \in Submissions \ {s} : pc'[t] = pc[t]
  <2>1. pc \in [Submissions -> {"idle", "done"} \cup SkillSteps \cup CheckinSteps]
        BY DEF ProgressTypes
  <2>2. \E next : pc' = [pc EXCEPT ![s] = next]
        BY SkillStepProperties
  <2> QED BY <2>1, <2>2
<1>6. ASSUME pc'[s] \notin {"profile", "count"} \/ pc[s] \in {"profile", "count"}, NEW k
      PROVE  Counted(k) \subseteq Counted(k)'
      BY <1>1, <1>5, <1>6 DEF Counted, ProgressTypes
<1>7. CASE ReadProfile(s)
  <2>1. pc[s] = "profile" /\ profile' = [profile EXCEPT ![s] = solved] /\ solved' = solved
        BY <1>7 DEF ReadProfile, Go
  <2>2. \A t \in Submissions : profile'[t] \in {profile[t], solved}
        BY <2>1 DEF ProgressTypes
  <2> QED BY <1>2, <1>6, <2>1, <2>2, BoundsGrow
<1>8. CASE SaveProfile(s)
  <2>1. /\ pc'[s] = "day" /\ solved' \in {profile[s], solved}
        /\ \A t \in Submissions : profile'[t] \in {profile[t], NoSkills}
        BY <1>8 DEF SaveProfile, Lost, Go, ProgressTypes
  <2>2. \A k \in Skills : NoSkills[k] <= Cardinality(Counted(k))
        BY <1>3 DEF NoSkills
  <2> QED BY <1>2, <1>6, <2>1, <2>2, BoundsGrow
<1>9. CASE CountAccepted(s)
  <2> DEFINE p == ProblemOf[s]
             same == SameProblem(s)
             more == [k \in Skills |-> IF k \in Tags[p] THEN profile[s][k] + 1 ELSE profile[s][k]]
  <2>1. /\ pc[s] = "count" /\ pc'[s] = "save" /\ solved' = solved
        /\ profile' = IF Cardinality(same) > 1 THEN profile ELSE [profile EXCEPT ![s] = more]
        BY <1>9 DEF CountAccepted, Go, ProgressTypes
  <2>2. CASE Cardinality(same) > 1
        BY <1>2, <1>6, <2>1, <2>2, BoundsGrow
  <2>3. CASE ~(Cardinality(same) > 1)
    <3>1. \A t \in same : t = s
          BY <1>4, <2>3, AloneOrNot
    <3>2. \A t \in Submissions : profile'[t] = IF t = s THEN more ELSE profile[t]
          BY <2>1, <2>3 DEF ProgressTypes
    <3> HIDE DEF more
    <3>3. ASSUME NEW k \in Skills
          PROVE  /\ Cardinality(Counted(k)') \in Nat
                 /\ Cardinality(Counted(k)) <= Cardinality(Counted(k)')
                 /\ more[k] <= Cardinality(Counted(k)')
      <4>1. profile[s][k] \in Nat /\ profile[s][k] <= Cardinality(Counted(k))
            BY <1>2 DEF ProgressTypes
      <4>2. CASE k \in Tags[p]
        <5>1. p \notin Counted(k)
              BY <2>1, <3>1 DEF Counted, SameProblem
        <5>2. Counted(k)' = Counted(k) \cup {p}
          <6>1. \A t \in accepted : t # s => pc'[t] = pc[t]
                BY <1>5 DEF ProgressTypes
          <6> QED BY <1>1, <1>4, <2>1, <4>2, <6>1 DEF Counted
        <5>3. Cardinality(Counted(k)') = Cardinality(Counted(k)) + 1
              BY <1>3, <5>1, <5>2, FS_AddElement
        <5>4. more[k] = profile[s][k] + 1
              BY <4>2 DEF more
        <5> QED BY <1>3, <4>1, <5>3, <5>4
      <4>3. CASE k \notin Tags[p]
        <5>1. Counted(k)' = Counted(k)
          <6>1. \A t \in accepted : t # s => pc'[t] = pc[t]
                BY <1>5 DEF ProgressTypes
          <6> QED BY <1>1, <1>4, <4>3, <6>1 DEF Counted
        <5>2. more[k] = profile[s][k]
              BY <4>3 DEF more
        <5> QED BY <1>3, <4>1, <5>1, <5>2
      <4> QED BY <4>2, <4>3
    <3>4. ASSUME NEW k \in Skills
          PROVE  /\ solved'[k] <= Cardinality(Counted(k)')
                 /\ \A t \in Submissions : profile'[t][k] <= Cardinality(Counted(k)')
      <4>1. /\ solved[k] \in Nat /\ solved[k] <= Cardinality(Counted(k))
            /\ \A t \in Submissions : profile[t][k] \in Nat /\ profile[t][k] <= Cardinality(Counted(k))
            BY <1>2 DEF ProgressTypes
      <4>2. Cardinality(Counted(k)) \in Nat
            BY <1>3
      <4>3. solved'[k] <= Cardinality(Counted(k)')
            BY <2>1, <3>3, <4>1, <4>2
      <4>4. ASSUME NEW t \in Submissions PROVE profile'[t][k] <= Cardinality(Counted(k)')
        <5>1. CASE t = s
              BY <3>2, <3>3, <5>1
        <5>2. CASE t # s
              BY <3>2, <3>3, <4>1, <4>2, <5>2
        <5> QED BY <5>1, <5>2
      <4> QED BY <4>3, <4>4
    <3> QED BY <3>4 DEF CountsAreBounded
  <2> QED BY <2>2, <2>3
<1>10. ~SkillsFail(s)
       BY FaultCounts DEF SkillsFail, ProgressTypes
<1> QED BY <1>7, <1>8, <1>9, <1>10 DEF SkillStep

LEMMA BoundsStep ==
  ProgressTypes /\ ProgressTypes' /\ RowsAgree /\ CountsAreBounded /\ [Next]_vars
    => CountsAreBounded'
<1> SUFFICES ASSUME ProgressTypes, ProgressTypes', RowsAgree, CountsAreBounded, [Next]_vars
             PROVE  CountsAreBounded'
    OBVIOUS
<1>1. CASE UNCHANGED vars \/ InsertStats \/ Midnight
      BY <1>1, QuietProperties DEF CountsAreBounded, Counted
<1>2. ASSUME NEW s \in Submissions, CheckinStep(s) PROVE CountsAreBounded'
  <2>1. /\ pc[s] \in CheckinSteps /\ UNCHANGED <<accepted, profile, solved>>
        /\ pc'[s] \in {"look", "insert", "read", "store", "done"}
        /\ \A t \in Submissions \ {s} : pc'[t] = pc[t]
        /\ faults' = 0 => faults = 0
        BY <1>2, CheckinStepProperties DEF ProgressTypes
  <2>2. \A k : Counted(k) \subseteq Counted(k)'
        BY <2>1 DEF Counted, CheckinSteps, ProgressTypes
  <2> QED BY <2>1, <2>2, BoundsGrow DEF CountsAreBounded
<1>3. CASE Crash
      BY <1>3, CrashProperties DEF CountsAreBounded
<1> QED BY <1>1, <1>2, <1>3, NextIsOneOf, BoundsOfStart, BoundsOfSkills

(* While s updates the skills alone, the other submissions are done.        *)
LEMMA OthersAreDone ==
  ASSUME ProgressTypes, RowsAgree, OneAtATime, faults = 0, ~crossed,
         NEW s \in Submissions, pc[s] \in SkillSteps
  PROVE  /\ s \in accepted \ untested
         /\ \A t \in Submissions \ {s} : pc[t] \in {"idle", "done"}
         /\ \A t \in accepted \ {s} : pc[t] \notin SkillSteps
<1>1. s \in accepted \ untested
      BY DEF RowsAgree, SkillSteps
<1>2. ASSUME NEW t \in Submissions \ {s} PROVE pc[t] \in {"idle", "done"}
      BY DEF OneAtATime, Running, SkillSteps
<1> QED BY <1>1, <1>2 DEF SkillSteps, ProgressTypes

LEMMA ExactOfSkills ==
  ASSUME ProgressTypes, RowsAgree, OneAtATime, CountsAreExact,
         NEW s \in Submissions, SkillStep(s)
  PROVE  CountsAreExact'
<1> SUFFICES ASSUME faults' = 0, ~crossed' PROVE CountsAreExact'
    BY DEF CountsAreExact
<1>1. /\ faults = 0 /\ ~crossed /\ pc[s] \in SkillSteps
      /\ UNCHANGED <<accepted, untested>>
      /\ \A t \in Submissions \ {s} : pc'[t] = pc[t]
      BY SkillStepProperties DEF ProgressTypes
<1>2. /\ s \in accepted \ untested
      /\ \A t \in Submissions \ {s} : pc[t] \in {"idle", "done"}
      /\ \A t \in accepted \ {s} : pc[t] \notin SkillSteps
      BY <1>1, OthersAreDone
<1>3. ASSUME NEW k \in Skills
      PROVE  /\ solved[k] = Cardinality(Stored(k)) /\ solved[k] \in Nat
             /\ pc[s] = "count" => profile[s][k] = solved[k]
             /\ pc[s] = "save" => profile[s][k] = Cardinality(Creditable(k))
             /\ Creditable(k)' = Creditable(k)
      BY <1>1 DEF CountsAreExact, ProgressTypes, Creditable, SolvedProblems, Untested
<1>4. ASSUME NEW k, pc'[s] \in SkillSteps PROVE Stored(k)' = Stored(k)
  <2>1. \A t \in accepted : pc'[t] \in SkillSteps <=> pc[t] \in SkillSteps
        BY <1>1, <1>4 DEF ProgressTypes
  <2> QED BY <1>1, <2>1 DEF Stored, Untested
<1>5. CASE ReadProfile(s)
  <2>1. pc'[s] = "count" /\ profile'[s] = solved /\ solved' = solved
        BY <1>5 DEF ReadProfile, Go, ProgressTypes
  <2> QED BY <1>1, <1>2, <1>3, <1>4, <2>1 DEF CountsAreExact, SkillSteps
<1>6. CASE CountAccepted(s)
  <2> DEFINE p == ProblemOf[s]
             same == SameProblem(s)
             more == [k \in Skills |-> IF k \in Tags[p] THEN profile[s][k] + 1 ELSE profile[s][k]]
  <2>1. /\ pc[s] = "count" /\ pc'[s] = "save" /\ solved' = solved
        /\ profile'[s] = IF Cardinality(same) > 1 THEN profile[s] ELSE more
        BY <1>6 DEF CountAccepted, Go, ProgressTypes
  <2>2. ASSUME NEW k \in Skills PROVE profile'[s][k] = Cardinality(Creditable(k))
    <3>1. k \notin Tags[p] => Creditable(k) = Stored(k)
          BY <1>2 DEF Stored, Creditable, SolvedProblems
    <3>2. CASE Cardinality(same) > 1
      <4>1. PICK t \in same : t # s
            BY <1>2, <3>2, AloneOrNot
      <4>2. k \in Tags[p] => p \in Stored(k) \cup Untested
            BY <1>2, <4>1 DEF Stored, SameProblem
      <4>3. Creditable(k) = Stored(k)
            BY <1>2, <4>2 DEF Stored, Creditable, SolvedProblems
      <4> QED BY <1>3, <2>1, <3>2, <4>3
    <3>3. CASE ~(Cardinality(same) > 1)
      <4>1. \A t \in same : t = s
            BY <1>2, <3>3, AloneOrNot
      <4>2. p \notin Untested
            BY <1>2, <4>1 DEF Untested, SameProblem, ProgressTypes
      <4>3. p \notin Stored(k)
            BY <1>1, <4>1 DEF Stored, SameProblem
      <4>4. k \in Tags[p] => Creditable(k) = Stored(k) \cup {p}
            BY <1>2, <4>2 DEF Stored, Creditable, SolvedProblems
      <4>5. IsFiniteSet(Stored(k))
            BY SetsOfProblems
      <4>6. Cardinality(Stored(k) \cup {p}) = Cardinality(Stored(k)) + 1
            BY <4>3, <4>5, FS_AddElement
      <4>7. profile'[s][k] = IF k \in Tags[p] THEN profile[s][k] + 1 ELSE profile[s][k]
            BY <2>1, <3>3
      <4> HIDE DEF p
      <4> QED BY <1>3, <2>1, <3>1, <4>4, <4>6, <4>7
    <3> QED BY <3>2, <3>3
  <2> HIDE DEF p, same, more
  <2>3. \A k \in Skills : solved'[k] = Cardinality(Stored(k)')
        BY <1>3, <1>4, <2>1 DEF SkillSteps
  <2>4. \A t \in Submissions : pc'[t] # "count" /\ (pc'[t] = "save" => t = s)
        BY <1>1, <1>2, <2>1
  <2> QED BY <1>3, <2>2, <2>3, <2>4 DEF CountsAreExact
<1>7. CASE SaveProfile(s)
  <2>1. pc[s] = "save" /\ pc'[s] = "day" /\ solved' = profile[s]
        BY <1>1, <1>7 DEF SaveProfile, Lost, Go, ProgressTypes
  <2>2. \A t \in accepted : pc'[t] \notin SkillSteps
        BY <1>1, <1>2, <2>1 DEF SkillSteps, ProgressTypes
  <2>3. \A k : Stored(k)' = Creditable(k)
        BY <1>1, <2>2 DEF Stored, Creditable, SolvedProblems, Untested
  <2>4. \A t \in Submissions : pc'[t] \notin {"count", "save"}
        BY <1>1, <1>2, <2>1
  <2> QED BY <1>3, <2>1, <2>3, <2>4 DEF CountsAreExact
<1>8. ~SkillsFail(s)
      BY FaultCounts DEF SkillsFail, ProgressTypes
<1> QED BY <1>5, <1>6, <1>7, <1>8 DEF SkillStep

LEMMA ExactStep ==
  ProgressTypes /\ RowsAgree /\ OneAtATime /\ CountsAreExact /\ [Next]_vars
    => CountsAreExact'
<1> SUFFICES ASSUME ProgressTypes, RowsAgree, OneAtATime, CountsAreExact, [Next]_vars
             PROVE  CountsAreExact'
    OBVIOUS
<1>1. CASE UNCHANGED vars \/ InsertStats \/ Midnight
      BY <1>1, QuietProperties
         DEF CountsAreExact, Stored, Creditable, SolvedProblems, Untested
<1>2. ASSUME NEW s \in Submissions, Starts(s), faults' = 0, ~crossed' PROVE CountsAreExact'
  <2>1. /\ pc[s] = "idle" /\ Running = {} /\ ~crossed /\ faults = 0
        /\ UNCHANGED <<untested, profile, solved>>
        /\ pc'[s] \in {"day", "profile"}
        /\ \A t \in Submissions \ {s} : pc'[t] = pc[t]
        /\ accepted' = accepted \cup {s} /\ pc'[s] = FirstStep(s)
        BY <1>2, StartsProperties DEF ProgressTypes
  <2>2. \A t \in Submissions : pc'[t] \notin {"count", "save"}
        BY <2>1 DEF Running
  <2>3. s \notin accepted /\ \A t \in accepted : pc'[t] = pc[t]
        BY <2>1 DEF RowsAgree, ProgressTypes
  <2>4. ASSUME NEW k PROVE Stored(k)' = Stored(k)
    <3>1. ~(k \in Tags[ProblemOf[s]] /\ pc'[s] \notin SkillSteps)
          BY <2>1 DEF FirstStep, SkillSteps
    <3> QED BY <2>1, <2>3, <3>1 DEF Stored, Untested
  <2> QED BY <2>1, <2>2, <2>4 DEF CountsAreExact
<1>3. ASSUME NEW s \in Submissions, AcceptByDefault(s), faults' = 0, ~crossed'
      PROVE  CountsAreExact'
  <2>1. /\ pc[s] = "idle" /\ pc'[s] = "done" /\ ~crossed /\ faults = 0
        /\ UNCHANGED <<profile, solved>>
        /\ accepted' = accepted \cup {s} /\ untested' = untested \cup {s}
        /\ \A t \in Submissions \ {s} : pc'[t] = pc[t]
        /\ SameProblem(s) \subseteq untested
        BY <1>3, DefaultProperties DEF ProgressTypes
  <2>2. s \notin accepted /\ \A t \in accepted : pc'[t] = pc[t]
        BY <2>1 DEF RowsAgree, ProgressTypes
  <2>3. Untested' = Untested \cup {ProblemOf[s]}
        BY <2>1 DEF Untested
  <2>4. \A t \in accepted : ProblemOf[t] = ProblemOf[s] => ProblemOf[t] \in Untested
        BY <2>1 DEF Untested, SameProblem
  <2>5. ASSUME NEW k PROVE Stored(k)' = Stored(k)
        BY <2>1, <2>2, <2>3, <2>4 DEF Stored
  <2>6. ASSUME NEW k PROVE Creditable(k)' = Creditable(k)
        BY <2>1, <2>3, <2>4 DEF Creditable, SolvedProblems
  <2>7. \A t \in Submissions : pc'[t] \in {"count", "save"} => pc'[t] = pc[t]
        BY <2>1
  <2> QED BY <2>1, <2>5, <2>6, <2>7 DEF CountsAreExact
<1>4. ASSUME NEW s \in Submissions, CheckinStep(s), faults' = 0, ~crossed' PROVE CountsAreExact'
  <2>1. /\ pc[s] \in CheckinSteps /\ UNCHANGED <<accepted, untested, profile, solved>>
        /\ pc'[s] \in {"look", "insert", "read", "store", "done"}
        /\ \A t \in Submissions \ {s} : pc'[t] = pc[t]
        /\ faults = 0 /\ ~crossed
        BY <1>4, CheckinStepProperties DEF ProgressTypes
  <2>2. \A t \in Submissions : pc'[t] \in SkillSteps <=> pc[t] \in SkillSteps
        BY <2>1 DEF CheckinSteps, SkillSteps
  <2>3. \A k : Stored(k)' = Stored(k) /\ Creditable(k)' = Creditable(k)
        BY <2>1, <2>2 DEF Stored, Creditable, SolvedProblems, Untested, ProgressTypes
  <2>4. \A t \in Submissions : pc'[t] \in {"count", "save"} => pc'[t] = pc[t]
        BY <2>1
  <2> QED BY <2>1, <2>3, <2>4 DEF CountsAreExact
<1>5. CASE Crash
      BY <1>5, CrashProperties DEF CountsAreExact
<1>6. faults' # 0 \/ crossed' => CountsAreExact'
      BY DEF CountsAreExact
<1> QED BY <1>1, <1>2, <1>3, <1>4, <1>5, <1>6, NextIsOneOf, ExactOfSkills

-----------------------------------------------------------------------------
(* Least and greatest numbers, and the runs of days in a list *)

LEMMA LeastNumber ==
  ASSUME NEW S \in SUBSET Nat, S # {}
  PROVE  \E n \in S : \A m \in S : n <= m
<1>1. PICK n \in S : \A m \in S : ~(<<m, n>> \in OpToRel(<, Nat))
      BY NatLessThanWellFounded, WFMin
<1>2. \A m \in S : ~(m < n)
      BY <1>1 DEF OpToRel
<1> QED BY <1>2

LEMMA GreatestNumber ==
  ASSUME NEW S \in SUBSET Nat, S # {}, NEW b \in Nat, \A n \in S : n <= b
  PROVE  Max(S) \in S /\ \A n \in S : n <= Max(S)
<1> DEFINE bounds == {n \in Nat : \A m \in S : m <= n}
<1>1. b \in bounds
      OBVIOUS
<1>2. PICK g \in bounds : \A n \in bounds : g <= n
  <2> HIDE DEF bounds
  <2> QED BY <1>1, LeastNumber, bounds \subseteq Nat DEF bounds
<1>3. g \in S
  <2> SUFFICES ASSUME g \notin S PROVE FALSE
      OBVIOUS
  <2>1. PICK m \in S : TRUE
        OBVIOUS
  <2>2. \A n \in S : n < g
        BY <1>2
  <2>3. g - 1 \in bounds
        BY <2>1, <2>2, <1>2
  <2> QED BY <1>2, <2>3
<1>4. \A n \in S : g >= n
      BY <1>2
<1>5. Max(S) \in S /\ \A n \in S : Max(S) >= n
      BY <1>3, <1>4 DEF Max
<1> QED BY <1>5

(* A list of days, oldest first, that holds no day twice.                   *)
Strict(d, n) == \A i, j \in 1 .. n : i < j => d[i] < d[j]

LEMMA ConsecutiveDays ==
  ASSUME NEW n \in Nat, NEW d \in [1 .. n -> Nat],
         NEW i \in 1 .. n, NEW j \in 1 .. n, Consecutive(d, i, j)
  PROVE  \A k \in i .. j : d[k] = d[i] + (k - i)
<1> DEFINE wrong == {k \in Nat : k \in i .. j /\ d[k] # d[i] + (k - i)}
<1> SUFFICES ASSUME wrong # {} PROVE FALSE
    OBVIOUS
<1>1. PICK k \in wrong : \A m \in wrong : k <= m
  <2> HIDE DEF wrong
  <2> QED BY LeastNumber, wrong \in SUBSET Nat DEF wrong
<1>2. k # i
      OBVIOUS
<1>3. k - 1 \in i .. j - 1 /\ k - 1 \notin wrong
      BY <1>1, <1>2
<1>4. d[k - 1] = d[i] + (k - 1 - i) /\ d[(k - 1) + 1] = d[k - 1] + 1
      BY <1>3 DEF Consecutive
<1> QED BY <1>3, <1>4

LEMMA DaysAreConsecutive ==
  ASSUME NEW n \in Nat, NEW d \in [1 .. n -> Nat], Strict(d, n),
         NEW i \in 1 .. n, NEW k \in Nat \ {0},
         d[i] .. d[i] + k - 1 \subseteq {d[j] : j \in 1 .. n}
  PROVE  i + k - 1 <= n /\ Consecutive(d, i, i + k - 1)
<1> DEFINE wrong == {m \in Nat : m < k /\ ~(i + m <= n /\ d[i + m] = d[i] + m)}
<1>1. wrong = {}
  <2> SUFFICES ASSUME wrong # {} PROVE FALSE
      OBVIOUS
  <2>1. PICK m \in wrong : \A l \in wrong : m <= l
    <3> HIDE DEF wrong
    <3> QED BY LeastNumber, wrong \in SUBSET Nat DEF wrong
  <2>2. m # 0
        OBVIOUS
  <2>3. m - 1 \in Nat /\ m - 1 \notin wrong
        BY <2>1, <2>2
  <2>4. PICK p \in 1 .. n : p = i + (m - 1) /\ d[p] = d[i] + (m - 1)
        BY <2>3
  <2>5. d[i] + m \in d[i] .. d[i] + k - 1
        OBVIOUS
  <2>6. PICK j \in 1 .. n : d[j] = d[i] + m
        BY <2>5
  <2>7. d[p] < d[j] /\ \A l \in 1 .. n : d[l] \in Nat
        BY <2>4, <2>6
  <2>8. p < j
        BY <2>7 DEF Strict
  <2>9. p + 1 \in 1 .. n /\ p < p + 1 /\ (p + 1 = j \/ p + 1 < j)
        BY <2>8
  <2>10. d[p] < d[p + 1] /\ d[p + 1] <= d[j]
        BY <2>7, <2>9 DEF Strict
  <2>11. d[p + 1] = d[i] + m /\ p + 1 = i + m
        BY <2>4, <2>6, <2>7, <2>9, <2>10
  <2> QED BY <2>9, <2>11
<1>2. ASSUME NEW m \in Nat, m < k PROVE i + m <= n /\ d[i + m] = d[i] + m
      BY <1>1, <1>2
<1>3. i + k - 1 <= n
  <2>1. k - 1 \in Nat /\ k - 1 < k
        OBVIOUS
  <2> QED BY <1>2, <2>1
<1>4. ASSUME NEW l \in i .. (i + k - 1) - 1 PROVE d[l + 1] = d[l] + 1
  <2>1. l - i \in Nat /\ l - i + 1 \in Nat /\ l - i < k /\ l - i + 1 < k
        OBVIOUS
  <2>2. d[i + (l - i)] = d[i] + (l - i) /\ d[i + (l - i + 1)] = d[i] + (l - i + 1)
        BY <1>2, <2>1
  <2> QED BY <2>2
<1> QED BY <1>3, <1>4 DEF Consecutive

LEMMA RunsOfDays ==
  ASSUME NEW D
  PROVE  /\ LongestRun(D) \in 0 .. MaxDay
         /\ \A k \in 1 .. MaxDay :
              (\E d \in D : d .. d + k - 1 \subseteq D) => k <= LongestRun(D)
         /\ LongestRun(D) # 0 => \E d \in D : d .. d + LongestRun(D) - 1 \subseteq D
<1> DEFINE runs == {0} \cup {k \in 1 .. MaxDay : \E d \in D : d .. d + k - 1 \subseteq D}
<1>1. runs \in SUBSET Nat /\ runs # {} /\ MaxDay \in Nat /\ \A k \in runs : k <= MaxDay
      BY ProgressAssumption
<1>2. Max(runs) \in runs /\ \A k \in runs : k <= Max(runs)
  <2> HIDE DEF runs
  <2> QED BY <1>1, GreatestNumber
<1>3. LongestRun(D) = Max(runs)
      BY DEF LongestRun
<1> QED BY <1>1, <1>2, <1>3

LEMMA MoreDaysLongerRuns ==
  ASSUME NEW D, NEW E, D \subseteq E
  PROVE  LongestRun(D) <= LongestRun(E)
<1>1. CASE LongestRun(D) = 0
      BY <1>1, RunsOfDays
<1>2. CASE LongestRun(D) # 0
  <2>1. PICK d \in D : d .. d + LongestRun(D) - 1 \subseteq D
        BY <1>2, RunsOfDays
  <2>2. LongestRun(D) \in 1 .. MaxDay
        BY <1>2, RunsOfDays, ProgressAssumption
  <2>3. \E e \in E : e .. e + LongestRun(D) - 1 \subseteq E
        BY <2>1
  <2> QED BY <2>2, <2>3, RunsOfDays
<1> QED BY <1>1, <1>2

LEMMA MaxStreakOfDays ==
  ASSUME NEW d \in Seq(Nat)
  PROVE  /\ MaxStreak(d) \in 0 .. Len(d)
         /\ \A k \in 1 .. Len(d), i \in 1 .. Len(d) :
              i + k - 1 <= Len(d) /\ Consecutive(d, i, i + k - 1) => k <= MaxStreak(d)
         /\ MaxStreak(d) # 0 =>
              \E i \in 1 .. Len(d) : /\ i + MaxStreak(d) - 1 <= Len(d)
                                     /\ Consecutive(d, i, i + MaxStreak(d) - 1)
<1> DEFINE n == Len(d)
           runs == {0} \cup {k \in 1 .. n : \E i \in 1 .. n - k + 1 : Consecutive(d, i, i + k - 1)}
<1>1. runs \in SUBSET Nat /\ runs # {} /\ n \in Nat /\ \A k \in runs : k <= n
      OBVIOUS
<1>2. Max(runs) \in runs /\ \A k \in runs : k <= Max(runs)
  <2> HIDE DEF runs
  <2> QED BY <1>1, GreatestNumber
<1>3. MaxStreak(d) = Max(runs)
      BY DEF MaxStreak
<1>4. ASSUME NEW k \in 1 .. n, NEW i \in 1 .. n, i + k - 1 <= n, Consecutive(d, i, i + k - 1)
      PROVE  k \in runs
  <2>1. i \in 1 .. n - k + 1
        BY <1>1, <1>4
  <2> QED BY <1>4, <2>1
<1>5. ASSUME NEW k \in runs, k # 0
      PROVE  \E i \in 1 .. n : i + k - 1 <= n /\ Consecutive(d, i, i + k - 1)
  <2>1. PICK i \in 1 .. n - k + 1 : Consecutive(d, i, i + k - 1)
        BY <1>5
  <2>2. i \in 1 .. n /\ i + k - 1 <= n
        BY <1>1, <1>5
  <2> QED BY <2>1, <2>2
<1> HIDE DEF runs
<1>6. MaxStreak(d) \in runs /\ MaxStreak(d) \in 0 .. n
  <2>1. MaxStreak(d) \in runs
        BY <1>2, <1>3
  <2>2. MaxStreak(d) \in Nat
        BY <1>1, <2>1
  <2>3. MaxStreak(d) <= n
        BY <1>1, <2>1
  <2> QED BY <1>1, <2>1, <2>2, <2>3
<1>7. ASSUME NEW k \in 1 .. n, NEW i \in 1 .. n, i + k - 1 <= n, Consecutive(d, i, i + k - 1)
      PROVE  k <= MaxStreak(d)
      BY <1>2, <1>3, <1>4, <1>7
<1> QED BY <1>5, <1>6, <1>7

LEMMA CurrentStreakOfDays ==
  ASSUME NEW d \in Seq(Nat), NEW now \in Nat
  PROVE  CurrentStreak(d, now) \in Nat /\ CurrentStreak(d, now) <= MaxStreak(d)
<1> DEFINE n == Len(d)
           runs == {k \in 1 .. n : Consecutive(d, n - k + 1, n)}
<1>1. CASE n = 0 \/ d[n] + 1 < now
      BY <1>1, MaxStreakOfDays DEF CurrentStreak
<1>2. CASE ~(n = 0 \/ d[n] + 1 < now)
  <2>1. runs \in SUBSET Nat /\ n \in Nat /\ \A k \in runs : k <= n
        OBVIOUS
  <2>2. 1 \in runs
        BY <1>2 DEF Consecutive
  <2>3. Max(runs) \in runs
    <3> HIDE DEF runs
    <3> QED BY <2>1, <2>2, GreatestNumber
  <2>4. CurrentStreak(d, now) = Max(runs)
        BY <1>2 DEF CurrentStreak
  <2> DEFINE k == CurrentStreak(d, now)
             i == n - k + 1
  <2>5. k \in 1 .. n /\ Consecutive(d, n - k + 1, n)
        BY <2>3, <2>4
  <2>6. i \in 1 .. n /\ i + k - 1 = n
        BY <2>1, <2>5
  <2>7. Consecutive(d, i, i + k - 1)
        BY <2>5, <2>6
  <2> HIDE DEF k, i
  <2>8. k <= MaxStreak(d)
        BY <2>1, <2>5, <2>6, <2>7, MaxStreakOfDays
  <2> QED BY <2>5, <2>8 DEF k
<1> QED BY <1>1, <1>2

LEMMA StreaksAreRuns ==
  ASSUME NEW d \in Seq(1 .. MaxDay)
  PROVE  MaxStreak(d) <= LongestRun({d[i] : i \in 1 .. Len(d)})
<1> DEFINE n == Len(d)
           D == {d[i] : i \in 1 .. n}
           k == MaxStreak(d)
<1>1. d \in Seq(Nat) /\ d \in [1 .. n -> Nat] /\ n \in Nat /\ MaxDay \in Nat
      BY ProgressAssumption
<1>2. CASE k = 0
      BY <1>2, RunsOfDays
<1>3. CASE k # 0
  <2>1. k \in 1 .. n
        BY <1>1, <1>3, MaxStreakOfDays
  <2>2. PICK i \in 1 .. n : i + k - 1 <= n /\ Consecutive(d, i, i + k - 1)
        BY <1>1, <1>3, MaxStreakOfDays
  <2> HIDE DEF k
  <2>3. i + k - 1 \in 1 .. n
        BY <1>1, <2>1, <2>2
  <2>4. \A j \in i .. i + k - 1 : d[j] = d[i] + (j - i)
        BY <1>1, <2>2, <2>3, ConsecutiveDays
  <2>5. d[i] .. d[i] + k - 1 \subseteq D
    <3> SUFFICES ASSUME NEW x \in d[i] .. d[i] + k - 1 PROVE x \in D
        OBVIOUS
    <3>1. d[i] \in Nat
          BY <1>1
    <3>2. PICK j \in i .. i + k - 1 : j = i + (x - d[i])
          BY <3>1, <2>1, <2>3
    <3>3. d[j] = d[i] + (j - i)
          BY <2>4
    <3>4. d[j] = x
          BY <3>1, <3>2, <3>3, <2>1
    <3>5. j \in 1 .. n
          BY <2>1, <2>3
    <3> QED BY <3>4, <3>5
  <2>6. PICK j \in 1 .. n : j = i + k - 1 /\ d[j] = d[i] + (j - i)
        BY <1>1, <2>1, <2>3, <2>4
  <2>7. d[i] \in 1 .. MaxDay /\ d[j] \in 1 .. MaxDay /\ d[j] = d[i] + k - 1
        BY <1>1, <2>1, <2>6
  <2>10. k \in 1 .. MaxDay
        BY <1>1, <2>1, <2>7
  <2>8. d[i] \in D
        OBVIOUS
  <2> HIDE DEF D
  <2>9. k <= LongestRun(D)
        BY <2>5, <2>8, <2>10, RunsOfDays
  <2> QED BY <2>9 DEF k, D
<1> QED BY <1>2, <1>3

LEMMA RunsAreStreaks ==
  ASSUME NEW d \in Seq(1 .. MaxDay), Strict(d, Len(d))
  PROVE  LongestRun({d[i] : i \in 1 .. Len(d)}) <= MaxStreak(d)
<1> DEFINE n == Len(d)
           D == {d[i] : i \in 1 .. n}
           k == LongestRun(D)
<1>1. d \in Seq(Nat) /\ d \in [1 .. n -> Nat] /\ n \in Nat /\ MaxDay \in Nat
      BY ProgressAssumption
<1>2. k \in 0 .. MaxDay
      BY RunsOfDays
<1>3. CASE k = 0
      BY <1>1, <1>3, MaxStreakOfDays
<1>4. CASE k # 0
  <2>1. PICK x \in D : x .. x + k - 1 \subseteq D
    <3> HIDE DEF D
    <3> QED BY <1>4, RunsOfDays
  <2>2. PICK i \in 1 .. n : x = d[i]
        OBVIOUS
  <2> HIDE DEF k
  <2>3. k \in Nat \ {0}
        BY <1>1, <1>2, <1>4
  <2>4. i + k - 1 <= n /\ Consecutive(d, i, i + k - 1)
        BY <1>1, <2>1, <2>2, <2>3, DaysAreConsecutive
  <2>5. k \in 1 .. n
        BY <1>1, <2>3, <2>4
  <2>6. k <= MaxStreak(d)
        BY <1>1, <2>4, <2>5, MaxStreakOfDays
  <2> QED BY <2>6 DEF k
<1> QED BY <1>3, <1>4

LEMMA SortedDays ==
  ASSUME ProgressTypes, NEW d \in Sorted(checkins)
  PROVE  /\ d \in Seq(1 .. MaxDay)
         /\ {d[i] : i \in 1 .. Len(d)} = Days
         /\ (\A s, t \in Submissions : checkins[s] = checkins[t] /\ checkins[s] > 0 => s = t)
              => Strict(d, Len(d))
<1> DEFINE found == {t \in Submissions : checkins[t] > 0}
           n == Cardinality(found)
<1>1. n \in Nat
      BY FS_Subset, FS_CardinalityType, ProgressAssumption
<1>2. checkins \in [Submissions -> 0 .. MaxDay] /\ MaxDay \in Nat
      BY ProgressAssumption DEF ProgressTypes
<1> HIDE DEF n
<1>3. DOMAIN checkins = Submissions
      BY <1>2
<1>4. PICK o \in Bijection(1 .. n, found) :
         /\ \A i, j \in 1 .. n : i < j => checkins[o[i]] <= checkins[o[j]]
         /\ d = [i \in 1 .. n |-> checkins[o[i]]]
      BY <1>3 DEF Sorted, n
<1>5. /\ o \in [1 .. n -> found]
      /\ \A t \in found : \E i \in 1 .. n : o[i] = t
      /\ \A i, j \in 1 .. n : o[i] = o[j] => i = j
  <2> HIDE DEF found
  <2>1. o \in Bijection(1 .. n, found)
        BY <1>4
  <2>2. o \in [1 .. n -> found]
        BY <2>1, Fun_BijectionProperties
  <2>3. \A i, j \in 1 .. n : o[i] = o[j] => i = j
        BY <2>1, Fun_BijectionProperties
  <2>4. \A t \in found : \E i \in 1 .. n : o[i] = t
        BY <2>1 DEF Bijection, Surjection
  <2> QED BY <2>2, <2>3, <2>4
<1>6. \A i \in 1 .. n : checkins[o[i]] \in 1 .. MaxDay
      BY <1>2, <1>5
<1>7. d \in Seq(1 .. MaxDay) /\ Len(d) = n /\ \A i \in 1 .. n : d[i] = checkins[o[i]]
      BY <1>1, <1>4, <1>6
<1>8. ASSUME NEW x PROVE x \in Days <=> \E i \in 1 .. n : x = d[i]
  <2>1. ASSUME NEW i \in 1 .. n, x = d[i] PROVE x \in Days
        BY <2>1, <1>5, <1>6, <1>7 DEF Days
  <2>2. ASSUME x \in Days PROVE \E i \in 1 .. n : x = d[i]
    <3>1. PICK t \in Submissions : x = checkins[t] /\ x # 0
          BY <2>2 DEF Days
    <3>2. t \in found
          BY <1>2, <3>1
    <3> QED BY <1>5, <1>7, <3>1, <3>2
  <2> QED BY <2>1, <2>2
<1>9. ASSUME \A s, t \in Submissions : checkins[s] = checkins[t] /\ checkins[s] > 0 => s = t
      PROVE  Strict(d, n)
  <2> SUFFICES ASSUME NEW i \in 1 .. n, NEW j \in 1 .. n, i < j PROVE d[i] < d[j]
      BY DEF Strict
  <2>1. o[i] # o[j] /\ o[i] \in Submissions /\ o[j] \in Submissions
        BY <1>1, <1>5
  <2>2. checkins[o[i]] <= checkins[o[j]] /\ checkins[o[i]] # checkins[o[j]]
        BY <1>4, <1>6, <1>9, <2>1
  <2> QED BY <1>6, <1>7, <2>2
<1> QED BY <1>7, <1>8, <1>9

(* The orders of a set of check-ins, oldest first.                          *)
Orders(c, T) ==
  {o \in Bijection(1 .. Cardinality(T), T) :
     \A i, j \in 1 .. Cardinality(T) : i < j => c[o[i]] <= c[o[j]]}

(* There is always a list to answer with, so the step that reads the       *)
(* check-ins is never blocked.                                              *)
LEMMA CheckinsCanBeSorted ==
  ASSUME NEW c \in [Submissions -> 0 .. MaxDay]
  PROVE  Sorted(c) # {}
<1> DEFINE wrong == {n \in Nat : \E T \in SUBSET Submissions : Cardinality(T) = n /\ Orders(c, T) = {}}
<1>1. wrong = {}
  <2> SUFFICES ASSUME wrong # {} PROVE FALSE
      OBVIOUS
  <2>1. PICK n \in wrong : \A m \in wrong : n <= m
    <3> HIDE DEF wrong
    <3> QED BY LeastNumber, wrong \in SUBSET Nat DEF wrong
  <2>2. PICK T \in SUBSET Submissions : Cardinality(T) = n /\ Orders(c, T) = {}
        OBVIOUS
  <2>3. IsFiniteSet(T) /\ n \in Nat
        BY FS_Subset, ProgressAssumption
  <2>4. n # 0
    <3> SUFFICES ASSUME n = 0 PROVE FALSE
        OBVIOUS
    <3>1. T = {} /\ 1 .. n = {}
          BY <2>2, <2>3, FS_EmptySet
    <3> DEFINE o == [i \in 1 .. n |-> i]
    <3>2. o \in Bijection(1 .. n, T)
          BY <3>1 DEF Bijection, Injection, Surjection, IsInjective
    <3>3. o \in Orders(c, T)
          BY <2>2, <3>1, <3>2 DEF Orders
    <3> QED BY <2>2, <3>3
  <2> DEFINE dates == {c[t] : t \in T}
  <2>5. dates \in SUBSET Nat /\ MaxDay \in Nat /\ \A x \in dates : x <= MaxDay
        BY ProgressAssumption
  <2>6. dates # {}
    <3>1. T # {}
          BY <2>2, <2>4, FS_EmptySet
    <3> QED BY <3>1
  <2>7. Max(dates) \in dates /\ \A x \in dates : x <= Max(dates)
    <3> HIDE DEF dates
    <3> QED BY <2>5, <2>6, GreatestNumber
  <2>8. PICK last \in T : \A t \in T : c[t] <= c[last]
        BY <2>7
  <2> DEFINE U == T \ {last}
  <2>9. Cardinality(U) = n - 1 /\ U \in SUBSET Submissions
        BY <2>2, <2>3, FS_RemoveElement
  <2>10. Orders(c, U) # {}
    <3>1. n - 1 \in Nat /\ n - 1 \notin wrong
          BY <2>1, <2>3, <2>4
    <3> QED BY <2>9, <3>1
  <2>11. PICK p \in Bijection(1 .. n - 1, U) :
           \A i, j \in 1 .. n - 1 : i < j => c[p[i]] <= c[p[j]]
    <3> HIDE DEF U
    <3> QED BY <2>9, <2>10 DEF Orders
  <2>12. /\ p \in [1 .. n - 1 -> U]
         /\ \A i, j \in 1 .. n - 1 : p[i] = p[j] => i = j
         /\ \A t \in U : \E i \in 1 .. n - 1 : p[i] = t
    <3> HIDE DEF U
    <3> QED BY <2>11 DEF Bijection, Injection, Surjection, IsInjective
  <2> DEFINE o == [i \in 1 .. n |-> IF i = n THEN last ELSE p[i]]
  <2>13. \A i \in 1 .. n : i # n => i \in 1 .. n - 1
         BY <2>3
  <2>14. o \in [1 .. n -> T]
         BY <2>12, <2>13
  <2>15. \A i, j \in 1 .. n : o[i] = o[j] => i = j
         BY <2>12, <2>13
  <2>16. \A t \in T : \E i \in 1 .. n : o[i] = t
    <3> SUFFICES ASSUME NEW t \in T PROVE \E i \in 1 .. n : o[i] = t
        OBVIOUS
    <3>1. CASE t = last
          BY <3>1, <2>3, <2>4
    <3>2. CASE t # last
      <4>1. PICK i \in 1 .. n - 1 : p[i] = t
            BY <3>2, <2>12
      <4>2. i \in 1 .. n /\ i # n
            BY <2>3
      <4> QED BY <4>1, <4>2
    <3> QED BY <3>1, <3>2
  <2>17. \A i, j \in 1 .. n : i < j => c[o[i]] <= c[o[j]]
    <3> SUFFICES ASSUME NEW i \in 1 .. n, NEW j \in 1 .. n, i < j PROVE c[o[i]] <= c[o[j]]
        OBVIOUS
    <3>1. i \in 1 .. n - 1 /\ o[i] = p[i] /\ p[i] \in T
          BY <2>3, <2>12
    <3>2. CASE j = n
          BY <3>1, <3>2, <2>8
    <3>3. CASE j # n
          BY <3>1, <3>3, <2>11, <2>13
    <3> QED BY <3>2, <3>3
  <2> HIDE DEF o
  <2>18. o \in Bijection(1 .. n, T)
         BY <2>14, <2>15, <2>16 DEF Bijection, Injection, Surjection, IsInjective
  <2>19. o \in Orders(c, T)
         BY <2>2, <2>17, <2>18 DEF Orders
  <2> QED BY <2>2, <2>19
<1> DEFINE found == {t \in Submissions : c[t] > 0}
<1>2. Cardinality(found) \in Nat
      BY FS_Subset, FS_CardinalityType, ProgressAssumption
<1>3. Orders(c, found) # {}
      BY <1>1, <1>2
<1>4. DOMAIN c = Submissions
      OBVIOUS
<1> QED BY <1>3, <1>4 DEF Sorted, Orders

-----------------------------------------------------------------------------
(* The streaks *)

(* What streaks claim is in the check-ins.                                  *)
Backed(k) == k.max <= LongestRun(Days) /\ k.current <= k.max

(* Unless goroutines overlapped, a call failed or a second document was     *)
(* inserted, the stored streak is behind only between insert and store.     *)
StreaksInv ==
  /\ streak \in Streaks
  /\ computed \in [Submissions -> Streaks]
  /\ Backed(streak)
  /\ \A s \in Submissions : Backed(computed[s])
  /\ faults = 0 /\ ~crossed =>
       /\ (\A s \in Submissions : pc[s] \notin {"read", "store"}) /\ ~doubled
            => streak.max = LongestRun(Days)
       /\ \A s \in Submissions : pc[s] = "store" => computed[s].max = LongestRun(Days)

LEMMA NoStreakIsBacked == NoStreak \in Streaks /\ Backed(NoStreak)
BY RunsOfDays DEF NoStreak, Streaks, Backed

LEMMA ReadStreaks ==
  ASSUME ProgressTypes, NEW d \in Sorted(checkins)
  PROVE  /\ StreakOf(d) \in Streaks
         /\ Backed(StreakOf(d))
         /\ OneCheckinADay /\ ~crossed => StreakOf(d).max = LongestRun(Days)
<1>1. d \in Seq(1 .. MaxDay) /\ {d[i] : i \in 1 .. Len(d)} = Days
      BY SortedDays
<1>2. d \in Seq(Nat) /\ today \in Nat /\ MaxDay \in Nat
      BY <1>1, ProgressAssumption DEF ProgressTypes
<1>3. MaxStreak(d) \in Nat
      BY <1>2, MaxStreakOfDays
<1>4. CurrentStreak(d, today) \in Nat /\ CurrentStreak(d, today) <= MaxStreak(d)
      BY <1>2, CurrentStreakOfDays
<1>5. MaxStreak(d) <= LongestRun(Days)
      BY <1>1, StreaksAreRuns
<1>6. ASSUME OneCheckinADay, ~crossed PROVE MaxStreak(d) = LongestRun(Days)
  <2>1. Strict(d, Len(d))
        BY <1>6, SortedDays DEF OneCheckinADay
  <2>2. LongestRun(Days) <= MaxStreak(d)
        BY <1>1, <2>1, RunsAreStreaks
  <2>3. LongestRun(Days) \in Nat
        BY RunsOfDays
  <2> QED BY <1>3, <1>5, <2>2, <2>3
<1> QED BY <1>3, <1>4, <1>5, <1>6 DEF StreakOf, Streaks, Backed

LEMMA BackedStays ==
  ASSUME NEW k \in Streaks, Backed(k), Days \subseteq Days'
  PROVE  k.max <= LongestRun(Days') /\ k.current <= k.max
<1>1. LongestRun(Days) <= LongestRun(Days')
      BY MoreDaysLongerRuns
<1>2. LongestRun(Days) \in Nat /\ LongestRun(Days') \in Nat
      BY RunsOfDays
<1> QED BY <1>1, <1>2 DEF Backed, Streaks

LEMMA InsertAddsADay ==
  ASSUME ProgressTypes, NEW s \in Submissions, checkins[s] = 0,
         checkins' = [checkins EXCEPT ![s] = day[s]]
  PROVE  Days \subseteq Days'
<1> SUFFICES ASSUME NEW x \in Days PROVE x \in Days'
    OBVIOUS
<1>1. PICK t \in Submissions : x = checkins[t] /\ x # 0
      BY DEF Days
<1>2. checkins'[t] = x
      BY <1>1 DEF ProgressTypes
<1> QED BY <1>1, <1>2 DEF Days

LEMMA StreaksAtStart == Init => StreaksInv
<1> SUFFICES ASSUME Init PROVE StreaksInv
    OBVIOUS
<1>1. streak = NoStreak /\ computed = [s \in Submissions |-> NoStreak]
      BY DEF Init
<1>2. Days = {}
      BY DEF Init, Days
<1>3. LongestRun(Days) = 0
      BY <1>2, RunsOfDays
<1>4. \A s \in Submissions : pc[s] = "idle"
      BY DEF Init
<1> QED BY <1>1, <1>3, <1>4, NoStreakIsBacked DEF StreaksInv, NoStreak

(* The steps that leave the check-ins and the streaks alone.                *)
LEMMA StreaksQuiet ==
  ASSUME StreaksInv, UNCHANGED <<checkins, streak, computed>>, doubled => doubled',
         \/ faults' # 0
         \/ crossed'
         \/ /\ faults = 0 /\ ~crossed
            /\ \A s \in Submissions : pc[s] \in {"read", "store"} \/ pc'[s] \in {"read", "store"}
                                       => pc'[s] = pc[s]
  PROVE  StreaksInv'
<1>1. Days' = Days
      BY DEF Days
<1>2. Backed(streak)' /\ \A s \in Submissions : Backed(computed[s])'
      BY <1>1 DEF StreaksInv, Backed
<1> QED BY <1>1, <1>2 DEF StreaksInv

LEMMA StreaksOfCheckin ==
  ASSUME ProgressInv, StreaksInv, NEW s \in Submissions, CheckinStep(s)
  PROVE  StreaksInv'
<1> USE DEF ProgressInv
<1>1. /\ pc[s] \in CheckinSteps /\ crossed' = crossed
      /\ faults' = 0 => faults = 0
      /\ \A t \in Submissions \ {s} : pc'[t] = pc[t]
      BY CheckinStepProperties DEF ProgressTypes
<1>2. ASSUME ~crossed, NEW t \in Submissions, pc[t] \in {"read", "store"} PROVE t = s
  <2>1. t \in Running /\ s \in Running
        BY <1>1, <1>2 DEF Running, CheckinSteps
  <2> QED BY <1>2, <2>1 DEF OneAtATime
<1>3. CASE ReadDay(s) \/ Look(s)
  <2>1. UNCHANGED <<checkins, streak, computed, faults, doubled>>
        BY <1>3 DEF ReadDay, Look, calendar
  <2>2. pc[s] \notin {"read", "store"} /\ pc'[s] \notin {"read", "store"}
        BY <1>3 DEF ReadDay, Look, Go, ProgressTypes
  <2>3. \A t \in Submissions : pc[t] \in {"read", "store"} \/ pc'[t] \in {"read", "store"}
                               => pc'[t] = pc[t]
        BY <1>1, <2>2
  <2> QED BY <1>1, <2>1, <2>3, StreaksQuiet
<1>4. CASE InsertCheckin(s)
  <2>1. /\ UNCHANGED <<streak, computed>> /\ pc[s] = "insert" /\ pc'[s] = "read"
        /\ checkins' = [checkins EXCEPT ![s] = day[s]]
        BY <1>4 DEF InsertCheckin, Go, ProgressTypes
  <2>2. checkins[s] = 0
        BY <2>1 DEF Calendar
  <2>3. Days \subseteq Days'
        BY <2>1, <2>2, InsertAddsADay
  <2>4. Backed(streak)' /\ \A t \in Submissions : Backed(computed[t])'
        BY <2>1, <2>3, BackedStays DEF StreaksInv, Backed
  <2>5. ~crossed' => \A t \in Submissions : pc'[t] # "store"
        BY <1>1, <1>2, <2>1
  <2> QED BY <2>1, <2>4, <2>5 DEF StreaksInv
<1>5. CASE ReadCheckins(s)
  <2>1. PICK d \in Sorted(checkins) : computed' = [computed EXCEPT ![s] = StreakOf(d)]
        BY <1>5 DEF ReadCheckins
  <2>2. UNCHANGED <<streak, checkins>> /\ pc'[s] = "store"
        BY <1>5 DEF ReadCheckins, Go, ProgressTypes
  <2>3. Days' = Days
        BY <2>2 DEF Days
  <2>4. /\ StreakOf(d) \in Streaks /\ Backed(StreakOf(d))
        /\ ~crossed => StreakOf(d).max = LongestRun(Days)
        BY ReadStreaks
  <2>5. /\ computed' \in [Submissions -> Streaks]
        /\ computed'[s] = StreakOf(d)
        /\ \A t \in Submissions \ {s} : computed'[t] = computed[t]
        BY <2>1, <2>4 DEF StreaksInv
  <2>6. Backed(streak)' /\ \A t \in Submissions : Backed(computed[t])'
        BY <2>2, <2>3, <2>4, <2>5 DEF StreaksInv, Backed
  <2>7. ~crossed' => \A t \in Submissions : pc'[t] = "store" => t = s
        BY <1>1, <1>2, <2>2
  <2> QED BY <1>1, <2>2, <2>3, <2>4, <2>5, <2>6, <2>7 DEF StreaksInv
<1>6. CASE StoreStreak(s)
  <2>1. /\ streak' = computed[s] \/ (streak' = streak /\ crossed)
        /\ computed' = [computed EXCEPT ![s] = NoStreak]
        /\ UNCHANGED <<checkins, faults>> /\ pc[s] = "store" /\ pc'[s] = "done"
        BY <1>6 DEF StoreStreak, Lost, Go, ProgressTypes
  <2>2. Days' = Days
        BY <2>1 DEF Days
  <2>3. streak' \in Streaks /\ computed' \in [Submissions -> Streaks]
        BY <2>1, NoStreakIsBacked DEF StreaksInv
  <2>4. Backed(streak)' /\ \A t \in Submissions : Backed(computed[t])'
        BY <2>1, <2>2, NoStreakIsBacked DEF StreaksInv, Backed
  <2>5. ~crossed' => \A t \in Submissions : pc'[t] # "store"
        BY <1>1, <1>2, <2>1
  <2> QED BY <1>1, <2>1, <2>2, <2>3, <2>4, <2>5 DEF StreaksInv
<1>7. CASE CheckinFails(s)
  <2>1. faults' # 0
        BY <1>7, FaultCounts DEF CheckinFails, ProgressTypes
  <2>2. computed' = computed /\ streak' \in {streak, computed[s]}
        BY <1>7 DEF CheckinFails
  <2>3. Days \subseteq Days'
    <3>1. CASE checkins' = checkins
          BY <3>1 DEF Days
    <3>2. CASE checkins' # checkins
      <4>1. pc[s] = "insert" /\ checkins' = [checkins EXCEPT ![s] = day[s]]
            BY <1>7, <3>2 DEF CheckinFails
      <4>2. checkins[s] = 0
            BY <4>1 DEF Calendar
      <4> QED BY <4>1, <4>2, InsertAddsADay
    <3> QED BY <3>1, <3>2
  <2>4. Backed(streak)' /\ \A t \in Submissions : Backed(computed[t])'
        BY <2>2, <2>3, BackedStays DEF StreaksInv, Backed
  <2> QED BY <2>1, <2>2, <2>4 DEF StreaksInv
<1> QED BY <1>3, <1>4, <1>5, <1>6, <1>7 DEF CheckinStep

LEMMA StreaksStep == ProgressInv /\ StreaksInv /\ [Next]_vars => StreaksInv'
<1> SUFFICES ASSUME ProgressInv, StreaksInv, [Next]_vars PROVE StreaksInv'
    OBVIOUS
<1> USE DEF ProgressInv
<1>1. CASE UNCHANGED vars \/ Midnight
  <2>1. UNCHANGED <<pc, checkins, streak, computed, faults, crossed, doubled>>
        BY <1>1 DEF vars, calendar, Midnight
  <2> QED BY <2>1, StreaksQuiet
<1>2. ASSUME NEW s \in Submissions, Starts(s) \/ SkillStep(s) \/ AcceptByDefault(s)
      PROVE  StreaksInv'
  <2>1. /\ UNCHANGED <<checkins, streak, computed, doubled>>
        /\ (faults' = 0 => faults = 0) /\ (crossed => crossed')
        BY <1>2, StartsProperties, SkillStepProperties, DefaultProperties
  <2>2. /\ pc[s] \notin {"read", "store"} /\ pc'[s] \notin {"read", "store"}
        /\ \A t \in Submissions \ {s} : pc'[t] = pc[t]
        BY <1>2, StartsProperties, SkillStepProperties, DefaultProperties
           DEF ProgressTypes, SkillSteps
  <2>3. \A t \in Submissions : pc[t] \in {"read", "store"} \/ pc'[t] \in {"read", "store"}
                               => pc'[t] = pc[t]
        BY <2>2
  <2> QED BY <2>1, <2>2, <2>3, StreaksQuiet
<1>3. CASE InsertStats
  <2>1. UNCHANGED <<pc, checkins, computed, faults, crossed>>
        BY <1>3 DEF InsertStats
  <2>2. streak' = NoStreak /\ doubled'
        BY <1>3 DEF InsertStats
  <2>3. Days' = Days
        BY <2>1 DEF Days
  <2>4. Backed(streak)' /\ \A s \in Submissions : Backed(computed[s])'
        BY <2>1, <2>2, <2>3, NoStreakIsBacked DEF StreaksInv, Backed
  <2> QED BY <2>1, <2>2, <2>3, <2>4, NoStreakIsBacked DEF StreaksInv
<1>4. CASE Crash
  <2>1. faults' # 0 /\ UNCHANGED <<checkins, streak, computed, doubled>>
        BY <1>4, CrashProperties DEF Crash, calendar
  <2> QED BY <2>1, StreaksQuiet
<1> QED BY <1>1, <1>2, <1>3, <1>4, NextIsOneOf, StreaksOfCheckin

-----------------------------------------------------------------------------
(* The theorems *)

LEMMA ProgressInvHolds == Spec => []ProgressInv
<1>1. ProgressInv /\ [Next]_vars => ProgressInv'
      BY TypesStep, RowsStep, OneAtATimeStep, CalendarStep, BoundsStep, ExactStep DEF ProgressInv
<1> QED BY <1>1, ProgressInvAtStart, PTL DEF Spec

(* Unless goroutines overlapped, a day has one check-in at most, for any    *)
(* number of submissions, days, failures and crashes, also when midnight    *)
(* passes between the look and the insert (user_checkin.go:50-97).         *)
THEOREM DaysAreCheckedInOnce == Spec => []OneCheckinADay
<1>1. ProgressInv => OneCheckinADay
      BY DEF ProgressInv
<1> QED BY <1>1, ProgressInvHolds, PTL

(* With no failure, a goroutine that has ended leaves its day checked in,   *)
(* by itself or by another one, overlapping or not.                         *)
THEOREM NoDayIsForgotten == Spec => []EndedIsCheckedIn
<1>1. ProgressInv => EndedIsCheckedIn
      BY DEF ProgressInv, Calendar, EndedIsCheckedIn
<1> QED BY <1>1, ProgressInvHolds, PTL

(* With no failure, a skill never counts more problems than are solved,     *)
(* however many goroutines read and write back the profile at once          *)
(* (user_skills.go:79-217): a problem enters a profile with the goroutine   *)
(* that is the only accepted one of it, and there is one at most.           *)
THEOREM ProblemsAreCountedOnce == Spec => []NotCountedTwice
<1>1. ProgressInv => NotCountedTwice
  <2> SUFFICES ASSUME ProgressInv, faults = 0, NEW k \in Skills
               PROVE  solved[k] <= Cardinality(SolvedProblems(k))
      BY DEF NotCountedTwice
  <2>1. solved[k] <= Cardinality(Counted(k)) /\ solved[k] \in Nat
        BY DEF ProgressInv, CountsAreBounded, ProgressTypes
  <2> QED BY <2>1, SetsOfProblems DEF ProgressInv
<1> QED BY <1>1, ProgressInvHolds, PTL

(* If no goroutine was started while an earlier one ran, and no call        *)
(* failed, each solved problem is counted once when all have ended, but for *)
(* those that were once accepted without test cases, which are never: the   *)
(* row they leave has no goroutine (submission.go:259-264), and every later *)
(* one finds it beside its own (user_skills.go:134).                        *)
THEOREM CountsOfProblemsAreExact == Spec => []SolvedIsExact
<1>1. ProgressInv => SolvedIsExact
  <2> SUFFICES ASSUME ProgressInv, AtRest, NEW k \in Skills
               PROVE  solved[k] = Cardinality(SolvedProblems(k) \ Untested)
      BY DEF SolvedIsExact
  <2>1. solved[k] = Cardinality(Stored(k))
        BY DEF AtRest, ProgressInv, CountsAreExact
  <2>2. \A t \in accepted : pc[t] \notin SkillSteps
        BY DEF AtRest, Running, SkillSteps, ProgressInv, ProgressTypes
  <2>3. Stored(k) = SolvedProblems(k) \ Untested
        BY <2>2 DEF Stored, SolvedProblems
  <2> QED BY <2>1, <2>3
<1> QED BY <1>1, ProgressInvHolds, PTL

LEMMA StreaksInvHolds == Spec => []StreaksInv
<1> QED BY StreaksAtStart, StreaksStep, ProgressInvHolds, PTL DEF Spec

(* Every counter, day and streak stays in its range.                        *)
THEOREM ProgressTypeCorrect == Spec => []TypeOK
<1>1. ProgressInv /\ StreaksInv => TypeOK
      BY DEF ProgressInv, ProgressTypes, StreaksInv, TypeOK
<1> QED BY <1>1, ProgressInvHolds, StreaksInvHolds, PTL

(* The stored streaks never claim more days in a row than the check-ins     *)
(* hold, whatever overlaps, fails or is repeated (user_checkin.go:166-261): *)
(* a run found in a list of days is a run of days, and the check-ins only   *)
(* become more between the reading and the storing.                         *)
THEOREM StreaksAreBacked == Spec => []StreakIsBacked
<1>1. StreaksInv => StreakIsBacked
      BY DEF StreaksInv, Backed, StreakIsBacked
<1> QED BY <1>1, StreaksInvHolds, PTL

(* Unless goroutines overlapped, a call failed or a second document was     *)
(* inserted, the longest streak is exact when all of them have ended: the   *)
(* list holds no day twice, so the walk along it misses no run.             *)
THEOREM StreaksAreExact == Spec => []StreakIsExact
<1>1. StreaksInv => StreakIsExact
  <2> SUFFICES ASSUME StreaksInv, AtRest, ~doubled PROVE streak.max = LongestRun(Days)
      BY DEF StreakIsExact
  <2>1. \A s \in Submissions : pc[s] \notin {"read", "store"}
        BY DEF AtRest, Running
  <2> QED BY <2>1 DEF StreaksInv, AtRest
<1> QED BY <1>1, StreaksInvHolds, PTL
=============================================================================
