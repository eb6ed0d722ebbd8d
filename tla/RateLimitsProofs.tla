-------------------------- MODULE RateLimitsProofs --------------------------
(* Theorems about RateLimits, for any number of requests, services and      *)
(* limits.                                                                  *)
EXTENDS RateLimits, TLAPS

(* Why nobody is refused early: the stored counter, and every number about  *)
(* to be stored, lags behind the requests that have been charged.           *)
CountersLag ==
  /\ counts = NoDoc => \A r \in Requests : limiter[r] # "writing"
  /\ counts # NoDoc => \A s \in Services : counts[s] <= charged[s]
  /\ \A r \in Requests :
       limiter[r] = "writing" => write[r] <= charged[ServiceOf[r]] + 1

(* Why the limit is kept where requests do not overlap: there is one that   *)
(* decides at a time, and the stored counter is exact between them.         *)
AloneOn(s) ==
  /\ \A q, r \in Requests :
       /\ ServiceOf[q] = s /\ limiter[q] \in Undecided
       /\ ServiceOf[r] = s /\ limiter[r] \in Undecided
       => q = r
  /\ counts = NoDoc => charged[s] = 0
  /\ counts # NoDoc => counts[s] = charged[s]
  /\ charged[s] <= Limit[s]
  /\ \A r \in Requests :
       ServiceOf[r] = s /\ limiter[r] = "writing"
         => write[r] = charged[s] + 1 /\ write[r] <= Limit[s]

CountersExact == \A s \in Services : windowOpen /\ ~raced[s] => AloneOn(s)

LimitsInv == LimitsTypeOK /\ CountersLag /\ NeverRefusedEarly /\ CountersExact

LEMMA InvAtStart == LimitsInit => LimitsInv
BY LimitsAssumption
   DEF LimitsInit, LimitsInv, LimitsTypeOK, CountersLag, NeverRefusedEarly,
       CountersExact, AloneOn, LimiterStates, Undecided

LEMMA TypeStep == LimitsTypeOK /\ CountersLag /\ [LimitsNext]_limitVars => LimitsTypeOK'
<1> SUFFICES ASSUME LimitsTypeOK, CountersLag, [LimitsNext]_limitVars
             PROVE  LimitsTypeOK'
    OBVIOUS
<1> USE LimitsAssumption DEF LimitsTypeOK, LimiterStates
<1>1. ASSUME NEW r \in Requests, Ask(r) PROVE LimitsTypeOK'
      BY <1>1 DEF Ask
<1>2. ASSUME NEW r \in Requests, FindNone(r) PROVE LimitsTypeOK'
      BY <1>2 DEF FindNone
<1>3. ASSUME NEW r \in Requests, CreateDoc(r) PROVE LimitsTypeOK'
      BY <1>3 DEF CreateDoc
<1>4. ASSUME NEW r \in Requests, DuplicateDoc(r) PROVE LimitsTypeOK'
      BY <1>4 DEF DuplicateDoc
<1>5. ASSUME NEW r \in Requests, Allow(r) PROVE LimitsTypeOK'
      BY <1>5 DEF Allow, CurrentCount
<1>6. ASSUME NEW r \in Requests, Refuse(r) PROVE LimitsTypeOK'
      BY <1>6 DEF Refuse
<1>7. ASSUME NEW r \in Requests, NEW heard \in BOOLEAN, Charge(r, heard)
      PROVE  LimitsTypeOK'
  <2>1. counts \in [Services -> Nat]
        BY <1>7 DEF CountersLag, Charge
  <2> QED BY <1>7, <2>1 DEF Charge
<1>8. ASSUME NEW r \in Requests, LimiterFails(r) PROVE LimitsTypeOK'
      BY <1>8 DEF LimiterFails
<1>9. ASSUME NEW r \in Requests, Taken(r) PROVE LimitsTypeOK'
      BY <1>9 DEF Taken
<1>10. CASE HourPasses BY <1>10 DEF HourPasses
<1>11. CASE UNCHANGED limitVars BY <1>11 DEF limitVars
<1> QED BY <1>1, <1>2, <1>3, <1>4, <1>5, <1>6, <1>7, <1>8, <1>9, <1>10, <1>11
        DEF LimitsNext, LimiterStep

(* Each step keeps the counters behind.  Only Charge writes a counter, and  *)
(* it charges the request in the same step.                                 *)
LEMMA LagStep ==
  LimitsTypeOK /\ CountersLag /\ [LimitsNext]_limitVars => CountersLag'
<1> SUFFICES ASSUME LimitsTypeOK, CountersLag, [LimitsNext]_limitVars
             PROVE  CountersLag'
    OBVIOUS
<1> USE LimitsAssumption DEF LimitsTypeOK, CountersLag
<1>1. ASSUME NEW r \in Requests, Ask(r) PROVE CountersLag'
      BY <1>1 DEF Ask
<1>2. ASSUME NEW r \in Requests, FindNone(r) PROVE CountersLag'
      BY <1>2 DEF FindNone
<1>3. ASSUME NEW r \in Requests, CreateDoc(r) PROVE CountersLag'
  <2>1. counts' = [s \in Services |-> 0] /\ charged' = charged
        BY <1>3 DEF CreateDoc
  <2>2. counts' # NoDoc /\ \A s \in Services : counts'[s] <= charged'[s]
        BY <2>1
  <2>3. ASSUME NEW q \in Requests, limiter'[q] = "writing"
        PROVE  write'[q] <= charged'[ServiceOf[q]] + 1
        BY <1>3, <2>3 DEF CreateDoc
  <2> QED BY <2>2, <2>3
<1>4. ASSUME NEW r \in Requests, DuplicateDoc(r) PROVE CountersLag'
      BY <1>4 DEF DuplicateDoc
<1>5. ASSUME NEW r \in Requests, Allow(r) PROVE CountersLag'
  <2>1. CurrentCount(ServiceOf[r]) <= charged[ServiceOf[r]]
        BY <1>5 DEF Allow, CurrentCount
  <2>2. CurrentCount(ServiceOf[r]) \in Nat
        BY <1>5 DEF Allow, CurrentCount
  <2> QED BY <1>5, <2>1, <2>2 DEF Allow
<1>6. ASSUME NEW r \in Requests, Refuse(r) PROVE CountersLag'
      BY <1>6 DEF Refuse
<1>7. ASSUME NEW r \in Requests, NEW heard \in BOOLEAN, Charge(r, heard)
      PROVE  CountersLag'
  <2>1. counts \in [Services -> Nat] /\ counts # NoDoc
        BY <1>7 DEF Charge
  <2>2. \A s \in Services : charged'[s] >= charged[s]
        BY <1>7 DEF Charge
  <2>3. ASSUME NEW s \in Services PROVE counts'[s] <= charged'[s]
        BY <1>7, <2>1, <2>3 DEF Charge
  <2>4. ASSUME NEW q \in Requests, limiter'[q] = "writing"
        PROVE  write'[q] <= charged'[ServiceOf[q]] + 1
    <3>1. limiter[q] = "writing" /\ write'[q] = write[q]
          BY <1>7, <2>4 DEF Charge
    <3>2. charged'[ServiceOf[q]] \in Nat /\ ServiceOf[q] \in Services
          BY <1>7 DEF Charge
    <3> QED BY <2>2, <3>1, <3>2
  <2>5. counts' # NoDoc
        BY <1>7, <2>1 DEF Charge
  <2> QED BY <2>3, <2>4, <2>5
<1>8. ASSUME NEW r \in Requests, LimiterFails(r) PROVE CountersLag'
      BY <1>8 DEF LimiterFails
<1>9. ASSUME NEW r \in Requests, Taken(r) PROVE CountersLag'
      BY <1>9 DEF Taken
<1>10. CASE HourPasses BY <1>10 DEF HourPasses
<1>11. CASE UNCHANGED limitVars BY <1>11 DEF limitVars
<1> QED BY <1>1, <1>2, <1>3, <1>4, <1>5, <1>6, <1>7, <1>8, <1>9, <1>10, <1>11
        DEF LimitsNext, LimiterStep

(* A refusal compares a counter that lags with the limit, and charges only  *)
(* grow.                                                                    *)
LEMMA EarlyStep ==
  LimitsTypeOK /\ CountersLag /\ NeverRefusedEarly /\ [LimitsNext]_limitVars
    => NeverRefusedEarly'
<1> SUFFICES ASSUME LimitsTypeOK, CountersLag, NeverRefusedEarly,
                    [LimitsNext]_limitVars
             PROVE  NeverRefusedEarly'
    OBVIOUS
<1> USE LimitsAssumption DEF LimitsTypeOK, NeverRefusedEarly
<1>1. ASSUME NEW r \in Requests, Ask(r) PROVE NeverRefusedEarly'
      BY <1>1 DEF Ask
<1>2. ASSUME NEW r \in Requests,
             FindNone(r) \/ CreateDoc(r) \/ DuplicateDoc(r) \/ Allow(r)
      PROVE  NeverRefusedEarly'
      BY <1>2 DEF FindNone, CreateDoc, DuplicateDoc, Allow
<1>3. ASSUME NEW r \in Requests, Refuse(r) PROVE NeverRefusedEarly'
  <2>1. charged[ServiceOf[r]] >= Limit[ServiceOf[r]]
        BY <1>3 DEF Refuse, CurrentCount, CountersLag
  <2> QED BY <1>3, <2>1 DEF Refuse
<1>4. ASSUME NEW r \in Requests, NEW heard \in BOOLEAN, Charge(r, heard)
      PROVE  NeverRefusedEarly'
  <2>1. ASSUME NEW q \in Requests, limiter'[q] = "refused"
        PROVE  charged'[ServiceOf[q]] >= Limit[ServiceOf[q]]
    <3>1. limiter[q] = "refused"
          BY <1>4, <2>1 DEF Charge
    <3>2. charged'[ServiceOf[q]] >= charged[ServiceOf[q]]
          BY <1>4 DEF Charge
    <3> QED BY <1>4, <3>1, <3>2 DEF Charge
  <2> QED BY <2>1
<1>5. ASSUME NEW r \in Requests, LimiterFails(r) \/ Taken(r)
      PROVE  NeverRefusedEarly'
      BY <1>5 DEF LimiterFails, Taken
<1>6. CASE HourPasses BY <1>6 DEF HourPasses
<1>7. CASE UNCHANGED limitVars BY <1>7 DEF limitVars
<1> QED BY <1>1, <1>2, <1>3, <1>4, <1>5, <1>6, <1>7 DEF LimitsNext, LimiterStep

(* Each step keeps the counters of the services without overlap exact.      *)
LEMMA ExactStep ==
  LimitsTypeOK /\ CountersLag /\ CountersExact /\ [LimitsNext]_limitVars
    => CountersExact'
<1> SUFFICES ASSUME LimitsTypeOK, CountersLag, CountersExact,
                    [LimitsNext]_limitVars,
                    NEW s \in Services, windowOpen', ~raced'[s]
             PROVE  AloneOn(s)'
    BY DEF CountersExact
<1> USE LimitsAssumption DEF LimitsTypeOK, Undecided
<1>1. windowOpen /\ ~raced[s]
  <2>1. ASSUME NEW r \in Requests, Ask(r) PROVE windowOpen /\ ~raced[s]
        BY <2>1 DEF Ask
  <2>2. ASSUME NEW r \in Requests,
               FindNone(r) \/ CreateDoc(r) \/ DuplicateDoc(r) \/ Allow(r)
                 \/ Refuse(r) \/ (\E heard \in BOOLEAN : Charge(r, heard))
                 \/ LimiterFails(r) \/ Taken(r)
        PROVE  windowOpen /\ ~raced[s]
        BY <2>2 DEF FindNone, CreateDoc, DuplicateDoc, Allow, Refuse, Charge,
                    LimiterFails, Taken
  <2>3. CASE HourPasses BY <2>3 DEF HourPasses
  <2>4. CASE UNCHANGED limitVars BY <2>4 DEF limitVars
  <2> QED BY <2>1, <2>2, <2>3, <2>4 DEF LimitsNext, LimiterStep
<1>2. AloneOn(s)
      BY <1>1 DEF CountersExact
<1> USE <1>2 DEF AloneOn
<1>3. ASSUME NEW r \in Requests, Ask(r) PROVE AloneOn(s)'
  <2>1. ServiceOf[r] = s =>
          \A q \in Requests : ServiceOf[q] = s => limiter[q] \notin Undecided
        BY <1>3 DEF Ask
  <2>2. \A q, p \in Requests :
          /\ ServiceOf[q] = s /\ limiter'[q] \in Undecided
          /\ ServiceOf[p] = s /\ limiter'[p] \in Undecided
          => q = p
        BY <1>3, <2>1 DEF Ask
  <2> QED BY <1>3, <2>2 DEF Ask
<1>4. ASSUME NEW r \in Requests, FindNone(r) PROVE AloneOn(s)'
      BY <1>4 DEF FindNone
<1>5. ASSUME NEW r \in Requests, CreateDoc(r) PROVE AloneOn(s)'
  <2>1. counts' # NoDoc /\ counts'[s] = 0 /\ charged[s] = 0 /\ charged' = charged
        BY <1>5 DEF CreateDoc
  <2>2. ASSUME NEW q \in Requests, ServiceOf[q] = s, limiter'[q] = "writing"
        PROVE  write'[q] = charged'[s] + 1 /\ write'[q] <= Limit[s]
    <3>1. q = r
          BY <1>5, <2>2 DEF CreateDoc, CountersLag
    <3>2. write'[r] = 1 /\ Limit[s] \in Nat \ {0}
          BY <1>5 DEF CreateDoc
    <3> QED BY <3>1, <3>2, <2>1
  <2>3. \A q, p \in Requests :
          /\ ServiceOf[q] = s /\ limiter'[q] \in Undecided
          /\ ServiceOf[p] = s /\ limiter'[p] \in Undecided
          => q = p
        BY <1>5 DEF CreateDoc
  <2> QED BY <2>1, <2>2, <2>3
<1>6. ASSUME NEW r \in Requests, DuplicateDoc(r) PROVE AloneOn(s)'
      BY <1>6 DEF DuplicateDoc
<1>7. ASSUME NEW r \in Requests, Allow(r) PROVE AloneOn(s)'
  <2>1. CurrentCount(ServiceOf[r]) = counts[ServiceOf[r]]
        BY <1>1 DEF CurrentCount
  <2>2. ASSUME NEW q \in Requests, ServiceOf[q] = s, limiter'[q] = "writing"
        PROVE  write'[q] = charged'[s] + 1 /\ write'[q] <= Limit[s]
    <3>1. CASE q = r
          BY <1>7, <2>1, <2>2, <3>1 DEF Allow
    <3>2. CASE q # r
          BY <1>7, <2>2, <3>2 DEF Allow
    <3> QED BY <3>1, <3>2
  <2>3. \A q, p \in Requests :
          /\ ServiceOf[q] = s /\ limiter'[q] \in Undecided
          /\ ServiceOf[p] = s /\ limiter'[p] \in Undecided
          => q = p
        BY <1>7 DEF Allow
  <2> QED BY <1>7, <2>2, <2>3 DEF Allow
<1>8. ASSUME NEW r \in Requests, Refuse(r) PROVE AloneOn(s)'
      BY <1>8 DEF Refuse
<1>9. ASSUME NEW r \in Requests, NEW heard \in BOOLEAN, Charge(r, heard)
      PROVE  AloneOn(s)'
  <2>1. counts # NoDoc /\ counts \in [Services -> Nat] /\ counts' # NoDoc
        BY <1>9 DEF Charge, CountersLag
  <2>2. \A q, p \in Requests :
          /\ ServiceOf[q] = s /\ limiter'[q] \in Undecided
          /\ ServiceOf[p] = s /\ limiter'[p] \in Undecided
          => q = p
        BY <1>9 DEF Charge
  <2>3. CASE ServiceOf[r] = s
    <3>1. write[r] = charged[s] + 1 /\ write[r] <= Limit[s]
          BY <1>9, <2>3 DEF Charge
    <3>2. counts'[s] = write[r] /\ charged'[s] = charged[s] + 1
          BY <1>9, <2>1, <2>3 DEF Charge
    <3>3. \A q \in Requests : ServiceOf[q] = s => limiter'[q] # "writing"
          BY <1>9, <2>3 DEF Charge
    <3> QED BY <2>1, <2>2, <3>1, <3>2, <3>3
  <2>4. CASE ServiceOf[r] # s
    <3>1. counts'[s] = counts[s] /\ charged'[s] = charged[s] /\ write' = write
          BY <1>9, <2>1, <2>4 DEF Charge
    <3>2. \A q \in Requests : ServiceOf[q] = s => limiter'[q] = limiter[q]
          BY <1>9, <2>4 DEF Charge
    <3> QED BY <2>1, <2>2, <3>1, <3>2
  <2> QED BY <2>3, <2>4
<1>10. ASSUME NEW r \in Requests, LimiterFails(r) PROVE AloneOn(s)'
      BY <1>10 DEF LimiterFails
<1>11. ASSUME NEW r \in Requests, Taken(r) PROVE AloneOn(s)'
      BY <1>11 DEF Taken
<1>12. CASE HourPasses BY <1>12 DEF HourPasses
<1>13. CASE UNCHANGED limitVars BY <1>13 DEF limitVars
<1> QED BY <1>3, <1>4, <1>5, <1>6, <1>7, <1>8, <1>9, <1>10, <1>11, <1>12, <1>13
        DEF LimitsNext, LimiterStep

(* The inductive invariant holds in every state of the limiter.             *)
LEMMA Invariant == LimitsSpec => []LimitsInv
<1>1. LimitsInv /\ [LimitsNext]_limitVars => LimitsInv'
      BY TypeStep, LagStep, EarlyStep, ExactStep DEF LimitsInv
<1> QED BY InvAtStart, <1>1, PTL DEF LimitsSpec
-----------------------------------------------------------------------------
(* The variables of rate_limit.go keep their types, for any number of       *)
(* concurrent requests.                                                     *)
THEOREM LimitsTypeCorrect == LimitsSpec => []LimitsTypeOK
<1>1. LimitsInv => LimitsTypeOK
      BY DEF LimitsInv
<1> QED BY Invariant, <1>1, PTL

(* checkAndUpdateRateLimit never refuses a request before as many have been *)
(* charged as the limit allows.                                             *)
THEOREM RefusalIsDue == LimitsSpec => []NeverRefusedEarly
<1>1. LimitsInv => NeverRefusedEarly
      BY DEF LimitsInv
<1> QED BY Invariant, <1>1, PTL

(* checkAndUpdateRateLimit keeps the limit in the first hour for every      *)
(* service whose requests have not overlapped.                              *)
THEOREM LimitIsKept == LimitsSpec => []LimitKeptAlone
<1>1. LimitsInv => LimitKeptAlone
      BY DEF LimitsInv, CountersExact, AloneOn, LimitKeptAlone
<1> QED BY Invariant, <1>1, PTL
=============================================================================
