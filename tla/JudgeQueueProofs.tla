-------------------------- MODULE JudgeQueueProofs --------------------------
(***************************************************************************)
(* Proofs about JudgeQueue for any set of requests and of verdicts, any    *)
(* capacity of the channel and any number of crashes: the inductive        *)
(* invariant IInv, the safety properties it implies, the finality of       *)
(* verdicts, and the refinement of JudgeService.                           *)
(***************************************************************************)
EXTENDS JudgeQueue, SequenceTheorems, TLAPS

USE DEF disk

-----------------------------------------------------------------------------
(* Sequences as a FIFO channel uses them *)

\* Sending on the channel keeps every waiting id in its place and puts the
\* new one last (submission.go:156, 175).
LEMMA SendLast ==
  ASSUME NEW S, NEW q \in Seq(S), NEW x \in S
  PROVE  /\ Append(q, x) \in Seq(S)
         /\ Len(Append(q, x)) = Len(q) + 1
         /\ \A i \in 1 .. Len(q) : Append(q, x)[i] = q[i]
         /\ Append(q, x)[Len(q) + 1] = x
  OBVIOUS

\* Receiving takes the oldest id and moves the others up by one place
\* (submission.go:199).
LEMMA ReceiveFirst ==
  ASSUME NEW S, NEW q \in Seq(S), q # <<>>
  PROVE  /\ Head(q) \in S
         /\ Head(q) = q[1]
         /\ 1 \in 1 .. Len(q)
         /\ Tail(q) \in Seq(S)
         /\ Len(Tail(q)) = Len(q) - 1
         /\ \A i \in 1 .. Len(q) - 1 : Tail(q)[i] = q[i + 1]
  OBVIOUS

-----------------------------------------------------------------------------
(* Type correctness *)

\* At start the channel is empty, the flag clear and no goroutine runs
\* (submission.go:28-32): every variable has its type.
LEMMA InitType == Init => TypeOK
<1> SUFFICES ASSUME Init
             PROVE  TypeOK
  OBVIOUS
<1>1. queue \in Seq(Requests)
  BY EmptySeq DEF Init
<1>2. QED
  BY <1>1 DEF Init, TypeOK, HandlerStates, StarterStates, ProcessorStates

\* Every step of a handler, a starter, a processor or the machine keeps the
\* variables in their types.
LEMMA StepType == TypeOK /\ [Next]_vars => TypeOK'
<1> SUFFICES ASSUME TypeOK, [Next]_vars
             PROVE  TypeOK'
  OBVIOUS
<1> USE DEF TypeOK, HandlerStates, StarterStates, ProcessorStates
<1>1. ASSUME NEW r \in Requests, Handle(r)
      PROVE  TypeOK'
  <2>1. CASE Receive(r)
    BY <2>1 DEF Receive, HandlerStep
  <2>2. CASE Refuse(r)
    BY <2>2 DEF Refuse, HandlerStep
  <2>3. CASE InsertRow(r)
    BY <2>3 DEF InsertRow, HandlerStep
  <2>4. CASE InsertRowFails(r)
    BY <2>4 DEF InsertRowFails, HandlerStep
  <2>5. CASE SaveCode(r)
    BY <2>5 DEF SaveCode, HandlerStep
  <2>6. CASE SaveCodeFails(r)
    BY <2>6 DEF SaveCodeFails, HandlerStep
  <2>7. CASE Enqueue(r)
    <3>1. queue' \in Seq(Requests)
      BY <2>7, SendLast DEF Enqueue
    <3>2. QED
      BY <2>7, <3>1 DEF Enqueue, HandlerStep
  <2>8. QED
    BY <1>1, <2>1, <2>2, <2>3, <2>4, <2>5, <2>6, <2>7 DEF Handle
<1>2. ASSUME NEW r \in Requests, Start(r)
      PROVE  TypeOK'
  <2>1. CASE StarterLock(r) \/ SeeIdle(r) \/ LeaveRunning(r)
    BY <2>1 DEF StarterLock, SeeIdle, LeaveRunning
  <2>2. CASE SpawnProcessor(r)
    BY <2>2 DEF SpawnProcessor
  <2>3. QED
    BY <1>2, <2>1, <2>2 DEF Start
<1>3. ASSUME NEW p \in Requests, Process(p)
      PROVE  TypeOK'
  <2>1. CASE Dequeue(p)
    <3>1. Head(queue) \in Requests /\ queue' \in Seq(Requests)
      BY <2>1, ReceiveFirst DEF Dequeue
    <3>2. QED
      BY <2>1, <3>1 DEF Dequeue, ProcessorStep
  <2>2. CASE Judge(p)
    BY <2>2 DEF Judge, RecordVerdict, RecordFails, ProcessorStep
  <2>3. CASE ProcessorLock(p) \/ SeeWork(p) \/ SeeEmpty(p) \/ Stop(p)
    BY <2>3 DEF ProcessorLock, SeeWork, SeeEmpty, Stop, ProcessorStep
  <2>4. QED
    BY <1>3, <2>1, <2>2, <2>3 DEF Process
<1>4. CASE Crash
  <2>1. queue' \in Seq(Requests)
    BY <1>4, EmptySeq DEF Crash
  <2>2. handler' \in [Requests -> HandlerStates]
    BY <1>4 DEF Crash, InFlight
  <2>3. /\ starter' \in [Requests -> StarterStates]
        /\ processor' \in [Requests -> ProcessorStates]
        /\ held' \in [Requests -> Requests \cup {None}]
    BY <1>4 DEF Crash
  <2>4. crashes' \in Nat
    BY <1>4, QueueAssumption DEF Crash
  <2>5. locked' \in BOOLEAN /\ isProcessing' \in BOOLEAN
    BY <1>4 DEF Crash
  <2>6. /\ status' \in [Requests -> Verdicts \cup {NoRow, Pending}]
        /\ code' \subseteq Requests
    BY <1>4 DEF Crash
  <2>7. QED
    BY <2>1, <2>2, <2>3, <2>4, <2>5, <2>6
<1>5. CASE UNCHANGED vars
  BY <1>5 DEF vars
<1>6. QED
  BY <1>1, <1>2, <1>3, <1>4, <1>5 DEF Next

\* The variables keep their types in every behaviour.
THEOREM TypeCorrect == Spec => []TypeOK
<1>1. QED
  BY InitType, StepType, PTL DEF Spec
-----------------------------------------------------------------------------
(* The lock, the flag and the processor *)

Control ==
  /\ Mutex
  /\ Spawning
  /\ AtMostOneProcessor
  /\ FlagIsTruthful

\* At start nobody is in the critical section and isProcessing is false.
LEMMA InitControl == Init => Control
  BY DEF Init, Control, Mutex, Spawning, AtMostOneProcessor, FlagIsTruthful,
         StarterInside, ProcessorInside, Running

\* No step lets two goroutines into the critical section, starts a second
\* processor, or leaves isProcessing set without one.
LEMMA StepControl == TypeOK /\ Control /\ [Next]_vars => Control'
<1> SUFFICES ASSUME TypeOK, Control, [Next]_vars
             PROVE  Control'
  OBVIOUS
<1> USE DEF Control, Mutex, Spawning, AtMostOneProcessor, FlagIsTruthful,
            StarterInside, ProcessorInside, Running, TypeOK
<1>1. ASSUME NEW r \in Requests, Handle(r)
      PROVE  Control'
  <2>1. CASE Receive(r)
    BY <2>1 DEF Receive, HandlerStep
  <2>2. CASE Refuse(r) \/ InsertRow(r) \/ InsertRowFails(r) \/ SaveCode(r)
             \/ SaveCodeFails(r) \/ Enqueue(r)
    <3>1. UNCHANGED <<starter, processor, locked, isProcessing>>
      BY <2>2 DEF Refuse, InsertRow, InsertRowFails, SaveCode, SaveCodeFails, Enqueue
    <3>2. \A s \in Requests : handler'[s] = "absent" => handler[s] = "absent"
      BY <2>2 DEF Refuse, InsertRow, InsertRowFails, SaveCode, SaveCodeFails,
                  Enqueue, HandlerStep
    <3>3. QED
      BY <3>1, <3>2
  <2>3. QED
    BY <1>1, <2>1, <2>2 DEF Handle
<1>2. ASSUME NEW r \in Requests, Start(r)
      PROVE  Control'
  <2>1. CASE StarterLock(r)
    BY <2>1 DEF StarterLock
  <2>2. CASE SeeIdle(r)
    BY <2>2 DEF SeeIdle
  <2>3. CASE SpawnProcessor(r)
    <3>1. Running = {}
      BY <2>3 DEF SpawnProcessor
    <3>2. Running' = {r}
      BY <2>3, <3>1 DEF SpawnProcessor
    <3>3. Mutex' /\ Spawning'
      BY <2>3 DEF SpawnProcessor
    <3>4. QED
      BY <2>3, <3>2, <3>3 DEF SpawnProcessor
  <2>4. CASE LeaveRunning(r)
    BY <2>4 DEF LeaveRunning
  <2>5. QED
    BY <1>2, <2>1, <2>2, <2>3, <2>4 DEF Start
<1>3. ASSUME NEW p \in Requests, Process(p)
      PROVE  Control'
  <2>1. CASE Dequeue(p)
    BY <2>1 DEF Dequeue, ProcessorStep
  <2>2. CASE Judge(p)
    BY <2>2 DEF Judge, RecordVerdict, RecordFails, ProcessorStep
  <2>3. CASE ProcessorLock(p)
    BY <2>3 DEF ProcessorLock, ProcessorStep
  <2>4. CASE SeeWork(p)
    BY <2>4 DEF SeeWork, ProcessorStep
  <2>5. CASE SeeEmpty(p)
    BY <2>5 DEF SeeEmpty, ProcessorStep
  <2>6. CASE Stop(p)
    <3>1. Running = {p}
      BY <2>6 DEF Stop, ProcessorStep
    <3>2. Running' = {}
      BY <2>6, <3>1 DEF Stop, ProcessorStep
    <3>3. Mutex' /\ Spawning'
      BY <2>6 DEF Stop, ProcessorStep
    <3>4. QED
      BY <2>6, <3>2, <3>3 DEF Stop
  <2>7. QED
    BY <1>3, <2>1, <2>2, <2>3, <2>4, <2>5, <2>6 DEF Process
<1>4. CASE Crash
  BY <1>4 DEF Crash, InFlight
<1>5. CASE UNCHANGED vars
  BY <1>5 DEF vars
<1>6. QED
  BY <1>1, <1>2, <1>3, <1>4, <1>5 DEF Next

\* Whatever the interleaving, one processor at most, and exactly while the
\* flag says so.
THEOREM OneProcessor == Spec => [](AtMostOneProcessor /\ FlagIsTruthful)
<1>1. Init => TypeOK /\ Control
  BY InitType, InitControl
<1>2. TypeOK /\ Control /\ [Next]_vars => TypeOK' /\ Control'
  BY StepType, StepControl
<1>3. Control => AtMostOneProcessor /\ FlagIsTruthful
  BY DEF Control
<1>4. QED
  BY <1>1, <1>2, <1>3, PTL DEF Spec

\* isProcessing is set exactly while a processor runs: it is never left set by
\* one that ended, however spawns and ends interleave (submission.go:187-212).
THEOREM FlagTellsTheTruth == Spec => []FlagIsTruthful
BY OneProcessor, PTL
-----------------------------------------------------------------------------
(* How the set of unfinished submissions changes *)

Distinct == \A i, j \in 1 .. Len(queue) : queue[i] = queue[j] => i = j

\* A send adds its own id to the channel, which stays free of duplicates if
\* the id was not there.
LEMMA AfterEnqueue ==
  ASSUME TypeOK, NEW r \in Requests, Enqueue(r)
  PROVE  /\ Queued' = Queued \cup {r}
         /\ BeingJudged' = BeingJudged
         /\ Distinct /\ r \notin Queued => Distinct'
<1>1. /\ Len(queue') = Len(queue) + 1
      /\ \A i \in 1 .. Len(queue) : queue'[i] = queue[i]
      /\ queue'[Len(queue) + 1] = r
      /\ Len(queue) \in Nat
  BY SendLast, LenProperties DEF Enqueue, TypeOK
<1>2. 1 .. Len(queue') = (1 .. Len(queue)) \cup {Len(queue) + 1}
  BY <1>1
<1>3. Queued' = Queued \cup {r}
  BY <1>1, <1>2 DEF Queued
<1>4. BeingJudged' = BeingJudged
  BY DEF Enqueue, BeingJudged, Busy
<1>5. Distinct /\ r \notin Queued => Distinct'
  BY <1>1, <1>2 DEF Distinct, Queued
<1>6. QED
  BY <1>3, <1>4, <1>5

\* A receive moves the oldest id from the channel into the processor's hands.
LEMMA AfterDequeue ==
  ASSUME TypeOK, AtMostOneProcessor, NEW p \in Requests, Dequeue(p)
  PROVE  /\ Head(queue) \in Requests
         /\ Queued = Queued' \cup {Head(queue)}
         /\ BeingJudged = {}
         /\ BeingJudged' = {Head(queue)}
         /\ Busy' = {p}
         /\ Distinct => Distinct' /\ Head(queue) \notin Queued'
<1>1. /\ Head(queue) \in Requests
      /\ Head(queue) = queue[1]
      /\ 1 \in 1 .. Len(queue)
      /\ Len(queue') = Len(queue) - 1
      /\ \A i \in 1 .. Len(queue) - 1 : queue'[i] = queue[i + 1]
      /\ Len(queue) \in Nat
  BY ReceiveFirst, LenProperties DEF Dequeue, TypeOK
<1>2. Queued = Queued' \cup {Head(queue)}
  <2>1. \A i \in 1 .. Len(queue) : i = 1 \/ (i - 1 \in 1 .. Len(queue') /\ queue[i] = queue'[i - 1])
    BY <1>1
  <2>2. \A i \in 1 .. Len(queue') : i + 1 \in 1 .. Len(queue) /\ queue'[i] = queue[i + 1]
    BY <1>1
  <2>3. QED
    BY <1>1, <2>1, <2>2 DEF Queued
<1>3. Running = {p} /\ processor[p] = "receiving"
  BY DEF AtMostOneProcessor, Running, Dequeue, ProcessorStep
<1>4. Busy = {} /\ Busy' = {p}
  BY <1>3 DEF Busy, Running, Dequeue, ProcessorStep, TypeOK
<1>5. BeingJudged = {} /\ BeingJudged' = {Head(queue)}
  BY <1>4 DEF BeingJudged, Dequeue, TypeOK
<1>6. Distinct => Distinct' /\ Head(queue) \notin Queued'
  BY <1>1 DEF Distinct, Queued
<1>7. QED
  BY <1>1, <1>2, <1>4, <1>5, <1>6

\* Finishing a submission takes it out of the processor's hands; there was no
\* other.
LEMMA AfterJudge ==
  ASSUME TypeOK, AtMostOneProcessor, NEW p \in Requests, Judge(p)
  PROVE  /\ Queued' = Queued
         /\ Busy = {p}
         /\ BeingJudged = {held[p]}
         /\ Busy' = {}
         /\ BeingJudged' = {}
         /\ Distinct' = Distinct
<1>1. processor[p] = "judging" /\ processor' = [processor EXCEPT ![p] = "checking"]
  BY DEF Judge, RecordVerdict, RecordFails, ProcessorStep
<1>2. queue' = queue
  BY DEF Judge, RecordVerdict, RecordFails
<1>3. Busy = {p} /\ Busy' = {}
  BY <1>1 DEF AtMostOneProcessor, Running, Busy, TypeOK
<1>4. QED
  BY <1>2, <1>3 DEF BeingJudged, Queued, Distinct
-----------------------------------------------------------------------------
(* The work of the judge *)

Readiness ==
  /\ Phases
  /\ Work
  /\ WorkIsReady
  /\ NoDuplicateWork
  /\ AcceptedIsTracked

\* At start there are no rows, and nothing waits or is being judged.
LEMMA InitReadiness == Init => Readiness
<1> SUFFICES ASSUME Init
             PROVE  Readiness
  OBVIOUS
<1>1. Queued = {} /\ Busy = {} /\ BeingJudged = {}
  BY DEF Init, Queued, Busy, BeingJudged
<1>2. Phases
  BY QueueAssumption DEF Init, Phases
<1>3. QED
  BY <1>1, <1>2 DEF Init, Readiness, Work, Unfinished, WorkIsReady,
                    NoDuplicateWork, AcceptedIsTracked

\* Only a complete, undecided submission reaches the processor, once, and it
\* leaves with a verdict unless the database fails.
LEMMA StepReadiness ==
  TypeOK /\ Control /\ Readiness /\ [Next]_vars => Readiness'
<1> SUFFICES ASSUME TypeOK, Control, Readiness, [Next]_vars
             PROVE  Readiness'
  OBVIOUS
<1>a. AtMostOneProcessor
  BY DEF Control
<1> USE QueueAssumption DEF Readiness, Phases, Work, WorkIsReady, NoDuplicateWork,
            AcceptedIsTracked, Unfinished
<1>1. ASSUME NEW r \in Requests, Handle(r)
      PROVE  Readiness'
  <2>1. CASE Enqueue(r)
    <3>1. /\ Queued' = Queued \cup {r}
          /\ BeingJudged' = BeingJudged
          /\ Distinct /\ r \notin Queued => Distinct'
      BY <2>1, AfterEnqueue
    <3>2. handler[r] = "sending" /\ handler' = [handler EXCEPT ![r] = "accepted"]
      BY <2>1 DEF Enqueue, HandlerStep
    <3>3. r \notin Unfinished
      BY <3>2
    <3>4. NoDuplicateWork'
      BY <3>1, <3>3 DEF Distinct
    <3>5. UNCHANGED <<status, code, held, processor, crashes>> /\ Busy' = Busy
      BY <2>1 DEF Enqueue, Busy
    <3>6. Phases' /\ Work' /\ WorkIsReady' /\ AcceptedIsTracked'
      BY <3>1, <3>2, <3>5 DEF TypeOK
    <3>7. QED
      BY <3>4, <3>6
  <2>2. CASE ~Enqueue(r)
    <3>1. UNCHANGED <<processor, held, queue, crashes>>
      BY <1>1, <2>2 DEF Handle, Receive, Refuse, InsertRow, InsertRowFails,
                        SaveCode, SaveCodeFails
    <3>2. Queued' = Queued /\ BeingJudged' = BeingJudged /\ Busy' = Busy
      BY <3>1 DEF Queued, BeingJudged, Busy
    <3>3. handler[r] # "accepted" /\ handler'[r] # "accepted"
      BY <1>1, <2>2 DEF Handle, Receive, Refuse, InsertRow, InsertRowFails,
                        SaveCode, SaveCodeFails, HandlerStep, TypeOK
    <3>4. r \notin Unfinished
      BY <3>3
    <3>5. \A s \in Requests \ {r} : handler'[s] = handler[s] /\ status'[s] = status[s]
      BY <1>1, <2>2 DEF Handle, Receive, Refuse, InsertRow, InsertRowFails,
                        SaveCode, SaveCodeFails, HandlerStep, TypeOK
    <3>6. code \subseteq code'
      BY <1>1, <2>2 DEF Handle, Receive, Refuse, InsertRow, InsertRowFails,
                        SaveCode, SaveCodeFails
    <3>7. /\ handler'[r] \in {"absent", "received"} => status'[r] = NoRow
          /\ handler'[r] \in {"inserted", "sending"} => status'[r] = Pending
          /\ handler'[r] = "sending" => r \in code'
          /\ status'[r] \notin Verdicts
      <4>1. CASE Receive(r) \/ Refuse(r)
        BY <4>1 DEF Receive, Refuse, HandlerStep, TypeOK
      <4>2. CASE InsertRow(r) \/ InsertRowFails(r)
        BY <4>2 DEF InsertRow, InsertRowFails, HandlerStep, TypeOK
      <4>3. CASE SaveCode(r) \/ SaveCodeFails(r)
        BY <4>3 DEF SaveCode, SaveCodeFails, HandlerStep, TypeOK
      <4>4. QED
        BY <1>1, <2>2, <4>1, <4>2, <4>3 DEF Handle
    <3>8. Phases'
      BY <3>5, <3>6, <3>7
    <3>9. Work' /\ WorkIsReady' /\ NoDuplicateWork' /\ AcceptedIsTracked'
      <4>1. Unfinished \subseteq Requests \ {r}
        BY <3>4 DEF Queued, BeingJudged, TypeOK
      <4>2. Unfinished' = Unfinished
        BY <3>2
      <4>3. QED
        BY <3>1, <3>2, <3>3, <3>5, <3>6, <4>1, <4>2
    <3>10. QED
      BY <3>8, <3>9
  <2>3. QED
    BY <2>1, <2>2
<1>2. ASSUME NEW r \in Requests, Start(r)
      PROVE  Readiness'
  <2>1. UNCHANGED <<handler, held, queue, status, code, crashes>>
    BY <1>2 DEF Start, StarterLock, SeeIdle, SpawnProcessor, LeaveRunning
  <2>2. Busy' = Busy
    BY <1>2 DEF Start, StarterLock, SeeIdle, SpawnProcessor, LeaveRunning, Busy,
                Control, Spawning, TypeOK
  <2>3. Queued' = Queued /\ BeingJudged' = BeingJudged
    BY <2>1, <2>2 DEF Queued, BeingJudged
  <2>4. QED
    BY <2>1, <2>2, <2>3
<1>3. ASSUME NEW p \in Requests, Process(p)
      PROVE  Readiness'
  <2>1. CASE Dequeue(p)
    <3>1. /\ Queued = Queued' \cup {Head(queue)}
          /\ BeingJudged = {}
          /\ BeingJudged' = {Head(queue)}
          /\ Busy' = {p}
          /\ Distinct => Distinct' /\ Head(queue) \notin Queued'
          /\ Head(queue) \in Requests
      BY <1>a, <2>1, AfterDequeue
    <3>2. UNCHANGED <<handler, status, code, crashes>> /\ held'[p] = Head(queue)
      BY <2>1 DEF Dequeue, TypeOK
    <3>3. Unfinished' = Unfinished
      BY <3>1
    <3>4. NoDuplicateWork'
      BY <3>1 DEF Distinct
    <3>5. QED
      BY <3>1, <3>2, <3>3, <3>4
  <2>2. CASE Judge(p)
    <3>1. /\ Queued' = Queued
          /\ Busy = {p}
          /\ BeingJudged = {held[p]}
          /\ Busy' = {}
          /\ BeingJudged' = {}
          /\ Distinct' = Distinct
      BY <1>a, <2>2, AfterJudge
    <3>2. UNCHANGED <<handler, queue, code, crashes>>
      BY <2>2 DEF Judge, RecordVerdict, RecordFails
    <3>3. held[p] \in Requests /\ handler[held[p]] = "accepted" /\ held[p] \notin Queued
      BY <3>1
    <3>4. \A r \in Requests \ {held[p]} : status'[r] = status[r]
      BY <2>2, <3>3 DEF Judge, RecordVerdict, RecordFails, TypeOK
    <3>5. ~Faults => status'[held[p]] \in Verdicts
      BY <2>2, <3>3 DEF Judge, RecordVerdict, RecordFails, TypeOK
    <3>6. Phases'
      BY <3>2, <3>3, <3>4
    <3>7. Work' /\ WorkIsReady' /\ NoDuplicateWork'
      <4>1. Unfinished' \subseteq Requests \ {held[p]}
        BY <3>1, <3>3 DEF Queued, TypeOK
      <4>2. Unfinished' \subseteq Unfinished
        BY <3>1
      <4>3. QED
        BY <3>1, <3>2, <3>4, <4>1, <4>2
    <3>8. AcceptedIsTracked'
      BY <3>1, <3>2, <3>4, <3>5
    <3>9. QED
      BY <3>6, <3>7, <3>8
  <2>3. CASE ProcessorLock(p) \/ SeeWork(p) \/ SeeEmpty(p) \/ Stop(p)
    <3>1. UNCHANGED <<handler, held, queue, status, code, crashes>>
      BY <2>3 DEF ProcessorLock, SeeWork, SeeEmpty, Stop
    <3>2. Busy' = Busy
      BY <2>3 DEF ProcessorLock, SeeWork, SeeEmpty, Stop, ProcessorStep, Busy, TypeOK
    <3>3. Queued' = Queued /\ BeingJudged' = BeingJudged
      BY <3>1, <3>2 DEF Queued, BeingJudged
    <3>4. QED
      BY <3>1, <3>2, <3>3
  <2>4. QED
    BY <1>3, <2>1, <2>2, <2>3 DEF Process
<1>4. CASE Crash
  <2>1. Queued' = {} /\ Busy' = {} /\ BeingJudged' = {}
    BY <1>4 DEF Crash, Queued, Busy, BeingJudged
  <2>2. UNCHANGED <<status, code>> /\ crashes' # 0
    BY <1>4 DEF Crash, TypeOK
  <2>3. \A r \in Requests :
          /\ handler[r] = "accepted" => handler'[r] = "accepted"
          /\ handler'[r] = "absent" => handler[r] = "absent"
          /\ handler'[r] \notin {"received", "inserted", "sending"}
    BY <1>4 DEF Crash, InFlight
  <2>4. Phases'
    BY <2>2, <2>3
  <2>5. queue' = <<>> /\ NoDuplicateWork'
    <3>1. queue' = <<>> /\ Len(queue') = 0
      BY <1>4 DEF Crash
    <3>2. QED
      BY <2>1, <3>1
  <2>6. QED
    BY <2>1, <2>2, <2>4, <2>5
<1>5. CASE UNCHANGED vars
  <2>1. Queued' = Queued /\ Busy' = Busy /\ BeingJudged' = BeingJudged
    BY <1>5 DEF vars, Queued, Busy, BeingJudged
  <2>2. QED
    BY <1>5, <2>1 DEF vars
<1>6. QED
  BY <1>1, <1>2, <1>3, <1>4, <1>5 DEF Next

\* The inductive invariant holds in every reachable state: Type correctness,
\* then Control, then Readiness, each resting on the ones before it.
LEMMA Invariance == Spec => []IInv
<1> DEFINE Inv == TypeOK /\ Control /\ Readiness
<1>1. Init => Inv
  BY InitType, InitControl, InitReadiness
<1>2. Inv /\ [Next]_vars => Inv'
  BY StepType, StepControl, StepReadiness
<1>3. Inv => IInv
  BY DEF IInv, Control, Readiness
<1> HIDE DEF Inv
<1>4. QED
  BY <1>1, <1>2, <1>3, PTL DEF Spec

\* The processor receives only complete submissions without a verdict, and
\* each of them once.
THEOREM WorkSafety == Spec => [](WorkIsReady /\ NoDuplicateWork)
<1>1. IInv => WorkIsReady /\ NoDuplicateWork
  BY DEF IInv
<1>2. QED
  BY <1>1, Invariance, PTL

\* No id is in the channel twice, or in the channel while it is being judged.
THEOREM NothingIsQueuedTwice == Spec => []NoDuplicateWork
BY WorkSafety, PTL

\* Without failures and crashes no accepted submission drops out between the
\* channel and its verdict.
THEOREM NothingDropped == Spec => []AcceptedIsTracked
<1>1. IInv => AcceptedIsTracked
  BY DEF IInv
<1>2. QED
  BY <1>1, Invariance, PTL

\* A verdict, once written, stays.
THEOREM VerdictsStay == Spec => VerdictIsFinal
<1> DEFINE Stays == \A r \in Requests : status[r] \in Verdicts => status'[r] = status[r]
<1>1. IInv /\ [Next]_vars => [Stays]_vars
  <2> SUFFICES ASSUME IInv, [Next]_vars
               PROVE  Stays
    OBVIOUS
  <2>1. TypeOK /\ Phases /\ Work /\ WorkIsReady
    BY DEF IInv
  <2>2. ASSUME NEW r \in Requests, Handle(r)
        PROVE  Stays
    <3>1. status[r] \in Verdicts => handler[r] = "accepted"
      BY <2>1 DEF Phases
    <3>2. \A s \in Requests \ {r} : status'[s] = status[s]
      BY <2>1, <2>2 DEF Handle, Receive, Refuse, InsertRow, InsertRowFails, SaveCode,
                        SaveCodeFails, Enqueue, TypeOK
    <3>3. handler[r] # "accepted"
      BY <2>2 DEF Handle, Receive, Refuse, InsertRow, InsertRowFails, SaveCode,
                  SaveCodeFails, Enqueue, HandlerStep
    <3>4. QED
      BY <3>1, <3>2, <3>3
  <2>3. ASSUME NEW p \in Requests, Judge(p)
        PROVE  Stays
    <3>1. p \in Busy /\ held[p] \in BeingJudged
      BY <2>3 DEF Judge, RecordVerdict, RecordFails, ProcessorStep, Busy, BeingJudged
    <3>2. status[held[p]] = Pending
      BY <2>1, <3>1 DEF WorkIsReady, Unfinished
    <3>3. \A s \in Requests \ {held[p]} : status'[s] = status[s]
      BY <2>1, <2>3 DEF Judge, RecordVerdict, RecordFails, TypeOK
    <3>4. QED
      BY <3>2, <3>3, QueueAssumption
  <2>4. ASSUME NEW r \in Requests,
               \/ Start(r)
               \/ Dequeue(r) \/ ProcessorLock(r) \/ SeeWork(r) \/ SeeEmpty(r) \/ Stop(r)
        PROVE  Stays
    BY <2>4 DEF Start, StarterLock, SeeIdle, SpawnProcessor, LeaveRunning, Dequeue,
                ProcessorLock, SeeWork, SeeEmpty, Stop
  <2>5. CASE Crash \/ UNCHANGED vars
    BY <2>5 DEF Crash, vars
  <2>6. QED
    BY <2>2, <2>3, <2>4, <2>5 DEF Next, Process
<1>2. QED
  BY <1>1, Invariance, PTL DEF Spec, VerdictIsFinal
-----------------------------------------------------------------------------
(* JudgeQueue implements JudgeService *)

Accepted == {r \in Requests : handler[r] = "accepted"}

\* The submission in a processor's hands stands before those in the channel.
LEMMA BacklogShape ==
  /\ BeingJudged = {} => InHand = <<>>
  /\ \A r : BeingJudged = {r} => InHand = <<r>>
<1>1. ASSUME NEW r, BeingJudged = {r}
      PROVE  InHand = <<r>>
  BY <1>1 DEF InHand
<1>2. QED
  BY <1>1 DEF InHand

\* Prepending the submission in hand to the rest of the channel.
LEMMA HeadBefore ==
  ASSUME NEW S, NEW x \in S, NEW q \in Seq(S)
  PROVE  /\ <<x>> \o q \in Seq(S)
         /\ <<x>> \o q # <<>>
         /\ Head(<<x>> \o q) = x
         /\ Tail(<<x>> \o q) = q
         /\ Len(<<x>> \o q) = Len(q) + 1
  OBVIOUS

\* Every initial state is one of the service, every step a step of it.
THEOREM Refinement == Spec => ImplementsService
<1>1. Init => Service!Init
  <2> SUFFICES ASSUME Init
               PROVE  Service!Init
    OBVIOUS
  <2>1. BeingJudged = {}
    BY DEF Init, BeingJudged, Busy
  <2>2. InHand \o queue = <<>>
    BY <2>1, BacklogShape, EmptySeq, ConcatEmptySeq DEF Init
  <2>3. Accepted = {}
    BY DEF Init, Accepted
  <2>4. QED
    BY <2>2, <2>3 DEF Init, Service!Init, Accepted
<1>2. IInv /\ IInv' /\ [Next]_vars => [Service!Next]_(Service!svars)
  <2> SUFFICES ASSUME IInv, IInv', [Next]_vars
               PROVE  Service!Next \/ UNCHANGED Service!svars
    OBVIOUS
  <2>a. TypeOK /\ Control /\ Phases /\ Work /\ WorkIsReady /\ AtMostOneProcessor
    BY DEF IInv, Control
  <2> DEFINE Backlog == InHand \o queue
  <2>1. ASSUME NEW r \in Requests, Handle(r)
        PROVE  Service!Next \/ UNCHANGED Service!svars
    <3>1. CASE Enqueue(r)
      <4>1. BeingJudged' = BeingJudged /\ InHand' = InHand
        <5>1. BeingJudged' = BeingJudged
          BY <2>a, <3>1, AfterEnqueue
        <5>2. QED
          BY <5>1 DEF InHand
      <4>2. InHand \in Seq(Requests) /\ Len(InHand) <= 1
        <5>1. CASE BeingJudged = {}
          BY <5>1, BacklogShape, EmptySeq
        <5>2. CASE BeingJudged # {}
          <6>1. PICK p \in Busy : held[p] \in BeingJudged
            BY <5>2 DEF BeingJudged
          <6>2. BeingJudged = {held[p]}
            BY <2>a, <6>1 DEF BeingJudged, Busy, AtMostOneProcessor, Running
          <6>3. held[p] \in Requests
            BY <2>a, <6>1 DEF Work
          <6>4. InHand = <<held[p]>>
            BY <6>2, BacklogShape
          <6>5. QED
            BY <6>3, <6>4
        <5>3. QED
          BY <5>1, <5>2
      <4>3. queue \in Seq(Requests) /\ Len(queue) < QueueCap /\ queue' = Append(queue, r)
        BY <2>a, <3>1 DEF Enqueue, TypeOK
      <4>4. Backlog \in Seq(Requests) /\ Len(Backlog) <= QueueCap
        BY <4>2, <4>3, ConcatProperties, LenProperties, QueueAssumption
      <4>5. Backlog' = Append(Backlog, r)
        BY <4>1, <4>2, <4>3
      <4>6. Accepted' = Accepted \cup {r} /\ r \notin Accepted
        BY <2>a, <3>1 DEF Enqueue, HandlerStep, Accepted, TypeOK
      <4>7. status[r] = Pending /\ status' = status
        BY <2>a, <3>1 DEF Enqueue, HandlerStep, Phases
      <4>8. Service!Accept(r)
        BY <4>4, <4>5, <4>6, <4>7 DEF Service!Accept, Accepted
      <4>9. QED
        BY <4>8 DEF Service!Next
    <3>2. CASE ~Enqueue(r)
      <4>1. UNCHANGED <<processor, held, queue>>
        BY <2>1, <3>2 DEF Handle, Receive, Refuse, InsertRow, InsertRowFails, SaveCode,
                          SaveCodeFails
      <4>2. Backlog' = Backlog
        BY <4>1 DEF InHand, BeingJudged, Busy
      <4>3. Accepted' = Accepted
        BY <2>a, <2>1, <3>2 DEF Handle, Receive, Refuse, InsertRow, InsertRowFails,
                          SaveCode, SaveCodeFails, HandlerStep, Accepted, TypeOK
      <4>4. \/ status' = status
            \/ status[r] = NoRow /\ status' = [status EXCEPT ![r] = Pending]
        BY <2>a, <2>1, <3>2 DEF Handle, Receive, Refuse, InsertRow, InsertRowFails,
                          SaveCode, SaveCodeFails, HandlerStep, Phases
      <4>5. CASE status' = status
        BY <4>2, <4>3, <4>5 DEF Service!svars, Accepted
      <4>6. CASE status[r] = NoRow /\ status' = [status EXCEPT ![r] = Pending]
        <5>1. Service!Submit(r)
          BY <4>2, <4>3, <4>6 DEF Service!Submit, Accepted
        <5>2. QED
          BY <5>1 DEF Service!Next
      <4>7. QED
        BY <4>4, <4>5, <4>6
    <3>3. QED
      BY <3>1, <3>2
  <2>2. ASSUME NEW p \in Requests, Dequeue(p)
        PROVE  UNCHANGED Service!svars
    <3>1. InHand = <<>> /\ InHand' = <<Head(queue)>> /\ queue \in Seq(Requests)
      BY <2>a, <2>2, AfterDequeue, BacklogShape DEF TypeOK, InHand
    <3>2. queue # <<>> /\ queue' = Tail(queue)
      BY <2>2 DEF Dequeue
    <3>3. Backlog' = Backlog
      <4>1. Backlog = queue
        BY <3>1
      <4>2. <<Head(queue)>> \o Tail(queue) = queue
        BY <3>1, <3>2
      <4>3. QED
        BY <3>1, <3>2, <4>1, <4>2
    <3>4. UNCHANGED <<handler, status>>
      BY <2>2 DEF Dequeue
    <3>5. QED
      BY <3>3, <3>4 DEF Service!svars
  <2>3. ASSUME NEW p \in Requests, Judge(p)
        PROVE  Service!Next
    <3>1. /\ held[p] \in Requests
          /\ status[held[p]] = Pending
          /\ InHand = <<held[p]>>
          /\ InHand' = <<>>
      <4>1. BeingJudged = {held[p]} /\ BeingJudged' = {} /\ Busy = {p}
        BY <2>a, <2>3, AfterJudge
      <4>2. held[p] \in Requests /\ status[held[p]] = Pending
        BY <2>a, <4>1 DEF Work, WorkIsReady, Unfinished
      <4>3. QED
        BY <4>1, <4>2, BacklogShape DEF InHand
    <3>2. queue' = queue /\ queue \in Seq(Requests) /\ handler' = handler
      BY <2>a, <2>3 DEF Judge, RecordVerdict, RecordFails, TypeOK
    <3>3. Backlog # <<>> /\ Head(Backlog) = held[p] /\ Tail(Backlog) = queue
      BY <3>1, <3>2, HeadBefore
    <3>4. Backlog' = Tail(Backlog)
      BY <3>1, <3>2, <3>3
    <3>5. ASSUME NEW v \in Verdicts, RecordVerdict(p, v)
          PROVE  Service!Next
      <4>1. Service!Decide(v)
        BY <3>1, <3>2, <3>3, <3>4, <3>5 DEF RecordVerdict, Service!Decide
      <4>2. QED
        BY <4>1 DEF Service!Next
    <3>6. CASE RecordFails(p)
      <4>1. Service!Abandon
        BY <3>2, <3>3, <3>4, <3>6 DEF RecordFails, Service!Abandon
      <4>2. QED
        BY <4>1 DEF Service!Next
    <3>7. QED
      BY <2>3, <3>5, <3>6 DEF Judge
  <2>4. ASSUME NEW r \in Requests,
               \/ Start(r)
               \/ ProcessorLock(r) \/ SeeWork(r) \/ SeeEmpty(r) \/ Stop(r)
        PROVE  UNCHANGED Service!svars
    <3>1. UNCHANGED <<handler, held, queue, status>>
      BY <2>4 DEF Start, StarterLock, SeeIdle, SpawnProcessor, LeaveRunning,
                  ProcessorLock, SeeWork, SeeEmpty, Stop
    <3>2. Busy' = Busy
      BY <2>a, <2>4 DEF Start, StarterLock, SeeIdle, SpawnProcessor, LeaveRunning,
                  ProcessorLock, SeeWork, SeeEmpty, Stop, ProcessorStep, Busy,
                  Control, Spawning, TypeOK
    <3>3. QED
      BY <3>1, <3>2 DEF Service!svars, InHand, BeingJudged
  <2>5. CASE Crash
    <3>1. BeingJudged' = {} /\ queue' = <<>> /\ status' = status
      BY <2>5 DEF Crash, BeingJudged, Busy
    <3>2. Backlog' = <<>>
      BY <3>1, BacklogShape, EmptySeq, ConcatEmptySeq DEF InHand
    <3>3. Accepted' = Accepted
      BY <2>5 DEF Crash, Accepted, InFlight
    <3>4. Service!Restart
      BY <3>1, <3>2, <3>3 DEF Service!Restart, Accepted
    <3>5. QED
      BY <3>4 DEF Service!Next
  <2>6. CASE UNCHANGED vars
    BY <2>6 DEF vars, Service!svars, InHand, BeingJudged, Busy
  <2>7. QED
    BY <2>1, <2>2, <2>3, <2>4, <2>5, <2>6 DEF Next, Process
<1>3. QED
  BY <1>1, <1>2, Invariance, PTL DEF Spec, ImplementsService, Service!Spec
=============================================================================
