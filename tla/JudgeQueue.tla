----------------------------- MODULE JudgeQueue -----------------------------
(***************************************************************************)
(* The submission queue of backend/internal/handlers/submission.go.        *)
(*                                                                         *)
(* Each POST /submit runs in a goroutine of its own (handler).  Before it  *)
(* looks at the request it spawns a second goroutine that runs             *)
(* startSubmissionProcessor (starter), which, under submissionQueueLock,   *)
(* spawns processSubmissionQueue (processor) unless isProcessing is set.   *)
(* The handler later inserts the PENDING row, writes the code file and     *)
(* sends the submission's id on the buffered channel submissionQueue.      *)
(* The processor receives an id, judges it, and then, under the lock,      *)
(* clears isProcessing and ends if the channel is empty.                   *)
(*                                                                         *)
(* A request is identified with the submission it makes, and a processor   *)
(* with the request whose starter spawned it, so that a second processor   *)
(* is expressible.  Rows and code files survive a crash; goroutines, the   *)
(* channel, the flag and the mutex do not, and nothing in main.go puts     *)
(* PENDING rows back into the channel.                                     *)
(*                                                                         *)
(* What the verdict is, and from what it is computed, is module Judging.   *)
(***************************************************************************)
EXTENDS Naturals, Sequences, FiniteSets

CONSTANTS
  Requests,     \* the POST /submit requests that reach the server
  Verdicts,     \* the terminal values of models.SubmissionStatus
  QueueCap,     \* capacity of submissionQueue (100 in the code)
  NoRow,        \* the submission has no row in the database
  Pending,      \* models.StatusPending
  None,         \* a processor holds no submission
  Faults,       \* TRUE: database and file operations may fail
  MaxCrashes    \* bound on the crashes of the server process

ASSUME QueueAssumption ==
  /\ QueueCap \in Nat \ {0}
  /\ NoRow \notin Verdicts
  /\ Pending \notin Verdicts
  /\ NoRow # Pending
  /\ None \notin Requests
  /\ Faults \in BOOLEAN
  /\ MaxCrashes \in Nat

VARIABLES
  handler,      \* where SubmitSolutionHandler is, per request
  starter,      \* where startSubmissionProcessor is, per request
  processor,    \* where processSubmissionQueue is, per spawning request
  held,         \* the submission a processor has received and not finished
  locked,       \* submissionQueueLock is held
  isProcessing, \* the global flag
  queue,        \* content of the channel submissionQueue, oldest first
  status,       \* database: the status of each submission's row
  code,         \* disk: submissions whose code file has been written
  crashes       \* crashes so far (bounds the model)

memory == <<handler, starter, processor, held, locked, isProcessing, queue>>
disk == <<status, code>>
vars == <<handler, starter, processor, held, locked, isProcessing, queue,
          status, code, crashes>>

HandlerStates ==
  {"absent",    \* the request has not arrived
   "received",  \* starter spawned; authenticating, decoding, validating
   "inserted",  \* the PENDING row exists; conversion and file writes next
   "sending",   \* at submissionQueue <- submissionID
   "accepted",  \* sent; 202 "Submission received and is being processed."
   "refused",   \* answered with an error
   "cut"}       \* the server died while the handler ran
StarterStates ==
  {"none",
   "spawned",   \* about to take the lock
   "locked",    \* holds the lock, about to read isProcessing
   "spawning",  \* holds the lock, has read isProcessing = false
   "done"}
ProcessorStates ==
  {"none",      \* never spawned
   "receiving", \* at the range over submissionQueue
   "judging",   \* in processSubmission
   "checking",  \* about to take the lock
   "locked",    \* holds the lock, about to read len(submissionQueue)
   "stopping",  \* holds the lock, has read 0, about to clear the flag
   "ended"}

TypeOK ==
  /\ handler \in [Requests -> HandlerStates]
  /\ starter \in [Requests -> StarterStates]
  /\ processor \in [Requests -> ProcessorStates]
  /\ held \in [Requests -> Requests \cup {None}]
  /\ locked \in BOOLEAN
  /\ isProcessing \in BOOLEAN
  /\ queue \in Seq(Requests)
  /\ status \in [Requests -> Verdicts \cup {NoRow, Pending}]
  /\ code \subseteq Requests
  /\ crashes \in Nat

Init ==
  /\ handler = [r \in Requests |-> "absent"]
  /\ starter = [r \in Requests |-> "none"]
  /\ processor = [r \in Requests |-> "none"]
  /\ held = [r \in Requests |-> None]
  /\ locked = FALSE
  /\ isProcessing = FALSE
  /\ queue = <<>>
  /\ status = [r \in Requests |-> NoRow]
  /\ code = {}
  /\ crashes = 0

-----------------------------------------------------------------------------
(* SubmitSolutionHandler *)

HandlerStep(r, from, to) ==
  /\ handler[r] = from
  /\ handler' = [handler EXCEPT ![r] = to]

\* A POST arrives: `go startSubmissionProcessor()` precedes authentication.
Receive(r) ==
  /\ HandlerStep(r, "absent", "received")
  /\ starter' = [starter EXCEPT ![r] = "spawned"]
  /\ UNCHANGED <<processor, held, locked, isProcessing, queue, disk, crashes>>

\* No valid cookie, undecodable payload or an empty field: 400 or 401.
Refuse(r) ==
  /\ HandlerStep(r, "received", "refused")
  /\ UNCHANGED <<starter, processor, held, locked, isProcessing, queue, disk, crashes>>

\* Mutant: the row is inserted without its status field.
InsertRowNoStatus(r) ==
  /\ HandlerStep(r, "received", "inserted")
  /\ status' = [status EXCEPT ![r] = None]
  /\ UNCHANGED <<starter, processor, held, locked, isProcessing, queue, code, crashes>>

InsertRow(r) ==
  /\ HandlerStep(r, "received", "inserted")
  /\ status' = [status EXCEPT ![r] = Pending]
  /\ UNCHANGED <<starter, processor, held, locked, isProcessing, queue, code, crashes>>

\* InsertOne returns an error; the row may have been written all the same.
InsertRowFails(r) ==
  /\ Faults
  /\ HandlerStep(r, "received", "refused")
  /\ status' \in {status, [status EXCEPT ![r] = Pending]}
  /\ UNCHANGED <<starter, processor, held, locked, isProcessing, queue, code, crashes>>

\* Mutant: the id is sent before its code file is written.
SaveCodeSkipped(r) ==
  /\ HandlerStep(r, "inserted", "sending")
  /\ UNCHANGED <<starter, processor, held, locked, isProcessing, queue, disk, crashes>>

SaveCode(r) ==
  /\ HandlerStep(r, "inserted", "sending")
  /\ code' = code \cup {r}
  /\ UNCHANGED <<starter, processor, held, locked, isProcessing, queue, status, crashes>>

\* The pseudocode conversion, MkdirAll or a WriteFile fails: 500, and the row
\* stays PENDING. For pseudocode the first of the two files may be there.
SaveCodeFails(r) ==
  /\ Faults
  /\ HandlerStep(r, "inserted", "refused")
  /\ code' \in {code, code \cup {r}}
  /\ UNCHANGED <<starter, processor, held, locked, isProcessing, queue, status, crashes>>

\* Mutants: sent in the branch and again after it; newest first; a full channel
\* drops the id (select with default).
EnqueueTwice(r) ==
  /\ HandlerStep(r, "sending", "accepted")
  /\ Len(queue) + 1 < QueueCap
  /\ queue' = queue \o <<r, r>>
  /\ UNCHANGED <<starter, processor, held, locked, isProcessing, disk, crashes>>
EnqueueNewestFirst(r) ==
  /\ HandlerStep(r, "sending", "accepted")
  /\ Len(queue) < QueueCap
  /\ queue' = <<r>> \o queue
  /\ UNCHANGED <<starter, processor, held, locked, isProcessing, disk, crashes>>
EnqueueOrDrop(r) ==
  /\ HandlerStep(r, "sending", "accepted")
  /\ queue' = IF Len(queue) < QueueCap THEN Append(queue, r) ELSE queue
  /\ UNCHANGED <<starter, processor, held, locked, isProcessing, disk, crashes>>

\* submissionQueue <- submissionID blocks while the buffer is full.
Enqueue(r) ==
  /\ HandlerStep(r, "sending", "accepted")
  /\ Len(queue) < QueueCap
  /\ queue' = Append(queue, r)
  /\ UNCHANGED <<starter, processor, held, locked, isProcessing, disk, crashes>>

-----------------------------------------------------------------------------
(* startSubmissionProcessor *)

\* Mutant: isProcessing is tested without the lock.
StarterNoLock(r) ==
  /\ starter[r] = "spawned"
  /\ starter' = [starter EXCEPT ![r] = "locked"]
  /\ UNCHANGED <<handler, processor, held, locked, isProcessing, queue, disk, crashes>>

StarterLock(r) ==
  /\ starter[r] = "spawned"
  /\ ~locked
  /\ locked' = TRUE
  /\ starter' = [starter EXCEPT ![r] = "locked"]
  /\ UNCHANGED <<handler, processor, held, isProcessing, queue, disk, crashes>>

SeeIdle(r) ==
  /\ starter[r] = "locked"
  /\ ~isProcessing
  /\ starter' = [starter EXCEPT ![r] = "spawning"]
  /\ UNCHANGED <<handler, processor, held, locked, isProcessing, queue, disk, crashes>>

\* isProcessing = true, go processSubmissionQueue(), unlock.
SpawnProcessor(r) ==
  /\ starter[r] = "spawning"
  /\ isProcessing' = TRUE
  /\ processor' = [processor EXCEPT ![r] = "receiving"]
  /\ starter' = [starter EXCEPT ![r] = "done"]
  /\ locked' = FALSE
  /\ UNCHANGED <<handler, held, queue, disk, crashes>>

\* isProcessing is set: unlock and end.
LeaveRunning(r) ==
  /\ starter[r] = "locked"
  /\ isProcessing
  /\ starter' = [starter EXCEPT ![r] = "done"]
  /\ locked' = FALSE
  /\ UNCHANGED <<handler, processor, held, isProcessing, queue, disk, crashes>>

-----------------------------------------------------------------------------
(* processSubmissionQueue *)

ProcessorStep(p, from, to) ==
  /\ processor[p] = from
  /\ processor' = [processor EXCEPT ![p] = to]

Dequeue(p) ==
  /\ ProcessorStep(p, "receiving", "judging")
  /\ queue # <<>>
  /\ held' = [held EXCEPT ![p] = Head(queue)]
  /\ queue' = Tail(queue)
  /\ UNCHANGED <<handler, starter, locked, isProcessing, disk, crashes>>

\* processSubmission up to and including the UpdateOne of
\* updateSubmissionStatus: the row gets a verdict.
RecordVerdict(p, v) ==
  /\ ProcessorStep(p, "judging", "checking")
  /\ status' = [status EXCEPT ![held[p]] = v]
  /\ held' = [held EXCEPT ![p] = None]
  /\ UNCHANGED <<handler, starter, locked, isProcessing, queue, code, crashes>>

\* Mutant: an update that timed out after it took effect is queued again.
RecordRetried(p) ==
  /\ Faults
  /\ ProcessorStep(p, "judging", "checking")
  /\ \E v \in Verdicts : status' = [status EXCEPT ![held[p]] = v]
  /\ held' = [held EXCEPT ![p] = None]
  /\ queue' = Append(queue, held[p])
  /\ UNCHANGED <<handler, starter, locked, isProcessing, code, crashes>>

\* updateSubmissionStatus cannot read or write the row: logged, not retried.
RecordFails(p) ==
  /\ Faults
  /\ ProcessorStep(p, "judging", "checking")
  /\ held' = [held EXCEPT ![p] = None]
  /\ UNCHANGED <<handler, starter, locked, isProcessing, queue, disk, crashes>>

ProcessorLock(p) ==
  /\ ProcessorStep(p, "checking", "locked")
  /\ ~locked
  /\ locked' = TRUE
  /\ UNCHANGED <<handler, starter, held, isProcessing, queue, disk, crashes>>

\* len(submissionQueue) # 0: unlock and go on. Senders do not take the lock.
SeeWork(p) ==
  /\ ProcessorStep(p, "locked", "receiving")
  /\ queue # <<>>
  /\ locked' = FALSE
  /\ UNCHANGED <<handler, starter, held, isProcessing, queue, disk, crashes>>

SeeEmpty(p) ==
  /\ ProcessorStep(p, "locked", "stopping")
  /\ queue = <<>>
  /\ UNCHANGED <<handler, starter, held, locked, isProcessing, queue, disk, crashes>>

\* Mutants: the flag is not cleared; the lock is not released before break.
StopFlagged(p) ==
  /\ ProcessorStep(p, "stopping", "ended")
  /\ locked' = FALSE
  /\ UNCHANGED <<handler, starter, held, isProcessing, queue, disk, crashes>>
StopLocked(p) ==
  /\ ProcessorStep(p, "stopping", "ended")
  /\ isProcessing' = FALSE
  /\ UNCHANGED <<handler, starter, held, locked, queue, disk, crashes>>

\* isProcessing = false, unlock, break.
Stop(p) ==
  /\ ProcessorStep(p, "stopping", "ended")
  /\ isProcessing' = FALSE
  /\ locked' = FALSE
  /\ UNCHANGED <<handler, starter, held, queue, disk, crashes>>

-----------------------------------------------------------------------------
(* The process dies and systemd restarts it: memory is lost, disk is not.  *)

InFlight == {"received", "inserted", "sending"}

Crash ==
  /\ crashes < MaxCrashes
  /\ crashes' = crashes + 1
  /\ handler' = [r \in Requests |-> IF handler[r] \in InFlight THEN "cut" ELSE handler[r]]
  /\ starter' = [r \in Requests |-> "none"]
  /\ processor' = [r \in Requests |-> "none"]
  /\ held' = [r \in Requests |-> None]
  /\ locked' = FALSE
  /\ isProcessing' = FALSE
  /\ queue' = <<>>
  /\ UNCHANGED disk

Handle(r) ==
  \/ Receive(r)
  \/ Refuse(r)
  \/ InsertRow(r)
  \/ InsertRowFails(r)
  \/ SaveCode(r)
  \/ SaveCodeFails(r)
  \/ Enqueue(r)

Start(r) ==
  \/ StarterLock(r)
  \/ SeeIdle(r)
  \/ SpawnProcessor(r)
  \/ LeaveRunning(r)

Judge(p) == (\E v \in Verdicts : RecordVerdict(p, v)) \/ RecordFails(p)

Process(p) ==
  \/ Dequeue(p)
  \/ Judge(p)
  \/ ProcessorLock(p)
  \/ SeeWork(p)
  \/ SeeEmpty(p)
  \/ Stop(p)

Next ==
  \/ \E r \in Requests : Handle(r) \/ Start(r) \/ Process(r)
  \/ Crash

Spec == Init /\ [][Next]_vars

(***************************************************************************)
(* Go runs every goroutine that is not blocked, so each of them takes its  *)
(* next step; sync.Mutex hands a contended lock to its longest waiter      *)
(* (starvation mode), hence the strong fairness of taking the lock.        *)
(* Nothing obliges a client to send a request.                             *)
(***************************************************************************)
Proceed(r) == Handle(r) /\ handler[r] # "absent"

Fairness ==
  \A r \in Requests :
    /\ WF_vars(Proceed(r))
    /\ SF_vars(StarterLock(r))
    /\ WF_vars(SeeIdle(r) \/ SpawnProcessor(r) \/ LeaveRunning(r))
    /\ WF_vars(Dequeue(r) \/ Judge(r))
    /\ SF_vars(ProcessorLock(r))
    /\ WF_vars(SeeWork(r) \/ SeeEmpty(r) \/ Stop(r))

FairSpec == Spec /\ Fairness

-----------------------------------------------------------------------------
(* Properties *)

Queued == {queue[i] : i \in 1 .. Len(queue)}
Running == {p \in Requests : processor[p] \notin {"none", "ended"}}
Busy == {p \in Requests : processor[p] = "judging"}
BeingJudged == {held[p] : p \in Busy}
Unfinished == Queued \cup BeingJudged

(***************************************************************************)
(* At most one goroutine runs processSubmissionQueue, whatever the         *)
(* interleaving of concurrent requests, ending processors and crashes: the *)
(* judge runs one submission at a time (submission.go:187-212).            *)
(***************************************************************************)
AtMostOneProcessor == \A p, q \in Running : p = q

(***************************************************************************)
(* isProcessing is set exactly while a processor runs.  A flag left set by *)
(* a processor that ended would stop the judge for good: no later request  *)
(* would spawn another one.                                                *)
(***************************************************************************)
FlagIsTruthful == isProcessing <=> Running # {}

(***************************************************************************)
(* An id that waits in the channel, or is being judged, names a row that   *)
(* is still PENDING and whose code file is complete: the processor never   *)
(* reads a half-made submission (submission.go:92-175 against 215-275) and *)
(* never receives one that has a verdict already.                          *)
(***************************************************************************)
WorkIsReady == \A r \in Unfinished : status[r] = Pending /\ r \in code

(***************************************************************************)
(* No submission is in two places: no id occurs twice in the channel, or   *)
(* both in the channel and in a processor's hands.                         *)
(***************************************************************************)
NoDuplicateWork ==
  /\ \A i, j \in 1 .. Len(queue) : queue[i] = queue[j] => i = j
  /\ Queued \cap BeingJudged = {}

(***************************************************************************)
(* While nothing fails and the server stays up, an accepted submission is  *)
(* waiting, being judged, or has its verdict: it cannot fall between the   *)
(* channel and the processor.  (Waiting may last forever: see              *)
(* AcceptedIsJudged.)                                                      *)
(***************************************************************************)
AcceptedIsTracked ==
  ~Faults /\ crashes = 0 =>
    \A r \in Requests :
      handler[r] = "accepted" => r \in Unfinished \/ status[r] \in Verdicts

(***************************************************************************)
(* A verdict is never revised or withdrawn: not by a second processor, not *)
(* by a second delivery of the id, not by a restart.                       *)
(***************************************************************************)
VerdictIsFinal ==
  [][\A r \in Requests : status[r] \in Verdicts => status'[r] = status[r]]_vars

(***************************************************************************)
(* Goroutines, mutex and flag together behave as the single first-in       *)
(* first-out server of JudgeService.                                       *)
(***************************************************************************)
InHand ==
  IF BeingJudged = {} THEN <<>> ELSE <<CHOOSE r \in BeingJudged : TRUE>>

Service == INSTANCE JudgeService WITH
  backlog <- InHand \o queue,
  accepted <- {r \in Requests : handler[r] = "accepted"}

ImplementsService == Service!Spec

(***************************************************************************)
(* A submission left in the channel with no processor is picked up as soon *)
(* as any later request arrives: once the starter of some request has yet  *)
(* to take the lock, everything then in the channel leaves it.  This is    *)
(* what keeps the lost wake-up below from losing work on a busy server.    *)
(***************************************************************************)
NextRequestRescues ==
  \A r \in Requests :
    (r \in Queued /\ \E s \in Requests : starter[s] = "spawned") ~> (r \notin Queued)

(***************************************************************************)
(* What the 202 answer tells the client (submission.go:181, "Submission    *)
(* received and is being processed."): it gets a verdict.  The code does   *)
(* not ensure it: the starter is spawned at the top of the handler, so it  *)
(* may find a processor that is finishing its last submission; that        *)
(* processor then finds the channel empty and ends, and the send comes     *)
(* after that.                                                             *)
(***************************************************************************)
AcceptedIsJudged ==
  \A r \in Requests : (handler[r] = "accepted") ~> (status[r] \in Verdicts)

-----------------------------------------------------------------------------
(***************************************************************************)
(* The inductive invariant.  AtMostOneProcessor rests on the mutex: a      *)
(* starter that has read isProcessing = false keeps that true until it     *)
(* spawns, because every writer of the flag holds the lock (Mutex, Flag).  *)
(* WorkIsReady and VerdictIsFinal rest on the phases of the handler: only  *)
(* a submission whose handler is past its send is in the channel, in a     *)
(* processor's hands, or decided (Phases, Work).                           *)
(***************************************************************************)
StarterInside == {r \in Requests : starter[r] \in {"locked", "spawning"}}
ProcessorInside == {p \in Requests : processor[p] \in {"locked", "stopping"}}

Mutex ==
  /\ \A r, s \in StarterInside : r = s
  /\ StarterInside = {} \/ ProcessorInside = {}
  /\ ~locked => StarterInside = {} /\ ProcessorInside = {}

Spawning ==
  /\ \A r \in Requests : handler[r] = "absent" => starter[r] = "none"
  /\ \A r \in Requests : processor[r] # "none" => starter[r] = "done"
  /\ \A r \in Requests : starter[r] = "spawning" => ~isProcessing

Phases ==
  \A r \in Requests :
    /\ handler[r] \in {"absent", "received"} => status[r] = NoRow
    /\ handler[r] \in {"inserted", "sending"} => status[r] = Pending
    /\ handler[r] = "sending" => r \in code
    /\ status[r] \in Verdicts => handler[r] = "accepted"

Work ==
  /\ \A p \in Busy : held[p] \in Requests
  /\ \A r \in Unfinished : handler[r] = "accepted"

IInv ==
  /\ TypeOK
  /\ Mutex
  /\ Spawning
  /\ Phases
  /\ Work
  /\ AtMostOneProcessor
  /\ FlagIsTruthful
  /\ WorkIsReady
  /\ NoDuplicateWork
  /\ AcceptedIsTracked

=============================================================================
