---------------------------- MODULE JudgeService ----------------------------
(***************************************************************************)
(* What the judge of backend/internal/handlers/submission.go amounts to,   *)
(* seen from outside: ONE server with a first-in first-out backlog.  A     *)
(* submission row goes from absent to PENDING, the submission may be       *)
(* accepted into the backlog at most once, the head of the backlog - and   *)
(* nothing else - receives a verdict, and a verdict is never revised.      *)
(*                                                                         *)
(* There are no goroutines, no mutex and no isProcessing flag here:        *)
(* JudgeQueue has them, and implements this specification.                 *)
(***************************************************************************)
EXTENDS Naturals, Sequences

CONSTANTS
  Requests,   \* the POST /submit requests; each makes at most one submission
  Verdicts,   \* the terminal values of models.SubmissionStatus
  QueueCap,   \* capacity of the Go channel submissionQueue
  NoRow,      \* status of a submission that has no row in the database
  Pending     \* models.StatusPending

VARIABLES
  status,     \* the status column of every submission row
  backlog,    \* accepted submissions without an outcome, oldest first
  accepted    \* every submission that ever entered the backlog

svars == <<status, backlog, accepted>>

Init ==
  /\ status = [r \in Requests |-> NoRow]
  /\ backlog = <<>>
  /\ accepted = {}

\* A row is created; it says PENDING until the judge writes a verdict.
Submit(r) ==
  /\ status[r] = NoRow
  /\ status' = [status EXCEPT ![r] = Pending]
  /\ UNCHANGED <<backlog, accepted>>

\* The submission enters the backlog, once. QueueCap wait, one is being judged.
Accept(r) ==
  /\ status[r] = Pending
  /\ r \notin accepted
  /\ Len(backlog) <= QueueCap
  /\ accepted' = accepted \cup {r}
  /\ backlog' = Append(backlog, r)
  /\ UNCHANGED status

\* The oldest accepted submission gets its verdict.
Decide(v) ==
  /\ backlog # <<>>
  /\ status[Head(backlog)] = Pending
  /\ status' = [status EXCEPT ![Head(backlog)] = v]
  /\ backlog' = Tail(backlog)
  /\ UNCHANGED accepted

\* The oldest accepted submission was judged but its row could not be updated.
Abandon ==
  /\ backlog # <<>>
  /\ backlog' = Tail(backlog)
  /\ UNCHANGED <<status, accepted>>

\* The backlog lives in memory only: a restart forgets it, the rows stay.
Restart ==
  /\ backlog' = <<>>
  /\ UNCHANGED <<status, accepted>>

Next ==
  \/ \E r \in Requests : Submit(r) \/ Accept(r)
  \/ \E v \in Verdicts : Decide(v)
  \/ Abandon
  \/ Restart

Spec == Init /\ [][Next]_svars
=============================================================================
