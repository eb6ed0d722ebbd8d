------------------------------- MODULE Detail -------------------------------
(***************************************************************************)
(* The page of one submission (frontend/src/pages/submissions/[id].tsx),   *)
(* which keeps its loading screen up until the submission has its verdict  *)
(* and asks for it every two seconds until then.  The timer starts with    *)
(* the first answer without a verdict and is cleared by the first answer   *)
(* with one, by an error, or when the page is left.  Requests overlap when *)
(* answers are slow; an accepted submission is done only after its         *)
(* statistics were asked for.                                              *)
(*                                                                         *)
(* No page links to this one: a visit that has it starts on it.            *)
(***************************************************************************)
EXTENDS Session

CONSTANTS
  Verdicts,     \* the statuses the judge may give the submission
  MaxPolls      \* bound: requests for the submission on their way

ASSUME VerdictsAssumption ==
  /\ Verdicts \subseteq {"accepted", "failed"}
  /\ Verdicts # {}
  /\ MaxPolls \in Nat \ {0}

VARIABLES
  status,       \* the submission's status on the server
  submission,   \* the status the page has, "none" before the first answer
  detailLoading,\* loading
  detailError,  \* error is set
  timer,        \* "unset" | "running" | "cleared": intervalId
  polls,        \* requests on their way, oldest first: the status when it
                \* was sent, or the statistics it waits for
  pollOrdered,  \* history: no answer was older than the one before it
  reader,       \* the page's own question who is signed in
  stats         \* the statistics have arrived

detailVars == <<status, submission, detailLoading, detailError, timer, polls,
                pollOrdered, reader, stats>>

Statuses == {"pending", "accepted", "failed"}
Poll == [sent : Statuses, waits : {"details", "stats"}]

DetailTypeOK ==
  /\ status \in Statuses
  /\ submission \in Statuses \cup {"none"}
  /\ detailLoading \in BOOLEAN
  /\ detailError \in BOOLEAN
  /\ timer \in {"unset", "running", "cleared"}
  /\ polls \in Seq(Poll)
  /\ pollOrdered \in BOOLEAN
  /\ reader \in {"asked", "in", "out"}
  /\ stats \in BOOLEAN

NewPoll == [sent |-> status, waits |-> "details"]

(* On a visit that starts elsewhere no submission is looked at.            *)
DetailInit ==
  /\ status \in IF page = "submission" THEN {"pending"} \cup Verdicts
                ELSE {CHOOSE v \in Verdicts : TRUE}
  /\ submission = "none"
  /\ detailLoading = TRUE
  /\ detailError = FALSE
  /\ timer = "unset"
  /\ polls = IF page = "submission" THEN <<NewPoll>> ELSE <<>>
  /\ pollOrdered = TRUE
  /\ reader = "asked"
  /\ stats = FALSE

(* The effect's cleanup clears the timer there is.  A request on its way   *)
(* goes on, and may even start a timer that runs until the verdict: both   *)
(* act on a page that is gone, and the model does not follow them.         *)
DetailRemounts ==
  IF page' = page \/ page # "submission" THEN UNCHANGED detailVars
  ELSE
    /\ submission' = "none" /\ detailLoading' = TRUE /\ detailError' = FALSE
    /\ timer' = "unset" /\ polls' = <<>> /\ pollOrdered' = TRUE
    /\ reader' = "asked" /\ stats' = FALSE
    /\ status' = CHOOSE v \in Verdicts : TRUE

(* Left out: the submission of somebody who registered as Guest, which is  *)
(* shown to everybody (line 325); guest accounts have other names.         *)
DetailScreen ==
  CASE detailLoading -> "loading"
    [] ~detailLoading /\ detailError -> "error"
    [] ~detailLoading /\ ~detailError /\ submission = "none" -> "missing"
    [] OTHER -> IF reader = "in" THEN "shown" ELSE "denied"

(* An accepted submission also leads back to its problem.                  *)
DetailLinks ==
  CASE DetailScreen = "denied" -> {"login", "problems"}
    [] DetailScreen = "shown" ->
         {"submissions", "profile"}
           \cup (IF submission = "accepted" THEN {"problem"} ELSE {})
    [] OTHER -> {}
-----------------------------------------------------------------------------
Judged(verdict) ==
  /\ page = "submission"
  /\ status = "pending"
  /\ status' = verdict
  /\ UNCHANGED <<submission, detailLoading, detailError, timer, polls,
                 pollOrdered, reader, stats>>

(* The timer fires; setInterval does not wait for earlier requests.        *)
PollFires ==
  /\ timer = "running"
  /\ Len(polls) < MaxPolls
  /\ polls' = Append(polls, NewPoll)
  /\ UNCHANGED <<status, submission, detailLoading, detailError, timer,
                 pollOrdered, reader, stats>>

(* clearInterval; the variable keeps its value, so no timer is set again.  *)
Clear == timer' = IF timer = "running" THEN "cleared" ELSE timer

(* An answer without a verdict starts the timer, once.                     *)
(* A bug: it clears the timer there is.                                    *)
StartTimerAgain == timer' = IF timer = "unset" THEN "running" ELSE "cleared"
StartTimer == timer' = IF timer = "unset" THEN "running" ELSE timer

(* A submission that is done ends the loading screen and the polling.      *)
Finished(i) ==
  /\ polls' = RemoveAt(polls, i)
  /\ detailLoading' = FALSE
  /\ Clear

(* The submission arrives, in a status it had since it was asked for.      *)
DetailArrives(i, seen) ==
  /\ i \in DOMAIN polls
  /\ polls[i].waits = "details"
  /\ seen \in {polls[i].sent, status}
  /\ submission' = seen
  /\ pollOrdered' = (pollOrdered /\
                     (seen = "pending" => submission \in {"none", "pending"}))
  /\ CASE seen = "accepted" ->
            /\ polls' = [polls EXCEPT ![i].waits = "stats"]
            /\ UNCHANGED <<detailLoading, timer>>
       [] seen = "failed" -> Finished(i)
       [] seen = "pending" ->
            /\ polls' = RemoveAt(polls, i)
            /\ StartTimer
            /\ UNCHANGED detailLoading
  /\ UNCHANGED <<status, detailError, reader, stats>>

StatsArrive(i, found) ==
  /\ i \in DOMAIN polls
  /\ polls[i].waits = "stats"
  /\ Finished(i)
  /\ stats' = (found \/ stats)
  /\ UNCHANGED <<status, submission, detailError, pollOrdered, reader>>

(* Either request fails: the error screen replaces even a verdict, and a   *)
(* timer that runs is cleared.                                             *)
DetailFails(i) ==
  /\ i \in DOMAIN polls
  /\ Finished(i)
  /\ detailError' = TRUE
  /\ UNCHANGED <<status, submission, pollOrdered, reader, stats>>

ReaderKnown(who) ==
  /\ reader = "asked"
  /\ reader' = IF who = "none" THEN "out" ELSE "in"
  /\ UNCHANGED <<status, submission, detailLoading, detailError, timer, polls,
                 pollOrdered, stats>>
-----------------------------------------------------------------------------
(* A page left open on a submission the judge has decided shows a verdict  *)
(* or an error in the end, or it was left, or a late answer took the       *)
(* verdict back: no order of slow answers, timers and statistics ends the  *)
(* polling before it brought the verdict.                                  *)
Watching == page = "submission" /\ pollOrdered
VerdictIsShown ==
  (Watching /\ status # "pending") ~>
    (\/ ~Watching
     \/ detailError
     \/ ~detailLoading /\ submission = status)
=============================================================================
