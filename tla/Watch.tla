-------------------------------- MODULE Watch --------------------------------
(***************************************************************************)
(* Submitting from the problem page and watching the verdict               *)
(* (frontend/src/pages/problems/[problemId].tsx, submissions tab).         *)
(*                                                                         *)
(* After a submission the page opens the tab, asks for the list and then   *)
(* for the details of the new submission.  While a submission without a    *)
(* verdict is selected an interval asks for its details again.  Answers    *)
(* carry the submission they are about but nothing checks, when one        *)
(* arrives, that the user is still looking at it.  The ghost variables     *)
(* wanted and overlap say which submission was picked last and whether     *)
(* requests about different ones (or about one the user has left) were in  *)
(* flight together.                                                        *)
(*                                                                         *)
(* The verdict itself comes from the server: modules JudgeQueue, Judging.  *)
(***************************************************************************)
EXTENDS ProblemScreen, FiniteSets

CONSTANTS
  Subs,         \* the user's submissions to this problem
  NoSub,        \* no submission
  Ends,         \* the final status each submission gets from the judge
  FirstVerdicts,\* the rows that may exist when the page opens
  MaxAsks       \* bound: requests of one kind in flight

ASSUME WatchAssumption == NoSub \notin Subs /\ MaxAsks \in Nat \ {0}

Final == {"accepted", "failed"}
Statuses == {"pending"} \cup Final

ASSUME VerdictsAssumption ==
  /\ FirstVerdicts \subseteq [Subs -> {"none"} \cup Statuses]
  /\ Ends \in [Subs -> Final]
  /\ NoSub \notin [id : Subs, status : Statuses]

VARIABLES
  verdict,      \* server: status of each submission's row, or "none"
  list,         \* submissions: the ids the list shows
  listAsks,     \* fetchSubmissions in flight, started by a click or effect
  loadingList,  \* isLoadingSubmissions
  selected,     \* selectedSubmission: [id, status], or NoSub
  asks,         \* details requests in flight: [kind, id, asked] -> how many
  submitPc,     \* where handleSubmitCode is
  newSub,       \* the submission it has made, or NoSub
  wanted,       \* ghost
  overlap       \* ghost

watchVars == <<verdict, list, listAsks, loadingList, selected, asks, submitPc,
               newSub, wanted, overlap>>

Asks == [kind : {"select", "poll"}, id : Subs, asked : Statuses]
InFlight == {a \in Asks : asks[a] > 0}

WatchTypeOK ==
  /\ verdict \in [Subs -> {"none"} \cup Statuses]
  /\ list \subseteq Subs
  /\ listAsks \in Nat
  /\ loadingList \in BOOLEAN
  /\ selected \in [id : Subs, status : Statuses] \cup {NoSub}
  /\ asks \in [Asks -> 0..MaxAsks]
  /\ submitPc \in {"idle", "posting", "answered", "listing"}
  /\ newSub \in Subs \cup {NoSub}
  /\ wanted \in Subs \cup {NoSub}
  /\ overlap \in BOOLEAN

WatchInit ==
  /\ verdict \in FirstVerdicts
  /\ list = {}
  /\ listAsks = 0
  /\ loadingList = FALSE
  /\ selected = NoSub
  /\ asks = [a \in Asks |-> 0]
  /\ submitPc = "idle"
  /\ newSub = NoSub
  /\ wanted = NoSub
  /\ overlap = FALSE

(* What the submissions tab shows.                                         *)
SubmissionsView ==
  CASE tab # "submissions" -> "hidden"
    [] tab = "submissions" /\ loadingList -> "spinner"
    [] tab = "submissions" /\ ~loadingList /\ selected # NoSub -> "detail"
    [] OTHER -> "list"

(* Keeps the ghost overlap when the user picks: some request in flight is  *)
(* about another submission than the one now wanted.                       *)
NoteOverlap ==
  overlap' = (overlap \/ \E a \in InFlight : a.id # wanted')
-----------------------------------------------------------------------------
(* fetchSubmissions up to its await.                                       *)
FetchSubmissions ==
  /\ listAsks < MaxAsks
  /\ listAsks' = listAsks + 1
  /\ loadingList' = TRUE

(* getSubmissionDetails up to its await, as a poll or for a selection.     *)
AskDetails(kind, s) ==
  LET a == [kind |-> kind, id |-> s, asked |-> verdict[s]] IN
  /\ asks[a] < MaxAsks
  /\ asks' = [asks EXCEPT ![a] = @ + 1]

(* A click on one of the other tabs.                                       *)
OpenTab(t) ==
  /\ Click("judge")
  /\ tab' = t
  /\ IF t = "submissions" /\ list = {}
     THEN FetchSubmissions
     ELSE UNCHANGED <<listAsks, loadingList>>
  /\ UNCHANGED <<verdict, list, selected, asks, submitPc, newSub, wanted,
                 overlap>>
  /\ UNCHANGED <<signedIn, authCheck, fetching, problem, pageError, threads,
                 execError>>

(* The server's list, when it answers.  The handler knows no problem_id    *)
(* and the page does not ask for my_submissions, so it holds the 50 newest *)
(* rows of everybody, of all problems (submission.go:583-628); the model   *)
(* has those that were sent from this page.                                *)
Rows == {s \in Subs : verdict[s] # "none"}

(* The end of fetchSubmissions: the list, a refusal, which puts the whole  *)
(* page under the error screen, or a network failure.  Any of them ends    *)
(* the spinner, another request in flight or not.                          *)
ListEnds(outcome) ==
  /\ loadingList' = FALSE
  /\ list' = IF outcome = "ok" THEN Rows ELSE list
  /\ pageError' = (pageError \/ outcome = "refused")
  /\ UNCHANGED <<signedIn, authCheck, fetching, problem, tab, threads, execError,
                 clicks>>

ListArrives(outcome) ==
  /\ listAsks > 0
  /\ listAsks' = listAsks - 1
  /\ ListEnds(outcome)
  /\ UNCHANGED <<verdict, selected, asks, submitPc, newSub, wanted, overlap>>

(* handleSelectSubmission from the list.                                   *)
PickSubmission(s) ==
  /\ Click("judge")
  /\ SubmissionsView = "list"
  /\ s \in list
  /\ AskDetails("select", s)
  /\ wanted' = s
  /\ NoteOverlap
  /\ UNCHANGED <<verdict, list, listAsks, loadingList, selected, submitPc,
                 newSub>>
  /\ UNCHANGED <<signedIn, authCheck, fetching, problem, pageError, tab,
                 threads, execError>>

(* onBack of the detail view.                                              *)
BackToList ==
  /\ Click("judge")
  /\ SubmissionsView = "detail"
  /\ selected' = NoSub
  /\ wanted' = NoSub
  /\ UNCHANGED <<verdict, list, listAsks, loadingList, asks, submitPc, newSub>>
  /\ NoteOverlap
  /\ UNCHANGED <<signedIn, authCheck, fetching, problem, pageError, tab,
                 threads, execError>>

(* setSelectedSubmission and the effect it triggers: a verdict renews the  *)
(* list, no verdict keeps an interval running.                             *)
Show(s, status) ==
  /\ selected' = [id |-> s, status |-> status]
  /\ IF status \in Final
     THEN FetchSubmissions
     ELSE UNCHANGED <<listAsks, loadingList>>

\* Mutant: the details of the submission already shown are not set again.
DetailsArriveOnce(a, status) ==
  /\ asks[a] > 0
  /\ status \in {a.asked, verdict[a.id]}
  /\ asks' = [asks EXCEPT ![a] = @ - 1]
  /\ IF selected # NoSub /\ selected.id = a.id
     THEN UNCHANGED <<selected, listAsks, loadingList>>
     ELSE Show(a.id, status)
  /\ UNCHANGED <<verdict, list, submitPc, newSub, wanted, overlap>>
  /\ UNCHANGED screenVars

(* An answer with the details: the row was read when the request was made  *)
(* or later.                                                               *)
DetailsArrive(a, status) ==
  /\ asks[a] > 0
  /\ status \in {a.asked, verdict[a.id]}
  /\ asks' = [asks EXCEPT ![a] = @ - 1]
  /\ Show(a.id, status)
  /\ UNCHANGED <<verdict, list, submitPc, newSub, wanted, overlap>>
  /\ UNCHANGED screenVars

(* No answer: a selection puts up the error screen, a poll is forgotten.   *)
DetailsFail(a) ==
  /\ asks[a] > 0
  /\ asks' = [asks EXCEPT ![a] = @ - 1]
  /\ pageError' = (pageError \/ a.kind = "select")
  /\ UNCHANGED <<verdict, list, listAsks, loadingList, selected, submitPc,
                 newSub, wanted, overlap>>
  /\ UNCHANGED <<signedIn, authCheck, fetching, problem, tab, threads, execError,
                 clicks>>

\* Mutant: the interval of an earlier selection is not cleared.
PollTickUncleared ==
  /\ selected # NoSub
  /\ selected.status \notin Final
  /\ \E s \in list : AskDetails("poll", s)
  /\ overlap' = (overlap \/ selected.id # wanted)
  /\ UNCHANGED <<verdict, list, listAsks, loadingList, selected, submitPc,
                 newSub, wanted>>
  /\ UNCHANGED screenVars

(* The interval of the submission shown.  (It may still be that of the     *)
(* submission before the one just picked: overlap.)                        *)
PollTick ==
  /\ selected # NoSub
  /\ selected.status \notin Final
  /\ AskDetails("poll", selected.id)
  /\ overlap' = (overlap \/ selected.id # wanted)
  /\ UNCHANGED <<verdict, list, listAsks, loadingList, selected, submitPc,
                 newSub, wanted>>
  /\ UNCHANGED screenVars
-----------------------------------------------------------------------------
(* handleSubmitCode.  The button needs a known user and is disabled until  *)
(* the last call has ended.                                                *)
SubmitEnabled == signedIn /\ submitPc = "idle"

Submit ==
  /\ Click("judge")
  /\ SubmitEnabled
  /\ submitPc' = "posting"
  /\ execError' = FALSE
  /\ UNCHANGED <<verdict, list, listAsks, loadingList, selected, asks, newSub,
                 wanted, overlap>>
  /\ UNCHANGED <<signedIn, authCheck, fetching, problem, pageError, tab, threads>>

SubmitBlank ==
  /\ Click("judge")
  /\ SubmitEnabled
  /\ execError' = TRUE
  /\ UNCHANGED watchVars
  /\ UNCHANGED <<signedIn, authCheck, fetching, problem, pageError, tab, threads>>

(* The server inserts the row (JudgeQueue: InsertRow) for the page that    *)
(* waits, or for one that has been left meanwhile.                         *)
RowInserted(s) ==
  /\ verdict[s] = "none"
  /\ verdict' = [verdict EXCEPT ![s] = "pending"]
  /\ IF submitPc = "posting"
     THEN submitPc' = "answered" /\ newSub' = s
     ELSE UNCHANGED <<submitPc, newSub>>
  /\ UNCHANGED <<list, listAsks, loadingList, selected, asks, wanted, overlap>>
  /\ UNCHANGED screenVars

(* The answer with the id: the tab opens and the list is asked for.        *)
PostAnswered ==
  /\ submitPc = "answered"
  /\ submitPc' = "listing"
  /\ tab' = "submissions"
  /\ loadingList' = TRUE
  /\ UNCHANGED <<verdict, list, listAsks, selected, asks, newSub, wanted,
                 overlap>>
  /\ UNCHANGED <<signedIn, authCheck, fetching, problem, pageError, threads,
                 execError, clicks>>

(* A refusal, a failure or a lost answer: an error is shown, and the row   *)
(* may exist all the same.                                                 *)
PostFails ==
  /\ submitPc \in {"posting", "answered"}
  /\ submitPc' = "idle"
  /\ newSub' = NoSub
  /\ execError' = TRUE
  /\ UNCHANGED <<verdict, list, listAsks, loadingList, selected, asks, wanted,
                 overlap>>
  /\ UNCHANGED <<signedIn, authCheck, fetching, problem, pageError, tab, threads,
                 clicks>>

(* After its list request, however that ended, handleSubmitCode selects    *)
(* the new submission and re-enables the button.                           *)
SubmitEnds(outcome) ==
  /\ submitPc = "listing"
  /\ submitPc' = "idle"
  /\ newSub' = NoSub
  /\ ListEnds(outcome)
  /\ AskDetails("select", newSub)
  /\ wanted' = newSub
  /\ NoteOverlap
  /\ UNCHANGED <<verdict, listAsks, selected>>

(* The server stores the verdict, once.                                    *)
Judge(s) ==
  /\ verdict[s] = "pending"
  /\ verdict' = [verdict EXCEPT ![s] = Ends[s]]
  /\ UNCHANGED <<list, listAsks, loadingList, selected, asks, submitPc, newSub,
                 wanted, overlap>>
  /\ UNCHANGED screenVars

(* A new page; the rows stay.                                              *)
WatchReopens ==
  /\ list' = {}
  /\ listAsks' = 0
  /\ loadingList' = FALSE
  /\ selected' = NoSub
  /\ asks' = [a \in Asks |-> 0]
  /\ submitPc' = "idle"
  /\ newSub' = NoSub
  /\ wanted' = NoSub
  /\ UNCHANGED <<verdict, overlap>>
-----------------------------------------------------------------------------
(* When nothing is being asked for, the details on the page are those of   *)
(* the submission the user picked last (from the list, or by submitting),  *)
(* unless at some time answers about different submissions, or about one   *)
(* the user had gone back from, were on their way together.                *)
(* (handleSelectSubmission, onBack and the polling effect.)                *)
ViewFollowsPick ==
  \/ overlap
  \/ pageError
  \/ InFlight # {}
  \/ IF selected = NoSub THEN wanted = NoSub ELSE selected.id = wanted

(* A submission shown without a verdict gets one on the page, unless the   *)
(* user leaves it or the error screen comes up, provided that the server   *)
(* judges and that not every answer to a poll is lost.  (The polling       *)
(* effect; an interval that stopped or polled a stale id would break it.)  *)
Waiting == selected # NoSub /\ selected.status = "pending"

VerdictReachesView == Waiting ~> ~Waiting \/ pageError
=============================================================================
