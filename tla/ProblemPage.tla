----------------------------- MODULE ProblemPage -----------------------------
(***************************************************************************)
(* The problem page as a whole: the editor and its drafts (Drafts), the    *)
(* submissions tab (Watch), the test cases (TryOut), hints and completions *)
(* (Assist) and, behind four of its requests, the user's rate limits       *)
(* (RateLimits).  Submitting takes the editor's code, passes the limiter,  *)
(* makes a row and changes what /last-code answers; a failed submission    *)
(* gives a test case; leaving the page drops everything but the drafts and *)
(* what is on the server.                                                  *)
(***************************************************************************)
EXTENDS Assist, Watch, TryOut, RateLimits

vars == <<screenVars, draftVars, watchVars, tryVars, assistVars, limitVars>>

ASSUME RequestsAssumption ==
  Requests = {"submit", "run", "hint"} \cup Completions

TypeOK ==
  /\ ScreenTypeOK
  /\ DraftsTypeOK
  /\ WatchTypeOK
  /\ TryTypeOK
  /\ AssistTypeOK
  /\ LimitsTypeOK

Init ==
  /\ ScreenInit
  /\ DraftsInit
  /\ WatchInit
  /\ TryInit
  /\ AssistInit
  /\ LimitsInit

restOfScreen == <<signedIn, authCheck, fetching, problem, pageError, tab,
                  threads, execError>>

FetchOutcomes == {"ok", "refused", "lost"}

Decided(r) == limiter[r] \in {"admitted", "refused", "broken"}
(* The discussion tab.                                                     *)
Discussion ==
  /\ OpenDiscussion \/ \E outcome \in FetchOutcomes : ThreadsEnd(outcome)
  /\ UNCHANGED <<draftVars, watchVars, tryVars, assistVars, limitVars>>
-----------------------------------------------------------------------------
(* Loading the page.                                                       *)
AuthEnds ==
  /\ UserKnown \/ UserUnknown
  /\ Cancelled
  /\ UNCHANGED <<watchVars, tryVars, hintVars, lastOffer, limitVars>>

ProblemEnds ==
  /\ \/ SamplesArrive
     \/ (ProblemFails \/ StatsSettle) /\ UNCHANGED tryVars
  /\ UNCHANGED <<draftVars, watchVars, assistVars, limitVars>>

(* The editor.                                                             *)
Edit ==
  /\ Click("edit")
  /\ \/ \E text \in TypedText : Type(text)
     \/ \E l \in Languages : SelectLanguage(l)
  /\ Cancelled
  /\ UNCHANGED <<restOfScreen, watchVars, tryVars, hintVars, lastOffer,
                 limitVars>>

CodeAnswered ==
  /\ \E l \in Languages, found \in BOOLEAN : CodeArrives(l, found)
  /\ Cancelled
  /\ UNCHANGED <<watchVars, tryVars, hintVars, lastOffer, limitVars>>

Autosave ==
  /\ SaveFires
  /\ UNCHANGED <<watchVars, tryVars, assistVars, limitVars>>
-----------------------------------------------------------------------------
(* Submitting: the click, the row behind the limiter, the answer.          *)
SubmitClick ==
  /\ \/ Submit /\ PostCode /\ Ask("submit")
     \/ SubmitBlank /\ code = Blank /\ UNCHANGED <<draftVars, limitVars>>
  /\ UNCHANGED <<tryVars, assistVars>>

PostReaches ==
  /\ limiter["submit"] = "admitted"
  /\ posted # NoText
  /\ \E s \in Subs : RowInserted(s)
  /\ PostStored
  /\ Taken("submit")
  /\ UNCHANGED <<tryVars, assistVars>>

PostFailsOnTheWay ==
  /\ Decided("submit")
  /\ posted # NoText
  /\ IF submitPc = "posting"
     THEN PostFails
     ELSE UNCHANGED <<screenVars, watchVars>>
  /\ PostDropped
  /\ Taken("submit")
  /\ UNCHANGED <<tryVars, assistVars>>

PostAnswerEnds ==
  /\ submitPc = "answered"
  /\ PostAnswered \/ PostFails
  /\ UNCHANGED <<draftVars, tryVars, assistVars, limitVars>>

(* The submissions tab: the user and the answers.                          *)
WatchUser ==
  \/ \E t \in {"description", "submissions"} : OpenTab(t)
  \/ \E s \in Subs : PickSubmission(s)
  \/ BackToList

WatchAnswer ==
  \/ \E outcome \in FetchOutcomes : ListArrives(outcome) \/ SubmitEnds(outcome)
  \/ \E a \in InFlight :
       \/ \E status \in Statuses : DetailsArrive(a, status)
       \/ DetailsFail(a)

WatchStep ==
  /\ \/ WatchUser
     \/ WatchAnswer
     \/ PollTick
     \/ \E s \in Subs : Judge(s)
  /\ UNCHANGED <<draftVars, tryVars, assistVars, limitVars>>
-----------------------------------------------------------------------------
(* The test cases.                                                         *)
TryEdit ==
  /\ \/ \E in \in Inputs \cup {Empty} : EditInput(in)
     \/ \E out \in Outputs : EditExpected(out)
     \/ \E i \in DOMAIN cases : SelectCase(i)
     \/ AddCase
     \/ /\ SubmissionsView = "detail"
        /\ selected.status = "failed"
        /\ Click("judge")
        /\ \E case \in Case : AddFailedCase(case)
  /\ UNCHANGED <<restOfScreen, draftVars, watchVars, assistVars, limitVars>>

RunClick ==
  /\ \/ Run /\ code # Blank /\ Ask("run")
     \/ RunBlank /\ code = Blank /\ UNCHANGED limitVars
  /\ UNCHANGED <<draftVars, watchVars, assistVars>>

RunEnds ==
  /\ \/ limiter["run"] = "admitted" /\ RunArrives /\ UNCHANGED screenVars
     \/ Decided("run") /\ RunFails
  /\ Taken("run")
  /\ UNCHANGED <<draftVars, watchVars, assistVars>>

(* Hints and completions.                                                  *)
HintClick ==
  /\ \/ GetHint /\ Ask("hint")
     \/ ShowNextHint /\ UNCHANGED limitVars
  /\ UNCHANGED <<restOfScreen, draftVars, watchVars, tryVars, offerVars>>

HintEnds ==
  /\ \/ limiter["hint"] = "admitted" /\ \E n \in HintCounts : HintsArrive(n)
     \/ Decided("hint") /\ HintsFail
  /\ Taken("hint")
  /\ UNCHANGED <<screenVars, draftVars, watchVars, tryVars, offerVars>>

CompletionUser ==
  /\ \/ \E c \in Completions : Complete(c) /\ UNCHANGED draftVars
     \/ HideOffer /\ UNCHANGED draftVars
     \/ /\ \E text \in Inserted : AcceptOffer(text) \/ InsertLastOffer(text)
        /\ Cancelled
        /\ UNCHANGED lastOffer
  /\ UNCHANGED <<restOfScreen, watchVars, tryVars, hintVars, limitVars>>

CompletionStep ==
  /\ \E c \in Completions :
       \/ GiveUp(c) /\ UNCHANGED limitVars
       \/ AskCompletion(c) /\ Ask(c)
       \/ /\ Decided(c)
          /\ \E useful \in BOOLEAN :
               /\ useful => limiter[c] = "admitted"
               /\ CompletionArrives(c, useful)
          /\ Taken(c)
  /\ UNCHANGED <<screenVars, draftVars, watchVars, tryVars, hintVars>>
-----------------------------------------------------------------------------
(* The page that made request r still waits for its answer.                *)
Awaited(r) ==
  CASE r = "submit" -> posted # NoText
    [] r = "run" -> running # NoRun
    [] r = "hint" -> loadingHint
    [] OTHER -> completion[r] # NoHelp /\ completion[r].pc = "asked"

(* The answer to a page that has been left.                                *)
AnswerToNobody ==
  /\ \E r \in Requests : ~Awaited(r) /\ Taken(r)
  /\ UNCHANGED <<screenVars, draftVars, watchVars, tryVars, assistVars>>

(* The middleware; and the clock, in the plans that let the hour pass.     *)
Limiting ==
  /\ \/ (\E r \in Requests : LimiterStep(r)) /\ UNCHANGED screenVars
     \/ HourPasses /\ Click("hour") /\ UNCHANGED restOfScreen
  /\ UNCHANGED <<draftVars, watchVars, tryVars, assistVars>>

Reopen ==
  /\ ScreenReopens
  /\ DraftsReopen
  /\ WatchReopens
  /\ TryReopens
  /\ AssistReopens
  /\ UNCHANGED limitVars

Next ==
  \/ AuthEnds \/ ProblemEnds \/ Discussion
  \/ Edit \/ CodeAnswered \/ Autosave
  \/ SubmitClick \/ PostReaches \/ PostFailsOnTheWay \/ PostAnswerEnds
  \/ WatchStep
  \/ TryEdit \/ RunClick \/ RunEnds
  \/ HintClick \/ HintEnds \/ CompletionUser \/ CompletionStep
  \/ AnswerToNobody \/ Limiting \/ Reopen

Spec == Init /\ [][Next]_vars

(* The server judges, the interval ticks, and an answer that is possible   *)
(* again and again comes in the end (a request may be lost, not all).      *)
ServerJudges == \E s \in Subs : Judge(s)
PollAnswered == \E a \in InFlight, status \in Statuses : DetailsArrive(a, status)
ListAnswered == \E outcome \in FetchOutcomes : ListArrives(outcome)

others == <<draftVars, tryVars, assistVars, limitVars>>

FairSpec ==
  /\ Spec
  /\ WF_vars(ServerJudges /\ UNCHANGED others)
  /\ WF_vars(PollTick /\ UNCHANGED others)
  /\ WF_vars(ListAnswered /\ UNCHANGED others)
  /\ SF_vars(PollAnswered /\ UNCHANGED others)
=============================================================================
