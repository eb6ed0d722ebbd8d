---------------------------- MODULE ProblemScreen ----------------------------
(***************************************************************************)
(* What the parts of the problem page share                                *)
(* (frontend/src/pages/problems/[problemId].tsx): whether the page knows   *)
(* that its user is signed in, which of its screens is shown, which tab is *)
(* open and the message over the output.                                   *)
(*                                                                         *)
(* React hooks run under every screen: a timer or an answer still acts     *)
(* while the loading or the error screen is up; only the user needs        *)
(* Screen = "shown".  Nothing but leaving the page clears pageError.       *)
(*                                                                         *)
(* clicks bounds the model: how often the user still acts on each panel.   *)
(***************************************************************************)
EXTENDS Naturals

CONSTANTS
  Panels,       \* the groups of controls the bound distinguishes
  Plans         \* bound: how often the user acts on each panel of a visit

ASSUME PlansAssumption == Plans \subseteq [Panels -> Nat]

VARIABLES
  signedIn,     \* isLoggedIn
  authCheck,    \* "asked" | "done": the request for /api/auth-status
  fetching,     \* "problem" | "stats" | "done": where fetchProblem is
  problem,      \* the problem has arrived
  pageError,    \* error is set: the error screen replaces the page
  tab,          \* currentTab
  threads,      \* "none" | "asked" | "some": threads and fetchThreads
  execError,    \* executionError is set
  clicks

screenVars == <<signedIn, authCheck, fetching, problem, pageError, tab,
                threads, execError, clicks>>

Tabs == {"description", "discussion", "submissions"}

ScreenTypeOK ==
  /\ signedIn \in BOOLEAN
  /\ authCheck \in {"asked", "done"}
  /\ fetching \in {"problem", "stats", "done"}
  /\ problem \in BOOLEAN
  /\ pageError \in BOOLEAN
  /\ tab \in Tabs
  /\ threads \in {"none", "asked", "some"}
  /\ execError \in BOOLEAN
  /\ clicks \in [Panels -> Nat]

(* useState at mount; the effects of the first render ask for the session  *)
(* and for the problem.                                                    *)
ScreenInit ==
  /\ signedIn = FALSE
  /\ authCheck = "asked"
  /\ fetching = "problem"
  /\ problem = FALSE
  /\ pageError = FALSE
  /\ tab = "description"
  /\ threads = "none"
  /\ execError = FALSE
  /\ clicks \in Plans

(* isLoading lasts from the request for the problem to the answer about    *)
(* its statistics.                                                         *)
Screen ==
  CASE fetching # "done" -> "loading"
    [] fetching = "done" /\ pageError -> "error"
    [] fetching = "done" /\ ~pageError /\ ~problem -> "missing"
    [] OTHER -> "shown"

(* The user acts on a control of panel p.                                  *)
Click(p) ==
  /\ Screen = "shown"
  /\ clicks[p] > 0
  /\ clicks' = [clicks EXCEPT ![p] = @ - 1]

(* checkLoginStatus: an answer that fails leaves isLoggedIn FALSE.         *)
AuthAnswered(known) ==
  /\ authCheck = "asked"
  /\ authCheck' = "done"
  /\ signedIn' = known
  /\ UNCHANGED <<fetching, problem, pageError, tab, threads, execError,
                 clicks>>

(* fetchProblem, step by step: setProblem happens a request earlier than   *)
(* setIsLoading(false).                                                    *)
ProblemArrives ==
  /\ fetching = "problem"
  /\ fetching' = "stats"
  /\ problem' = TRUE
  /\ UNCHANGED <<signedIn, authCheck, pageError, tab, threads, execError,
                 clicks>>

ProblemFails ==
  /\ fetching = "problem"
  /\ fetching' = "done"
  /\ pageError' = TRUE
  /\ UNCHANGED <<signedIn, authCheck, problem, tab, threads, execError,
                 clicks>>

StatsSettle ==
  /\ fetching = "stats"
  /\ fetching' = "done"
  /\ UNCHANGED <<signedIn, authCheck, problem, pageError, tab, threads,
                 execError, clicks>>

(* The discussion tab shows a placeholder, but opening it asks for the     *)
(* threads, once more each time there are none; a refusal puts the whole   *)
(* page under the error screen.                                            *)
OpenDiscussion ==
  /\ Click("talk")
  /\ tab' = "discussion"
  /\ threads' = IF threads = "none" THEN "asked" ELSE threads
  /\ UNCHANGED <<signedIn, authCheck, fetching, problem, pageError, execError>>

ThreadsEnd(outcome) ==
  /\ threads = "asked"
  /\ threads' = IF outcome = "ok" THEN "some" ELSE "none"
  /\ pageError' = (pageError \/ outcome = "refused")
  /\ UNCHANGED <<signedIn, authCheck, fetching, problem, tab, execError, clicks>>

(* The user goes to another page and comes back: the page's state is new.  *)
ScreenReopens ==
  /\ fetching = "done"
  /\ clicks["leave"] > 0
  /\ clicks' = [clicks EXCEPT !["leave"] = @ - 1]
  /\ signedIn' = FALSE
  /\ authCheck' = "asked"
  /\ fetching' = "problem"
  /\ problem' = FALSE
  /\ pageError' = FALSE
  /\ tab' = "description"
  /\ threads' = "none"
  /\ execError' = FALSE
=============================================================================
