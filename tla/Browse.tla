------------------------------- MODULE Browse -------------------------------
(***************************************************************************)
(* The pages that load once and are looked through: the home page          *)
(* (frontend/src/pages/index.tsx), the list of problems                    *)
(* (pages/problems/index.tsx) and a user's profile                         *)
(* (pages/profile/[username].tsx), whose requests run one after another    *)
(* and whose parts get defaults or made-up data when one fails.            *)
(*                                                                         *)
(* Two things the server never grants here: the list's request for the     *)
(* user's progress reaches a handler behind no authentication, and the     *)
(* update of a profile a handler that looks for the user under another     *)
(* key than the middleware's.                                              *)
(***************************************************************************)
EXTENDS Session

CONSTANTS
  Catalogue,    \* the problems there are
  Difficulty,   \* what difficulty each has
  Owner         \* whose profile the visit looks at

ASSUME CatalogueAssumption ==
  Difficulty \in [Catalogue -> {"easy", "medium", "hard"}]

VARIABLES
  homeList,     \* home: "asked" | "some" | "failed"
  homeReader,   \* home: "asked" | "stats" | "in" | "out"
  loading,      \* problems: "problems" | "progress" | "done"
  loadError,    \* problems: error is set
  problems,     \* problems: the problems that arrived
  level,        \* problems: difficultyFilter
  progress,     \* problems: statusFilter
  part,         \* profile: how many of Parts were answered
  profileFound, \* profile: profile and user are set
  invented,     \* profile: the parts filled with made-up data
  editing,      \* profile: isEditing
  update,       \* profile: "none" | "session" | "put": handleUpdate
  updateError,  \* profile: updateError or a form error is shown
  tab,          \* profile: activeTab
  following     \* profile: isFollowing

homeVars == <<homeList, homeReader>>
problemsVars == <<loading, loadError, problems, level, progress>>
profileVars == <<part, profileFound, invented, editing, update, updateError,
                 tab, following>>
browseVars == <<homeVars, problemsVars, profileVars>>

(* What fetchUserData asks for, in this order.                             *)
Parts == <<"profile", "user", "stats", "checkins", "submissions",
           "languages", "skills", "session", "discussions">>
Levels == {"all", "easy", "medium", "hard"}
Progress == {"all", "solved", "attempted", "unsolved"}
Tabs == {"overview", "achievements", "activity", "social"}

BrowseTypeOK ==
  /\ homeList \in {"asked", "some", "failed"}
  /\ homeReader \in {"asked", "stats", "in", "out"}
  /\ loading \in {"problems", "progress", "done"}
  /\ loadError \in BOOLEAN
  /\ problems \subseteq Catalogue
  /\ level \in Levels
  /\ progress \in Progress
  /\ part \in 0..Len(Parts)
  /\ profileFound \in BOOLEAN
  /\ invented \subseteq {Parts[i] : i \in DOMAIN Parts}
  /\ editing \in BOOLEAN
  /\ update \in {"none", "session", "put"}
  /\ updateError \in BOOLEAN
  /\ tab \in Tabs
  /\ following \in BOOLEAN

(* The pages as they open; each asks at once for what it shows.            *)
BrowseInit ==
  /\ homeList = "asked" /\ homeReader = "asked"
  /\ loading = "problems" /\ loadError = FALSE /\ problems = {}
  /\ level = "all" /\ progress = "all"
  /\ part = 0 /\ profileFound = FALSE /\ invented = {}
  /\ editing = FALSE /\ update = "none" /\ updateError = FALSE
  /\ tab = "overview" /\ following = FALSE

BrowseReopens ==
  /\ homeList' = "asked" /\ homeReader' = "asked"
  /\ loading' = "problems" /\ loadError' = FALSE /\ problems' = {}
  /\ level' = "all" /\ progress' = "all"
  /\ part' = 0 /\ profileFound' = FALSE /\ invented' = {}
  /\ editing' = FALSE /\ update' = "none" /\ updateError' = FALSE
  /\ tab' = "overview" /\ following' = FALSE

BrowseRemounts ==
  IF page' = page THEN UNCHANGED browseVars ELSE BrowseReopens

-----------------------------------------------------------------------------
(* The home page: the problems, and beside them who reads and his numbers. *)
HomeListArrives(ok) ==
  /\ AnswerOn("home")
  /\ homeList = "asked"
  /\ homeList' = IF ok THEN "some" ELSE "failed"
  /\ UNCHANGED <<homeReader, problemsVars, profileVars>>

(* A failure on the way to the numbers counts as logged out.               *)
HomeReaderArrives(ok) ==
  /\ AnswerOn("home")
  /\ homeReader \in {"asked", "stats"}
  /\ homeReader' = CASE ~ok -> "out"
                     [] ok /\ homeReader = "stats" -> "in"
                     [] OTHER -> IF cookie = "none" THEN "out" ELSE "stats"
  /\ UNCHANGED <<homeList, problemsVars, profileVars>>

HomeTable ==
  CASE homeList = "asked" -> "loading"
    [] homeList = "failed" -> "error"
    [] OTHER -> "rows"

(* Who is signed in is invited to create problems, others to register.     *)
HomeLinks ==
  {"problems"}
    \cup (IF homeReader \in {"stats", "in"} THEN {"create"} ELSE {"register"})
    \cup (IF HomeTable = "rows" THEN {"problem"} ELSE {})
-----------------------------------------------------------------------------
(* The list of problems: fetchProblems, in two requests.  The error of the *)
(* first is shown; the answer to the second is always a refusal, and only  *)
(* its failure matters.                                                    *)
ProblemsArrive(ok) ==
  /\ AnswerOn("problems")
  /\ loading = "problems"
  /\ loading' = IF ok THEN "progress" ELSE "done"
  /\ loadError' = ~ok
  /\ UNCHANGED <<problems, level, progress, homeVars, profileVars>>

ProgressRefused(reached) ==
  /\ AnswerOn("problems")
  /\ loading = "progress"
  /\ loading' = "done"
  /\ IF reached
     THEN problems' = Catalogue /\ UNCHANGED loadError
     ELSE loadError' = TRUE /\ UNCHANGED problems
  /\ UNCHANGED <<level, progress, homeVars, profileVars>>

(* Refresh and Try Again.                                                  *)
FetchProblems ==
  /\ UserOn("problems", "browse")
  /\ loading = "done"
  /\ loading' = "problems"
  /\ loadError' = FALSE
  /\ UNCHANGED <<problems, level, progress, homeVars, profileVars>>

(* filteredAndSortedProblems: no problem is marked, so that "solved" and   *)
(* "attempted" leave nothing and "unsolved" everything.                    *)
Listed ==
  {p \in problems : /\ level \in {"all", Difficulty[p]}
                    /\ progress \in {"all", "unsolved"}}

ProblemsScreen ==
  CASE loading # "done" -> "loading"
    [] loading = "done" /\ loadError -> "error"
    [] loading = "done" /\ ~loadError /\ Listed = {} -> "none found"
    [] OTHER -> "shown"

(* A card or a row of the table leads to its problem.                      *)
ProblemsLinks ==
  CASE ProblemsScreen \in {"loading", "error"} -> {}
    [] ProblemsScreen = "none found" -> {"create"}
    [] OTHER -> {"create", "problem"}

Filter(l, s) ==
  /\ UserOn("problems", "browse")
  /\ ProblemsScreen \in {"shown", "none found"}
  /\ level' = l
  /\ progress' = s
  /\ UNCHANGED <<loading, loadError, problems, homeVars, profileVars>>

ClearFilters ==
  /\ ProblemsScreen = "none found"
  /\ Filter("all", "all")
-----------------------------------------------------------------------------
(* The profile: the next request of fetchUserData ends.  Without the first *)
(* two there is no profile; any other that fails is made up for.           *)
(* A bug: the chain goes on after it was broken off.                       *)
PartPastEnd(ok) == part' = IF ok THEN part + 1 ELSE Len(Parts) + 1
PartAfter(ok) ==
  part' = IF ok \/ part > 1 THEN part + 1 ELSE Len(Parts)

PartArrives(ok) ==
  /\ AnswerOn("profile")
  /\ part < Len(Parts)
  /\ PartAfter(ok)
  /\ profileFound' = (profileFound \/ (ok /\ part = 1))
  /\ invented' = IF ~ok /\ part > 1 /\ Parts[part + 1] # "session"
                 THEN invented \cup {Parts[part + 1]} ELSE invented
  /\ UNCHANGED <<editing, update, updateError, tab, following, homeVars,
                 problemsVars>>

ProfileScreen ==
  CASE part < Len(Parts) -> "loading"
    [] part = Len(Parts) /\ ~profileFound -> "missing"
    [] OTHER -> "shown"

CanEdit == ProfileScreen = "shown" /\ view["provider"] = Owner

ToggleEdit ==
  /\ CanEdit
  /\ UserOn("profile", "browse")
  /\ editing' = ~editing
  /\ UNCHANGED <<part, profileFound, invented, update, updateError, tab,
                 following, homeVars, problemsVars>>

(* Following somebody is a matter of this button alone: nobody is told.    *)
ToggleFollow ==
  /\ ProfileScreen = "shown" /\ ~CanEdit
  /\ UserOn("profile", "browse")
  /\ following' = ~following
  /\ UNCHANGED <<part, profileFound, invented, editing, update, updateError,
                 tab, homeVars, problemsVars>>

ChooseTab(t) ==
  /\ ProfileScreen = "shown" /\ t # tab
  /\ UserOn("profile", "browse")
  /\ tab' = t
  /\ UNCHANGED <<part, profileFound, invented, editing, update, updateError,
                 following, homeVars, problemsVars>>

ProfileLinks ==
  CASE ProfileScreen = "loading" -> {}
    [] ProfileScreen = "missing" -> {"home"}
    [] OTHER -> IF tab = "overview" THEN {"submissions", "problem"} ELSE {}

(* handleUpdate: a website that is no URL stops it; otherwise it asks once *)
(* more who is signed in.                                                  *)
Update(valid) ==
  /\ ProfileScreen = "shown" /\ editing /\ update = "none"
  /\ UserOn("profile", "browse")
  /\ IF valid /\ view["provider"] # "none"
     THEN update' = "session" /\ updateError' = FALSE
     ELSE update' = "none" /\ updateError' = TRUE
  /\ UNCHANGED <<part, profileFound, invented, editing, tab, following,
                 homeVars, problemsVars>>

UpdateSession(ok) ==
  /\ AnswerOn("profile")
  /\ update = "session"
  /\ IF ok /\ cookie # "none"
     THEN update' = "put" /\ UNCHANGED updateError
     ELSE update' = "none" /\ updateError' = TRUE
  /\ UNCHANGED <<part, profileFound, invented, editing, tab, following,
                 homeVars, problemsVars>>

(* UpdateProfile knows nobody: every update ends in an error.              *)
UpdateRefused ==
  /\ AnswerOn("profile")
  /\ update = "put"
  /\ update' = "none"
  /\ updateError' = TRUE
  /\ UNCHANGED <<part, profileFound, invented, editing, tab, following,
                 homeVars, problemsVars>>
=============================================================================
