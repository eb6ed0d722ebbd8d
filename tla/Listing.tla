------------------------------ MODULE Listing ------------------------------
(***************************************************************************)
(* The list of submissions (frontend/src/pages/submissions/index.tsx).     *)
(* The page asks for the list when it opens and whenever "my submissions   *)
(* only" changes; the other filters are sent when the user applies them.   *)
(* Nothing stops a second request while the first is on its way.  A user   *)
(* who turns out to be signed in is put back to "my submissions only".     *)
(* The page has no control that turns pages: pagination.page stays 1.      *)
(***************************************************************************)
EXTENDS Session

VARIABLES
  filters,      \* problemName, statusFilter, languageFilter: "all" | "some"
  mine,         \* mySubmissionsOnly
  queries,      \* requests for the list on their way, oldest first
  listLoading,  \* loading
  listError,    \* error is set
  rows,         \* the query whose answer the list holds, or Nothing
  listMode,     \* viewMode
  inspected,    \* showDetailModal: the modal is open
  unapplied,    \* history: filters changed since the latest request
  listOrdered   \* history: the list holds the answer to the latest request

CONSTANT Nothing

lookVars == <<listMode, inspected>>
listVars == <<filters, mine, queries, listLoading, listError, rows, lookVars,
              unapplied, listOrdered>>

Filters == {"all", "some"}
Query == [filters : Filters, mine : BOOLEAN, who : Identities]

ASSUME NothingAssumption == Nothing \notin Query

ListTypeOK ==
  /\ filters \in Filters
  /\ mine \in BOOLEAN
  /\ queries \in Seq([filters : Filters, mine : BOOLEAN, who : Identities,
                      late : BOOLEAN])
  /\ listLoading \in BOOLEAN
  /\ listError \in BOOLEAN
  /\ rows \in Query \cup {Nothing}
  /\ listMode \in {"timeline", "table", "analytics"}
  /\ inspected \in BOOLEAN
  /\ unapplied \in BOOLEAN
  /\ listOrdered \in BOOLEAN

QueryFor(f, m, who) == [filters |-> f, mine |-> m, who |-> who, late |-> FALSE]

(* What the page asks first, if it is the page.                            *)
FirstQuery(p, who) ==
  IF p = "submissions" THEN <<QueryFor("all", TRUE, who)>> ELSE <<>>

ListInit ==
  /\ filters = "all" /\ mine = TRUE
  /\ queries = FirstQuery(page, cookie)
  /\ listLoading = TRUE /\ listError = FALSE /\ rows = Nothing
  /\ listMode = "timeline" /\ inspected = FALSE
  /\ unapplied = FALSE /\ listOrdered = FALSE

(* After a route change the page is new, or gone.                          *)
ListReopens ==
  /\ filters' = "all" /\ mine' = TRUE
  /\ queries' = FirstQuery(page', cookie')
  /\ listLoading' = TRUE /\ listError' = FALSE /\ rows' = Nothing
  /\ listMode' = "timeline" /\ inspected' = FALSE
  /\ unapplied' = FALSE /\ listOrdered' = FALSE

ListRemounts == IF page' = page THEN UNCHANGED listVars ELSE ListReopens

(* fetchSubmissions, with the filters of the render it belongs to.         *)
FetchList(f, m) ==
  /\ queries' = Append(queries, QueryFor(f, m, cookie))
  /\ listLoading' = TRUE
  /\ listError' = FALSE
  /\ unapplied' = FALSE
  /\ UNCHANGED <<rows, listOrdered>>

(* setMySubmissionsOnly: the effect fetches when the value changes.        *)
(* A bug: the effect does not depend on it.                                *)
SetMineQuietly(f, m) ==
  /\ mine' = m
  /\ unapplied' = (unapplied \/ f # filters)
  /\ UNCHANGED <<queries, listLoading, listError, rows, listOrdered>>
SetMine(f, m) ==
  /\ mine' = m
  /\ IF m # mine
     THEN FetchList(f, m)
     ELSE /\ unapplied' = (unapplied \/ f # filters)
          /\ UNCHANGED <<queries, listLoading, listError, rows, listOrdered>>

(* The effect on isLoggedIn, when the provider's copy turns to a user.     *)
SignedInSeen ==
  IF page = "submissions" /\ view["provider"] = "none" /\ view'["provider"] # "none"
  THEN SetMine(filters, TRUE) /\ UNCHANGED <<filters, lookVars>>
  ELSE UNCHANGED listVars

(* What the page shows under its controls.                                 *)
Results ==
  CASE listLoading -> "skeleton"
    [] ~listLoading /\ listError -> "error"
    [] ~listLoading /\ ~listError /\ rows = Nothing -> "empty"
    [] OTHER -> "rows"
-----------------------------------------------------------------------------
(* The modal covers the page's controls.                                   *)
OnList == UserOn("submissions", "list") /\ ~inspected

ChangeFilter(f) ==
  /\ OnList
  /\ f # filters
  /\ filters' = f
  /\ unapplied' = TRUE
  /\ UNCHANGED <<mine, queries, listLoading, listError, rows, lookVars,
                 listOrdered>>

(* The checkbox is there for signed-in users.                              *)
ToggleMine ==
  /\ view["provider"] # "none"
  /\ OnList
  /\ SetMine(filters, ~mine)
  /\ UNCHANGED <<filters, lookVars>>

(* Refresh, Apply Filters and Try Again.                                   *)
FetchAgain ==
  /\ OnList
  /\ FetchList(filters, mine)
  /\ UNCHANGED <<filters, mine, lookVars>>

(* resetFilters leaves the fetch to the effect, which has nothing to do    *)
(* when mine was FALSE already: the old rows stay under cleared filters.   *)
ResetFilters ==
  /\ OnList
  /\ SetMine("all", FALSE)
  /\ filters' = "all"
  /\ UNCHANGED lookVars

(* Timeline, table or analytics; an entry of the first two opens the modal *)
(* with that submission as the list had it.                                *)
ShowAs(mode) ==
  /\ OnList
  /\ mode # listMode
  /\ listMode' = mode
  /\ UNCHANGED <<filters, mine, queries, listLoading, listError, rows,
                 inspected, unapplied, listOrdered>>

Inspect ==
  /\ OnList
  /\ Results = "rows" /\ listMode # "analytics"
  /\ inspected' = TRUE
  /\ UNCHANGED <<filters, mine, queries, listLoading, listError, rows,
                 listMode, unapplied, listOrdered>>

CloseModal ==
  /\ UserOn("submissions", "list")
  /\ inspected
  /\ inspected' = FALSE
  /\ UNCHANGED <<filters, mine, queries, listLoading, listError, rows,
                 listMode, unapplied, listOrdered>>

(* Solve Problems; only the table links to users and problems.             *)
ListLinks ==
  CASE inspected -> {}
    [] ~inspected /\ Results = "rows" /\ listMode = "table" ->
         {"problems", "profile", "problem"}
    [] OTHER -> {"problems"}

(* An answer: the first to come ends the loading screen, the last stays.   *)
(* A list may be empty; the server knows "mine" by the cookie.             *)
ListAnswered(i, ok) ==
  /\ i \in DOMAIN queries
  /\ queries' = Answered(queries, i)
  /\ listLoading' = FALSE
  /\ listError' = (~ok \/ listError)
  /\ rows' = IF ok THEN [filters |-> queries[i].filters,
                         mine |-> queries[i].mine, who |-> queries[i].who]
                   ELSE Nothing
  /\ listOrdered' = (ok /\ InOrder(queries, i))
  /\ UNCHANGED <<sessionVars, filters, mine, lookVars, unapplied>>
-----------------------------------------------------------------------------
(* Once no request is on its way, and unless an answer overtook another,   *)
(* the list is what its controls say: the user's own submissions exactly   *)
(* when that box is ticked - however often it was ticked, reset or ticked  *)
(* by the session's arrival - and under the filters, unless they changed   *)
(* after the latest request.                                               *)
ListMatchesQuery ==
  (page = "submissions" /\ queries = <<>> /\ listOrdered) =>
    /\ rows # Nothing
    /\ rows.mine = mine
    /\ ~unapplied => rows.filters = filters
    /\ ~listLoading
=============================================================================
