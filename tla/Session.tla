------------------------------ MODULE Session ------------------------------
(***************************************************************************)
(* Who is signed in, as the site's pages show it.  The truth is the        *)
(* authToken cookie.  Two components hold a copy of their own, each from   *)
(* an instance of useAuth (frontend/src/lib/useAuth.ts): the AuthProvider  *)
(* around the pages (lib/AuthContext.tsx) and the navigation bar           *)
(* (components/layout/Navbar.tsx).  Both ask /api/auth-status when the     *)
(* site loads and after every route change, each on its own; the answers   *)
(* can come in any order, and the last one to come stays.                  *)
(*                                                                         *)
(* Signing in, as a guest (pages/login.tsx) or by registering              *)
(* (pages/register.tsx), sets the cookie and sends the user to another     *)
(* page a moment later.                                                    *)
(*                                                                         *)
(* visit bounds the model: how often the user still acts on each panel.    *)
(***************************************************************************)
EXTENDS Naturals, Sequences, SequencesExt

CONSTANTS
  Visits,       \* bound: how a visit starts - on which page, as whom - and
                \* the clicks it has
  MaxChecks     \* bound: requests for /api/auth-status of a copy

Pages == {"home", "problems", "problem", "submissions", "submission",
          "profile", "login", "register", "forgot", "create", "solutions",
          "addProblem", "addTestcase", "missing"}

Panels == {"go", "account", "list", "browse", "author"}

Identities == {"none", "guest", "user", "admin"}

ASSUME VisitsAssumption ==
  /\ Visits \subseteq [start : Pages, who : Identities,
                clicks : [Panels -> Nat]]
  /\ MaxChecks \in Nat \ {0}

Copies == {"provider", "navbar"}
Forms == {"login", "guest", "register", "forgot"}

VARIABLES
  page,         \* the page that is mounted
  visit,        \* clicks left on each panel
  cookie,       \* whose token the browser holds
  view,         \* isLoggedIn and user of each copy of useAuth
  asks,         \* requests for /api/auth-status of each copy, oldest first:
                \* the cookie sent, and whether a later one was answered
  settled,      \* history: a copy shows the answer to its latest request
  form,         \* the request of the sign-in forms that is on its way
  formHere,     \* its page is still mounted
  notice,       \* "none" | "error" | "success": what the form shows
  redirects,    \* setTimeout redirects after signing in, by target
  logouts       \* requests to /api/logout on their way

sessionVars == <<page, visit, cookie, view, asks, settled, form, formHere,
                 notice, redirects, logouts>>

SessionTypeOK ==
  /\ page \in Pages
  /\ visit \in [Panels -> Nat]
  /\ cookie \in Identities
  /\ view \in [Copies -> Identities]
  /\ asks \in [Copies -> Seq([who : Identities, late : BOOLEAN])]
  /\ settled \in [Copies -> BOOLEAN]
  /\ form \in Forms \cup {"none"}
  /\ formHere \in BOOLEAN
  /\ notice \in {"none", "error", "success"}
  /\ redirects \in [{"home", "missing"} -> Nat]
  /\ logouts \in Nat

Request(who) == [who |-> who, late |-> FALSE]

(* The site loads: each copy starts logged out and asks.                   *)
SessionInit ==
  /\ \E v \in Visits :
       page = v.start /\ cookie = v.who /\ visit = v.clicks
  /\ view = [c \in Copies |-> "none"]
  /\ asks = [c \in Copies |-> <<Request(cookie)>>]
  /\ settled = [c \in Copies |-> FALSE]
  /\ form = "none"
  /\ formHere = FALSE
  /\ notice = "none"
  /\ redirects = [target \in {"home", "missing"} |-> 0]
  /\ logouts = 0

(* The user acts on a control of panel p.                                  *)
Spend(p) ==
  /\ visit[p] > 0
  /\ visit' = [visit EXCEPT ![p] = @ - 1]

restOfSession == <<page, cookie, view, asks, settled, form, formHere, notice,
                   redirects, logouts>>

(* The user acts on page p; an answer comes to page p.                     *)
UserOn(p, panel) == page = p /\ Spend(panel) /\ UNCHANGED restOfSession
AnswerOn(p) == page = p /\ UNCHANGED sessionVars

(* The i-th of some requests is answered: those sent before it have been   *)
(* overtaken, and it leaves.                                               *)
Late(request) == [request EXCEPT !.late = TRUE]
Overtaken(requests, i) ==
  [j \in DOMAIN requests |->
     IF j < i THEN Late(requests[j]) ELSE requests[j]]
Answered(requests, i) == RemoveAt(Overtaken(requests, i), i)

(* It is the latest of them, and was not overtaken.                        *)
InOrder(requests, i) == i = Len(requests) /\ ~requests[i].late

(* A request for /api/auth-status carries the cookie of the moment.        *)
CheckAuthStatus(c, who) ==
  asks' = [asks EXCEPT ![c] = Append(@, Request(who))]
-----------------------------------------------------------------------------
(* Going to a page: what the page that is left had on its way is nobody's  *)
(* any more, and routeChangeComplete makes both copies ask.  The model has *)
(* router.push and routeChangeComplete in one step.  Timers go on: no form *)
(* cancels its redirect.                                                   *)
Leave(to) ==
  /\ page' = to
  /\ formHere' = FALSE
  /\ notice' = "none"

(* A bug: routeChangeComplete reaches the provider only.                   *)
RouteChangedForProvider(to, who) ==
  /\ Leave(to)
  /\ Len(asks["provider"]) < MaxChecks
  /\ CheckAuthStatus("provider", who)
RouteChanged(to, who) ==
  /\ Leave(to)
  /\ \A c \in Copies : Len(asks[c]) < MaxChecks
  /\ asks' = [c \in Copies |-> Append(asks[c], Request(who))]

(* The links of the navigation bar.                                        *)
NavItems ==
  {"home", "problems"}
    \cup (IF view["navbar"] # "none" THEN {"submissions", "profile"}
                                     ELSE {"login", "register"})
    \cup (IF view["navbar"] = "admin" THEN {"missing"} ELSE {})

(* Through the bar, or one of the links the mounted page shows.            *)
Go(links) ==
  /\ Spend("go")
  /\ \E to \in (NavItems \cup links) \ {page} : RouteChanged(to, cookie)
  /\ UNCHANGED <<cookie, view, settled, form, redirects, logouts>>
-----------------------------------------------------------------------------
(* checkAuthStatus ends.  The provider and the bar do not know which of    *)
(* their requests an answer belongs to; a failed one counts as logged out. *)
AuthChecked(c, i, ok) ==
  /\ i \in DOMAIN asks[c]
  /\ view' = [view EXCEPT ![c] = IF ok THEN asks[c][i].who ELSE "none"]
  /\ settled' = [settled EXCEPT ![c] = ok /\ InOrder(asks[c], i)]
  /\ asks' = [asks EXCEPT ![c] = Answered(@, i)]
  /\ UNCHANGED <<page, visit, cookie, form, formHere, notice, redirects,
                 logouts>>
-----------------------------------------------------------------------------
(* The forms.  A form's own request disables its controls; once it is      *)
(* answered they are enabled again, the redirect still to come: the        *)
(* handlers test a successMessage from before the request.                 *)
(* Bound: one such request at a time, also from a form that was left.      *)
Disabled == formHere /\ form # "none"

(* Only after a success does a notice replace the form.                    *)
ForgotScreen == IF notice = "success" THEN "sent" ELSE "form"

FormsOf ==
  CASE page = "login" -> {"login", "guest"}
    [] page = "register" -> {"register"}
    [] page = "forgot" /\ ForgotScreen = "form" -> {"forgot"}
    [] OTHER -> {}

(* The links under a form; nothing serves /terms and /privacy.             *)
FormLinks ==
  CASE page = "login" -> {"register", "forgot"}
    [] page = "register" -> {"login", "missing"}
    [] page = "forgot" -> {"login"}
    [] OTHER -> {}

(* handleSubmit stops at the first field that is not filled in as it asks. *)
InvalidForm ==
  /\ FormsOf \ {"guest"} # {}
  /\ ~Disabled
  /\ Spend("account")
  /\ notice' = "error"
  /\ UNCHANGED <<page, cookie, view, asks, settled, form, formHere,
                 redirects, logouts>>

SendForm ==
  /\ form = "none"
  /\ Spend("account")
  /\ form' \in FormsOf
  /\ formHere' = TRUE
  /\ notice' = "none"
  /\ UNCHANGED <<page, cookie, view, asks, settled, redirects, logouts>>

Notice(n) == notice' = IF formHere THEN n ELSE notice

(* Whom the server may sign in.  The login form never succeeds: it sends a *)
(* username where the handler wants an email (login.tsx:68-71, auth.go:188) *)
(* and is answered 400.  The page an administrator is sent to does not     *)
(* exist.                                                                  *)
SignedInBy(f) == CASE f = "guest" -> {"guest"}
                   [] f = "register" -> {"user"}
                   [] OTHER -> {}
Target(who) == IF who = "admin" THEN "missing" ELSE "home"

SignIn(who) ==
  /\ form \in {"login", "guest", "register"}
  /\ who \in SignedInBy(form)
  /\ cookie' = who
  /\ redirects' = [redirects EXCEPT ![Target(who)] = @ + 1]
  /\ Notice("success")
  /\ form' = "none"
  /\ UNCHANGED <<page, visit, view, asks, settled, formHere, logouts>>

(* Nothing serves /forgot-password: the answer is not JSON and counts as a *)
(* network error.                                                          *)
FormFails ==
  /\ form # "none"
  /\ Notice("error")
  /\ form' = "none"
  /\ UNCHANGED <<page, visit, cookie, view, asks, settled, formHere,
                 redirects, logouts>>

(* The redirect comes wherever the user is by then.                        *)
Redirect(target) ==
  /\ redirects[target] > 0
  /\ redirects' = [redirects EXCEPT ![target] = @ - 1]
  /\ RouteChanged(target, cookie)
  /\ UNCHANGED <<visit, cookie, view, settled, form, logouts>>
-----------------------------------------------------------------------------
(* Log out, in the menu of the navigation bar.                             *)
Logout ==
  /\ view["navbar"] # "none"
  /\ Spend("account")
  /\ logouts' = logouts + 1
  /\ UNCHANGED <<page, cookie, view, asks, settled, form, formHere, notice,
                 redirects>>

LoggedOut ==
  /\ logouts > 0
  /\ logouts' = logouts - 1
  /\ cookie' = "none"
  /\ view' = [view EXCEPT !["navbar"] = "none"]
  /\ RouteChanged("login", cookie')
  /\ UNCHANGED <<visit, settled, form, redirects>>

(* The message says that the session has been cleared: the bar's copy is,  *)
(* the cookie is not.                                                      *)
LogoutFails ==
  /\ logouts > 0
  /\ logouts' = logouts - 1
  /\ view' = [view EXCEPT !["navbar"] = "none"]
  /\ settled' = [settled EXCEPT !["navbar"] = FALSE]
  /\ UNCHANGED <<page, visit, cookie, asks, form, formHere, notice,
                 redirects>>
-----------------------------------------------------------------------------
(* Once nothing is on its way, a copy of useAuth that shows the answer to  *)
(* its latest request shows the session the browser has: no sequence of    *)
(* signing in, going from page to page, redirects and logging out leaves   *)
(* the bar or the pages with somebody else.                                *)
SessionShown ==
  \A c \in Copies :
    (asks[c] = <<>> /\ settled[c] /\ \A t \in DOMAIN redirects : redirects[t] = 0)
      => view[c] = cookie
=============================================================================
