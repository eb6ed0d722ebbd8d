-------------------------------- MODULE Site --------------------------------
(***************************************************************************)
(* The site around the problem page: who is signed in (Session), and the   *)
(* pages of which one is mounted at a time - the list of submissions       *)
(* (Listing), one submission (Detail), the pages that are looked through   *)
(* (Browse) and those that make problems (Authoring).  A route change      *)
(* drops the state of the page that is left, starts the one that is        *)
(* entered with its first requests, and makes both copies of the session   *)
(* ask again; what becomes known of the session reaches the mounted page.  *)
(***************************************************************************)
EXTENDS Listing, Detail, Browse, Authoring

vars == <<sessionVars, listVars, detailVars, browseVars, authoringVars>>

TypeOK ==
  /\ SessionTypeOK
  /\ ListTypeOK
  /\ DetailTypeOK
  /\ BrowseTypeOK
  /\ AuthoringTypeOK

Init ==
  /\ SessionInit
  /\ ListInit
  /\ DetailInit
  /\ BrowseInit
  /\ AuthoringInit

-----------------------------------------------------------------------------
(* What changes the page.                                                  *)
Remounts ==
  /\ ListRemounts
  /\ DetailRemounts
  /\ BrowseRemounts
  /\ AuthoringRemounts

PageLinks ==
  CASE page = "home" -> HomeLinks
    [] page = "problems" -> ProblemsLinks
    [] page = "profile" -> ProfileLinks
    [] page = "submissions" -> ListLinks
    [] page = "submission" -> DetailLinks
    [] page \in {"create", "solutions", "addProblem", "addTestcase"} -> AuthorLinks
    [] OTHER -> FormLinks

RouteChange ==
  /\ Go(PageLinks) \/ (\E target \in DOMAIN redirects : Redirect(target)) \/ LoggedOut
  /\ Remounts

(* What leaves the user on it.                                             *)
Account ==
  /\ InvalidForm \/ SendForm \/ FormFails \/ Logout \/ LogoutFails
       \/ \E who \in Identities : SignIn(who)
  /\ UNCHANGED <<listVars, detailVars, browseVars, authoringVars>>

SessionCheck ==
  /\ \E c \in Copies, ok \in BOOLEAN :
       \E i \in DOMAIN asks[c] : AuthChecked(c, i, ok)
  /\ SignedInSeen
  /\ UNCHANGED <<detailVars, browseVars, authoringVars>>
-----------------------------------------------------------------------------
(* The list of submissions.                                                *)
ListUser ==
  /\ \/ \E f \in Filters : ChangeFilter(f)
     \/ ToggleMine
     \/ FetchAgain
     \/ ResetFilters
     \/ \E mode \in {"timeline", "table", "analytics"} : ShowAs(mode)
     \/ Inspect
     \/ CloseModal
  /\ UNCHANGED <<detailVars, browseVars, authoringVars>>

ListAnswer ==
  /\ \E ok \in BOOLEAN : \E i \in DOMAIN queries : ListAnswered(i, ok)
  /\ UNCHANGED <<detailVars, browseVars, authoringVars>>

(* One submission.                                                         *)
Judge ==
  /\ \E verdict \in Verdicts : Judged(verdict)
  /\ UNCHANGED <<sessionVars, listVars, browseVars, authoringVars>>

PollTimer ==
  /\ PollFires
  /\ UNCHANGED <<sessionVars, listVars, browseVars, authoringVars>>

PollAnswer ==
  /\ \E i \in DOMAIN polls :
       \/ \E seen \in Statuses : DetailArrives(i, seen)
       \/ \E found \in BOOLEAN : StatsArrive(i, found)
       \/ DetailFails(i)
  /\ UNCHANGED <<sessionVars, listVars, browseVars, authoringVars>>

ReaderAnswer ==
  /\ page = "submission"
  /\ \E who \in {cookie, "none"} : ReaderKnown(who)
  /\ UNCHANGED <<sessionVars, listVars, browseVars, authoringVars>>
-----------------------------------------------------------------------------
(* The pages that are looked through.                                      *)
BrowseUser ==
  /\ \/ FetchProblems
     \/ \E l \in Levels, s \in Progress : Filter(l, s)
     \/ ClearFilters
     \/ ToggleEdit
     \/ ToggleFollow
     \/ \E t \in Tabs : ChooseTab(t)
     \/ \E valid \in BOOLEAN : Update(valid)
  /\ UNCHANGED <<listVars, detailVars, authoringVars>>

BrowseAnswer ==
  /\ \/ UpdateRefused
     \/ \E ok \in BOOLEAN :
          \/ HomeListArrives(ok)
          \/ HomeReaderArrives(ok)
          \/ ProblemsArrive(ok)
          \/ ProgressRefused(ok)
          \/ PartArrives(ok)
          \/ UpdateSession(ok)
  /\ UNCHANGED <<listVars, detailVars, authoringVars>>
-----------------------------------------------------------------------------
(* The pages that make problems.                                           *)
AuthorUser ==
  /\ \/ WriteStatement
     \/ Generate
     \/ \E n \in 1..MaxCases : ChooseSampleCount(n)
     \/ EditStatementAgain
     \/ Create
     \/ \E text \in {"own", "blank"} : WriteCode(text)
     \/ \E confirmed \in BOOLEAN : ChooseLanguage(confirmed)
     \/ EditCase
     \/ RunCode
     \/ AskHints
     \/ NextHint
     \/ SubmitCode
     \/ BackToSubmissions
     \/ AddFailedCase
     \/ \E product \in Products : Make(product)
     \/ AdminSubmit
  /\ UNCHANGED <<listVars, detailVars, browseVars>>

AuthorAnswer ==
  /\ \/ AskSubmission
     \/ AdminRefused
     \/ \E ok \in BOOLEAN :
          \/ AuthorKnown(ok)
          \/ DetailsGenerated(ok)
          \/ TestsGenerated(ok)
          \/ CreateEnds(ok)
          \/ RunAnswered(ok)
          \/ HintsAnswered(ok)
          \/ SubmitAnswered(ok)
          \/ \E seen \in {"pending", "final"} :
               SubmittedShown(ok, seen) \/ SubmissionShown(ok, seen)
          \/ \E product \in Products : Made(product, ok)
          \/ AdminLoaded(ok)
  /\ UNCHANGED <<listVars, detailVars, browseVars>>
-----------------------------------------------------------------------------
Next ==
  \/ RouteChange
  \/ Account
  \/ SessionCheck
  \/ ListUser
  \/ ListAnswer
  \/ Judge
  \/ PollTimer
  \/ PollAnswer
  \/ ReaderAnswer
  \/ BrowseUser
  \/ BrowseAnswer
  \/ AuthorUser
  \/ AuthorAnswer

Spec == Init /\ [][Next]_vars

(* The browser runs timers, and a request ends: with an answer or without. *)
FairSpec ==
  /\ Spec
  /\ WF_vars(PollTimer)
  /\ WF_vars(PollAnswer)
=============================================================================
