------------------------------ MODULE Authoring ------------------------------
(***************************************************************************)
(* The pages that make problems: the workshop in which a statement becomes *)
(* a problem with test cases (frontend/src/pages/problems/create.tsx), the *)
(* page that generates solutions (pages/problems/generate-solutions.tsx)   *)
(* and the two forms under /admin.  The requests for details and for test  *)
(* cases are one handler: the second follows the first by itself, and its  *)
(* failure leaves the test cases of the problem before.                    *)
(*                                                                         *)
(* What becomes of a request to create a problem is decided on the server: *)
(* POST /admin/problems passes JWTAuthMiddleware, which puts the user's id *)
(* into the request's context; CreateProblemHandler looks for the claims,  *)
(* which only AdminAuthMiddleware puts there.                              *)
(***************************************************************************)
EXTENDS Session

CONSTANTS
  MaxDrafts,    \* bound: how often problem details are generated
  MaxCases      \* bound: test cases on the page

ASSUME AuthoringAssumption == MaxDrafts \in Nat \ {0} /\ MaxCases \in Nat \ {0}

VARIABLES
  author,       \* the workshop's own question who is signed in
  statement,    \* rawProblemStatement is not empty
  preview,      \* problemView is "preview"
  generating,   \* "none" | "details" | "tests": where the handler waits
  draft,        \* problemDetails: which generation, 0 for none
  tests,        \* generatedTestCases: of which generation
  testsError,   \* testCaseError is set
  creating,     \* handleCreateProblem waits for the server
  createEnd,    \* history: how the latest request to create a problem ended
  authorError,  \* error is set
  code,         \* the editor: "default" | "own" | "blank"
  cases,        \* the inputs of testCases
  active,       \* activeTestCaseIndex, from 1
  ran,          \* the inputs whose results are shown
  running,      \* the inputs of the run on its way, <<>> without one
  runError,     \* executionError is set
  hints,        \* "none" | "asked" | "failed" | how many are visible
  submitting,   \* "none" | "posting" | "details": handleSubmitCode
  picked,       \* selectedSubmission: "none" | "pending" | "final"
  asked,        \* requests for the details of a submission on their way
  made,         \* solutions page: what has been generated
  making,       \* solutions page: what is being generated
  adminLoad,    \* test case form: its problem, "asked" | "some" | "failed"
  adminSends    \* the admin forms: isSubmitting

draftingVars == <<author, statement, preview, generating, draft, tests,
                  testsError, creating, createEnd, authorError>>
trialVars == <<code, cases, active, ran, running, runError, hints>>
handInVars == <<submitting, picked, asked>>
otherVars == <<made, making, adminLoad, adminSends>>
authoringVars == <<draftingVars, trialVars, handInVars, otherVars>>

Case == {"empty", "own", "sample"}
Products == {"solution", "tests", "outputs"}

AuthoringTypeOK ==
  /\ author \in {"asked", "in", "out"}
  /\ {statement, preview, testsError, creating, authorError} \subseteq BOOLEAN
  /\ generating \in {"none", "details", "tests"}
  /\ draft \in 0..MaxDrafts
  /\ tests \in 0..draft
  /\ createEnd \in {"none", "created", "refused", "lost", "signed out"}
  /\ code \in {"default", "own", "blank"}
  /\ cases \in Seq(Case) /\ Len(cases) \in 1..MaxCases
  /\ active \in DOMAIN cases
  /\ ran \in Seq(Case)
  /\ running \in Seq(Case)
  /\ {runError, adminSends} \subseteq BOOLEAN
  /\ hints \in {"none", "asked", "failed"} \cup {"1", "2", "3"}
  /\ submitting \in {"none", "posting", "details"}
  /\ picked \in {"none", "pending", "final"}
  /\ asked \in Nat
  /\ made \subseteq Products
  /\ making \subseteq Products
  /\ adminLoad \in {"asked", "some", "failed"}

AuthoringInit ==
  /\ author = "asked" /\ statement = FALSE /\ preview = FALSE
  /\ generating = "none" /\ draft = 0 /\ tests = 0 /\ testsError = FALSE
  /\ creating = FALSE /\ createEnd = "none" /\ authorError = FALSE
  /\ code = "default" /\ cases = <<"empty">> /\ active = 1
  /\ ran = <<>> /\ running = <<>> /\ runError = FALSE /\ hints = "none"
  /\ submitting = "none" /\ picked = "none" /\ asked = 0
  /\ made = {} /\ making = {} /\ adminLoad = "asked" /\ adminSends = FALSE

AuthoringReopens ==
  /\ author' = "asked" /\ statement' = FALSE /\ preview' = FALSE
  /\ generating' = "none" /\ draft' = 0 /\ tests' = 0 /\ testsError' = FALSE
  /\ creating' = FALSE /\ createEnd' = "none" /\ authorError' = FALSE
  /\ code' = "default" /\ cases' = <<"empty">> /\ active' = 1
  /\ ran' = <<>> /\ running' = <<>> /\ runError' = FALSE /\ hints' = "none"
  /\ submitting' = "none" /\ picked' = "none" /\ asked' = 0
  /\ made' = {} /\ making' = {} /\ adminLoad' = "asked" /\ adminSends' = FALSE

AuthoringRemounts ==
  IF page' = page THEN UNCHANGED authoringVars ELSE AuthoringReopens

(* The workshop: "Access Denied" replaces it for who is not signed in.     *)
WorkshopScreen ==
  CASE author = "asked" -> "loading"
    [] author = "out" -> "denied"
    [] OTHER -> "shown"

AuthorOn(p) ==
  /\ UserOn(p, "author")
  /\ p = "create" => WorkshopScreen = "shown"
-----------------------------------------------------------------------------
(* The workshop's own question who is signed in.                           *)
AuthorKnown(ok) ==
  /\ AnswerOn("create")
  /\ author = "asked"
  /\ author' = IF ok /\ cookie # "none" THEN "in" ELSE "out"
  /\ UNCHANGED <<statement, preview, generating, draft, tests, testsError,
                 creating, createEnd, authorError, trialVars, handInVars,
                 otherVars>>

WriteStatement ==
  /\ AuthorOn("create")
  /\ ~preview /\ ~statement
  /\ statement' = TRUE
  /\ UNCHANGED <<author, preview, generating, draft, tests, testsError,
                 creating, createEnd, authorError, trialVars, handInVars,
                 otherVars>>

(* The button waits for a statement and for isGeneratingDetails, which     *)
(* lasts until the test cases are there.                                   *)
Generate ==
  /\ AuthorOn("create")
  /\ ~preview /\ statement /\ generating = "none"
  /\ draft < MaxDrafts
  /\ generating' = "details"
  /\ authorError' = FALSE
  /\ UNCHANGED <<author, statement, preview, draft, tests, testsError,
                 creating, createEnd, trialVars, handInVars, otherVars>>

DetailsGenerated(ok) ==
  /\ AnswerOn("create")
  /\ generating = "details"
  /\ IF ok
     THEN /\ generating' = "tests"
          /\ draft' = draft + 1
          /\ preview' = TRUE
          /\ UNCHANGED authorError
     ELSE /\ generating' = "none"
          /\ authorError' = TRUE
          /\ UNCHANGED <<draft, preview>>
  /\ UNCHANGED <<author, statement, tests, testsError, creating, createEnd,
                 trialVars, handInVars, otherVars>>

(* The effect on generatedTestCases replaces the test cases on the page,   *)
(* those the user wrote among them, by the first few generated ones: as    *)
(* many as the selector says, or fewer when fewer were generated.          *)
SampleCases(n) ==
  /\ cases' = [i \in 1..n |-> "sample"]
  /\ active' = IF active > n THEN n ELSE active

TestsGenerated(ok) ==
  /\ AnswerOn("create")
  /\ generating = "tests"
  /\ generating' = "none"
  /\ IF ok
     THEN /\ tests' = draft
          /\ \E n \in 1..MaxCases : SampleCases(n)
          /\ UNCHANGED testsError
     ELSE /\ testsError' = TRUE
          /\ UNCHANGED <<tests, cases, active>>
  /\ UNCHANGED <<author, statement, preview, draft, creating, createEnd,
                 authorError, code, ran, running, runError, hints, handInVars,
                 otherVars>>

ChooseSampleCount(n) ==
  /\ AuthorOn("create")
  /\ preview /\ tests # 0 /\ generating # "tests" /\ ~testsError
  /\ SampleCases(n)
  /\ UNCHANGED <<draftingVars, code, ran, running, runError, hints,
                 handInVars, otherVars>>

EditStatementAgain ==
  /\ AuthorOn("create")
  /\ preview
  /\ preview' = FALSE
  /\ UNCHANGED <<author, statement, generating, draft, tests, testsError,
                 creating, createEnd, authorError, trialVars, handInVars,
                 otherVars>>
-----------------------------------------------------------------------------
(* Create Problem: only its own request disables the button.               *)
Create ==
  /\ AuthorOn("create")
  /\ preview /\ ~creating
  /\ creating' = TRUE
  /\ authorError' = FALSE
  /\ UNCHANGED <<author, statement, preview, generating, draft, tests,
                 testsError, createEnd, trialVars, handInVars, otherVars>>

(* The keys the route's middleware puts into the request's context, and    *)
(* the one the handler asks for.                                           *)
ContextOfCreate == {"UserIDKey"}
Permitted == "claims" \in ContextOfCreate

(* The requests to bulk-add test cases and the way to the new problem's    *)
(* page come after an answer this handler never gives.                     *)
CreateEnds(arrived) ==
  /\ AnswerOn("create")
  /\ creating
  /\ creating' = FALSE
  /\ createEnd' = CASE ~arrived -> "lost"
                    [] arrived /\ cookie = "none" -> "signed out"
                    [] arrived /\ cookie # "none" ->
                         IF Permitted THEN "created" ELSE "refused"
  /\ authorError' = (createEnd' # "created")
  /\ UNCHANGED <<author, statement, preview, generating, draft, tests,
                 testsError, trialVars, handInVars, otherVars>>
-----------------------------------------------------------------------------
(* Trying the problem out beside it.  Choosing a language asks before it   *)
(* clears code the user may want to keep.                                  *)
WriteCode(text) ==
  /\ AuthorOn("create")
  /\ text # code
  /\ code' = text
  /\ UNCHANGED <<draftingVars, cases, active, ran, running, runError, hints,
                 handInVars, otherVars>>

ChooseLanguage(confirmed) ==
  /\ AuthorOn("create")
  /\ code = "blank" \/ confirmed
  /\ code' = "default"
  /\ UNCHANGED <<draftingVars, cases, active, ran, running, runError, hints,
                 handInVars, otherVars>>

EditCase ==
  /\ AuthorOn("create")
  /\ \/ cases' = [cases EXCEPT ![active] = "own"] /\ UNCHANGED active
     \/ Len(cases) < MaxCases /\ cases' = Append(cases, "empty")
        /\ UNCHANGED active
     \/ active' \in DOMAIN cases \ {active} /\ UNCHANGED cases
  /\ UNCHANGED <<draftingVars, code, ran, running, runError, hints,
                 handInVars, otherVars>>

(* Without code or details Run says so; the results of before stay.        *)
RunCode ==
  /\ AuthorOn("create")
  /\ running = <<>>
  /\ IF code = "blank" \/ draft = 0
     THEN runError' = TRUE /\ UNCHANGED <<ran, running>>
     ELSE /\ running' = cases
          /\ runError' = FALSE
          /\ UNCHANGED ran
  /\ UNCHANGED <<draftingVars, code, cases, active, hints, handInVars,
                 otherVars>>

(* The results are of the inputs sent, whatever the cases are by now:      *)
(* unlike the problem page, this one does not tell the user so.            *)
RunAnswered(ok) ==
  /\ AnswerOn("create")
  /\ running # <<>>
  /\ running' = <<>>
  /\ runError' = ~ok
  /\ ran' = IF ok THEN running ELSE ran
  /\ UNCHANGED <<draftingVars, code, cases, active, hints, handInVars,
                 otherVars>>

AskHints ==
  /\ AuthorOn("create")
  /\ preview /\ hints \in {"none", "failed"}
  /\ hints' = "asked"
  /\ UNCHANGED <<draftingVars, code, cases, active, ran, running, runError,
                 handInVars, otherVars>>

HintsAnswered(ok) ==
  /\ AnswerOn("create")
  /\ hints = "asked"
  /\ hints' = IF ok THEN "1" ELSE "failed"
  /\ UNCHANGED <<draftingVars, code, cases, active, ran, running, runError,
                 handInVars, otherVars>>

NextHint ==
  /\ AuthorOn("create")
  /\ hints \in {"1", "2"}
  /\ hints' = IF hints = "1" THEN "2" ELSE "3"
  /\ UNCHANGED <<draftingVars, code, cases, active, ran, running, runError,
                 handInVars, otherVars>>
-----------------------------------------------------------------------------
(* Handing the solution in: it is posted, the list and the details follow, *)
(* and a submission without a verdict is polled for as long as it is the   *)
(* selected one.  An answer that is late still selects what it brings.     *)
SubmitCode ==
  /\ AuthorOn("create")
  /\ draft # 0 /\ submitting = "none"
  /\ IF code = "blank"
     THEN runError' = TRUE /\ UNCHANGED submitting
     ELSE runError' = FALSE /\ submitting' = "posting"
  /\ UNCHANGED <<draftingVars, code, cases, active, ran, running, hints,
                 picked, asked, otherVars>>

SubmitAnswered(ok) ==
  /\ AnswerOn("create")
  /\ submitting = "posting"
  /\ submitting' = IF ok THEN "details" ELSE "none"
  /\ runError' = (~ok \/ runError)
  /\ UNCHANGED <<draftingVars, code, cases, active, ran, running, hints,
                 picked, asked, otherVars>>

SubmittedShown(ok, seen) ==
  /\ AnswerOn("create")
  /\ submitting = "details"
  /\ submitting' = "none"
  /\ IF ok THEN picked' = seen /\ UNCHANGED runError
           ELSE runError' = TRUE /\ UNCHANGED picked
  /\ UNCHANGED <<draftingVars, code, cases, active, ran, running, hints,
                 asked, otherVars>>

(* A row of the list is clicked, or the timer of the effect fires.         *)
(* Bound: one such request at a time.                                      *)
AskSubmission ==
  /\ asked = 0
  /\ asked' = 1
  /\ \/ preview /\ picked = "none" /\ AuthorOn("create")
     \/ picked = "pending" /\ AnswerOn("create")
  /\ UNCHANGED <<draftingVars, trialVars, submitting, picked, otherVars>>

SubmissionShown(ok, seen) ==
  /\ AnswerOn("create")
  /\ asked > 0
  /\ asked' = asked - 1
  /\ picked' = IF ok THEN seen ELSE picked
  /\ UNCHANGED <<draftingVars, trialVars, submitting, otherVars>>

BackToSubmissions ==
  /\ AuthorOn("create")
  /\ picked # "none"
  /\ picked' = "none"
  /\ UNCHANGED <<draftingVars, trialVars, submitting, asked, otherVars>>

(* "Add as Test Case", for a verdict with a failed test.                   *)
AddFailedCase ==
  /\ AuthorOn("create")
  /\ picked = "final" /\ Len(cases) < MaxCases
  /\ cases' = Append(cases, "sample")
  /\ active' = Len(cases) + 1
  /\ UNCHANGED <<draftingVars, code, ran, running, runError, hints,
                 handInVars, otherVars>>
-----------------------------------------------------------------------------
(* The page that generates solutions takes everybody for signed in.  Three *)
(* independent requests; expected outputs need test cases.                 *)
CanMake(product) ==
  /\ product \notin making
  /\ product = "outputs" => "tests" \in made

Make(product) ==
  /\ AuthorOn("solutions")
  /\ CanMake(product)
  /\ making' = making \cup {product}
  /\ UNCHANGED <<draftingVars, trialVars, handInVars, made, adminLoad,
                 adminSends>>

Made(product, ok) ==
  /\ AnswerOn("solutions")
  /\ product \in making
  /\ making' = making \ {product}
  /\ made' = IF ok /\ (product = "tests" \/ cookie # "none")
             THEN made \cup {product} ELSE made
  /\ UNCHANGED <<draftingVars, trialVars, handInVars, adminLoad, adminSends>>
-----------------------------------------------------------------------------
(* The forms under /admin.  The one for test cases loads its problem       *)
(* first.  One posts where problems are refused, the other to a path       *)
(* nobody serves: both requests end in an error.                           *)
AdminLoaded(ok) ==
  /\ AnswerOn("addTestcase")
  /\ adminLoad = "asked"
  /\ adminLoad' = IF ok THEN "some" ELSE "failed"
  /\ UNCHANGED <<draftingVars, trialVars, handInVars, made, making, adminSends>>

ProblemForm == page = "addProblem" /\ ~adminSends
TestcaseForm == page = "addTestcase" /\ adminLoad = "some" /\ ~adminSends

AdminSubmit ==
  /\ ProblemForm \/ TestcaseForm
  /\ AuthorOn(page)
  /\ adminSends' = TRUE
  /\ UNCHANGED <<draftingVars, trialVars, handInVars, made, making, adminLoad>>

AdminRefused ==
  /\ AnswerOn(page)
  /\ adminSends
  /\ adminSends' = FALSE
  /\ UNCHANGED <<draftingVars, trialVars, handInVars, made, making, adminLoad>>
-----------------------------------------------------------------------------
(* The pages' links.                                                       *)
AuthorLinks ==
  CASE page = "create" /\ WorkshopScreen = "denied" -> {"login"}
    [] page = "create" /\ WorkshopScreen = "shown" -> {"problems"}
    [] page = "addProblem" -> {"problems"}
    [] page = "addTestcase" /\ adminLoad = "some" -> {"problem"}
    [] page = "addTestcase" /\ adminLoad = "failed" -> {"problems"}
    [] OTHER -> {}
-----------------------------------------------------------------------------
(* The manual says that Create Problem publishes the problem: no request   *)
(* of a signed-in author that arrives is refused.                          *)
CreatePublishes == createEnd # "refused"
=============================================================================
