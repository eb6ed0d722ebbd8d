# CodeSorted in TLA+

CodeSorted is an online judge: a Go backend (`backend/`), code executors (three
containers under `docker/`, one AWS Lambda under `backend/lambda/`), MongoDB and
a Next.js front end (`frontend/`). This directory holds TLA+ models of the
backend's core and of the front end's pages, TLC configurations that check
them, and TLAPS proofs about them.

    tlc -config MCJudgeQueueSafety.cfg MCJudgeQueue     # one run
    tlapm JudgeQueueProofs.tla                          # its proofs

`PROJECT.json` lists the runs, for every definition the source lines it stands
for, for every property a plausible bug that breaks it (a *mutant*), and the
hazards of the code with the properties that watch them.

## 1. Inventory

### Components, their state, operations and interactions

| component | state | operations | talks to |
|---|---|---|---|
| **Submission queue** `handlers/submission.go` 27-212 | channel `submissionQueue` (100 ids), mutex `submissionQueueLock`, flag `isProcessing` (memory); rows of `submissions`, code files (durable) | `SubmitSolutionHandler`, `startSubmissionProcessor`, `processSubmissionQueue` | clients; Judging |
| **Judging** `submission.go` 215-483, `execute.go` 19-163, `ai/executor.go` | the row's verdict fields, `submission_results`, one 10 s context | `processSubmission`, `runCodeAgainstTestCases`, `ExecuteCode`, `updateSubmissionStatus`, `GetSubmissionDetailsHandler` | executors; problem authoring (reads test cases); progress (spawns) |
| **Executors** `docker/*_executor`, `backend/lambda` | none between calls | compile, run with a time limit, report a status | called by Judging |
| **Problem statistics** `submission.go` 474-533, `utils/acceptance_rate.go`, `problems.go` 58-79 | acceptance rate (`problems`), complexity counters (`problem_stats`) | `updateProblemAcceptanceRate`, `CalculateAcceptanceRate`, `updateProblemStats`, `GetProblemsHandler` | goroutines of Judging; each other and listings through the database |
| **User progress** `submission.go` 259-264, 395-423, `user_skills.go`, `user_checkin.go`, `user_stats.go` 49-95 | skill profile (`user_skills`), check-ins (`user_checkins`), streaks (`user_stats`) | `UpdateUserSkill`, `recordCheckinInternal`, `UpdateUserStreak`, the insert of `GetUserStats` | goroutines of Judging; each other through the database |
| **Per-user rate limits** `middleware/rate_limit.go` 50-419 | one document per user: a counter, a limit and a window for each service | `RateLimitMiddleware`, `GetRateLimitsHandler`, `AdminUpdateRateLimitsHandler` | in front of submission and AI routes |
| **Guest limit by address** `rate_limit.go` 421-505 | map guarded by a read-write lock, one mutex and counter per address | `IPRateLimitMiddleware` | in front of guest login |
| **Discussions** `discussions.go` | threads, comments, votes; counters `upvotes`, `downvotes`, `comment_count` | create, delete, vote | clients |
| **Problem authoring** `ai/ai.go`, `testcases.go`, `solution_generator.go` | `problems`, `test_cases`, `problem_artifacts` | `GenerateExpectedOutputs` (saves in a background goroutine), `AddTestCaseHandler`, `BulkAddTestCasesHandler`, `CreateProblemHandler` | Judging reads all three |
| **Accounts and sessions** `auth.go`, `oauth_handlers.go`, `middleware.go` | `users` with unique indexes, JWT cookies | register, log in, guest log in, OAuth callback, log out | everything behind `JWTAuthMiddleware` |
| **Rankings** `user_stats.go` | rank fields of user documents | `updateAllRankingsInternal` | timer and administrator |
| **AI assistance** `autocomplete.go`, `hints.go`, `convert.go`, `ai/ai.go` | `completion_cache` | ask the model; the cache is looked up before and filled after | model provider |
| **Problem page** `pages/problems/[problemId].tsx` | editor, drafts in `localStorage`, submissions tab with its polling interval, test cases and results, hints, completions | write, switch language, save, load, submit, pick, poll, run, ask for help | submission queue, `/last-code`, executors, AI assistance, rate limits |
| **Session and account pages** `lib/useAuth.ts`, `AuthContext.tsx`, `Navbar.tsx`, `login`, `register`, `forgot-password` | two copies of who is signed in; forms; redirect timers | check, sign in, register, guest, log out | `auth-status` and accounts; every page |
| **List of submissions** `pages/submissions/index.tsx` | filters, "my submissions only", overlapping requests, rows, three views, a modal | filter, refresh, reset, inspect | session; listing handler |
| **Submission page** `pages/submissions/[id].tsx` | submission, statistics, a two-second interval | poll until the verdict | judging, statistics |
| **Home, problem list, profile** `pages/index.tsx`, `problems/index.tsx`, `profile/[username].tsx` | lists, filters, nine requests one after another, an edit form | load, filter, edit, follow | session; read-only handlers |
| **Workshop and admin forms** `problems/create.tsx`, `generate-solutions.tsx`, `admin/**` | statement, generated problem and test cases, a trial editor | generate, create, run, hints, submit | problem authoring, judging |
| dashboard (made-up data), themes, shared widgets, read-only handlers, routing, OAuth clients, scripts | none that another part depends on | | |

### What is hard about it

* **Goroutines.** Every POST to `/submit` runs a handler and a starter; at most
  one processor is supposed to exist, and it is started and stopped by a flag
  under a mutex that the sending of ids does *not* take.
* **A context's clock.** One 10 second context serves reads before, and inserts
  after, the program has run on every test case.
* **Partial failure.** The queue tells MongoDB, the disk, the model provider and
  the executors apart only by logging; rows, files and ids are written in
  separate steps, and a crash forgets the channel.
* **Read-modify-write without transactions** in rate limits, skills, check-ins,
  ranks and votes; count and insert pairs, and upserts, without unique indexes
  (`mongodb.go` 54-63 and `rate_limit.go` 33 make them for names and addresses of
  users and for the limits only).
* **Authors and readers at the same time as the judge**: test cases arrive one
  by one, the details page makes two reads.
* **Answers that come late.** Every page asks, goes on, and takes the answer
  whenever it comes: after the language, the filter, the selected submission or
  the page has changed, or after the answer to a later request. Timers (autosave,
  polling, redirects) close over the state of an earlier render.

What makes each component correct: *queue*: one processor, no submission twice
or half made, none lost while nothing fails, verdicts final; *judging*: the
stored verdict is the verdict of the run, ACCEPTED is earned, every path stores
one, the page shows a failure that happened; *statistics*: a rate no older than
its data, and a percentage, no acceptance counted twice; *progress*: no
problem counted twice, one check-in a day, streaks backed by check-ins; *rate limits*: no
more than the limit per window, windows renew; *discussions*: counters equal
the votes and comments there are; *authoring*: no problem judged against error
texts; *accounts*: one account per address; *rankings*: no two users share a
rank; *problem page*: no code under another language, no change unsaved, the
submission shown is the one picked and its verdict arrives, a green dot is
earned, an offered completion fits the text; *session*: the bar and the pages
agree with the cookie; *lists*: what is listed is what the controls say.

## 2. Modules

    JudgeService   abstract: ONE first-in first-out server
         ^ implemented by (INSTANCE ... WITH, checked and proved)
    JudgeQueue     handlers, starters, processors, mutex, flag, channel, crash
         |  hands one submission to
    Judging        processSubmission of one submission, among author, clock, reader
         |  after each verdict starts goroutines of
    ProblemStats   acceptance rate and complexity counters, among listings
    UserProgress   skills, check-ins and streaks of one user


    ProblemScreen  what the parts of the problem page share
      |- Drafts      editor, localStorage, /last-code, the POST
      |    |- Assist   hints, completions
      |- Watch       submissions tab, polling
      |- TryOut      test cases, Run
    RateLimits     one user's limits, in front of four of the page's requests
    ProblemPage    composes Assist, Watch, TryOut, RateLimits

    Session        cookie, two copies of it, forms, redirects
      |- Listing     list of submissions
      |- Detail      one submission
      |- Browse      home, problem list, profile
      |- Authoring   workshop, solutions page, admin forms
    Site           composes the four: one page is mounted at a time

    *Proofs        theorems;   MC*   instances for TLC

The compositions share variables and join actions: a step of `ProblemPage` is a
conjunction of what it does in each part (`SubmitClick` is `Submit` in Watch,
`PostCode` in Drafts and `Ask("submit")` in RateLimits), a route change of `Site`
is one in Session together with what unmounting and mounting does to every page.

### JudgeQueue

A request is identified with the submission it makes, a processor with the
request whose starter spawned it: two processors are expressible, and their
absence is a theorem. `handler`, `starter` and `processor` are program
counters; a step stands for the code between two points at which another
goroutine could tell the difference (a database call, a channel operation,
taking or leaving the mutex, reading the flag). Inside the critical section the
read of `isProcessing` and the write that follows are separate steps, so that
the mutex, and not the grain of the model, keeps them together.

| code | model |
|---|---|
| `go startSubmissionProcessor()` before authentication | `Receive` |
| early returns 400 / 401 | `Refuse` |
| `InsertOne`, conversion and files, channel send | `InsertRow`, `SaveCode`, `Enqueue`, with `InsertRowFails`, `SaveCodeFails` |
| lock, test, set and spawn, unlock | `StarterLock`, `SeeIdle`, `SpawnProcessor`, `LeaveRunning` |
| `range submissionQueue` | `Dequeue` |
| `processSubmission` | `RecordVerdict`, `RecordFails` (detail in Judging) |
| lock, `len == 0`, clear, unlock, break | `ProcessorLock`, `SeeWork`, `SeeEmpty`, `Stop` |
| the process ends, is started again, loads nothing | `Crash` |

**Fairness.** `FairSpec` asks that a goroutine which is not blocked takes its
next step (the Go scheduler does that), weakly for everything but taking
`submissionQueueLock`, which is strongly fair: `sync.Mutex` gives a contended
lock to its longest waiter once that has waited a millisecond. A processor
that waits at an empty channel, or a sender at a full one, is blocked. Nothing
obliges a client to send a request.

**The lost wake-up** (run `judge_queue_lost`). The starter is spawned at the
top of the handler, before the submission is in the channel. If a processor is
then finishing its last submission, the starter finds `isProcessing` set and
leaves; the processor finds the channel empty, clears the flag and ends; the
handler sends, answers 202 "Submission received and is being processed.", and
nobody receives. The submission stays PENDING until another request arrives.
`NextRequestRescues` shows that any later request is enough.

### JudgeService

What the queue amounts to: rows go from absent to PENDING, a submission enters
the backlog once, only the head of the backlog gets a verdict (or leaves it
because its row could not be updated), and a verdict is never revised. A
restart forgets the backlog and keeps the rows. Its capacity is one more than
the channel's, for the submission being judged.

### Judging

One submission, from its id to its verdict. What the program does on each test
case is chosen at the start (`right`, `wrong`, `chatty`: right but with output
on stderr, `crash`, `hang`, `broken`: does not compile); `Execute` maps it to the
status the executor of its language gives. Before that, `Wrapped` gives what the
program may do once the code around it is added: for Python the submission is
put between triple quotes that are not raw, so that a backslash escape in it
means something else (`escapes`), and then the judged program may do anything.
The judge reads row, problem, test
cases, code, parsers (`ReadSubmission` ... `ReadParsers`, each with its early
return `GiveUp`), runs every test case (`RunTest`), handles the replies
(`SaveResult`, which inserts a result and tallies the verdict), asks for a
complexity analysis if all passed (`Analyse`) and updates the row (`UpdateRow`,
`UpdateFails`). Meanwhile the author publishes the problem and adds test cases,
the 10 seconds may end, and a user opens the details page, which reads the row
(`OpenDetails`) and then the results (`ShowFailure`). Whether calls may fail is
chosen at the start too (`failing`), so that one run covers both. Outputs are abstracted to
equal or not equal to the expected one. Measured times and memory, and the log
file, are left out.

**Fairness.** `WF(Judge)`: the processor goroutine goes on and each of its calls
ends by a time limit. Author, clock and reader owe nothing.

**Two disagreements with the README of the repository.** The result loop asks
for the status `"timeout"` while every executor says `"time_limit_exceeded"`, so
TIME_LIMIT_EXCEEDED is never stored (run `judging_time_limit`). For every
language but Python, `runCodeAgainstTestCases` surrounds the program with lines
that begin with `# ======`, which is a comment only in Python, so a right
program is rejected (run `judging_languages`). A right Python program with a
backslash escape may be rejected too, and a wrong one accepted:
`AcceptedIsEarned` says of code with escapes only what the wrapped program did.

**Observed, and part of the model, with no statement to measure them by.** A
pseudocode submission ends in RUNTIME_ERROR: the judge reads the original text
and asks for artifacts and an executor of the language `pseudocode`, although
the handler has also stored a conversion to Python. Compile errors are stored
as RUNTIME_ERROR. A problem without test cases, or one whose test cases are not
there yet, is accepted by default, without credit.

### ProblemStats

The processor stores a verdict (`Decide`) and goes on with the next submission;
a goroutine counts the rows of the problem (`CountTotal`), then the accepted
ones (`CountAccepted`), stores the quotient (`WriteRate`), and increments the
complexity counters if the submission was accepted with an analysis.
`GetProblemsHandler` does the first three for a problem whose stored rate is not
positive (`List`). Goroutines and listings are *writers*, identified by the
submission or the listing. Any call may fail (`DecideFails`, `RateFails`,
`ComplexityFails`; an update that is reported to fail may have taken effect) and
the server may die (`Crash`). When the update of the row reports an error, no
goroutine is started, whether the verdict is there or not. The rate is kept as
the pair of numbers it is the quotient of.

The counters are one upsert in the code, and in the model either an atomic
`$inc` of a document that exists (`CountComplexity`) or two steps, since
`problem_id` has no unique index: the filter finds nothing (`FindNoStats`), a
document is created (`CreateStats`). `stats` holds the documents by the
goroutine that created them.

Nothing orders the writers. A submission that arrives and is accepted between
the two counts of another writer is in the second only, and if its own writer
stores first, more than 100 % stay when everything is judged and counted, until
the next verdict. `models/problem.go` 21 says percentage; the run
`problem_stats_rate` shows 200 % (`RateIsAPercentage`). What holds is
`RateIsExactAtRest`: whoever overlaps, and whatever arrives between two counts,
the rate at rest is that of the rows, unless a writer stored smaller counts over
larger ones, which `lowered` records: that is the stale write itself, not the
overlap that makes it possible. Without the exception the property is false, as
`problem_stats_rate` shows.

`CountersExact` holds whoever overlaps: the documents of a problem *between them*
count each analysed acceptance once, less those whose own goroutine a failure
hit. That there is one document, and so that a reader of one sees them all,
holds unless two goroutines created the first at the same time (`twice`).

### UserProgress

One user. `processSubmission` ends with a goroutine that, for an accepted
submission, runs `UpdateUserSkill` (`ReadProfile`, `CountAccepted`,
`SaveProfile`) and then `recordCheckinInternal` (`ReadDay`, `Look`,
`InsertCheckin`) with `UpdateUserStreak` (`ReadCheckins`, `StoreStreak`). The
clock passes midnight at any time (`Midnight`), calls fail, the server dies. The
goroutine runs from the verdict in memory, so it runs also when the row could
not be updated (`AcceptUnstored`); and a submission to a problem that has no
test cases yet is accepted by an early return, with a row and without a
goroutine (`AcceptByDefault`). Check-ins are identified by the goroutine
that inserted them, so two of one day are expressible. The streaks are written
as what the two loops compute: runs of consecutive days in the list of
check-ins, which a repeated day interrupts. `Sorted` is the set of lists the
query may answer with: the days in order, a repeated day as often as it is
stored; `ReadCheckins` takes one. The route for checking in by hand
(`RecordCheckin`) answers 401 to everybody, since it looks for the user under
another context key than the middleware stores, and so is no action.

Profile and streak are documents found by `user_id` without a unique index. The
model has the one that is found. `GetUserStats` inserts zeros when it finds
none, so late that another may be there by then (`InsertStats`; `doubled` records
it), and where goroutines overlap a write may go into the other document
(`Lost`).

The default acceptance has a consequence no failure and no overlap is needed
for: when the test cases have come, a real acceptance of the problem finds two
accepted rows, takes the problem for counted (`user_skills.go` 134), and it is
never counted. `SolvedIsExact` says so: at rest a skill counts its solved
problems except those once accepted untested, and none of these.

`crossed` says that a submission was accepted while the goroutine of an
earlier one was running. Then two acceptances of one problem may both count two
accepted rows, and the problem is never counted; a profile read before is
written back over another's count; two check-ins are inserted for a day, and
every streak over that day is cut from then on. The code promises nothing better
there, so `SolvedIsExact`, `OneCheckinADay` and `StreakIsExact` are about
the rest. What never happens without
failures, overlapping or not: a problem counted twice for a skill
(`NotCountedTwice`), a goroutine that ends without its day checked in
(`EndedIsCheckedIn`), a streak longer than the check-ins justify
(`StreakIsBacked`, which holds with failures too). If verdicts are lost
(`AcceptUnstored`), a problem can be counted twice, which is why
`NotCountedTwice` assumes that no call failed.

### The problem page: ProblemScreen, Drafts, Watch, TryOut, Assist, RateLimits

React runs the handlers of `[problemId].tsx` one at a time, so that an action is
the code of a handler or an effect up to its next `await`, or from one to the
next. Between two of them anything may happen: the user acts, other answers
come, timers fire. An answer to a page that has been left goes nowhere; what it
did on the server stays. Hooks run under the loading and the error screen too,
and only the user needs `Screen = "shown"`.

| code | model |
|---|---|
| `checkLoginStatus`, `fetchProblem`, `fetchThreads` | `AuthAnswered`, `ProblemArrives`, `ProblemFails`, `StatsSettle`, `OpenDiscussion`, `ThreadsEnd` |
| load effect on `isLoggedIn`, language; answer of `getLastCode` | `LoadCode`, `CodeArrives` |
| editor's `onChange`, `handleLanguageChange`, save effect and its timer | `SetCode`, `SelectLanguage`, `SaveFires` |
| `handleSubmitCode` from click to selection of the new submission | `Submit` + `PostCode`, `RowInserted` + `PostStored`, `PostAnswered`, `SubmitEnds`, `PostFails` |
| `fetchSubmissions`, `handleSelectSubmission`, `onBack`, polling effect | `FetchSubmissions`, `PickSubmission`, `BackToList`, `PollTick`, `DetailsArrive`, `DetailsFail` |
| test case controls, `handleRunCode`, dots, output pane | `EditInput`, ..., `Run`, `RunArrives`, `RunFails`, `Dot`, `OutputPane` |
| `handleGetHint`, `provideInlineCompletions`, key bindings | `GetHint`, `HintsArrive`, `Complete`, `AskCompletion`, `CompletionArrives`, `AcceptOffer`, `InsertLastOffer` |
| `RateLimitMiddleware`: find, create, decide, update | `FindNone`, `CreateDoc`, `DuplicateDoc`, `Allow`, `Refuse`, `Charge`, `LimiterFails` |

Three histories carry the exceptions of the properties, each an overlap that
nothing in the code prevents, and each the exact shape of a hazard that the
properties therefore do not catch: `crossed` (Drafts), an answer of `/last-code` was
applied under another language than it was asked for, because the answer does
not say which one it is for; `overlap` (Watch), requests about two submissions
were on their way together, and the answer that comes last is shown;
`raced` (RateLimits), two requests of one service were between the read and the
write of the counter. Without them the properties hold however the handlers
interleave; `NeverRefusedEarly`, `GreenIsEarned` and `OfferIsFresh` need no such
exception.

Two facts the model shows on the way. A rate limit's window is renewed in memory
but only the counter is stored (`rate_limit.go` 118, 142): after the first hour
every request finds the stored window expired, starts from zero, and nobody is
refused again ("reset hourly", README 110). A case without input is not run, and
the results after it move up beside the wrong cases, which is the exception in
`Earned`. `InputsOf` is that filter of `handleRunCode`: `Place(cs, k)` is the place
of the k-th case with an input. `localStorage` is taken to work; text is told apart as far as the code
does (placeholder, nothing, code of a language); a request lost on its way is
`LimiterFails`. The verdict is the server's (`Judge`; in detail JudgeQueue and
Judging).

### The site: Session, Listing, Detail, Browse, Authoring

One page is mounted at a time. A route change (`RouteChanged`) drops the state
of the page that is left, starts the new one with its first requests
(`...Remounts`) and makes both copies of `useAuth` ask `/api/auth-status` again.
The copies do not know which of their requests an answer belongs to; `asks`
keeps the requests in order and `settled` records that a copy shows the answer to
its latest one. A sign-in form sets the cookie and redirects a moment later,
wherever the user is by then; no form cancels its timer. The form of `login.tsx`
never sets a cookie: it sends `username` and `password`, the handler requires
`email` and answers 400 (`SignedInBy`). `RouteChanged` takes `router.push` and the event
`routeChangeComplete` for one step.

| code | model |
|---|---|
| `useAuth`, `routeChangeComplete`, `AuthProvider`, `Navbar` | `AuthChecked`, `RouteChanged`, `NavItems`, `Logout`, `LoggedOut`, `LogoutFails` |
| `login.tsx`, `register.tsx`, `forgot-password.tsx` | `InvalidForm`, `SendForm`, `SignIn`, `FormFails`, `Redirect` |
| `submissions/index.tsx` | `ChangeFilter`, `ToggleMine`, `FetchAgain`, `ResetFilters`, `SignedInSeen`, `ListAnswered`, `ShowAs`, `Inspect`, `CloseModal` |
| `submissions/[id].tsx` | `PollFires`, `DetailArrives`, `StatsArrive`, `DetailFails`, `ReaderKnown` |
| `pages/index.tsx`, `problems/index.tsx`, `profile/[username].tsx` | `HomeListArrives`, `ProblemsArrive`, `ProgressRefused`, `Filter`, `PartArrives`, `ToggleEdit`, `Update`, ... |
| `problems/create.tsx`, `generate-solutions.tsx`, `admin/**` | `Generate`, `DetailsGenerated`, `TestsGenerated`, `Create`, `CreateEnds`, `RunCode`, `SubmitCode`, `Make`, `AdminSubmit`, ... |

Requests that overlap are sequences, oldest first; an answer may be the i-th
(`Answered`), and marks those before it as overtaken. `pollOrdered`,
`listOrdered` and `settled` say that the state shown is not one that a late answer
brought back. They are needed: a PENDING answer that comes after the verdict
leaves the submission page at PENDING with its interval cleared; a list
answered in the wrong order shows rows that its controls do not ask for.

**Creating a problem** (run `site_create`). The route passes
`JWTAuthMiddleware`, which stores the user under `UserIDKey`; the handler looks
for `claims`, which only `AdminAuthMiddleware` stores. Every request that arrives is
answered 500, whoever is signed in.

**Observed, and part of the model.** For the same kind of reason no request of
the profile form ever succeeds (`UpdateRefused`: `profile.go` 95 reads the plain
key `userID`; so do the handlers of check-ins, statistics, skills and languages)
and no problem in the list is marked as solved (`ProgressRefused`: the route has
no authentication). `/forgot-password` and `/admin/testcases` are registered
nowhere, and the page administrators are sent to after signing in does not
exist (`"missing"`). A failed log-out says the session was cleared while the
cookie stays (`LogoutFails`). A failed request of the list hides a later answer
(`listError` in `ListAnswered`), and Reset does not fetch when "mine" was off
already, although the comment beside it says the effect will. When generating
test cases fails, those of the problem generated before stay beside the new one
(`TestsGenerated`), and Create is allowed meanwhile.

## 3. Runs

| run | instance | shows |
|---|---|---|
| `judge_queue_safety` | 3 requests, 2 verdicts, channel of 2, failures, 1 crash | one processor; the flag tells the truth; queued work is complete, undecided and unique; verdicts are final; refinement of JudgeService |
| `judge_queue_live` | 3 requests, channel of 2, no failures, fair | no accepted submission falls out; a later request gets the channel drained |
| `judge_queue_lost` | 2 requests, fair | **violation**: an accepted submission may wait for ever |
| `judging_faults` | 3 test cases (two with one sequence number), Python, C++ and pseudocode, any call may fail or none, fair | verdict = run; ACCEPTED is earned; frozen after the verdict; the failure shown happened, and is the first while no call fails; every judgement ends |
| `judging_time_limit` | Python, `right` and `hang` | **violation**: running out of time is not reported |
| `judging_languages` | four languages, `right` | **violation**: a right program is not accepted (in JavaScript, C++ and Java ever, in Python with backslash escapes) |
| `problem_stats` | 2 submissions and a listing of one problem, 1 submission of another, 1 failure or crash | the rate at rest is exact unless smaller counts were stored over larger ones; the documents count each analysed acceptance once |
| `problem_stats_rate` | the same without failures | **violation**: the stored percentage stays at 200 when all is judged |
| `user_progress` | 3 submissions to 2 problems that share a skill, accepted in the three ways, 3 days, 1 failure or crash | no double counts, one check-in a day, streaks backed by check-ins; exact where goroutines do not overlap, but for problems once accepted untested |
| `problem_page` | one user on the page, 10 plans of clicks, 2 languages, 2 submissions, limits 2 and 1, fair | code keeps its language, autosave keeps up, the view follows the pick, green is earned, offers are fresh, limits hold where requests do not overlap; a verdict reaches the view |
| `site` | 17 visits, each a start page, an identity and clicks, fair | both copies of the session agree with the cookie at rest; the list is what its controls say; an open submission page shows the verdict |
| `site_create` | a signed-in author makes a problem, 4 clicks | **violation**: a request to create a problem is refused |

**Bounds.** Three requests are the fewest with which a processor can be ending
while one starter has read the flag, another waits for the lock and a sender
waits at a full channel of two; capacity 2 makes full, partly full and empty
differ. The real capacity of 100 is covered by the proofs, which hold for any.
One crash (`MaxCrashes`) exercises the restart on every reachable state; a
second one starts from states of the same shape, and the proofs hold for any
number. In Judging three test cases let a first, a middle and a last failure
differ, and two of them share a sequence number, as test cases of two uploads
do; two programs, right and wrong, are enough there, since the language and the
escapes make them fail in the other ways. In ProblemStats, two verdicts and a listing are the writers of one problem,
enough for any two to overlap and for a third to follow, and the submission of
the other problem shows that counts do not mix; the proofs hold for any number.
In UserProgress two submissions to one problem can find each other, a third to
another problem shares a skill with them so that a profile can be written back
over its count, and three days are the shortest streak that has a middle. One
failure or crash at any step, in any state, is in every run that allows
failures (`MaxFaults`; in the queue and in Judging any number of calls may fail).

A user may click without end, so the two front-end runs bound the clicks, and
nothing else the user does: each plan of `MCProblemPage` and each visit of
`MCSite` gives numbers of clicks to the groups of controls whose handlers share
state, while timers, answers, the limiter and the server run freely beside
them. The plans pair what can interfere: leaving with each request, writing with
switching, submitting with picking, several requests of one service with the
hour passing. Two languages, two submissions, two completions and three test
cases are the fewest with which two can be confused and a third can stay
between. `MaxLoads` 2 and `MaxAsks` 1 bound equal requests in flight (of each
kind, submission and status there may be one, so that up to twelve different
ones overlap), `MaxChecks` and `MaxPolls` 2 those of the session and of the submission page: two are
the fewest that can arrive in the wrong order. `MaxDrafts` 2 lets a second
generated problem meet the test cases of the first.

`CHECK_DEADLOCK FALSE` is set because these systems may rest: the judgement
ends, no request need arrive, a user runs out of clicks. `SYMMETRY` over requests is used in the safety
run only, where requests are interchangeable.

**Fairness in the front end.** `ProblemPage!FairSpec`: the server judges
(`ServerJudges`; the lost wake-up of the queue is the exception, run
`judge_queue_lost`), the browser fires the interval (`PollTick`), a request for
the list ends (`ListAnswered`), and a poll may be lost but not every one
(`SF` on `PollAnswered`). `Site!FairSpec`: the interval fires and a request ends,
with an answer or a failure; both are what a browser does. The user owes
nothing.

## 4. Proofs

`JudgeQueueProofs` proves, for every set of requests and verdicts, every
capacity, with or without failures, for any number of crashes, and from
`QueueAssumption` alone (the markers differ from one another and the capacity
is positive):

* `TypeCorrect`: types;
* `OneProcessor` and `FlagTellsTheTruth`: `AtMostOneProcessor` and `FlagIsTruthful`;
* `WorkSafety` and `NothingIsQueuedTwice`: `WorkIsReady` and `NoDuplicateWork`;
* `NothingDropped`: `AcceptedIsTracked`;
* `VerdictsStay`: the action property `VerdictIsFinal`;
* `Refinement`: `ImplementsService`.

None of the invariants is inductive alone. `AtMostOneProcessor` needs that a
starter which has read `isProcessing = FALSE` still finds it so when it spawns,
hence that every writer of the flag holds the lock (`Mutex`), that a request
spawns one starter and a starter one processor (`Spawning`), and that the flag
is set exactly while a processor runs (`FlagIsTruthful`). `WorkIsReady` needs to
know how far the handler of a queued submission is (`Phases`): past its send,
so its row and file are there; and that what a processor holds was accepted
(`Work`). `IInv` is the conjunction, proved in three layers, each citing the one
before: `TypeOK` (`StepType`), `Control` (`StepControl`), `Readiness`
(`StepReadiness`), one step per action. The refinement maps the backlog to the
submission in hand followed by the channel, and needs `IInv` to know that only
one is in hand.

`ProblemStatsProofs` proves, for every finite set of submissions, any listings
and problems, and any number of failures and crashes, from `StatsAssumption`:

* `TypeCorrect`: types;
* `ExactAtRest`: `RateIsExactAtRest`;
* `Counters`: `CountersExact`.

`ExactAtRest` rests on two invariants. `Behind`: what a writer has read, and what
is stored, is never ahead of the rows, since rows and acceptances only become
more. `Fresh`: with no failure, and while no smaller count was stored, a problem's
rate is exact, or it is going to be (`Coming`): a submission is still `PENDING`
and will bring a writer, or a writer has not counted yet, or has counted what
there is now (`UpToDate`). The writer that stores over the exact rate stores
counts no smaller, by `lowered`, and no larger, by `Behind`. No writer needs to be
alone for that.

`Counters` rests on `Counting`: an assignment of the acceptances counted so far
to the documents that count them, `Tallied`, which each upsert extends by one
(`TallyOneMore`) and each failure may leave behind; only goroutines of analysed
acceptances come to the counters. `Single` says of a problem outside `twice`
that nobody creates a document when there is one and no two create one.
Sizes of sets come from `FS_Subset` and `FS_AddElement`.

`JudgingProofs` proves, for every finite set of test cases with any sequence
numbers, any programs and languages, with or without failing calls, from
`JudgingAssumption`:

* `JudgingTypeCorrect`: types;
* `VerdictIsTheRun`: `VerdictMatchesRun`;
* `AcceptanceIsEarned`: `AcceptedIsEarned`;
* `ShownFailureBelongs` and `ShownFailureIsTheFirst`: `ShownFailureIsReal` and
  `ShownFailureIsFirst`;
* `VerdictIsFrozen`: the action property `FrozenAfterVerdict`;
* `JudgementIsFinite`: a judgement cannot go on for ever, whatever fails.

`Stage` says what has been done at each point of `processSubmission`; inside the
result loop it says that the verdict so far is the tally of the replies handled
so far (`Tallied`), which `TallyCounts` shows one turn of the loop to keep.
`RowIsLast`: nothing but the last step writes the row, hence the frozen verdict.
`RepliesAreHonest`: a reply that matches comes from a program that is right,
because what the wrapper does to code without escapes can only break it
(`ExecuteCodeIsHonest`); of code with escapes `AcceptanceIsEarned` says that every
test case was answered and matched, and no more can be said. `ResultsAreReal`: the stored results are those of
handled replies and, where no call fails, the first of them up to the moment the
context ended. With `InOrder`, the sort, this gives `PageIsReal`: the failure
with the lowest sequence number among the stored ones is the first failure of
the run, even when later ones were lost. `JudgementIsFinite` is the half of
`JudgementEnds` that needs no fairness: `StepsLeft`, what `processSubmission` has
before it, stays within twice the number of test cases and seven
(`StepsAreBounded`), is 0 at the end only, goes down with every step of the judge
(`JudgeStepsDown`) and is left alone by the author, the clock and the reader. It
needs that the judge reads its list once (`ReadsWhatThereIs`), so that test cases
added while it runs do not feed the loop.

`UserProgressProofs` proves, for every finite set of submissions and problems,
any skills, days and number of faults, from `ProgressAssumption`:

* `DaysAreCheckedInOnce` and `NoDayIsForgotten`: `OneCheckinADay` and
  `EndedIsCheckedIn`;
* `ProblemsAreCountedOnce` and `CountsOfProblemsAreExact`: `NotCountedTwice` and
  `SolvedIsExact`;
* `StreaksAreBacked` and `StreaksAreExact`: `StreakIsBacked` and `StreakIsExact`;
* `ProgressTypeCorrect`: types, the streaks' included.

`NotCountedTwice` is far from inductive: goroutines write back profiles that are
older than the database. `CountsAreBounded` bounds every profile, stored or in
hand, by the problems in `Counted`: those of which some accepted submission has
gone past its count. `RowsAgree` says which submissions have a goroutine at all:
one accepted by default has none, and without failures only one whose row is
stored updates the skills. A goroutine adds to its profile only if it is the one
accepted submission of its problem (`AloneOrNot`), and then the problem enters
`Counted` with that same step. `CountsAreExact` follows the one goroutine that
runs when none overlap: what it is about to save counts all solved problems
outside `Untested` (`Creditable`). A goroutine whose problem is in `Untested`
finds two rows and adds nothing; no problem joins `Untested` after a goroutine
has counted it, since test cases are never removed.
`Calendar` ties a goroutine about to insert to a day nobody has checked in.

The streaks are computed from a sorted list and stated of the set of days. A run
in the list is a run of days (`StreaksAreRuns`), so what a goroutine has computed
is backed, and stays so because check-ins are never removed (`BackedStays`): with
`Backed` for the stored streak and every computed one, `StreaksInv` is inductive
whatever overlaps or fails. A run of days is found in the list if no day is
there twice (`RunsAreStreaks`), which `OneCheckinADay` gives where goroutines do
not overlap; then the streak is behind only between the insert and the store,
or after `GetUserStats` put its zeros in front (`doubled`).
That consecutive places of a list hold consecutive days is shown by a least
counterexample (`LeastNumber`, from `NatLessThanWellFounded`), as induction is not
available. `CheckinsCanBeSorted` shows that `Sorted` is never empty, so that the
model does not owe these results to a read that cannot happen.

`RateLimitsProofs` proves, for any requests, services, limits and failing
database calls, from `LimitsAssumption`: `LimitsTypeCorrect` (types),
`RefusalIsDue` (`NeverRefusedEarly`) and `LimitIsKept` (`LimitKeptAlone`). The
stored counter, and every counter a request has read and is going to write,
lags behind what has been charged (`CountersLag`), so that a refusal is always
due; for a user and service whose requests never overlapped it is exact
(`AloneOn`).

`DraftsProofs` proves for any languages, texts and bound of requests
`DraftsTypeCorrect` (types), `CodeKeepsItsLanguage` (`NoForeignCode`) and
`AutosaveIsComplete` (`AutosaveKeepsUp`). The three together are inductive
(`DraftsInv`); there is one lemma for each step of the editor. The load effect
needs that a draft is never of another language, the save effect that the code
is not.

`ProblemPageProofs` carries these results to the composed page: every step of
`ProblemPage` is a step of the editor or leaves it alone (`PageStepsEditor`), and
likewise for the limits (`PageStepsLimits`). So the page implements both
component specifications (`PageRunsEditor`, `PageRunsLimits`), and their theorems
hold of it: `PageKeepsLanguages`, `PageSaves`, `PageIsLimited`. Four more belong to
the page: `OffersAreFresh` (`OfferIsFresh`; a call whose token was not cancelled was made
for what the editor holds now, `CallsAreFresh`) and `ViewIsThePick`
(`ViewFollowsPick`; while answers about one submission only are on their way,
that submission is the one wanted, `OneInterest`); `PageTypeCorrect` (types) and
`GreenDotsAreEarned` (`GreenIsEarned`). The last two rest on `PageInv`, one layer
for each part of the page. Its `TryInv` speaks of the results alone, not of the
cases: a result whose output is the expected one was earned where it stands
(`GreenResults`), which no later edit can undo. `SentInputs` relates the filtered
list that is sent to the places it came from: the k-th answer belongs to case k
unless a case without input stands before it. `MaxCases` bounds the cases a user
adds and must allow for the one the page starts with (`TryOutAssumption`).

`SiteProofs` proves of the composed site, for any visits and bounds,
`SessionIsShown` (`SessionShown`), `ListIsTheQuery` (`ListMatchesQuery`) and
`SiteTypeCorrect` (types). The first two rest on what one request does to those before it: `AnsweredProperties` says
which request stands where once an answer has come and those it overtook are
marked late. `SessionInv`: while no redirect is under way, the newest request of
each copy of `useAuth` asks for the cookie of now, or the copy shows it already
(`Faithful`). `ListInv`: the newest request of the list has the query of the controls,
or the list has the answer (`UpToDate`). Types need two facts beside themselves
(`SiteInv`): a redirect or a link leads to a page of the site, and the number of
a draft is below its bound while the model's answer to it is awaited
(`DraftingTypes`).

Every safety invariant, every action property and the refinement of the passing
runs is stated by a theorem. What TLC alone checks is liveness
(`NextRequestRescues`, `JudgementEnds`, `VerdictReachesView`, `VerdictIsShown`),
since the prover has no rule for fairness and none for `ENABLED`:
`JudgementIsFinite` is as far as proof goes there.

## 5. Plan

Done: the judge and what its verdicts change (JudgeQueue, Judging, ProblemStats,
UserProgress), then the pages in front of it with the limits that answer them
(ProblemPage, Site), each with its theorems. What remains, in the order of its
worth:

1. `Discussions`: threads, comments and votes, three counters kept beside the
   documents they count (hazard `discussions.go:635`). Abstract specification:
   the sets of votes and of visible comments; the counters as a refinement that
   is exact while requests do not overlap. Today no page creates, votes or
   deletes.
2. `GuestLimit`: the map of addresses with its read-write lock (hazard
   `rate_limit.go:457`), as a second instance of the promise RateLimits makes.
3. The server's half of Authoring: the goroutine of `ai.go` that saves artifacts,
   problem and test cases after the answer (hazard `ai.go:1069`), composed with
   the judge through `published` and `suite` of Judging.
4. `Accounts` (find or create after an OAuth callback, hazard
   `oauth_handlers.go:192`), `Rankings`, the completion cache.
5. Proofs: for polling what `JudgementIsFinite` is for the judge, a measure of
   the requests between a verdict and the view that shows it.

## 6. Not modelled

* **Discussions on the server, guest limit, rankings, OAuth providers, the
  completion cache:** see the plan. The pages ask for the threads of a problem
  and for nothing else of the discussions.
* **Prompts and model answers** (`ai.go`, `hints.go`, `autocomplete.go`,
  `convert.go`): a call succeeds with something or fails; the parsing of a
  model's text is abstracted to that.
* **Cryptography and identity:** JWT signing, password hashes, OAuth clients. A
  cookie stands for nobody, a guest, a user or an administrator.
* **Read-only handlers, CORS, the route table, log files, maintenance scripts:**
  no state that a property is about.
* **Measured times and memory** of a run, and the limits the operating system
  puts on the executors: an executor answers with a status.
* **In the front end:** rendering, styling, themes and animations; widgets and
  notifications (`_app.tsx` uses the notification context outside its provider);
  the charts; `dashboard.tsx`, which shows constants; opening the filter panel;
  filters and sorting of the home page; the browser's back button; the cookie's
  end after 24 hours; leaving for a social login and coming back; an answer cut
  after its headers; requests of a submission page that is left; the workshop's
  inline completions (Assist models the same provider on the problem page).
  `lib/inputParser.ts` is imported by nothing.
* **Turning pages** of the list of submissions: the state is there, no control
  changes it.
