----------------------------- MODULE RateLimits -----------------------------
(***************************************************************************)
(* The limits on what one user may ask of the server in an hour            *)
(* (backend/internal/middleware/rate_limit.go): one document per user with *)
(* a counter per service, read, decided upon and written back by every     *)
(* limited request.  Nothing holds the document between the read and the   *)
(* write; a unique index on user_id makes the second of two concurrent     *)
(* first requests fail.                                                    *)
(*                                                                         *)
(* The window opens when the document is created, with the time of that    *)
(* moment stored for every service.  A request after the hour sets counter *)
(* and window to new values in its own copy and writes only the counter,   *)
(* so the stored window stays the expired one.                             *)
(*                                                                         *)
(* A request is a slot that is used again once its answer has been taken.  *)
(***************************************************************************)
EXTENDS Naturals

CONSTANTS
  Requests,     \* the limited requests a user's pages can have in flight
  Services,     \* models.RateLimitedService
  ServiceOf,    \* the service each request uses
  Limit,        \* MaxRequests of each service
  NoDoc         \* the user has no document

ASSUME LimitsAssumption ==
  /\ ServiceOf \in [Requests -> Services]
  /\ Limit \in [Services -> Nat \ {0}]
  /\ NoDoc \notin [Services -> Nat]

VARIABLES
  limiter,      \* where RateLimitMiddleware is, per request
  write,        \* the counter a request is about to store
  counts,       \* database: CurrentCount per service, or NoDoc
  windowOpen,   \* the hour after the creation of the document is not over
  charged,      \* ghost: counters written in the window, per service
  raced         \* ghost: two requests of the service overlapped

limitVars == <<limiter, write, counts, windowOpen, charged, raced>>

LimiterStates ==
  {"idle",      \* no such request
   "asked",     \* in front of FindOne
   "creating",  \* found no document, in front of InsertOne
   "writing",   \* allowed, in front of UpdateOne
   "admitted",  \* the next handler runs
   "refused",   \* 429
   "broken"}    \* 500 "Error checking rate limit"

LimitsTypeOK ==
  /\ limiter \in [Requests -> LimiterStates]
  /\ write \in [Requests -> Nat]
  /\ counts \in [Services -> Nat] \cup {NoDoc}
  /\ windowOpen \in BOOLEAN
  /\ charged \in [Services -> Nat]
  /\ raced \in [Services -> BOOLEAN]

LimitsInit ==
  /\ limiter = [r \in Requests |-> "idle"]
  /\ write = [r \in Requests |-> 0]
  /\ counts = NoDoc
  /\ windowOpen = TRUE
  /\ charged = [s \in Services |-> 0]
  /\ raced = [s \in Services |-> FALSE]

Undecided == {"asked", "creating", "writing"}

(* A request reaches the middleware, with a valid token.                   *)
Ask(r) ==
  /\ limiter[r] = "idle"
  /\ limiter' = [limiter EXCEPT ![r] = "asked"]
  /\ raced' = [raced EXCEPT ![ServiceOf[r]] =
                 @ \/ \E q \in Requests : /\ ServiceOf[q] = ServiceOf[r]
                                          /\ limiter[q] \in Undecided]
  /\ UNCHANGED <<write, counts, windowOpen, charged>>

(* FindOne answers ErrNoDocuments.                                         *)
FindNone(r) ==
  /\ limiter[r] = "asked"
  /\ counts = NoDoc
  /\ limiter' = [limiter EXCEPT ![r] = "creating"]
  /\ UNCHANGED <<write, counts, windowOpen, charged, raced>>

(* InsertOne of the default limits, by the first request that gets there.  *)
CreateDoc(r) ==
  /\ limiter[r] = "creating"
  /\ counts = NoDoc
  /\ counts' = [s \in Services |-> 0]
  /\ limiter' = [limiter EXCEPT ![r] = "writing"]
  /\ write' = [write EXCEPT ![r] = 1]
  /\ UNCHANGED <<windowOpen, charged, raced>>

DuplicateDoc(r) ==
  /\ limiter[r] = "creating"
  /\ counts # NoDoc
  /\ limiter' = [limiter EXCEPT ![r] = "broken"]
  /\ UNCHANGED <<write, counts, windowOpen, charged, raced>>

(* FindOne answers the document; the decision is made on this copy.        *)
CurrentCount(s) == IF windowOpen THEN counts[s] ELSE 0

\* Mutant: one request more than the limit.
AllowOneMore(r) ==
  LET s == ServiceOf[r] IN
  /\ limiter[r] = "asked"
  /\ counts # NoDoc
  /\ CurrentCount(s) <= Limit[s]
  /\ limiter' = [limiter EXCEPT ![r] = "writing"]
  /\ write' = [write EXCEPT ![r] = CurrentCount(s) + 1]
  /\ UNCHANGED <<counts, windowOpen, charged, raced>>

Allow(r) ==
  LET s == ServiceOf[r] IN
  /\ limiter[r] = "asked"
  /\ counts # NoDoc
  /\ CurrentCount(s) < Limit[s]
  /\ limiter' = [limiter EXCEPT ![r] = "writing"]
  /\ write' = [write EXCEPT ![r] = CurrentCount(s) + 1]
  /\ UNCHANGED <<counts, windowOpen, charged, raced>>

\* Mutant: the request itself is counted before it is compared.
RefuseTooSoon(r) ==
  LET s == ServiceOf[r] IN
  /\ limiter[r] = "asked"
  /\ counts # NoDoc
  /\ CurrentCount(s) + 1 >= Limit[s]
  /\ limiter' = [limiter EXCEPT ![r] = "refused"]
  /\ UNCHANGED <<write, counts, windowOpen, charged, raced>>

Refuse(r) ==
  LET s == ServiceOf[r] IN
  /\ limiter[r] = "asked"
  /\ counts # NoDoc
  /\ CurrentCount(s) >= Limit[s]
  /\ limiter' = [limiter EXCEPT ![r] = "refused"]
  /\ UNCHANGED <<write, counts, windowOpen, charged, raced>>

(* UpdateOne: the counter alone, and the verdict follows its answer, which *)
(* can fail although the write took place.                                 *)
Charge(r, heard) ==
  LET s == ServiceOf[r] IN
  /\ limiter[r] = "writing"
  /\ counts' = [counts EXCEPT ![s] = write[r]]
  /\ charged' = [charged EXCEPT ![s] = @ + 1]
  /\ limiter' = [limiter EXCEPT ![r] = IF heard THEN "admitted" ELSE "broken"]
  /\ UNCHANGED <<write, windowOpen, raced>>

(* A database call fails.                                                  *)
LimiterFails(r) ==
  /\ limiter[r] \in Undecided
  /\ limiter' = [limiter EXCEPT ![r] = "broken"]
  /\ UNCHANGED <<write, counts, windowOpen, charged, raced>>

(* The browser has the answer of the request.                              *)
Taken(r) ==
  /\ limiter[r] \in {"admitted", "refused", "broken"}
  /\ limiter' = [limiter EXCEPT ![r] = "idle"]
  /\ UNCHANGED <<write, counts, windowOpen, charged, raced>>

(* An hour has passed since the document was made.                         *)
HourPasses ==
  /\ windowOpen
  /\ counts # NoDoc
  /\ windowOpen' = FALSE
  /\ UNCHANGED <<limiter, write, counts, charged, raced>>

(* A step of the middleware.                                               *)
LimiterStep(r) ==
  \/ FindNone(r)
  \/ CreateDoc(r)
  \/ DuplicateDoc(r)
  \/ Allow(r)
  \/ Refuse(r)
  \/ \E heard \in BOOLEAN : Charge(r, heard)
  \/ LimiterFails(r)

(* The limits by themselves, for the theorems: any page may ask.           *)
LimitsNext ==
  \/ \E r \in Requests : Ask(r) \/ LimiterStep(r) \/ Taken(r)
  \/ HourPasses

LimitsSpec == LimitsInit /\ [][LimitsNext]_limitVars
-----------------------------------------------------------------------------
(* Nobody is refused before as many requests of that service as the limit  *)
(* allows have been charged to the user, however requests overlap and      *)
(* whichever database call fails: the write of a smaller number over a     *)
(* larger one can only help.                                               *)
NeverRefusedEarly ==
  \A r \in Requests :
    limiter[r] = "refused" => charged[ServiceOf[r]] >= Limit[ServiceOf[r]]

(* Within the first hour the limit is kept, unless two requests of the     *)
(* service overlapped between the read and the write of the counter, in    *)
(* which case both may store the same number.                              *)
LimitKeptAlone ==
  \A s \in Services : windowOpen /\ ~raced[s] => charged[s] <= Limit[s]
=============================================================================
