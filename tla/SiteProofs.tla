----------------------------- MODULE SiteProofs -----------------------------
(* Theorems about the site: its session, its list of submissions and the   *)
(* types of all its pages, for any visits and any number of requests that  *)
(* overtake one another.                                                   *)
EXTENDS Site, SequenceTheorems, TLAPS

(* Requests of any kind, as far as the order of their answers goes.        *)
LEMMA AnsweredProperties ==
  ASSUME NEW R, \A r \in R : Late(r) \in R,
         NEW s \in Seq(R), NEW i \in 1..Len(s)
  PROVE  /\ Answered(s, i) \in Seq(R)
         /\ Len(Answered(s, i)) = Len(s) - 1
         /\ \A j \in 1..(Len(s) - 1) :
              Answered(s, i)[j] =
                IF j < i THEN Late(s[j]) ELSE s[j + 1]
<1> DEFINE o == Overtaken(s, i)
           before == SubSeq(o, 1, i - 1)
           after == SubSeq(o, i + 1, Len(o))
<1>1. /\ o \in Seq(R)
      /\ Len(o) = Len(s)
      /\ \A j \in 1..Len(s) :
           o[j] = IF j < i THEN Late(s[j]) ELSE s[j]
  <2>1. /\ DOMAIN s = 1..Len(s) /\ Len(s) \in Nat
        /\ \A j \in 1..Len(s) : s[j] \in R
        BY LenProperties, ElementOfSeq
  <2>2. o = [j \in 1..Len(s) |->
               IF j < i THEN Late(s[j]) ELSE s[j]]
        BY <2>1 DEF Overtaken
  <2>3. \A j \in 1..Len(s) : o[j] \in R
        BY <2>1, <2>2
  <2>4. o \in [1..Len(s) -> R]
        BY <2>2, <2>3
  <2>5. o \in Seq(R)
        BY <2>1, <2>4, SeqDef
  <2> QED BY <2>1, <2>2, <2>5, LenProperties
<1> HIDE DEF o
<1>2. /\ before \in Seq(R)
      /\ Len(before) = i - 1
      /\ \A j \in 1..(i - 1) : before[j] = o[j]
  <2>1. \A j \in 1..(i - 1) : o[j] \in R
        BY <1>1, ElementOfSeq
  <2>2. /\ before \in Seq(R)
        /\ Len(before) = IF 1 <= i - 1 THEN (i - 1) - 1 + 1 ELSE 0
        /\ \A j \in 1..((i - 1) - 1 + 1) : before[j] = o[1 + j - 1]
        BY <2>1, SubSeqProperties
  <2> HIDE DEF before
  <2> QED BY <2>2
<1>3. /\ after \in Seq(R)
      /\ Len(after) = Len(s) - i
      /\ \A j \in 1..(Len(s) - i) : after[j] = o[i + j]
  <2>1. \A j \in (i + 1)..Len(o) : o[j] \in R
        BY <1>1, ElementOfSeq
  <2>2. /\ after \in Seq(R)
        /\ Len(after) = IF i + 1 <= Len(o) THEN Len(o) - (i + 1) + 1 ELSE 0
        /\ \A j \in 1..(Len(o) - (i + 1) + 1) : after[j] = o[(i + 1) + j - 1]
        BY <1>1, <2>1, SubSeqProperties
  <2> HIDE DEF after
  <2> QED BY <1>1, <2>2
<1>4. Answered(s, i) = before \o after
      BY DEF Answered, RemoveAt, o
<1> HIDE DEF before, after
<1>5. /\ before \o after \in Seq(R)
      /\ Len(before \o after) = Len(before) + Len(after)
      /\ \A j \in 1..(Len(before) + Len(after)) : (before \o after)[j] =
           IF j <= Len(before) THEN before[j] ELSE after[j - Len(before)]
      BY <1>2, <1>3, ConcatProperties
<1>6. Len(s) \in Nat /\ Len(before) + Len(after) = Len(s) - 1
      BY <1>2, <1>3, LenProperties
<1>7. ASSUME NEW j \in 1..(Len(s) - 1)
      PROVE  (before \o after)[j] =
               IF j < i THEN Late(s[j]) ELSE s[j + 1]
  <2>1. CASE j < i
    <3>1. j \in 1..(i - 1) /\ j \in 1..Len(s)
          BY <2>1
    <3>2. (before \o after)[j] = before[j]
          BY <1>2, <1>5, <1>6, <3>1
    <3>3. before[j] = o[j]
          BY <1>2, <3>1
    <3>4. o[j] = Late(s[j])
          BY <1>1, <2>1, <3>1
    <3> QED BY <2>1, <3>2, <3>3, <3>4
  <2>2. CASE ~(j < i)
    <3>1. /\ j - (i - 1) \in 1..(Len(s) - i)
          /\ i + (j - (i - 1)) = j + 1
          /\ j + 1 \in 1..Len(s) /\ ~(j + 1 < i)
          /\ ~(j <= i - 1)
          BY <1>6, <2>2
    <3>2. (before \o after)[j] = after[j - (i - 1)]
          BY <1>2, <1>5, <1>6, <3>1
    <3> QED BY <1>1, <1>3, <2>2, <3>1, <3>2
  <2> QED BY <2>1, <2>2
<1> QED BY <1>4, <1>5, <1>6, <1>7

AllLate(requests) == \A j \in DOMAIN requests : requests[j].late
Open(requests) == requests # <<>> /\ ~requests[Len(requests)].late

(* The answer to the latest request leaves overtaken ones; another leaves    *)
(* the latest as it was.                                                   *)
LEMMA AfterAnswer ==
  ASSUME NEW R, \A r \in R : r.late \in BOOLEAN /\ Late(r) \in R
                              /\ Late(r).late,
         NEW s \in Seq(R), NEW i \in DOMAIN s
  PROVE  /\ Answered(s, i) \in Seq(R)
         /\ i = Len(s) => AllLate(Answered(s, i)) /\ ~Open(Answered(s, i))
         /\ i # Len(s) =>
              /\ s # <<>> /\ Answered(s, i) # <<>>
              /\ Answered(s, i)[Len(Answered(s, i))] = s[Len(s)]
<1>1. DOMAIN s = 1..Len(s) /\ Len(s) \in Nat /\ i \in 1..Len(s)
      BY LenProperties
<1>0. \A r \in R : Late(r) \in R
      OBVIOUS
<1> DEFINE t == Answered(s, i)
<1> HIDE DEF t
<1>2. /\ t \in Seq(R)
      /\ Len(t) = Len(s) - 1
      /\ \A j \in 1..(Len(s) - 1) :
           t[j] = IF j < i THEN Late(s[j]) ELSE s[j + 1]
  <2>1. s \in Seq(R) /\ i \in 1..Len(s)
        BY <1>1
  <2>2. /\ Answered(s, i) \in Seq(R)
        /\ Len(Answered(s, i)) = Len(s) - 1
        BY <1>0, <2>1, AnsweredProperties, Zenon
  <2>3. \A j \in 1..(Len(s) - 1) :
           Answered(s, i)[j] = IF j < i THEN Late(s[j]) ELSE s[j + 1]
    <3> TAKE j \in 1..(Len(s) - 1)
    <3> QED BY <1>0, <2>1, AnsweredProperties, SMTT(30)
  <2> QED BY <2>2, <2>3 DEF t
<1>3. DOMAIN t = 1..(Len(s) - 1)
      BY <1>2, LenProperties
<1>4. CASE i = Len(s)
  <2>1. \A j \in 1..(Len(s) - 1) : t[j].late
    <3> TAKE j \in 1..(Len(s) - 1)
    <3>1. j < i /\ j \in 1..Len(s)
          BY <1>1, <1>4
    <3>2. s[j] \in R
          BY <3>1, ElementOfSeq
    <3> QED BY <1>2, <3>1, <3>2
  <2>2. AllLate(t)
        BY <1>3, <2>1 DEF AllLate
  <2>3. ~Open(t)
    <3>1. ASSUME t # <<>> PROVE t[Len(t)].late
      <4>1. Len(t) \in Nat \ {0}
            BY <1>2, <3>1, EmptySeq
      <4> QED BY <1>2, <2>1, <4>1
    <3> QED BY <3>1 DEF Open
  <2> QED BY <1>2, <1>4, <2>2, <2>3 DEF t
<1>5. CASE i # Len(s)
  <2>1. Len(s) - 1 \in 1..(Len(s) - 1) /\ ~(Len(s) - 1 < i)
        BY <1>1, <1>5
  <2>2. t[Len(t)] = s[Len(s)]
    <3>1. t[Len(s) - 1] = s[(Len(s) - 1) + 1]
          BY <1>2, <2>1
    <3> QED BY <1>1, <1>2, <3>1
  <2>3. t # <<>> /\ s # <<>>
        BY <1>2, <2>1, EmptySeq
  <2> QED BY <1>2, <1>5, <2>2, <2>3 DEF t
<1> QED BY <1>4, <1>5

LEMMA AfterRequest ==
  ASSUME NEW R, NEW s \in Seq(R), NEW r \in R, ~r.late
  PROVE  /\ Append(s, r) \in Seq(R)
         /\ Append(s, r) # <<>>
         /\ Append(s, r)[Len(Append(s, r))] = r
         /\ ~AllLate(Append(s, r))
<1> DEFINE t == Append(s, r)
<1>1. t \in Seq(R) /\ Len(t) = Len(s) + 1 /\ t[Len(s) + 1] = r
      BY AppendProperties
<1>2. Len(s) \in Nat
      BY LenProperties
<1> HIDE DEF t
<1>3. t # <<>> /\ Len(t) \in DOMAIN t /\ t[Len(t)] = r
      BY <1>1, <1>2, EmptySeq, LenProperties
<1>4. ~AllLate(t)
      BY <1>3 DEF AllLate
<1> QED BY <1>1, <1>3, <1>4 DEF t
-----------------------------------------------------------------------------
(* Why the copies of the session agree with the cookie: unless a redirect  *)
(* is still to come, the latest request of each carries the cookie there   *)
(* is, and an answer to it is not followed by another.                     *)
Asked == [who : Identities, late : BOOLEAN]

SessionTypes ==
  /\ cookie \in Identities
  /\ view \in [Copies -> Identities]
  /\ asks \in [Copies -> Seq(Asked)]
  /\ settled \in [Copies -> BOOLEAN]
  /\ redirects \in [{"home", "missing"} -> Nat]

NoRedirect == \A target \in DOMAIN redirects : redirects[target] = 0

Faithful(c) ==
  /\ Open(asks[c]) => asks[c][Len(asks[c])].who = cookie
  /\ settled[c] /\ AllLate(asks[c]) => view[c] = cookie

SessionInv == SessionTypes /\ (NoRedirect => \A c \in Copies : Faithful(c))

LEMMA AskedIsOrdered ==
  \A r \in Asked : /\ r.late \in BOOLEAN
                   /\ Late(r) \in Asked
                   /\ Late(r).late
BY DEF Asked, Late

(* What makes both copies ask again makes them faithful.                   *)
LEMMA RouteChangedRepairs ==
  ASSUME SessionTypes, NEW to, NEW who \in Identities, RouteChanged(to, who)
  PROVE  /\ asks' \in [Copies -> Seq(Asked)]
         /\ \A c \in Copies : /\ asks'[c] # <<>>
                               /\ asks'[c][Len(asks'[c])].who = who
                               /\ ~AllLate(asks'[c])
<1>1. Request(who) \in Asked /\ ~Request(who).late /\ Request(who).who = who
      BY DEF Request, Asked
<1>2. ASSUME NEW c \in Copies
      PROVE  /\ asks'[c] \in Seq(Asked)
             /\ asks'[c] # <<>>
             /\ asks'[c][Len(asks'[c])].who = who
             /\ ~AllLate(asks'[c])
  <2>1. asks'[c] = Append(asks[c], Request(who)) /\ asks[c] \in Seq(Asked)
        BY DEF RouteChanged, SessionTypes
  <2> QED BY <1>1, <2>1, AfterRequest
<1> QED BY <1>2 DEF RouteChanged

LEMMA SessionUntouched ==
  ASSUME SessionInv, UNCHANGED <<cookie, view, asks, settled, redirects>>
  PROVE  SessionInv'
BY DEF SessionInv, SessionTypes, NoRedirect, Faithful

LEMMA CheckKeepsSession ==
  ASSUME SessionInv, NEW c \in Copies, NEW ok \in BOOLEAN,
         NEW i \in DOMAIN asks[c], AuthChecked(c, i, ok)
  PROVE  SessionInv'
<1>1. /\ asks[c] \in Seq(Asked)
      /\ asks[c][i] \in Asked
      /\ i \in 1..Len(asks[c])
      BY LenProperties, ElementOfSeq DEF SessionInv, SessionTypes
<1>2. /\ Answered(asks[c], i) \in Seq(Asked)
      /\ i = Len(asks[c]) => /\ AllLate(Answered(asks[c], i))
                             /\ ~Open(Answered(asks[c], i))
      /\ i # Len(asks[c]) =>
           /\ asks[c] # <<>> /\ Answered(asks[c], i) # <<>>
           /\ Answered(asks[c], i)[Len(Answered(asks[c], i))]
                = asks[c][Len(asks[c])]
      BY <1>1, AskedIsOrdered, AfterAnswer
<1>3. /\ asks' = [asks EXCEPT ![c] = Answered(asks[c], i)]
      /\ view' = [view EXCEPT ![c] = IF ok THEN asks[c][i].who ELSE "none"]
      /\ settled' = [settled EXCEPT ![c] =
                       ok /\ i = Len(asks[c]) /\ ~asks[c][i].late]
      /\ UNCHANGED <<cookie, redirects>>
      BY DEF AuthChecked, InOrder
<1>4. asks[c][i].who \in Identities /\ asks[c][i].late \in BOOLEAN
      BY <1>1 DEF Asked
<1>5. SessionTypes'
  <2>1. asks' \in [Copies -> Seq(Asked)]
        BY <1>2, <1>3 DEF SessionInv, SessionTypes
  <2>2. view' \in [Copies -> Identities]
        BY <1>3, <1>4 DEF SessionInv, SessionTypes, Identities
  <2>3. settled' \in [Copies -> BOOLEAN]
        BY <1>3 DEF SessionInv, SessionTypes
  <2> QED BY <1>3, <2>1, <2>2, <2>3 DEF SessionInv, SessionTypes
<1>6. ASSUME NoRedirect', NEW d \in Copies
      PROVE  Faithful(d)'
  <2>1. Faithful(d) /\ Faithful(c)
        BY <1>3, <1>6 DEF SessionInv, NoRedirect
  <2>2. CASE d # c
    <3>1. /\ asks'[d] = asks[d] /\ view'[d] = view[d]
          /\ settled'[d] = settled[d] /\ cookie' = cookie
          BY <1>3, <2>2 DEF SessionInv, SessionTypes
    <3> QED BY <2>1, <3>1 DEF Faithful
  <2>3. CASE d = c
    <3>1. /\ asks'[c] = Answered(asks[c], i)
          /\ view'[c] = (IF ok THEN asks[c][i].who ELSE "none")
          /\ settled'[c] = (ok /\ i = Len(asks[c]) /\ ~asks[c][i].late)
          /\ cookie' = cookie
          BY <1>3 DEF SessionInv, SessionTypes
    <3>2. CASE i = Len(asks[c])
      <4>1. ~Open(asks'[c])
            BY <1>2, <3>1, <3>2
      <4>2. ASSUME settled'[c] PROVE view'[c] = cookie
        <5>1. ok /\ ~asks[c][Len(asks[c])].late
              BY <3>1, <3>2, <4>2
        <5>2. asks[c] # <<>>
              BY <1>1, EmptySeq
        <5>3. asks[c][Len(asks[c])].who = cookie
              BY <2>1, <5>1, <5>2 DEF Faithful, Open
        <5> QED BY <3>1, <3>2, <5>1, <5>3
      <4> QED BY <2>3, <3>1, <4>1, <4>2 DEF Faithful
    <3>3. CASE i # Len(asks[c])
      <4>1. Open(asks'[c]) => Open(asks[c])
            BY <1>2, <3>1, <3>3 DEF Open
      <4>2. asks'[c][Len(asks'[c])] = asks[c][Len(asks[c])]
            BY <1>2, <3>1, <3>3
      <4>3. ~settled'[c]
            BY <3>1, <3>3
      <4> QED BY <2>1, <2>3, <3>1, <4>1, <4>2, <4>3 DEF Faithful
    <3> QED BY <3>2, <3>3
  <2> QED BY <2>2, <2>3
<1> QED BY <1>5, <1>6 DEF SessionInv

LEMMA RouteKeepsSession ==
  ASSUME SessionInv, NEW links,
         \/ Go(links) \/ LoggedOut
         \/ \E target \in DOMAIN redirects : Redirect(target)
  PROVE  SessionInv'
<1> USE DEF SessionInv, SessionTypes
<1>1. ASSUME NEW to, NEW who \in Identities, RouteChanged(to, who),
             cookie' = who, UNCHANGED settled, view' \in [Copies -> Identities],
             redirects' \in [{"home", "missing"} -> Nat]
      PROVE  SessionInv'
  <2>1. /\ asks' \in [Copies -> Seq(Asked)]
        /\ \A c \in Copies : /\ asks'[c] # <<>>
                              /\ asks'[c][Len(asks'[c])].who = who
                              /\ ~AllLate(asks'[c])
        BY <1>1, RouteChangedRepairs
  <2> QED BY <1>1, <2>1 DEF Faithful
<1>2. CASE Go(links)
      BY <1>1, <1>2 DEF Go
<1>3. CASE LoggedOut
  <2>1. /\ cookie' = "none" /\ RouteChanged("login", cookie')
        /\ view' = [view EXCEPT !["navbar"] = "none"]
        /\ UNCHANGED <<settled, redirects>>
        BY <1>3 DEF LoggedOut
  <2>2. view' \in [Copies -> Identities] /\ cookie' \in Identities
        BY <2>1 DEF Identities
  <2> QED BY <1>1, <2>1, <2>2
<1>4. ASSUME NEW target \in DOMAIN redirects, Redirect(target)
      PROVE  SessionInv'
      BY <1>1, <1>4 DEF Redirect
<1> QED BY <1>2, <1>3, <1>4

LEMMA AccountKeepsSession ==
  ASSUME SessionInv, Account
  PROVE  SessionInv'
<1>1. CASE InvalidForm \/ SendForm \/ FormFails \/ Logout
      BY <1>1, SessionUntouched DEF InvalidForm, SendForm, FormFails, Logout
<1>2. CASE LogoutFails
  <2>1. ~settled'["navbar"] /\ settled' \in [Copies -> BOOLEAN]
        BY <1>2 DEF LogoutFails, SessionInv, SessionTypes, Copies
  <2>2. ASSUME NEW c \in Copies, c # "navbar"
        PROVE  view'[c] = view[c] /\ settled'[c] = settled[c]
        BY <1>2, <2>2 DEF LogoutFails, SessionInv, SessionTypes
  <2>3. view' \in [Copies -> Identities]
        BY <1>2 DEF LogoutFails, SessionInv, SessionTypes, Identities
  <2>4. UNCHANGED <<cookie, asks, redirects>>
        BY <1>2 DEF LogoutFails
  <2> QED BY <2>1, <2>2, <2>3, <2>4
          DEF SessionInv, SessionTypes, NoRedirect, Faithful
<1>3. ASSUME NEW who \in Identities, SignIn(who)
      PROVE  SessionInv'
  <2>1. PICK target \in {"home", "missing"} :
          redirects' = [redirects EXCEPT ![target] = @ + 1]
        BY <1>3 DEF SignIn, Target
  <2>2. ~NoRedirect' /\ redirects' \in [{"home", "missing"} -> Nat]
        BY <2>1 DEF SessionInv, SessionTypes, NoRedirect
  <2>3. cookie' = who /\ UNCHANGED <<view, asks, settled>>
        BY <1>3 DEF SignIn
  <2> QED BY <2>2, <2>3 DEF SessionInv, SessionTypes
<1> QED BY <1>1, <1>2, <1>3 DEF Account
-----------------------------------------------------------------------------
(* What the user and the answers do on the pages themselves leaves the     *)
(* session, and which page is shown, as it is.                             *)
LEMMA ListLeavesSession == ListUser \/ ListAnswer => UNCHANGED restOfSession
<1>1. ASSUME ListUser PROVE UNCHANGED restOfSession
      BY <1>1 DEF ListUser, ChangeFilter, ToggleMine, FetchAgain, ResetFilters,
                  ShowAs, Inspect, CloseModal, OnList, UserOn
<1>2. ASSUME ListAnswer PROVE UNCHANGED restOfSession
      BY <1>2 DEF ListAnswer, ListAnswered, sessionVars, restOfSession
<1> QED BY <1>1, <1>2

LEMMA BrowseLeavesSession == BrowseUser \/ BrowseAnswer => UNCHANGED restOfSession
<1>1. ASSUME BrowseUser PROVE UNCHANGED restOfSession
      BY <1>1 DEF BrowseUser, FetchProblems, Filter, ClearFilters, ToggleEdit,
                  ToggleFollow, ChooseTab, Update, UserOn
<1>2. ASSUME BrowseAnswer PROVE UNCHANGED sessionVars
      BY <1>2 DEF BrowseAnswer, UpdateRefused, HomeListArrives,
                  HomeReaderArrives, ProblemsArrive, ProgressRefused,
                  PartArrives, UpdateSession, AnswerOn
<1> QED BY <1>1, <1>2 DEF sessionVars, restOfSession

LEMMA AuthorLeavesSession == AuthorUser \/ AuthorAnswer => UNCHANGED restOfSession
<1>1. ASSUME NEW p, AuthorOn(p) PROVE UNCHANGED restOfSession
      BY <1>1 DEF AuthorOn, UserOn
<1>2. ASSUME AuthorUser PROVE UNCHANGED restOfSession
      BY <1>1, <1>2
         DEF AuthorUser, WriteStatement, Generate, ChooseSampleCount,
             EditStatementAgain, Create, WriteCode, ChooseLanguage, EditCase,
             RunCode, AskHints, NextHint, SubmitCode, BackToSubmissions,
             AddFailedCase, Make, AdminSubmit
<1>3. ASSUME NEW p, AnswerOn(p) PROVE UNCHANGED restOfSession
      BY <1>3 DEF AnswerOn, sessionVars, restOfSession
<1>4. ASSUME AuthorAnswer PROVE UNCHANGED restOfSession
      BY <1>1, <1>3, <1>4
         DEF AuthorAnswer, AskSubmission, AdminRefused, AuthorKnown,
             DetailsGenerated, TestsGenerated, CreateEnds, RunAnswered,
             HintsAnswered, SubmitAnswered, SubmittedShown, SubmissionShown,
             Made, AdminLoaded
<1> QED BY <1>2, <1>4

LEMMA PollLeavesSession ==
  Judge \/ PollTimer \/ PollAnswer \/ ReaderAnswer => UNCHANGED restOfSession
BY DEF Judge, PollTimer, PollAnswer, ReaderAnswer, sessionVars, restOfSession

LEMMA SessionStep == SessionInv /\ [Next]_vars => SessionInv'
<1> SUFFICES ASSUME SessionInv, [Next]_vars PROVE SessionInv'
    OBVIOUS
<1>0. ASSUME UNCHANGED restOfSession PROVE SessionInv'
      BY <1>0, SessionUntouched DEF restOfSession
<1>1. CASE RouteChange
      BY <1>1, RouteKeepsSession DEF RouteChange
<1>2. CASE Account
      BY <1>2, AccountKeepsSession
<1>3. CASE SessionCheck
      BY <1>3, CheckKeepsSession DEF SessionCheck
<1>4. CASE ListUser \/ ListAnswer
      BY <1>0, <1>4, ListLeavesSession
<1>5. CASE Judge \/ PollTimer \/ PollAnswer \/ ReaderAnswer
      BY <1>0, <1>5, PollLeavesSession
<1>6. CASE BrowseUser \/ BrowseAnswer
      BY <1>0, <1>6, BrowseLeavesSession
<1>7. CASE AuthorUser \/ AuthorAnswer
      BY <1>0, <1>7, AuthorLeavesSession
<1>8. CASE UNCHANGED vars
      BY <1>0, <1>8 DEF vars, sessionVars, restOfSession
<1> QED BY <1>1, <1>2, <1>3, <1>4, <1>5, <1>6, <1>7, <1>8 DEF Next

LEMMA SessionInvHolds == Spec => []SessionInv
<1>1. Init => SessionInv
  <2> SUFFICES ASSUME Init PROVE SessionInv
      OBVIOUS
  <2>1. /\ cookie \in Identities
        /\ view = [c \in Copies |-> "none"]
        /\ asks = [c \in Copies |-> <<Request(cookie)>>]
        /\ settled = [c \in Copies |-> FALSE]
        /\ redirects = [target \in {"home", "missing"} |-> 0]
        BY VisitsAssumption DEF Init, SessionInit
  <2>2. Request(cookie) \in Asked /\ Request(cookie).who = cookie
        BY <2>1 DEF Request, Asked
  <2>3. /\ <<Request(cookie)>> \in Seq(Asked)
        /\ Len(<<Request(cookie)>>) = 1
        /\ <<Request(cookie)>>[1] = Request(cookie)
        BY <2>2
  <2>4. view \in [Copies -> Identities]
        BY <2>1 DEF Identities
  <2> QED BY <2>1, <2>2, <2>3, <2>4
          DEF SessionInv, SessionTypes, NoRedirect, Faithful
<1> QED BY <1>1, SessionStep, PTL DEF Spec

(* Once nothing is on its way, a copy of useAuth that shows the answer to  *)
(* its latest request shows the session the browser has (useAuth.ts), for  *)
(* any visit and any number of requests.                                   *)
THEOREM SessionIsShown == Spec => []SessionShown
<1>1. SessionInv => SessionShown
  <2> SUFFICES ASSUME SessionInv, NEW c \in Copies, asks[c] = <<>>, settled[c],
                      \A target \in DOMAIN redirects : redirects[target] = 0
               PROVE  view[c] = cookie
      BY DEF SessionShown
  <2>1. Faithful(c)
        BY DEF SessionInv, NoRedirect
  <2>2. AllLate(asks[c])
        BY DEF AllLate
  <2> QED BY <2>1, <2>2 DEF Faithful
<1> QED BY <1>1, SessionInvHolds, PTL
-----------------------------------------------------------------------------
(* Why the list is what its controls say: the latest request was made with *)
(* the filters of now, or they changed since; and so were the rows, once   *)
(* only overtaken requests are left.                                       *)
ListRequest == [filters : Filters, mine : BOOLEAN, who : Identities,
                late : BOOLEAN]

ListTypes ==
  /\ filters \in Filters
  /\ mine \in BOOLEAN
  /\ queries \in Seq(ListRequest)
  /\ rows \in Query \cup {Nothing}
  /\ listLoading \in BOOLEAN
  /\ unapplied \in BOOLEAN
  /\ listOrdered \in BOOLEAN

(* A query or a request, made with the controls of now.                    *)
Current(q) == q.mine = mine /\ (~unapplied => q.filters = filters)

UpToDate ==
  /\ Open(queries) => Current(queries[Len(queries)])
  /\ listOrdered /\ AllLate(queries) => rows # Nothing /\ Current(rows)
  /\ listLoading => queries # <<>>

ListInv == ListTypes /\ (page = "submissions" => UpToDate)

LEMMA ListRequestIsOrdered ==
  \A r \in ListRequest : /\ r.late \in BOOLEAN
                         /\ Late(r) \in ListRequest
                         /\ Late(r).late
BY DEF ListRequest, Late

LEMMA QueryIsRequest ==
  ASSUME NEW f \in Filters, NEW m \in BOOLEAN, NEW who \in Identities
  PROVE  /\ QueryFor(f, m, who) \in ListRequest
         /\ QueryFor(f, m, who).filters = f
         /\ QueryFor(f, m, who).mine = m
         /\ ~QueryFor(f, m, who).late
BY DEF QueryFor, ListRequest

LEMMA FirstQueryIsOpen ==
  ASSUME NEW p, NEW who \in Identities
  PROVE  /\ FirstQuery(p, who) \in Seq(ListRequest)
         /\ p = "submissions" =>
              /\ FirstQuery(p, who) # <<>>
              /\ FirstQuery(p, who)[Len(FirstQuery(p, who))].filters = "all"
              /\ FirstQuery(p, who)[Len(FirstQuery(p, who))].mine = TRUE
<1> DEFINE q == QueryFor("all", TRUE, who)
<1>1. q \in ListRequest /\ q.filters = "all" /\ q.mine = TRUE
      BY QueryIsRequest DEF Filters
<1> HIDE DEF q
<1>2. <<q>> \in Seq(ListRequest) /\ Len(<<q>>) = 1 /\ <<q>>[1] = q /\ <<q>> # <<>>
      BY <1>1
<1>3. FirstQuery(p, who) = IF p = "submissions" THEN <<q>> ELSE <<>>
      BY DEF FirstQuery, q
<1> QED BY <1>1, <1>2, <1>3, EmptySeq

LEMMA FetchIsCurrent ==
  ASSUME ListTypes, cookie \in Identities, NEW f \in Filters, NEW m \in BOOLEAN,
         FetchList(f, m), filters' = f, mine' = m
  PROVE  ListTypes' /\ UpToDate'
<1> DEFINE q == QueryFor(f, m, cookie)
<1>1. q \in ListRequest /\ q.filters = f /\ q.mine = m /\ ~q.late
      BY QueryIsRequest
<1> HIDE DEF q
<1>2. queries' = Append(queries, q)
      BY DEF FetchList, q
<1>3. /\ queries' \in Seq(ListRequest)
      /\ queries' # <<>>
      /\ queries'[Len(queries')] = q
      /\ ~AllLate(queries')
      BY <1>1, <1>2, AfterRequest DEF ListTypes
<1> QED BY <1>1, <1>3 DEF FetchList, ListTypes, UpToDate, Current

LEMMA SetMineIsCurrent ==
  ASSUME ListInv, page = "submissions", page' = page, cookie \in Identities,
         NEW f \in Filters, NEW m \in BOOLEAN, SetMine(f, m), filters' = f
  PROVE  ListInv'
<1>1. CASE m # mine
      BY <1>1, FetchIsCurrent DEF SetMine, ListInv
<1>2. CASE m = mine
  <2>1. /\ mine' = mine
        /\ unapplied' = (unapplied \/ f # filters)
        /\ UNCHANGED <<queries, listLoading, rows, listOrdered>>
        BY <1>2 DEF SetMine
  <2> QED BY <2>1 DEF ListInv, ListTypes, UpToDate, Current
<1> QED BY <1>1, <1>2

LEMMA ListUntouched ==
  ASSUME ListInv, page' = page,
         UNCHANGED <<filters, mine, queries, listLoading, rows, unapplied, listOrdered>>
  PROVE  ListInv'
BY DEF ListInv, ListTypes, UpToDate, Current

LEMMA ListUserKeeps ==
  ASSUME ListInv, cookie \in Identities, ListUser
  PROVE  ListInv'
<1>1. page = "submissions" /\ page' = page
      BY DEF ListUser, ChangeFilter, ToggleMine, FetchAgain, ResetFilters,
             ShowAs, Inspect, CloseModal, OnList, UserOn, restOfSession
<1>2. ASSUME NEW f \in Filters, ChangeFilter(f) PROVE ListInv'
      BY <1>1, <1>2 DEF ChangeFilter, ListInv, ListTypes, UpToDate, Current
<1>3. CASE ToggleMine
  <2>1. SetMine(filters, ~mine) /\ filters' = filters
        BY <1>3 DEF ToggleMine
  <2> QED BY <1>1, <2>1, SetMineIsCurrent DEF ListInv, ListTypes
<1>4. CASE FetchAgain
  <2>1. FetchList(filters, mine) /\ filters' = filters /\ mine' = mine
        BY <1>4 DEF FetchAgain
  <2> QED BY <2>1, FetchIsCurrent DEF ListInv, ListTypes
<1>5. CASE ResetFilters
  <2>1. SetMine("all", FALSE) /\ filters' = "all"
        BY <1>5 DEF ResetFilters
  <2> QED BY <1>1, <2>1, SetMineIsCurrent DEF Filters
<1>6. CASE (\E mode \in {"timeline", "table", "analytics"} : ShowAs(mode))
             \/ Inspect \/ CloseModal
      BY <1>1, <1>6, ListUntouched DEF ShowAs, Inspect, CloseModal
<1> QED BY <1>2, <1>3, <1>4, <1>5, <1>6 DEF ListUser

LEMMA ListAnswerKeeps ==
  ASSUME ListInv, NEW ok \in BOOLEAN, NEW i \in DOMAIN queries, ListAnswered(i, ok)
  PROVE  ListInv'
<1>1. /\ queries \in Seq(ListRequest)
      /\ queries[i] \in ListRequest
      /\ i \in 1..Len(queries)
      BY LenProperties, ElementOfSeq DEF ListInv, ListTypes
<1>2. /\ Answered(queries, i) \in Seq(ListRequest)
      /\ i = Len(queries) => /\ AllLate(Answered(queries, i))
                             /\ ~Open(Answered(queries, i))
      /\ i # Len(queries) =>
           /\ queries # <<>> /\ Answered(queries, i) # <<>>
           /\ Answered(queries, i)[Len(Answered(queries, i))]
                = queries[Len(queries)]
      BY <1>1, ListRequestIsOrdered, AfterAnswer
<1> DEFINE shown == [filters |-> queries[i].filters, mine |-> queries[i].mine,
                     who |-> queries[i].who]
<1>3. /\ queries' = Answered(queries, i)
      /\ listLoading' = FALSE
      /\ rows' = IF ok THEN shown ELSE Nothing
      /\ listOrdered' = (ok /\ i = Len(queries) /\ ~queries[i].late)
      /\ UNCHANGED <<page, filters, mine, unapplied>>
      BY DEF ListAnswered, InOrder, sessionVars
<1>4. /\ shown \in Query /\ shown # Nothing
      /\ shown.filters = queries[i].filters /\ shown.mine = queries[i].mine
      BY <1>1, NothingAssumption DEF ListRequest, Query
<1>5. queries[i].late \in BOOLEAN
      BY <1>1 DEF ListRequest
<1> HIDE DEF shown
<1>6. ListTypes'
      BY <1>2, <1>3, <1>4, <1>5 DEF ListInv, ListTypes
<1>7. ASSUME page' = "submissions"
      PROVE  UpToDate'
  <2>1. UpToDate
        BY <1>3, <1>7 DEF ListInv
  <2>2. CASE i = Len(queries)
    <3>1. ~Open(queries')
          BY <1>2, <1>3, <2>2
    <3>2. ASSUME listOrdered' PROVE rows' # Nothing /\ Current(rows)'
      <4>1. ok /\ ~queries[Len(queries)].late /\ queries # <<>>
        <5>1. ok /\ ~queries[i].late
              BY <1>3, <3>2, Zenon
        <5>2. queries # <<>>
              BY <1>1, EmptySeq
        <5> QED BY <2>2, <5>1, <5>2
      <4>2. Current(queries[Len(queries)])
            BY <2>1, <4>1 DEF UpToDate, Open
      <4>3. /\ rows' = shown
            /\ rows'.filters = queries[Len(queries)].filters
            /\ rows'.mine = queries[Len(queries)].mine
            BY <1>3, <1>4, <2>2, <4>1
      <4>4. rows' # Nothing
            BY <1>4, <4>3
      <4>5. Current(rows)'
            BY <1>3, <4>2, <4>3 DEF Current
      <4> QED BY <4>4, <4>5
    <3> QED BY <1>3, <3>1, <3>2 DEF UpToDate
  <2>3. CASE i # Len(queries)
    <3>1. Open(queries') => Open(queries)
          BY <1>2, <1>3, <2>3 DEF Open
    <3>2. queries'[Len(queries')] = queries[Len(queries)]
          BY <1>2, <1>3, <2>3
    <3>3. ~listOrdered'
          BY <1>3, <2>3
    <3> QED BY <1>3, <2>1, <3>1, <3>2, <3>3 DEF UpToDate, Current
  <2> QED BY <2>2, <2>3
<1> QED BY <1>6, <1>7 DEF ListInv

LEMMA ListStep ==
  SessionTypes /\ SessionTypes' /\ ListInv /\ [Next]_vars => ListInv'
<1> SUFFICES ASSUME SessionTypes, SessionTypes', ListInv, [Next]_vars
             PROVE  ListInv'
    OBVIOUS
<1>0. cookie \in Identities /\ cookie' \in Identities
      BY DEF SessionTypes
<1>1. CASE RouteChange
  <2>1. ListRemounts
        BY <1>1 DEF RouteChange, Remounts
  <2>2. CASE page' = page
        BY <2>1, <2>2, ListUntouched DEF ListRemounts, listVars
  <2>3. CASE page' # page
    <3>1. ListReopens
          BY <2>1, <2>3 DEF ListRemounts
    <3> QED BY <1>0, <3>1, FirstQueryIsOpen
            DEF ListReopens, ListInv, ListTypes, UpToDate, Current, Filters
  <2> QED BY <2>2, <2>3
<1>2. CASE Account
      BY <1>2, ListUntouched
         DEF Account, InvalidForm, SendForm, FormFails, Logout, LogoutFails,
             SignIn, listVars
<1>3. CASE SessionCheck
  <2>1. SignedInSeen /\ page' = page
        BY <1>3 DEF SessionCheck, AuthChecked
  <2>2. CASE /\ page = "submissions"
             /\ SetMine(filters, TRUE)
             /\ UNCHANGED <<filters, lookVars>>
        BY <1>0, <2>1, <2>2, SetMineIsCurrent DEF ListInv, ListTypes
  <2>3. CASE UNCHANGED listVars
        BY <2>1, <2>3, ListUntouched DEF listVars
  <2> QED BY <2>1, <2>2, <2>3 DEF SignedInSeen
<1>4. CASE ListUser
      BY <1>0, <1>4, ListUserKeeps
<1>5. CASE ListAnswer
      BY <1>5, ListAnswerKeeps DEF ListAnswer
<1>6. CASE Judge \/ PollTimer \/ PollAnswer \/ ReaderAnswer
      BY <1>6, ListUntouched
         DEF Judge, PollTimer, PollAnswer, ReaderAnswer, sessionVars, listVars
<1>7. CASE BrowseUser \/ BrowseAnswer
  <2>1. UNCHANGED <<page, listVars>>
        BY <1>7, BrowseLeavesSession DEF BrowseUser, BrowseAnswer, restOfSession
  <2> QED BY <2>1, ListUntouched DEF listVars
<1>8. CASE AuthorUser \/ AuthorAnswer
  <2>1. UNCHANGED <<page, listVars>>
        BY <1>8, AuthorLeavesSession DEF AuthorUser, AuthorAnswer, restOfSession
  <2> QED BY <2>1, ListUntouched DEF listVars
<1>9. CASE UNCHANGED vars
      BY <1>9, ListUntouched DEF vars, sessionVars, listVars
<1> QED BY <1>1, <1>2, <1>3, <1>4, <1>5, <1>6, <1>7, <1>8, <1>9 DEF Next

LEMMA ListAtStart == Init => ListInv
<1> SUFFICES ASSUME Init PROVE ListInv
    OBVIOUS
<1>1. cookie \in Identities
      BY VisitsAssumption DEF Init, SessionInit
<1>2. ListInit
      BY DEF Init
<1> QED BY <1>1, <1>2, FirstQueryIsOpen
        DEF ListInit, ListInv, ListTypes, UpToDate, Current, Filters

(* Once no request is on its way, and unless an answer overtook another,   *)
(* the list is what its controls say (submissions/index.tsx), for any      *)
(* visit and any number of requests.                                       *)
THEOREM ListIsTheQuery == Spec => []ListMatchesQuery
<1>1. ListInv => ListMatchesQuery
  <2> SUFFICES ASSUME ListInv, page = "submissions", queries = <<>>, listOrdered
               PROVE  /\ rows # Nothing
                      /\ rows.mine = mine
                      /\ ~unapplied => rows.filters = filters
                      /\ ~listLoading
      BY DEF ListMatchesQuery
  <2>1. AllLate(queries)
        BY DEF AllLate
  <2> QED BY <2>1 DEF ListInv, UpToDate, Current
<1>2. SessionInv => SessionTypes
      BY DEF SessionInv
<1> QED BY <1>1, <1>2, ListAtStart, SessionInvHolds, ListStep, PTL DEF Spec
-----------------------------------------------------------------------------
(* The rest of the session is well formed: every link leads to a page of the *)
(* site, and every click is one the visit still has.                         *)
RestTypes ==
  /\ page \in Pages
  /\ visit \in [Panels -> Nat]
  /\ form \in Forms \cup {"none"}
  /\ formHere \in BOOLEAN
  /\ notice \in {"none", "error", "success"}
  /\ logouts \in Nat

LEMMA LinksAreToPages == PageLinks \subseteq Pages /\ NavItems \subseteq Pages
<1>1. HomeLinks \subseteq Pages
      BY DEF HomeLinks, Pages
<1>2. ProblemsLinks \subseteq Pages
      BY DEF ProblemsLinks, Pages
<1>3. ProfileLinks \subseteq Pages
      BY DEF ProfileLinks, Pages
<1>4. ListLinks \subseteq Pages
      BY DEF ListLinks, Pages
<1>5. DetailLinks \subseteq Pages
      BY DEF DetailLinks, Pages
<1>6. AuthorLinks \subseteq Pages
      BY DEF AuthorLinks, Pages
<1>7. FormLinks \subseteq Pages
      BY DEF FormLinks, Pages
<1>8. NavItems \subseteq Pages
      BY DEF NavItems, Pages
<1> QED BY <1>1, <1>2, <1>3, <1>4, <1>5, <1>6, <1>7, <1>8 DEF PageLinks

LEMMA ClicksRemain ==
  ASSUME visit \in [Panels -> Nat], NEW p, Spend(p)
  PROVE  visit' \in [Panels -> Nat]
<1>1. visit[p] > 0 /\ visit' = [visit EXCEPT ![p] = visit[p] - 1]
      BY DEF Spend
<1>2. p \in Panels => visit[p] - 1 \in Nat
      BY <1>1
<1> QED BY <1>1, <1>2

LEMMA RouteChangeKept ==
  ASSUME RestTypes, SessionTypes, RouteChange
  PROVE  RestTypes'
<1> USE DEF RestTypes
<1>1. ASSUME NEW to \in Pages, NEW who, RouteChanged(to, who)
      PROVE  /\ page' \in Pages /\ formHere' \in BOOLEAN
             /\ notice' \in {"none", "error", "success"}
      BY <1>1 DEF RouteChanged, Leave
<1>2. CASE Go(PageLinks)
  <2>1. Spend("go") /\ UNCHANGED <<form, logouts>>
        BY <1>2 DEF Go
  <2>2. PICK to \in Pages : RouteChanged(to, cookie)
        BY <1>2, LinksAreToPages DEF Go
  <2> QED BY <1>1, <2>1, <2>2, ClicksRemain
<1>3. CASE \E target \in DOMAIN redirects : Redirect(target)
  <2>1. PICK target \in {"home", "missing"} : Redirect(target)
        BY <1>3 DEF SessionTypes
  <2>2. target \in Pages
        BY DEF Pages
  <2>3. RouteChanged(target, cookie) /\ UNCHANGED <<visit, form, logouts>>
        BY <2>1 DEF Redirect
  <2> QED BY <1>1, <2>2, <2>3
<1>4. CASE LoggedOut
  <2>1. RouteChanged("login", cookie') /\ UNCHANGED <<visit, form>>
        BY <1>4 DEF LoggedOut
  <2>2. logouts' \in Nat
        BY <1>4 DEF LoggedOut
  <2>3. "login" \in Pages
        BY DEF Pages
  <2> QED BY <1>1, <2>1, <2>2, <2>3
<1> QED BY <1>2, <1>3, <1>4 DEF RouteChange

LEMMA AccountKept ==
  ASSUME RestTypes, Account
  PROVE  RestTypes'
<1> USE DEF RestTypes
<1>1. ASSUME NEW n \in {"error", "success"}, Notice(n)
      PROVE  notice' \in {"none", "error", "success"}
      BY <1>1 DEF Notice
<1>2. CASE InvalidForm
  <2>1. Spend("account")
        BY <1>2 DEF InvalidForm
  <2> QED BY <1>2, <2>1, ClicksRemain DEF InvalidForm
<1>3. CASE SendForm
  <2>1. Spend("account")
        BY <1>3 DEF SendForm
  <2>2. form' \in Forms
        BY <1>3 DEF SendForm, FormsOf, Forms
  <2> QED BY <1>3, <2>1, <2>2, ClicksRemain DEF SendForm
<1>4. CASE FormFails
      BY <1>1, <1>4 DEF FormFails
<1>5. CASE Logout
  <2>1. Spend("account")
        BY <1>5 DEF Logout
  <2> QED BY <1>5, <2>1, ClicksRemain DEF Logout
<1>6. CASE LogoutFails
      BY <1>6 DEF LogoutFails
<1>7. ASSUME NEW who \in Identities, SignIn(who) PROVE RestTypes'
      BY <1>1, <1>7 DEF SignIn
<1> QED BY <1>2, <1>3, <1>4, <1>5, <1>6, <1>7 DEF Account

(* What happens on the pages costs a click at most.                          *)
LEMMA PagesSpendClicks ==
  ASSUME visit \in [Panels -> Nat],
         \/ ListUser \/ ListAnswer \/ BrowseUser \/ BrowseAnswer
         \/ AuthorUser \/ AuthorAnswer
  PROVE  visit' \in [Panels -> Nat]
<1>1. ASSUME NEW p, NEW panel, UserOn(p, panel) PROVE visit' \in [Panels -> Nat]
      BY <1>1, ClicksRemain DEF UserOn
<1>2. ASSUME NEW p, AuthorOn(p) PROVE visit' \in [Panels -> Nat]
      BY <1>1, <1>2 DEF AuthorOn
<1>3. ASSUME NEW p, AnswerOn(p) PROVE visit' \in [Panels -> Nat]
      BY <1>3 DEF AnswerOn, sessionVars
<1>4. CASE ListUser
      BY <1>1, <1>4
         DEF ListUser, ChangeFilter, ToggleMine, FetchAgain, ResetFilters,
             ShowAs, Inspect, CloseModal, OnList
<1>5. CASE ListAnswer
      BY <1>5 DEF ListAnswer, ListAnswered, sessionVars
<1>6. CASE BrowseUser
      BY <1>1, <1>6
         DEF BrowseUser, FetchProblems, Filter, ClearFilters, ToggleEdit,
             ToggleFollow, ChooseTab, Update
<1>7. CASE BrowseAnswer
      BY <1>3, <1>7
         DEF BrowseAnswer, UpdateRefused, HomeListArrives, HomeReaderArrives,
             ProblemsArrive, ProgressRefused, PartArrives, UpdateSession
<1>8. CASE AuthorUser
      BY <1>2, <1>8
         DEF AuthorUser, WriteStatement, Generate, ChooseSampleCount,
             EditStatementAgain, Create, WriteCode, ChooseLanguage, EditCase,
             RunCode, AskHints, NextHint, SubmitCode, BackToSubmissions,
             AddFailedCase, Make, AdminSubmit
<1>9. CASE AuthorAnswer
      BY <1>2, <1>3, <1>9
         DEF AuthorAnswer, AskSubmission, AdminRefused, AuthorKnown,
             DetailsGenerated, TestsGenerated, CreateEnds, RunAnswered,
             HintsAnswered, SubmitAnswered, SubmittedShown, SubmissionShown,
             Made, AdminLoaded
<1> QED BY <1>4, <1>5, <1>6, <1>7, <1>8, <1>9

LEMMA RestStep ==
  ASSUME RestTypes, SessionTypes, [Next]_vars
  PROVE  RestTypes'
<1>0. ASSUME UNCHANGED restOfSession, visit' \in [Panels -> Nat] PROVE RestTypes'
      BY <1>0 DEF restOfSession, RestTypes
<1>1. CASE RouteChange \/ Account
      BY <1>1, RouteChangeKept, AccountKept
<1>2. CASE SessionCheck
      BY <1>2 DEF SessionCheck, AuthChecked, RestTypes
<1>3. CASE \/ ListUser \/ ListAnswer \/ BrowseUser \/ BrowseAnswer
           \/ AuthorUser \/ AuthorAnswer
      BY <1>0, <1>3, PagesSpendClicks, ListLeavesSession, BrowseLeavesSession,
         AuthorLeavesSession DEF RestTypes
<1>4. CASE Judge \/ PollTimer \/ PollAnswer \/ ReaderAnswer
      BY <1>4 DEF Judge, PollTimer, PollAnswer, ReaderAnswer, sessionVars, RestTypes
<1>5. CASE UNCHANGED vars
      BY <1>5 DEF vars, sessionVars, RestTypes
<1> QED BY <1>1, <1>2, <1>3, <1>4, <1>5 DEF Next
-----------------------------------------------------------------------------
(* What the list shows beside its rows.                                      *)
LookTypes ==
  /\ listError \in BOOLEAN
  /\ listMode \in {"timeline", "table", "analytics"}
  /\ inspected \in BOOLEAN

LEMMA LookStep ==
  ASSUME LookTypes, [Next]_vars
  PROVE  LookTypes'
<1> USE DEF LookTypes
<1>0. ASSUME UNCHANGED listVars PROVE LookTypes'
      BY <1>0 DEF listVars, lookVars
<1>1. ASSUME NEW f, NEW m, SetMine(f, m) PROVE listError' \in BOOLEAN
      BY <1>1 DEF SetMine, FetchList
<1>2. CASE RouteChange
      BY <1>0, <1>2 DEF RouteChange, Remounts, ListRemounts, ListReopens
<1>3. CASE Account
      BY <1>0, <1>3 DEF Account
<1>4. CASE SessionCheck
      BY <1>0, <1>1, <1>4 DEF SessionCheck, SignedInSeen, lookVars
<1>5. CASE ListUser
  <2>1. ASSUME NEW f \in Filters, ChangeFilter(f) PROVE LookTypes'
        BY <2>1 DEF ChangeFilter, lookVars
  <2>2. CASE ToggleMine \/ ResetFilters
        BY <1>1, <2>2 DEF ToggleMine, ResetFilters, lookVars
  <2>3. CASE FetchAgain
        BY <2>3 DEF FetchAgain, FetchList, lookVars
  <2>4. CASE \E mode \in {"timeline", "table", "analytics"} : ShowAs(mode)
        BY <2>4 DEF ShowAs
  <2>5. CASE Inspect \/ CloseModal
        BY <2>5 DEF Inspect, CloseModal
  <2> QED BY <1>5, <2>1, <2>2, <2>3, <2>4, <2>5 DEF ListUser
<1>6. CASE ListAnswer
      BY <1>6 DEF ListAnswer, ListAnswered, lookVars
<1>7. CASE Judge \/ PollTimer \/ PollAnswer \/ ReaderAnswer
      BY <1>0, <1>7 DEF Judge, PollTimer, PollAnswer, ReaderAnswer
<1>8. CASE BrowseUser \/ BrowseAnswer \/ AuthorUser \/ AuthorAnswer
      BY <1>0, <1>8 DEF BrowseUser, BrowseAnswer, AuthorUser, AuthorAnswer
<1>9. CASE UNCHANGED vars
      BY <1>0, <1>9 DEF vars
<1> QED BY <1>2, <1>3, <1>4, <1>5, <1>6, <1>7, <1>8, <1>9 DEF Next
-----------------------------------------------------------------------------
(* Removing an element leaves a sequence of the same elements.               *)
LEMMA RemovalKeepsType ==
  ASSUME NEW R, NEW s \in Seq(R), NEW i \in DOMAIN s
  PROVE  RemoveAt(s, i) \in Seq(R)
<1>1. i \in 1..Len(s) /\ Len(s) \in Nat
      BY LenProperties
<1>2. SubSeq(s, 1, i - 1) \in Seq(R)
      BY <1>1
<1>3. SubSeq(s, i + 1, Len(s)) \in Seq(R)
      BY <1>1
<1> QED BY <1>2, <1>3, ConcatProperties DEF RemoveAt

LEMMA FinishedKeeps ==
  ASSUME DetailTypeOK, NEW i \in DOMAIN polls, Finished(i)
  PROVE  /\ polls' \in Seq(Poll) /\ detailLoading' \in BOOLEAN
         /\ timer' \in {"unset", "running", "cleared"}
BY RemovalKeepsType DEF Finished, Clear, DetailTypeOK

LEMMA SomeVerdict == (CHOOSE v \in Verdicts : TRUE) \in Statuses
BY VerdictsAssumption DEF Statuses

LEMMA DetailStep ==
  ASSUME DetailTypeOK, [Next]_vars
  PROVE  DetailTypeOK'
<1> USE DEF DetailTypeOK
<1>0. ASSUME UNCHANGED detailVars PROVE DetailTypeOK'
      BY <1>0 DEF detailVars
<1>1. CASE RouteChange
  <2>1. CASE page' = page \/ page # "submission"
        BY <1>0, <1>1, <2>1 DEF RouteChange, Remounts, DetailRemounts
  <2>2. CASE ~(page' = page \/ page # "submission")
    <3>1. polls' = <<>> /\ status' \in Statuses
          BY <1>1, <2>2, SomeVerdict DEF RouteChange, Remounts, DetailRemounts
    <3>2. <<>> \in Seq(Poll)
          BY EmptySeq
    <3>3. /\ submission' = "none" /\ detailLoading' = TRUE /\ detailError' = FALSE
          /\ timer' = "unset" /\ pollOrdered' = TRUE
          /\ reader' = "asked" /\ stats' = FALSE
          BY <1>1, <2>2 DEF RouteChange, Remounts, DetailRemounts
    <3> QED BY <3>1, <3>2, <3>3
  <2> QED BY <2>1, <2>2
<1>2. CASE \/ Account \/ SessionCheck \/ ListUser \/ ListAnswer
           \/ BrowseUser \/ BrowseAnswer \/ AuthorUser \/ AuthorAnswer
      BY <1>0, <1>2 DEF Account, SessionCheck, ListUser, ListAnswer, BrowseUser,
                        BrowseAnswer, AuthorUser, AuthorAnswer
<1>3. CASE Judge
  <2>1. Verdicts \subseteq Statuses
        BY VerdictsAssumption DEF Statuses
  <2>2. status' \in Verdicts
        BY <1>3 DEF Judge, Judged
  <2>3. UNCHANGED <<submission, detailLoading, detailError, timer, polls,
                    pollOrdered, reader, stats>>
        BY <1>3 DEF Judge, Judged
  <2> QED BY <2>1, <2>2, <2>3
<1>4. CASE PollTimer
  <2>1. NewPoll \in Poll
        BY DEF NewPoll, Poll
  <2>2. polls' \in Seq(Poll)
        BY <1>4, <2>1, AppendProperties DEF PollTimer, PollFires
  <2> QED BY <1>4, <2>2 DEF PollTimer, PollFires
<1>5. ASSUME NEW i \in DOMAIN polls, NEW seen \in Statuses, DetailArrives(i, seen)
      PROVE  DetailTypeOK'
  <2>1. polls[i] \in Poll /\ pollOrdered' \in BOOLEAN
        BY <1>5, ElementOfSeq, LenProperties DEF DetailArrives
  <2>2. UNCHANGED <<status, detailError, reader, stats>> /\ submission' = seen
        BY <1>5 DEF DetailArrives
  <2>3. CASE seen = "accepted"
    <3>1. /\ polls' = [polls EXCEPT ![i] = [polls[i] EXCEPT !.waits = "stats"]]
          /\ UNCHANGED <<detailLoading, timer>>
          BY <1>5, <2>3 DEF DetailArrives
    <3>2. [polls[i] EXCEPT !.waits = "stats"] \in Poll
          BY <2>1 DEF Poll
    <3>3. polls' \in Seq(Poll)
          BY <3>1, <3>2, LenProperties, ExceptSeq
    <3> QED BY <2>1, <2>2, <3>1, <3>3
  <2>4. CASE seen = "failed"
    <3>1. Finished(i)
          BY <1>5, <2>4 DEF DetailArrives
    <3> QED BY <2>1, <2>2, <3>1, FinishedKeeps
  <2>5. CASE seen = "pending"
    <3>1. /\ polls' = RemoveAt(polls, i) /\ UNCHANGED detailLoading
          /\ timer' \in {"unset", "running", "cleared"}
          BY <1>5, <2>5 DEF DetailArrives, StartTimer
    <3> QED BY <2>1, <2>2, <3>1, RemovalKeepsType
  <2> QED BY <2>3, <2>4, <2>5 DEF Statuses
<1>6. ASSUME NEW i \in DOMAIN polls, NEW found \in BOOLEAN, StatsArrive(i, found)
      PROVE  DetailTypeOK'
      BY <1>6, FinishedKeeps DEF StatsArrive
<1>7. ASSUME NEW i \in DOMAIN polls, DetailFails(i)
      PROVE  DetailTypeOK'
      BY <1>7, FinishedKeeps DEF DetailFails
<1>8. CASE ReaderAnswer
      BY <1>8 DEF ReaderAnswer, ReaderKnown
<1>9. CASE UNCHANGED vars
      BY <1>0, <1>9 DEF vars
<1> QED BY <1>1, <1>2, <1>3, <1>4, <1>5, <1>6, <1>7, <1>8, <1>9 DEF Next, PollAnswer
-----------------------------------------------------------------------------
(* The pages that are looked through: a profile is answered for part by part *)
(* and never past the last.                                                  *)
LEMMA PartsAreNine ==
  /\ Len(Parts) = 9 /\ DOMAIN Parts = 1..9
  /\ \A i \in 1..9 : Parts[i] \in {Parts[j] : j \in DOMAIN Parts}
BY DEF Parts

LEMMA NextPart ==
  ASSUME BrowseTypeOK, NEW ok \in BOOLEAN, PartArrives(ok)
  PROVE  /\ part' \in 0..Len(Parts)
         /\ profileFound' \in BOOLEAN
         /\ invented' \subseteq {Parts[i] : i \in DOMAIN Parts}
<1>1. part \in 0..8 /\ part + 1 \in 1..9
      BY PartsAreNine DEF BrowseTypeOK, PartArrives
<1>2. part' \in 0..Len(Parts)
      BY <1>1, PartsAreNine DEF PartArrives, PartAfter
<1>3. Parts[part + 1] \in {Parts[i] : i \in DOMAIN Parts}
      BY <1>1, PartsAreNine
<1>4. invented' \subseteq invented \cup {Parts[part + 1]}
      BY DEF PartArrives
<1>5. profileFound' \in BOOLEAN
      BY DEF PartArrives
<1> QED BY <1>2, <1>3, <1>4, <1>5 DEF BrowseTypeOK

LEMMA BrowseStep ==
  ASSUME BrowseTypeOK, [Next]_vars
  PROVE  BrowseTypeOK'
<1> USE DEF BrowseTypeOK
<1>0. ASSUME UNCHANGED browseVars PROVE BrowseTypeOK'
      BY <1>0 DEF browseVars, homeVars, problemsVars, profileVars
<1>1. CASE RouteChange
  <2>1. CASE BrowseReopens
    <3>1. 0 \in 0..Len(Parts)
          BY PartsAreNine
    <3> QED BY <2>1, <3>1 DEF BrowseReopens, Levels, Progress, Tabs
  <2> QED BY <1>0, <1>1, <2>1 DEF RouteChange, Remounts, BrowseRemounts
<1>2. CASE \/ Account \/ SessionCheck \/ ListUser \/ ListAnswer
           \/ Judge \/ PollTimer \/ PollAnswer \/ ReaderAnswer
           \/ AuthorUser \/ AuthorAnswer
      BY <1>0, <1>2 DEF Account, SessionCheck, ListUser, ListAnswer, Judge,
                        PollTimer, PollAnswer, ReaderAnswer, AuthorUser,
                        AuthorAnswer
<1>3. CASE BrowseUser
  <2>1. ASSUME NEW l \in Levels, NEW s \in Progress, Filter(l, s)
        PROVE  BrowseTypeOK'
        BY <2>1 DEF Filter, homeVars, profileVars
  <2>2. CASE FetchProblems
        BY <2>2 DEF FetchProblems, homeVars, profileVars
  <2>3. CASE ClearFilters
        BY <2>1, <2>3 DEF ClearFilters, Levels, Progress
  <2>4. CASE ToggleEdit \/ ToggleFollow \/ \E t \in Tabs : ChooseTab(t)
        BY <2>4 DEF ToggleEdit, ToggleFollow, ChooseTab, homeVars, problemsVars
  <2>5. ASSUME NEW valid \in BOOLEAN, Update(valid) PROVE BrowseTypeOK'
        BY <2>5 DEF Update, homeVars, problemsVars
  <2> QED BY <1>3, <2>1, <2>2, <2>3, <2>4, <2>5 DEF BrowseUser
<1>4. CASE BrowseAnswer
  <2>1. CASE UpdateRefused
        BY <2>1 DEF UpdateRefused, homeVars, problemsVars
  <2>2. ASSUME NEW ok \in BOOLEAN, HomeListArrives(ok) PROVE BrowseTypeOK'
        BY <2>2 DEF HomeListArrives, problemsVars, profileVars
  <2>3. ASSUME NEW ok \in BOOLEAN, HomeReaderArrives(ok) PROVE BrowseTypeOK'
    <3>1. homeReader' \in {"out", "in", "stats"}
          BY <2>3 DEF HomeReaderArrives
    <3> QED BY <2>3, <3>1 DEF HomeReaderArrives, problemsVars, profileVars
  <2>4. ASSUME NEW ok \in BOOLEAN, ProblemsArrive(ok) PROVE BrowseTypeOK'
        BY <2>4 DEF ProblemsArrive, homeVars, profileVars
  <2>5. ASSUME NEW ok \in BOOLEAN, ProgressRefused(ok) PROVE BrowseTypeOK'
        BY <2>5 DEF ProgressRefused, homeVars, profileVars
  <2>6. ASSUME NEW ok \in BOOLEAN, PartArrives(ok) PROVE BrowseTypeOK'
        BY <2>6, NextPart DEF PartArrives, homeVars, problemsVars
  <2>7. ASSUME NEW ok \in BOOLEAN, UpdateSession(ok) PROVE BrowseTypeOK'
        BY <2>7 DEF UpdateSession, homeVars, problemsVars
  <2> QED BY <1>4, <2>1, <2>2, <2>3, <2>4, <2>5, <2>6, <2>7 DEF BrowseAnswer
<1>5. CASE UNCHANGED vars
      BY <1>0, <1>5 DEF vars
<1> QED BY <1>1, <1>2, <1>3, <1>4, <1>5 DEF Next
-----------------------------------------------------------------------------
(* The workshop: the test cases never run out, one of them is active, those  *)
(* that are shown are not newer than the problem, and details are generated  *)
(* only as long as there may be more of them (handleGenerateDetails).        *)
DraftingTypes ==
  /\ author \in {"asked", "in", "out"}
  /\ statement \in BOOLEAN /\ preview \in BOOLEAN /\ testsError \in BOOLEAN
  /\ creating \in BOOLEAN /\ authorError \in BOOLEAN
  /\ generating \in {"none", "details", "tests"}
  /\ draft \in 0..MaxDrafts
  /\ generating = "details" => draft < MaxDrafts
  /\ tests \in 0..draft
  /\ createEnd \in {"none", "created", "refused", "lost", "signed out"}

TrialTypes ==
  /\ code \in {"default", "own", "blank"}
  /\ cases \in Seq(Case) /\ Len(cases) \in 1..MaxCases
  /\ active \in DOMAIN cases
  /\ ran \in Seq(Case)
  /\ running \in Seq(Case)
  /\ runError \in BOOLEAN
  /\ hints \in {"none", "asked", "failed"} \cup {"1", "2", "3"}

HandInTypes ==
  /\ submitting \in {"none", "posting", "details"}
  /\ picked \in {"none", "pending", "final"}
  /\ asked \in Nat

OtherTypes ==
  /\ made \subseteq Products
  /\ making \subseteq Products
  /\ adminLoad \in {"asked", "some", "failed"}
  /\ adminSends \in BOOLEAN

AuthoringInv == DraftingTypes /\ TrialTypes /\ HandInTypes /\ OtherTypes

LEMMA AuthoringTypes == AuthoringInv => AuthoringTypeOK
BY DEF AuthoringInv, DraftingTypes, TrialTypes, HandInTypes, OtherTypes,
       AuthoringTypeOK

LEMMA AuthoringParts ==
  ASSUME AuthoringInv
  PROVE  /\ UNCHANGED draftingVars => DraftingTypes'
         /\ UNCHANGED trialVars => TrialTypes'
         /\ UNCHANGED handInVars => HandInTypes'
         /\ UNCHANGED otherVars => OtherTypes'
<1>1. UNCHANGED draftingVars => DraftingTypes'
      BY DEF AuthoringInv, DraftingTypes, draftingVars
<1>2. UNCHANGED trialVars => TrialTypes'
      BY DEF AuthoringInv, TrialTypes, trialVars
<1>3. UNCHANGED handInVars => HandInTypes'
      BY DEF AuthoringInv, HandInTypes, handInVars
<1>4. UNCHANGED otherVars => OtherTypes'
      BY DEF AuthoringInv, OtherTypes, otherVars
<1> QED BY <1>1, <1>2, <1>3, <1>4

LEMMA DraftNumbers ==
  ASSUME DraftingTypes
  PROVE  /\ draft \in Nat /\ tests \in Nat /\ MaxDrafts \in Nat
         /\ tests <= draft /\ draft <= MaxDrafts
<1>1. draft \in 0..MaxDrafts /\ tests \in 0..draft
      BY DEF DraftingTypes
<1>2. MaxDrafts \in Nat
      BY AuthoringAssumption
<1> QED BY <1>1, <1>2

LEMMA OneCase ==
  /\ <<"empty">> \in Seq(Case) /\ <<>> \in Seq(Case)
  /\ Len(<<"empty">>) \in 1..MaxCases /\ 1 \in DOMAIN <<"empty">>
<1>1. "empty" \in Case
      BY DEF Case
<1>2. <<"empty">> \in Seq(Case)
      BY <1>1
<1>3. <<>> \in Seq(Case)
      BY EmptySeq, Zenon
<1>4. Len(<<"empty">>) = 1 /\ DOMAIN <<"empty">> = 1..1
      OBVIOUS
<1>5. 1 \in 1..MaxCases
      BY AuthoringAssumption
<1> QED BY <1>2, <1>3, <1>4, <1>5

LEMMA AuthoringAtStart ==
  ASSUME AuthoringInit \/ AuthoringReopens
  PROVE  /\ AuthoringInit => AuthoringInv
         /\ AuthoringReopens => AuthoringInv'
<1>1. 0 \in 0..MaxDrafts /\ 0 \in 0..0 /\ 0 \in Nat
      BY AuthoringAssumption
<1> DEFINE one == <<"empty">>
           nil == <<>>
<1>0. /\ one \in Seq(Case) /\ nil \in Seq(Case)
      /\ Len(one) \in 1..MaxCases /\ 1 \in DOMAIN one
      BY OneCase
<1>a. AuthoringInit => cases = one /\ ran = nil /\ running = nil
      BY DEF AuthoringInit
<1>b. AuthoringReopens => cases' = one /\ ran' = nil /\ running' = nil
      BY DEF AuthoringReopens
<1> HIDE DEF one, nil
<1>2. ASSUME AuthoringInit PROVE AuthoringInv
  <2>1. DraftingTypes
        BY <1>1, <1>2 DEF AuthoringInit, DraftingTypes
  <2>2. TrialTypes
    <3>1. code = "default" /\ active = 1 /\ runError = FALSE /\ hints = "none"
          BY <1>2 DEF AuthoringInit
    <3> QED BY <1>0, <1>2, <1>a, <3>1 DEF TrialTypes
  <2>3. HandInTypes /\ OtherTypes
        BY <1>1, <1>2 DEF AuthoringInit, HandInTypes, OtherTypes
  <2> QED BY <2>1, <2>2, <2>3 DEF AuthoringInv
<1>3. ASSUME AuthoringReopens PROVE AuthoringInv'
  <2>1. DraftingTypes'
        BY <1>1, <1>3 DEF AuthoringReopens, DraftingTypes
  <2>2. TrialTypes'
    <3>1. code' = "default" /\ active' = 1 /\ runError' = FALSE /\ hints' = "none"
          BY <1>3 DEF AuthoringReopens
    <3> QED BY <1>0, <1>3, <1>b, <3>1 DEF TrialTypes
  <2>3. HandInTypes' /\ OtherTypes'
        BY <1>1, <1>3 DEF AuthoringReopens, HandInTypes, OtherTypes
  <2> QED BY <2>1, <2>2, <2>3 DEF AuthoringInv
<1> QED BY <1>2, <1>3

(* A statement becomes a problem.                                            *)
LEMMA DraftingKept ==
  ASSUME AuthoringInv,
         \/ WriteStatement \/ Generate \/ EditStatementAgain \/ Create
         \/ \E ok \in BOOLEAN :
              AuthorKnown(ok) \/ DetailsGenerated(ok) \/ CreateEnds(ok)
  PROVE  AuthoringInv'
<1> USE AuthoringParts DEF AuthoringInv
<1>1. CASE WriteStatement \/ EditStatementAgain \/ Create
      BY <1>1 DEF WriteStatement, EditStatementAgain, Create, DraftingTypes
<1>2. CASE Generate
      BY <1>2 DEF Generate, DraftingTypes
<1>3. ASSUME NEW ok \in BOOLEAN, AuthorKnown(ok) PROVE AuthoringInv'
      BY <1>3 DEF AuthorKnown, DraftingTypes
<1>4. ASSUME NEW ok \in BOOLEAN, DetailsGenerated(ok) PROVE AuthoringInv'
  <2>1. UNCHANGED <<author, statement, tests, testsError, creating, createEnd,
                    trialVars, handInVars, otherVars>>
        BY <1>4 DEF DetailsGenerated
  <2>2. CASE ok
    <3>0. generating = "details"
          BY <1>4 DEF DetailsGenerated
    <3>1. /\ draft \in Nat /\ tests \in Nat /\ MaxDrafts \in Nat
          /\ tests <= draft /\ draft < MaxDrafts
          BY <3>0, DraftNumbers DEF DraftingTypes
    <3>2. draft' = draft + 1 /\ generating' = "tests" /\ preview' = TRUE
          /\ UNCHANGED authorError
          BY <1>4, <2>2 DEF DetailsGenerated
    <3>3. draft' \in 0..MaxDrafts /\ tests \in 0..draft'
          BY <3>1, <3>2
    <3> QED BY <2>1, <3>2, <3>3 DEF DraftingTypes
  <2>3. CASE ~ok
        BY <1>4, <2>1, <2>3 DEF DetailsGenerated, DraftingTypes
  <2> QED BY <2>2, <2>3
<1>5. ASSUME NEW ok \in BOOLEAN, CreateEnds(ok) PROVE AuthoringInv'
  <2>1. createEnd' \in {"created", "refused", "lost", "signed out"}
        BY <1>5 DEF CreateEnds
  <2>2. creating' = FALSE /\ authorError' \in BOOLEAN
        BY <1>5 DEF CreateEnds
  <2> QED BY <1>5, <2>1, <2>2 DEF CreateEnds, DraftingTypes
<1> QED BY <1>1, <1>2, <1>3, <1>4, <1>5

(* The test cases beside it.                                                 *)
LEMMA SamplesKept ==
  ASSUME TrialTypes, NEW n \in 1..MaxCases, SampleCases(n)
  PROVE  /\ cases' \in Seq(Case) /\ Len(cases') \in 1..MaxCases
         /\ active' \in DOMAIN cases'
<1>1. n \in Nat /\ n >= 1 /\ "sample" \in Case
      BY AuthoringAssumption DEF Case
<1>2. cases' = [i \in 1..n |-> "sample"]
      BY DEF SampleCases
<1>3. cases' \in Seq(Case) /\ Len(cases') = n /\ DOMAIN cases' = 1..n
      BY <1>1, <1>2
<1>4. active \in Nat /\ active >= 1
      BY LenProperties DEF TrialTypes
<1>5. active' \in 1..n
      BY <1>1, <1>4 DEF SampleCases
<1> QED BY <1>3, <1>5

LEMMA CaseAdded ==
  ASSUME TrialTypes, NEW c \in Case, Len(cases) < MaxCases, cases' = Append(cases, c)
  PROVE  /\ cases' \in Seq(Case) /\ Len(cases') \in 1..MaxCases
         /\ DOMAIN cases' = 1..(Len(cases) + 1)
         /\ active \in DOMAIN cases' /\ Len(cases) + 1 \in DOMAIN cases'
<1>1. Len(cases) \in Nat /\ DOMAIN cases = 1..Len(cases) /\ active \in 1..Len(cases)
      BY LenProperties DEF TrialTypes
<1>2. cases' \in Seq(Case) /\ Len(cases') = Len(cases) + 1
      BY AppendProperties DEF TrialTypes
<1>3. DOMAIN cases' = 1..(Len(cases) + 1)
      BY <1>2, LenProperties
<1>4. MaxCases \in Nat
      BY AuthoringAssumption
<1> QED BY <1>1, <1>2, <1>3, <1>4

LEMMA TrialKept ==
  ASSUME AuthoringInv,
         \/ \E n \in 1..MaxCases : ChooseSampleCount(n)
         \/ \E text \in {"own", "blank"} : WriteCode(text)
         \/ \E confirmed \in BOOLEAN : ChooseLanguage(confirmed)
         \/ EditCase \/ RunCode \/ AskHints \/ NextHint \/ AddFailedCase
         \/ \E ok \in BOOLEAN :
              TestsGenerated(ok) \/ RunAnswered(ok) \/ HintsAnswered(ok)
  PROVE  AuthoringInv'
<1> USE AuthoringParts DEF AuthoringInv
<1>1. ASSUME NEW n \in 1..MaxCases, ChooseSampleCount(n) PROVE AuthoringInv'
      BY <1>1, SamplesKept DEF ChooseSampleCount, TrialTypes
<1>2. CASE \/ \E text \in {"own", "blank"} : WriteCode(text)
           \/ \E confirmed \in BOOLEAN : ChooseLanguage(confirmed)
           \/ RunCode \/ AskHints \/ NextHint
  <2>1. UNCHANGED <<draftingVars, cases, active, handInVars, otherVars>>
        BY <1>2 DEF WriteCode, ChooseLanguage, RunCode, AskHints, NextHint
  <2>2. code' \in {"default", "own", "blank"} /\ runError' \in BOOLEAN
        BY <1>2 DEF WriteCode, ChooseLanguage, RunCode, AskHints, NextHint, TrialTypes
  <2>3. ran' \in Seq(Case) /\ running' \in Seq(Case)
        BY <1>2 DEF WriteCode, ChooseLanguage, RunCode, AskHints, NextHint, TrialTypes
  <2>4. hints' \in {"none", "asked", "failed"} \cup {"1", "2", "3"}
        BY <1>2 DEF WriteCode, ChooseLanguage, RunCode, AskHints, NextHint, TrialTypes
  <2> QED BY <2>1, <2>2, <2>3, <2>4 DEF TrialTypes
<1>3. CASE EditCase
  <2>1. UNCHANGED <<draftingVars, code, ran, running, runError, hints, handInVars,
                    otherVars>>
        BY <1>3 DEF EditCase
  <2>2. CASE cases' = [cases EXCEPT ![active] = "own"] /\ UNCHANGED active
    <3>1. cases' \in Seq(Case) /\ Len(cases') = Len(cases)
          BY <2>2, LenProperties, ExceptSeq DEF TrialTypes, Case
    <3>2. DOMAIN cases' = DOMAIN cases
          BY <2>2
    <3> QED BY <2>1, <2>2, <3>1, <3>2 DEF TrialTypes
  <2>3. CASE /\ Len(cases) < MaxCases /\ cases' = Append(cases, "empty")
             /\ UNCHANGED active
    <3>1. "empty" \in Case
          BY DEF Case
    <3> QED BY <2>1, <2>3, <3>1, CaseAdded DEF TrialTypes
  <2>4. CASE active' \in DOMAIN cases \ {active} /\ UNCHANGED cases
        BY <2>1, <2>4 DEF TrialTypes
  <2> QED BY <1>3, <2>2, <2>3, <2>4 DEF EditCase
<1>4. CASE AddFailedCase
  <2>1. "sample" \in Case
        BY DEF Case
  <2> QED BY <1>4, <2>1, CaseAdded DEF AddFailedCase, TrialTypes
<1>5. ASSUME NEW ok \in BOOLEAN, TestsGenerated(ok) PROVE AuthoringInv'
  <2>1. /\ generating = "tests" /\ generating' = "none"
        /\ UNCHANGED <<author, statement, preview, draft, creating, createEnd,
                       authorError, code, ran, running, runError, hints,
                       handInVars, otherVars>>
        BY <1>5 DEF TestsGenerated
  <2>2. CASE ok
    <3>1. tests' = draft /\ UNCHANGED testsError
          BY <1>5, <2>2 DEF TestsGenerated
    <3>2. tests' \in 0..draft
          BY <3>1, DraftNumbers
    <3>3. PICK n \in 1..MaxCases : SampleCases(n)
          BY <1>5, <2>2 DEF TestsGenerated
    <3>4. DraftingTypes'
          BY <2>1, <3>1, <3>2 DEF DraftingTypes
    <3>5. TrialTypes'
          BY <2>1, <3>3, SamplesKept DEF TrialTypes
    <3> QED BY <2>1, <3>4, <3>5
  <2>3. CASE ~ok
    <3>1. testsError' = TRUE /\ UNCHANGED <<tests, cases, active>>
          BY <1>5, <2>3 DEF TestsGenerated
    <3>2. DraftingTypes'
          BY <2>1, <3>1 DEF DraftingTypes
    <3>3. TrialTypes'
          BY <2>1, <3>1 DEF TrialTypes
    <3> QED BY <2>1, <3>2, <3>3
  <2> QED BY <2>2, <2>3
<1>6. ASSUME NEW ok \in BOOLEAN, RunAnswered(ok) PROVE AuthoringInv'
  <2>1. ran' \in Seq(Case) /\ running' = <<>> /\ runError' \in BOOLEAN
        BY <1>6 DEF RunAnswered, TrialTypes
  <2> QED BY <1>6, <2>1 DEF RunAnswered, TrialTypes
<1>7. ASSUME NEW ok \in BOOLEAN, HintsAnswered(ok) PROVE AuthoringInv'
      BY <1>7 DEF HintsAnswered, TrialTypes
<1> QED BY <1>1, <1>2, <1>3, <1>4, <1>5, <1>6, <1>7

(* Handing in.                                                               *)
LEMMA HandInKept ==
  ASSUME AuthoringInv,
         \/ SubmitCode \/ BackToSubmissions \/ AskSubmission
         \/ \E ok \in BOOLEAN :
              \/ SubmitAnswered(ok)
              \/ \E seen \in {"pending", "final"} :
                   SubmittedShown(ok, seen) \/ SubmissionShown(ok, seen)
  PROVE  AuthoringInv'
<1> USE AuthoringParts DEF AuthoringInv
<1>1. CASE SubmitCode
      BY <1>1 DEF SubmitCode, TrialTypes, HandInTypes
<1>2. CASE BackToSubmissions \/ AskSubmission
      BY <1>2 DEF BackToSubmissions, AskSubmission, HandInTypes
<1>3. ASSUME NEW ok \in BOOLEAN, SubmitAnswered(ok) PROVE AuthoringInv'
  <2>1. runError' \in BOOLEAN /\ submitting' \in {"details", "none"}
        BY <1>3 DEF SubmitAnswered
  <2> QED BY <1>3, <2>1 DEF SubmitAnswered, TrialTypes, HandInTypes
<1>4. ASSUME NEW ok \in BOOLEAN, NEW seen \in {"pending", "final"},
             SubmittedShown(ok, seen)
      PROVE  AuthoringInv'
      BY <1>4 DEF SubmittedShown, TrialTypes, HandInTypes
<1>5. ASSUME NEW ok \in BOOLEAN, NEW seen \in {"pending", "final"},
             SubmissionShown(ok, seen)
      PROVE  AuthoringInv'
  <2>1. asked' \in Nat /\ picked' \in {"none", "pending", "final"}
        BY <1>5 DEF SubmissionShown, HandInTypes
  <2> QED BY <1>5, <2>1 DEF SubmissionShown, HandInTypes
<1> QED BY <1>1, <1>2, <1>3, <1>4, <1>5

(* The other pages.                                                          *)
LEMMA OtherKept ==
  ASSUME AuthoringInv,
         \/ AdminSubmit \/ AdminRefused
         \/ \E product \in Products : Make(product)
         \/ \E ok \in BOOLEAN :
              AdminLoaded(ok) \/ \E product \in Products : Made(product, ok)
  PROVE  AuthoringInv'
<1> USE AuthoringParts DEF AuthoringInv
<1>1. CASE AdminSubmit \/ AdminRefused
      BY <1>1 DEF AdminSubmit, AdminRefused, OtherTypes
<1>2. ASSUME NEW product \in Products, Make(product) PROVE AuthoringInv'
      BY <1>2 DEF Make, OtherTypes
<1>3. ASSUME NEW ok \in BOOLEAN, AdminLoaded(ok) PROVE AuthoringInv'
      BY <1>3 DEF AdminLoaded, OtherTypes
<1>4. ASSUME NEW ok \in BOOLEAN, NEW product \in Products, Made(product, ok)
      PROVE  AuthoringInv'
      BY <1>4 DEF Made, OtherTypes
<1> QED BY <1>1, <1>2, <1>3, <1>4

LEMMA AuthoringStep ==
  ASSUME AuthoringInv, [Next]_vars
  PROVE  AuthoringInv'
<1>0. ASSUME UNCHANGED authoringVars PROVE AuthoringInv'
      BY <1>0, AuthoringParts DEF authoringVars, AuthoringInv
<1>1. CASE RouteChange
      BY <1>0, <1>1, AuthoringAtStart DEF RouteChange, Remounts, AuthoringRemounts
<1>2. CASE \/ Account \/ SessionCheck \/ ListUser \/ ListAnswer
           \/ Judge \/ PollTimer \/ PollAnswer \/ ReaderAnswer
           \/ BrowseUser \/ BrowseAnswer
      BY <1>0, <1>2 DEF Account, SessionCheck, ListUser, ListAnswer, Judge,
                        PollTimer, PollAnswer, ReaderAnswer, BrowseUser,
                        BrowseAnswer
<1>3. CASE AuthorUser
      BY <1>3, DraftingKept, TrialKept, HandInKept, OtherKept DEF AuthorUser
<1>4. CASE AuthorAnswer
      BY <1>4, DraftingKept, TrialKept, HandInKept, OtherKept DEF AuthorAnswer
<1>5. CASE UNCHANGED vars
      BY <1>0, <1>5 DEF vars
<1> QED BY <1>1, <1>2, <1>3, <1>4, <1>5 DEF Next
-----------------------------------------------------------------------------
SiteInv ==
  RestTypes /\ ListInv /\ LookTypes /\ DetailTypeOK /\ BrowseTypeOK /\ AuthoringInv

LEMMA SiteInvAtStart == Init => SiteInv
<1> SUFFICES ASSUME Init PROVE SiteInv
    OBVIOUS
<1>1. RestTypes
  <2>1. page \in Pages /\ visit \in [Panels -> Nat]
        BY VisitsAssumption DEF Init, SessionInit
  <2> QED BY <2>1 DEF Init, SessionInit, RestTypes
<1>2. ListInv
      BY ListAtStart
<1>3. LookTypes
      BY DEF Init, ListInit, LookTypes
<1>4. DetailTypeOK
  <2>1. status \in Statuses
        BY VerdictsAssumption, SomeVerdict DEF Init, DetailInit, Statuses
  <2>2. NewPoll \in Poll
        BY <2>1 DEF NewPoll, Poll
  <2>3. <<NewPoll>> \in Seq(Poll)
        BY <2>2
  <2>4. <<>> \in Seq(Poll)
        BY EmptySeq, Zenon
  <2>5. polls \in {<<NewPoll>>, <<>>}
        BY DEF Init, DetailInit
  <2>6. polls \in Seq(Poll)
        BY <2>3, <2>4, <2>5, Zenon
  <2>7. /\ submission = "none" /\ detailLoading = TRUE /\ detailError = FALSE
        /\ timer = "unset" /\ pollOrdered = TRUE
        /\ reader = "asked" /\ stats = FALSE
        BY DEF Init, DetailInit
  <2> QED BY <2>1, <2>6, <2>7 DEF DetailTypeOK
<1>5. BrowseTypeOK
  <2>1. 0 \in 0..Len(Parts)
        BY PartsAreNine
  <2> QED BY <2>1 DEF Init, BrowseInit, BrowseTypeOK, Levels, Progress, Tabs
<1>6. AuthoringInv
      BY AuthoringAtStart DEF Init
<1> QED BY <1>1, <1>2, <1>3, <1>4, <1>5, <1>6 DEF SiteInv

(* The state of the site is well formed throughout a visit, whatever is      *)
(* clicked, answered, refused or left (the pages around the problem page).   *)
THEOREM SiteTypeCorrect == Spec => []TypeOK
<1>1. SiteInv /\ SessionTypes /\ [Next]_vars /\ SessionTypes' => SiteInv'
  <2> SUFFICES ASSUME SiteInv, SessionTypes, SessionTypes', [Next]_vars
               PROVE  SiteInv'
      OBVIOUS
  <2>1. RestTypes' /\ ListInv' /\ LookTypes'
        BY RestStep, ListStep, LookStep DEF SiteInv
  <2>2. DetailTypeOK' /\ BrowseTypeOK' /\ AuthoringInv'
        BY DetailStep, BrowseStep, AuthoringStep DEF SiteInv
  <2> QED BY <2>1, <2>2 DEF SiteInv
<1>2. SiteInv /\ SessionTypes => TypeOK
  <2> SUFFICES ASSUME SiteInv, SessionTypes PROVE TypeOK
      OBVIOUS
  <2>1. SessionTypeOK
        BY DEF SiteInv, RestTypes, SessionTypes, SessionTypeOK, Asked
  <2>2. ListTypeOK
        BY DEF SiteInv, ListInv, ListTypes, LookTypes, ListTypeOK, ListRequest
  <2>3. AuthoringTypeOK
        BY AuthoringTypes DEF SiteInv
  <2> QED BY <2>1, <2>2, <2>3 DEF SiteInv, TypeOK
<1>3. SessionInv => SessionTypes
      BY DEF SessionInv
<1> QED BY <1>1, <1>2, <1>3, SiteInvAtStart, SessionInvHolds, PTL DEF Spec
=============================================================================
