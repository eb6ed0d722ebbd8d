-------------------------- MODULE ProblemPageProofs --------------------------
(* Theorems about the problem page as a whole: what DraftsProofs and         *)
(* RateLimitsProofs say of the editor and of the limits by themselves holds  *)
(* on the page; no offer of the editor is stale; the details shown are those *)
(* of the submission picked last; a green dot is earned.                     *)
EXTENDS ProblemPage, DraftsProofs, RateLimitsProofs, FiniteSetTheorems,
        WellFoundedInduction

(* Accepting a completion is writing, as far as the drafts are concerned.    *)
LEMMA InsertingIsTyping ==
  ASSUME NEW text \in Inserted, AcceptOffer(text) \/ InsertLastOffer(text)
  PROVE  text \in TypedText /\ Type(text)
BY DEF Inserted, TypedText, AcceptOffer, InsertLastOffer, Type

(* Every step of the page is one of the editor, or leaves the editor alone.  *)
LEMMA PageStepsEditor == [Next]_vars => [EditorNext]_draftVars
<1> SUFFICES ASSUME [Next]_vars PROVE EditorNext \/ UNCHANGED draftVars
    OBVIOUS
<1>1. CASE AuthEnds
      BY <1>1 DEF AuthEnds, UserUnknown, EditorNext
<1>2. CASE ProblemEnds
      BY <1>2 DEF ProblemEnds
<1>3. CASE Discussion
      BY <1>3 DEF Discussion
<1>4. CASE Edit
      BY <1>4 DEF Edit, EditorNext
<1>5. CASE CodeAnswered
      BY <1>5 DEF CodeAnswered, EditorNext
<1>6. CASE Autosave
      BY <1>6 DEF Autosave, EditorNext
<1>7. CASE SubmitClick
      BY <1>7 DEF SubmitClick, EditorNext
<1>8. CASE PostReaches
      BY <1>8 DEF PostReaches, EditorNext
<1>9. CASE PostFailsOnTheWay
      BY <1>9 DEF PostFailsOnTheWay, EditorNext
<1>10. CASE PostAnswerEnds
      BY <1>10 DEF PostAnswerEnds
<1>11. CASE WatchStep
      BY <1>11 DEF WatchStep
<1>12. CASE TryEdit
      BY <1>12 DEF TryEdit
<1>13. CASE RunClick
      BY <1>13 DEF RunClick
<1>14. CASE RunEnds
      BY <1>14 DEF RunEnds
<1>15. CASE HintClick
      BY <1>15 DEF HintClick
<1>16. CASE HintEnds
      BY <1>16 DEF HintEnds
<1>17. CASE CompletionUser
      BY <1>17, InsertingIsTyping DEF CompletionUser, EditorNext
<1>18. CASE CompletionStep
      BY <1>18 DEF CompletionStep
<1>19. CASE AnswerToNobody
      BY <1>19 DEF AnswerToNobody
<1>20. CASE Limiting
      BY <1>20 DEF Limiting
<1>21. CASE Reopen
      BY <1>21 DEF Reopen, EditorNext
<1>22. CASE UNCHANGED vars
      BY <1>22 DEF vars
<1> QED BY <1>1, <1>2, <1>3, <1>4, <1>5, <1>6, <1>7, <1>8, <1>9, <1>10, <1>11,
           <1>12, <1>13, <1>14, <1>15, <1>16, <1>17, <1>18, <1>19, <1>20,
           <1>21, <1>22 DEF Next

(* The page implements the editor's own specification: of everything the     *)
(* user, the answers, the watch and the limits do on the page, each step is  *)
(* one of the editor's operations (handleLanguageChange, the load and save   *)
(* effects, the click on Submit) or leaves editor and drafts alone.          *)
THEOREM PageRunsEditor == Spec => EditorSpec
<1>1. Init => ScreenInit /\ DraftsInit
      BY DEF Init
<1> QED BY <1>1, PageStepsEditor, PTL DEF Spec, EditorSpec

(* No code of one language shows, is kept as a draft or is submitted under   *)
(* another on the problem page (handleLanguageChange, the load and the save  *)
(* effects), unless an answer to /last-code crossed a change of language;    *)
(* completions that are accepted, limits that refuse and leaving the page    *)
(* included.                                                                 *)
THEOREM PageKeepsLanguages == Spec => []NoForeignCode
BY PageRunsEditor, CodeKeepsItsLanguage, PTL

(* On the problem page, once the code of the selected language has been      *)
(* loaded, whatever is in the editor is its draft or about to become it      *)
(* (the save effect).                                                        *)
THEOREM PageSaves == Spec => []AutosaveKeepsUp
BY PageRunsEditor, AutosaveIsComplete, PTL
-----------------------------------------------------------------------------
(* Every step of the page is one of the limits, or leaves them alone.        *)
LEMMA PageStepsLimits == [Next]_vars => [LimitsNext]_limitVars
<1> SUFFICES ASSUME [Next]_vars PROVE LimitsNext \/ UNCHANGED limitVars
    OBVIOUS
<1> USE RequestsAssumption
<1>1. CASE AuthEnds
      BY <1>1 DEF AuthEnds
<1>2. CASE ProblemEnds
      BY <1>2 DEF ProblemEnds
<1>3. CASE Discussion
      BY <1>3 DEF Discussion
<1>4. CASE Edit
      BY <1>4 DEF Edit
<1>5. CASE CodeAnswered
      BY <1>5 DEF CodeAnswered
<1>6. CASE Autosave
      BY <1>6 DEF Autosave
<1>7. CASE SubmitClick
      BY <1>7 DEF SubmitClick, LimitsNext
<1>8. CASE PostReaches
      BY <1>8 DEF PostReaches, LimitsNext
<1>9. CASE PostFailsOnTheWay
      BY <1>9 DEF PostFailsOnTheWay, LimitsNext
<1>10. CASE PostAnswerEnds
      BY <1>10 DEF PostAnswerEnds
<1>11. CASE WatchStep
      BY <1>11 DEF WatchStep
<1>12. CASE TryEdit
      BY <1>12 DEF TryEdit
<1>13. CASE RunClick
      BY <1>13 DEF RunClick, LimitsNext
<1>14. CASE RunEnds
      BY <1>14 DEF RunEnds, LimitsNext
<1>15. CASE HintClick
      BY <1>15 DEF HintClick, LimitsNext
<1>16. CASE HintEnds
      BY <1>16 DEF HintEnds, LimitsNext
<1>17. CASE CompletionUser
      BY <1>17 DEF CompletionUser
<1>18. CASE CompletionStep
      BY <1>18 DEF CompletionStep, LimitsNext
<1>19. CASE AnswerToNobody
      BY <1>19 DEF AnswerToNobody, LimitsNext
<1>20. CASE Limiting
      BY <1>20 DEF Limiting, LimitsNext
<1>21. CASE Reopen
      BY <1>21 DEF Reopen
<1>22. CASE UNCHANGED vars
      BY <1>22 DEF vars
<1> QED BY <1>1, <1>2, <1>3, <1>4, <1>5, <1>6, <1>7, <1>8, <1>9, <1>10, <1>11,
           <1>12, <1>13, <1>14, <1>15, <1>16, <1>17, <1>18, <1>19, <1>20,
           <1>21, <1>22 DEF Next

(* The page implements the specification of the per-user limits: submit,     *)
(* run, hint and completion reach the server through RateLimitMiddleware and *)
(* touch its counters by no other way.                                       *)
THEOREM PageRunsLimits == Spec => LimitsSpec
<1>1. Init => LimitsInit
      BY DEF Init
<1> QED BY <1>1, PageStepsLimits, PTL DEF Spec, LimitsSpec

(* A page never shows a refusal the user's own charged requests do not       *)
(* explain, and keeps the limit where they do not overlap                    *)
(* (RateLimitMiddleware in front of submit, run, hint and completion).       *)
THEOREM PageIsLimited == Spec => [](NeverRefusedEarly /\ LimitKeptAlone)
BY PageRunsLimits, RefusalIsDue, LimitIsKept, PTL
-----------------------------------------------------------------------------
(* Why no offer is stale: a call of the provider whose token is not          *)
(* cancelled was made for what is in the editor now.                         *)
CallsAreFresh ==
  \A c \in Completions :
    completion[c] # NoHelp /\ ~completion[c].cancelled
      => completion[c].basis = Here

OfferInv ==
  /\ completion \in [Completions -> Calls \cup {NoHelp}]
  /\ CallsAreFresh
  /\ OfferIsFresh

LEMMA HereIsBasis == DraftsTypeOK => Here \in Basis
BY DEF DraftsTypeOK, Here, Basis

(* What changes the text or the language cancels and hides.                  *)
LEMMA CancelledKeepsOffers ==
  ASSUME OfferInv, DraftsTypeOK', Cancelled
  PROVE  OfferInv'
<1>1. CASE language' = language /\ code' = code
      BY <1>1 DEF Cancelled, OfferInv, CallsAreFresh, OfferIsFresh, Here
<1>2. CASE ~(language' = language /\ code' = code)
  <2>1. /\ completion' = [c \in Completions |->
             IF completion[c] = NoHelp THEN NoHelp
             ELSE [completion[c] EXCEPT !.cancelled = TRUE]]
        /\ offer' = NoHelp
        BY <1>2 DEF Cancelled
  <2>2. ASSUME NEW c \in Completions
        PROVE  /\ completion'[c] \in Calls \cup {NoHelp}
               /\ completion'[c] = NoHelp \/ completion'[c].cancelled
    <3>1. CASE completion[c] = NoHelp
          BY <3>1, <2>1
    <3>2. CASE completion[c] # NoHelp
      <4>1. completion[c] \in Calls
            BY <3>2 DEF OfferInv
      <4>2. completion'[c] = [completion[c] EXCEPT !.cancelled = TRUE]
            BY <3>2, <2>1
      <4> QED BY <4>1, <4>2 DEF Calls
    <3> QED BY <3>1, <3>2
  <2> QED BY <2>1, <2>2 DEF OfferInv, CallsAreFresh, OfferIsFresh
<1> QED BY <1>1, <1>2

(* The steps of the provider itself.                                         *)
LEMMA CallKeepsOffers ==
  ASSUME OfferInv, DraftsTypeOK, UNCHANGED draftVars, NEW c \in Completions,
         \/ Complete(c) \/ GiveUp(c) \/ AskCompletion(c)
         \/ \E useful \in BOOLEAN : CompletionArrives(c, useful)
  PROVE  OfferInv'
<1> USE DEF OfferInv, CallsAreFresh, OfferIsFresh
<1>0. Here' = Here /\ Here \in Basis
      BY HereIsBasis DEF draftVars, Here
<1>1. CASE Complete(c)
  <2>1. [pc |-> "waiting", basis |-> Here, cancelled |-> FALSE] \in Calls
        BY <1>0 DEF Calls
  <2> QED BY <1>0, <1>1, <2>1 DEF Complete
<1>2. CASE GiveUp(c)
      BY <1>0, <1>2 DEF GiveUp
<1>3. CASE AskCompletion(c)
  <2>1. completion[c] \in Calls
        BY <1>3 DEF AskCompletion
  <2>2. completion' = [completion EXCEPT ![c] = [completion[c] EXCEPT !.pc = "asked"]]
        BY <1>3 DEF AskCompletion
  <2>3. /\ completion'[c] \in Calls
        /\ completion'[c].basis = completion[c].basis
        /\ completion'[c].cancelled = completion[c].cancelled
        BY <2>1, <2>2 DEF Calls
  <2> QED BY <1>0, <1>3, <2>1, <2>2, <2>3 DEF AskCompletion
<1>4. CASE \E useful \in BOOLEAN : CompletionArrives(c, useful)
      BY <1>0, <1>4 DEF CompletionArrives
<1> QED BY <1>1, <1>2, <1>3, <1>4

LEMMA OfferStep ==
  ASSUME OfferInv, DraftsTypeOK, DraftsTypeOK', [Next]_vars
  PROVE  OfferInv'
<1>0. ASSUME UNCHANGED <<draftVars, completion, offer>> PROVE OfferInv'
      BY <1>0 DEF draftVars, OfferInv, CallsAreFresh, OfferIsFresh, Here
<1>1. CASE AuthEnds
      BY <1>1, CancelledKeepsOffers DEF AuthEnds
<1>2. CASE ProblemEnds
      BY <1>2, <1>0 DEF ProblemEnds, assistVars
<1>3. CASE Discussion
      BY <1>3, <1>0 DEF Discussion, assistVars
<1>4. CASE Edit
      BY <1>4, CancelledKeepsOffers DEF Edit
<1>5. CASE CodeAnswered
      BY <1>5, CancelledKeepsOffers DEF CodeAnswered
<1>6. CASE Autosave
  <2>1. UNCHANGED <<language, code, completion, offer>>
        BY <1>6 DEF Autosave, SaveFires, assistVars
  <2> QED BY <2>1 DEF OfferInv, CallsAreFresh, OfferIsFresh, Here
<1>7. CASE SubmitClick \/ PostReaches \/ PostFailsOnTheWay
  <2>1. UNCHANGED <<language, code, completion, offer>>
        BY <1>7 DEF SubmitClick, PostCode, PostReaches, PostStored,
                    PostFailsOnTheWay, PostDropped, assistVars, draftVars
  <2> QED BY <2>1 DEF OfferInv, CallsAreFresh, OfferIsFresh, Here
<1>8. CASE PostAnswerEnds \/ WatchStep \/ TryEdit \/ RunClick \/ RunEnds
           \/ AnswerToNobody \/ Limiting
      BY <1>8, <1>0 DEF PostAnswerEnds, WatchStep, TryEdit, RunClick, RunEnds,
                        AnswerToNobody, Limiting, assistVars
<1>9. CASE HintClick \/ HintEnds
      BY <1>9, <1>0 DEF HintClick, HintEnds, offerVars
<1>10. CASE CompletionUser
  <2>1. CASE \E c \in Completions : Complete(c) /\ UNCHANGED draftVars
        BY <2>1, CallKeepsOffers
  <2>2. CASE HideOffer /\ UNCHANGED draftVars
        BY <2>2 DEF HideOffer, draftVars, OfferInv, CallsAreFresh,
                    OfferIsFresh, Here
  <2>3. CASE Cancelled
        BY <2>3, CancelledKeepsOffers
  <2> QED BY <1>10, <2>1, <2>2, <2>3 DEF CompletionUser
<1>11. CASE CompletionStep
      BY <1>11, CallKeepsOffers DEF CompletionStep
<1>12. CASE Reopen
      BY <1>12 DEF Reopen, AssistReopens, OfferInv, CallsAreFresh, OfferIsFresh
<1>13. CASE UNCHANGED vars
      BY <1>13, <1>0 DEF vars, assistVars
<1> QED BY <1>1, <1>2, <1>3, <1>4, <1>5, <1>6, <1>7, <1>8, <1>9, <1>10, <1>11,
           <1>12, <1>13 DEF Next

(* What the editor offers was asked for the text and the language in it now  *)
(* (the two tests of the token in provideInlineCompletions).                 *)
THEOREM OffersAreFresh == Spec => []OfferIsFresh
<1>1. Init => OfferInv
      BY DEF Init, AssistInit, OfferInv, CallsAreFresh, OfferIsFresh
<1>2. OfferInv => OfferIsFresh
      BY DEF OfferInv
<1>3. Spec => []DraftsTypeOK
      BY PageRunsEditor, DraftsTypeCorrect, PTL
<1> QED BY <1>1, <1>2, <1>3, OfferStep, PTL DEF Spec
-----------------------------------------------------------------------------
(* Every submission the page knows of has a row on the server, so that what  *)
(* is asked about it is one of Asks.                                         *)
Exists(s) == s \in Subs /\ verdict[s] \in Statuses

KnownExist ==
  /\ verdict \in [Subs -> {"none"} \cup Statuses]
  /\ asks \in [Asks -> Nat]
  /\ \A s \in list : Exists(s)
  /\ selected # NoSub => Exists(selected.id)
  /\ submitPc \in {"answered", "listing"} => Exists(newSub)
  /\ wanted \in Subs \cup {NoSub}
  /\ \A a \in InFlight : Exists(a.id)

Matches == IF selected = NoSub THEN wanted = NoSub ELSE selected.id = wanted

(* Why the view follows the pick: as long as no requests have overlapped,    *)
(* all that are on their way are about the submission that is wanted, and    *)
(* only one for a selection can still change the view.                       *)
OneInterest ==
  \/ overlap
  \/ pageError
  \/ /\ \A a \in InFlight : a.id = wanted
     /\ (\A a \in InFlight : a.kind = "poll") => Matches

ViewInv == KnownExist /\ OneInterest

(* A request for details joins those in flight; an answer leaves.            *)
LEMMA AskJoins ==
  ASSUME KnownExist, NEW kind \in {"select", "poll"}, NEW s \in Subs, Exists(s),
         AskDetails(kind, s)
  PROVE  /\ asks' \in [Asks -> Nat]
         /\ InFlight \subseteq InFlight'
         /\ \A a \in InFlight' : a \in InFlight \/ (a.id = s /\ a.kind = kind)
         /\ \E a \in InFlight' : a.kind = kind
<1> DEFINE new == [kind |-> kind, id |-> s, asked |-> verdict[s]]
<1>1. new \in Asks /\ new.id = s /\ new.kind = kind
      BY DEF Exists, Asks
<1>2. asks' = [asks EXCEPT ![new] = asks[new] + 1]
      BY DEF AskDetails
<1> HIDE DEF new
<1> QED BY <1>1, <1>2 DEF KnownExist, InFlight

LEMMA AnswerLeaves ==
  ASSUME KnownExist, NEW a \in InFlight, asks' = [asks EXCEPT ![a] = @ - 1]
  PROVE  /\ asks' \in [Asks -> Nat]
         /\ InFlight' \subseteq InFlight
         /\ \A b \in InFlight : b # a => b \in InFlight'
BY DEF KnownExist, InFlight

LEMMA ViewUntouched ==
  ASSUME ViewInv, pageError => pageError', UNCHANGED watchVars
  PROVE  ViewInv'
BY DEF ViewInv, KnownExist, OneInterest, Matches, watchVars, InFlight, Exists

(* The steps of the submissions tab.                                         *)
LEMMA PickKeepsView ==
  ASSUME ViewInv, WatchUser
  PROVE  ViewInv'
<1> USE WatchAssumption, VerdictsAssumption
    DEF ViewInv, KnownExist, Exists, OneInterest, Matches
<1>1. CASE \E t \in {"description", "submissions"} : OpenTab(t)
      BY <1>1 DEF OpenTab, InFlight
<1>2. ASSUME NEW s \in Subs, PickSubmission(s)
      PROVE  ViewInv'
  <2>1. Exists(s)
        BY <1>2 DEF PickSubmission
  <2>2. /\ asks' \in [Asks -> Nat]
        /\ InFlight \subseteq InFlight'
        /\ \A a \in InFlight' : a \in InFlight \/ a.id = s
        /\ \E a \in InFlight' : a.kind = "select"
        BY <1>2, <2>1, AskJoins DEF PickSubmission
  <2>3. /\ UNCHANGED <<verdict, list, selected, submitPc, newSub, pageError>>
        /\ wanted' = s
        /\ overlap' = (overlap \/ \E a \in InFlight : a.id # wanted')
        BY <1>2 DEF PickSubmission, NoteOverlap
  <2>4. KnownExist'
        BY <2>1, <2>2, <2>3
  <2>5. OneInterest'
        BY <2>2, <2>3
  <2> QED BY <2>4, <2>5
<1>3. CASE BackToList
  <2>1. InFlight' = InFlight /\ \A a \in InFlight : a.id \in Subs
        BY <1>3 DEF BackToList, InFlight
  <2> QED BY <1>3, <2>1 DEF BackToList, NoteOverlap
<1> QED BY <1>1, <1>2, <1>3 DEF WatchUser

LEMMA AnswerKeepsView ==
  ASSUME ViewInv, WatchAnswer
  PROVE  ViewInv'
<1> USE WatchAssumption, VerdictsAssumption
    DEF ViewInv, KnownExist, Exists, OneInterest, Matches
<1>1. ASSUME NEW outcome \in FetchOutcomes, ListArrives(outcome)
      PROVE  ViewInv'
      BY <1>1 DEF ListArrives, ListEnds, Rows, InFlight
<1>2. ASSUME NEW outcome \in FetchOutcomes, SubmitEnds(outcome)
      PROVE  ViewInv'
  <2>1. Exists(newSub) /\ AskDetails("select", newSub)
        BY <1>2 DEF SubmitEnds
  <2>2. /\ asks' \in [Asks -> Nat]
        /\ InFlight \subseteq InFlight'
        /\ \A a \in InFlight' : a \in InFlight \/ a.id = newSub
        /\ \E a \in InFlight' : a.kind = "select"
        BY <2>1, AskJoins
  <2>3. /\ UNCHANGED <<verdict, selected>>
        /\ list' \in {Rows, list}
        /\ submitPc' = "idle"
        /\ pageError => pageError'
        /\ wanted' = newSub
        /\ overlap' = (overlap \/ \E a \in InFlight : a.id # wanted')
        BY <1>2 DEF SubmitEnds, ListEnds, NoteOverlap
  <2>4. KnownExist'
        BY <2>1, <2>2, <2>3 DEF Rows
  <2>5. OneInterest'
        BY <2>2, <2>3
  <2> QED BY <2>4, <2>5
<1>3. ASSUME NEW a \in InFlight, NEW status \in Statuses,
             DetailsArrive(a, status)
      PROVE  ViewInv'
  <2>1. /\ asks' \in [Asks -> Nat] /\ InFlight' \subseteq InFlight
        BY <1>3, AnswerLeaves DEF DetailsArrive
  <2>2. selected' = [id |-> a.id, status |-> status] /\ Exists(a.id)
        BY <1>3 DEF DetailsArrive, Show
  <2>3. UNCHANGED <<verdict, list, submitPc, newSub, wanted, overlap, pageError>>
        BY <1>3 DEF DetailsArrive, screenVars
  <2>4. Exists(selected'.id) /\ selected'.id = a.id
        BY <2>2
  <2>5. KnownExist'
        BY <2>1, <2>3, <2>4
  <2>6. CASE overlap \/ pageError
        BY <2>3, <2>5, <2>6
  <2>7. CASE ~overlap /\ ~pageError
    <3>1. a.id = wanted
          BY <2>7
    <3>2. selected' # NoSub
          BY <2>2, VerdictsAssumption
    <3>3. Matches'
          BY <3>1, <3>2, <2>4, <2>3
    <3> QED BY <2>1, <2>3, <2>5, <2>7, <3>3
  <2> QED BY <2>6, <2>7
<1>4. ASSUME NEW a \in InFlight, DetailsFail(a)
      PROVE  ViewInv'
  <2>1. /\ asks' \in [Asks -> Nat] /\ InFlight' \subseteq InFlight
        /\ \A b \in InFlight : b # a => b \in InFlight'
        BY <1>4, AnswerLeaves DEF DetailsFail
  <2>2. a.kind = "poll" \/ pageError'
        BY <1>4 DEF DetailsFail, InFlight, Asks
  <2>3. /\ pageError => pageError'
        /\ UNCHANGED <<verdict, list, selected, submitPc, newSub, wanted, overlap>>
        BY <1>4 DEF DetailsFail
  <2> QED BY <2>1, <2>2, <2>3
<1> QED BY <1>1, <1>2, <1>3, <1>4 DEF WatchAnswer

LEMMA PollKeepsView ==
  ASSUME ViewInv, PollTick
  PROVE  ViewInv'
<1> USE WatchAssumption, VerdictsAssumption
    DEF ViewInv, KnownExist, Exists, OneInterest, Matches
<1>1. Exists(selected.id) /\ AskDetails("poll", selected.id)
      BY DEF PollTick
<1>2. /\ asks' \in [Asks -> Nat]
      /\ InFlight \subseteq InFlight'
      /\ \A a \in InFlight' : a \in InFlight \/ a.id = selected.id
      BY <1>1, AskJoins
<1>3. /\ UNCHANGED <<verdict, list, selected, submitPc, newSub, wanted, pageError>>
      /\ overlap' = (overlap \/ selected.id # wanted)
      BY DEF PollTick, screenVars
<1>4. KnownExist'
      BY <1>1, <1>2, <1>3
<1>5. OneInterest'
      BY <1>1, <1>2, <1>3
<1> QED BY <1>4, <1>5

LEMMA ServerKeepsView ==
  ASSUME ViewInv, NEW s \in Subs, RowInserted(s) \/ Judge(s)
  PROVE  ViewInv'
BY WatchAssumption, VerdictsAssumption
   DEF ViewInv, KnownExist, Exists, OneInterest, Matches, RowInserted, Judge,
       InFlight, Statuses, screenVars

LEMMA SubmitKeepsView ==
  ASSUME ViewInv, Submit \/ SubmitBlank \/ PostAnswered \/ PostFails
  PROVE  ViewInv'
BY DEF ViewInv, KnownExist, Exists, OneInterest, Matches, InFlight, Submit,
       SubmitBlank, PostAnswered, PostFails, watchVars

LEMMA ReopenKeepsView ==
  ASSUME ViewInv, WatchReopens
  PROVE  ViewInv'
<1>1. InFlight' = {}
      BY DEF WatchReopens, InFlight
<1> QED BY <1>1 DEF WatchReopens, ViewInv, KnownExist, Exists, OneInterest, Matches

LEMMA ViewStep ==
  ASSUME ViewInv, [Next]_vars
  PROVE  ViewInv'
<1>0. ASSUME UNCHANGED <<watchVars, pageError>> PROVE ViewInv'
      BY <1>0, ViewUntouched
<1>1. CASE AuthEnds
      BY <1>1, <1>0 DEF AuthEnds, UserKnown, UserUnknown, AuthAnswered
<1>2. CASE ProblemEnds
  <2>1. UNCHANGED watchVars /\ (pageError => pageError')
        BY <1>2 DEF ProblemEnds, SamplesArrive, ProblemArrives, ProblemFails,
                    StatsSettle
  <2> QED BY <2>1, ViewUntouched
<1>3. CASE Discussion
  <2>1. UNCHANGED watchVars
        BY <1>3 DEF Discussion
  <2>2. CASE OpenDiscussion
        BY <1>0, <2>1, <2>2 DEF OpenDiscussion
  <2>3. ASSUME NEW outcome \in FetchOutcomes, ThreadsEnd(outcome)
        PROVE  pageError => pageError'
        BY <2>3 DEF ThreadsEnd
  <2> QED BY <1>3, <2>1, <2>2, <2>3, ViewUntouched DEF Discussion
<1>4. CASE Edit \/ TryEdit \/ HintClick \/ CompletionUser
      BY <1>4, <1>0 DEF Edit, TryEdit, HintClick, CompletionUser, restOfScreen
<1>5. CASE CodeAnswered \/ Autosave
      BY <1>5, <1>0 DEF CodeAnswered, CodeArrives, Autosave, SaveFires,
                        screenVars
<1>6. CASE SubmitClick
      BY <1>6, SubmitKeepsView DEF SubmitClick
<1>7. CASE PostReaches
      BY <1>7, ServerKeepsView DEF PostReaches
<1>8. CASE PostFailsOnTheWay
      BY <1>8, <1>0, SubmitKeepsView DEF PostFailsOnTheWay, screenVars
<1>9. CASE PostAnswerEnds
      BY <1>9, SubmitKeepsView DEF PostAnswerEnds
<1>10. CASE WatchStep
      BY <1>10, PickKeepsView, AnswerKeepsView, PollKeepsView, ServerKeepsView
         DEF WatchStep
<1>11. CASE RunClick
      BY <1>11, <1>0 DEF RunClick, Run, RunBlank
<1>12. CASE RunEnds
      BY <1>12, <1>0 DEF RunEnds, RunFails, screenVars
<1>13. CASE HintEnds \/ CompletionStep \/ AnswerToNobody
      BY <1>13, <1>0 DEF HintEnds, CompletionStep, AnswerToNobody, screenVars
<1>14. CASE Limiting
      BY <1>14, <1>0 DEF Limiting, screenVars, restOfScreen
<1>15. CASE Reopen
      BY <1>15, ReopenKeepsView DEF Reopen
<1>16. CASE UNCHANGED vars
      BY <1>16, <1>0 DEF vars, screenVars
<1> QED BY <1>1, <1>2, <1>3, <1>4, <1>5, <1>6, <1>7, <1>8, <1>9, <1>10, <1>11,
           <1>12, <1>13, <1>14, <1>15, <1>16 DEF Next

(* The details shown are those of the submission picked last                 *)
(* (handleSelectSubmission, onBack and the polling effect), for any number   *)
(* of submissions and of requests on their way.                              *)
THEOREM ViewIsThePick == Spec => []ViewFollowsPick
<1>1. Init => ViewInv
  <2> SUFFICES ASSUME Init PROVE ViewInv
      OBVIOUS
  <2>1. InFlight = {}
        BY DEF Init, WatchInit, InFlight
  <2> QED BY <2>1, VerdictsAssumption
          DEF Init, WatchInit, ViewInv, KnownExist, Exists, OneInterest, Matches
<1>2. ViewInv => ViewFollowsPick
      BY DEF ViewInv, OneInterest, Matches, ViewFollowsPick
<1> QED BY <1>1, <1>2, ViewStep, PTL DEF Spec
-----------------------------------------------------------------------------
(* Which inputs are sent (the filter of handleRunCode).                      *)
LEMMA LeastPlace ==
  ASSUME NEW S \in SUBSET Nat, S # {}
  PROVE  \E n \in S : \A m \in S : n <= m
<1>1. PICK n \in S : \A m \in S : ~(<<m, n>> \in OpToRel(<, Nat))
      BY NatLessThanWellFounded, WFMin
<1>2. \A m \in S : ~(m < n)
      BY <1>1 DEF OpToRel
<1> QED BY <1>2

LEMMA CasesWithInput ==
  ASSUME NEW cs \in Seq(Case)
  PROVE  /\ HasInput(cs) \subseteq 1..Len(cs)
         /\ IsFiniteSet(HasInput(cs))
         /\ Cardinality(HasInput(cs)) \in 0..Len(cs)
<1>1. HasInput(cs) \subseteq 1..Len(cs) /\ Len(cs) \in Nat
      BY DEF HasInput
<1>2. IsFiniteSet(1..Len(cs)) /\ Cardinality(1..Len(cs)) = Len(cs)
  <2>1. Len(cs) \in Nat
        OBVIOUS
  <2> HIDE DEF HasInput
  <2> QED BY <2>1, FS_Interval
<1>3. IsFiniteSet(HasInput(cs)) /\ Cardinality(HasInput(cs)) <= Len(cs)
      BY <1>1, <1>2, FS_Subset
<1> QED BY <1>1, <1>3, FS_CardinalityType

(* The k-th case that has an input is found.                                 *)
LEMMA PlaceIsFound ==
  ASSUME NEW cs \in Seq(Case), NEW k \in 1..Cardinality(HasInput(cs))
  PROVE  /\ Place(cs, k) \in HasInput(cs)
         /\ Cardinality({j \in HasInput(cs) : j <= Place(cs, k)}) = k
<1> DEFINE H == HasInput(cs)
           n == Len(cs)
           upTo(i) == {j \in H : j <= i}
           enough == {i \in 1..n : Cardinality(upTo(i)) >= k}
<1>1. /\ H \subseteq 1..n /\ IsFiniteSet(H) /\ Cardinality(H) \in 0..n
      /\ n \in Nat /\ k \in Nat /\ k >= 1 /\ k <= Cardinality(H)
      BY CasesWithInput
<1>a. \A j \in H : j \in Nat /\ 1 <= j /\ j <= n
      BY <1>1
<1> HIDE DEF H, n
<1>2. ASSUME NEW i PROVE IsFiniteSet(upTo(i)) /\ Cardinality(upTo(i)) \in Nat
      BY <1>1, FS_Subset, FS_CardinalityType
<1>3. n \in enough
  <2>1. upTo(n) = H
        BY <1>1, <1>a
  <2>2. n \in 1..n
        BY <1>1
  <2> QED BY <1>1, <2>1, <2>2
<1>4. PICK i \in enough : \A m \in enough : i <= m
  <2>1. \A m \in enough : m \in Nat
        BY <1>1
  <2>2. enough # {}
        BY <1>3
  <2> HIDE DEF enough
  <2> QED BY <2>1, <2>2, LeastPlace
<1>5. i \in 1..n /\ i - 1 \in Nat /\ Cardinality(upTo(i)) >= k
      BY <1>1
<1>6. Cardinality(upTo(i - 1)) < k
  <2>1. CASE i = 1
    <3>1. upTo(i - 1) = {}
          BY <1>a, <2>1
    <3>2. Cardinality(upTo(i - 1)) = 0
          BY <3>1, FS_EmptySet
    <3> HIDE DEF upTo
    <3> QED BY <1>1, <3>2
  <2>2. CASE i # 1
    <3>1. i - 1 \in 1..n
          BY <1>1, <1>5, <2>2
    <3>2. i - 1 \notin enough
          BY <1>4, <1>5
    <3>3. ~(Cardinality(upTo(i - 1)) >= k)
      <4> HIDE DEF upTo
      <4> QED BY <3>1, <3>2
    <3> HIDE DEF upTo
    <3> QED BY <1>1, <1>2, <3>3
  <2> QED BY <2>1, <2>2
<1>7. i \in H
  <2> SUFFICES ASSUME i \notin H PROVE FALSE
      OBVIOUS
  <2>1. \A j \in H : j <= i <=> j <= i - 1
        BY <1>a, <1>5
  <2>2. upTo(i) = upTo(i - 1)
        BY <2>1
  <2> HIDE DEF upTo
  <2> QED BY <1>1, <1>2, <1>5, <1>6, <2>2
<1>8. Cardinality(upTo(i)) = k
  <2>a. \A j \in H : j <= i <=> j <= i - 1 \/ j = i
        BY <1>a, <1>5
  <2>1. upTo(i) = upTo(i - 1) \cup {i}
        BY <2>a, <1>7
  <2>2. i \notin upTo(i - 1)
        BY <1>5
  <2> HIDE DEF upTo
  <2>3. Cardinality(upTo(i)) = Cardinality(upTo(i - 1)) + 1
        BY <1>2, <2>1, <2>2, FS_AddElement
  <2> QED BY <1>1, <1>2, <1>5, <1>6, <2>3
<1> QED BY <1>7, <1>8 DEF Place, H

(* As long as no case is without input, each stays at its place.             *)
LEMMA PlaceStays ==
  ASSUME NEW cs \in Seq(Case), NEW i \in 1..Cardinality(HasInput(cs)),
         1..i \subseteq HasInput(cs)
  PROVE  Place(cs, i) = i
<1> DEFINE H == HasInput(cs)
           p == Place(cs, i)
           before == {j \in H : j <= p}
<1>1. /\ H \subseteq 1..Len(cs) /\ IsFiniteSet(H) /\ i \in Nat /\ 1..i \subseteq H
      /\ Len(cs) \in Nat
      BY CasesWithInput
<1>2. p \in H /\ Cardinality(before) = i
      BY PlaceIsFound
<1> HIDE DEF H, p
<1>a. \A j \in H : j \in Nat /\ 1 <= j
      BY <1>1
<1>3. p \in Nat /\ IsFiniteSet(before)
      BY <1>1, <1>a, <1>2, FS_Subset
<1>4. \A m \in Nat : IsFiniteSet(1..m) /\ Cardinality(1..m) = m
      BY FS_Interval
<1>5. ~(p < i)
  <2> SUFFICES ASSUME p < i PROVE FALSE
      OBVIOUS
  <2>1. ASSUME NEW j \in before PROVE j \in 1..p
        BY <1>a, <1>3
  <2>2. Cardinality(before) <= p
        BY <1>3, <1>4, <2>1, FS_Subset
  <2> QED BY <1>1, <1>2, <1>3, <2>2
<1>6. ~(p > i)
  <2> SUFFICES ASSUME p > i PROVE FALSE
      OBVIOUS
  <2>1. (1..i) \cup {p} \subseteq before
        BY <1>1, <1>2, <1>3
  <2>2. p \notin 1..i
        BY <1>1, <1>3
  <2>3. Cardinality((1..i) \cup {p}) = i + 1
        BY <1>1, <1>4, <2>2, FS_AddElement
  <2>4. Cardinality((1..i) \cup {p}) <= Cardinality(before)
        BY <1>3, <2>1, FS_Subset
  <2> QED BY <1>1, <1>2, <2>3, <2>4
<1>7. p = i
      BY <1>1, <1>3, <1>5, <1>6
<1> QED BY <1>7 DEF p

LEMMA SentInputs ==
  ASSUME NEW cs \in Seq(Case), cs # <<>>
  PROVE  /\ InputsOf(cs) \in Seq(Inputs \cup {Empty})
         /\ Len(InputsOf(cs)) <= Len(cs)
         /\ \A i \in 1..Len(InputsOf(cs)) :
              1..i \subseteq HasInput(cs) => InputsOf(cs)[i] = cs[i].input
<1>1. /\ HasInput(cs) \subseteq 1..Len(cs) /\ Len(cs) \in Nat /\ Len(cs) >= 1
      /\ Cardinality(HasInput(cs)) \in 0..Len(cs)
      BY CasesWithInput
<1>2. CASE HasInput(cs) = {}
  <2>1. InputsOf(cs) = <<Empty>>
        BY <1>2 DEF InputsOf
  <2>2. InputsOf(cs) \in Seq(Inputs \cup {Empty}) /\ Len(InputsOf(cs)) = 1
        BY <2>1
  <2>3. \A i \in 1..1 : ~(1..i \subseteq HasInput(cs))
        BY <1>2
  <2> QED BY <1>1, <2>2, <2>3
<1>3. CASE HasInput(cs) # {}
  <2> DEFINE n == Cardinality(HasInput(cs))
             in(k) == cs[Place(cs, k)].input
  <2>1. InputsOf(cs) = [k \in 1..n |-> in(k)]
        BY <1>3 DEF InputsOf
  <2>2. ASSUME NEW k \in 1..n PROVE in(k) \in Inputs \cup {Empty}
    <3>1. Place(cs, k) \in 1..Len(cs)
          BY <1>1, PlaceIsFound
    <3>2. cs[Place(cs, k)] \in Case
          BY <3>1
    <3> QED BY <3>2 DEF Case
  <2>3. ASSUME NEW i \in 1..n, 1..i \subseteq HasInput(cs) PROVE in(i) = cs[i].input
        BY <2>3, PlaceStays
  <2>4. n \in Nat /\ n <= Len(cs)
        BY <1>1
  <2> HIDE DEF n, in
  <2>5. InputsOf(cs) \in Seq(Inputs \cup {Empty}) /\ Len(InputsOf(cs)) = n
        BY <2>1, <2>2, <2>4
  <2> QED BY <2>1, <2>3, <2>4, <2>5 DEF in
<1> QED BY <1>2, <1>3

(* A control needs the page, and the page needs its problem.                 *)
LEMMA ClicksAreLate ==
  ASSUME ScreenTypeOK, NEW p, Click(p)
  PROVE  fetching = "done" /\ clicks' \in [Panels -> Nat]
<1>1. fetching = "done"
      BY DEF Click, Screen
<1>2. clicks \in [Panels -> Nat]
      BY DEF ScreenTypeOK
<1>3. clicks[p] > 0 /\ clicks' = [clicks EXCEPT ![p] = clicks[p] - 1]
      BY DEF Click
<1>4. p \in Panels => clicks[p] - 1 \in Nat
      BY <1>2, <1>3
<1> QED BY <1>1, <1>2, <1>3, <1>4

(* Why a green dot is earned: a run takes along the cases it was started     *)
(* with, there is one at least, and the results that have come back agree    *)
(* with them up to the first that was left out.                              *)
GreenResults ==
  \A i \in DOMAIN results :
    Output[results[i].ran] = results[i].case.expected => Earned(i)

TryInv ==
  /\ TryTypeOK
  /\ fetching = "problem" => cases = <<BlankCase>> /\ activeCase = 1
  /\ running # NoRun => running # <<>>
  /\ GreenResults

LEMMA BlankIsACase == BlankCase \in Case /\ <<BlankCase>> \in Seq(Case)
BY DEF BlankCase, Case

LEMMA TryInvAtStart == ScreenInit /\ TryInit => TryInv
<1> SUFFICES ASSUME TryInit PROVE TryInv
    OBVIOUS
<1>1. Len(Samples) \in Nat /\ 1 <= MaxCases + Len(Samples)
      BY TryOutAssumption
<1> QED BY <1>1, BlankIsACase DEF TryInit, TryInv, TryTypeOK, GreenResults

(* The answer to a run.                                                      *)
LEMMA AnswerIsEarned ==
  ASSUME TryInv, RunArrives
  PROVE  /\ results' \in Seq([ran : Inputs \cup {Empty}, case : Case \cup {NoCase}])
         /\ GreenResults'
<1> DEFINE cs == running
           sent == InputsOf(cs)
<1>1. cs \in Seq(Case) /\ cs # <<>>
      BY DEF TryInv, TryTypeOK, RunArrives
<1>2. /\ sent \in Seq(Inputs \cup {Empty})
      /\ Len(sent) <= Len(cs)
      /\ \A i \in 1..Len(sent) : 1..i \subseteq HasInput(cs) => sent[i] = cs[i].input
      BY <1>1, SentInputs
<1>3. results' = [i \in DOMAIN sent |->
                    [ran |-> sent[i], case |-> IF i \in DOMAIN cs THEN cs[i] ELSE NoCase]]
      BY DEF RunArrives, Paired
<1> HIDE DEF cs, sent
<1>4. /\ Len(sent) \in Nat /\ DOMAIN sent = 1..Len(sent)
      /\ Len(cs) \in Nat /\ DOMAIN cs = 1..Len(cs)
      BY <1>1, <1>2
<1>5. ASSUME NEW i \in DOMAIN sent
      PROVE  /\ i \in DOMAIN cs /\ cs[i] \in Case /\ sent[i] \in Inputs \cup {Empty}
             /\ results'[i] = [ran |-> sent[i], case |-> cs[i]]
             /\ results'[i].ran = sent[i] /\ results'[i].case = cs[i]
      BY <1>1, <1>2, <1>3, <1>4
<1>6. results' \in Seq([ran : Inputs \cup {Empty}, case : Case \cup {NoCase}])
  <2> DEFINE row(i) == [ran |-> sent[i], case |-> cs[i]]
  <2>1. results' = [i \in 1..Len(sent) |-> row(i)]
        BY <1>3, <1>4, <1>5
  <2>2. \A i \in 1..Len(sent) : row(i) \in [ran : Inputs \cup {Empty}, case : Case \cup {NoCase}]
        BY <1>4, <1>5
  <2> HIDE DEF row
  <2> QED BY <1>4, <2>1, <2>2
<1>7. DOMAIN results' = DOMAIN sent
      BY <1>3
<1>8. ASSUME NEW i \in DOMAIN sent, Output[results'[i].ran] = results'[i].case.expected
      PROVE  Earned(i)'
  <2>1. CASE \E j \in 1..i : cs[j].input = Empty
    <3>1. PICK j \in 1..i : cs[j].input = Empty
          BY <2>1
    <3>2. j \in DOMAIN sent
          BY <1>4
    <3>3. results'[j].case.input = Empty
          BY <1>5, <3>1, <3>2
    <3> QED BY <3>3 DEF Earned
  <2>2. CASE ~\E j \in 1..i : cs[j].input = Empty
    <3>1. 1..i \subseteq HasInput(cs)
      <4> SUFFICES ASSUME NEW j \in 1..i PROVE j \in HasInput(cs)
          OBVIOUS
      <4>1. j \in DOMAIN cs
            BY <1>2, <1>4
      <4> QED BY <2>2, <4>1 DEF HasInput
    <3>2. sent[i] = cs[i].input
          BY <1>2, <1>4, <3>1
    <3>3. results'[i].ran = results'[i].case.input
          BY <1>5, <3>2
    <3> QED BY <1>8, <3>3 DEF Earned
  <2> QED BY <2>1, <2>2
<1> QED BY <1>6, <1>7, <1>8 DEF GreenResults

(* The test cases as the page takes their steps.                             *)
CasesEdited ==
  \/ \E in \in Inputs \cup {Empty} : EditInput(in)
  \/ \E out \in Outputs : EditExpected(out)
  \/ \E i \in DOMAIN cases : SelectCase(i)
  \/ AddCase
  \/ Click("judge") /\ \E case \in Case : AddFailedCase(case)

TryNext ==
  \/ SamplesArrive
  \/ CasesEdited /\ UNCHANGED fetching
  \/ Run \/ RunBlank
  \/ RunArrives /\ UNCHANGED screenVars
  \/ RunFails
  \/ TryReopens
  \/ UNCHANGED tryVars /\ (fetching' = "problem" => fetching = "problem")

LEMMA EditsKeepCases ==
  ASSUME TryInv, CasesEdited
  PROVE  /\ cases' \in Seq(Case) /\ Len(cases') <= MaxCases + Len(Samples)
         /\ activeCase' \in 1..Len(cases')
         /\ UNCHANGED <<running, results>>
<1> USE DEF TryInv, TryTypeOK
<1>1. /\ Len(cases) \in Nat /\ Len(cases) >= 1 /\ activeCase \in Nat
      /\ Len(Samples) \in Nat /\ MaxCases \in Nat /\ DOMAIN cases = 1..Len(cases)
      BY TryOutAssumption
<1>2. cases[activeCase] \in Case
      BY <1>1
<1>3. ASSUME NEW case \in Case, cases' = [cases EXCEPT ![activeCase] = case]
      PROVE  cases' \in Seq(Case) /\ Len(cases') = Len(cases)
      BY <1>1, <1>3
<1>4. ASSUME NEW in \in Inputs \cup {Empty}, EditInput(in)
      PROVE  cases' \in Seq(Case) /\ Len(cases') = Len(cases)
  <2>1. cases' = [cases EXCEPT ![activeCase] = [cases[activeCase] EXCEPT !.input = in]]
        BY <1>4 DEF EditInput
  <2>2. [cases[activeCase] EXCEPT !.input = in] \in Case
        BY <1>2 DEF Case
  <2> QED BY <1>3, <2>1, <2>2
<1>5. ASSUME NEW out \in Outputs, EditExpected(out)
      PROVE  cases' \in Seq(Case) /\ Len(cases') = Len(cases)
  <2>1. cases' = [cases EXCEPT ![activeCase] = [cases[activeCase] EXCEPT !.expected = out]]
        BY <1>5 DEF EditExpected
  <2>2. [cases[activeCase] EXCEPT !.expected = out] \in Case
        BY <1>2 DEF Case
  <2> QED BY <1>3, <2>1, <2>2
<1>6. CASE \/ \E in \in Inputs \cup {Empty} : EditInput(in)
           \/ \E out \in Outputs : EditExpected(out)
  <2>1. UNCHANGED <<activeCase, running, results>>
        BY <1>6 DEF EditInput, EditExpected
  <2> QED BY <1>1, <1>4, <1>5, <1>6, <2>1
<1>7. CASE \E i \in DOMAIN cases : SelectCase(i)
      BY <1>1, <1>7 DEF SelectCase
<1>8. CASE AddCase
      BY <1>1, <1>8, BlankIsACase DEF AddCase
<1>9. CASE Click("judge") /\ \E case \in Case : AddFailedCase(case)
      BY <1>1, <1>9 DEF AddFailedCase
<1> QED BY <1>6, <1>7, <1>8, <1>9 DEF CasesEdited

LEMMA EditsAreClicks ==
  ASSUME CasesEdited
  PROVE  \E p : Click(p)
BY DEF CasesEdited, EditInput, EditExpected, SelectCase, AddCase

LEMMA TryStep ==
  ASSUME ScreenTypeOK, TryInv, TryNext
  PROVE  TryInv'
<1> USE DEF TryInv
<1>1. ASSUME UNCHANGED results PROVE GreenResults'
      BY <1>1 DEF GreenResults, Earned
<1>2. CASE SamplesArrive
  <2>1. /\ fetching = "problem" /\ fetching' = "stats"
        /\ UNCHANGED <<activeCase, running, results>>
        /\ cases' = IF Samples = <<>> THEN cases ELSE Samples
        BY <1>2 DEF SamplesArrive, ProblemArrives
  <2>2. Len(Samples) \in Nat /\ MaxCases \in Nat /\ (Samples # <<>> => Len(Samples) >= 1)
        BY TryOutAssumption
  <2> QED BY <1>1, <2>1, <2>2, TryOutAssumption DEF TryTypeOK
<1>3. CASE CasesEdited /\ UNCHANGED fetching
  <2>1. fetching' # "problem"
        BY <1>3, EditsAreClicks, ClicksAreLate
  <2> QED BY <1>1, <1>3, <2>1, EditsKeepCases DEF TryTypeOK
<1>4. CASE Run
  <2>1. /\ results' = <<>> /\ running' = cases
        /\ UNCHANGED <<cases, activeCase, fetching>>
        BY <1>4 DEF Run
  <2>2. cases # <<>>
        BY DEF TryTypeOK
  <2> QED BY <2>1, <2>2 DEF TryTypeOK, GreenResults
<1>5. CASE RunBlank
      BY <1>1, <1>5 DEF RunBlank, tryVars, TryTypeOK
<1>6. CASE RunArrives /\ UNCHANGED screenVars
      BY <1>6, AnswerIsEarned DEF RunArrives, TryTypeOK, screenVars
<1>7. CASE RunFails
      BY <1>1, <1>7 DEF RunFails, TryTypeOK
<1>8. CASE TryReopens
  <2>1. Len(Samples) \in Nat /\ 1 <= MaxCases + Len(Samples)
        BY TryOutAssumption
  <2> QED BY <1>8, <2>1, BlankIsACase DEF TryReopens, TryTypeOK, GreenResults
<1>9. CASE UNCHANGED tryVars /\ (fetching' = "problem" => fetching = "problem")
      BY <1>1, <1>9 DEF tryVars, TryTypeOK
<1> QED BY <1>2, <1>3, <1>4, <1>5, <1>6, <1>7, <1>8, <1>9 DEF TryNext

LEMMA GreenDots == TryInv => GreenIsEarned
<1> SUFFICES ASSUME TryInv PROVE GreenIsEarned
    OBVIOUS
<1>1. ASSUME NEW i, Dot(i) = "green" PROVE Earned(i)
  <2>1. i \in DOMAIN results /\ Output[results[i].ran] = results[i].case.expected
        BY <1>1 DEF Dot
  <2> QED BY <2>1 DEF TryInv, GreenResults
<1>2. ASSUME OutputPane = "Accepted" PROVE Dot(activeCase) = "green"
      BY <1>2 DEF OutputPane
<1> QED BY <1>1, <1>2 DEF GreenIsEarned
-----------------------------------------------------------------------------
(* Every step of the page is one of the test cases', or leaves them alone    *)
(* and does not begin to load the problem.                                   *)
LEMMA PageStepsTry == [Next]_vars => TryNext
<1> SUFFICES ASSUME [Next]_vars PROVE TryNext
    OBVIOUS
<1>0. ASSUME UNCHANGED tryVars, UNCHANGED fetching PROVE TryNext
      BY <1>0 DEF TryNext
<1>1. CASE AuthEnds
      BY <1>0, <1>1 DEF AuthEnds, UserKnown, UserUnknown, AuthAnswered
<1>2. CASE ProblemEnds
  <2>1. CASE SamplesArrive
        BY <2>1 DEF TryNext
  <2>2. CASE (ProblemFails \/ StatsSettle) /\ UNCHANGED tryVars
    <3>1. fetching' # "problem"
          BY <2>2 DEF ProblemFails, StatsSettle
    <3> QED BY <2>2, <3>1 DEF TryNext
  <2> QED BY <1>2, <2>1, <2>2 DEF ProblemEnds
<1>3. CASE Discussion
      BY <1>0, <1>3 DEF Discussion, OpenDiscussion, ThreadsEnd
<1>4. CASE Edit
      BY <1>0, <1>4 DEF Edit, restOfScreen
<1>5. CASE CodeAnswered \/ Autosave
      BY <1>0, <1>5 DEF CodeAnswered, CodeArrives, Autosave, SaveFires,
                        screenVars
<1>6. CASE SubmitClick
      BY <1>0, <1>6 DEF SubmitClick, Submit, SubmitBlank
<1>7. CASE PostReaches \/ PostFailsOnTheWay \/ PostAnswerEnds
      BY <1>0, <1>7 DEF PostReaches, RowInserted, PostFailsOnTheWay, PostFails,
                        PostAnswerEnds, PostAnswered, screenVars
<1>8. CASE WatchStep
  <2>1. UNCHANGED tryVars
        BY <1>8 DEF WatchStep
  <2>2. UNCHANGED fetching
        BY <1>8 DEF WatchStep, WatchUser, WatchAnswer, OpenTab, PickSubmission,
                    BackToList, ListArrives, ListEnds, SubmitEnds,
                    DetailsArrive, DetailsFail, PollTick, Judge, screenVars
  <2> QED BY <1>0, <2>1, <2>2
<1>9. CASE TryEdit
      BY <1>9 DEF TryEdit, CasesEdited, TryNext, restOfScreen
<1>10. CASE RunClick
      BY <1>10 DEF RunClick, TryNext
<1>11. CASE RunEnds
      BY <1>11 DEF RunEnds, TryNext
<1>12. CASE HintClick \/ CompletionUser
      BY <1>0, <1>12 DEF HintClick, CompletionUser, restOfScreen
<1>13. CASE HintEnds \/ CompletionStep \/ AnswerToNobody
      BY <1>0, <1>13 DEF HintEnds, CompletionStep, AnswerToNobody, screenVars
<1>14. CASE Limiting
      BY <1>0, <1>14 DEF Limiting, screenVars, restOfScreen
<1>15. CASE Reopen
      BY <1>15 DEF Reopen, TryNext
<1>16. CASE UNCHANGED vars
      BY <1>0, <1>16 DEF vars, screenVars
<1> QED BY <1>1, <1>2, <1>3, <1>4, <1>5, <1>6, <1>7, <1>8, <1>9, <1>10, <1>11,
           <1>12, <1>13, <1>14, <1>15, <1>16 DEF Next

(* Every step of the page keeps the screen well formed: it is a click that   *)
(* changes the tab, the threads or the message at most, an answer, a change  *)
(* of page, or leaves the screen alone.                                      *)
ScreenNext ==
  \/ (\E p : Click(p)) /\ UNCHANGED restOfScreen
  \/ (\E known \in BOOLEAN : AuthAnswered(known))
  \/ ProblemArrives \/ ProblemFails \/ StatsSettle
  \/ OpenDiscussion \/ (\E outcome \in FetchOutcomes : ThreadsEnd(outcome))
  \/ (\E t \in Tabs : OpenTab(t))
  \/ (\E outcome \in FetchOutcomes : ListEnds(outcome))
  \/ (\E a \in InFlight : DetailsFail(a))
  \/ Submit \/ SubmitBlank \/ PostAnswered \/ PostFails
  \/ Run \/ RunBlank \/ RunFails
  \/ ScreenReopens
  \/ UNCHANGED screenVars

LEMMA ScreenKept ==
  ASSUME ScreenTypeOK, ScreenNext
  PROVE  ScreenTypeOK'
<1> USE DEF ScreenTypeOK
<1>1. CASE (\E p : Click(p)) /\ UNCHANGED restOfScreen
      BY <1>1, ClicksAreLate DEF restOfScreen
<1>2. CASE \E known \in BOOLEAN : AuthAnswered(known)
      BY <1>2 DEF AuthAnswered
<1>3. CASE ProblemArrives \/ ProblemFails \/ StatsSettle
      BY <1>3 DEF ProblemArrives, ProblemFails, StatsSettle
<1>4. CASE OpenDiscussion
      BY <1>4, ClicksAreLate DEF OpenDiscussion, Tabs
<1>5. CASE \E outcome \in FetchOutcomes : ThreadsEnd(outcome)
      BY <1>5 DEF ThreadsEnd
<1>6. CASE \E t \in Tabs : OpenTab(t)
      BY <1>6, ClicksAreLate DEF OpenTab
<1>7. CASE \E outcome \in FetchOutcomes : ListEnds(outcome)
      BY <1>7 DEF ListEnds
<1>8. CASE \E a \in InFlight : DetailsFail(a)
      BY <1>8 DEF DetailsFail
<1>9. CASE Submit \/ SubmitBlank
      BY <1>9, ClicksAreLate DEF Submit, SubmitBlank
<1>10. CASE PostAnswered \/ PostFails
      BY <1>10 DEF PostAnswered, PostFails, Tabs
<1>11. CASE Run \/ RunBlank
      BY <1>11, ClicksAreLate DEF Run, RunBlank
<1>12. CASE RunFails
      BY <1>12 DEF RunFails
<1>13. CASE ScreenReopens
  <2>1. clicks["leave"] > 0 /\ clicks' = [clicks EXCEPT !["leave"] = clicks["leave"] - 1]
        BY <1>13 DEF ScreenReopens
  <2>2. "leave" \in Panels => clicks["leave"] - 1 \in Nat
        BY <2>1
  <2> QED BY <1>13, <2>1, <2>2 DEF ScreenReopens, Tabs
<1>14. CASE UNCHANGED screenVars
      BY <1>14 DEF screenVars
<1> QED BY <1>1, <1>2, <1>3, <1>4, <1>5, <1>6, <1>7, <1>8, <1>9, <1>10, <1>11,
           <1>12, <1>13, <1>14 DEF ScreenNext

LEMMA PageStepsScreen == [Next]_vars => ScreenNext
<1> SUFFICES ASSUME [Next]_vars PROVE ScreenNext
    OBVIOUS
<1> USE DEF ScreenNext
<1>1. CASE AuthEnds
      BY <1>1 DEF AuthEnds, UserKnown, UserUnknown
<1>2. CASE ProblemEnds \/ Discussion
      BY <1>2 DEF ProblemEnds, SamplesArrive, Discussion
<1>3. CASE Edit \/ HintClick \/ TryEdit
  <2>1. UNCHANGED restOfScreen
        BY <1>3 DEF Edit, HintClick, TryEdit
  <2>2. \E p : Click(p)
        BY <1>3 DEF Edit, HintClick, GetHint, ShowNextHint, TryEdit, EditInput,
                    EditExpected, SelectCase, AddCase
  <2> QED BY <2>1, <2>2
<1>4. CASE CompletionUser
  <2>1. UNCHANGED restOfScreen
        BY <1>4 DEF CompletionUser
  <2>2. \E p : Click(p)
        BY <1>4 DEF CompletionUser, Complete, HideOffer, AcceptOffer,
                    InsertLastOffer
  <2> QED BY <2>1, <2>2
<1>5. CASE CodeAnswered \/ Autosave
      BY <1>5 DEF CodeAnswered, CodeArrives, Autosave, SaveFires
<1>6. CASE SubmitClick \/ RunClick
      BY <1>6 DEF SubmitClick, RunClick
<1>7. CASE PostReaches \/ PostFailsOnTheWay \/ PostAnswerEnds
      BY <1>7 DEF PostReaches, RowInserted, PostFailsOnTheWay, PostAnswerEnds
<1>8. CASE WatchStep
  <2>1. CASE WatchUser
    <3>1. CASE \E t \in {"description", "submissions"} : OpenTab(t)
          BY <3>1 DEF Tabs
    <3>2. CASE (\E s \in Subs : PickSubmission(s)) \/ BackToList
      <4>1. UNCHANGED restOfScreen /\ \E p : Click(p)
            BY <3>2 DEF PickSubmission, BackToList, restOfScreen
      <4> QED BY <4>1
    <3> QED BY <2>1, <3>1, <3>2 DEF WatchUser
  <2>2. CASE WatchAnswer
    <3>1. CASE \E outcome \in FetchOutcomes :
                 ListArrives(outcome) \/ SubmitEnds(outcome)
          BY <3>1 DEF ListArrives, SubmitEnds
    <3>2. CASE \E a \in InFlight :
                 (\E status \in Statuses : DetailsArrive(a, status)) \/ DetailsFail(a)
          BY <3>2 DEF DetailsArrive
    <3> QED BY <2>2, <3>1, <3>2 DEF WatchAnswer
  <2>3. CASE PollTick \/ \E s \in Subs : Judge(s)
        BY <2>3 DEF PollTick, Judge
  <2> QED BY <1>8, <2>1, <2>2, <2>3 DEF WatchStep
<1>9. CASE RunEnds
      BY <1>9 DEF RunEnds
<1>10. CASE HintEnds \/ CompletionStep \/ AnswerToNobody
      BY <1>10 DEF HintEnds, CompletionStep, AnswerToNobody
<1>11. CASE Limiting
      BY <1>11 DEF Limiting
<1>12. CASE Reopen
      BY <1>12 DEF Reopen
<1>13. CASE UNCHANGED vars
      BY <1>13 DEF vars
<1> QED BY <1>1, <1>2, <1>3, <1>4, <1>5, <1>6, <1>7, <1>8, <1>9, <1>10, <1>11,
           <1>12, <1>13 DEF Next
-----------------------------------------------------------------------------
LEMMA OfferTypes == OfferInv /\ DraftsTypeOK => offer \in Basis \cup {NoHelp}
BY HereIsBasis DEF OfferInv, OfferIsFresh

(* The hints and the last suggestion are well formed.                        *)
HelpTypes ==
  /\ loadingHint \in BOOLEAN
  /\ hints \in Nat \cup {NoHelp}
  /\ hintError \in BOOLEAN
  /\ visibleHint \in Nat
  /\ lastOffer \in Basis \cup {NoHelp}

LEMMA HelpKept ==
  ASSUME HelpTypes, OfferInv, [Next]_vars
  PROVE  HelpTypes'
<1> USE DEF HelpTypes
<1>0. ASSUME UNCHANGED <<hintVars, lastOffer>> PROVE HelpTypes'
      BY <1>0 DEF hintVars
<1>1. CASE AuthEnds \/ Edit \/ CodeAnswered
      BY <1>0, <1>1 DEF AuthEnds, Edit, CodeAnswered
<1>2. CASE \/ ProblemEnds \/ Discussion \/ Autosave \/ SubmitClick
           \/ PostReaches \/ PostFailsOnTheWay \/ PostAnswerEnds
      BY <1>0, <1>2 DEF ProblemEnds, Discussion, Autosave, SubmitClick,
                        PostReaches, PostFailsOnTheWay, PostAnswerEnds,
                        assistVars, hintVars
<1>3. CASE \/ WatchStep \/ TryEdit \/ RunClick \/ RunEnds \/ AnswerToNobody
           \/ Limiting
      BY <1>0, <1>3 DEF WatchStep, TryEdit, RunClick, RunEnds, AnswerToNobody,
                        Limiting, assistVars, hintVars
<1>4. CASE HintClick
  <2>1. UNCHANGED lastOffer
        BY <1>4 DEF HintClick, offerVars
  <2>2. CASE GetHint
        BY <2>1, <2>2 DEF GetHint
  <2>3. CASE ShowNextHint
    <3>1. visibleHint' = visibleHint + 1 /\ UNCHANGED <<loadingHint, hints, hintError>>
          BY <2>3 DEF ShowNextHint
    <3> QED BY <2>1, <3>1
  <2> QED BY <1>4, <2>2, <2>3 DEF HintClick
<1>5. CASE HintEnds
  <2>1. UNCHANGED lastOffer
        BY <1>5 DEF HintEnds, offerVars
  <2>2. ASSUME NEW n \in HintCounts, HintsArrive(n) PROVE HelpTypes'
    <3>1. n \in Nat /\ MaxHints \in Nat
          BY AssistAssumption
    <3>2. hints' \in Nat /\ visibleHint' = 1
          BY <2>2, <3>1 DEF HintsArrive
    <3>3. loadingHint' = FALSE /\ UNCHANGED hintError
          BY <2>2 DEF HintsArrive
    <3> QED BY <2>1, <3>2, <3>3
  <2>3. CASE HintsFail
        BY <2>1, <2>3 DEF HintsFail
  <2> QED BY <1>5, <2>2, <2>3 DEF HintEnds
<1>6. CASE CompletionUser
      BY <1>0, <1>6 DEF CompletionUser, Complete, HideOffer
<1>7. CASE CompletionStep
  <2>1. UNCHANGED hintVars
        BY <1>7 DEF CompletionStep
  <2>2. CASE UNCHANGED lastOffer
        BY <1>0, <2>1, <2>2
  <2>3. CASE lastOffer' # lastOffer
    <3>1. PICK c \in Completions, useful \in BOOLEAN : CompletionArrives(c, useful)
          BY <1>7, <2>3 DEF CompletionStep, GiveUp, AskCompletion
    <3>2. completion[c] \in Calls /\ lastOffer' = completion[c].basis
          BY <2>3, <3>1 DEF CompletionArrives, OfferInv
    <3> QED BY <2>1, <3>2 DEF Calls, hintVars
  <2> QED BY <2>2, <2>3
<1>8. CASE Reopen
      BY <1>8 DEF Reopen, AssistReopens
<1>9. CASE UNCHANGED vars
      BY <1>0, <1>9 DEF vars, assistVars, hintVars
<1> QED BY <1>1, <1>2, <1>3, <1>4, <1>5, <1>6, <1>7, <1>8, <1>9 DEF Next

LEMMA WatchUntouched ==
  ASSUME WatchTypeOK, UNCHANGED watchVars
  PROVE  WatchTypeOK'
BY DEF WatchTypeOK, watchVars

LEMMA AskBounded ==
  ASSUME asks \in [Asks -> 0..MaxAsks], NEW kind, NEW s, AskDetails(kind, s)
  PROVE  asks' \in [Asks -> 0..MaxAsks]
<1> DEFINE new == [kind |-> kind, id |-> s, asked |-> verdict[s]]
<1>1. asks[new] < MaxAsks /\ asks' = [asks EXCEPT ![new] = asks[new] + 1]
      BY DEF AskDetails
<1>2. MaxAsks \in Nat
      BY WatchAssumption
<1> HIDE DEF new
<1>3. new \in Asks => asks[new] + 1 \in 0..MaxAsks
      BY <1>1, <1>2
<1> QED BY <1>1, <1>3

LEMMA AnswerBounded ==
  ASSUME asks \in [Asks -> 0..MaxAsks], NEW a \in Asks, asks[a] > 0,
         asks' = [asks EXCEPT ![a] = @ - 1]
  PROVE  asks' \in [Asks -> 0..MaxAsks]
<1>1. MaxAsks \in Nat /\ asks[a] \in 0..MaxAsks
      BY WatchAssumption
<1>2. asks[a] - 1 \in 0..MaxAsks
      BY <1>1
<1> QED BY <1>2

LEMMA ListAsked ==
  ASSUME WatchTypeOK, FetchSubmissions
  PROVE  listAsks' \in Nat /\ loadingList' \in BOOLEAN
BY DEF FetchSubmissions, WatchTypeOK

(* The steps of the submissions tab keep its state well formed; what is      *)
(* selected at the end of a submission is one the server has.                *)
LEMMA WatchUserKept ==
  ASSUME WatchTypeOK, WatchUser
  PROVE  WatchTypeOK'
<1> USE DEF WatchTypeOK
<1>1. ASSUME NEW t \in {"description", "submissions"}, OpenTab(t)
      PROVE  WatchTypeOK'
  <2>1. listAsks' \in Nat /\ loadingList' \in BOOLEAN
        BY <1>1, ListAsked DEF OpenTab
  <2> QED BY <1>1, <2>1 DEF OpenTab
<1>2. ASSUME NEW s \in Subs, PickSubmission(s)
      PROVE  WatchTypeOK'
  <2>1. asks' \in [Asks -> 0..MaxAsks]
        BY <1>2, AskBounded DEF PickSubmission
  <2>2. overlap' \in BOOLEAN
        BY <1>2 DEF PickSubmission, NoteOverlap
  <2> QED BY <1>2, <2>1, <2>2 DEF PickSubmission
<1>3. CASE BackToList
  <2>1. overlap' \in BOOLEAN
        BY <1>3 DEF BackToList, NoteOverlap
  <2> QED BY <1>3, <2>1 DEF BackToList
<1> QED BY <1>1, <1>2, <1>3 DEF WatchUser

LEMMA WatchAnswerKept ==
  ASSUME WatchTypeOK, KnownExist, WatchAnswer
  PROVE  WatchTypeOK'
<1> USE DEF WatchTypeOK
<1>1. ASSUME NEW outcome \in FetchOutcomes, ListEnds(outcome)
      PROVE  list' \subseteq Subs /\ loadingList' \in BOOLEAN
      BY <1>1 DEF ListEnds, Rows
<1>2. ASSUME NEW outcome \in FetchOutcomes, ListArrives(outcome)
      PROVE  WatchTypeOK'
  <2>1. listAsks' \in Nat
        BY <1>2 DEF ListArrives
  <2> QED BY <1>1, <1>2, <2>1 DEF ListArrives
<1>3. ASSUME NEW outcome \in FetchOutcomes, SubmitEnds(outcome)
      PROVE  WatchTypeOK'
  <2>1. newSub \in Subs
        BY <1>3 DEF SubmitEnds, KnownExist, Exists
  <2>2. asks' \in [Asks -> 0..MaxAsks]
        BY <1>3, AskBounded DEF SubmitEnds
  <2>3. overlap' \in BOOLEAN
        BY <1>3 DEF SubmitEnds, NoteOverlap
  <2> QED BY <1>1, <1>3, <2>1, <2>2, <2>3 DEF SubmitEnds
<1>4. ASSUME NEW a \in InFlight, NEW status \in Statuses, DetailsArrive(a, status)
      PROVE  WatchTypeOK'
  <2>1. a \in Asks /\ asks[a] > 0 /\ a.id \in Subs
        BY DEF InFlight, Asks
  <2>2. asks' \in [Asks -> 0..MaxAsks]
        BY <1>4, <2>1, AnswerBounded DEF DetailsArrive
  <2>3. selected' \in [id : Subs, status : Statuses]
        BY <1>4, <2>1 DEF DetailsArrive, Show
  <2>4. listAsks' \in Nat /\ loadingList' \in BOOLEAN
        BY <1>4, ListAsked DEF DetailsArrive, Show
  <2> QED BY <1>4, <2>2, <2>3, <2>4 DEF DetailsArrive
<1>5. ASSUME NEW a \in InFlight, DetailsFail(a)
      PROVE  WatchTypeOK'
  <2>1. a \in Asks /\ asks[a] > 0
        BY DEF InFlight
  <2>2. asks' \in [Asks -> 0..MaxAsks]
        BY <1>5, <2>1, AnswerBounded DEF DetailsFail
  <2> QED BY <1>5, <2>2 DEF DetailsFail
<1> QED BY <1>2, <1>3, <1>4, <1>5 DEF WatchAnswer

LEMMA WatchStepKept ==
  ASSUME WatchTypeOK, KnownExist,
         \/ WatchStep
         \/ Submit \/ SubmitBlank \/ PostAnswered \/ PostFails
         \/ \E s \in Subs : RowInserted(s)
         \/ WatchReopens
         \/ UNCHANGED watchVars
  PROVE  WatchTypeOK'
<1> USE DEF WatchTypeOK
<1>1. CASE PollTick
  <2>1. asks' \in [Asks -> 0..MaxAsks]
        BY <1>1, AskBounded DEF PollTick
  <2> QED BY <1>1, <2>1 DEF PollTick
<1>2. ASSUME NEW s \in Subs, Judge(s) PROVE WatchTypeOK'
      BY <1>2, VerdictsAssumption DEF Judge, Statuses
<1>3. CASE Submit \/ SubmitBlank \/ PostAnswered \/ PostFails
      BY <1>3, WatchUntouched DEF Submit, SubmitBlank, PostAnswered, PostFails
<1>4. ASSUME NEW s \in Subs, RowInserted(s) PROVE WatchTypeOK'
      BY <1>4 DEF RowInserted, Statuses
<1>5. CASE WatchReopens
  <2>1. MaxAsks \in Nat
        BY WatchAssumption
  <2>2. asks' \in [Asks -> 0..MaxAsks]
        BY <1>5, <2>1 DEF WatchReopens
  <2> QED BY <1>5, <2>2 DEF WatchReopens
<1> QED BY <1>1, <1>2, <1>3, <1>4, <1>5, WatchUntouched, WatchUserKept,
           WatchAnswerKept DEF WatchStep

LEMMA PageStepsWatch ==
  [Next]_vars =>
    \/ WatchStep
    \/ Submit \/ SubmitBlank \/ PostAnswered \/ PostFails
    \/ \E s \in Subs : RowInserted(s)
    \/ WatchReopens
    \/ UNCHANGED watchVars
<1> SUFFICES ASSUME [Next]_vars, ~WatchStep, ~UNCHANGED watchVars
             PROVE  \/ Submit \/ SubmitBlank \/ PostAnswered \/ PostFails
                    \/ \E s \in Subs : RowInserted(s)
                    \/ WatchReopens
    OBVIOUS
<1>1. ~\/ AuthEnds \/ ProblemEnds \/ Discussion \/ Edit \/ CodeAnswered
       \/ Autosave \/ TryEdit
      BY DEF AuthEnds, ProblemEnds, Discussion, Edit, CodeAnswered, Autosave,
             TryEdit
<1>2. ~\/ RunClick \/ RunEnds \/ HintClick \/ HintEnds \/ CompletionUser
       \/ CompletionStep \/ AnswerToNobody \/ Limiting \/ UNCHANGED vars
      BY DEF RunClick, RunEnds, HintClick, HintEnds, CompletionUser,
             CompletionStep, AnswerToNobody, Limiting, vars
<1>3. SubmitClick \/ PostReaches \/ PostFailsOnTheWay \/ PostAnswerEnds \/ Reopen
      BY <1>1, <1>2 DEF Next
<1> QED BY <1>3 DEF SubmitClick, PostReaches, PostFailsOnTheWay,
                    PostAnswerEnds, Reopen
-----------------------------------------------------------------------------
(* The parts of the page whose types need each other: the screen, the test   *)
(* cases, the submissions tab and the help.                                  *)
PageInv ==
  /\ ScreenTypeOK
  /\ TryInv
  /\ WatchTypeOK
  /\ ViewInv
  /\ HelpTypes
  /\ OfferInv

LEMMA PageInvAtStart == Init => PageInv
<1> SUFFICES ASSUME Init PROVE PageInv
    OBVIOUS
<1>1. ScreenTypeOK
      BY PlansAssumption DEF Init, ScreenInit, ScreenTypeOK, Tabs
<1>2. TryInv
      BY TryInvAtStart DEF Init
<1>3. WatchTypeOK
  <2>1. MaxAsks \in Nat
        BY WatchAssumption
  <2>2. asks \in [Asks -> 0..MaxAsks]
        BY <2>1 DEF Init, WatchInit
  <2> QED BY <2>2, VerdictsAssumption DEF Init, WatchInit, WatchTypeOK
<1>4. ViewInv
  <2>1. InFlight = {}
        BY DEF Init, WatchInit, InFlight
  <2> QED BY <2>1, VerdictsAssumption
          DEF Init, WatchInit, ViewInv, KnownExist, Exists, OneInterest, Matches
<1>5. HelpTypes
      BY DEF Init, AssistInit, HelpTypes
<1>6. OfferInv
      BY DEF Init, AssistInit, OfferInv, CallsAreFresh, OfferIsFresh
<1> QED BY <1>1, <1>2, <1>3, <1>4, <1>5, <1>6 DEF PageInv

LEMMA PageInvStep ==
  ASSUME PageInv, DraftsTypeOK, DraftsTypeOK', [Next]_vars
  PROVE  PageInv'
<1>1. ScreenTypeOK'
      BY ScreenKept, PageStepsScreen DEF PageInv
<1>2. TryInv'
      BY TryStep, PageStepsTry DEF PageInv
<1>3. WatchTypeOK'
      BY WatchStepKept, PageStepsWatch DEF PageInv, ViewInv
<1>4. ViewInv'
      BY ViewStep DEF PageInv
<1>5. HelpTypes'
      BY HelpKept DEF PageInv
<1>6. OfferInv'
      BY OfferStep DEF PageInv
<1> QED BY <1>1, <1>2, <1>3, <1>4, <1>5, <1>6 DEF PageInv

LEMMA PageInvHolds == Spec => []PageInv
<1>1. Spec => []DraftsTypeOK
      BY PageRunsEditor, DraftsTypeCorrect, PTL
<1> QED BY <1>1, PageInvAtStart, PageInvStep, PTL DEF Spec

(* The state of the page is well formed throughout a visit, whatever is      *)
(* clicked, answered, lost or left (ProblemDetail and its hooks).            *)
THEOREM PageTypeCorrect == Spec => []TypeOK
<1>1. PageInv /\ DraftsTypeOK /\ LimitsTypeOK => TypeOK
      BY OfferTypes
      DEF TypeOK, PageInv, TryInv, HelpTypes, OfferInv, AssistTypeOK
<1>2. Spec => []DraftsTypeOK
      BY PageRunsEditor, DraftsTypeCorrect, PTL
<1>3. Spec => []LimitsTypeOK
      BY PageRunsLimits, LimitsTypeCorrect, PTL
<1> QED BY <1>1, <1>2, <1>3, PageInvHolds, PTL

(* A green dot and the word "Accepted" are earned on the page, for any       *)
(* number of test cases and however they are edited while the code runs      *)
(* (handleRunCode).                                                          *)
THEOREM GreenDotsAreEarned == Spec => []GreenIsEarned
<1>1. PageInv => GreenIsEarned
      BY GreenDots DEF PageInv
<1> QED BY <1>1, PageInvHolds, PTL
=============================================================================
