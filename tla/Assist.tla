------------------------------- MODULE Assist -------------------------------
(***************************************************************************)
(* The two kinds of help the problem page asks the server's model for      *)
(* (frontend/src/pages/problems/[problemId].tsx): hints, on a button, and  *)
(* completions, half a second after the user stops typing.                 *)
(*                                                                         *)
(* The editor (Monaco) cancels the token of a completion when the text or  *)
(* the language changes and hides what it showed; the provider must look   *)
(* at the token each time it has waited.  Text and language are those of   *)
(* module Drafts.                                                          *)
(***************************************************************************)
EXTENDS Drafts

CONSTANTS
  MaxHints,     \* hints the difficulty of the problem allows (1, 2 or 3)
  HintCounts,   \* how many hints the server may answer with
  Completions,  \* slots for the editor's completion requests
  NoHelp        \* no hints, no suggestion, no request

ASSUME AssistAssumption ==
  /\ MaxHints \in 1..3
  /\ HintCounts \subseteq Nat
  /\ NoHelp \notin Nat

VARIABLES
  loadingHint,  \* isLoadingHint
  hints,        \* how many hints the page has, or NoHelp
  hintError,    \* hintError is set
  visibleHint,  \* visibleHintIndex + 1
  completion,   \* per slot: the provider's call, or NoHelp
  offer,        \* the suggestion in the editor, or NoHelp
  lastOffer     \* lastSuggestionRef

assistVars == <<loadingHint, hints, hintError, visibleHint, completion, offer,
                lastOffer>>

Basis == [lang : Languages, text : Texts]
Calls == [pc : {"waiting", "asked"}, basis : Basis, cancelled : BOOLEAN]

AssistTypeOK ==
  /\ loadingHint \in BOOLEAN
  /\ hints \in Nat \cup {NoHelp}
  /\ hintError \in BOOLEAN
  /\ visibleHint \in Nat
  /\ completion \in [Completions -> Calls \cup {NoHelp}]
  /\ offer \in Basis \cup {NoHelp}
  /\ lastOffer \in Basis \cup {NoHelp}

AssistInit ==
  /\ loadingHint = FALSE
  /\ hints = NoHelp
  /\ hintError = FALSE
  /\ visibleHint = 0
  /\ completion = [c \in Completions |-> NoHelp]
  /\ offer = NoHelp
  /\ lastOffer = NoHelp

hintVars == <<loadingHint, hints, hintError, visibleHint>>
offerVars == <<completion, offer, lastOffer>>
-----------------------------------------------------------------------------
(* What the hints card shows.                                              *)
HintsView ==
  CASE ~signedIn -> "sign in"
    [] signedIn /\ loadingHint -> "loading"
    [] signedIn /\ ~loadingHint /\ hintError -> "error"
    [] signedIn /\ ~loadingHint /\ ~hintError /\ hints # NoHelp -> "hints"
    [] OTHER -> "invitation"

(* handleGetHint; its button is there until there are hints.               *)
GetHint ==
  /\ Click("assist")
  /\ tab = "description"
  /\ signedIn /\ ~loadingHint /\ hints = NoHelp
  /\ loadingHint' = TRUE
  /\ hintError' = FALSE
  /\ UNCHANGED <<hints, visibleHint>>

HintsArrive(n) ==
  /\ loadingHint
  /\ loadingHint' = FALSE
  /\ hints' = IF n <= MaxHints THEN n ELSE MaxHints
  /\ visibleHint' = 1
  /\ UNCHANGED hintError

HintsFail ==
  /\ loadingHint
  /\ loadingHint' = FALSE
  /\ hintError' = TRUE
  /\ UNCHANGED <<hints, visibleHint>>

ShowNextHint ==
  /\ Click("assist")
  /\ tab = "description"
  /\ HintsView = "hints"
  /\ visibleHint < hints
  /\ visibleHint' = visibleHint + 1
  /\ UNCHANGED <<loadingHint, hints, hintError>>
-----------------------------------------------------------------------------
Here == [lang |-> language, text |-> code]

(* Monaco, when the text or the language is no longer the same.            *)
Cancelled ==
  IF language' = language /\ code' = code
  THEN UNCHANGED <<completion, offer>>
  ELSE /\ completion' = [c \in Completions |->
            IF completion[c] = NoHelp THEN NoHelp
            ELSE [completion[c] EXCEPT !.cancelled = TRUE]]
       /\ offer' = NoHelp

(* provideInlineCompletions: Monaco calls it, it waits half a second.      *)
Complete(c) ==
  /\ Click("assist")
  /\ completion[c] = NoHelp
  /\ completion' = [completion EXCEPT ![c] =
       [pc |-> "waiting", basis |-> Here, cancelled |-> FALSE]]
  /\ UNCHANGED <<offer, lastOffer>>

GiveUp(c) ==
  /\ completion[c] # NoHelp
  /\ completion[c].pc = "waiting"
  /\ completion[c].cancelled
  /\ completion' = [completion EXCEPT ![c] = NoHelp]
  /\ UNCHANGED <<offer, lastOffer>>

(* getCodeCompletion up to its await.                                      *)
AskCompletion(c) ==
  /\ completion[c] # NoHelp
  /\ completion[c].pc = "waiting"
  /\ ~completion[c].cancelled
  /\ completion' = [completion EXCEPT ![c].pc = "asked"]
  /\ UNCHANGED <<offer, lastOffer>>

\* Mutant: the token is not looked at again after the request.
CompletionArrivesAnyhow(c, useful) ==
  /\ completion[c] # NoHelp
  /\ completion[c].pc = "asked"
  /\ completion' = [completion EXCEPT ![c] = NoHelp]
  /\ IF ~useful
     THEN UNCHANGED <<offer, lastOffer>>
     ELSE offer' = completion[c].basis /\ lastOffer' = completion[c].basis

(* Its answer; an empty suggestion and a failure offer nothing either.     *)
CompletionArrives(c, useful) ==
  /\ completion[c] # NoHelp
  /\ completion[c].pc = "asked"
  /\ completion' = [completion EXCEPT ![c] = NoHelp]
  /\ IF completion[c].cancelled \/ ~useful
     THEN UNCHANGED <<offer, lastOffer>>
     ELSE offer' = completion[c].basis /\ lastOffer' = completion[c].basis

(* The keys: Tab accepts what is shown, Escape hides it, Alt+Enter inserts *)
(* the last suggestion, whatever it was made for.                          *)
Inserted == [lang : {language}, version : Versions]

AcceptOffer(text) ==
  /\ Click("assist")
  /\ offer # NoHelp
  /\ text \in Inserted \ {code}
  /\ SetCode(text)

HideOffer ==
  /\ Click("assist")
  /\ offer # NoHelp
  /\ offer' = NoHelp
  /\ UNCHANGED <<completion, lastOffer>>

InsertLastOffer(text) ==
  /\ Click("assist")
  /\ lastOffer # NoHelp
  /\ text \in Inserted \ {code}
  /\ SetCode(text)

AssistReopens ==
  /\ loadingHint' = FALSE
  /\ hints' = NoHelp
  /\ hintError' = FALSE
  /\ visibleHint' = 0
  /\ completion' = [c \in Completions |-> NoHelp]
  /\ offer' = NoHelp
  /\ lastOffer' = NoHelp
-----------------------------------------------------------------------------
(* What the editor offers was asked for the text and the language that are *)
(* in it: an answer that comes after the user has typed on, has accepted   *)
(* something else or has changed the language is not offered.              *)
(* (provideInlineCompletions: the two tests of the token.)                 *)
OfferIsFresh == offer # NoHelp => offer = Here
=============================================================================
