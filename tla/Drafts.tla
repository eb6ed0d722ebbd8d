------------------------------- MODULE Drafts -------------------------------
(***************************************************************************)
(* The code in the editor of the problem page and the three places it      *)
(* comes from and goes to: the browser's localStorage (a draft per         *)
(* language, saved one second after the last change), the submissions of   *)
(* the server (GET /last-code) and the POST of a submission.               *)
(*                                                                         *)
(* Loading is asynchronous and nothing ties an answer to the language that *)
(* is selected when it arrives; the save timer closes over the code and    *)
(* the language of the same render.  The ghost variable crossed records    *)
(* that an answer for one language was applied under another.              *)
(*                                                                         *)
(* localStorage is taken to work; text is told apart only as far as the    *)
(* code tells it apart: the placeholder, nothing, and code of a language.  *)
(***************************************************************************)
EXTENDS ProblemScreen

CONSTANTS
  Languages,    \* the options of the language selector
  FirstLanguage,\* the one selected when the page opens (python)
  Versions,     \* the codes the user may write in one language
  Default,      \* '// Start coding here...'
  Blank,        \* the empty editor
  NoText,       \* nothing stored
  FirstCodes,   \* what the user may have submitted before the visit
  MaxLoads      \* bound: /last-code requests in flight per language

Written == [lang : Languages, version : Versions]
Texts == Written \cup {Default, Blank}

ASSUME DraftsAssumption ==
  /\ FirstLanguage \in Languages
  /\ Default # Blank
  /\ NoText \notin Texts
  /\ Default \notin Written
  /\ Blank \notin Written
  /\ FirstCodes \subseteq [Languages -> Written \cup {NoText}]
  /\ \A f \in FirstCodes, l \in Languages :
       f[l] # NoText => f[l].lang = l
  /\ MaxLoads \in Nat

VARIABLES
  language,     \* selectedLanguage
  code,         \* the text in the editor
  codeLoaded,   \* codeLoaded
  saveDue,      \* the one-second timer of the save effect is running
  draft,        \* localStorage: code-draft-<problem>-<language>
  loads,        \* requests for /last-code in flight, per language
  lastCode,     \* server: code of the last submission, per language
  posted,       \* body of the POST /submit in the network, or NoText
  crossed       \* ghost: see above

draftVars == <<language, code, codeLoaded, saveDue, draft, loads, lastCode,
               posted, crossed>>

DraftsTypeOK ==
  /\ language \in Languages
  /\ code \in Texts
  /\ codeLoaded \in BOOLEAN
  /\ saveDue \in BOOLEAN
  /\ draft \in [Languages -> Texts \cup {NoText}]
  /\ loads \in [Languages -> Nat]
  /\ lastCode \in [Languages -> Texts \cup {NoText}]
  /\ posted \in [lang : Languages, text : Texts] \cup {NoText}
  /\ crossed \in BOOLEAN

DraftsInit ==
  /\ language = FirstLanguage
  /\ code = Default
  /\ codeLoaded = FALSE
  /\ saveDue = FALSE
  /\ draft = [l \in Languages |-> NoText]
  /\ loads = [l \in Languages |-> 0]
  /\ lastCode \in FirstCodes
  /\ posted = NoText
  /\ crossed = FALSE
-----------------------------------------------------------------------------
\* Mutant: handleLanguageChange does not put the placeholder back.
LoadCodeOverOld(l, base) ==
  IF draft[l] \in {NoText, Blank}
  THEN /\ loads[l] < MaxLoads
       /\ loads' = [loads EXCEPT ![l] = @ + 1]
       /\ code' = code
       /\ codeLoaded' = FALSE
       /\ saveDue' = FALSE
  ELSE /\ code' = draft[l]
       /\ codeLoaded' = TRUE
       /\ saveDue' = (draft[l] # Default)
       /\ UNCHANGED loads

(* The load effect, which runs when the user becomes known or the language *)
(* changes, for language l over the text base: a draft is taken at once    *)
(* (an empty one counts as none), otherwise the server is asked.           *)
LoadCode(l, base) ==
  IF draft[l] \in {NoText, Blank}
  THEN /\ loads[l] < MaxLoads
       /\ loads' = [loads EXCEPT ![l] = @ + 1]
       /\ code' = base
       /\ codeLoaded' = FALSE
       /\ saveDue' = FALSE
  ELSE /\ code' = draft[l]
       /\ codeLoaded' = TRUE
       /\ saveDue' = (draft[l] # Default)
       /\ UNCHANGED loads

(* checkLoginStatus sets isLoggedIn; a known user starts the load effect.  *)
UserKnown ==
  /\ AuthAnswered(TRUE)
  /\ LoadCode(language, code)
  /\ UNCHANGED <<language, draft, lastCode, posted, crossed>>

UserUnknown ==
  /\ AuthAnswered(FALSE)
  /\ UNCHANGED draftVars

(* The answer to a /last-code request for l: a code, no code, or a failure *)
(* (the last two look alike).  Whatever it is, codeLoaded becomes TRUE,    *)
(* and the save effect starts its timer over if code or codeLoaded changed.*)
CodeArrives(l, found) ==
  LET text == IF found /\ lastCode[l] \notin {NoText, Blank}
              THEN lastCode[l] ELSE code
  IN  /\ loads[l] > 0
      /\ loads' = [loads EXCEPT ![l] = @ - 1]
      /\ code' = text
      /\ codeLoaded' = TRUE
      /\ saveDue' = IF text = code /\ codeLoaded THEN saveDue
                    ELSE text # Default
      /\ crossed' = (crossed \/ l # language)
      /\ UNCHANGED <<language, draft, lastCode, posted>>
      /\ UNCHANGED screenVars

(* onChange of the editor: the user writes text, in the selected language. *)
TypedText == {Default, Blank} \cup [lang : {language}, version : Versions]

\* Mutant: code is not among the dependencies of the save effect.
SetCodeQuietly(text) ==
  /\ code' = text
  /\ UNCHANGED <<language, codeLoaded, saveDue, draft, loads, lastCode, posted,
                 crossed>>

SetCode(text) ==
  /\ code' = text
  /\ saveDue' = (codeLoaded /\ text # Default)
  /\ UNCHANGED <<language, codeLoaded, draft, loads, lastCode, posted,
                 crossed>>

Type(text) ==
  /\ text # code
  /\ SetCode(text)

(* handleLanguageChange with the dialogue confirmed, and the load effect.  *)
(* Declining the dialogue changes nothing.                                 *)
SelectLanguage(l) ==
  /\ l # language
  /\ language' = l
  /\ IF signedIn
     THEN LoadCode(l, Default)
     ELSE /\ code' = Default
          /\ codeLoaded' = FALSE
          /\ saveDue' = FALSE
          /\ UNCHANGED loads
  /\ UNCHANGED <<draft, lastCode, posted, crossed>>

(* The timer of the save effect.                                           *)
SaveFires ==
  /\ saveDue
  /\ saveDue' = FALSE
  /\ draft' = [draft EXCEPT ![language] = code]
  /\ UNCHANGED <<language, code, codeLoaded, loads, lastCode, posted, crossed>>
  /\ UNCHANGED screenVars

(* handleSubmitCode takes the editor's text and the selected language.     *)
PostCode ==
  /\ code # Blank
  /\ posted = NoText
  /\ posted' = [lang |-> language, text |-> code]
  /\ UNCHANGED <<language, code, codeLoaded, saveDue, draft, loads, lastCode,
                 crossed>>

(* The POST reaches the server and makes a submission, or does not.        *)
PostStored ==
  /\ posted # NoText
  /\ lastCode' = [lastCode EXCEPT ![posted.lang] = posted.text]
  /\ posted' = NoText
  /\ UNCHANGED <<language, code, codeLoaded, saveDue, draft, loads, crossed>>

PostDropped ==
  /\ posted # NoText
  /\ posted' = NoText
  /\ UNCHANGED <<language, code, codeLoaded, saveDue, draft, loads, lastCode,
                 crossed>>

(* A new page: a timer that was running is cleared, and what it would have *)
(* saved is lost; answers to the old page's requests go nowhere.           *)
DraftsReopen ==
  /\ language' = FirstLanguage
  /\ code' = Default
  /\ codeLoaded' = FALSE
  /\ saveDue' = FALSE
  /\ loads' = [l \in Languages |-> 0]
  /\ crossed' = crossed
  /\ UNCHANGED <<draft, lastCode, posted>>
-----------------------------------------------------------------------------
(* The editor by itself, for the theorems: the rest of the page moves the  *)
(* screen as it likes.                                                     *)
EditorNext ==
  \/ UserKnown
  \/ \E l \in Languages, found \in BOOLEAN : CodeArrives(l, found)
  \/ \E text \in TypedText : Type(text)
  \/ \E l \in Languages : SelectLanguage(l)
  \/ SaveFires
  \/ PostCode
  \/ PostStored
  \/ PostDropped
  \/ DraftsReopen

EditorSpec ==
  ScreenInit /\ DraftsInit /\ [][EditorNext]_draftVars
-----------------------------------------------------------------------------
(* text was written in another language than l.                            *)
Foreign(text, l) == text \in Written /\ text.lang # l

(* No code of one language shows, is kept as a draft or is submitted under *)
(* another, unless an answer to a request made for one language arrived    *)
(* after another had been selected.  (handleLanguageChange, the load and   *)
(* the save effects; the answers of getLastCode carry no language.)        *)
NoForeignCode ==
  crossed \/ /\ ~Foreign(code, language)
             /\ \A l \in Languages : /\ ~Foreign(draft[l], l)
                                     /\ ~Foreign(lastCode[l], l)
             /\ posted # NoText => ~Foreign(posted.text, posted.lang)

(* Once the code of the selected language has been loaded, whatever is in  *)
(* the editor is its draft or is about to become it: the timer never       *)
(* lapses over a change.  (Save effect, through its dependencies.)         *)
AutosaveKeepsUp ==
  codeLoaded /\ ~saveDue /\ code # Default => draft[language] = code
=============================================================================
