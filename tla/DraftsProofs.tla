---------------------------- MODULE DraftsProofs ----------------------------
(* Theorems about Drafts, for any languages, any number of requests for the *)
(* last code in flight and any text, whatever the rest of the page does.    *)
EXTENDS Drafts, TLAPS

DraftsInv == DraftsTypeOK /\ NoForeignCode /\ AutosaveKeepsUp

(* What the user types is text, and not of another language than the one    *)
(* selected.                                                                *)
LEMMA TypedTextIsText ==
  ASSUME language \in Languages, NEW text \in TypedText
  PROVE  text \in Texts /\ ~Foreign(text, language)
<1>1. CASE text \in {Default, Blank}
      BY <1>1, DraftsAssumption DEF Texts, Foreign
<1>2. CASE text \in [lang : {language}, version : Versions]
      BY <1>2 DEF Texts, Written, Foreign
<1> QED BY <1>1, <1>2 DEF TypedText

LEMMA DraftsInvAtStart == DraftsInit => DraftsInv
<1> SUFFICES ASSUME DraftsInit PROVE DraftsInv
    OBVIOUS
<1>1. DraftsTypeOK
      BY DraftsAssumption DEF DraftsInit, DraftsTypeOK, Texts
<1>2. ~Foreign(code, language)
      BY DraftsAssumption DEF DraftsInit, Foreign
<1>3. ASSUME NEW l \in Languages
      PROVE  ~Foreign(draft[l], l) /\ ~Foreign(lastCode[l], l)
  <2>1. draft[l] = NoText
        BY DEF DraftsInit
  <2>2. lastCode[l] # NoText => lastCode[l].lang = l
        BY DraftsAssumption DEF DraftsInit
  <2>3. NoText \notin Written
        BY DraftsAssumption DEF Texts
  <2> QED BY <2>1, <2>2, <2>3 DEF Foreign
<1>4. NoForeignCode
      BY <1>2, <1>3 DEF NoForeignCode, DraftsInit
<1>5. AutosaveKeepsUp
      BY DEF AutosaveKeepsUp, DraftsInit
<1> QED BY <1>1, <1>4, <1>5 DEF DraftsInv

(* The load effect over a text of the language it loads for.                *)
LEMMA LoadCodeInv ==
  ASSUME DraftsInv, NEW l \in Languages, NEW base \in Texts,
         LoadCode(l, base), language' = l, draft' = draft,
         lastCode' = lastCode, posted' = posted, crossed' = crossed,
         ~crossed => ~Foreign(base, l)
  PROVE  DraftsInv'
<1> USE DEF DraftsInv
<1>1. draft[l] \in Texts \cup {NoText}
      BY DEF DraftsTypeOK
<1>2. /\ code' \in Texts
      /\ codeLoaded' \in BOOLEAN
      /\ saveDue' \in BOOLEAN
      /\ ~crossed => ~Foreign(code', l)
      BY <1>1 DEF LoadCode, NoForeignCode
<1>3. loads' \in [Languages -> Nat]
      BY DEF LoadCode, DraftsTypeOK
<1>4. DraftsTypeOK'
      BY <1>2, <1>3 DEF DraftsTypeOK
<1>5. NoForeignCode'
      BY <1>2 DEF NoForeignCode, Foreign
<1>6. AutosaveKeepsUp'
      BY DEF LoadCode, AutosaveKeepsUp
<1> QED BY <1>4, <1>5, <1>6

LEMMA CodeArrivesInv ==
  ASSUME DraftsInv, NEW l \in Languages, NEW found \in BOOLEAN,
         CodeArrives(l, found)
  PROVE  DraftsInv'
<1> USE DEF DraftsInv
<1>1. lastCode[l] \in Texts \cup {NoText}
      BY DEF DraftsTypeOK
<1>2. /\ code' \in Texts
      /\ code' = code \/ code' = lastCode[l]
      BY <1>1 DEF CodeArrives, DraftsTypeOK
<1>3. DraftsTypeOK'
  <2>1. loads' \in [Languages -> Nat]
        BY DEF CodeArrives, DraftsTypeOK
  <2>2. saveDue' \in BOOLEAN
        BY DEF CodeArrives, DraftsTypeOK
  <2>3. crossed' \in BOOLEAN
        BY DEF CodeArrives, DraftsTypeOK
  <2>4. codeLoaded' = TRUE
        BY DEF CodeArrives
  <2>5. UNCHANGED <<language, draft, lastCode, posted>>
        BY DEF CodeArrives
  <2> QED BY <1>2, <2>1, <2>2, <2>3, <2>4, <2>5 DEF DraftsTypeOK
<1>4. NoForeignCode'
      BY <1>2 DEF CodeArrives, NoForeignCode, Foreign, DraftsTypeOK
<1>5. AutosaveKeepsUp'
      BY DEF CodeArrives, AutosaveKeepsUp
<1> QED BY <1>3, <1>4, <1>5

(* Every step of the editor preserves the invariant.                        *)
LEMMA DraftsStep == DraftsInv /\ [EditorNext]_draftVars => DraftsInv'
<1> SUFFICES ASSUME DraftsInv, [EditorNext]_draftVars PROVE DraftsInv'
    OBVIOUS
<1> USE DraftsAssumption DEF DraftsInv
<1>1. CASE UserKnown
  <2>1. /\ language \in Languages /\ code \in Texts
        /\ language' = language
        /\ ~crossed => ~Foreign(code, language)
        BY <1>1 DEF UserKnown, DraftsTypeOK, NoForeignCode
  <2> QED BY <1>1, <2>1, LoadCodeInv DEF UserKnown
<1>2. ASSUME NEW l \in Languages, NEW found \in BOOLEAN, CodeArrives(l, found)
      PROVE  DraftsInv'
      BY <1>2, CodeArrivesInv
<1>3. ASSUME NEW text \in TypedText, Type(text) PROVE DraftsInv'
  <2>1. text \in Texts /\ ~Foreign(text, language)
        BY TypedTextIsText DEF DraftsTypeOK
  <2>2. DraftsTypeOK'
        BY <1>3, <2>1 DEF Type, SetCode, DraftsTypeOK
  <2>3. NoForeignCode'
        BY <1>3, <2>1 DEF Type, SetCode, NoForeignCode, Foreign
  <2>4. AutosaveKeepsUp'
        BY <1>3 DEF Type, SetCode, AutosaveKeepsUp
  <2> QED BY <2>2, <2>3, <2>4
<1>4. ASSUME NEW l \in Languages, SelectLanguage(l) PROVE DraftsInv'
  <2>1. Default \in Texts /\ ~Foreign(Default, l)
        BY DEF Texts, Foreign
  <2>2. CASE signedIn
        BY <1>4, <2>1, <2>2, LoadCodeInv DEF SelectLanguage
  <2>3. CASE ~signedIn
    <3>1. DraftsTypeOK'
          BY <1>4, <2>1, <2>3 DEF SelectLanguage, DraftsTypeOK
    <3>2. NoForeignCode'
          BY <1>4, <2>1, <2>3 DEF SelectLanguage, NoForeignCode, Foreign
    <3>3. AutosaveKeepsUp'
          BY <1>4, <2>3 DEF SelectLanguage, AutosaveKeepsUp
    <3> QED BY <3>1, <3>2, <3>3
  <2> QED BY <2>2, <2>3
<1>5. CASE SaveFires
  <2>1. DraftsTypeOK'
        BY <1>5 DEF SaveFires, DraftsTypeOK
  <2>2. NoForeignCode'
    <3>1. ASSUME ~crossed, NEW l \in Languages PROVE ~Foreign(draft'[l], l)
          BY <1>5, <3>1 DEF SaveFires, NoForeignCode, DraftsTypeOK
    <3> QED BY <1>5, <3>1 DEF SaveFires, NoForeignCode, Foreign
  <2>3. AutosaveKeepsUp'
        BY <1>5 DEF SaveFires, AutosaveKeepsUp, DraftsTypeOK
  <2> QED BY <2>1, <2>2, <2>3
<1>6. CASE PostCode
  <2>1. DraftsTypeOK'
        BY <1>6 DEF PostCode, DraftsTypeOK
  <2>2. NoForeignCode'
        BY <1>6 DEF PostCode, NoForeignCode, Foreign
  <2>3. AutosaveKeepsUp'
        BY <1>6 DEF PostCode, AutosaveKeepsUp
  <2> QED BY <2>1, <2>2, <2>3
<1>7. CASE PostStored
  <2>1. DraftsTypeOK'
        BY <1>7 DEF PostStored, DraftsTypeOK
  <2>2. NoForeignCode'
    <3>1. ASSUME ~crossed, NEW l \in Languages PROVE ~Foreign(lastCode'[l], l)
          BY <1>7, <3>1 DEF PostStored, NoForeignCode, DraftsTypeOK
    <3> QED BY <1>7, <3>1 DEF PostStored, NoForeignCode, Foreign
  <2>3. AutosaveKeepsUp'
        BY <1>7 DEF PostStored, AutosaveKeepsUp
  <2> QED BY <2>1, <2>2, <2>3
<1>8. CASE PostDropped
  <2>1. DraftsTypeOK'
        BY <1>8 DEF PostDropped, DraftsTypeOK
  <2>2. NoForeignCode'
        BY <1>8 DEF PostDropped, NoForeignCode, Foreign
  <2>3. AutosaveKeepsUp'
        BY <1>8 DEF PostDropped, AutosaveKeepsUp
  <2> QED BY <2>1, <2>2, <2>3
<1>9. CASE DraftsReopen
  <2>1. DraftsTypeOK'
        BY <1>9 DEF DraftsReopen, DraftsTypeOK, Texts
  <2>2. NoForeignCode'
        BY <1>9 DEF DraftsReopen, NoForeignCode, Foreign
  <2>3. AutosaveKeepsUp'
        BY <1>9 DEF DraftsReopen, AutosaveKeepsUp
  <2> QED BY <2>1, <2>2, <2>3
<1>10. CASE UNCHANGED draftVars
       BY <1>10 DEF draftVars, DraftsTypeOK, NoForeignCode, AutosaveKeepsUp,
                    Foreign
<1> QED BY <1>1, <1>2, <1>3, <1>4, <1>5, <1>6, <1>7, <1>8, <1>9, <1>10
        DEF EditorNext

(* The inductive invariant holds in every state of the editor.              *)
LEMMA DraftsInvariant == EditorSpec => []DraftsInv
BY DraftsInvAtStart, DraftsStep, PTL DEF EditorSpec
-----------------------------------------------------------------------------
(* The editor's state, the drafts and the last codes keep their types.      *)
THEOREM DraftsTypeCorrect == EditorSpec => []DraftsTypeOK
<1>1. DraftsInv => DraftsTypeOK
      BY DEF DraftsInv
<1> QED BY DraftsInvariant, <1>1, PTL

(* Code crosses from one language to another only through an answer that    *)
(* came after the language had changed ([problemId].tsx, loadCode).         *)
THEOREM CodeKeepsItsLanguage == EditorSpec => []NoForeignCode
<1>1. DraftsInv => NoForeignCode
      BY DEF DraftsInv
<1> QED BY DraftsInvariant, <1>1, PTL

(* The save effect never lets its timer lapse over a change of the code.    *)
THEOREM AutosaveIsComplete == EditorSpec => []AutosaveKeepsUp
<1>1. DraftsInv => AutosaveKeepsUp
      BY DEF DraftsInv
<1> QED BY DraftsInvariant, <1>1, PTL
=============================================================================
