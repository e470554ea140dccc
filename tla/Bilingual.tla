------------------------------- MODULE Bilingual -------------------------------
(***************************************************************************)
(* A bilingual field of packages/shared: what is typed in Bangla fills the *)
(* English field, by the translation service (useBilingualTranslation: the *)
(* text is debounced, answers come in any order) or by a conversion of     *)
(* digits at once (useBilingualTransliteration), until the English text is *)
(* edited by hand.                                                         *)
(***************************************************************************)
EXTENDS Integers, FiniteSets

CONSTANTS
    MaxText,        \* Bangla texts are 1..MaxText; 0 is none
    MaxCalls        \* bound: translations asked for

\* English: none, the record's own, typed by hand, or made of a Bangla text.
Auto(bn) == [made |-> "auto", of |-> bn]
English == {[made |-> m, of |-> 0] : m \in {"none", "record", "hand"}}
           \cup {Auto(bn) : bn \in 1..MaxText}
NoText == [made |-> "none", of |-> 0]
Record == [made |-> "record", of |-> 0]
Hand == [made |-> "hand", of |-> 0]

VARIABLES
    mode,           \* "translate" or "convert"
    bn, en,         \* the fields
    debounced,      \* debouncedBn
    status,         \* and statusRef, which every event finds the same
    lastAuto,       \* lastAutoEnRef
    lastBn,         \* lastTranslatedBnRef, lastConvertedBnRef
    asked,          \* requestIdRef
    calls,          \* translations under way
    mounted,        \* the effects have run once
    kept,           \* history: the Bangla text changed and no translation of it was asked
                    \* for while another was under way, nor any since
    redone          \* history: a Re-translate was pressed

fieldVars == <<bn, en, debounced>>
autoVars == <<status, lastAuto, lastBn, asked, calls>>
vars == <<mode, fieldVars, autoVars, mounted, kept, redone>>

Statuses == {"idle", "translating", "auto", "manual", "failed"}
Call == [id : 1..MaxCalls, text : 1..MaxText, force : BOOLEAN]

\* A new record's form is empty.  An edit form has both texts, and the translated field
\* takes the English for typed by hand (skipInitialAutoTranslate) if there is any.
Init ==
    /\ mode \in {"translate", "convert"}
    /\ bn \in {0, 1} /\ en \in IF bn = 0 THEN {NoText} ELSE {NoText, Record}
    /\ debounced = bn
    /\ LET skip == mode = "translate" /\ en = Record IN
       /\ status = IF skip THEN "manual" ELSE "idle"
       /\ lastAuto = (IF skip THEN en ELSE NoText)
       /\ lastBn = IF skip THEN bn ELSE 0
    /\ asked = 0 /\ calls = {}
    /\ mounted = FALSE /\ kept = FALSE /\ redone = FALSE

-----------------------------------------------------------------------------
(* The effects and the answers.                                            *)

AnyCall(call) == TRUE
Newest(call) == call.id = asked
Waiting == \E call \in calls : Newest(call)

\* An English text that may be replaced: none, or the one put there last.
Replaceable == en \in {NoText, lastAuto}

Ask(text, force) ==
    /\ asked < MaxCalls
    /\ asked' = asked + 1
    /\ calls' = calls \cup {[id |-> asked + 1, text |-> text, force |-> force]}
    /\ status' = "translating" /\ kept' = FALSE
    /\ UNCHANGED <<en, lastAuto, lastBn>>

\* runTranslation.  Only a new request makes the one under way an old one.
RunTranslation(text, force) ==
    IF text = 0
    THEN /\ lastBn' = 0 /\ status' = "idle" /\ kept' = (kept \/ Waiting)
         /\ UNCHANGED <<en, lastAuto, asked, calls>>
    ELSE IF ~force /\ (status = "manual" \/ text = lastBn)
         THEN /\ kept' = (kept \/ Waiting)
              /\ UNCHANGED <<en, autoVars>>
         ELSE Ask(text, force)

\* runConversion: the same without a wait.
RunConversion(text, force) ==
    /\ UNCHANGED <<asked, calls>>
    /\ IF text = 0
       THEN lastBn' = 0 /\ status' = "idle" /\ UNCHANGED <<en, lastAuto>>
       ELSE IF ~force /\ (status = "manual" \/ text = lastBn \/ ~Replaceable)
            THEN UNCHANGED <<en, status, lastAuto, lastBn>>
            ELSE /\ en' = Auto(text) /\ lastAuto' = Auto(text) /\ lastBn' = text
                 /\ status' = "auto"

\* The effects on the debounced text, with its timer, and on the text itself.
TranslateSettled ==
    /\ mode = "translate" /\ (debounced # bn \/ ~mounted)
    /\ IF status = "manual" THEN kept' = (kept \/ Waiting) /\ UNCHANGED <<en, autoVars>>
       ELSE RunTranslation(bn, FALSE)
ConvertTyped ==
    /\ mode = "convert" /\ (debounced # bn \/ ~mounted)
    /\ UNCHANGED kept
    /\ IF status = "manual" THEN UNCHANGED <<en, autoVars>> ELSE RunConversion(bn, FALSE)

Effect ==
    /\ TranslateSettled \/ ConvertTyped
    /\ debounced' = bn /\ mounted' = TRUE
    /\ UNCHANGED <<mode, bn, redone>>

ApplyAlways(call) == en' = Auto(call.text) /\ lastAuto' = Auto(call.text)
                     /\ lastBn' = call.text /\ status' = "auto"
Apply(call) ==
    IF ~Newest(call) \/ (~call.force /\ (status = "manual" \/ ~Replaceable))
    THEN UNCHANGED <<en, status, lastAuto, lastBn>>
    ELSE en' = Auto(call.text) /\ lastAuto' = Auto(call.text)
         /\ lastBn' = call.text /\ status' = "auto"

Translated(call) ==
    /\ calls' = calls \ {call}
    /\ Apply(call)
    /\ UNCHANGED <<mode, bn, debounced, asked, mounted, kept, redone>>

NotTranslatedSilent(call) ==
    /\ calls' = calls \ {call}
    /\ UNCHANGED <<mode, fieldVars, status, lastAuto, lastBn, asked, mounted, kept, redone>>
NotTranslated(call) ==
    /\ calls' = calls \ {call}
    /\ status' = IF ~Newest(call) \/ (~call.force /\ status = "manual") THEN status ELSE "failed"
    /\ UNCHANGED <<mode, fieldVars, lastAuto, lastBn, asked, mounted, kept, redone>>

-----------------------------------------------------------------------------
(* The user.                                                               *)

\* A conversion follows each letter, before the next event.
Ready == mounted /\ (mode = "convert" => debounced = bn)

TypeBangla(text) ==
    /\ Ready /\ text # bn /\ bn' = text
    /\ kept' = (kept \/ (text = debounced /\ (Waiting \/ lastBn # text)))
    /\ UNCHANGED <<mode, en, debounced, autoVars, mounted, redone>>

\* handleEnChange.
TypeEnglish(value) ==
    /\ Ready /\ value # en /\ en' = value
    /\ status' = IF value # lastAuto THEN "manual" ELSE status
    /\ UNCHANGED <<mode, bn, debounced, lastAuto, lastBn, asked, calls, mounted, kept, redone>>

\* Re-translate, Re-convert.
Redo ==
    /\ Ready /\ bn # 0 /\ status # "translating"
    /\ IF mode = "translate" THEN RunTranslation(bn, TRUE)
       ELSE RunConversion(bn, TRUE) /\ UNCHANGED kept
    /\ redone' = TRUE
    /\ UNCHANGED <<mode, bn, debounced, mounted>>

User == (\E text \in 0..MaxText : TypeBangla(text)) \/ (\E v \in {NoText, Hand} : TypeEnglish(v))
        \/ Redo

System == Effect \/ \E call \in calls : Translated(call) \/ NotTranslated(call)

Next == User \/ System

Spec == Init /\ [][Next]_vars

-----------------------------------------------------------------------------
TypeOK ==
    /\ mode \in {"translate", "convert"}
    /\ bn \in 0..MaxText /\ debounced \in 0..MaxText /\ lastBn \in 0..MaxText
    /\ en \in English /\ lastAuto \in English /\ status \in Statuses
    /\ asked \in 0..MaxCalls /\ calls \subseteq Call
    /\ {mounted, kept, redone} \subseteq BOOLEAN

Quiet == calls = {} /\ debounced = bn /\ mounted

(* "Manual edits are not overwritten until Re-translate": only the user and the     *)
(* answer to a Re-translate change an English text typed by hand.                   *)
HandTextKept ==
    [][en = Hand /\ en' # en =>
          \/ User
          \/ \E call \in calls : call.force /\ Newest(call) /\ Translated(call)]_vars

(* At rest an English text that is said to be automatic is that of the Bangla text  *)
(* beside it, unless that changed while a translation was under way and none of it  *)
(* was asked for: it was put back or taken away, or the English was typed by hand.  *)
(* And "translating" is not shown for ever where no Re-translate was pressed: one   *)
(* that a request of the typed text follows, over a text typed by hand, ends        *)
(* without a word.                                                                  *)
AutoTextFits == Quiet /\ status = "auto" => en = Auto(bn) \/ kept
TranslatingEnds == status = "translating" => Waiting \/ redone
AutomaticTextSettles == AutoTextFits /\ TranslatingEnds

=============================================================================
