------------------------- MODULE AdminScreenProofs -------------------------
(***************************************************************************)
(* Theorems about AdminScreens, for every value of its constants: for each *)
(* screen what every step of it keeps, then all of them together.          *)
(***************************************************************************)
EXTENDS AdminScreens, FiniteSetTheorems, SequenceTheorems, TLAPS

\* The bounds are natural numbers.
LEMMA Bounds ==
    /\ MaxPresses \in Nat /\ MaxOpenings \in Nat /\ MaxEdits \in Nat
    /\ MaxText \in Nat /\ MaxText >= 1 /\ MaxTranslations \in Nat
    /\ MaxPictures \in Nat /\ MaxCameras \in Nat /\ MaxFiles \in Nat
    /\ MaxCustomers \in Nat /\ MaxSearch \in Nat /\ MaxInvited \in Nat /\ Threshold \in Nat
    /\ MaxSessions \in Nat /\ MaxCalls \in Nat
    /\ MaxVersions \in Nat /\ MaxVersions >= 1 /\ MaxRecent \in Nat /\ MaxRecent >= 1
    /\ MaxPage \in Nat /\ MaxPage >= 1
  BY ScreenConstants

-----------------------------------------------------------------------------
(* The import of villages.                                                 *)

ImportTyped ==
    /\ selectedFile \in 0..MaxFiles /\ files \in 0..MaxFiles /\ isPreviewing \in 0..MaxFiles
    /\ confirmed \in 0..MaxFiles
    /\ preview \in [file : 0..MaxFiles, clean : BOOLEAN]
    /\ isImporting \in [file : 0..MaxFiles, tried : 0..MaxFiles]
    /\ confirmOpen \in BOOLEAN /\ overtaken \in BOOLEAN

(* The summary on display is that of the file chosen, unless another was chosen    *)
(* during its trial; and the dialog was opened for the file that is chosen still,  *)
(* since none can be chosen under it.                                              *)
ImportInvariant ==
    /\ ImportTyped
    /\ preview.clean /\ selectedFile # 0 /\ ~overtaken => preview.file = selectedFile
    /\ confirmOpen /\ selectedFile # 0 => confirmed = selectedFile
    /\ Import!ImportedWasTried

\* What a summary says, as it is read.
LEMMA Summaries ==
    /\ \A f \in 0..MaxFiles, c \in BOOLEAN :
          /\ [file |-> f, clean |-> c] \in [file : 0..MaxFiles, clean : BOOLEAN]
          /\ [file |-> f, clean |-> c].file = f
          /\ [file |-> f, clean |-> c].clean = c
    /\ Import!NoSummary \in [file : 0..MaxFiles, clean : BOOLEAN]
    /\ Import!NoSummary.clean = FALSE
<1>1. 0 \in 0..MaxFiles
  BY Bounds
<1> QED
  BY <1>1 DEF Import!NoSummary

LEMMA ImportInit == Import!Init => ImportInvariant
<1> SUFFICES ASSUME Import!Init PROVE ImportInvariant
  OBVIOUS
<1>1. preview \in [file : 0..MaxFiles, clean : BOOLEAN] /\ preview.clean = FALSE
  BY Summaries DEF Import!Init
<1>2. /\ isImporting \in [file : 0..MaxFiles, tried : 0..MaxFiles]
      /\ isImporting.tried = isImporting.file
  BY Bounds DEF Import!Init, Import!NoImport
<1>3. /\ selectedFile = 0 /\ files = 0 /\ isPreviewing = 0 /\ confirmed = 0
      /\ confirmOpen = FALSE /\ overtaken = FALSE
  BY DEF Import!Init
<1>4. ImportTyped
  <2>1. 0 \in 0..MaxFiles
    BY Bounds
  <2>2. confirmOpen \in BOOLEAN /\ overtaken \in BOOLEAN
    BY <1>3
  <2> QED
    BY <1>1, <1>2, <1>3, <2>1, <2>2 DEF ImportTyped
<1>5. ~preview.clean /\ ~confirmOpen
  BY <1>1, <1>3
<1> QED
  BY <1>2, <1>4, <1>5 DEF ImportInvariant, Import!ImportedWasTried

LEMMA ImportStepKeeps ==
    ASSUME ImportInvariant, Import!Next
    PROVE  ImportInvariant'
<1> USE Bounds DEF ImportInvariant, ImportTyped, Import!ImportedWasTried
<1>1. CASE Import!handleFileChange
  <2>1. /\ preview' \in [file : 0..MaxFiles, clean : BOOLEAN] /\ preview'.clean = FALSE
        /\ ~confirmOpen' /\ overtaken' = FALSE
    BY <1>1, Summaries DEF Import!handleFileChange
  <2>2. files' \in 0..MaxFiles /\ selectedFile' \in 0..MaxFiles
    BY <1>1 DEF Import!handleFileChange
  <2>3. UNCHANGED <<isPreviewing, isImporting, confirmOpen, confirmed>>
    BY <1>1 DEF Import!handleFileChange
  <2> QED
    BY <2>1, <2>2, <2>3
<1>2. CASE Import!handlePreview
  BY <1>2 DEF Import!handlePreview
<1>3. CASE Import!Previewed
  <2>1. /\ preview' \in [file : 0..MaxFiles, clean : BOOLEAN]
        /\ preview'.clean = FALSE \/ preview'.file = isPreviewing
    BY <1>3, Summaries DEF Import!Previewed
  <2>2. /\ isPreviewing' = 0 /\ overtaken' = (selectedFile # isPreviewing)
        /\ UNCHANGED <<selectedFile, files, isImporting, confirmOpen, confirmed>>
    BY <1>3 DEF Import!Previewed
  <2>3. overtaken' \in BOOLEAN /\ (~overtaken' => selectedFile = isPreviewing)
    BY <2>2
  <2>4. preview'.clean /\ selectedFile' # 0 /\ ~overtaken' => preview'.file = selectedFile'
    BY <2>1, <2>2, <2>3
  <2> QED
    BY <2>1, <2>2, <2>3, <2>4
<1>4. CASE Import!OpenConfirm
  BY <1>4 DEF Import!OpenConfirm
<1>5. CASE Import!CloseConfirm
  BY <1>5 DEF Import!CloseConfirm
<1>6. CASE Import!handleConfirmImport
  BY <1>6 DEF Import!handleConfirmImport
<1>7. CASE Import!Imported
  <2>1. /\ isImporting' \in [file : 0..MaxFiles, tried : 0..MaxFiles]
        /\ isImporting'.tried = isImporting'.file
        /\ UNCHANGED <<files, isPreviewing, confirmed>>
    BY <1>7 DEF Import!Imported, Import!NoImport
  <2>2. CASE UNCHANGED <<preview, confirmOpen, selectedFile, overtaken>>
    BY <2>1, <2>2
  <2>3. CASE /\ preview' = [file |-> isImporting.file, clean |-> TRUE]
             /\ confirmOpen' = FALSE /\ selectedFile' = 0 /\ overtaken' = FALSE
    <3>1. preview' \in [file : 0..MaxFiles, clean : BOOLEAN]
      BY <2>3, Summaries
    <3>2. confirmOpen' \in BOOLEAN /\ ~confirmOpen' /\ overtaken' \in BOOLEAN /\ selectedFile' = 0
      BY <2>3
    <3> QED
      BY <2>1, <3>1, <3>2
  <2> QED
    BY <1>7, <2>2, <2>3 DEF Import!Imported
<1> QED
  BY <1>1, <1>2, <1>3, <1>4, <1>5, <1>6, <1>7 DEF Import!Next

LEMMA ImportRests ==
    ASSUME ImportInvariant, UNCHANGED importVars
    PROVE  ImportInvariant'
  BY DEF ImportInvariant, ImportTyped, importVars, Import!ImportedWasTried

LEMMA ImportMeans == ImportInvariant => Import!TypeOK /\ Import!ImportedWasTried
  BY DEF ImportInvariant, ImportTyped, Import!TypeOK, Import!Files

-----------------------------------------------------------------------------
(* The links of the lists.                                                 *)

(* Until an Edit link or one to another version is followed, a record's address    *)
(* has what its list's links carry of the list as the user left it.                *)
LinksInvariant ==
    /\ list \in Links!Lists /\ linked \in {"list", "record", "edit"}
    /\ state \in Links!ListState /\ from \in {None} \cup Links!Query
    /\ label \in {"list", "record", "edit"} /\ astray \in BOOLEAN
    /\ linked = "edit" => astray
    /\ linked = "record" /\ ~astray /\ list.carries = "state" => from = Links!ListQuery(state)

\* The query made of a list's state is read as that state.
LEMMA QueryParsed ==
    ASSUME NEW s \in Links!ListState
    PROVE  /\ Links!ListQuery(s) \in {None} \cup Links!Query
           /\ Links!Parsed(Links!ListQuery(s)) = {s}
<1>1. CASE s = Links!Start /\ ~list.tabs
  BY <1>1 DEF Links!ListQuery, Links!Parsed
<1>2. CASE ~(s = Links!Start /\ ~list.tabs)
  <2> DEFINE q == [of |-> s, broken |-> FALSE]
  <2>1. q \in Links!Query /\ q.of = s /\ ~q.broken
    BY DEF Links!Query
  <2>2. Links!ListQuery(s) = q
    BY <1>2 DEF Links!ListQuery
  <2>3. q # None
    BY <2>1, NoneIsNothing
  <2> HIDE DEF q
  <2> QED
    BY <2>1, <2>2, <2>3 DEF Links!Parsed
<1> QED
  BY <1>1, <1>2

\* What is read of an address is a state of the list.
LEMMA ParsedTyped ==
    ASSUME NEW q \in {None} \cup Links!Query
    PROVE  Links!Parsed(q) \subseteq Links!ListState
<1> USE Bounds
<1>1. Links!Start \in Links!ListState
  BY DEF Links!Start, Links!ListState, Links!Damaged
<1>2. CASE q = None
  BY <1>1, <1>2 DEF Links!Parsed
<1>3. CASE q # None
  <2>1. q \in Links!Query /\ q.of \in Links!ListState
    BY <1>3 DEF Links!Query
  <2>2. \A s \in Links!ListState :
           /\ [s EXCEPT !.search = Links!Damaged] \in Links!ListState
           /\ [s EXCEPT !.page = 1] \in Links!ListState
           /\ [s EXCEPT !.tab = 1] \in Links!ListState
    BY DEF Links!ListState, Links!Damaged
  <2> QED
    BY <1>3, <2>1, <2>2 DEF Links!Parsed
<1> QED
  BY <1>2, <1>3

LEMMA LinksInit == Links!Init => LinksInvariant
<1> SUFFICES ASSUME Links!Init PROVE LinksInvariant
  OBVIOUS
<1>1. state \in Links!ListState
  BY Bounds DEF Links!Init, Links!Start, Links!ListState, Links!Damaged
<1>2. linked = "list" /\ from = None /\ label = "list" /\ astray \in BOOLEAN /\ list \in Links!Lists
  BY DEF Links!Init
<1> QED
  BY <1>1, <1>2 DEF LinksInvariant

LEMMA BackIsToTheList ==
    ASSUME LinksInvariant, Links!BackToList
    PROVE  state' = state \/ astray \/ list.carries # "state"
  BY QueryParsed DEF LinksInvariant, Links!BackToList, Links!Back

LEMMA LinksStepKeeps ==
    ASSUME LinksInvariant, Links!Next
    PROVE  LinksInvariant'
<1>1. CASE Links!Browse
  <2>1. state' \in Links!ListState
    BY <1>1, Bounds DEF Links!Browse, Links!ListState, Links!Damaged
  <2> QED
    BY <1>1, <2>1 DEF LinksInvariant, Links!Browse
<1>2. CASE Links!Row
  <2>1. Links!RecordUrl(state) \in {None} \cup Links!Query
    BY QueryParsed DEF LinksInvariant, Links!RecordUrl
  <2>2. list.carries = "state" => from' = Links!ListQuery(state)
    BY <1>2 DEF Links!Row, Links!Show, Links!RecordUrl
  <2>3. Links!ListQuery(state)' = Links!ListQuery(state)
    BY <1>2 DEF Links!Row, Links!Show, Links!ListQuery
  <2> QED
    BY <1>2, <2>1, <2>2, <2>3 DEF LinksInvariant, Links!Row, Links!Show
<1>3. ASSUME NEW q \in {None} \cup Links!Query, Links!EditUrl(q), astray' = TRUE, UNCHANGED state
      PROVE  LinksInvariant'
  <2>1. CASE q = None
    BY <1>3, <2>1 DEF LinksInvariant, Links!EditUrl, Links!Show
  <2>2. CASE q # None
    <3>1. [q EXCEPT !.broken = TRUE] \in Links!Query
      BY <2>2 DEF Links!Query
    <3> QED
      BY <1>3, <2>2, <3>1 DEF LinksInvariant, Links!EditUrl, Links!Show
  <2> QED
    BY <2>1, <2>2
<1>4. CASE Links!RowEdit
  <2>1. Links!RecordUrl(state) \in {None} \cup Links!Query
    BY QueryParsed DEF LinksInvariant, Links!RecordUrl
  <2> QED
    BY <1>3, <1>4, <2>1 DEF Links!RowEdit
<1>5. CASE Links!RecordEdit
  <2>1. CASE list.passes
    <3>1. PICK s \in Links!Parsed(from) : Links!EditUrl(Links!ListQuery(s))
      BY <1>5, <2>1 DEF Links!RecordEdit
    <3>2. s \in Links!ListState
      BY <3>1, ParsedTyped DEF LinksInvariant
    <3> QED
      BY <1>3, <1>5, <3>1, <3>2, QueryParsed DEF Links!RecordEdit
  <2>2. CASE ~list.passes
    BY <1>3, <1>5, <2>2 DEF Links!RecordEdit
  <2> QED
    BY <2>1, <2>2
<1>6. CASE Links!EditDone
  BY <1>6 DEF LinksInvariant, Links!EditDone, Links!Show
<1>7. CASE Links!OtherVersion
  BY <1>7 DEF LinksInvariant, Links!OtherVersion, Links!Show
<1>8. CASE Links!BackToList
  <2>1. state' \in Links!ListState
    BY <1>8, ParsedTyped DEF LinksInvariant, Links!BackToList, Links!Back
  <2> QED
    BY <1>8, <2>1 DEF LinksInvariant, Links!BackToList, Links!Show
<1> QED
  BY <1>1, <1>2, <1>4, <1>5, <1>6, <1>7, <1>8 DEF Links!Next

LEMMA LinksRest ==
    ASSUME LinksInvariant, UNCHANGED linkVars
    PROVE  LinksInvariant'
  BY DEF LinksInvariant, linkVars, Links!ListQuery

LEMMA LinksMeans == LinksInvariant => Links!TypeOK
  BY DEF LinksInvariant, Links!TypeOK

-----------------------------------------------------------------------------
(* The choice of a halkhata's invitations.                                 *)

Choosing(s) ==
    /\ s \in Invitation!Selections
    /\ s.mode = "all_active" => seen.active # 0
    /\ s.mode = "due_only" => seen.due # 0

\* How many customers the user is told a selection has.
Told(s) == IF s.mode = "manual" THEN Invitation!Cardinality(s.ids)
           ELSE IF s.mode = "all_active" THEN seen.active ELSE seen.due

\* A request says what the user was told, as does the server's answer when nobody
\* changed a customer.
RequestMeant ==
    /\ request \in Invitation!Request
    /\ Choosing(request.selection) /\ request.told = Told(request.selection)
    /\ request.told = 0 => request.retried
    /\ ~changed => request.selection.ids \subseteq active \cup past

InvitationInvariant ==
    /\ active \in SUBSET (1..MaxInvited) /\ due \in SUBSET active
    /\ closed \in BOOLEAN
    /\ shown \in SUBSET (1..MaxInvited) /\ past \in SUBSET (1..MaxInvited)
    /\ seen \in [active : 0..MaxInvited, due : 0..MaxInvited]
    /\ dialog \in BOOLEAN /\ isGenerating \in BOOLEAN /\ generateError \in BOOLEAN
    /\ changed \in BOOLEAN /\ left \in BOOLEAN
    /\ ~changed => /\ seen.active = Invitation!Cardinality(active)
                   /\ seen.due = Invitation!Cardinality(due)
                   /\ shown \subseteq active
                   /\ selection.ids \subseteq active \cup past
    /\ Choosing(selection)
    /\ dialog => Told(selection) > Threshold
    /\ request # None => RequestMeant
    /\ Invitation!InvitationsAsTold

\* A group of customers is empty or has some, and never more than there are.
LEMMA Counted ==
    ASSUME NEW s \in SUBSET (1..MaxInvited)
    PROVE  /\ Invitation!Cardinality(s) \in 0..MaxInvited
           /\ Invitation!Cardinality(s) = 0 <=> s = {}
<1> DEFINE t == s
<1>1. t \in SUBSET (1..MaxInvited)
  OBVIOUS
<1> HIDE DEF t
<1>2. Invitation!Cardinality(t) = Cardinality(t)
  BY DEF Invitation!Cardinality, Cardinality
<1>3. IsFiniteSet(1..MaxInvited) /\ Cardinality(1..MaxInvited) = MaxInvited
  BY FS_Interval, Bounds
<1>4. IsFiniteSet(t) /\ Cardinality(t) <= MaxInvited
  BY <1>1, <1>3, FS_Subset
<1>5. Cardinality(t) \in Nat /\ (Cardinality(t) = 0 <=> t = {})
  BY <1>4, FS_CardinalityType, FS_EmptySet
<1>6. Invitation!Cardinality(t) \in 0..MaxInvited /\ (Invitation!Cardinality(t) = 0 <=> t = {})
  BY <1>2, <1>4, <1>5, Bounds
<1> QED
  BY <1>6 DEF t

\* The selections there are.
LEMMA SelectionsAre ==
    /\ \A ids \in SUBSET (1..MaxInvited) :
          /\ Invitation!Manual(ids) \in Invitation!Selections
          /\ Invitation!Manual(ids).mode = "manual" /\ Invitation!Manual(ids).ids = ids
    /\ \A rule \in {"all_active", "due_only"} :
          /\ Invitation!Whole(rule) \in Invitation!Selections
          /\ Invitation!Whole(rule).mode = rule /\ Invitation!Whole(rule).ids = {}
    /\ \A s \in Invitation!Selections :
          /\ s.mode \in {"manual", "all_active", "due_only"}
          /\ s.ids \in SUBSET (1..MaxInvited)
<1> USE DEF Invitation!Manual, Invitation!Whole, Invitation!Selections, Invitation!Customers
<1>1. ASSUME NEW ids \in SUBSET (1..MaxInvited)
      PROVE  /\ Invitation!Manual(ids) \in Invitation!Selections
             /\ Invitation!Manual(ids).mode = "manual" /\ Invitation!Manual(ids).ids = ids
  OBVIOUS
<1>2. ASSUME NEW rule \in {"all_active", "due_only"}
      PROVE  /\ Invitation!Whole(rule) \in Invitation!Selections
             /\ Invitation!Whole(rule).mode = rule /\ Invitation!Whole(rule).ids = {}
  OBVIOUS
<1>3. ASSUME NEW s \in Invitation!Selections
      PROVE  /\ s.mode \in {"manual", "all_active", "due_only"}
             /\ s.ids \in SUBSET (1..MaxInvited)
  <2>1. CASE s \in [mode : {"manual"}, ids : SUBSET (1..MaxInvited)]
    BY <2>1
  <2>2. CASE s \in [mode : {"all_active", "due_only"}, ids : {{}}]
    BY <2>2
  <2> QED
    BY <2>1, <2>2
<1> QED
  BY <1>1, <1>2, <1>3

LEMMA ToldIsCounted ==
    ASSUME InvitationInvariant
    PROVE  /\ Invitation!getSelectedCustomerCount = Told(selection)
           /\ Told(selection) \in 0..MaxInvited
<1>1. /\ selection.mode \in {"manual", "all_active", "due_only"}
      /\ selection.ids \in SUBSET (1..MaxInvited)
  BY SelectionsAre DEF InvitationInvariant, Choosing
<1>2. Invitation!getSelectedCustomerCount = Told(selection)
  BY <1>1 DEF Invitation!getSelectedCustomerCount, Told
<1>3. Told(selection) \in 0..MaxInvited
  BY <1>1, Counted DEF Told, InvitationInvariant
<1> QED
  BY <1>2, <1>3

LEMMA InvitationInit == Invitation!Init => InvitationInvariant
<1> SUFFICES ASSUME Invitation!Init PROVE InvitationInvariant
  OBVIOUS
<1>1. /\ active \in SUBSET (1..MaxInvited) /\ due \in SUBSET active /\ shown = {}
      /\ closed \in BOOLEAN
      /\ past \in SUBSET (1..MaxInvited) /\ request = None
      /\ dialog \in BOOLEAN /\ isGenerating \in BOOLEAN /\ generateError \in BOOLEAN
      /\ changed \in BOOLEAN /\ left \in BOOLEAN /\ ~dialog
  BY DEF Invitation!Init, Invitation!Customers
<1>2. /\ seen = [active |-> Invitation!Cardinality(active), due |-> Invitation!Cardinality(due)]
      /\ selection = Invitation!Manual({})
  BY DEF Invitation!Init
<1>3. /\ Invitation!Cardinality(active) \in 0..MaxInvited
      /\ Invitation!Cardinality(due) \in 0..MaxInvited
  BY <1>1, Counted
<1>4. /\ seen \in [active : 0..MaxInvited, due : 0..MaxInvited]
      /\ seen.active = Invitation!Cardinality(active) /\ seen.due = Invitation!Cardinality(due)
  BY <1>2, <1>3
<1>5. Choosing(selection) /\ selection.ids = {}
  BY <1>2, SelectionsAre DEF Choosing
<1> QED
  BY <1>1, <1>4, <1>5 DEF InvitationInvariant, Invitation!InvitationsAsTold

LEMMA ChoiceKeeps ==
    ASSUME InvitationInvariant, NEW c, Choosing(c), ~changed => c.ids \subseteq active \cup past,
           Invitation!Choose(c)
    PROVE  InvitationInvariant'
<1>1. /\ selection' = c /\ ~dialog
      /\ UNCHANGED <<active, due, closed, past, changed, seen, shown, dialog, request,
                     isGenerating, generateError, left>>
  BY DEF Invitation!Choose, Invitation!serverVars
<1>2. Choosing(c)'
  BY <1>1 DEF Choosing
<1> QED
  BY <1>1, <1>2 DEF InvitationInvariant, Choosing, RequestMeant, Told,
     Invitation!InvitationsAsTold

LEMMA GenerationKeeps ==
    ASSUME InvitationInvariant, NEW agreed \in BOOLEAN, NEW retried \in BOOLEAN,
           Invitation!performGenerate(agreed, retried), UNCHANGED dialog,
           Told(selection) > Threshold => agreed \/ retried,
           Told(selection) = 0 => retried
    PROVE  InvitationInvariant'
<1>1. UNCHANGED <<active, due, closed, past, changed, seen, shown, selection, dialog, left>>
  BY DEF Invitation!performGenerate, Invitation!serverVars
<1>2. isGenerating' \in BOOLEAN /\ generateError' \in BOOLEAN
  BY DEF Invitation!performGenerate
<1> DEFINE r == [selection |-> selection, told |-> Told(selection), agreed |-> agreed,
                 retried |-> retried, status |-> "sent", cards |-> {}]
<1>3. request' = r
  BY ToldIsCounted DEF Invitation!performGenerate
<1>4. /\ r \in Invitation!Request
      /\ r.selection = selection /\ r.told = Told(selection) /\ r.agreed = agreed
      /\ r.retried = retried /\ r.status = "sent"
  BY ToldIsCounted DEF InvitationInvariant, Choosing, Invitation!Request, Invitation!Customers
<1> HIDE DEF r
<1>5. /\ Told(selection)' = Told(selection) /\ (Choosing(selection) => Choosing(selection)')
      /\ Told(request.selection)' = Told(selection)
      /\ Choosing(selection) => Choosing(request.selection)'
  BY <1>1, <1>3, <1>4 DEF Told, Choosing
<1>6. RequestMeant'
  BY <1>1, <1>3, <1>4, <1>5 DEF RequestMeant, InvitationInvariant
<1>7. Invitation!InvitationsAsTold'
  BY <1>3, <1>4 DEF Invitation!InvitationsAsTold
<1> QED
  BY <1>1, <1>2, <1>5, <1>6, <1>7 DEF InvitationInvariant

\* The server makes cards for everybody it was asked for, or for nobody.
LEMMA ServiceKeeps ==
    ASSUME InvitationInvariant, Invitation!Serve
    PROVE  InvitationInvariant'
<1>1. /\ UNCHANGED <<active, due, closed, past, changed, seen, shown, selection, dialog,
                     isGenerating, generateError, left>>
      /\ request # None
  BY DEF Invitation!Serve, Invitation!serverVars
<1>2. RequestMeant
  BY <1>1 DEF InvitationInvariant
<1> DEFINE s == request.selection
           cards == CASE s.mode = "all_active" -> active
                      [] s.mode = "due_only" -> due \cap active
                      [] OTHER -> s.ids
           made == ~closed /\ cards # {} /\ cards \subseteq active
           answer == CASE made -> "made" [] closed -> "closed" [] OTHER -> "refused"
           r == [request EXCEPT !.status = answer, !.cards = IF made THEN cards ELSE {}]
<1>3. request' = r
  BY DEF Invitation!Serve
<1>4. /\ s.mode \in {"manual", "all_active", "due_only"} /\ s.ids \in SUBSET (1..MaxInvited)
      /\ s \in Invitation!Selections
  BY <1>2, SelectionsAre DEF RequestMeant, Choosing
<1>5. /\ s.mode = "all_active" => cards = active
      /\ s.mode = "due_only" => cards = due
      /\ s.mode = "manual" => cards = s.ids
      /\ cards \in SUBSET (1..MaxInvited)
  BY <1>4 DEF InvitationInvariant
<1>6. /\ made => answer = "made" /\ ~closed
      /\ ~made /\ closed => answer = "closed"
      /\ ~made /\ ~closed => answer = "refused"
  OBVIOUS
<1>7. /\ r \in Invitation!Request /\ r.selection = s /\ r.told = request.told
      /\ r.agreed = request.agreed /\ r.retried = request.retried
      /\ r.status = answer
      /\ made => r.cards = cards
  <2>1. answer \in {"sent", "made", "refused", "closed"} /\ closed \in BOOLEAN
    BY <1>6 DEF InvitationInvariant
  <2> HIDE DEF cards, answer
  <2> QED
    BY <1>2, <1>5, <2>1 DEF RequestMeant, Invitation!Request, Invitation!Customers
<1>8. ASSUME ~changed
      PROVE  /\ Invitation!Cardinality(cards) = request.told
             /\ cards = {} => request.told = 0 /\ request.retried
             /\ s.mode # "manual" => cards # {} /\ cards \subseteq active
             /\ s.mode = "manual" => cards \subseteq active \cup past
  <2>1. /\ seen.active = Invitation!Cardinality(active) /\ seen.due = Invitation!Cardinality(due)
        /\ due \subseteq active
    BY <1>8 DEF InvitationInvariant
  <2>2. request.told = Told(s) /\ Choosing(s) /\ s.ids \subseteq active \cup past
    BY <1>2, <1>8 DEF RequestMeant
  <2>3. Invitation!Cardinality(cards) = request.told
    BY <1>4, <1>5, <2>1, <2>2 DEF Told
  <2>4. Invitation!Cardinality(cards) = 0 <=> cards = {}
    BY <1>5, Counted
  <2>5. s.mode # "manual" => Told(s) # 0 /\ cards \subseteq active
    BY <1>4, <1>5, <2>1, <2>2 DEF Told, Choosing
  <2>6. request.told = 0 => request.retried
    BY <1>2 DEF RequestMeant
  <2> HIDE DEF cards, s
  <2> QED
    BY <1>5, <2>2, <2>3, <2>4, <2>5, <2>6
<1> HIDE DEF cards, answer, r, s
<1>9. /\ Told(selection)' = Told(selection) /\ (Choosing(selection) => Choosing(selection)')
      /\ Told(request.selection)' = Told(s) /\ (Choosing(s) => Choosing(request.selection)')
  BY <1>1, <1>3, <1>7 DEF Told, Choosing
<1>10. RequestMeant'
  BY <1>1, <1>2, <1>3, <1>7, <1>9 DEF RequestMeant, s
<1>11. Invitation!InvitationsAsTold'
  <2>1. r.told > Threshold => r.agreed \/ r.retried
    BY <1>1, <1>7 DEF InvitationInvariant, Invitation!InvitationsAsTold
  <2>2. r.status = "made" => made
    BY <1>6, <1>7
  <2>3. made => changed \/ Invitation!Cardinality(r.cards) = r.told
    BY <1>7, <1>8
  <2>4. r.status = "refused" => ~made /\ ~closed
    BY <1>6, <1>7
  <2>5. ASSUME ~made, ~closed, ~changed
        PROVE  (r.told = 0 /\ r.retried) \/ r.selection.ids \cap past # {}
    <3>1. CASE cards = {}
      BY <1>7, <1>8, <2>5, <3>1
    <3>2. CASE cards # {} /\ ~(cards \subseteq active)
      <4>1. s.mode = "manual" /\ cards \subseteq active \cup past /\ cards = s.ids
        BY <1>4, <1>5, <1>8, <2>5, <3>2
      <4> QED
        BY <1>7, <3>2, <4>1
    <3> QED
      BY <2>5, <3>1, <3>2
  <2> QED
    BY <1>1, <1>3, <2>1, <2>2, <2>3, <2>4, <2>5 DEF Invitation!InvitationsAsTold
<1> QED
  BY <1>1, <1>9, <1>10, <1>11 DEF InvitationInvariant

LEMMA InvitationStepKeeps ==
    ASSUME InvitationInvariant, Invitation!Next
    PROVE  InvitationInvariant'
<1>1. CASE Invitation!Listed
  BY <1>1 DEF Invitation!Listed, Invitation!serverVars, InvitationInvariant, Choosing,
     RequestMeant,
     Told, Invitation!InvitationsAsTold
<1>2. ASSUME NEW ids \in SUBSET (1..MaxInvited), ~changed => ids \subseteq active \cup past,
             Invitation!Choose(Invitation!Manual(ids))
      PROVE  InvitationInvariant'
  BY <1>2, SelectionsAre, ChoiceKeeps DEF Choosing
<1>3. CASE \E customer \in Invitation!Customers : Invitation!toggleCustomer(customer)
  BY <1>2, <1>3, SelectionsAre DEF Invitation!toggleCustomer, Invitation!Customers,
     InvitationInvariant, Choosing
<1>4. CASE Invitation!togglePageSelection
  BY <1>2, <1>4, SelectionsAre DEF Invitation!togglePageSelection, InvitationInvariant, Choosing
<1>5. CASE Invitation!ChooseByRule
  BY <1>5, SelectionsAre, ChoiceKeeps DEF Invitation!ChooseByRule, Choosing
<1>6. CASE Invitation!Choose(Invitation!Manual({}))
  BY <1>2, <1>6
<1>7. CASE Invitation!handleReuseSelection
  BY <1>2, <1>7 DEF Invitation!handleReuseSelection, InvitationInvariant
<1>8. CASE Invitation!handleGenerateClick
  <2>1. CASE Told(selection) > Threshold
    BY <1>8, <2>1, ToldIsCounted DEF Invitation!handleGenerateClick, Invitation!serverVars,
       InvitationInvariant, Choosing, RequestMeant, Told, Invitation!InvitationsAsTold
  <2>2. CASE ~(Told(selection) > Threshold)
    <3>1. Invitation!performGenerate(FALSE, FALSE) /\ UNCHANGED dialog /\ Told(selection) > 0
      BY <1>8, <2>2, ToldIsCounted DEF Invitation!handleGenerateClick
    <3>2. Told(selection) # 0
      BY <3>1, ToldIsCounted
    <3>3. ~(Told(selection) = 0)
      BY <3>2
    <3> QED
      BY <2>2, <3>1, <3>3, GenerationKeeps, Zenon
  <2> QED
    BY <2>1, <2>2
<1>9. CASE Invitation!Confirm
  <2>1. Told(selection) > Threshold /\ Told(selection) \in Nat
    BY <1>9, ToldIsCounted, Bounds DEF Invitation!Confirm, InvitationInvariant
  <2>2. Told(selection) # 0
    BY <2>1, Bounds
  <2> QED
    BY <1>9, <2>1, <2>2, GenerationKeeps DEF Invitation!Confirm
<1>10. CASE Invitation!CloseConfirm
  BY <1>10 DEF Invitation!CloseConfirm, Invitation!serverVars, InvitationInvariant, Choosing,
     RequestMeant, Told, Invitation!InvitationsAsTold
<1>11. CASE Invitation!Retry
  BY <1>11, GenerationKeeps DEF Invitation!Retry
<1>12. CASE Invitation!Serve
  BY <1>12, ServiceKeeps
<1>13. CASE Invitation!Answered
  <2>1. /\ UNCHANGED <<active, due, closed, past, changed, seen, shown, selection>>
        /\ request' = request \/ request' = None
        /\ dialog' = FALSE /\ dialog' \in BOOLEAN /\ isGenerating' \in BOOLEAN
        /\ generateError' \in BOOLEAN /\ left' \in BOOLEAN
    BY <1>13 DEF Invitation!Answered, Invitation!serverVars, InvitationInvariant
  <2> QED
    BY <2>1 DEF InvitationInvariant, Choosing, RequestMeant, Told, Invitation!InvitationsAsTold
<1>14. CASE Invitation!Others
  <2>1. /\ changed' = TRUE /\ changed' \in BOOLEAN
        /\ active' \in SUBSET (1..MaxInvited) /\ due' \in SUBSET active'
        /\ UNCHANGED <<closed, past, seen, shown, selection, dialog, request, isGenerating,
                       generateError, left>>
    BY <1>14 DEF Invitation!Others, Invitation!Customers
  <2> QED
    BY <2>1 DEF InvitationInvariant, Choosing, RequestMeant, Told, Invitation!InvitationsAsTold
<1>15. CASE Invitation!CloseOrReopen
  <2>1. /\ closed' \in BOOLEAN
        /\ UNCHANGED <<active, due, past, changed, seen, shown, selection, dialog, request,
                       isGenerating, generateError, left>>
    BY <1>15 DEF Invitation!CloseOrReopen
  <2> QED
    BY <2>1 DEF InvitationInvariant, Choosing, RequestMeant, Told, Invitation!InvitationsAsTold
<1> QED
  BY <1>1, <1>3, <1>4, <1>5, <1>6, <1>7, <1>8, <1>9, <1>10, <1>11, <1>12, <1>13, <1>14, <1>15
     DEF Invitation!Next

LEMMA InvitationRests ==
    ASSUME InvitationInvariant, UNCHANGED invitationVars
    PROVE  InvitationInvariant'
  BY DEF InvitationInvariant, invitationVars, Choosing, RequestMeant, Told,
     Invitation!InvitationsAsTold

LEMMA InvitationMeans ==
    InvitationInvariant => Invitation!TypeOK /\ Invitation!InvitationsAsTold
  BY DEF InvitationInvariant, Invitation!TypeOK, Choosing, RequestMeant, Invitation!Customers

-----------------------------------------------------------------------------
(* The picker of a picture.                                                *)

PickerTyped ==
    /\ pickerMode \in {"idle", "preview", "camera"}
    /\ value \in 0..MaxPictures /\ chosen \in 0..MaxPictures /\ choice \in 0..MaxPictures
    /\ compressing \in SUBSET Picker!Compression
    /\ cameras \in 0..MaxCameras
    /\ cameraRequests \in SUBSET (1..MaxCameras) /\ live \in SUBSET (1..MaxCameras)
    /\ stream \in {0} \cup live
    /\ onPage \in BOOLEAN /\ crossed \in BOOLEAN /\ hidden \in BOOLEAN /\ leaked \in BOOLEAN

\* The last choice is the form's, or it is all that is being compressed.
ChoiceArrives ==
    onPage /\ ~crossed =>
        \/ compressing = {} /\ value = choice
        \/ \E c \in Picker!Compression : compressing = {c} /\ c.picture = choice

\* Away from the camera the form's picture is shown.
PictureShown == pickerMode # "camera" => (pickerMode = "preview" <=> value # 0) \/ hidden

\* One camera at a time: asked for, or running and shown.
OneCamera ==
    ~leaked =>
        /\ live \subseteq {stream}
        /\ live = {} \/ (onPage /\ pickerMode = "camera")
        /\ \/ cameraRequests = {}
           \/ live = {} /\ onPage /\ \E n \in 1..MaxCameras : cameraRequests = {n}

PickerInvariant == PickerTyped /\ ChoiceArrives /\ PictureShown /\ OneCamera

LEMMA PickerInit == Picker!Init => PickerInvariant
<1> SUFFICES ASSUME Picker!Init PROVE PickerInvariant
  OBVIOUS
<1>1. /\ pickerMode = "idle" /\ value = 0 /\ chosen = 0 /\ compressing = {} /\ choice = 0
      /\ cameras = 0 /\ cameraRequests = {} /\ live = {} /\ stream = 0
  BY DEF Picker!Init
<1>2. onPage \in BOOLEAN /\ crossed \in BOOLEAN /\ hidden \in BOOLEAN /\ leaked \in BOOLEAN
  BY DEF Picker!Init
<1> QED
  BY <1>1, <1>2, Bounds DEF PickerInvariant, PickerTyped, ChoiceArrives, PictureShown, OneCamera

LEMMA PictureChosen ==
    ASSUME PickerInvariant, NEW taken \in BOOLEAN, Picker!Choose(taken),
           UNCHANGED <<value, onPage>>
    PROVE  /\ chosen' \in 0..MaxPictures /\ choice' \in 0..MaxPictures
           /\ compressing' \in SUBSET Picker!Compression
           /\ crossed' \in BOOLEAN /\ ChoiceArrives'
<1> DEFINE c == [picture |-> chosen + 1, taken |-> taken]
<1>1. chosen + 1 \in 1..MaxPictures /\ chosen' = chosen + 1 /\ choice' = chosen + 1
  BY Bounds DEF PickerInvariant, PickerTyped, Picker!Choose
<1>2. c \in Picker!Compression /\ c.picture = chosen + 1
  BY <1>1 DEF Picker!Compression
<1>3. compressing' = compressing \cup {c} /\ crossed' = (compressing # {})
  BY DEF Picker!Choose
<1> HIDE DEF c
<1>4. ~crossed' => compressing' = {c}
  BY <1>3
<1> QED
  BY <1>1, <1>2, <1>3, <1>4 DEF PickerInvariant, PickerTyped, ChoiceArrives

LEMMA PickerStepKeeps ==
    ASSUME PickerInvariant, Picker!Next
    PROVE  PickerInvariant'
<1> USE DEF PickerInvariant, PickerTyped, Picker!cameraVars, Picker!historyVars
<1>1. CASE Picker!handleUploadChange
  <2>1. /\ UNCHANGED <<pickerMode, value, cameras, cameraRequests, live, stream, onPage,
                       hidden, leaked>>
        /\ Picker!Choose(FALSE)
    BY <1>1 DEF Picker!handleUploadChange
  <2>2. /\ chosen' \in 0..MaxPictures /\ choice' \in 0..MaxPictures
        /\ compressing' \in SUBSET Picker!Compression
        /\ crossed' \in BOOLEAN /\ ChoiceArrives'
    BY <2>1, PictureChosen, Zenon
  <2> QED
    BY <2>1, <2>2 DEF PictureShown, OneCamera
<1>2. CASE Picker!capturePhoto
  <2>1. /\ UNCHANGED <<pickerMode, value, cameras, cameraRequests, onPage, hidden, leaked>>
        /\ Picker!Choose(TRUE) /\ live' = live \ {stream} /\ stream' = 0
        /\ pickerMode = "camera"
    BY <1>2 DEF Picker!capturePhoto, Picker!stopCamera
  <2>2. /\ chosen' \in 0..MaxPictures /\ choice' \in 0..MaxPictures
        /\ compressing' \in SUBSET Picker!Compression
        /\ crossed' \in BOOLEAN /\ ChoiceArrives'
    BY <2>1, PictureChosen, Zenon
  <2> QED
    BY <2>1, <2>2 DEF PictureShown, OneCamera
<1>3. CASE Picker!startCamera
  <2>1. /\ UNCHANGED <<pickerMode, value, chosen, compressing, onPage, choice, crossed, hidden>>
        /\ onPage /\ pickerMode # "camera"
        /\ cameras + 1 \in 1..MaxCameras /\ cameras' = cameras + 1
        /\ cameraRequests' = cameraRequests \cup {cameras + 1}
        /\ live' = live \ {stream} /\ stream' = 0
        /\ leaked' = (leaked \/ cameraRequests # {})
    BY <1>3, Bounds DEF Picker!startCamera, Picker!stopCamera
  <2>2. leaked' \in BOOLEAN /\ (~leaked' => ~leaked /\ cameraRequests = {})
    BY <2>1
  <2>3. OneCamera'
    BY <2>1, <2>2 DEF OneCamera
  <2> QED
    BY <2>1, <2>2, <2>3 DEF PictureShown, ChoiceArrives
<1>4. CASE Picker!cancelCamera
  <2>1. /\ UNCHANGED <<value, chosen, compressing, cameras, cameraRequests, onPage, choice,
                       crossed, leaked>>
        /\ live' = live \ {stream} /\ stream' = 0 /\ hidden' = FALSE /\ hidden' \in BOOLEAN
        /\ pickerMode' = IF value # 0 THEN "preview" ELSE "idle"
    BY <1>4 DEF Picker!cancelCamera, Picker!stopCamera
  <2> QED
    BY <2>1 DEF PictureShown, ChoiceArrives, OneCamera
<1>5. CASE Picker!removeImage
  <2>1. /\ UNCHANGED <<chosen, compressing, cameras, cameraRequests, onPage, leaked>>
        /\ live' = live \ {stream} /\ stream' = 0 /\ hidden' = FALSE /\ hidden' \in BOOLEAN
        /\ value' = 0 /\ pickerMode' = "idle" /\ choice' = 0 /\ pickerMode = "preview"
    BY <1>5 DEF Picker!removeImage, Picker!stopCamera
  <2>2. crossed' \in BOOLEAN /\ (~crossed' => compressing = {})
    BY <1>5 DEF Picker!removeImage
  <2> QED
    BY <2>1, <2>2, Bounds DEF PictureShown, ChoiceArrives, OneCamera
<1>6. CASE Picker!Leave
  <2>1. /\ UNCHANGED <<pickerMode, value, chosen, compressing, cameras, cameraRequests, choice,
                       crossed, hidden>>
        /\ live' = live \ {stream} /\ stream' = 0 /\ onPage' = FALSE /\ onPage' \in BOOLEAN
    BY <1>6 DEF Picker!Leave, Picker!stopCamera
  <2>2. leaked' \in BOOLEAN /\ (~leaked' => ~leaked /\ cameraRequests = {})
    BY <1>6 DEF Picker!Leave
  <2> QED
    BY <2>1, <2>2 DEF PictureShown, ChoiceArrives, OneCamera
<1>7. ASSUME NEW c \in compressing, Picker!Compressed(c) PROVE PickerInvariant'
  <2>1. c \in Picker!Compression /\ c.picture \in 1..MaxPictures
    BY DEF Picker!Compression
  <2>2. /\ UNCHANGED <<chosen, cameras, cameraRequests, onPage, choice, crossed, leaked>>
        /\ compressing' = compressing \ {c}
    BY <1>7 DEF Picker!Compressed
  <2>3. CASE onPage
    <3>1. /\ value' = c.picture /\ pickerMode' = "preview" /\ hidden' = FALSE
          /\ hidden' \in BOOLEAN /\ live' = live \ {stream} /\ stream' = 0
      BY <1>7, <2>3 DEF Picker!Compressed, Picker!stopCamera
    <3>2. ChoiceArrives'
      BY <2>1, <2>2, <3>1 DEF ChoiceArrives
    <3> QED
      BY <2>1, <2>2, <3>1, <3>2, Bounds DEF PictureShown, OneCamera
  <2>4. CASE ~onPage
    <3>1. UNCHANGED <<value, pickerMode, live, stream, hidden>>
      BY <1>7, <2>4 DEF Picker!Compressed
    <3> QED
      BY <2>2, <2>4, <3>1 DEF ChoiceArrives, PictureShown, OneCamera
  <2> QED
    BY <2>3, <2>4
<1>8. ASSUME NEW c \in compressing, Picker!CompressionFailed(c) PROVE PickerInvariant'
  <2>1. /\ UNCHANGED <<value, chosen, cameras, cameraRequests, live, stream, onPage, choice>>
        /\ compressing' = compressing \ {c} /\ crossed' = TRUE /\ crossed' \in BOOLEAN
        /\ pickerMode' = IF c.taken /\ onPage THEN "idle" ELSE pickerMode
    BY <1>8 DEF Picker!CompressionFailed
  <2>2. /\ hidden' \in BOOLEAN /\ (~hidden' => ~hidden /\ ~(c.taken /\ value # 0))
        /\ leaked' \in BOOLEAN /\ (~leaked' => ~leaked /\ ~(c.taken /\ live # {}))
    BY <1>8 DEF Picker!CompressionFailed
  <2> QED
    BY <2>1, <2>2 DEF ChoiceArrives, PictureShown, OneCamera
<1>9. ASSUME NEW n \in cameraRequests, Picker!CameraOpened(n) PROVE PickerInvariant'
  BY <1>9 DEF Picker!CameraOpened, ChoiceArrives, PictureShown, OneCamera
<1>10. ASSUME NEW n \in cameraRequests, Picker!CameraRefused(n) PROVE PickerInvariant'
  BY <1>10 DEF Picker!CameraRefused, ChoiceArrives, PictureShown, OneCamera
<1> QED
  BY <1>1, <1>2, <1>3, <1>4, <1>5, <1>6, <1>7, <1>8, <1>9, <1>10 DEF Picker!Next

LEMMA PickerRests ==
    ASSUME PickerInvariant, UNCHANGED pickerVars
    PROVE  PickerInvariant'
  BY DEF PickerInvariant, PickerTyped, pickerVars, ChoiceArrives, PictureShown, OneCamera

LEMMA PickerMeans ==
    PickerInvariant =>
        Picker!TypeOK /\ Picker!PictureIsTheChoice /\ Picker!CameraOnlyWhileShown
<1> SUFFICES ASSUME PickerInvariant
             PROVE  Picker!TypeOK /\ Picker!PictureIsTheChoice /\ Picker!CameraOnlyWhileShown
  OBVIOUS
<1>1. Picker!TypeOK
  BY DEF PickerInvariant, PickerTyped, Picker!TypeOK, Picker!Pictures
<1>2. Picker!PictureIsTheChoice
  BY DEF PickerInvariant, PickerTyped, ChoiceArrives, PictureShown, Picker!PictureIsTheChoice
<1>3. Picker!CameraOnlyWhileShown
  BY DEF PickerInvariant, PickerTyped, OneCamera, Picker!CameraOnlyWhileShown
<1> QED
  BY <1>1, <1>2, <1>3

-----------------------------------------------------------------------------
(* The picker of a customer.                                               *)

Recents == UNION {[1..m -> 1..MaxCustomers] : m \in 0..MaxRecent}

CustomerTyped ==
    /\ use \in {"sale", "payment"}
    /\ named \in 0..MaxCustomers /\ customerId \in 0..MaxCustomers
    /\ selected \in 0..MaxCustomers /\ looking \in 0..MaxCustomers
    /\ forsaken \in 0..MaxCustomers /\ picked \in 0..MaxCustomers
    /\ search \in 0..MaxSearch /\ searchDebounced \in 0..MaxSearch
    /\ options \in {None} \cup 0..MaxSearch /\ searching \in {None} \cup 0..MaxSearch
    /\ cancelled \in {None} \cup 0..MaxSearch
    /\ searchFailed \in BOOLEAN /\ unstored \in BOOLEAN
    /\ preselected \in {"no", "awaited", "shown", "imposed"}
    /\ use = "payment" => named = 0

\* The customer looked up is the form's, and not on display.
LookupIsOfTheForms == looking # 0 => looking = customerId /\ selected # customerId

\* The request under way is of the text the timer fired for, and without one the options
\* are of that text.
SearchIsOfTheText ==
    /\ searching # None => searching = searchDebounced
    /\ use = "payment" /\ searchDebounced = 0 => searching = None
    /\ searching = None =>
        \/ options = (IF use = "payment" /\ searchDebounced = 0 THEN None ELSE searchDebounced)
        \/ searchFailed

RecentsKept ==
    /\ recents \in Recents
    /\ \A i, j \in DOMAIN recents : recents[i] = recents[j] => i = j
    /\ picked # 0 => unstored \/ recents[1] = picked

CustomerInvariant ==
    CustomerTyped /\ LookupIsOfTheForms /\ SearchIsOfTheText /\ RecentsKept /\ Customer!ShownIsSent

\* Two sequences of customers, one after the other.
LEMMA OneAfterTheOther ==
    ASSUME NEW a \in Seq(1..MaxCustomers), NEW b \in Seq(1..MaxCustomers)
    PROVE  /\ a \o b \in Seq(1..MaxCustomers)
           /\ Len(a \o b) = Len(a) + Len(b)
           /\ \A i \in 1..(Len(a) + Len(b)) :
                 (a \o b)[i] = IF i <= Len(a) THEN a[i] ELSE b[i - Len(a)]
<1> DEFINE S == 1..MaxCustomers
<1>1. a \in Seq(S) /\ b \in Seq(S)
  OBVIOUS
<1> HIDE DEF S
<1>2. /\ a \o b \in Seq(S)
      /\ Len(a \o b) = Len(a) + Len(b)
      /\ \A i \in 1..(Len(a) + Len(b)) :
            (a \o b)[i] = IF i <= Len(a) THEN a[i] ELSE b[i - Len(a)]
  BY <1>1, ConcatProperties
<1> QED
  BY <1>2 DEF S

\* A function on the first numbers is a sequence.
LEMMA FunctionsAreSeqs ==
    ASSUME NEW m \in Nat, NEW s \in [1..m -> 1..MaxCustomers]
    PROVE  s \in Seq(1..MaxCustomers) /\ Len(s) = m /\ DOMAIN s = 1..m
<1> DEFINE q == SubSeq(s, 1, m)
<1>1. \A i \in 1..m : s[i] \in 1..MaxCustomers
  OBVIOUS
<1>2. /\ q \in Seq(1..MaxCustomers) /\ Len(q) = m
      /\ \A i \in 1..m : q[i] = s[i]
  BY <1>1, SubSeqProperties
<1> HIDE DEF q
<1>3. q \in [1..m -> 1..MaxCustomers]
  BY <1>2, LenProperties
<1>4. q = s
  BY <1>2, <1>3
<1> QED
  BY <1>2, <1>4

\* Among customers of whom nobody is there twice, one who is taken out leaves the others.
LEMMA TakenOut ==
    ASSUME NEW m \in Nat, NEW s \in [1..m -> 1..MaxCustomers],
           \A i, j \in 1..m : s[i] = s[j] => i = j,
           NEW c \in 1..MaxCustomers
    PROVE  \E n \in 0..m :
              /\ Customer!Without(s, c) \in [1..n -> 1..MaxCustomers]
              /\ \A i, j \in 1..n :
                    Customer!Without(s, c)[i] = Customer!Without(s, c)[j] => i = j
              /\ \A i \in 1..n : Customer!Without(s, c)[i] # c
<1>1. s \in Seq(1..MaxCustomers) /\ Len(s) = m /\ DOMAIN s = 1..m
  BY FunctionsAreSeqs
<1>2. CASE ~(\E i \in 1..m : s[i] = c)
  <2>1. Customer!Without(s, c) = s
    BY <1>1, <1>2 DEF Customer!Without, Customer!Contains
  <2> QED
    BY <1>2, <2>1
<1>3. CASE \E i \in 1..m : s[i] = c
  <2> DEFINE k == CHOOSE i \in DOMAIN s : s[i] = c
             t == SubSeq(s, 1, k - 1) \o SubSeq(s, k + 1, Len(s))
             u == [i \in 1..(m - 1) |-> IF i < k THEN s[i] ELSE s[i + 1]]
  <2>1. k \in 1..m /\ s[k] = c
    BY <1>1, <1>3
  <2>2. Customer!Without(s, c) = t
    BY <1>1, <1>3 DEF Customer!Without, Customer!Contains, Customer!RemoveAt
  <2> HIDE DEF k
  <2>3. /\ SubSeq(s, 1, k - 1) \in Seq(1..MaxCustomers) /\ Len(SubSeq(s, 1, k - 1)) = k - 1
        /\ \A i \in 1..(k - 1) : SubSeq(s, 1, k - 1)[i] = s[i]
    BY <1>1, <2>1, SubSeqProperties
  <2>4. /\ SubSeq(s, k + 1, Len(s)) \in Seq(1..MaxCustomers)
        /\ Len(SubSeq(s, k + 1, Len(s))) = m - k
        /\ \A i \in 1..(m - k) : SubSeq(s, k + 1, Len(s))[i] = s[k + i]
    BY <1>1, <2>1, SubSeqProperties
  <2>5. t = u
    <3>1. /\ t \in Seq(1..MaxCustomers) /\ Len(t) = m - 1
          /\ \A i \in 1..(m - 1) : t[i] = IF i <= k - 1 THEN SubSeq(s, 1, k - 1)[i]
                                         ELSE SubSeq(s, k + 1, Len(s))[i - (k - 1)]
      <4> DEFINE front == SubSeq(s, 1, k - 1)
                 back == SubSeq(s, k + 1, Len(s))
      <4>1. /\ front \in Seq(1..MaxCustomers) /\ back \in Seq(1..MaxCustomers)
            /\ Len(front) = k - 1 /\ Len(back) = m - k
        BY <2>3, <2>4
      <4> HIDE DEF front, back
      <4>2. /\ front \o back \in Seq(1..MaxCustomers)
            /\ Len(front \o back) = m - 1
            /\ \A i \in 1..(m - 1) :
                  (front \o back)[i] = IF i <= k - 1 THEN front[i] ELSE back[i - (k - 1)]
        <5>1. /\ front \o back \in Seq(1..MaxCustomers)
              /\ Len(front \o back) = Len(front) + Len(back)
              /\ \A i \in 1..(Len(front) + Len(back)) :
                    (front \o back)[i] = IF i <= Len(front) THEN front[i] ELSE back[i - Len(front)]
          BY <4>1, OneAfterTheOther, Zenon
        <5>2. Len(front) + Len(back) = m - 1
          BY <2>1, <4>1
        <5> QED
          BY <4>1, <5>1, <5>2
      <4> QED
        BY <4>2 DEF front, back
    <3> HIDE DEF t
    <3>2. t \in [1..(m - 1) -> 1..MaxCustomers]
      BY <3>1, LenProperties
    <3>3. \A i \in 1..(m - 1) : t[i] = u[i]
      BY <1>1, <2>1, <2>3, <2>4, <3>1
    <3> QED
      BY <3>2, <3>3
  <2>6. u \in [1..(m - 1) -> 1..MaxCustomers] /\ m - 1 \in 0..m
    BY <2>1
  <2>7. \A i \in 1..(m - 1) : u[i] # c
    BY <2>1
  <2>8. \A i, j \in 1..(m - 1) : u[i] = u[j] => i = j
    BY <2>1
  <2> QED
    BY <2>2, <2>5, <2>6, <2>7, <2>8
<1> QED
  BY <1>2, <1>3

\* A customer picked comes first, once, and the list is no longer than it may be.
LEMMA RecentPut ==
    ASSUME recents \in Recents,
           \A i, j \in DOMAIN recents : recents[i] = recents[j] => i = j,
           NEW c \in 1..MaxCustomers
    PROVE  /\ Customer!Recent(c) \in Recents
           /\ \A i, j \in DOMAIN Customer!Recent(c) :
                 Customer!Recent(c)[i] = Customer!Recent(c)[j] => i = j
           /\ Customer!Recent(c)[1] = c
<1>1. PICK m \in 0..MaxRecent : recents \in [1..m -> 1..MaxCustomers]
  BY DEF Recents
<1> DEFINE w == Customer!Without(recents, c)
<1>2. PICK n \in 0..m :
         /\ w \in [1..n -> 1..MaxCustomers]
         /\ \A i, j \in 1..n : w[i] = w[j] => i = j
         /\ \A i \in 1..n : w[i] # c
  <2>1. \A i, j \in 1..m : recents[i] = recents[j] => i = j
    BY <1>1
  <2>2. m \in Nat
    BY <1>1
  <2>3. \E n \in 0..m :
           /\ Customer!Without(recents, c) \in [1..n -> 1..MaxCustomers]
           /\ \A i, j \in 1..n :
                 Customer!Without(recents, c)[i] = Customer!Without(recents, c)[j] => i = j
           /\ \A i \in 1..n : Customer!Without(recents, c)[i] # c
    BY <1>1, <2>1, <2>2, TakenOut, Zenon
  <2> QED
    BY <2>3
<1> HIDE DEF w
<1>3. n \in Nat /\ n <= MaxRecent
  BY <1>1, Bounds
<1>4. w \in Seq(1..MaxCustomers) /\ Len(w) = n
  BY <1>2, <1>3, FunctionsAreSeqs
<1> DEFINE all == <<c>> \o w
<1>5. /\ all \in Seq(1..MaxCustomers) /\ Len(all) = n + 1
      /\ \A i \in 1..(n + 1) : all[i] = IF i <= 1 THEN c ELSE w[i - 1]
  <2>1. <<c>> \in Seq(1..MaxCustomers) /\ Len(<<c>>) = 1 /\ <<c>>[1] = c
    OBVIOUS
  <2> DEFINE one == <<c>>
  <2>2. one \in Seq(1..MaxCustomers) /\ Len(one) = 1 /\ one[1] = c
    BY <2>1
  <2> HIDE DEF one
  <2>3. /\ one \o w \in Seq(1..MaxCustomers) /\ Len(one \o w) = Len(one) + Len(w)
        /\ \A i \in 1..(Len(one) + Len(w)) :
              (one \o w)[i] = IF i <= Len(one) THEN one[i] ELSE w[i - Len(one)]
    BY <1>4, <2>2, OneAfterTheOther, Zenon
  <2>4. Len(one) + Len(w) = n + 1
    BY <1>3, <1>4, <2>2
  <2>5. all = one \o w
    BY DEF one
  <2> HIDE DEF all
  <2> QED
    BY <1>3, <2>2, <2>3, <2>4, <2>5
<1>6. Customer!Recent(c) = IF Len(all) > MaxRecent THEN SubSeq(all, 1, Len(all) - 1) ELSE all
  BY DEF Customer!Recent, Customer!Front, w
<1> HIDE DEF all
<1>7. /\ all \in [1..(n + 1) -> 1..MaxCustomers] /\ all[1] = c
      /\ \A i, j \in 1..(n + 1) : all[i] = all[j] => i = j
  <2>1. all \in [1..(n + 1) -> 1..MaxCustomers]
    BY <1>5, LenProperties
  <2>2. \A i \in 2..(n + 1) : i - 1 \in 1..n /\ all[i] = w[i - 1] /\ all[i] # c
    BY <1>2, <1>3, <1>5
  <2>3. all[1] = c
    BY <1>3, <1>5
  <2>4. \A i, j \in 2..(n + 1) : all[i] = all[j] => i = j
    BY <1>2, <1>3, <2>2
  <2> QED
    BY <1>3, <2>1, <2>2, <2>3, <2>4
<1>8. CASE n + 1 > MaxRecent
  <2> DEFINE cut == SubSeq(all, 1, Len(all) - 1)
  <2>1. n = MaxRecent /\ n >= 1
    BY <1>3, <1>8, Bounds
  <2>2. cut \in Seq(1..MaxCustomers) /\ Len(cut) = n /\ \A i \in 1..n : cut[i] = all[i]
    <3>1. \A i \in 1..n : all[i] \in 1..MaxCustomers
      BY <1>3, <1>7
    <3>2. /\ SubSeq(all, 1, n) \in Seq(1..MaxCustomers) /\ Len(SubSeq(all, 1, n)) = n
          /\ \A i \in 1..n : SubSeq(all, 1, n)[i] = all[i]
      BY <1>3, <2>1, <3>1, SubSeqProperties
    <3>3. Len(all) - 1 = n
      BY <1>3, <1>5
    <3> QED
      BY <3>2, <3>3
  <2>3. Customer!Recent(c) = cut
    BY <1>3, <1>5, <1>6, <1>8
  <2> HIDE DEF cut
  <2>4. cut \in [1..n -> 1..MaxCustomers]
    BY <2>2, LenProperties
  <2>5. \A i, j \in 1..n : cut[i] = cut[j] => i = j
    BY <1>3, <1>7, <2>2
  <2> QED
    BY <1>3, <1>7, <2>1, <2>2, <2>3, <2>4, <2>5 DEF Recents
<1>9. CASE ~(n + 1 > MaxRecent)
  <2>1. Customer!Recent(c) = all
    BY <1>5, <1>6, <1>9
  <2>2. n + 1 \in 0..MaxRecent
    BY <1>3, <1>9, Bounds
  <2> QED
    BY <1>7, <2>1, <2>2 DEF Recents
<1> QED
  BY <1>8, <1>9

LEMMA CustomerInit == Customer!Init => CustomerInvariant
<1> SUFFICES ASSUME Customer!Init PROVE CustomerInvariant
  OBVIOUS
<1> USE Bounds
<1>1. /\ use \in {"sale", "payment"} /\ named \in 0..MaxCustomers
      /\ use = "payment" => named = 0
      /\ search = 0 /\ searchDebounced = 0 /\ options = None /\ cancelled = None
      /\ searching = (IF use = "sale" THEN 0 ELSE None)
      /\ customerId = named /\ selected = 0 /\ looking = named /\ forsaken = 0
      /\ recents = <<>> /\ picked = 0
  BY DEF Customer!Init
<1>2. /\ searchFailed \in BOOLEAN /\ unstored \in BOOLEAN
      /\ preselected \in {"no", "awaited", "shown", "imposed"}
  BY DEF Customer!Init
<1>3. None # 0
  BY NoneIsNothing
<1>4. CustomerTyped
  BY <1>1, <1>2 DEF CustomerTyped
<1>5. LookupIsOfTheForms /\ SearchIsOfTheText /\ Customer!ShownIsSent
  BY <1>1, <1>3 DEF LookupIsOfTheForms, SearchIsOfTheText, Customer!ShownIsSent
<1>6. RecentsKept
  <2>1. recents \in [1..0 -> 1..MaxCustomers] /\ 0 \in 0..MaxRecent
    BY <1>1
  <2>2. DOMAIN recents = {}
    BY <2>1
  <2> QED
    BY <1>1, <2>1, <2>2 DEF RecentsKept, Recents
<1> QED
  BY <1>4, <1>5, <1>6 DEF CustomerInvariant

\* What a step of the search alone keeps.
LEMMA ChoiceRests ==
    ASSUME CustomerInvariant, UNCHANGED <<use, named, preselected, customerId, selected,
                                          looking, forsaken,
                                          recents, picked, unstored>>
    PROVE  LookupIsOfTheForms' /\ RecentsKept' /\ Customer!ShownIsSent'
  BY DEF CustomerInvariant, LookupIsOfTheForms, RecentsKept, Customer!ShownIsSent,
     Customer!Imposed

\* What a step of the choice alone keeps.
LEMMA SearchRests ==
    ASSUME CustomerInvariant, UNCHANGED <<use, searchDebounced, options, searching, searchFailed>>
    PROVE  SearchIsOfTheText'
  BY DEF CustomerInvariant, SearchIsOfTheText

LEMMA RecentsRest ==
    ASSUME CustomerInvariant, UNCHANGED <<recents, picked, unstored>>
    PROVE  RecentsKept'
  BY DEF CustomerInvariant, RecentsKept

LEMMA CustomerStepKeeps ==
    ASSUME CustomerInvariant, Customer!Next
    PROVE  CustomerInvariant'
<1> USE Bounds
    DEF Customer!searchVars, Customer!choiceVars, Customer!recentVars, Customer!Imposed
<1>0. CustomerTyped /\ LookupIsOfTheForms /\ SearchIsOfTheText /\ RecentsKept /\ Customer!ShownIsSent
  BY DEF CustomerInvariant
<1>1. ASSUME NEW t \in 0..MaxSearch, Customer!Type(t) PROVE CustomerInvariant'
  <2>1. UNCHANGED <<use, named, preselected, searchDebounced, options, searching, cancelled,
                    searchFailed,
                    customerId, selected, looking, forsaken, recents, picked, unstored>>
    BY <1>1 DEF Customer!Type
  <2>2. CustomerTyped'
    BY <1>0, <1>1, <2>1 DEF CustomerTyped, Customer!Type
  <2> QED
    BY <2>1, <2>2, ChoiceRests, SearchRests DEF CustomerInvariant
<1>2. CASE Customer!TimerFires
  <2>1. /\ UNCHANGED <<use, named, preselected, search, customerId, selected, looking,
                       forsaken, recents,
                       picked, unstored>>
        /\ searchDebounced' = search /\ searchFailed' \in BOOLEAN
        /\ cancelled' = IF searching # None THEN searching ELSE cancelled
        /\ IF use = "payment" /\ search = 0 THEN options' = None /\ searching' = None
           ELSE searching' = search /\ UNCHANGED options
    BY <1>2 DEF Customer!TimerFires
  <2>2. CustomerTyped'
    BY <1>0, <2>1 DEF CustomerTyped
  <2>3. SearchIsOfTheText'
    <3>1. search # None
      BY <1>0, NoneIsNothing DEF CustomerTyped
    <3> QED
      BY <2>1, <3>1 DEF SearchIsOfTheText
  <2> QED
    BY <2>1, <2>2, <2>3, ChoiceRests DEF CustomerInvariant
<1>3. CASE Customer!Found
  <2>1. /\ UNCHANGED <<use, named, preselected, search, searchDebounced, cancelled,
                       searchFailed, recents,
                       picked, unstored>>
        /\ searching # None /\ options' = searching /\ searching' = None
        /\ Customer!LookAgain
    BY <1>3 DEF Customer!Found
  <2>2. CustomerTyped'
    BY <1>0, <2>1 DEF CustomerTyped, Customer!LookAgain
  <2>3. SearchIsOfTheText'
    BY <1>0, <2>1 DEF SearchIsOfTheText
  <2>4. LookupIsOfTheForms' /\ Customer!ShownIsSent'
    BY <1>0, <2>1 DEF LookupIsOfTheForms, Customer!ShownIsSent, Customer!LookAgain, CustomerTyped
  <2> QED
    BY <2>1, <2>2, <2>3, <2>4, RecentsRest DEF CustomerInvariant
<1>4. CASE Customer!NotFound
  <2>1. /\ UNCHANGED <<use, named, preselected, search, searchDebounced, options, cancelled,
                       customerId,
                       selected, looking, forsaken, recents, picked, unstored>>
        /\ searching' = None /\ searchFailed' = TRUE /\ searchFailed' \in BOOLEAN
    BY <1>4 DEF Customer!NotFound
  <2>2. CustomerTyped'
    BY <1>0, <2>1 DEF CustomerTyped
  <2>3. SearchIsOfTheText'
    BY <2>1 DEF SearchIsOfTheText
  <2> QED
    BY <2>1, <2>2, <2>3, ChoiceRests DEF CustomerInvariant
<1>5. CASE Customer!FoundLate
  <2>1. /\ UNCHANGED <<use, named, preselected, search, searchDebounced, options, searching,
                       searchFailed,
                       customerId, selected, looking, forsaken, recents, picked, unstored>>
        /\ cancelled' = None
    BY <1>5 DEF Customer!FoundLate, Customer!DropCancelled
  <2>2. CustomerTyped'
    BY <1>0, <2>1 DEF CustomerTyped
  <2> QED
    BY <2>1, <2>2, ChoiceRests, SearchRests DEF CustomerInvariant
<1>6. CASE Customer!LookedUp
  <2>1. /\ UNCHANGED <<use, named, preselected, search, searchDebounced, options, searching,
                       cancelled,
                       searchFailed, customerId, forsaken, recents, picked, unstored>>
        /\ looking # 0 /\ looking' = 0 /\ selected' \in {looking, selected}
    BY <1>6 DEF Customer!LookedUp
  <2>2. CustomerTyped'
    BY <1>0, <2>1 DEF CustomerTyped
  <2>3. LookupIsOfTheForms' /\ Customer!ShownIsSent'
    BY <1>0, <2>1 DEF LookupIsOfTheForms, Customer!ShownIsSent
  <2> QED
    BY <2>1, <2>2, <2>3, RecentsRest, SearchRests DEF CustomerInvariant
<1>7. CASE Customer!LookedUpLate
  <2>1. /\ UNCHANGED <<use, named, preselected, search, searchDebounced, options, searching,
                       cancelled,
                       searchFailed, customerId, selected, looking, recents, picked, unstored>>
        /\ forsaken' = 0
    BY <1>7 DEF Customer!LookedUpLate, Customer!DropForsaken
  <2>2. CustomerTyped'
    BY <1>0, <2>1 DEF CustomerTyped
  <2>3. LookupIsOfTheForms' /\ Customer!ShownIsSent'
    BY <1>0, <2>1 DEF LookupIsOfTheForms, Customer!ShownIsSent
  <2> QED
    BY <2>1, <2>2, <2>3, RecentsRest, SearchRests DEF CustomerInvariant
<1>8. ASSUME NEW c \in 1..MaxCustomers, Customer!Select(c)
      PROVE  LookupIsOfTheForms' /\ Customer!ShownIsSent'
  BY <1>8 DEF Customer!Select, LookupIsOfTheForms, Customer!ShownIsSent
<1>9. ASSUME NEW c \in 1..MaxCustomers, recents' = Customer!Recent(c),
             picked' = c
      PROVE  RecentsKept'
  <2>1. /\ Customer!Recent(c) \in Recents
        /\ \A i, j \in DOMAIN Customer!Recent(c) :
              Customer!Recent(c)[i] = Customer!Recent(c)[j] => i = j
        /\ Customer!Recent(c)[1] = c
    BY <1>0, RecentPut DEF RecentsKept
  <2> QED
    BY <1>9, <2>1 DEF RecentsKept
<1>10. ASSUME NEW c \in 1..MaxCustomers, Customer!handleSelect(c) PROVE CustomerInvariant'
  <2>1. /\ UNCHANGED <<use, named, preselected, searchDebounced, options, searching, cancelled,
                       searchFailed>>
        /\ Customer!Select(c)
        /\ search' = IF use = "sale" THEN 0 ELSE search
    BY <1>10 DEF Customer!handleSelect
  <2>2. \/ UNCHANGED <<recents, picked, unstored>>
        \/ recents' = Customer!Recent(c) /\ picked' = c /\ unstored' \in BOOLEAN
        \/ recents' = recents /\ picked' = c /\ unstored' = TRUE /\ unstored' \in BOOLEAN
    BY <1>10 DEF Customer!handleSelect
  <2>3. RecentsKept'
    BY <1>0, <1>9, <2>2 DEF RecentsKept
  <2>4. CustomerTyped'
    BY <1>0, <2>1, <2>2 DEF CustomerTyped, Customer!Select
  <2> QED
    BY <1>8, <2>1, <2>3, <2>4, SearchRests DEF CustomerInvariant
<1>11. ASSUME NEW c \in 1..MaxCustomers, Customer!SelectRecent(c) PROVE CustomerInvariant'
  <2>1. /\ UNCHANGED <<use, named, preselected, search, searchDebounced, options, searching,
                       cancelled,
                       searchFailed>>
        /\ Customer!Select(c)
        /\ recents' = Customer!Recent(c) /\ picked' = c /\ unstored' \in BOOLEAN
    BY <1>11 DEF Customer!SelectRecent
  <2>2. RecentsKept'
    BY <1>9, <2>1
  <2>3. CustomerTyped'
    BY <1>0, <2>1 DEF CustomerTyped, Customer!Select
  <2> QED
    BY <1>8, <2>1, <2>2, <2>3, SearchRests DEF CustomerInvariant
<1>12. CASE Customer!handleClear
  <2>1. /\ UNCHANGED <<use, named, preselected, searchDebounced, options, searching, cancelled,
                       searchFailed,
                       recents, picked, unstored>>
        /\ selected' = 0 /\ customerId' = 0 /\ looking' = 0
        /\ forsaken' = IF looking # 0 THEN looking ELSE forsaken
        /\ search' = IF use = "sale" THEN 0 ELSE search
    BY <1>12 DEF Customer!handleClear
  <2>2. CustomerTyped'
    BY <1>0, <2>1 DEF CustomerTyped
  <2>3. LookupIsOfTheForms' /\ Customer!ShownIsSent'
    BY <2>1 DEF LookupIsOfTheForms, Customer!ShownIsSent
  <2> QED
    BY <2>1, <2>2, <2>3, RecentsRest, SearchRests DEF CustomerInvariant
<1>13. CASE Customer!Reset
  <2>1. /\ UNCHANGED <<use, named, preselected, looking, forsaken, recents, picked, unstored>>
        /\ use = "payment" /\ selected # 0
        /\ selected' = 0 /\ customerId' = 0 /\ search' = 0 /\ searchDebounced' = 0
        /\ options' = None /\ searching' = None /\ searchFailed' \in BOOLEAN
        /\ cancelled' = IF searching # None THEN searching ELSE cancelled
    BY <1>13 DEF Customer!Reset
  <2>2. CustomerTyped'
    BY <1>0, <2>1 DEF CustomerTyped
  <2>3. LookupIsOfTheForms'
    <3>1. looking = 0
      BY <1>0, <2>1 DEF LookupIsOfTheForms, Customer!ShownIsSent, Customer!Imposed,
         CustomerTyped
    <3> QED
      BY <2>1, <3>1 DEF LookupIsOfTheForms
  <2>4. Customer!ShownIsSent'
    BY <2>1 DEF Customer!ShownIsSent
  <2>5. SearchIsOfTheText'
    BY <2>1 DEF SearchIsOfTheText
  <2> QED
    BY <2>1, <2>2, <2>3, <2>4, <2>5, RecentsRest DEF CustomerInvariant
<1>14. CASE Customer!Preselect
  <2>1. /\ UNCHANGED <<use, named, search, searchDebounced, options, searching, cancelled,
                       searchFailed, customerId, recents, picked, unstored>>
        /\ preselected' = (IF customerId = named THEN "shown" ELSE "imposed")
        /\ forsaken' = IF looking # 0 THEN looking ELSE forsaken
        /\ \/ selected' = named /\ looking' = IF customerId = named THEN 0 ELSE customerId
           \/ customerId # 0 /\ selected' = customerId /\ looking' = 0
    BY <1>14 DEF Customer!Preselect
  <2>2. CustomerTyped'
    BY <1>0, <2>1 DEF CustomerTyped
  <2>3. LookupIsOfTheForms' /\ Customer!ShownIsSent'
    BY <1>0, <2>1 DEF LookupIsOfTheForms, Customer!ShownIsSent
  <2> QED
    BY <2>1, <2>2, <2>3, RecentsRest, SearchRests DEF CustomerInvariant
<1>15. CASE Customer!NotPreselected
  <2>1. /\ UNCHANGED <<use, named, search, searchDebounced, options, searching, cancelled,
                       searchFailed, customerId, selected, looking, forsaken, recents, picked,
                       unstored>>
        /\ preselected = "awaited" /\ preselected' = "no"
    BY <1>15 DEF Customer!NotPreselected
  <2>2. CustomerTyped'
    BY <1>0, <2>1 DEF CustomerTyped
  <2>3. LookupIsOfTheForms' /\ Customer!ShownIsSent'
    BY <1>0, <2>1 DEF LookupIsOfTheForms, Customer!ShownIsSent
  <2> QED
    BY <2>1, <2>2, <2>3, RecentsRest, SearchRests DEF CustomerInvariant
<1> QED
  BY <1>1, <1>2, <1>3, <1>4, <1>5, <1>6, <1>7, <1>10, <1>11, <1>12, <1>13, <1>14, <1>15
     DEF Customer!Next, Customer!Customers

LEMMA CustomerRests ==
    ASSUME CustomerInvariant, UNCHANGED customerVars
    PROVE  CustomerInvariant'
  BY ChoiceRests, SearchRests DEF customerVars, CustomerInvariant, CustomerTyped

LEMMA CustomerMeans ==
    CustomerInvariant => /\ Customer!TypeOK /\ Customer!ShownIsSent
                         /\ Customer!OptionsFit /\ Customer!RecentsInOrder
<1> SUFFICES ASSUME CustomerInvariant
             PROVE  /\ Customer!TypeOK /\ Customer!ShownIsSent
                    /\ Customer!OptionsFit /\ Customer!RecentsInOrder
  OBVIOUS
<1>1. Customer!TypeOK
  BY DEF CustomerInvariant, CustomerTyped, RecentsKept, Recents, Customer!TypeOK,
     Customer!Customers, Customer!BoundedSeq, Customer!SeqOf
<1>2. Customer!OptionsFit
  BY DEF CustomerInvariant, CustomerTyped, SearchIsOfTheText, Customer!OptionsFit
<1>3. Customer!RecentsInOrder
  BY DEF CustomerInvariant, RecentsKept, Customer!RecentsInOrder, Customer!IsInjective
<1> QED
  BY <1>1, <1>2, <1>3 DEF CustomerInvariant

-----------------------------------------------------------------------------
(* A bilingual field.                                                      *)

TextTyped ==
    /\ mode \in {"translate", "convert"}
    /\ bn \in 0..MaxText /\ debounced \in 0..MaxText /\ lastBn \in 0..MaxText
    /\ en \in Text!English /\ lastAuto \in Text!English /\ status \in Text!Statuses
    /\ asked \in 0..MaxTranslations /\ translations \in SUBSET Text!Call
    /\ mounted \in BOOLEAN /\ kept \in BOOLEAN /\ redone \in BOOLEAN

\* A conversion waits for nothing, a translation was asked for, and with force only by a
\* Re-translate.
CallsExplained ==
    /\ mode = "convert" => translations = {} /\ status # "translating"
    /\ \A c \in translations : c.id <= asked /\ (c.force => redone)

\* What was put there last was not typed by hand; it is what an automatic text is; and
\* until a Re-translate a text that is no manual one may be replaced by a translation.
AutomaticIsTheLast ==
    /\ lastAuto # Text!Hand
    /\ status = "auto" => en = lastAuto /\ en = Text!Auto(lastBn)
    /\ mode = "translate" /\ ~redone => status = "manual" \/ Text!Replaceable

\* Once the timer fired, what is awaited is the text's translation, and what came without
\* a wait is too.
SettledOnTheText ==
    mounted /\ debounced = bn /\ ~kept =>
        /\ \A c \in translations : Text!Newest(c) => c.text = bn
        /\ status = "auto" /\ ~Text!Waiting => lastBn = bn

TextInvariant ==
    TextTyped /\ CallsExplained /\ AutomaticIsTheLast /\ SettledOnTheText /\ Text!TranslatingEnds

\* What the English may be are different things.
LEMMA EnglishTexts ==
    /\ Text!NoText \in Text!English /\ Text!Record \in Text!English /\ Text!Hand \in Text!English
    /\ Text!NoText # Text!Hand /\ Text!Record # Text!Hand /\ Text!NoText # Text!Record
    /\ \A t \in 1..MaxText : Text!Auto(t) \in Text!English /\ Text!Auto(t) # Text!Hand
<1> USE DEF Text!NoText, Text!Record, Text!Hand, Text!Auto, Text!English
<1>1. Text!NoText \in Text!English /\ Text!Record \in Text!English /\ Text!Hand \in Text!English
  OBVIOUS
<1>2. /\ Text!NoText.made = "none" /\ Text!Record.made = "record" /\ Text!Hand.made = "hand"
      /\ \A t \in 1..MaxText : Text!Auto(t).made = "auto"
  OBVIOUS
<1>3. \A t \in 1..MaxText : Text!Auto(t) \in Text!English
  OBVIOUS
<1> QED
  BY <1>1, <1>2, <1>3 DEF Text!English

LEMMA TextInit == Text!Init => TextInvariant
<1> SUFFICES ASSUME Text!Init PROVE TextInvariant
  OBVIOUS
<1> USE EnglishTexts
<1>1. /\ mode \in {"translate", "convert"} /\ bn \in 0..MaxText /\ debounced = bn
      /\ asked = 0 /\ translations = {}
      /\ mounted \in BOOLEAN /\ kept \in BOOLEAN /\ redone \in BOOLEAN /\ ~mounted
  <2>1. /\ mode \in {"translate", "convert"} /\ bn \in {0, 1} /\ debounced = bn
        /\ asked = 0 /\ translations = {}
    BY DEF Text!Init
  <2>2. mounted \in BOOLEAN /\ kept \in BOOLEAN /\ redone \in BOOLEAN /\ ~mounted
    BY DEF Text!Init
  <2> QED
    BY <2>1, <2>2, Bounds
<1>2. en \in {Text!NoText, Text!Record}
  BY DEF Text!Init
<1>3. \/ /\ mode = "translate" /\ en = Text!Record
         /\ status = "manual" /\ lastAuto = en /\ lastBn = bn
      \/ /\ ~(mode = "translate" /\ en = Text!Record)
         /\ status = "idle" /\ lastAuto = Text!NoText /\ lastBn = 0
  BY DEF Text!Init
<1> QED
  BY <1>1, <1>2, <1>3, Bounds DEF TextInvariant, TextTyped, CallsExplained, AutomaticIsTheLast,
     SettledOnTheText, Text!TranslatingEnds, Text!Statuses, Text!Replaceable

\* A translation is asked for.
LEMMA AskKeeps ==
    ASSUME TextInvariant, NEW t \in 1..MaxText, NEW force \in BOOLEAN,
           Text!Ask(t, force), force => redone',
           mode = "translate", UNCHANGED <<mode, bn>>, t = bn,
           debounced' \in 0..MaxText, mounted' \in BOOLEAN, redone' \in BOOLEAN,
           redone => redone',
           ~force => status # "manual"
    PROVE  TextInvariant'
<1> DEFINE c == [id |-> asked + 1, text |-> t, force |-> force]
<1>1. /\ asked + 1 \in 1..MaxTranslations /\ asked' = asked + 1
      /\ translations' = translations \cup {c}
      /\ status' = "translating" /\ kept' = FALSE /\ kept' \in BOOLEAN
      /\ UNCHANGED <<en, lastAuto, lastBn>>
  <2>1. asked \in 0..MaxTranslations /\ asked < MaxTranslations
    BY DEF Text!Ask, TextInvariant, TextTyped
  <2>2. kept' \in BOOLEAN
    BY DEF Text!Ask
  <2> QED
    BY <2>1, <2>2, Bounds DEF Text!Ask
<1>2. c \in Text!Call /\ c.id = asked + 1 /\ c.text = t /\ c.force = force
  BY <1>1 DEF Text!Call
<1> HIDE DEF c
<1>3. TextTyped'
  BY <1>1, <1>2 DEF TextInvariant, TextTyped, Text!Statuses
<1>4. \A d \in translations : d.id <= asked /\ d.id \in Nat
  BY DEF TextInvariant, TextTyped, CallsExplained, Text!Call
<1>5. asked \in Nat
  BY DEF TextInvariant, TextTyped
<1>6. CallsExplained'
  BY <1>1, <1>2, <1>4, <1>5 DEF TextInvariant, CallsExplained
<1>7. \A d \in translations' : Text!Newest(d)' => d = c
  BY <1>1, <1>4, <1>5 DEF Text!Newest
<1>8. Text!Waiting'
  BY <1>1, <1>2 DEF Text!Waiting, Text!Newest
<1>9. AutomaticIsTheLast'
  BY <1>1 DEF TextInvariant, AutomaticIsTheLast, Text!Replaceable
<1>10. SettledOnTheText'
  BY <1>1, <1>2, <1>7, <1>8 DEF SettledOnTheText
<1>11. Text!TranslatingEnds'
  BY <1>8 DEF Text!TranslatingEnds
<1> QED
  BY <1>3, <1>6, <1>9, <1>10, <1>11 DEF TextInvariant

\* A conversion is made, or a translation shown.
LEMMA TextReplaced ==
    ASSUME TextInvariant, NEW t \in 1..MaxText,
           en' = Text!Auto(t), lastAuto' = Text!Auto(t), lastBn' = t, status' = "auto"
    PROVE  /\ AutomaticIsTheLast' /\ Text!TranslatingEnds'
           /\ en' \in Text!English /\ lastAuto' \in Text!English /\ lastBn' \in 0..MaxText
           /\ status' \in Text!Statuses /\ status' # "translating"
<1>1. en' \in Text!English /\ en' # Text!Hand
  BY EnglishTexts
<1>2. AutomaticIsTheLast'
  BY <1>1 DEF AutomaticIsTheLast, Text!Replaceable
<1> QED
  BY <1>1, <1>2, Bounds DEF Text!TranslatingEnds, Text!Statuses

\* The effect on the debounced text of a translated field.
LEMMA TranslationSettles ==
    ASSUME TextInvariant, Text!TranslateSettled,
           debounced' = bn, mounted' = TRUE, UNCHANGED <<mode, bn, redone>>
    PROVE  TextInvariant' /\ (en' = en)
<1> USE DEF TextInvariant, Text!autoVars
<1>1. mode = "translate" /\ debounced' \in 0..MaxText /\ mounted' \in BOOLEAN
  BY DEF Text!TranslateSettled, TextTyped
<1>2. ASSUME UNCHANGED <<en, lastAuto, asked, translations>>,
             kept' = (kept \/ Text!Waiting),
             \/ lastBn' = 0 /\ status' = "idle" /\ status # "manual"
             \/ UNCHANGED <<lastBn, status>> /\ (status = "manual" \/ lastBn = bn)
      PROVE  TextInvariant'
  <2>1. kept' \in BOOLEAN /\ (~kept' => ~Text!Waiting)
    BY <1>2
  <2>2. Text!Waiting' <=> Text!Waiting
    BY <1>2 DEF Text!Waiting, Text!Newest
  <2>3. TextTyped'
    BY <1>1, <1>2, <2>1, Bounds DEF TextTyped, Text!Statuses
  <2>4. CallsExplained' /\ Text!TranslatingEnds'
    BY <1>2, <2>2 DEF CallsExplained, Text!TranslatingEnds
  <2>5. AutomaticIsTheLast'
    BY <1>1, <1>2 DEF AutomaticIsTheLast, Text!Replaceable
  <2>6. ~Text!Waiting => \A c \in translations : ~(c.id = asked)
    BY DEF Text!Waiting, Text!Newest
  <2>7. SettledOnTheText'
    BY <1>2, <2>1, <2>6 DEF SettledOnTheText, Text!Newest
  <2> QED
    BY <2>3, <2>4, <2>5, <2>7
<1>3. CASE status = "manual"
  <2>1. kept' = (kept \/ Text!Waiting) /\ UNCHANGED <<en, status, lastAuto, lastBn, asked,
                                                      translations>>
    BY <1>3 DEF Text!TranslateSettled
  <2> QED
    BY <1>2, <1>3, <2>1
<1>4. CASE status # "manual" /\ bn = 0
  <2>1. /\ kept' = (kept \/ Text!Waiting) /\ lastBn' = 0 /\ status' = "idle"
        /\ UNCHANGED <<en, lastAuto, asked, translations>>
    BY <1>4 DEF Text!TranslateSettled, Text!RunTranslation
  <2> QED
    BY <1>2, <1>4, <2>1
<1>5. CASE status # "manual" /\ bn # 0 /\ bn = lastBn
  <2>1. kept' = (kept \/ Text!Waiting) /\ UNCHANGED <<en, status, lastAuto, lastBn, asked,
                                                      translations>>
    BY <1>5 DEF Text!TranslateSettled, Text!RunTranslation
  <2> QED
    BY <1>2, <1>5, <2>1
<1>6. CASE status # "manual" /\ bn # 0 /\ bn # lastBn
  <2>1. Text!Ask(bn, FALSE)
    BY <1>6 DEF Text!TranslateSettled, Text!RunTranslation
  <2>2. bn \in 1..MaxText /\ redone' \in BOOLEAN
    BY <1>6, Bounds DEF TextTyped
  <2>3. TextInvariant'
    BY <1>1, <1>6, <2>1, <2>2, AskKeeps
  <2> QED
    BY <2>1, <2>3 DEF Text!Ask
<1> QED
  BY <1>2, <1>3, <1>4, <1>5, <1>6 DEF Text!TranslateSettled, Text!RunTranslation

\* A conversion of the text in the field.
LEMMA ConversionKeeps ==
    ASSUME TextInvariant, NEW force \in BOOLEAN, Text!RunConversion(bn, force),
           mode = "convert", debounced' = bn, mounted' = TRUE, redone' \in BOOLEAN,
           redone => redone', ~force => status # "manual",
           UNCHANGED <<mode, bn, kept>>
    PROVE  TextInvariant' /\ (en = Text!Hand => force \/ en' = en)
<1> USE DEF TextInvariant
<1>1. /\ translations = {} /\ translations' = {} /\ asked' = asked /\ status # "translating"
      /\ mounted' \in BOOLEAN
  BY DEF CallsExplained, Text!RunConversion
<1>2. ~Text!Waiting'
  BY <1>1 DEF Text!Waiting
<1>3. CASE bn = 0
  <2>1. lastBn' = 0 /\ status' = "idle" /\ UNCHANGED <<en, lastAuto>>
    BY <1>3 DEF Text!RunConversion
  <2>2. TextTyped'
    BY <1>1, <2>1, Bounds DEF TextTyped, Text!Statuses
  <2>3. CallsExplained' /\ AutomaticIsTheLast' /\ SettledOnTheText' /\ Text!TranslatingEnds'
    BY <1>1, <2>1 DEF CallsExplained, AutomaticIsTheLast, SettledOnTheText,
       Text!TranslatingEnds, Text!Replaceable
  <2> QED
    BY <2>1, <2>2, <2>3
<1>4. CASE bn # 0 /\ ~force /\ (status = "manual" \/ bn = lastBn \/ ~Text!Replaceable)
  <2>1. UNCHANGED <<en, status, lastAuto, lastBn>>
    BY <1>4 DEF Text!RunConversion
  <2>2. status = "auto" => Text!Replaceable
    BY DEF AutomaticIsTheLast, Text!Replaceable
  <2>3. TextTyped'
    BY <1>1, <2>1 DEF TextTyped
  <2>4. CallsExplained' /\ AutomaticIsTheLast' /\ SettledOnTheText' /\ Text!TranslatingEnds'
    BY <1>1, <1>4, <2>1, <2>2 DEF CallsExplained, AutomaticIsTheLast, SettledOnTheText,
       Text!TranslatingEnds
  <2> QED
    BY <2>1, <2>3, <2>4
<1>5. CASE bn # 0 /\ ~(~force /\ (status = "manual" \/ bn = lastBn \/ ~Text!Replaceable))
  <2>1. /\ en' = Text!Auto(bn) /\ lastAuto' = Text!Auto(bn) /\ lastBn' = bn /\ status' = "auto"
        /\ bn \in 1..MaxText
    BY <1>5, Bounds DEF Text!RunConversion, TextTyped
  <2>2. /\ AutomaticIsTheLast' /\ Text!TranslatingEnds'
        /\ en' \in Text!English /\ lastAuto' \in Text!English /\ lastBn' \in 0..MaxText
        /\ status' \in Text!Statuses /\ status' # "translating"
    BY <2>1, TextReplaced
  <2>3. TextTyped'
    BY <1>1, <2>2 DEF TextTyped
  <2>4. CallsExplained' /\ SettledOnTheText'
    BY <1>1, <2>1, <2>2 DEF CallsExplained, SettledOnTheText
  <2>5. Text!Replaceable => en # Text!Hand
    BY EnglishTexts DEF AutomaticIsTheLast, Text!Replaceable
  <2> QED
    BY <1>5, <2>2, <2>3, <2>4, <2>5
<1> QED
  BY <1>3, <1>4, <1>5

\* What a step keeps that leaves what is awaited, and the text, alone.
LEMMA AwaitedRest ==
    ASSUME UNCHANGED <<asked, translations>>
    PROVE  /\ Text!Waiting' <=> Text!Waiting
           /\ \A c : Text!Newest(c)' <=> Text!Newest(c)
  BY DEF Text!Waiting, Text!Newest

LEMMA AnswerKeeps ==
    ASSUME TextInvariant, NEW c \in translations,
           Text!Translated(c) \/ Text!NotTranslated(c)
    PROVE  /\ TextInvariant'
           /\ en = Text!Hand /\ en' # en => Text!Translated(c) /\ c.force /\ Text!Newest(c)
<1> USE DEF TextInvariant
<1>1. /\ UNCHANGED <<mode, bn, debounced, asked, mounted, kept, redone>>
      /\ translations' = translations \ {c}
  BY DEF Text!Translated, Text!NotTranslated, Text!fieldVars
<1>2. /\ c \in Text!Call /\ c.id \in 1..MaxTranslations /\ c.text \in 1..MaxText
      /\ c.force \in BOOLEAN
  BY DEF TextTyped, Text!Call
<1>3. /\ mode = "translate" /\ c.force => redone
      /\ \A d \in translations' : d.id <= asked' /\ (d.force => redone')
  BY <1>1 DEF CallsExplained, TextTyped
<1>4. mode = "translate"
  BY DEF CallsExplained, TextTyped
<1>5. ~Text!Newest(c) => (Text!Waiting => Text!Waiting')
  BY <1>1 DEF Text!Waiting, Text!Newest
<1>6. Text!Waiting' => Text!Waiting
  BY <1>1 DEF Text!Waiting, Text!Newest
<1>7. Text!Newest(c) => Text!Waiting
  BY DEF Text!Waiting
<1>8. \A d \in translations' : d \in translations /\ (Text!Newest(d)' => Text!Newest(d))
  BY <1>1 DEF Text!Newest
<1>9. CASE /\ Text!Translated(c) /\ Text!Newest(c)
           /\ ~(~c.force /\ (status = "manual" \/ ~Text!Replaceable))
  <2>1. /\ en' = Text!Auto(c.text) /\ lastAuto' = Text!Auto(c.text)
        /\ lastBn' = c.text /\ status' = "auto"
    BY <1>9 DEF Text!Translated, Text!Apply
  <2>2. /\ AutomaticIsTheLast' /\ Text!TranslatingEnds'
        /\ en' \in Text!English /\ lastAuto' \in Text!English /\ lastBn' \in 0..MaxText
        /\ status' \in Text!Statuses /\ status' # "translating"
    BY <1>2, <2>1, TextReplaced
  <2>3. TextTyped'
    BY <1>1, <2>2 DEF TextTyped
  <2>4. CallsExplained'
    BY <1>1, <1>3, <1>4 DEF CallsExplained
  <2>5. SettledOnTheText'
    BY <1>1, <1>8, <1>9, <2>1 DEF SettledOnTheText
  <2>6. Text!Replaceable => en # Text!Hand
    BY EnglishTexts DEF AutomaticIsTheLast, Text!Replaceable
  <2> QED
    BY <1>2, <1>9, <2>2, <2>3, <2>4, <2>5, <2>6
<1>10. CASE /\ UNCHANGED <<en, lastAuto, lastBn>>
            /\ \/ status' = "failed" /\ (c.force \/ status # "manual")
               \/ status' = status /\ (Text!Newest(c) => ~c.force /\ (status = "manual" \/ ~Text!Replaceable))
  <2>1. TextTyped'
    BY <1>1, <1>10 DEF TextTyped, Text!Statuses
  <2>2. CallsExplained'
    BY <1>1, <1>3, <1>4 DEF CallsExplained
  <2>3. AutomaticIsTheLast'
    BY <1>1, <1>3, <1>4, <1>10 DEF AutomaticIsTheLast, Text!Replaceable
  <2>4. status = "auto" => Text!Replaceable
    BY DEF AutomaticIsTheLast, Text!Replaceable
  <2>5. SettledOnTheText'
    BY <1>1, <1>5, <1>8, <1>10, <2>4 DEF SettledOnTheText
  <2>6. Text!TranslatingEnds'
    BY <1>1, <1>4, <1>5, <1>10 DEF Text!TranslatingEnds, AutomaticIsTheLast
  <2> QED
    BY <1>10, <2>1, <2>2, <2>3, <2>5, <2>6
<1>11. CASE /\ Text!Translated(c)
            /\ ~(Text!Newest(c) /\ ~(~c.force /\ (status = "manual" \/ ~Text!Replaceable)))
  <2>1. UNCHANGED <<en, status, lastAuto, lastBn>>
    BY <1>11 DEF Text!Translated, Text!Apply
  <2> QED
    BY <1>10, <1>11, <2>1
<1>12. CASE Text!NotTranslated(c)
  <2>1. /\ UNCHANGED <<en, lastAuto, lastBn>>
        /\ status' = IF ~Text!Newest(c) \/ (~c.force /\ status = "manual") THEN status ELSE "failed"
    BY <1>12 DEF Text!NotTranslated, Text!fieldVars
  <2>2. CASE ~Text!Newest(c) \/ (~c.force /\ status = "manual")
    BY <1>10, <2>1, <2>2
  <2>3. CASE ~(~Text!Newest(c) \/ (~c.force /\ status = "manual"))
    BY <1>10, <2>1, <2>3
  <2> QED
    BY <2>2, <2>3
<1> QED
  BY <1>9, <1>11, <1>12

\* The user types in one of the fields.
LEMMA TypingKeeps ==
    ASSUME TextInvariant,
           \/ \E t \in 0..MaxText : Text!TypeBangla(t)
           \/ \E v \in {Text!NoText, Text!Hand} : Text!TypeEnglish(v)
    PROVE  TextInvariant'
<1> USE DEF TextInvariant
<1>1. ASSUME NEW t \in 0..MaxText, Text!TypeBangla(t) PROVE TextInvariant'
  <2>1. /\ t # bn /\ bn' = t /\ (mode = "convert" => debounced = bn)
        /\ kept' = (kept \/ (t = debounced /\ (Text!Waiting \/ lastBn # t)))
        /\ UNCHANGED <<mode, en, debounced, status, lastAuto, lastBn, asked, translations,
                       mounted,
                       redone>>
    BY <1>1 DEF Text!TypeBangla, Text!Ready, Text!autoVars
  <2>2. /\ kept' \in BOOLEAN
        /\ ~kept' /\ t = debounced => ~Text!Waiting /\ lastBn = t
    BY <2>1
  <2>3. TextTyped'
    BY <2>1, <2>2 DEF TextTyped
  <2>4. CallsExplained' /\ AutomaticIsTheLast' /\ Text!TranslatingEnds'
    BY <2>1, AwaitedRest DEF CallsExplained, AutomaticIsTheLast, Text!TranslatingEnds,
       Text!Replaceable
  <2>5. SettledOnTheText'
    <3>1. ~Text!Waiting => \A c \in translations : ~(c.id = asked)
      BY DEF Text!Waiting, Text!Newest
    <3> QED
      BY <2>1, <2>2, <3>1 DEF SettledOnTheText, Text!Newest
  <2> QED
    BY <2>3, <2>4, <2>5
<1>2. ASSUME NEW v \in {Text!NoText, Text!Hand}, Text!TypeEnglish(v) PROVE TextInvariant'
  <2>1. /\ v # en /\ en' = v
        /\ status' = IF v # lastAuto THEN "manual" ELSE status
        /\ UNCHANGED <<mode, bn, debounced, lastAuto, lastBn, asked, translations, mounted,
                       kept, redone>>
    BY <1>2 DEF Text!TypeEnglish
  <2>2. TextTyped'
    BY <2>1, EnglishTexts DEF TextTyped, Text!Statuses
  <2>3. AutomaticIsTheLast'
    BY <2>1, EnglishTexts DEF AutomaticIsTheLast, Text!Replaceable
  <2>4. CallsExplained' /\ SettledOnTheText' /\ Text!TranslatingEnds'
    BY <2>1, AwaitedRest DEF CallsExplained, SettledOnTheText, Text!TranslatingEnds
  <2> QED
    BY <2>2, <2>3, <2>4
<1> QED
  BY <1>1, <1>2

LEMMA TextStepKeeps ==
    ASSUME TextInvariant, Text!Next
    PROVE  /\ TextInvariant'
           /\ en = Text!Hand /\ en' # en =>
                 \/ Text!User
                 \/ \E c \in translations : c.force /\ Text!Newest(c) /\ Text!Translated(c)
<1>1. CASE Text!Effect
  <2>1. debounced' = bn /\ mounted' = TRUE /\ UNCHANGED <<mode, bn, redone>>
    BY <1>1 DEF Text!Effect
  <2>2. CASE Text!TranslateSettled
    BY <2>1, <2>2, TranslationSettles
  <2>3. CASE Text!ConvertTyped
    <3>1. mode = "convert" /\ UNCHANGED kept /\ redone' \in BOOLEAN
      BY <2>1, <2>3 DEF Text!ConvertTyped, TextInvariant, TextTyped
    <3>2. CASE status = "manual"
      <4>1. UNCHANGED <<en, status, lastAuto, lastBn, asked, translations>>
        BY <2>3, <3>2 DEF Text!ConvertTyped, Text!autoVars
      <4>2. mounted' \in BOOLEAN /\ translations = {}
        BY <2>1, <3>1 DEF TextInvariant, CallsExplained
      <4> QED
        BY <2>1, <3>1, <3>2, <4>1, <4>2 DEF TextInvariant, TextTyped, CallsExplained,
           AutomaticIsTheLast, SettledOnTheText, Text!TranslatingEnds
    <3>3. CASE status # "manual"
      <4>1. Text!RunConversion(bn, FALSE)
        BY <2>3, <3>3 DEF Text!ConvertTyped
      <4>2. TextInvariant' /\ (en = Text!Hand => FALSE \/ en' = en)
        BY <2>1, <3>1, <3>3, <4>1, ConversionKeeps
      <4> QED
        BY <4>2
    <3> QED
      BY <3>2, <3>3
  <2> QED
    BY <1>1, <2>2, <2>3 DEF Text!Effect
<1>2. ASSUME NEW c \in translations, Text!Translated(c) \/ Text!NotTranslated(c)
      PROVE  /\ TextInvariant'
             /\ en = Text!Hand /\ en' # en =>
                   \E d \in translations : d.force /\ Text!Newest(d) /\ Text!Translated(d)
  BY <1>2, AnswerKeeps
<1>3. CASE Text!User
  <2>1. CASE Text!Redo
    <3>1. /\ bn \in 1..MaxText /\ redone' = TRUE /\ redone' \in BOOLEAN
          /\ UNCHANGED <<mode, bn, debounced, mounted>>
          /\ mounted = TRUE /\ (mode = "convert" => debounced = bn)
          /\ mode \in {"translate", "convert"}
          /\ debounced' \in 0..MaxText /\ mounted' \in BOOLEAN
      BY <2>1, Bounds DEF Text!Redo, Text!Ready, TextInvariant, TextTyped
    <3>2. CASE mode = "translate"
      <4>1. Text!Ask(bn, TRUE)
        BY <2>1, <3>1, <3>2 DEF Text!Redo, Text!RunTranslation
      <4> QED
        BY <1>3, <3>1, <3>2, <4>1, AskKeeps
    <3>3. CASE mode = "convert"
      <4>1. Text!RunConversion(bn, TRUE) /\ UNCHANGED kept /\ debounced' = bn /\ mounted' = TRUE
        BY <2>1, <3>1, <3>3 DEF Text!Redo
      <4> QED
        BY <1>3, <3>1, <3>3, <4>1, ConversionKeeps
    <3> QED
      BY <3>1, <3>2, <3>3
  <2> QED
    BY <1>3, <2>1, TypingKeeps DEF Text!User
<1> QED
  BY <1>1, <1>2, <1>3 DEF Text!Next, Text!System

LEMMA TextRests ==
    ASSUME TextInvariant, UNCHANGED textVars
    PROVE  TextInvariant'
<1>1. UNCHANGED <<mode, bn, en, debounced, status, lastAuto, lastBn, asked, translations, mounted,
                  kept, redone>>
  BY DEF textVars
<1> QED
  BY <1>1, AwaitedRest DEF TextInvariant, TextTyped, CallsExplained, AutomaticIsTheLast,
     SettledOnTheText, Text!TranslatingEnds, Text!Replaceable

LEMMA TextMeans == TextInvariant => Text!TypeOK /\ Text!AutomaticTextSettles
<1> SUFFICES ASSUME TextInvariant PROVE Text!TypeOK /\ Text!AutomaticTextSettles
  OBVIOUS
<1>1. Text!TypeOK
  BY DEF TextInvariant, TextTyped, Text!TypeOK
<1>2. Text!AutoTextFits
  BY DEF TextInvariant, AutomaticIsTheLast, SettledOnTheText, Text!AutoTextFits, Text!Quiet,
     Text!Waiting, TextTyped
<1> QED
  BY <1>1, <1>2 DEF TextInvariant, Text!AutomaticTextSettles

-----------------------------------------------------------------------------
(* The forms.                                                              *)

\* What is done as often as it is asked leaves the page, or is emptied when its page has
\* been loaded anew and cannot be sent empty.
AgainEnds(f) ==
    f.again => \/ f.leaves /\ f.reloads = "no"
               \/ f.clears /\ f.reloads = "before" /\ ~f.prefilled

\* What follows its record is loaded anew before anything else and stays; what is emptied
\* in the end is emptied by a failure too.
FollowsOnly(f) ==
    /\ f.synced => /\ f.reloads = "before" /\ f.clears = FALSE
                   /\ f.closes = FALSE /\ f.leaves = FALSE
    /\ f.clearsLast => f.failClears

\* What a form on its own does.
Alone(f) == AgainEnds(f) /\ FollowsOnly(f)

\* The forms that have a component each.
LEMMA FormsAlone ==
    /\ Alone(Form!CustomerCreatePage) /\ Alone(Form!CustomerEditPage)
    /\ Alone(Form!CustomerArchive) /\ Alone(Form!TransactionCreateForm)
    /\ Alone(Form!TransactionCorrectForm) /\ Alone(Form!TransactionVoidModal)
    /\ Alone(Form!HalkhataCreate) /\ Alone(Form!HalkhataPayment)
    /\ Alone(Form!PreHalkhataInvitationPage) /\ Alone(Form!BangladeshAddressEditForm)
    /\ Alone(Form!BangladeshAddressNameEditor) /\ Alone(Form!ConfirmDeleteModal)
    /\ Alone(Form!BangladeshAddressTable) /\ Alone(Form!StaffUserCreatePage)
    /\ Alone(Form!StaffUserDetailPage) /\ Alone(Form!DeactivateStaffConfirmDialog)
    /\ Alone(Form!ChangePasswordPage) /\ Alone(Form!AdminProfilePage)
<1> USE DEF Alone, AgainEnds, FollowsOnly, Form!PageForm, Form!ConfirmDialog
<1>1. Alone(Form!CustomerCreatePage) /\ Alone(Form!CustomerEditPage)
  BY DEF Form!CustomerCreatePage, Form!CustomerEditPage, Form!CustomerCreateForm
<1>2. Alone(Form!CustomerArchive)
  BY DEF Form!CustomerArchive, Form!ArchiveConfirmationModal
<1>3. /\ Alone(Form!TransactionCreateForm) /\ Alone(Form!TransactionCorrectForm)
      /\ Alone(Form!TransactionVoidModal)
  BY DEF Form!TransactionCreateForm, Form!TransactionCorrectForm, Form!TransactionVoidModal
<1>4. Alone(Form!HalkhataCreate) /\ Alone(Form!HalkhataPayment)
  BY DEF Form!HalkhataCreate, Form!CreateHalkhataModal, Form!HalkhataPayment,
     Form!HalkhataPaymentModal
<1>5. Alone(Form!PreHalkhataInvitationPage) /\ Alone(Form!BangladeshAddressEditForm)
  BY DEF Form!PreHalkhataInvitationPage, Form!BangladeshAddressEditForm
<1>6. Alone(Form!BangladeshAddressNameEditor)
  BY DEF Form!BangladeshAddressNameEditor
<1>7. Alone(Form!ConfirmDeleteModal) /\ Alone(Form!BangladeshAddressTable)
  BY DEF Form!ConfirmDeleteModal, Form!BangladeshAddressTable
<1>8. Alone(Form!StaffUserCreatePage) /\ Alone(Form!StaffUserDetailPage)
  BY DEF Form!StaffUserCreatePage, Form!StaffUserDetailPage, Form!StaffUserForm
<1>9. /\ Alone(Form!DeactivateStaffConfirmDialog) /\ Alone(Form!ChangePasswordPage)
      /\ Alone(Form!AdminProfilePage)
  BY DEF Form!DeactivateStaffConfirmDialog, Form!ChangePasswordPage, Form!AdminProfilePage
<1> QED
  BY <1>1, <1>2, <1>3, <1>4, <1>5, <1>6, <1>7, <1>8, <1>9

\* Those that share one stay on their page, and are done once; one of them at most
\* follows its record.
LEMMA FormsTogether ==
    \A c \in {Form!CustomerFollowUpPanel, Form!DashboardFollowUps, Form!HalkhataDetailHeader} :
        /\ \A f \in c : f.again = FALSE /\ f.leaves = FALSE /\ FollowsOnly(f)
        /\ \A f, g \in c : f.synced /\ g.synced => f = g
<1> USE DEF FollowsOnly, Form!PageForm, Form!ConfirmDialog
<1>1. ASSUME NEW f \in Form!CustomerFollowUpPanel
      PROVE  f.again = FALSE /\ f.leaves = FALSE /\ f.synced = FALSE /\ FollowsOnly(f)
  <2> DEFINE save == [Form!FollowUpModal EXCEPT !.name = "follow-up save"]
             complete == [Form!FollowUpCompleteDialog EXCEPT !.name = "follow-up complete"]
             Follows(g) == /\ g.again = FALSE /\ g.leaves = FALSE /\ g.synced = FALSE
                           /\ g.clearsLast => g.failClears
  <2>1. \/ f = [save EXCEPT !.reloads = "after"]
        \/ f = [complete EXCEPT !.reloads = "after"]
        \/ f = [Form!FollowUpCancelDialog EXCEPT !.reloads = "after"]
    BY DEF Form!CustomerFollowUpPanel
  <2>2. Follows([save EXCEPT !.reloads = "after"])
    BY DEF Form!FollowUpModal
  <2>3. Follows([complete EXCEPT !.reloads = "after"])
    BY DEF Form!FollowUpCompleteDialog
  <2>4. Follows([Form!FollowUpCancelDialog EXCEPT !.reloads = "after"])
    BY DEF Form!FollowUpCancelDialog
  <2> HIDE DEF save, complete
  <2>5. Follows(f)
    BY <2>1, <2>2, <2>3, <2>4
  <2> QED
    BY <2>5
<1>2. ASSUME NEW f \in Form!DashboardFollowUps
      PROVE  f.again = FALSE /\ f.leaves = FALSE /\ f.synced = FALSE /\ FollowsOnly(f)
  <2> DEFINE save == [Form!FollowUpModal EXCEPT !.name = "dashboard reschedule"]
             complete == [Form!FollowUpCompleteDialog EXCEPT !.name = "dashboard complete"]
             Follows(g) == /\ g.again = FALSE /\ g.leaves = FALSE /\ g.synced = FALSE
                           /\ g.clearsLast => g.failClears
  <2>1. \/ f = [save EXCEPT !.reloads = "after"]
        \/ f = [complete EXCEPT !.reloads = "after"]
    BY DEF Form!DashboardFollowUps
  <2>2. Follows([save EXCEPT !.reloads = "after"])
    BY DEF Form!FollowUpModal
  <2>3. Follows([complete EXCEPT !.reloads = "after"])
    BY DEF Form!FollowUpCompleteDialog
  <2> HIDE DEF save, complete
  <2>4. Follows(f)
    BY <2>1, <2>2, <2>3
  <2> QED
    BY <2>4
<1>3. /\ \A f \in Form!HalkhataDetailHeader :
            f.again = FALSE /\ f.leaves = FALSE /\ FollowsOnly(f)
      /\ \A f, g \in Form!HalkhataDetailHeader : f.synced /\ g.synced => f = g
  BY DEF Form!HalkhataDetailHeader
<1> QED
  BY <1>1, <1>2, <1>3

LEMMA FormsOfAComponent ==
    ASSUME NEW c \in Form!Components, NEW f \in c
    PROVE  /\ AgainEnds(f) /\ FollowsOnly(f)
           /\ \A g \in c : (f # g => ~g.leaves) /\ (f.synced /\ g.synced => f = g)
<1>1. CASE c \in {Form!CustomerFollowUpPanel, Form!DashboardFollowUps, Form!HalkhataDetailHeader}
  <2>1. /\ \A g \in c : g.again = FALSE /\ g.leaves = FALSE /\ FollowsOnly(g)
        /\ \A g, h \in c : g.synced /\ h.synced => g = h
    BY <1>1, FormsTogether, Zenon
  <2> QED
    BY <2>1 DEF AgainEnds
<1>2. CASE c \notin {Form!CustomerFollowUpPanel, Form!DashboardFollowUps,
                     Form!HalkhataDetailHeader}
  <2>1. c = {f}
    BY <1>2 DEF Form!Components
  <2>2. Alone(f)
    BY <1>2, FormsAlone DEF Form!Components
  <2> QED
    BY <2>1, <2>2 DEF Alone
<1> QED
  BY <1>1, <1>2

FormTyped ==
    /\ forms \in Form!Components /\ open \in forms \cup {None}
    /\ opening \in 0..MaxOpenings /\ edits \in 0..MaxEdits
    /\ text \in [forms -> 0..MaxEdits] /\ \A f \in forms : text[f] <= edits
    /\ busy \in {"no", "sent", "reload"} /\ failed \in BOOLEAN
    /\ requests \in Seq(Form!Request) /\ Len(requests) <= MaxPresses
    /\ place \in {"here", "leaving", "gone"}

RequestsOfThePage ==
    /\ \A i \in 1..Len(requests) :
          /\ requests[i].form \in forms /\ requests[i].text <= edits
          /\ requests[i].text # 0 \/ requests[i].form.prefilled
    /\ busy # "no" => Len(requests) # 0
    /\ busy = "reload" => Form!Sent.form.reloads # "no" /\ Form!Sent.done = "yes"

\* What was done of a request makes that text of that form impossible, but for the time
\* the router takes.
Done(r) ==
    r.form.again => \/ r.form.leaves /\ place # "here"
                    \/ r.text # 0 /\ (text[r.form] = 0 \/ text[r.form] > r.text)

\* A request was refused, given up, or has done its work; but for the last, awaited still.
AnswersUsed ==
    \A i \in 1..Len(requests) :
        \/ i = Len(requests) /\ busy # "no"
        \/ requests[i].done = "refused" \/ requests[i].lost \/ Done(requests[i])

\* Two requests of one text, whatever the server has done of them yet.
TwiceExplained ==
    \A i, j \in 1..Len(requests) :
        /\ i < j /\ requests[i].form = requests[j].form /\ requests[i].text = requests[j].text
        /\ requests[i].form.again /\ requests[i].done # "refused" /\ ~requests[i].lost
        => requests[j].leaving

\* A form that locks its fields has the text that was sent until the answer is used, or
\* that of its record.
SentIsThere ==
    /\ busy = "sent" \/ (busy = "reload" /\ Form!Sent.form.reloads = "before")
    /\ Form!Sent.form.locks /\ ~Form!Sent.form.busyCloses
    => Form!Sent.text = text[Form!Sent.form] \/ (Form!Sent.form.synced /\ text[Form!Sent.form] = 0)

\* A text the page has not seen is one it sent and the server took, or another user's.
UnseenStored ==
    /\ unseen \in 0..Len(requests) \cup {Form!Other}
    /\ \A i \in 1..Len(requests) :
          unseen = i => requests[i].done = "yes" /\ requests[i].form.synced

FormInvariant ==
    /\ FormTyped /\ RequestsOfThePage /\ AnswersUsed /\ TwiceExplained /\ SentIsThere
    /\ UnseenStored

\* What the fields hold once the record is loaded anew.
LEMMA ShownTyped ==
    ASSUME FormTyped
    PROVE  /\ Form!Shown \in [forms -> 0..MaxEdits]
           /\ \A f \in forms : Form!Shown[f] = IF f.synced /\ unseen # 0 THEN 0 ELSE text[f]
<1>1. text \in [forms -> 0..MaxEdits] /\ 0 \in 0..MaxEdits
  BY Bounds DEF FormTyped
<1> QED
  BY <1>1 DEF Form!Shown

\* What is underneath a component's dialogs is one of its forms or nothing.
LEMMA UnderneathTyped ==
    ASSUME NEW c
    PROVE  Form!Underneath(c) \in c \cup {None}
  BY DEF Form!Underneath

LEMMA RequestTyped ==
    ASSUME FormTyped, NEW i \in 1..Len(requests)
    PROVE  /\ requests[i] \in Form!Request /\ requests[i].text \in 0..MaxEdits
           /\ requests[i].done \in {"no", "yes", "refused"}
           /\ requests[i].lost \in BOOLEAN /\ requests[i].leaving \in BOOLEAN
<1>1. requests[i] \in Form!Request
  BY ElementOfSeq DEF FormTyped
<1> QED
  BY <1>1 DEF Form!Request

\* One request is marked with what the server did, or as given up.
LEMMA Served ==
    ASSUME FormTyped, NEW i \in 1..Len(requests), NEW o \in {"no", "yes", "refused"},
           requests' = [requests EXCEPT ![i].done = o]
    PROVE  /\ requests' \in Seq(Form!Request) /\ Len(requests') = Len(requests)
           /\ \A k \in 1..Len(requests) :
                 /\ requests'[k].form = requests[k].form /\ requests'[k].text = requests[k].text
                 /\ requests'[k].lost = requests[k].lost /\ requests'[k].leaving = requests[k].leaving
                 /\ requests'[k].done = IF k = i THEN o ELSE requests[k].done
<1> DEFINE r == [requests[i] EXCEPT !.done = o]
<1>1. requests[i] \in Form!Request
  BY RequestTyped
<1>2. /\ r \in Form!Request /\ r.form = requests[i].form /\ r.text = requests[i].text
      /\ r.lost = requests[i].lost /\ r.leaving = requests[i].leaving /\ r.done = o
  BY <1>1 DEF Form!Request
<1>3. requests' = [requests EXCEPT ![i] = r]
  OBVIOUS
<1> HIDE DEF r
<1>4. /\ requests' \in Seq(Form!Request) /\ Len(requests') = Len(requests)
      /\ \A k \in 1..Len(requests) : requests'[k] = IF k = i THEN r ELSE requests[k]
  <2>1. requests \in Seq(Form!Request)
    BY DEF FormTyped
  <2> QED
    BY <1>2, <1>3, <2>1, ExceptSeq
<1> QED
  BY <1>2, <1>4

LEMMA GivenUp ==
    ASSUME FormTyped, NEW i \in 1..Len(requests), NEW l \in BOOLEAN,
           requests' = [requests EXCEPT ![i].lost = l]
    PROVE  /\ requests' \in Seq(Form!Request) /\ Len(requests') = Len(requests)
           /\ \A k \in 1..Len(requests) :
                 /\ requests'[k].form = requests[k].form /\ requests'[k].text = requests[k].text
                 /\ requests'[k].done = requests[k].done /\ requests'[k].leaving = requests[k].leaving
                 /\ requests'[k].lost = IF k = i THEN l ELSE requests[k].lost
<1> DEFINE r == [requests[i] EXCEPT !.lost = l]
<1>1. requests[i] \in Form!Request
  BY RequestTyped
<1>2. /\ r \in Form!Request /\ r.form = requests[i].form /\ r.text = requests[i].text
      /\ r.lost = l /\ r.leaving = requests[i].leaving /\ r.done = requests[i].done
  BY <1>1 DEF Form!Request
<1>3. requests' = [requests EXCEPT ![i] = r]
  OBVIOUS
<1> HIDE DEF r
<1>4. /\ requests' \in Seq(Form!Request) /\ Len(requests') = Len(requests)
      /\ \A k \in 1..Len(requests) : requests'[k] = IF k = i THEN r ELSE requests[k]
  <2>1. requests \in Seq(Form!Request)
    BY DEF FormTyped
  <2> QED
    BY <1>2, <1>3, <2>1, ExceptSeq
<1> QED
  BY <1>2, <1>4

LEMMA FormInit == Form!Init => FormInvariant
<1> SUFFICES ASSUME Form!Init PROVE FormInvariant
  OBVIOUS
<1>1. /\ forms \in Form!Components /\ open = Form!Underneath(forms) /\ opening = 0
      /\ text = [f \in forms |-> 0] /\ edits = 0 /\ busy = "no" /\ requests = <<>>
      /\ place = "here" /\ unseen = 0
  BY DEF Form!Init
<1>2. failed \in BOOLEAN
  BY DEF Form!Init
<1>3. requests \in Seq(Form!Request) /\ Len(requests) = 0
  BY <1>1, EmptySeq
<1>4. FormTyped
  BY <1>1, <1>2, <1>3, UnderneathTyped, Bounds DEF FormTyped
<1>5. 1..Len(requests) = {}
  BY <1>3
<1>6. UnseenStored
  BY <1>1, <1>3, <1>5 DEF UnseenStored
<1> QED
  BY <1>1, <1>4, <1>5, <1>6 DEF FormInvariant, RequestsOfThePage, AnswersUsed, TwiceExplained,
     SentIsThere

\* What was done stays done: a form's text is emptied, or typed anew.
LEMMA DoneStays ==
    ASSUME FormTyped, RequestsOfThePage, NEW i \in 1..Len(requests),
           text' \in [forms -> 0..MaxEdits],
           \A f \in forms : text'[f] \in {0, text[f]} \/ text'[f] > edits,
           place # "here" => place' # "here",
           Done(requests[i])
    PROVE  \A r : r.form = requests[i].form /\ r.text = requests[i].text => Done(r)'
<1>1. requests[i].form \in forms /\ requests[i].text \in 0..MaxEdits /\ requests[i].text <= edits
  BY RequestTyped DEF RequestsOfThePage
<1>2. text[requests[i].form] \in 0..MaxEdits /\ edits \in 0..MaxEdits
  BY <1>1 DEF FormTyped
<1> DEFINE f == requests[i].form
           t == requests[i].text
<1>3. /\ f \in forms /\ t \in Nat /\ t <= edits /\ edits \in Nat /\ text[f] \in Nat
      /\ text'[f] \in Nat /\ (text'[f] \in {0, text[f]} \/ text'[f] > edits)
  BY <1>1, <1>2, Bounds
<1>4. f.again => (f.leaves /\ place # "here") \/ (t # 0 /\ (text[f] = 0 \/ text[f] > t))
  BY DEF Done
<1> HIDE DEF f, t
<1>5. f.again => (f.leaves /\ place' # "here") \/ (t # 0 /\ (text'[f] = 0 \/ text'[f] > t))
  BY <1>3, <1>4
<1>6. ASSUME NEW r, r.form = f /\ r.text = t
      PROVE  r.form.again => \/ r.form.leaves /\ place' # "here"
                             \/ r.text # 0 /\ (text'[r.form] = 0 \/ text'[r.form] > r.text)
  BY <1>5, <1>6
<1> QED
  BY <1>6 DEF Done, f, t

\* What a step keeps that leaves the requests and what is awaited of them alone.
LEMMA RequestsRest ==
    ASSUME FormInvariant, UNCHANGED <<forms, requests, busy>>,
           edits' \in 0..MaxEdits, edits <= edits',
           text' \in [forms -> 0..MaxEdits],
           \A f \in forms : text'[f] \in {0, text[f]} \/ text'[f] > edits,
           busy # "no" /\ Form!Sent.form.locks /\ ~Form!Sent.form.busyCloses =>
               \/ text'[Form!Sent.form] = text[Form!Sent.form]
               \/ Form!Sent.form.synced /\ text'[Form!Sent.form] = 0,
           place # "here" => place' # "here",
           unseen' \in {0, unseen, Form!Other}
    PROVE  RequestsOfThePage' /\ AnswersUsed' /\ TwiceExplained' /\ SentIsThere' /\ UnseenStored'
<1> USE DEF FormInvariant
<1>1. RequestsOfThePage'
  <2>1. \A i \in 1..Len(requests) : requests[i].text <= edits'
    BY RequestTyped, Bounds DEF RequestsOfThePage, FormTyped
  <2> QED
    BY <2>1 DEF RequestsOfThePage, Form!Sent, Form!Newest
<1>2. AnswersUsed'
  <2>1. \A i \in 1..Len(requests) : Done(requests[i]) => Done(requests[i])'
    BY DoneStays
  <2> QED
    BY <2>1 DEF AnswersUsed
<1>3. TwiceExplained'
  BY DEF TwiceExplained
<1>4. SentIsThere'
  BY DEF SentIsThere, Form!Sent, Form!Newest
<1>5. UnseenStored'
  <2>1. Len(requests) \in Nat /\ Len(requests) <= MaxPresses
    BY LenProperties DEF FormTyped
  <2>2. \A i \in 1..Len(requests) : i # 0 /\ i # Form!Other
    BY <2>1, Bounds DEF Form!Other
  <2> QED
    BY <2>1, <2>2 DEF UnseenStored, Form!Other
<1> QED
  BY <1>1, <1>2, <1>3, <1>4, <1>5

\* The user opens, closes or fills a form; the router arrives; another user writes, and a
\* payment loads the record anew.
LEMMA FormUsed ==
    ASSUME FormInvariant,
           \/ (\E f \in forms : Form!Open(f)) \/ Form!Close \/ Form!Type \/ Form!Arrive
           \/ Form!ChangeElsewhere \/ Form!PageReloaded
    PROVE  FormInvariant'
<1> USE DEF FormInvariant, Form!formVars
<1>0. \A f \in forms : text[f] \in 0..MaxEdits /\ text[f] <= edits
  BY DEF FormTyped
<1>1. ASSUME NEW f \in forms, Form!Open(f) PROVE FormInvariant'
  <2>1. /\ UNCHANGED <<forms, text, edits, unseen, busy, requests, place>>
        /\ open' = f /\ opening' = opening + 1 /\ opening < MaxOpenings /\ failed' \in BOOLEAN
    BY <1>1 DEF Form!Open
  <2>2. FormTyped'
    BY <2>1, Bounds DEF FormTyped
  <2> QED
    BY <2>1, <2>2, RequestsRest DEF FormTyped
<1>2. CASE Form!Close
  <2>1. /\ UNCHANGED <<forms, opening, edits, unseen, busy, failed, requests, place>>
        /\ open' = Form!Underneath(forms) /\ open # None /\ (busy = "no" \/ open.busyCloses)
        /\ text' = IF open.keepsText THEN text ELSE [text EXCEPT ![open] = 0]
    BY <1>2 DEF Form!Close
  <2>2. /\ text' \in [forms -> 0..MaxEdits] /\ open \in forms
        /\ \A f \in forms : text'[f] = text[f] \/ (text'[f] = 0 /\ f = open)
    BY <2>1, Bounds DEF FormTyped
  <2>3. FormTyped'
    BY <1>0, <2>1, <2>2, UnderneathTyped, Bounds DEF FormTyped
  <2>4. busy # "no" /\ Form!Sent.form.locks /\ ~Form!Sent.form.busyCloses =>
            text'[Form!Sent.form] = text[Form!Sent.form]
    <3>1. busy # "no" => Form!Sent.form \in forms
      BY DEF RequestsOfThePage, Form!Sent, Form!Newest, FormTyped
    <3> QED
      BY <2>1, <2>2, <3>1
  <2>5. /\ RequestsOfThePage' /\ AnswersUsed' /\ TwiceExplained' /\ SentIsThere'
        /\ UnseenStored'
    BY <2>1, <2>2, <2>4, RequestsRest DEF FormTyped
  <2> QED
    BY <2>3, <2>5
<1>3. CASE Form!Type
  <2>1. /\ UNCHANGED <<forms, open, opening, unseen, busy, failed, requests, place>>
        /\ open # None /\ edits < MaxEdits /\ (open.locks => busy = "no")
        /\ edits' = edits + 1 /\ text' = [text EXCEPT ![open] = edits + 1]
    BY <1>3 DEF Form!Type
  <2>2. /\ text' \in [forms -> 0..MaxEdits] /\ open \in forms
        /\ edits' \in 0..MaxEdits /\ edits <= edits'
        /\ \A f \in forms : text'[f] = text[f] \/ (text'[f] = edits + 1 /\ f = open)
        /\ edits + 1 > edits
    BY <2>1, Bounds DEF FormTyped
  <2>3. FormTyped'
    <3>1. \A f \in forms : text'[f] <= edits'
      BY <1>0, <2>1, <2>2, Bounds DEF FormTyped
    <3> QED
      BY <2>1, <2>2, <3>1 DEF FormTyped
  <2>4. busy # "no" /\ Form!Sent.form.locks /\ ~Form!Sent.form.busyCloses =>
            text'[Form!Sent.form] = text[Form!Sent.form]
    <3>1. busy # "no" => Form!Sent.form \in forms
      BY DEF RequestsOfThePage, Form!Sent, Form!Newest, FormTyped
    <3> QED
      BY <2>1, <2>2, <3>1
  <2>5. \A f \in forms : text'[f] \in {0, text[f]} \/ text'[f] > edits
    BY <2>2
  <2>6. /\ RequestsOfThePage' /\ AnswersUsed' /\ TwiceExplained' /\ SentIsThere'
        /\ UnseenStored'
    BY <2>1, <2>2, <2>4, <2>5, RequestsRest
  <2> QED
    BY <2>3, <2>6
<1>4. CASE Form!Arrive
  <2>1. /\ UNCHANGED <<forms, open, opening, text, edits, unseen, busy, failed, requests>>
        /\ place' = "gone"
    BY <1>4 DEF Form!Arrive
  <2>2. FormTyped'
    BY <2>1 DEF FormTyped
  <2> QED
    BY <2>1, <2>2, RequestsRest, Bounds DEF FormTyped
<1>5. CASE Form!ChangeElsewhere
  <2>1. /\ UNCHANGED <<forms, open, opening, text, edits, busy, failed, requests, place>>
        /\ unseen' = Form!Other
    BY <1>5 DEF Form!ChangeElsewhere
  <2>2. FormTyped'
    BY <2>1 DEF FormTyped
  <2> QED
    BY <2>1, <2>2, RequestsRest, Bounds DEF FormTyped
<1>6. CASE Form!PageReloaded
  <2>1. /\ UNCHANGED <<forms, open, opening, edits, busy, failed, requests, place>>
        /\ text' = Form!Shown /\ unseen' = 0
    BY <1>6 DEF Form!PageReloaded
  <2>2. /\ text' \in [forms -> 0..MaxEdits]
        /\ \A f \in forms : text'[f] = text[f] \/ (f.synced /\ text'[f] = 0)
    BY <2>1, ShownTyped
  <2>3. FormTyped'
    BY <1>0, <2>1, <2>2, Bounds DEF FormTyped
  <2>4. busy # "no" => Form!Sent.form \in forms
    BY DEF RequestsOfThePage, Form!Sent, Form!Newest, FormTyped
  <2>5. /\ RequestsOfThePage' /\ AnswersUsed' /\ TwiceExplained' /\ SentIsThere'
        /\ UnseenStored'
    BY <2>1, <2>2, <2>4, RequestsRest DEF FormTyped
  <2> QED
    BY <2>3, <2>5
<1> QED
  BY <1>1, <1>2, <1>3, <1>4, <1>5, <1>6

\* Of a request that is no longer awaited another one of the same text says why.
LEMMA PressKeeps ==
    ASSUME FormInvariant, Form!Press
    PROVE  FormInvariant'
<1> USE DEF FormInvariant
<1> DEFINE n == Len(requests)
           r == [form |-> open, text |-> text[open], opening |-> opening,
                 done |-> "no", lost |-> FALSE, leaving |-> place = "leaving"]
<1>1. /\ UNCHANGED <<forms, open, opening, text, edits, unseen, place>>
      /\ place # "gone" /\ open # None /\ n < MaxPresses /\ busy = "no"
      /\ text[open] # 0 \/ open.prefilled
      /\ requests' = Append(requests, r) /\ busy' = "sent" /\ failed' \in BOOLEAN
  BY DEF Form!Press, Form!Send, Form!formVars, Form!Newest
<1>2. /\ open \in forms /\ text[open] \in 0..MaxEdits /\ text[open] <= edits
      /\ opening \in 0..MaxOpenings /\ n \in Nat /\ requests \in Seq(Form!Request)
      /\ place \in {"here", "leaving", "gone"}
  BY <1>1, LenProperties DEF FormTyped
<1>3. /\ r \in Form!Request /\ r.form = open /\ r.text = text[open] /\ r.done = "no"
      /\ (r.leaving <=> place = "leaving")
  <2>1. open \in UNION Form!Components
    BY <1>2 DEF FormTyped
  <2> QED
    BY <1>2, <2>1 DEF Form!Request
<1> HIDE DEF r
<1>4. /\ requests' \in Seq(Form!Request) /\ Len(requests') = n + 1
      /\ \A k \in 1..n : requests'[k] = requests[k]
      /\ requests'[n + 1] = r
  BY <1>1, <1>2, <1>3, AppendProperties
<1>5. FormTyped'
  BY <1>1, <1>2, <1>4, Bounds DEF FormTyped
<1>6. RequestsOfThePage'
  BY <1>1, <1>2, <1>3, <1>4 DEF RequestsOfThePage
<1>7. \A k \in 1..n : requests[k].done = "refused" \/ requests[k].lost \/ Done(requests[k])
  BY <1>1 DEF AnswersUsed
<1>8. \A k \in 1..n : Done(requests[k]) => Done(requests[k])'
  BY <1>1, <1>4 DEF Done
<1>9. AnswersUsed'
  BY <1>1, <1>2, <1>4, <1>7, <1>8 DEF AnswersUsed
<1>10. TwiceExplained'
  <2>1. ASSUME NEW i \in 1..n, requests[i].form = open, requests[i].text = text[open],
               requests[i].form.again, requests[i].done # "refused", ~requests[i].lost
        PROVE  r.leaving
    <3>1. Done(requests[i])
      BY <1>7, <2>1
    <3>2. place # "here"
      BY <1>2, <2>1, <3>1, Bounds DEF Done
    <3> QED
      BY <1>1, <1>2, <1>3, <3>2
  <2>2. ASSUME NEW i \in 1..(n + 1), NEW j \in 1..(n + 1), i < j,
               requests'[i].form = requests'[j].form, requests'[i].text = requests'[j].text,
               requests'[i].form.again, requests'[i].done # "refused", ~requests'[i].lost
        PROVE  requests'[j].leaving
    <3>1. i \in 1..n /\ requests'[i] = requests[i]
      BY <1>2, <1>4, <2>2
    <3>2. CASE j \in 1..n
      BY <1>4, <2>2, <3>1, <3>2 DEF TwiceExplained
    <3>3. CASE j = n + 1
      <4>1. requests'[j] = r
        BY <1>4, <3>3
      <4> QED
        BY <1>3, <2>1, <2>2, <3>1, <4>1
    <3> QED
      BY <1>2, <2>2, <3>2, <3>3
  <2> QED
    BY <1>4, <2>2 DEF TwiceExplained
<1>11. SentIsThere'
  BY <1>1, <1>2, <1>3, <1>4 DEF SentIsThere, Form!Sent, Form!Newest
<1>12. UnseenStored'
  <2>1. n + 1 # Form!Other
    BY <1>1, <1>2, Bounds DEF Form!Other
  <2>2. unseen \in 0..n \cup {Form!Other}
    BY DEF UnseenStored
  <2>3. \A k \in 1..n : unseen = k => requests'[k].done = "yes" /\ requests'[k].form.synced
    BY <1>4 DEF UnseenStored
  <2> QED
    BY <1>1, <1>2, <1>4, <2>1, <2>2, <2>3 DEF UnseenStored, Form!Other
<1> QED
  BY <1>5, <1>6, <1>9, <1>10, <1>11, <1>12

LEMMA ServeKeeps ==
    ASSUME FormInvariant, NEW i \in 1..Len(requests), Form!Serve(i)
    PROVE  FormInvariant'
<1> USE DEF FormInvariant
<1>1. /\ UNCHANGED <<forms, open, opening, text, edits, busy, failed, place>>
      /\ requests[i].done = "no"
  BY DEF Form!Serve, Form!formVars
<1>2. PICK o \in {"yes", "refused"} :
         /\ requests' = [requests EXCEPT ![i].done = o]
         /\ unseen' = IF o = "yes" /\ requests[i].form.synced THEN i ELSE unseen
  BY DEF Form!Serve
<1>3. /\ requests' \in Seq(Form!Request) /\ Len(requests') = Len(requests)
      /\ \A k \in 1..Len(requests) :
            /\ requests'[k].form = requests[k].form /\ requests'[k].text = requests[k].text
            /\ requests'[k].lost = requests[k].lost /\ requests'[k].leaving = requests[k].leaving
            /\ requests'[k].done = IF k = i THEN o ELSE requests[k].done
  <2>1. o \in {"no", "yes", "refused"}
    OBVIOUS
  <2>2. FormTyped
    OBVIOUS
  <2> QED
    BY <1>2, <2>1, <2>2, Served, Zenon
<1>4. Len(requests) \in Nat
  BY LenProperties DEF FormTyped
<1>5. FormTyped'
  BY <1>1, <1>3 DEF FormTyped
<1>6. RequestsOfThePage'
  BY <1>1, <1>3, <1>4 DEF RequestsOfThePage, Form!Sent, Form!Newest
<1>7. AnswersUsed'
  <2>1. \A k \in 1..Len(requests) : Done(requests[k]) => Done(requests[k])'
    BY <1>1, <1>3 DEF Done
  <2> QED
    BY <1>1, <1>3, <2>1 DEF AnswersUsed
<1>8. TwiceExplained'
  BY <1>1, <1>3 DEF TwiceExplained
<1>9. SentIsThere'
  BY <1>1, <1>3, <1>4 DEF SentIsThere, RequestsOfThePage, Form!Sent, Form!Newest
<1>10. UnseenStored'
  <2>1. \A k \in 1..Len(requests) :
            unseen = k => k # i /\ requests'[k].done = "yes" /\ requests'[k].form.synced
    BY <1>1, <1>3 DEF UnseenStored
  <2>2. unseen' \in 0..Len(requests) \cup {Form!Other}
    BY <1>2, <1>4 DEF UnseenStored
  <2> QED
    BY <1>2, <1>3, <1>4, <2>1, <2>2 DEF UnseenStored, Form!Other
<1> QED
  BY <1>5, <1>6, <1>7, <1>8, <1>9, <1>10

\* The last request, and its form.
LEMMA TheSent ==
    ASSUME FormInvariant, busy # "no"
    PROVE  /\ Len(requests) \in Nat /\ Len(requests) \in 1..Len(requests)
           /\ Form!Sent = requests[Len(requests)]
           /\ Form!Sent.form \in forms /\ Form!Sent.text \in 0..MaxEdits
           /\ Form!Sent.text <= edits
           /\ AgainEnds(Form!Sent.form) /\ FollowsOnly(Form!Sent.form)
           /\ \A g \in forms :
                 /\ Form!Sent.form # g => ~g.leaves /\ ~(Form!Sent.form.leaves)
                 /\ Form!Sent.form.synced /\ g.synced => Form!Sent.form = g
<1>1. Len(requests) \in Nat /\ Len(requests) # 0
  BY LenProperties DEF FormInvariant, FormTyped, RequestsOfThePage
<1>2. Form!Sent = requests[Len(requests)] /\ Len(requests) \in 1..Len(requests)
  BY <1>1 DEF Form!Sent, Form!Newest
<1>3. Form!Sent.form \in forms /\ Form!Sent.text <= edits /\ Form!Sent.text \in 0..MaxEdits
  BY <1>2, RequestTyped DEF FormInvariant, RequestsOfThePage
<1>4. /\ AgainEnds(Form!Sent.form) /\ FollowsOnly(Form!Sent.form)
      /\ \A g \in forms :
            /\ Form!Sent.form # g => ~g.leaves /\ ~(Form!Sent.form.leaves)
            /\ Form!Sent.form.synced /\ g.synced => Form!Sent.form = g
  <2>1. forms \in Form!Components
    BY DEF FormInvariant, FormTyped
  <2> QED
    BY <1>3, <2>1, FormsOfAComponent
<1> QED
  BY <1>1, <1>2, <1>3, <1>4

\* The success of the last request, when the server did it, uses its text up.
LEMMA FinishKeeps ==
    ASSUME FormInvariant, busy # "no", Form!Sent.done = "yes",
           NEW fields \in [forms -> 0..MaxEdits], \A g \in forms : fields[g] \in {0, text[g]},
           Form!Finish(Form!Sent.form, fields),
           UNCHANGED <<forms, opening, edits, failed, requests>>, unseen' \in {0, unseen},
           \/ busy' = "no"
           \/ busy' = "reload" /\ Form!Sent.form.reloads \notin {"no", "before"}
    PROVE  FormInvariant'
<1> USE DEF FormInvariant
<1> DEFINE s == Form!Sent
           f == s.form
<1>1. /\ Len(requests) \in Nat /\ Len(requests) \in 1..Len(requests)
      /\ s = requests[Len(requests)] /\ f \in forms /\ s.text \in 0..MaxEdits
      /\ s.text <= edits /\ AgainEnds(f)
  BY TheSent
<1>2. /\ open' \in {open, Form!Underneath(forms)}
      /\ text' = IF f.clears THEN [fields EXCEPT ![f] = 0] ELSE fields
      /\ place' = IF f.leaves /\ place = "here" THEN "leaving" ELSE place
  BY DEF Form!Finish
<1>3. Form!Sent' = s
  BY DEF Form!Sent, Form!Newest
<1> HIDE DEF f, s
<1>4. /\ text' \in [forms -> 0..MaxEdits]
      /\ \A g \in forms : text'[g] \in {0, text[g]}
      /\ f.clears => text'[f] = 0
  BY <1>1, <1>2, Bounds DEF FormTyped
<1>5. FormTyped'
  <2>1. \A g \in forms : text[g] <= edits /\ edits >= 0
    BY Bounds DEF FormTyped
  <2>2. open' \in forms \cup {None}
    BY <1>2, UnderneathTyped DEF FormTyped
  <2>3. busy' \in {"no", "sent", "reload"}
    OBVIOUS
  <2>4. place' \in {"here", "leaving", "gone"}
    BY <1>2 DEF FormTyped
  <2>5. \A g \in forms : text'[g] <= edits
    BY <1>4, <2>1
  <2> QED
    BY <1>4, <2>2, <2>3, <2>4, <2>5 DEF FormTyped
<1>6. RequestsOfThePage'
  BY <1>3 DEF RequestsOfThePage, s
<1>7. place # "here" => place' # "here"
  BY <1>2
<1>8. \A i \in 1..Len(requests) : Done(requests[i]) => Done(requests[i])'
  <2>1. \A g \in forms : text'[g] \in {0, text[g]} \/ text'[g] > edits
    BY <1>4
  <2> QED
    BY <1>4, <1>7, <2>1, DoneStays
<1>9. f.again /\ f.leaves => place' # "here"
  BY <1>2
<1>10. s.text # 0 \/ f.prefilled
  BY <1>1 DEF RequestsOfThePage, f
<1>11. f.again => \/ f.leaves /\ place' # "here"
                  \/ s.text # 0 /\ text'[f] = 0
  BY <1>1, <1>4, <1>9, <1>10 DEF AgainEnds
<1>12. Done(requests[Len(requests)])'
  BY <1>1, <1>11 DEF Done, f
<1>13. AnswersUsed'
  BY <1>8, <1>12 DEF AnswersUsed
<1>14. TwiceExplained'
  BY DEF TwiceExplained
<1>15. SentIsThere'
  BY <1>3 DEF SentIsThere, s
<1>16. UnseenStored'
  BY <1>1 DEF UnseenStored, Form!Other
<1> QED
  BY <1>5, <1>6, <1>13, <1>14, <1>15, <1>16

LEMMA SucceedKeeps ==
    ASSUME FormInvariant, Form!Succeed
    PROVE  FormInvariant'
<1> USE DEF FormInvariant
<1>1. /\ UNCHANGED <<forms, opening, edits, unseen, failed, requests>>
      /\ busy = "sent" /\ busy # "no" /\ Form!Sent.done = "yes"
      /\ busy' = IF Form!Sent.form.reloads = "no" THEN "no" ELSE "reload"
      /\ IF Form!Sent.form.reloads = "before" THEN UNCHANGED <<open, text, place>>
         ELSE Form!Finish(Form!Sent.form, text)
  BY DEF Form!Succeed
<1>2. CASE Form!Sent.form.reloads = "before"
  <2>1. Form!Sent' = Form!Sent /\ UNCHANGED <<open, text, place>> /\ busy' = "reload"
    BY <1>1, <1>2 DEF Form!Sent, Form!Newest
  <2>2. FormTyped' /\ RequestsOfThePage' /\ SentIsThere'
    BY <1>1, <1>2, <2>1 DEF FormTyped, RequestsOfThePage, SentIsThere
  <2>3. \A i \in 1..Len(requests) : Done(requests[i]) => Done(requests[i])'
    BY <1>1, <2>1 DEF Done
  <2>4. AnswersUsed' /\ TwiceExplained' /\ UnseenStored'
    BY <1>1, <2>1, <2>3 DEF AnswersUsed, TwiceExplained, UnseenStored
  <2> QED
    BY <2>2, <2>4
<1>3. CASE Form!Sent.form.reloads # "before"
  <2>1. Form!Finish(Form!Sent.form, text)
    BY <1>1, <1>3
  <2>2. busy' = "no" \/ (busy' = "reload" /\ Form!Sent.form.reloads \notin {"no", "before"})
    BY <1>1, <1>3
  <2>3. text \in [forms -> 0..MaxEdits] /\ \A g \in forms : text[g] \in {0, text[g]}
    BY DEF FormTyped
  <2> QED
    BY <1>1, <2>1, <2>2, <2>3, FinishKeeps
<1> QED
  BY <1>2, <1>3

\* What a reload does: the fields it shows, and what a success does besides.
LEMMA ReloadShows ==
    ASSUME FormInvariant, Form!Reloaded
    PROVE  \E fields \in {text, Form!Shown} :
              /\ fields = text \/ unseen' = 0
              /\ unseen' \in {0, unseen}
              /\ \/ Form!Sent.form.reloads = "before" /\ Form!Finish(Form!Sent.form, fields)
                 \/ /\ Form!Sent.form.reloads # "before" /\ UNCHANGED <<open, place>>
                    /\ text' = IF Form!Sent.form.clearsLast
                               THEN [fields EXCEPT ![Form!Sent.form] = 0] ELSE fields
<1>1. PICK loaded \in BOOLEAN :
         /\ unseen' = IF loaded THEN 0 ELSE unseen
         /\ \/ /\ Form!Sent.form.reloads = "before"
               /\ Form!Finish(Form!Sent.form, IF loaded THEN Form!Shown ELSE text)
            \/ /\ Form!Sent.form.reloads # "before" /\ UNCHANGED <<open, place>>
               /\ text' = IF Form!Sent.form.clearsLast
                          THEN [(IF loaded THEN Form!Shown ELSE text)
                                  EXCEPT ![Form!Sent.form] = 0]
                          ELSE IF loaded THEN Form!Shown ELSE text
  BY DEF Form!Reloaded
<1>2. CASE loaded
  BY <1>1, <1>2
<1>3. CASE ~loaded
  BY <1>1, <1>3
<1> QED
  BY <1>2, <1>3

LEMMA ReloadKeeps ==
    ASSUME FormInvariant, Form!Reloaded
    PROVE  FormInvariant'
<1> USE DEF FormInvariant
<1>1. /\ UNCHANGED <<forms, opening, edits, failed, requests>>
      /\ busy = "reload" /\ busy # "no" /\ busy' = "no"
  BY DEF Form!Reloaded
<1>2. Form!Sent.form.reloads # "no" /\ Form!Sent.done = "yes"
  BY <1>1 DEF RequestsOfThePage
<1>3. PICK fields \in {text, Form!Shown} :
         /\ unseen' \in {0, unseen}
         /\ \/ Form!Sent.form.reloads = "before" /\ Form!Finish(Form!Sent.form, fields)
            \/ /\ Form!Sent.form.reloads # "before" /\ UNCHANGED <<open, place>>
               /\ text' = IF Form!Sent.form.clearsLast
                          THEN [fields EXCEPT ![Form!Sent.form] = 0] ELSE fields
  BY ReloadShows
<1>4. fields \in [forms -> 0..MaxEdits] /\ \A g \in forms : fields[g] \in {0, text[g]}
  BY <1>3, ShownTyped DEF FormTyped
<1>5. CASE Form!Sent.form.reloads = "before"
  BY <1>1, <1>2, <1>3, <1>4, <1>5, FinishKeeps
<1>6. CASE Form!Sent.form.reloads # "before"
  <2>1. /\ UNCHANGED <<open, place>>
        /\ text' = IF Form!Sent.form.clearsLast
                   THEN [fields EXCEPT ![Form!Sent.form] = 0] ELSE fields
    BY <1>3, <1>6
  <2>2. text' \in [forms -> 0..MaxEdits] /\ \A g \in forms : text'[g] \in {0, text[g]}
    <3>1. CASE text' = fields
      BY <1>4, <3>1
    <3>2. CASE text' = [fields EXCEPT ![Form!Sent.form] = 0]
      <4>1. 0 \in 0..MaxEdits
        BY Bounds
      <4> HIDE DEF FormInvariant
      <4>2. \A g \in forms : text'[g] \in {0, fields[g]}
        BY <1>4, <3>2
      <4>3. text' \in [forms -> 0..MaxEdits]
        BY <1>4, <3>2, <4>1
      <4> QED
        BY <1>4, <4>2, <4>3
    <3> QED
      BY <2>1, <3>1, <3>2
  <2>3. FormTyped'
    <3>1. \A g \in forms : text[g] <= edits /\ 0 <= edits
      BY Bounds DEF FormTyped
    <3>2. \A g \in forms : text'[g] <= edits
      BY <2>2, <3>1
    <3> QED
      BY <1>1, <2>1, <2>2, <3>2 DEF FormTyped
  <2>4. RequestsOfThePage' /\ SentIsThere' /\ TwiceExplained'
    BY <1>1 DEF RequestsOfThePage, SentIsThere, TwiceExplained
  <2>5. \A i \in 1..Len(requests) : Done(requests[i]) => Done(requests[i])'
    BY <1>1, <2>1, <2>2, DoneStays
  <2>6. ~Form!Sent.form.again /\ Form!Sent = requests[Len(requests)]
    BY <1>1, <1>2, <1>6, TheSent DEF AgainEnds
  <2>7. Done(requests[Len(requests)])'
    BY <1>1, <2>6 DEF Done
  <2>8. AnswersUsed'
    BY <1>1, <2>5, <2>7 DEF AnswersUsed
  <2>9. UnseenStored'
    <3>1. Len(requests) \in Nat
      BY <1>1, TheSent
    <3> QED
      BY <1>1, <1>3, <3>1 DEF UnseenStored, Form!Other
  <2> QED
    BY <2>3, <2>4, <2>8, <2>9
<1> QED
  BY <1>5, <1>6

LEMMA FailKeeps ==
    ASSUME FormInvariant, Form!Fail
    PROVE  FormInvariant'
<1> USE DEF FormInvariant
<1> DEFINE n == Len(requests)
<1>1. /\ UNCHANGED <<forms, open, opening, edits, unseen, place>>
      /\ busy = "sent" /\ busy # "no" /\ busy' = "no" /\ failed' = TRUE /\ failed' \in BOOLEAN
      /\ text' = IF Form!Sent.form.failClears THEN [text EXCEPT ![Form!Sent.form] = 0] ELSE text
  BY DEF Form!Fail, Form!Empty
<1>2. n \in Nat /\ n \in 1..n /\ Form!Sent = requests[n] /\ Form!Sent.form \in forms
  BY <1>1, TheSent
<1>3. PICK l \in BOOLEAN : l = (requests[n].done # "refused")
  OBVIOUS
<1>4. requests' = [requests EXCEPT ![n].lost = l]
  BY <1>2, <1>3 DEF Form!Fail, Form!Newest
<1>5. /\ requests' \in Seq(Form!Request) /\ Len(requests') = n
      /\ \A k \in 1..n :
            /\ requests'[k].form = requests[k].form /\ requests'[k].text = requests[k].text
            /\ requests'[k].done = requests[k].done /\ requests'[k].leaving = requests[k].leaving
            /\ requests'[k].lost = IF k = n THEN l ELSE requests[k].lost
  <2>1. FormTyped
    OBVIOUS
  <2> QED
    BY <1>2, <1>4, <2>1, GivenUp, Zenon
<1>6. requests'[n].lost \/ requests'[n].done = "refused"
  BY <1>2, <1>3, <1>5
<1>7. /\ text' \in [forms -> 0..MaxEdits]
      /\ \A f \in forms : text'[f] \in {0, text[f]}
  BY <1>1, <1>2, Bounds DEF FormTyped
<1>8. FormTyped'
  <2>1. \A f \in forms : text'[f] <= edits
    BY <1>7, Bounds DEF FormTyped
  <2> QED
    BY <1>1, <1>5, <1>7, <2>1 DEF FormTyped
<1>9. RequestsOfThePage'
  BY <1>1, <1>2, <1>5 DEF RequestsOfThePage
<1>10. \A i \in 1..n : Done(requests[i]) => Done(requests[i])'
  <2>1. \A i \in 1..n : Done(requests[i]) =>
            \A r : r.form = requests[i].form /\ r.text = requests[i].text => Done(r)'
    BY <1>1, <1>7, DoneStays
  <2>2. \A i \in 1..n : Done(requests[i]) => Done(requests[i])'
    BY <1>5, <2>1 DEF Done
  <2> QED
    BY <2>2
<1>11. AnswersUsed'
  BY <1>1, <1>5, <1>6, <1>10 DEF AnswersUsed
<1>12. TwiceExplained'
  <2>1. \A i \in 1..n, j \in 1..n : i < j => i # n
    BY <1>2
  <2> QED
    BY <1>5, <2>1 DEF TwiceExplained
<1>13. SentIsThere'
  BY <1>1 DEF SentIsThere
<1>14. UnseenStored'
  BY <1>1, <1>5 DEF UnseenStored
<1> QED
  BY <1>8, <1>9, <1>11, <1>12, <1>13, <1>14

LEMMA FormStepKeeps ==
    ASSUME FormInvariant, Form!Next
    PROVE  FormInvariant'
  BY FormUsed, PressKeeps, ServeKeeps, SucceedKeeps, ReloadKeeps, FailKeeps
     DEF Form!Next, Form!User, Form!Newest

\* A form that is not exposed loses what was sent, which is what is in it, or nothing; or
\* it follows its record.
LEMMA NothingIsLost ==
    ASSUME FormInvariant,
           Form!Succeed \/ Form!Reloaded \/ Form!PageReloaded \/ Form!Fail,
           NEW f \in forms \ Form!Exposed, Form!Dropped(f)
    PROVE  Form!Stored(f) \/ Form!Overwritten(f)
<1> USE DEF FormInvariant
<1>1. f.locks /\ ~f.busyCloses /\ ~f.failClears
  BY DEF Form!Exposed
<1>2. busy # "no" =>
         /\ Len(requests) \in Nat /\ Len(requests) \in 1..Len(requests)
         /\ Form!Sent = requests[Len(requests)] /\ Form!Sent.form \in forms
         /\ FollowsOnly(Form!Sent.form)
         /\ \A g \in forms :
               /\ Form!Sent.form # g => ~(Form!Sent.form.leaves)
               /\ Form!Sent.form.synced /\ g.synced => Form!Sent.form = g
  BY TheSent
<1>3. text'[f] # text[f] \/ (open = f /\ (open' # f \/ place' # place))
  BY DEF Form!Dropped
<1>4. text \in [forms -> 0..MaxEdits]
  BY DEF FormTyped
<1>5. busy = "reload" => Form!Sent.done = "yes"
  BY DEF RequestsOfThePage
\* The form's own request has been answered, and it has what was sent.
<1>6. ASSUME Form!Sent.form = f, Form!Sent.done = "yes", ~f.synced \/ text[f] # 0,
             busy = "sent" \/ (busy = "reload" /\ f.reloads = "before")
      PROVE  Form!Stored(f)
  <2>1. Form!Sent.text = text[f]
    BY <1>1, <1>6 DEF SentIsThere
  <2> QED
    BY <1>2, <1>6, <2>1 DEF Form!Stored, Form!Newest
\* The record's text takes the place of another one.
<1>7. ASSUME f.synced, unseen # 0, text[f] # 0
      PROVE  Form!Stored(f) \/ Form!Overwritten(f)
  <2>1. CASE busy = "no" \/ unseen # Form!Newest
    BY <1>7, <2>1 DEF Form!Overwritten
  <2>2. CASE busy # "no" /\ unseen = Form!Newest
    <3>1. Form!Sent.done = "yes" /\ Form!Sent.form.synced
      BY <1>2, <2>2 DEF UnseenStored, Form!Newest
    <3>2. Form!Sent.form = f /\ f.reloads = "before"
      BY <1>2, <1>7, <2>2, <3>1 DEF FollowsOnly
    <3>3. busy = "sent" \/ busy = "reload"
      BY <2>2 DEF FormTyped
    <3> QED
      BY <1>6, <1>7, <3>1, <3>2, <3>3
  <2> QED
    BY <2>1, <2>2
<1>8. CASE Form!Fail
  <2>1. /\ UNCHANGED <<open, place>> /\ busy # "no"
        /\ text' = IF Form!Sent.form.failClears THEN [text EXCEPT ![Form!Sent.form] = 0] ELSE text
    BY <1>8 DEF Form!Fail, Form!Empty
  <2> QED
    BY <1>1, <1>2, <1>3, <1>4, <2>1
<1>9. CASE Form!PageReloaded
  <2>1. UNCHANGED <<open, place>> /\ text' = Form!Shown
    BY <1>9 DEF Form!PageReloaded
  <2>2. f.synced /\ unseen # 0 /\ text[f] # 0
    BY <1>3, <2>1, ShownTyped
  <2> QED
    BY <1>7, <2>2
\* A success closes, empties and leaves its own form.
<1>10. ASSUME NEW fields, fields \in {text, Form!Shown}, busy # "no", Form!Sent.done = "yes",
              Form!Finish(Form!Sent.form, fields),
              busy = "sent" \/ (busy = "reload" /\ Form!Sent.form.reloads = "before"),
              fields = text \/ busy = "reload"
       PROVE  Form!Stored(f) \/ Form!Overwritten(f)
  <2> DEFINE s == Form!Sent.form
  <2>1. /\ open' = IF s.closes /\ open = s THEN Form!Underneath(forms) ELSE open
        /\ text' = IF s.clears THEN [fields EXCEPT ![s] = 0] ELSE fields
        /\ place' = IF s.leaves /\ place = "here" THEN "leaving" ELSE place
    BY <1>10 DEF Form!Finish
  <2>2. s \in forms /\ (s # f => ~s.leaves) /\ FollowsOnly(s)
    BY <1>2, <1>10
  <2>3. fields \in [forms -> 0..MaxEdits]
        /\ (fields[f] # text[f] => f.synced /\ unseen # 0 /\ text[f] # 0)
    BY <1>4, <1>10, ShownTyped
  <2> HIDE DEF s
  <2>4. CASE fields[f] # text[f]
    BY <1>7, <2>3, <2>4
  <2>5. CASE fields[f] = text[f]
    <3>1. s = f
      <4>1. SUFFICES ASSUME s # f PROVE FALSE
        OBVIOUS
      <4>2. open = f => open' = f
        BY <2>1, <4>1
      <4>3. text'[f] = text[f]
        BY <2>1, <2>2, <2>3, <2>5, <4>1
      <4>4. place' = place
        BY <2>1, <2>2, <4>1
      <4> QED
        BY <1>3, <4>2, <4>3, <4>4
    <3>2. f.closes \/ f.clears \/ f.leaves
      BY <1>3, <2>1, <2>3, <2>5, <3>1
    <3>3. ~f.synced
      BY <2>2, <3>1, <3>2 DEF FollowsOnly
    <3> QED
      BY <1>6, <1>10, <3>1, <3>3 DEF s
  <2> QED
    BY <2>4, <2>5
<1>11. CASE Form!Succeed
  <2>1. /\ busy = "sent" /\ Form!Sent.done = "yes"
        /\ UNCHANGED <<open, text, place>> \/ Form!Finish(Form!Sent.form, text)
    BY <1>11 DEF Form!Succeed
  <2> QED
    BY <1>3, <1>10, <2>1
<1>12. CASE Form!Reloaded
  <2>1. busy = "reload" /\ busy # "no"
    BY <1>12 DEF Form!Reloaded
  <2>2. PICK fields \in {text, Form!Shown} :
           \/ Form!Sent.form.reloads = "before" /\ Form!Finish(Form!Sent.form, fields)
           \/ /\ Form!Sent.form.reloads # "before" /\ UNCHANGED <<open, place>>
              /\ text' = IF Form!Sent.form.clearsLast
                         THEN [fields EXCEPT ![Form!Sent.form] = 0] ELSE fields
    BY <1>12, ReloadShows
  <2>3. CASE Form!Sent.form.reloads = "before"
    BY <1>5, <1>10, <2>1, <2>2, <2>3
  <2>4. CASE Form!Sent.form.reloads # "before"
    <3>1. /\ UNCHANGED <<open, place>>
          /\ text' = IF Form!Sent.form.clearsLast
                     THEN [fields EXCEPT ![Form!Sent.form] = 0] ELSE fields
      BY <2>2, <2>4
    <3>2. fields \in [forms -> 0..MaxEdits]
          /\ (fields[f] # text[f] => f.synced /\ unseen # 0 /\ text[f] # 0)
      BY <1>4, ShownTyped
    <3>3. Form!Sent.form.clearsLast => Form!Sent.form # f
      BY <1>1, <1>2, <2>1 DEF FollowsOnly
    <3>4. text'[f] = fields[f]
      BY <1>2, <2>1, <3>1, <3>2, <3>3
    <3>5. f.synced /\ unseen # 0 /\ text[f] # 0
      BY <1>3, <3>1, <3>2, <3>4
    <3> QED
      BY <1>7, <3>5
  <2> QED
    BY <2>3, <2>4
<1> QED
  BY <1>8, <1>9, <1>11, <1>12

LEMMA FormRests ==
    ASSUME FormInvariant, UNCHANGED formVars
    PROVE  FormInvariant'
<1>1. UNCHANGED <<forms, open, opening, text, edits, unseen, busy, failed, requests, place>>
  BY DEF formVars
<1>2. \A i \in 1..Len(requests) : Done(requests[i]) => Done(requests[i])'
  BY <1>1 DEF Done
<1> QED
  BY <1>1, <1>2 DEF FormInvariant, FormTyped, RequestsOfThePage, AnswersUsed, TwiceExplained,
     SentIsThere, UnseenStored, Form!Sent, Form!Newest

LEMMA FormMeans == FormInvariant => Form!TypeOK /\ Form!DuplicatesExplained
<1> SUFFICES ASSUME FormInvariant PROVE Form!TypeOK /\ Form!DuplicatesExplained
  OBVIOUS
<1>1. Form!TypeOK
  <2>1. Len(requests) \in Nat
    BY LenProperties DEF FormInvariant, FormTyped
  <2> QED
    BY <2>1, Bounds DEF FormInvariant, FormTyped, UnseenStored, Form!Other, Form!TypeOK,
       Form!Newest
<1>2. Form!DuplicatesExplained
  BY DEF FormInvariant, TwiceExplained, Form!DuplicatesExplained, Form!Newest
<1> QED
  BY <1>1, <1>2

-----------------------------------------------------------------------------
(* The session.                                                            *)

\* A request under way that nothing overtook.
Live(p) == calls[p] # Session!Idle /\ ~calls[p].overtaken
\* One that may have changed the session at the server; the tab does not know it yet.
Changed(p) ==
    /\ calls[p].request \in {"login", "logout", "password"}
    /\ calls[p].answer.status \in {"ok", "lost"}

\* It was sent with the session the browser still has, and its answer is of that session,
\* or of the one it opened.
SessionAnswerFits(p) ==
    Live(p) =>
        /\ calls[p].request # "csrf" => calls[p].sent.session = cookies.session
        /\ calls[p].request = "me" /\ calls[p].answer.status = "ok" =>
              calls[p].answer.account = Session!OwnerOf(cookies.session)
        /\ calls[p].request = "me" /\ calls[p].answer.status = "unauthorized" =>
              Session!OwnerOf(cookies.session) = Nobody
        /\ calls[p].request \in {"login", "password"} /\ calls[p].answer.status = "ok" =>
              /\ calls[p].answer.session \in Session!Sessions
              /\ owner[calls[p].answer.session] = calls[p].answer.account
RequestFits(p) ==
    /\ calls[p].request = "password" => p = "password"
    /\ calls[p].request = "csrf" => calls[p].answer.status \in {"awaited", "ok", "lost"}
CallFits(p) == SessionAnswerFits(p) /\ RequestFits(p)

NotYetOpened == \A s \in Session!Sessions : s > opened => owner[s] = Nobody

\* A password is changed by who is signed in: the session the browser has is closed then,
\* and the new one is of the account that the tab shows.
PasswordFits ==
    /\ isLoading => calls["password"] = Session!Idle
    /\ Live("password") /\ calls["password"].request = "password"
       /\ calls["password"].answer.status = "ok" =>
          /\ Session!OwnerOf(cookies.session) = Nobody
          /\ \/ doubtful \/ user = Nobody \/ user = calls["password"].answer.account
             \/ \E q \in Session!Procedures \ {"password"} : Changed(q)

\* What the tab shows is wrong only when it knows that it may be, or while it waits for an
\* answer that tells it.
TabKnows ==
    \/ doubtful \/ isLoading \/ user = Session!OwnerOf(cookies.session)
    \/ \E q \in Session!Procedures : Changed(q)

SessionInvariant ==
    /\ Session!TypeOK /\ NotYetOpened /\ PasswordFits /\ TabKnows
    /\ \A p \in Session!Procedures : CallFits(p)

\* The records of requests.
LEMMA CallTypes ==
    ASSUME NEW c \in Session!Call
    PROVE  /\ c # Session!Idle /\ c.sent \in Session!Cookies /\ c.answer \in Session!Answer
           /\ c.overtaken \in BOOLEAN /\ c.tokenFits \in BOOLEAN
           /\ Session!Overtaken(c) \in Session!Call /\ Session!Overtaken(c).overtaken
           /\ Session!Overtaken(c).request = c.request /\ Session!Overtaken(c).answer = c.answer
           /\ Session!Overtaken(c).sent = c.sent
           /\ \A a \in Session!Answer :
                 /\ [c EXCEPT !.answer = a] \in Session!Call
                 /\ [c EXCEPT !.answer = a].answer = a
                 /\ [c EXCEPT !.answer = a].request = c.request
                 /\ [c EXCEPT !.answer = a].sent = c.sent
                 /\ [c EXCEPT !.answer = a].overtaken = c.overtaken
<1>1. c.request # "none" /\ c.request \in {"csrf", "me", "login", "logout", "patch", "password"}
  BY DEF Session!Call
<1>2. c # Session!Idle
  BY <1>1 DEF Session!Idle
<1>3. c.sent \in Session!Cookies /\ c.answer \in Session!Answer /\ c.overtaken \in BOOLEAN
      /\ c.tokenFits \in BOOLEAN
  BY DEF Session!Call
<1>4. Session!Overtaken(c) = [c EXCEPT !.overtaken = TRUE]
  BY <1>2 DEF Session!Overtaken
<1>5. [c EXCEPT !.overtaken = TRUE] \in Session!Call
  BY DEF Session!Call
<1>6. LET d == [c EXCEPT !.overtaken = TRUE]
      IN  d.overtaken /\ d.request = c.request /\ d.answer = c.answer /\ d.sent = c.sent
  BY DEF Session!Call
<1>7. ASSUME NEW a \in Session!Answer
      PROVE  /\ [c EXCEPT !.answer = a] \in Session!Call
             /\ [c EXCEPT !.answer = a].answer = a
             /\ [c EXCEPT !.answer = a].request = c.request
             /\ [c EXCEPT !.answer = a].sent = c.sent
             /\ [c EXCEPT !.answer = a].overtaken = c.overtaken
  BY DEF Session!Call
<1> QED BY <1>2, <1>3, <1>4, <1>5, <1>6, <1>7

LEMMA NoCall ==
    Session!Idle.request = "none" /\ Session!Overtaken(Session!Idle) = Session!Idle
BY DEF Session!Idle, Session!Overtaken

\* A new request.
LEMMA NewRequest ==
    ASSUME NEW name \in {"csrf", "me", "login", "logout", "patch", "password"},
           NEW jar \in Session!Cookies, NEW t \in Session!Tokens
    PROVE  /\ Session!Request(name, jar, t) \in Session!Call
           /\ Session!Request(name, jar, t).request = name
           /\ Session!Request(name, jar, t).answer.status = "awaited"
           /\ name # "csrf" => Session!Request(name, jar, t).sent.session = jar.session
<1> DEFINE r == Session!Request(name, jar, t)
<1>1. Session!Awaited \in Session!Answer /\ Session!Awaited.status = "awaited"
  BY ScreenConstants DEF Session!Awaited, Session!Answer
<1>2. jar.session \in 0..MaxSessions /\ jar.secret \in 0..MaxSessions /\ 0 \in 0..MaxSessions
  BY ScreenConstants DEF Session!Cookies
<1>3. r.sent \in Session!Cookies /\ (name # "csrf" => r.sent.session = jar.session)
  BY <1>2 DEF Session!Request, Session!Cookies
<1>4. r.request = name /\ r.answer = Session!Awaited /\ r.overtaken = FALSE /\ r.tokenFits \in BOOLEAN
  BY DEF Session!Request
<1>5. r = [request |-> r.request, sent |-> r.sent, tokenFits |-> r.tokenFits,
           answer |-> r.answer, overtaken |-> r.overtaken]
  BY DEF Session!Request
<1> HIDE DEF r
<1>6. r \in Session!Call
  <2> DEFINE v == r.sent
             w == r.tokenFits
             x == r.answer
  <2>1. r = [request |-> name, sent |-> v, tokenFits |-> w, answer |-> x, overtaken |-> FALSE]
    BY <1>4, <1>5
  <2>2. v \in Session!Cookies /\ w \in BOOLEAN /\ x \in Session!Answer
    BY <1>1, <1>3, <1>4
  <2> HIDE DEF v, w, x
  <2> QED BY <2>1, <2>2 DEF Session!Call
<1> QED BY <1>1, <1>3, <1>4, <1>6 DEF r

LEMMA CallsTyped ==
    ASSUME SessionInvariant, NEW p \in Session!Procedures
    PROVE  /\ calls \in [Session!Procedures -> Session!Call \cup {Session!Idle}]
           /\ calls[p] = Session!Idle \/ calls[p] \in Session!Call
           /\ Session!Overtaken(calls[p]) \in Session!Call \cup {Session!Idle}
           /\ Session!Overtaken(calls[p]).request = calls[p].request
           /\ calls[p] # Session!Idle => Session!Overtaken(calls[p]).answer = calls[p].answer
           /\ calls[p] # Session!Idle => Session!Overtaken(calls[p]).overtaken
           /\ calls[p] # Session!Idle => calls[p] \in Session!Call
<1>1. calls \in [Session!Procedures -> Session!Call \cup {Session!Idle}]
  BY DEF SessionInvariant, Session!TypeOK
<1>2. calls[p] = Session!Idle \/ calls[p] \in Session!Call
  BY <1>1
<1>3. CASE calls[p] = Session!Idle
  BY <1>1, <1>3, NoCall
<1>4. CASE calls[p] \in Session!Call
  BY <1>1, <1>4, CallTypes
<1> QED BY <1>2, <1>3, <1>4

\* The requests of the other procedures: nothing they are about has changed, or they are
\* overtaken.
Untouched(q) == calls'[q] = calls[q]
Passed(q) == calls'[q] = Session!Overtaken(calls[q])

LEMMA OthersFit ==
    ASSUME SessionInvariant, NEW p \in Session!Procedures,
           \/ \A q \in Session!Procedures \ {p} : Passed(q)
           \/ /\ \A q \in Session!Procedures \ {p} : Untouched(q)
              /\ owner' = owner /\ cookies'.session = cookies.session
    PROVE  /\ \A q \in Session!Procedures \ {p} : calls'[q] \in Session!Call \cup {Session!Idle} /\ CallFits(q)'
           /\ \A q \in Session!Procedures \ {p} : Changed(q) => Changed(q)'
           /\ \A q \in Session!Procedures \ {p} : calls[q] = Session!Idle => calls'[q] = Session!Idle
<1> SUFFICES ASSUME NEW q \in Session!Procedures \ {p}
             PROVE  /\ calls'[q] \in Session!Call \cup {Session!Idle} /\ CallFits(q)'
                    /\ Changed(q) => Changed(q)'
                    /\ calls[q] = Session!Idle => calls'[q] = Session!Idle
  OBVIOUS
<1>1. /\ calls[q] \in Session!Call \cup {Session!Idle} /\ Session!Overtaken(calls[q]) \in Session!Call \cup {Session!Idle}
      /\ Session!Overtaken(calls[q]).request = calls[q].request
      /\ calls[q] # Session!Idle => /\ Session!Overtaken(calls[q]).answer = calls[q].answer
                              /\ Session!Overtaken(calls[q]).overtaken
  BY CallsTyped
<1>2. CallFits(q) /\ Session!Idle.request = "none"
  BY NoCall DEF SessionInvariant
<1>3. CASE Passed(q)
  <2>1. CASE calls[q] = Session!Idle
    <3>1. calls'[q] = Session!Idle
      BY <1>3, <2>1, NoCall DEF Passed
    <3>2. CallFits(q)' /\ ~Changed(q)
      BY <1>2, <2>1, <3>1 DEF CallFits, SessionAnswerFits, RequestFits, Live, Changed
    <3> QED BY <1>1, <3>1, <3>2
  <2>2. CASE calls[q] # Session!Idle
    <3>1. calls'[q].overtaken /\ calls'[q].request = calls[q].request
          /\ calls'[q].answer = calls[q].answer
      BY <1>1, <1>3, <2>2 DEF Passed
    <3>2. SessionAnswerFits(q)'
      BY <3>1 DEF SessionAnswerFits, Live
    <3>3. RequestFits(q)' /\ (Changed(q) => Changed(q)')
      BY <1>2, <3>1 DEF CallFits, RequestFits, Changed
    <3> QED BY <1>1, <1>3, <2>2, <3>2, <3>3 DEF CallFits, Passed
  <2> QED BY <2>1, <2>2
<1>4. CASE Untouched(q) /\ owner' = owner /\ cookies'.session = cookies.session
  <2>1. Session!OwnerOf(cookies.session)' = Session!OwnerOf(cookies.session)
    BY <1>4 DEF Session!OwnerOf
  <2>2. SessionAnswerFits(q)'
    BY <1>2, <1>4, <2>1 DEF CallFits, SessionAnswerFits, Live, Untouched
  <2> QED BY <1>1, <1>2, <1>4, <2>2 DEF CallFits, RequestFits, Changed, Untouched
<1> QED BY <1>3, <1>4

\* What a step owes once it has answered for one procedure.
LEMMA OneAndOthers ==
    ASSUME SessionInvariant, NEW p \in Session!Procedures,
           \/ \A q \in Session!Procedures \ {p} : Passed(q)
           \/ /\ \A q \in Session!Procedures \ {p} : Untouched(q)
              /\ owner' = owner /\ cookies'.session = cookies.session,
           calls' = [q \in Session!Procedures |-> calls'[q]],
           calls'[p] \in Session!Call \cup {Session!Idle}, CallFits(p)'
    PROVE  /\ calls' \in [Session!Procedures -> Session!Call \cup {Session!Idle}]
           /\ \A q \in Session!Procedures : CallFits(q)'
<1>1. \A q \in Session!Procedures \ {p} : calls'[q] \in Session!Call \cup {Session!Idle} /\ CallFits(q)'
  BY OthersFit
<1>2. \A q \in Session!Procedures : calls'[q] \in Session!Call \cup {Session!Idle}
  BY <1>1
<1>3. ASSUME NEW q \in Session!Procedures PROVE CallFits(q)'
  <2>1. CASE q = p
    BY <2>1
  <2>2. CASE q # p
    BY <1>1, <2>2
  <2> QED BY <2>1, <2>2
<1> QED BY <1>2, <1>3

\* The server answers, or nobody does, and its sessions stay: if the answer fits.
LEMMA AnswerFits ==
    ASSUME SessionInvariant, NEW p \in Session!Procedures, NEW a \in Session!Answer,
           calls[p] # Session!Idle,
           calls' = [calls EXCEPT ![p].answer = a],
           UNCHANGED <<owner, opened, cookies, user, isLoading, token, page, doubtful,
                       signedOut>>,
           Changed(p) => a.status = "lost",
           calls[p].request = "csrf" => a.status \in {"ok", "lost"},
           calls[p].request = "me" /\ ~calls[p].overtaken /\ a.status = "ok" =>
              a.account = Session!OwnerOf(cookies.session),
           calls[p].request = "me" /\ ~calls[p].overtaken /\ a.status = "unauthorized" =>
              Session!OwnerOf(cookies.session) = Nobody,
           calls[p].request \in {"login", "password"} => a.status # "ok"
    PROVE  SessionInvariant'
<1>1. /\ calls \in [Session!Procedures -> Session!Call \cup {Session!Idle}] /\ calls[p] \in Session!Call
  BY CallsTyped
<1>2. /\ calls'[p] \in Session!Call /\ calls'[p].answer = a /\ calls'[p].request = calls[p].request
      /\ calls'[p].sent = calls[p].sent /\ calls'[p].overtaken = calls[p].overtaken
  <2>1. calls'[p] = [calls[p] EXCEPT !.answer = a]
    BY <1>1
  <2> QED BY <1>1, <2>1, CallTypes
<1>3. \A q \in Session!Procedures \ {p} : Untouched(q)
  BY <1>1 DEF Untouched
<1>4. calls' = [q \in Session!Procedures |-> calls'[q]]
  BY <1>1
<1>5. Session!OwnerOf(cookies.session)' = Session!OwnerOf(cookies.session)
  BY DEF Session!OwnerOf
<1>6. CallFits(p)
  BY DEF SessionInvariant
<1>7. CallFits(p)'
  <2>1. SessionAnswerFits(p)'
    BY <1>1, <1>2, <1>5, <1>6 DEF CallFits, SessionAnswerFits, Live
  <2>2. RequestFits(p)'
    BY <1>2, <1>6 DEF CallFits, RequestFits
  <2> QED BY <2>1, <2>2 DEF CallFits
<1>8. /\ calls' \in [Session!Procedures -> Session!Call \cup {Session!Idle}]
      /\ \A q \in Session!Procedures : CallFits(q)'
  BY <1>2, <1>3, <1>4, <1>7, OneAndOthers
<1>9. Session!TypeOK'
  BY <1>8 DEF SessionInvariant, Session!TypeOK
<1>10. \A q \in Session!Procedures : Changed(q) => Changed(q)'
  BY <1>2, <1>3 DEF Changed, Untouched
<1>11. PasswordFits'
  <2>1. isLoading' => calls'["password"] = Session!Idle
    BY <1>3 DEF SessionInvariant, PasswordFits, Untouched, Session!Procedures
  <2>2. ASSUME Live("password")', calls'["password"].request = "password",
               calls'["password"].answer.status = "ok"
        PROVE  /\ Session!OwnerOf(cookies.session) = Nobody
               /\ \/ doubtful \/ user = Nobody \/ user = calls'["password"].answer.account
                  \/ \E q \in Session!Procedures \ {"password"} : Changed(q)
    <3>1. "password" # p
      BY <1>2, <2>2
    <3>2. calls'["password"] = calls["password"]
      BY <1>3, <3>1 DEF Untouched, Session!Procedures
    <3> QED BY <2>2, <3>2 DEF SessionInvariant, PasswordFits, Live
  <2> QED BY <1>5, <1>10, <2>1, <2>2 DEF PasswordFits
<1>12. TabKnows'
  BY <1>5, <1>10 DEF SessionInvariant, TabKnows
<1>13. NotYetOpened'
  BY DEF SessionInvariant, NotYetOpened
<1> QED BY <1>8, <1>9, <1>11, <1>12, <1>13 DEF SessionInvariant

\* The server changes the session of the request it answers.
LEMMA ChangeFits ==
    ASSUME SessionInvariant, NEW p \in Session!Procedures, NEW a \in Session!Answer,
           calls[p] # Session!Idle,
           a.status = "ok", calls[p].answer.status = "awaited",
           calls' = [q \in Session!Procedures |-> IF q = p THEN [calls[q] EXCEPT !.answer = a]
                                            ELSE Session!Overtaken(calls[q])],
           UNCHANGED <<cookies, user, isLoading, token, page, doubtful, signedOut>>,
           owner' \in [Session!Sessions -> Accounts \cup {Nobody}], opened' \in 0..MaxSessions,
           NotYetOpened',
           calls[p].request \in {"login", "logout", "password"},
           calls[p].request \in {"login", "password"} =>
              a.session \in Session!Sessions /\ owner'[a.session] = a.account,
           calls[p].request = "password" /\ ~calls[p].overtaken =>
              Session!OwnerOf(cookies.session) = a.account /\ Session!OwnerOf(cookies.session)' = Nobody
    PROVE  SessionInvariant'
<1>1. /\ calls \in [Session!Procedures -> Session!Call \cup {Session!Idle}] /\ calls[p] \in Session!Call
  BY CallsTyped
<1>2. /\ calls'[p] \in Session!Call /\ calls'[p].answer = a /\ calls'[p].request = calls[p].request
      /\ calls'[p].sent = calls[p].sent /\ calls'[p].overtaken = calls[p].overtaken
  <2>1. calls'[p] = [calls[p] EXCEPT !.answer = a]
    OBVIOUS
  <2>2. LET d == [calls[p] EXCEPT !.answer = a]
        IN  /\ d \in Session!Call /\ d.answer = a /\ d.request = calls[p].request
            /\ d.sent = calls[p].sent /\ d.overtaken = calls[p].overtaken
    BY <1>1, CallTypes
  <2> QED BY <2>1, <2>2, Zenon
<1>3. \A q \in Session!Procedures \ {p} : Passed(q)
  BY <1>1 DEF Passed
<1>4. calls' = [q \in Session!Procedures |-> calls'[q]]
  OBVIOUS
<1>6. CallFits(p)
  BY DEF SessionInvariant
<1>7. CallFits(p)'
  <2>1. SessionAnswerFits(p)'
    BY <1>1, <1>2, <1>6 DEF CallFits, SessionAnswerFits, Live
  <2>2. RequestFits(p)'
    BY <1>2, <1>6 DEF CallFits, RequestFits
  <2> QED BY <2>1, <2>2 DEF CallFits
<1>8. /\ calls' \in [Session!Procedures -> Session!Call \cup {Session!Idle}]
      /\ \A q \in Session!Procedures : CallFits(q)'
  BY <1>2, <1>3, <1>4, <1>7, OneAndOthers
<1>9. Session!TypeOK'
  BY <1>8 DEF SessionInvariant, Session!TypeOK
<1>10. /\ \A q \in Session!Procedures \ {p} : Changed(q) => Changed(q)'
       /\ \A q \in Session!Procedures \ {p} : calls[q] = Session!Idle => calls'[q] = Session!Idle
  BY <1>3, OthersFit
<1>11. Changed(p)'
  BY <1>2 DEF Changed
<1>12. PasswordFits'
  <2>1. isLoading' => calls'["password"] = Session!Idle
    BY <1>10 DEF SessionInvariant, PasswordFits, Session!Procedures
  <2>2. ASSUME Live("password")', calls'["password"].request = "password"
        PROVE  /\ Session!OwnerOf(cookies.session)' = Nobody
               /\ \/ doubtful \/ user = Nobody \/ user = calls'["password"].answer.account
                  \/ (\E q \in Session!Procedures \ {"password"} : Changed(q)')
    <3>1. "password" = p
      <4> SUFFICES ASSUME "password" # p PROVE FALSE
        OBVIOUS
      <4>1. Passed("password") /\ calls["password"] # Session!Idle
        BY <1>3, <2>2, NoCall DEF Passed, Session!Procedures, Live
      <4>2. calls'["password"].overtaken
        BY <4>1, CallsTyped DEF Passed, Session!Procedures
      <4> QED BY <2>2, <4>2 DEF Live
    <3>2. ~calls[p].overtaken /\ calls[p].request = "password" /\ ~Changed(p) /\ ~isLoading
      BY <1>2, <2>2, <3>1 DEF Live, Changed, SessionInvariant, PasswordFits
    <3>3. \/ doubtful \/ user = Session!OwnerOf(cookies.session)
          \/ \E q \in Session!Procedures \ {p} : Changed(q)
      BY <3>2 DEF SessionInvariant, TabKnows
    <3> QED BY <1>2, <1>10, <3>1, <3>2, <3>3
  <2> QED BY <2>1, <2>2 DEF PasswordFits
<1>13. TabKnows'
  BY <1>11 DEF TabKnows
<1> QED BY <1>8, <1>9, <1>12, <1>13 DEF SessionInvariant

LEMMA SessionServes ==
    ASSUME SessionInvariant, NEW p \in Session!Procedures, Session!Serve(p)
    PROVE  SessionInvariant'
<1>1. /\ calls[p] # Session!Idle /\ calls[p].answer.status = "awaited"
      /\ UNCHANGED <<cookies, user, isLoading, token, page, doubtful, signedOut>>
  BY DEF Session!Serve, Session!Busy, Session!authVars, Session!historyVars
<1>2. calls \in [Session!Procedures -> Session!Call \cup {Session!Idle}] /\ calls[p] \in Session!Call /\ CallFits(p)
      /\ ~Changed(p)
  BY <1>1, CallsTyped DEF SessionInvariant, Changed
<1>3. /\ owner \in [Session!Sessions -> Accounts \cup {Nobody}] /\ opened \in 0..MaxSessions
      /\ cookies.session \in 0..MaxSessions /\ MaxSessions \in Nat /\ Nobody \notin Accounts
      /\ calls[p].sent.session \in 0..MaxSessions
  BY <1>2, ScreenConstants DEF SessionInvariant, Session!TypeOK, Session!Cookies, Session!Call
<1>4. \A s \in 0..MaxSessions : Session!OwnerOf(s) \in Accounts \cup {Nobody}
  BY <1>3 DEF Session!OwnerOf, Session!Sessions
<1> DEFINE Answered(reply, account, s) == [status |-> reply, account |-> account, session |-> s]
<1>5. ASSUME NEW reply \in {"awaited", "ok", "unauthorized", "forbidden", "lost"},
             NEW account \in Accounts \cup {Nobody}, NEW s \in 0..MaxSessions
      PROVE  Answered(reply, account, s) \in Session!Answer
  BY DEF Session!Answer
<1>6. 0 \in 0..MaxSessions /\ Nobody \in Accounts \cup {Nobody}
  BY <1>3
\* A refusal.
<1>7. ASSUME NEW reply \in {"unauthorized", "forbidden"},
             calls[p].request \in {"login", "logout", "password"},
             Session!Respond(p, reply, Nobody, 0), UNCHANGED <<owner, opened>>
      PROVE  SessionInvariant'
  <2> DEFINE a == Answered(reply, Nobody, 0)
  <2>1. a \in Session!Answer /\ a.status = reply
    BY <1>5, <1>6
  <2>2. calls' = [calls EXCEPT ![p].answer = a]
    BY <1>7 DEF Session!Respond
  <2> HIDE DEF a
  <2> QED BY <1>1, <1>2, <1>7, <2>1, <2>2, AnswerFits
\* A session for an account.
<1>8. ASSUME NEW account \in Accounts, Session!Reopen(p, account),
             calls[p].request \in {"login", "password"},
             calls[p].request = "password" => account = Session!OwnerOf(calls[p].sent.session)
      PROVE  SessionInvariant'
  <2> DEFINE a == Answered("ok", account, opened + 1)
  <2>1. opened + 1 \in Session!Sessions /\ opened + 1 \in 0..MaxSessions /\ opened' = opened + 1
        /\ owner' = [s \in Session!Sessions |-> IF s = opened + 1 THEN account
                                          ELSE IF s = calls[p].sent.session THEN Nobody ELSE owner[s]]
    BY <1>3, <1>8 DEF Session!Reopen, Session!Sessions
  <2>2. a \in Session!Answer /\ a.status = "ok" /\ a.session = opened + 1 /\ a.account = account
    BY <1>5, <2>1
  <2>3. calls' = [q \in Session!Procedures |-> IF q = p THEN [calls[q] EXCEPT !.answer = a]
                                         ELSE Session!Overtaken(calls[q])]
    BY <1>8 DEF Session!Reopen, Session!RespondChanging
  <2>4. /\ owner' \in [Session!Sessions -> Accounts \cup {Nobody}] /\ opened' \in 0..MaxSessions
        /\ owner'[opened + 1] = account
    BY <1>3, <2>1
  <2>5. NotYetOpened'
    <3> SUFFICES ASSUME NEW s \in Session!Sessions, s > opened' PROVE owner'[s] = Nobody
      BY DEF NotYetOpened
    <3>1. s > opened /\ s # opened + 1
      BY <1>3, <2>1 DEF Session!Sessions
    <3> QED BY <2>1, <3>1 DEF SessionInvariant, NotYetOpened
  <2>6. ASSUME calls[p].request = "password", ~calls[p].overtaken
        PROVE  Session!OwnerOf(cookies.session) = account /\ Session!OwnerOf(cookies.session)' = Nobody
    <3>1. calls[p].sent.session = cookies.session
      BY <1>1, <1>2, <2>6 DEF CallFits, SessionAnswerFits, Live
    <3>2. cookies.session # 0 /\ owner[cookies.session] = account /\ account # Nobody
      BY <1>3, <1>8, <2>6, <3>1 DEF Session!OwnerOf
    <3>3. cookies.session \in Session!Sessions
      BY <1>3, <3>2 DEF Session!Sessions
    <3>4. ~(cookies.session > opened)
      BY <3>2, <3>3 DEF SessionInvariant, NotYetOpened
    <3>5. cookies.session # opened + 1
      BY <1>3, <3>4
    <3>6. owner'[cookies.session] = Nobody /\ cookies' = cookies
      BY <1>1, <2>1, <3>1, <3>3, <3>5
    <3> QED BY <3>2, <3>6 DEF Session!OwnerOf
  <2> HIDE DEF a
  <2> QED BY <1>1, <1>8, <2>1, <2>2, <2>3, <2>4, <2>5, <2>6, ChangeFits
<1>9. CASE Session!ServeLogin(p)
  <2>1. CASE \E account \in Accounts : Session!Reopen(p, account)
    BY <1>8, <1>9, <2>1 DEF Session!ServeLogin
  <2>2. CASE Session!Respond(p, "unauthorized", Nobody, 0) /\ UNCHANGED <<owner, opened>>
    BY <1>7, <1>9, <2>2 DEF Session!ServeLogin
  <2> QED BY <1>9, <2>1, <2>2 DEF Session!ServeLogin, Session!serverVars
<1>10. Session!Permitted(calls[p]) \in {"ok", "unauthorized", "forbidden"}
       /\ (Session!Permitted(calls[p]) = "ok" => Session!OwnerOf(calls[p].sent.session) # Nobody)
  BY DEF Session!Permitted
<1>11. CASE Session!ServePassword(p)
  <2>1. CASE Session!Permitted(calls[p]) = "ok"
    <3>1. Session!Reopen(p, Session!OwnerOf(calls[p].sent.session))
      BY <1>11, <2>1 DEF Session!ServePassword
    <3>2. Session!OwnerOf(calls[p].sent.session) \in Accounts
      BY <1>3, <1>4, <1>10, <2>1
    <3>3. calls[p].request = "password"
      BY <1>11 DEF Session!ServePassword
    <3> QED BY <1>8, <3>1, <3>2, <3>3
  <2>2. CASE Session!Permitted(calls[p]) # "ok"
    BY <1>7, <1>10, <1>11, <2>2 DEF Session!ServePassword, Session!serverVars
  <2> QED BY <2>1, <2>2
<1>12. CASE Session!ServeLogout(p)
  <2>1. CASE Session!Permitted(calls[p]) = "forbidden"
    BY <1>7, <1>12, <2>1 DEF Session!ServeLogout
  <2>2. CASE Session!Permitted(calls[p]) # "forbidden"
    <3> DEFINE a == Answered("ok", Nobody, 0)
    <3>1. a \in Session!Answer /\ a.status = "ok"
      BY <1>5, <1>6
    <3>2. calls' = [q \in Session!Procedures |-> IF q = p THEN [calls[q] EXCEPT !.answer = a]
                                           ELSE Session!Overtaken(calls[q])]
      BY <1>12, <2>2 DEF Session!ServeLogout, Session!RespondChanging
    <3>3. calls[p].request = "logout" /\ opened' = opened
          /\ owner' = [s \in Session!Sessions |->
                         IF s = calls[p].sent.session THEN Nobody ELSE owner[s]]
      BY <1>12, <2>2 DEF Session!ServeLogout
    <3>4. owner' \in [Session!Sessions -> Accounts \cup {Nobody}] /\ opened' \in 0..MaxSessions
      BY <1>3, <3>3
    <3>5. NotYetOpened'
      BY <3>3 DEF SessionInvariant, NotYetOpened
    <3> HIDE DEF a
    <3>6. calls[p].request \notin {"login", "password"} /\ calls[p].request # "password"
      BY <3>3
    <3> QED BY <1>1, <3>1, <3>2, <3>3, <3>4, <3>5, <3>6, ChangeFits
  <2> QED BY <2>1, <2>2
<1>13. CASE Session!ServeRest(p)
  <2> DEFINE account == Session!OwnerOf(calls[p].sent.session)
             reply == CASE calls[p].request = "csrf" -> "ok"
                         [] calls[p].request = "me" ->
                              IF account = Nobody THEN "unauthorized" ELSE "ok"
                         [] OTHER -> Session!Permitted(calls[p])
             a == Answered(reply, account, 0)
  <2>1. calls[p].request \in {"csrf", "me", "patch"} /\ UNCHANGED <<owner, opened>>
        /\ calls' = [calls EXCEPT ![p].answer = a]
    BY <1>13 DEF Session!ServeRest, Session!Respond, Session!serverVars
  <2>2. reply \in {"ok", "unauthorized", "forbidden"}
        /\ (calls[p].request = "csrf" => reply = "ok")
        /\ (calls[p].request = "me" /\ reply = "unauthorized" => account = Nobody)
    BY <1>10
  <2>3. account \in Accounts \cup {Nobody}
    BY <1>3, <1>4
  <2>4. calls[p].request = "me" /\ ~calls[p].overtaken => account = Session!OwnerOf(cookies.session)
    BY <1>1, <1>2 DEF CallFits, SessionAnswerFits, Live
  <2> HIDE DEF account, reply
  <2>5. a \in Session!Answer /\ a.status = reply /\ a.account = account
    BY <1>5, <1>6, <2>2, <2>3
  <2> HIDE DEF a
  <2>6. /\ calls[p].request = "csrf" => a.status \in {"ok", "lost"}
        /\ calls[p].request = "me" /\ ~calls[p].overtaken /\ a.status = "ok" =>
              a.account = Session!OwnerOf(cookies.session)
        /\ calls[p].request = "me" /\ ~calls[p].overtaken /\ a.status = "unauthorized" =>
              Session!OwnerOf(cookies.session) = Nobody
        /\ calls[p].request \in {"login", "password"} => a.status # "ok"
    BY <2>1, <2>2, <2>4, <2>5
  <2> QED BY <1>1, <1>2, <2>1, <2>5, <2>6, AnswerFits
<1> QED BY <1>9, <1>11, <1>12, <1>13 DEF Session!Serve

LEMMA SessionLoses ==
    ASSUME SessionInvariant, NEW p \in Session!Procedures, Session!Lose(p)
    PROVE  SessionInvariant'
<1> DEFINE a == [status |-> "lost", account |-> Nobody, session |-> 0]
<1>1. a \in Session!Answer /\ a.status = "lost"
  BY ScreenConstants DEF Session!Answer
<1>2. calls[p] # Session!Idle /\ calls' = [calls EXCEPT ![p].answer = a]
      /\ UNCHANGED <<owner, opened, cookies, user, isLoading, token, page, doubtful, signedOut>>
  BY DEF Session!Lose, Session!Busy, Session!Respond, Session!serverVars, Session!authVars,
     Session!historyVars
<1> HIDE DEF a
<1> QED BY <1>1, <1>2, AnswerFits

LEMMA SessionExpires ==
    ASSUME SessionInvariant, Session!Expire
    PROVE  SessionInvariant'
<1>1. /\ owner' = [owner EXCEPT ![cookies.session] = Nobody] /\ doubtful' = TRUE
      /\ calls' = [p \in Session!Procedures |-> Session!Overtaken(calls[p])]
      /\ UNCHANGED <<opened, cookies, user, isLoading, token, page, signedOut>>
      /\ Session!OwnerOf(cookies.session) # Nobody
  BY DEF Session!Expire, Session!authVars
<1>2. /\ owner \in [Session!Sessions -> Accounts \cup {Nobody}]
      /\ owner' \in [Session!Sessions -> Accounts \cup {Nobody}]
      /\ \A s \in Session!Sessions : owner'[s] \in {owner[s], Nobody}
  BY <1>1 DEF SessionInvariant, Session!TypeOK
<1>3. \A q \in Session!Procedures : Passed(q)
  BY <1>1 DEF Passed
<1>4. PICK p \in Session!Procedures : TRUE
  BY DEF Session!Procedures
<1>5. PICK q \in Session!Procedures : q # p
  BY <1>4 DEF Session!Procedures
<1>6. \A r \in Session!Procedures : calls'[r] \in Session!Call \cup {Session!Idle} /\ CallFits(r)'
  <2>1. \A r \in Session!Procedures \ {p} : calls'[r] \in Session!Call \cup {Session!Idle} /\ CallFits(r)'
    BY <1>3, OthersFit
  <2>2. \A r \in Session!Procedures \ {q} : calls'[r] \in Session!Call \cup {Session!Idle} /\ CallFits(r)'
    BY <1>3, OthersFit
  <2>3. ASSUME NEW r \in Session!Procedures
        PROVE  calls'[r] \in Session!Call \cup {Session!Idle} /\ CallFits(r)'
    <3>1. CASE r # p
      BY <2>1, <3>1
    <3>2. CASE r # q
      BY <2>2, <3>2
    <3> QED BY <1>5, <3>1, <3>2
  <2> QED BY <2>3
<1>7. calls' \in [Session!Procedures -> Session!Call \cup {Session!Idle}]
  BY <1>1, <1>6
<1>8. Session!TypeOK'
  BY <1>1, <1>2, <1>7 DEF SessionInvariant, Session!TypeOK
<1>9. NotYetOpened'
  BY <1>1, <1>2 DEF SessionInvariant, NotYetOpened
<1>10. PasswordFits'
  <2>1. calls["password"] = Session!Idle => calls'["password"] = Session!Idle
    BY <1>3, NoCall DEF Passed, Session!Procedures
  <2>2. ~Live("password")'
    <3>1. CASE calls["password"] = Session!Idle
      BY <2>1, <3>1 DEF Live
    <3>2. CASE calls["password"] # Session!Idle
      <4>1. calls'["password"].overtaken
        BY <1>3, <3>2, CallsTyped DEF Passed, Session!Procedures
      <4> QED BY <4>1 DEF Live
    <3> QED BY <3>1, <3>2
  <2> QED BY <1>1, <2>1, <2>2 DEF SessionInvariant, PasswordFits
<1>11. TabKnows'
  BY <1>1 DEF TabKnows
<1> QED BY <1>6, <1>8, <1>9, <1>10, <1>11 DEF SessionInvariant

\* A procedure sends a request, its first or, the cookies being those of the same session,
\* its next one.
LEMMA SendFits ==
    ASSUME SessionInvariant, NEW p \in Session!Procedures, NEW r \in Session!Call, ~Changed(p),
           r.answer.status = "awaited", calls' = [calls EXCEPT ![p] = r],
           r.request # "csrf" => r.sent.session = cookies.session,
           p = "password" => ~isLoading, r.request = "password" => p = "password",
           cookies' \in Session!Cookies, cookies'.session = cookies.session,
              token' \in Session!Tokens,
           UNCHANGED <<owner, opened, user, isLoading, page, doubtful, signedOut>>
    PROVE  SessionInvariant'
<1>1. /\ calls \in [Session!Procedures -> Session!Call \cup {Session!Idle}] /\ calls'[p] = r
  BY CallsTyped
<1>3. \A q \in Session!Procedures \ {p} : Untouched(q)
  BY <1>1 DEF Untouched
<1>4. calls' = [q \in Session!Procedures |-> calls'[q]]
  BY <1>1
<1>5. Session!OwnerOf(cookies.session)' = Session!OwnerOf(cookies.session)
  BY DEF Session!OwnerOf
<1>7. CallFits(p)'
  <2>1. SessionAnswerFits(p)'
    BY <1>1 DEF SessionAnswerFits
  <2>2. RequestFits(p)'
    BY <1>1 DEF RequestFits
  <2> QED BY <2>1, <2>2 DEF CallFits
<1>8. /\ calls' \in [Session!Procedures -> Session!Call \cup {Session!Idle}]
      /\ \A q \in Session!Procedures : CallFits(q)'
  BY <1>1, <1>3, <1>4, <1>7, OneAndOthers
<1>9. Session!TypeOK'
  BY <1>8 DEF SessionInvariant, Session!TypeOK
<1>10. \A q \in Session!Procedures : Changed(q) => q # p /\ Changed(q)'
  BY <1>3 DEF Changed, Untouched
<1>11. PasswordFits'
  <2>1. isLoading' => calls'["password"] = Session!Idle
    BY <1>3 DEF SessionInvariant, PasswordFits, Untouched, Session!Procedures
  <2>2. ASSUME Live("password")', calls'["password"].request = "password",
               calls'["password"].answer.status = "ok"
        PROVE  /\ Session!OwnerOf(cookies.session) = Nobody
               /\ \/ doubtful \/ user = Nobody \/ user = calls'["password"].answer.account
                  \/ \E q \in Session!Procedures \ {"password"} : Changed(q)
    <3>1. "password" # p
      BY <1>1, <2>2
    <3>2. calls'["password"] = calls["password"]
      BY <1>3, <3>1 DEF Untouched, Session!Procedures
    <3> QED BY <2>2, <3>2 DEF SessionInvariant, PasswordFits, Live
  <2> QED BY <1>5, <1>10, <2>1, <2>2 DEF PasswordFits
<1>12. TabKnows'
  BY <1>5, <1>10 DEF SessionInvariant, TabKnows
<1>13. NotYetOpened'
  BY DEF SessionInvariant, NotYetOpened
<1> QED BY <1>8, <1>9, <1>11, <1>12, <1>13 DEF SessionInvariant

\* A procedure ends: the others are overtaken when it changed the session, the tab shows
\* what it learnt, or does not know, or it learnt nothing.
LEMMA EndFits ==
    ASSUME SessionInvariant, NEW p \in Session!Procedures,
           \/ Session!EndChanging(p)
           \/ Session!End(p) /\ cookies'.session = cookies.session,
           cookies' \in Session!Cookies, token' \in Session!Tokens,
              user' \in Accounts \cup {Nobody},
           isLoading' \in BOOLEAN, isLoading' => isLoading, page' \in Session!Pages,
           doubtful' \in BOOLEAN, signedOut' \in BOOLEAN,
           UNCHANGED <<owner, opened>>,
           \/ doubtful'
           \/ user' = Session!OwnerOf(cookies.session)'
           \/ /\ user' = user /\ doubtful' = doubtful /\ cookies'.session = cookies.session
              /\ isLoading' = isLoading /\ ~Changed(p)
           \/ Session!EndChanging(p) /\ \E q \in Session!Procedures \ {p} : Changed(q)
    PROVE  SessionInvariant'
<1>1. /\ calls \in [Session!Procedures -> Session!Call \cup {Session!Idle}]
  BY CallsTyped
<1>2. calls'[p] = Session!Idle /\ calls' = [q \in Session!Procedures |-> calls'[q]]
  BY <1>1 DEF Session!End, Session!EndChanging
<1>3. \/ \A q \in Session!Procedures \ {p} : Passed(q)
      \/ (\A q \in Session!Procedures \ {p} : Untouched(q)) /\ cookies'.session = cookies.session
  BY <1>1 DEF Session!End, Session!EndChanging, Passed, Untouched
<1>4. Session!EndChanging(p) => \A q \in Session!Procedures \ {p} : Passed(q)
  BY <1>1 DEF Session!EndChanging, Passed
<1>5. CallFits(p)'
  BY <1>2, NoCall DEF CallFits, SessionAnswerFits, RequestFits, Live
<1>6. /\ calls' \in [Session!Procedures -> Session!Call \cup {Session!Idle}]
      /\ \A q \in Session!Procedures : CallFits(q)'
  BY <1>2, <1>3, <1>5, OneAndOthers
<1>7. Session!TypeOK'
  BY <1>6 DEF SessionInvariant, Session!TypeOK
<1>8. /\ \A q \in Session!Procedures \ {p} : Changed(q) => Changed(q)'
      /\ \A q \in Session!Procedures \ {p} : calls[q] = Session!Idle => calls'[q] = Session!Idle
  BY <1>3, OthersFit
<1>9. PasswordFits'
  <2>1. isLoading' => calls'["password"] = Session!Idle
    BY <1>2, <1>8 DEF SessionInvariant, PasswordFits, Session!Procedures
  <2>2. ASSUME Live("password")', calls'["password"].request = "password",
               calls'["password"].answer.status = "ok"
        PROVE  /\ Session!OwnerOf(cookies.session)' = Nobody
               /\ \/ doubtful' \/ user' = Nobody \/ user' = calls'["password"].answer.account
                  \/ \E q \in Session!Procedures \ {"password"} : Changed(q)'
    <3>1. "password" # p
      BY <1>2, <2>2 DEF Live
    <3>2. ~Passed("password")
      <4> SUFFICES ASSUME Passed("password") PROVE FALSE
        OBVIOUS
      <4>1. calls["password"] # Session!Idle
        BY <2>2, NoCall DEF Passed, Live
      <4>2. calls'["password"].overtaken
        BY <4>1, CallsTyped DEF Passed, Session!Procedures
      <4> QED BY <2>2, <4>2 DEF Live
    <3>3. ~Session!EndChanging(p) /\ calls'["password"] = calls["password"]
          /\ cookies'.session = cookies.session
      BY <1>3, <1>4, <3>1, <3>2 DEF Untouched, Session!Procedures
    <3>4. Session!OwnerOf(cookies.session)' = Session!OwnerOf(cookies.session)
      BY <3>3 DEF Session!OwnerOf
    <3>5. /\ Session!OwnerOf(cookies.session) = Nobody
          /\ \/ doubtful \/ user = Nobody \/ user = calls["password"].answer.account
             \/ \E q \in Session!Procedures \ {"password"} : Changed(q)
      BY <2>2, <3>3 DEF SessionInvariant, PasswordFits, Live
    <3>6. CASE doubtful' \/ user' = Session!OwnerOf(cookies.session)'
      BY <3>4, <3>5, <3>6
    <3>7. CASE user' = user /\ doubtful' = doubtful /\ ~Changed(p)
      BY <1>8, <3>3, <3>4, <3>5, <3>7
    <3> QED BY <3>3, <3>6, <3>7
  <2> QED BY <2>1, <2>2 DEF PasswordFits
<1>10. TabKnows'
  <2>1. CASE doubtful' \/ user' = Session!OwnerOf(cookies.session)'
    BY <2>1 DEF TabKnows
  <2>2. CASE \E q \in Session!Procedures \ {p} : Changed(q)
    BY <1>8, <2>2 DEF TabKnows
  <2>3. CASE /\ user' = user /\ doubtful' = doubtful /\ cookies'.session = cookies.session
             /\ isLoading' = isLoading /\ ~Changed(p)
    <3>1. Session!OwnerOf(cookies.session)' = Session!OwnerOf(cookies.session)
      BY <2>3 DEF Session!OwnerOf
    <3> QED BY <1>8, <2>3, <3>1 DEF SessionInvariant, TabKnows
  <2> QED BY <2>1, <2>2, <2>3
<1>11. NotYetOpened'
  BY DEF SessionInvariant, NotYetOpened
<1> QED BY <1>6, <1>7, <1>9, <1>10, <1>11 DEF SessionInvariant

\* The cookies an answer sets.
LEMMA CookiesTaken ==
    ASSUME SessionInvariant, NEW p \in Session!Procedures, calls[p] \in Session!Call,
           Session!TakeCookies(p)
    PROVE  /\ cookies' \in Session!Cookies
           /\ calls[p].request \in {"csrf", "me", "patch"} => cookies'.session = cookies.session
           /\ ~Session!Ok(p) => cookies' = cookies
           /\ calls[p].request \in {"login", "password"} /\ Session!Ok(p) =>
                 cookies'.session = calls[p].answer.session
           /\ calls[p].request = "logout" /\ Session!Ok(p) => cookies'.session = 0
<1>1. cookies \in Session!Cookies /\ 0 \in 0..MaxSessions
  BY ScreenConstants DEF SessionInvariant, Session!TypeOK
<1>2. calls[p].answer.session \in 0..MaxSessions /\ calls[p].sent.secret \in 0..MaxSessions
  BY DEF Session!Call, Session!Answer, Session!Cookies
<1>3. CASE ~Session!Ok(p)
  BY <1>1, <1>3 DEF Session!TakeCookies
<1>4. CASE Session!Ok(p) /\ calls[p].request = "csrf"
  BY <1>1, <1>2, <1>4 DEF Session!TakeCookies, Session!Cookies
<1>5. CASE Session!Ok(p) /\ calls[p].request = "login"
  BY <1>1, <1>2, <1>5 DEF Session!TakeCookies, Session!Cookies
<1>6. CASE Session!Ok(p) /\ calls[p].request = "password"
  BY <1>1, <1>2, <1>6 DEF Session!TakeCookies, Session!Cookies
<1>7. CASE Session!Ok(p) /\ calls[p].request = "logout"
  BY <1>1, <1>2, <1>7 DEF Session!TakeCookies, Session!Cookies
<1>8. CASE Session!Ok(p) /\ calls[p].request \in {"me", "patch"}
  BY <1>1, <1>8 DEF Session!TakeCookies
<1>9. calls[p].request \in {"csrf", "me", "login", "logout", "patch", "password"}
  BY DEF Session!Call
<1> QED BY <1>3, <1>4, <1>5, <1>6, <1>7, <1>8, <1>9

LEMMA SessionHears ==
    ASSUME SessionInvariant, NEW p \in Session!Procedures,
           NEW name \in {"csrf", "me", "login", "logout", "patch", "password"},
           Session!Answered(p, name)
    PROVE  /\ calls[p] \in Session!Call /\ calls[p] # Session!Idle /\ CallFits(p) /\ calls[p].request = name
           /\ calls[p].answer.status \in {"ok", "unauthorized", "forbidden", "lost"}
           /\ calls[p].answer.account \in Accounts \cup {Nobody}
           /\ calls[p].sent.secret \in Session!Tokens
           /\ calls[p].overtaken \in BOOLEAN
           /\ UNCHANGED <<owner, opened>>
           /\ cookies.session \in 0..MaxSessions
<1>1. calls[p] # Session!Idle
  BY NoCall DEF Session!Answered
<1>2. calls[p] \in Session!Call
  BY <1>1, CallsTyped
<1>3. /\ calls[p].answer.status \in {"ok", "unauthorized", "forbidden", "lost"}
      /\ calls[p].answer.account \in Accounts \cup {Nobody}
  BY <1>2 DEF Session!Answered, Session!Call, Session!Answer
<1>4. calls[p].sent.secret \in Session!Tokens /\ calls[p].overtaken \in BOOLEAN
  BY <1>2 DEF Session!Call, Session!Cookies, Session!Tokens
<1>5. cookies.session \in 0..MaxSessions
  BY DEF SessionInvariant, Session!TypeOK, Session!Cookies
<1> QED BY <1>1, <1>2, <1>3, <1>4, <1>5 DEF Session!Answered, SessionInvariant, Session!serverVars

\* The next request of a procedure.
LEMMA SessionContinues ==
    ASSUME SessionInvariant, NEW p \in Session!Procedures,
           NEW got \in {"csrf", "patch"}, NEW name \in {"me", "login", "logout", "patch",
                                                        "password"},
           Session!Answered(p, got), Session!TakeCookies(p), Session!Continue(p, name),
              token' \in Session!Tokens,
           name = "password" => p = "password",
           UNCHANGED <<user, isLoading, page, doubtful, signedOut>>
    PROVE  SessionInvariant'
<1>1. /\ calls[p] \in Session!Call /\ calls[p] # Session!Idle /\ calls[p].request = got
      /\ UNCHANGED <<owner, opened>>
  BY SessionHears
<1>2. cookies' \in Session!Cookies /\ cookies'.session = cookies.session
  BY <1>1, CookiesTaken
<1> DEFINE r == Session!Request(name, cookies', token')
<1>3. /\ r \in Session!Call /\ r.request = name /\ r.answer.status = "awaited"
      /\ r.sent.session = cookies.session
  BY <1>2, NewRequest
<1>4. calls' = [calls EXCEPT ![p] = r]
  BY DEF Session!Continue
<1>5. p = "password" => ~isLoading
  BY <1>1 DEF SessionInvariant, PasswordFits
<1>6. ~Changed(p)
  BY <1>1 DEF Changed
<1> HIDE DEF r
<1>7. r.request = "password" => p = "password"
  BY <1>3
<1>8. r.request # "csrf" => r.sent.session = cookies.session
  BY <1>3
<1> QED BY <1>1, <1>2, <1>3, <1>4, <1>5, <1>6, <1>7, <1>8, SendFits

\* A first request.
LEMMA SessionStarts ==
    ASSUME SessionInvariant, NEW p \in Session!Procedures,
           NEW name \in {"csrf", "login", "logout", "patch", "password"},
           calls' = [calls EXCEPT ![p] = Session!Request(name, cookies, token)],
           Session!MayStart(p), name = "password" => p = "password", p = "password" => ~isLoading,
           UNCHANGED <<owner, opened, cookies, user, isLoading, token, page, doubtful, signedOut>>
    PROVE  SessionInvariant'
<1> DEFINE r == Session!Request(name, cookies, token)
<1>1. cookies \in Session!Cookies /\ token \in Session!Tokens
  BY DEF SessionInvariant, Session!TypeOK
<1>2. /\ r \in Session!Call /\ r.request = name /\ r.answer.status = "awaited"
      /\ (name # "csrf" => r.sent.session = cookies.session)
  BY <1>1, NewRequest
<1>3. ~Changed(p)
  BY NoCall DEF Session!MayStart, Session!Busy, Changed
<1>4. calls' = [calls EXCEPT ![p] = r]
  OBVIOUS
<1> HIDE DEF r
<1>5. /\ r.request = "password" => p = "password"
      /\ r.request # "csrf" => r.sent.session = cookies.session
  BY <1>2
<1>6. cookies' \in Session!Cookies /\ cookies'.session = cookies.session /\ token' \in Session!Tokens
  BY <1>1
<1> QED BY <1>2, <1>3, <1>4, <1>5, <1>6, SendFits

LEMMA SessionRefreshed ==
    ASSUME SessionInvariant, NEW p \in Session!Procedures, Session!Answered(p, "me"),
           Session!TakeCookies(p),
           Session!RefreshUser(p), Session!End(p), isLoading' \in BOOLEAN,
              isLoading' => isLoading,
           UNCHANGED <<page, signedOut>>
    PROVE  SessionInvariant'
<1>1. /\ calls[p] \in Session!Call /\ calls[p] # Session!Idle /\ CallFits(p) /\ calls[p].request = "me"
      /\ calls[p].answer.status \in {"ok", "unauthorized", "forbidden", "lost"}
      /\ calls[p].answer.account \in Accounts \cup {Nobody}
      /\ calls[p].overtaken \in BOOLEAN
      /\ UNCHANGED <<owner, opened>>
  BY SessionHears
<1>2. cookies' \in Session!Cookies /\ cookies'.session = cookies.session
  BY <1>1, CookiesTaken
<1>3. Session!OwnerOf(cookies.session)' = Session!OwnerOf(cookies.session)
  BY <1>1, <1>2 DEF Session!OwnerOf
<1>4. /\ {doubtful,
          signedOut} \subseteq BOOLEAN /\ page \in Session!Pages /\ isLoading \in BOOLEAN
      /\ token \in Session!Tokens /\ NoToken \in Session!Tokens
  BY DEF SessionInvariant, Session!TypeOK, Session!Tokens
<1>5. user' \in Accounts \cup {Nobody} /\ token' \in Session!Tokens
  BY <1>1, <1>4 DEF Session!RefreshUser, Session!clearAuthState
<1>6. doubtful' \in BOOLEAN /\ signedOut' \in BOOLEAN /\ page' \in Session!Pages
  BY <1>4 DEF Session!RefreshUser, Session!Judge
<1>7. isLoading' \in BOOLEAN /\ (isLoading' => isLoading)
  OBVIOUS
<1>8. doubtful' \/ user' = Session!OwnerOf(cookies.session)'
  <2>1. CASE calls[p].overtaken \/ calls[p].answer.status \in {"lost", "forbidden"}
    BY <2>1 DEF Session!RefreshUser, Session!Judge
  <2>2. CASE ~calls[p].overtaken /\ calls[p].answer.status = "ok"
    BY <1>1, <1>3, <2>2 DEF Session!RefreshUser, Session!Ok, CallFits, SessionAnswerFits, Live
  <2>3. CASE ~calls[p].overtaken /\ calls[p].answer.status = "unauthorized"
    BY <1>1, <1>3, <2>3 DEF Session!RefreshUser, Session!Ok, Session!clearAuthState, CallFits,
       SessionAnswerFits, Live
  <2> QED BY <1>1, <2>1, <2>2, <2>3
<1> QED BY <1>1, <1>2, <1>5, <1>6, <1>7, <1>8, EndFits

\* A procedure gives up on its first request.
LEMMA SessionGivesUp ==
    ASSUME SessionInvariant, NEW p \in Session!Procedures, Session!Answered(p, "csrf"),
           Session!TakeCookies(p),
           ~Session!Ok(p), Session!clearAuthState, Session!Judge(p),
              Session!End(p) \/ Session!EndChanging(p),
           isLoading' \in BOOLEAN, isLoading' => isLoading, UNCHANGED <<page, signedOut>>
    PROVE  SessionInvariant'
<1>1. /\ calls[p] \in Session!Call /\ CallFits(p) /\ calls[p].request = "csrf"
      /\ calls[p].overtaken \in BOOLEAN /\ UNCHANGED <<owner, opened>>
      /\ calls[p].answer.status \in {"ok", "unauthorized", "forbidden", "lost"}
  BY SessionHears
<1>2. calls[p].answer.status = "lost"
  BY <1>1 DEF CallFits, RequestFits, Session!Ok
<1>3. doubtful' = TRUE
  BY <1>2 DEF Session!Judge
<1>4. cookies' \in Session!Cookies /\ cookies'.session = cookies.session
  BY <1>1, CookiesTaken
<1>5. user' \in Accounts \cup {Nobody} /\ token' \in Session!Tokens
  BY DEF Session!clearAuthState, Session!Tokens
<1>6. signedOut' \in BOOLEAN /\ page' \in Session!Pages
  BY DEF SessionInvariant, Session!TypeOK
<1>7. isLoading' \in BOOLEAN /\ (isLoading' => isLoading)
  OBVIOUS
<1>8. doubtful' \in BOOLEAN /\ doubtful'
  BY <1>3
<1> QED BY <1>1, <1>4, <1>5, <1>6, <1>7, <1>8, EndFits

LEMMA BootstrapKeeps ==
    ASSUME SessionInvariant, Session!BootstrapCsrf \/ Session!BootstrapMe
    PROVE  SessionInvariant'
<1>1. "bootstrap" \in Session!Procedures
  BY DEF Session!Procedures
<1>2. isLoading \in BOOLEAN
  BY DEF SessionInvariant, Session!TypeOK
<1>3. CASE Session!BootstrapCsrf /\ Session!Ok("bootstrap")
  <2>1. token' \in Session!Tokens
    BY <1>1, <1>3, SessionHears DEF Session!BootstrapCsrf
  <2> QED BY <1>1, <1>3, <2>1, SessionContinues DEF Session!BootstrapCsrf
<1>4. CASE Session!BootstrapCsrf /\ ~Session!Ok("bootstrap")
  <2>1. isLoading' \in BOOLEAN /\ ~isLoading'
    BY <1>4 DEF Session!BootstrapCsrf
  <2> QED BY <1>1, <1>4, <2>1, SessionGivesUp DEF Session!BootstrapCsrf
<1>5. CASE Session!BootstrapMe
  <2>1. isLoading' \in BOOLEAN /\ ~isLoading'
    BY <1>5 DEF Session!BootstrapMe
  <2> QED BY <1>1, <1>5, <2>1, SessionRefreshed DEF Session!BootstrapMe
<1> QED BY <1>3, <1>4, <1>5

LEMMA LoginKeeps ==
    ASSUME SessionInvariant, Session!LoginCsrf \/ Session!LoginAnswered
    PROVE  SessionInvariant'
<1>1. "login" \in Session!Procedures
  BY DEF Session!Procedures
<1>2. /\ isLoading \in BOOLEAN /\ user \in Accounts \cup {Nobody} /\ page \in Session!Pages
      /\ token \in Session!Tokens /\ cookies \in Session!Cookies /\ NoToken \in Session!Tokens
  BY DEF SessionInvariant, Session!TypeOK, Session!Tokens
<1>3. CASE Session!LoginCsrf /\ Session!Ok("login")
  <2>1. token' \in Session!Tokens
    BY <1>1, <1>3, SessionHears DEF Session!LoginCsrf
  <2> QED BY <1>1, <1>3, <2>1, SessionContinues DEF Session!LoginCsrf
<1>4. CASE Session!LoginCsrf /\ ~Session!Ok("login")
  <2>1. isLoading' \in BOOLEAN /\ (isLoading' => isLoading)
    BY <1>2, <1>4 DEF Session!LoginCsrf
  <2> QED BY <1>1, <1>4, <2>1, SessionGivesUp DEF Session!LoginCsrf
<1>5. CASE Session!LoginAnswered
  <2>1. /\ calls["login"] \in Session!Call /\ calls["login"] # Session!Idle /\ CallFits("login")
        /\ calls["login"].request = "login"
        /\ calls["login"].answer.status \in {"ok", "unauthorized", "forbidden", "lost"}
        /\ calls["login"].answer.account \in Accounts \cup {Nobody}
        /\ calls["login"].overtaken \in BOOLEAN /\ UNCHANGED <<owner, opened>>
    BY <1>1, <1>5, SessionHears DEF Session!LoginAnswered
  <2>2. /\ cookies' \in Session!Cookies /\ (~Session!Ok("login") => cookies' = cookies)
        /\ (Session!Ok("login") => cookies'.session = calls["login"].answer.session)
    BY <1>1, <1>5, <2>1, CookiesTaken DEF Session!LoginAnswered
  <2>3. isLoading' \in BOOLEAN /\ (isLoading' => isLoading) /\ isLoading' = isLoading
    BY <1>2, <1>5 DEF Session!LoginAnswered
  <2>4. doubtful' \in BOOLEAN /\ signedOut' \in BOOLEAN
    <3>1. {doubtful, signedOut} \subseteq BOOLEAN
      BY DEF SessionInvariant, Session!TypeOK
    <3> QED BY <1>5, <3>1 DEF Session!LoginAnswered, Session!Judge
  <2>5. CASE Session!Ok("login")
    <3>1. user' = calls["login"].answer.account /\ token' = token /\ page' = "home"
          /\ Session!EndChanging("login")
      BY <1>5, <2>5 DEF Session!LoginAnswered
    <3>2. page' \in Session!Pages
      BY <3>1 DEF Session!Pages
    <3>3. calls["login"].overtaken => doubtful'
      BY <1>5 DEF Session!LoginAnswered, Session!Judge
    <3>4. ~calls["login"].overtaken => user' = Session!OwnerOf(cookies.session)'
      <4>1. SUFFICES ASSUME ~calls["login"].overtaken PROVE user' = Session!OwnerOf(cookies.session)'
        OBVIOUS
      <4>2. /\ calls["login"].answer.session \in Session!Sessions
            /\ owner[calls["login"].answer.session] = calls["login"].answer.account
        BY <2>1, <2>5, <4>1 DEF CallFits, SessionAnswerFits, Live, Session!Ok
      <4>3. cookies'.session # 0
        BY <2>2, <2>5, <4>2, ScreenConstants DEF Session!Sessions
      <4> QED BY <2>1, <2>2, <2>5, <3>1, <4>2, <4>3 DEF Session!OwnerOf
    <3> QED BY <1>1, <1>2, <2>1, <2>2, <2>3, <2>4, <3>1, <3>2, <3>3, <3>4, EndFits
  <2>6. CASE ~Session!Ok("login")
    <3>1. user' = Nobody /\ token' = NoToken /\ page' = page /\ Session!End("login")
      BY <1>5, <2>6 DEF Session!LoginAnswered, Session!clearAuthState
    <3>2. CASE doubtful'
      BY <1>1, <1>2, <2>1, <2>2, <2>3, <2>4, <2>6, <3>1, <3>2, EndFits
    <3>3. CASE ~doubtful'
      <4>1. calls["login"].answer.status \notin {"ok", "lost"} /\ ~doubtful /\ user = Nobody
        BY <1>5, <2>1, <2>6, <3>3 DEF Session!LoginAnswered, Session!Judge, Session!Ok
      <4>2. ~Changed("login")
        BY <4>1 DEF Changed
      <4>3. doubtful' = doubtful
        BY <2>4, <3>3, <4>1 DEF SessionInvariant, Session!TypeOK
      <4> QED BY <1>1, <1>2, <2>1, <2>2, <2>3, <2>4, <2>6, <3>1, <4>1, <4>2, <4>3, EndFits
    <3> QED BY <3>2, <3>3
  <2> QED BY <2>5, <2>6
<1> QED BY <1>3, <1>4, <1>5

LEMMA LogoutKeeps ==
    ASSUME SessionInvariant, Session!LogoutCsrf \/ Session!LogoutAnswered
    PROVE  SessionInvariant'
<1>1. "logout" \in Session!Procedures
  BY DEF Session!Procedures
<1>2. /\ isLoading \in BOOLEAN /\ user \in Accounts \cup {Nobody} /\ page \in Session!Pages
      /\ token \in Session!Tokens /\ cookies \in Session!Cookies /\ NoToken \in Session!Tokens
  BY DEF SessionInvariant, Session!TypeOK, Session!Tokens
<1>3. CASE Session!LogoutCsrf /\ Session!Ok("logout")
  <2>1. token' \in Session!Tokens
    BY <1>1, <1>3, SessionHears DEF Session!LogoutCsrf
  <2> QED BY <1>1, <1>3, <2>1, SessionContinues DEF Session!LogoutCsrf
<1>4. CASE Session!LogoutCsrf /\ ~Session!Ok("logout")
  <2>1. isLoading' \in BOOLEAN /\ (isLoading' => isLoading)
    BY <1>2, <1>4 DEF Session!LogoutCsrf
  <2> QED BY <1>1, <1>4, <2>1, SessionGivesUp DEF Session!LogoutCsrf
<1>5. CASE Session!LogoutAnswered
  <2>1. /\ calls["logout"] \in Session!Call /\ calls["logout"].request = "logout"
        /\ calls["logout"].answer.status \in {"ok", "unauthorized", "forbidden", "lost"}
        /\ UNCHANGED <<owner, opened>>
    BY <1>1, <1>5, SessionHears DEF Session!LogoutAnswered
  <2>2. /\ cookies' \in Session!Cookies /\ (~Session!Ok("logout") => cookies' = cookies)
        /\ (Session!Ok("logout") => cookies'.session = 0)
    BY <1>1, <1>5, <2>1, CookiesTaken DEF Session!LogoutAnswered
  <2>3. isLoading' \in BOOLEAN /\ (isLoading' => isLoading) /\ page' \in Session!Pages
    BY <1>2, <1>5 DEF Session!LogoutAnswered
  <2>4. doubtful' \in BOOLEAN /\ signedOut' \in BOOLEAN
    <3>1. {doubtful, signedOut} \subseteq BOOLEAN
      BY DEF SessionInvariant, Session!TypeOK
    <3> QED BY <1>5, <3>1 DEF Session!LogoutAnswered, Session!Judge
  <2>5. user' = Nobody /\ token' = NoToken /\ Session!EndChanging("logout")
    BY <1>5 DEF Session!LogoutAnswered, Session!clearAuthState
  <2>6. CASE Session!Ok("logout")
    <3>1. Session!OwnerOf(cookies.session)' = Nobody
      BY <2>2, <2>6 DEF Session!OwnerOf
    <3> QED BY <1>1, <1>2, <2>1, <2>2, <2>3, <2>4, <2>5, <3>1, EndFits
  <2>7. CASE calls["logout"].answer.status \in {"forbidden", "lost"}
    <3>1. doubtful'
      BY <1>5, <2>7 DEF Session!LogoutAnswered, Session!Judge
    <3> QED BY <1>1, <1>2, <2>1, <2>2, <2>3, <2>4, <2>5, <3>1, EndFits
  <2>8. CASE calls["logout"].answer.status = "unauthorized"
    <3>1. CASE doubtful'
      BY <1>1, <1>2, <2>1, <2>2, <2>3, <2>4, <2>5, <3>1, EndFits
    <3>2. CASE ~doubtful'
      <4>1. ~doubtful /\ user = Nobody /\ ~Session!Ok("logout")
        BY <1>5, <2>8, <3>2, <2>1 DEF Session!LogoutAnswered, Session!Judge, Session!Ok
      <4>2. ~Changed("logout") /\ doubtful' = doubtful /\ isLoading' = isLoading
        BY <1>5, <2>4, <2>8, <3>2, <4>1 DEF Changed, Session!LogoutAnswered, SessionInvariant,
           Session!TypeOK
      <4> QED BY <1>1, <1>2, <2>1, <2>2, <2>3, <2>4, <2>5, <4>1, <4>2, EndFits
    <3> QED BY <3>1, <3>2
  <2> QED BY <2>1, <2>6, <2>7, <2>8 DEF Session!Ok
<1> QED BY <1>3, <1>4, <1>5

LEMMA SaveKeeps ==
    ASSUME SessionInvariant, Session!SaveCsrf \/ Session!SavePatched \/ Session!SaveRefreshed
    PROVE  SessionInvariant'
<1>1. "save" \in Session!Procedures
  BY DEF Session!Procedures
<1>2. /\ isLoading \in BOOLEAN /\ user \in Accounts \cup {Nobody} /\ page \in Session!Pages
      /\ token \in Session!Tokens
  BY DEF SessionInvariant, Session!TypeOK
<1>3. ASSUME NEW got \in {"csrf", "patch"}, Session!Answered("save", got),
             Session!TakeCookies("save"),
             Session!End("save"), UNCHANGED <<user, isLoading, token, page, doubtful, signedOut>>
      PROVE  SessionInvariant'
  <2>1. calls["save"] \in Session!Call /\ calls["save"].request = got /\ UNCHANGED <<owner,
                                                                                     opened>>
    BY <1>1, <1>3, SessionHears
  <2>2. cookies' \in Session!Cookies /\ cookies'.session = cookies.session
    BY <1>1, <1>3, <2>1, CookiesTaken
  <2>3. ~Changed("save")
    BY <2>1 DEF Changed
  <2>4. doubtful' \in BOOLEAN /\ signedOut' \in BOOLEAN
    BY <1>3 DEF SessionInvariant, Session!TypeOK
  <2>5. isLoading' \in BOOLEAN /\ (isLoading' => isLoading)
    BY <1>2, <1>3
  <2> QED BY <1>1, <1>2, <1>3, <2>1, <2>2, <2>3, <2>4, <2>5, EndFits
<1>4. CASE Session!SaveCsrf
  <2>1. UNCHANGED <<user, isLoading, page, doubtful, signedOut>>
    BY <1>4 DEF Session!SaveCsrf, Session!historyVars
  <2>2. CASE Session!Ok("save")
    <3>1. token' \in Session!Tokens
      BY <1>1, <1>4, <2>2, SessionHears DEF Session!SaveCsrf
    <3> QED BY <1>1, <1>4, <2>1, <2>2, <3>1, SessionContinues DEF Session!SaveCsrf
  <2>3. CASE ~Session!Ok("save")
    BY <1>3, <1>4, <2>1, <2>3 DEF Session!SaveCsrf
  <2> QED BY <2>2, <2>3
<1>5. CASE Session!SavePatched
  <2>1. UNCHANGED <<user, isLoading, token, page, doubtful, signedOut>>
    BY <1>5 DEF Session!SavePatched, Session!authVars, Session!historyVars
  <2>2. CASE Session!Ok("save")
    BY <1>1, <1>2, <1>5, <2>1, <2>2, SessionContinues DEF Session!SavePatched
  <2>3. CASE ~Session!Ok("save")
    BY <1>3, <1>5, <2>1, <2>3 DEF Session!SavePatched
  <2> QED BY <2>2, <2>3
<1>6. CASE Session!SaveRefreshed
  <2>1. isLoading' \in BOOLEAN /\ (isLoading' => isLoading)
    BY <1>2, <1>6 DEF Session!SaveRefreshed
  <2> QED BY <1>1, <1>6, <2>1, SessionRefreshed DEF Session!SaveRefreshed
<1> QED BY <1>4, <1>5, <1>6

LEMMA PasswordKeeps ==
    ASSUME SessionInvariant, Session!PasswordCsrf \/ Session!PasswordAnswered
    PROVE  SessionInvariant'
<1>1. "password" \in Session!Procedures
  BY DEF Session!Procedures
<1>2. /\ isLoading \in BOOLEAN /\ user \in Accounts \cup {Nobody} /\ page \in Session!Pages
      /\ token \in Session!Tokens /\ cookies \in Session!Cookies
  BY DEF SessionInvariant, Session!TypeOK
<1>3. CASE Session!PasswordCsrf
  <2>1. UNCHANGED <<user, isLoading, page, doubtful, signedOut>>
    BY <1>3 DEF Session!PasswordCsrf, Session!historyVars
  <2>2. CASE Session!Ok("password")
    <3>1. token' \in Session!Tokens
      BY <1>1, <1>3, <2>2, SessionHears DEF Session!PasswordCsrf
    <3> QED BY <1>1, <1>3, <2>1, <2>2, <3>1, SessionContinues DEF Session!PasswordCsrf
  <2>3. CASE ~Session!Ok("password")
    <3>1. /\ calls["password"] \in Session!Call /\ calls["password"].request = "csrf"
          /\ UNCHANGED <<owner, opened>>
      BY <1>1, <1>3, SessionHears DEF Session!PasswordCsrf
    <3>2. cookies' \in Session!Cookies /\ cookies'.session = cookies.session
      BY <1>1, <1>3, <3>1, CookiesTaken DEF Session!PasswordCsrf
    <3>3. ~Changed("password")
      BY <3>1 DEF Changed
    <3>4. doubtful' \in BOOLEAN /\ signedOut' \in BOOLEAN
      BY <2>1 DEF SessionInvariant, Session!TypeOK
    <3>5. isLoading' \in BOOLEAN /\ (isLoading' => isLoading)
      BY <1>2, <2>1
    <3>6. Session!End("password") /\ token' = token
      BY <1>3, <2>3 DEF Session!PasswordCsrf
    <3> QED BY <1>1, <1>2, <2>1, <3>1, <3>2, <3>3, <3>4, <3>5, <3>6, EndFits
  <2> QED BY <2>2, <2>3
<1>4. CASE Session!PasswordAnswered
  <2>1. UNCHANGED <<user, isLoading, token, page, signedOut>> /\ Session!EndChanging("password")
    BY <1>4 DEF Session!PasswordAnswered, Session!authVars
  <2>2. /\ calls["password"] \in Session!Call /\ calls["password"] # Session!Idle /\ CallFits("password")
        /\ calls["password"].request = "password" /\ UNCHANGED <<owner, opened>>
        /\ calls["password"].answer.status \in {"ok", "unauthorized", "forbidden", "lost"}
        /\ calls["password"].overtaken \in BOOLEAN
    BY <1>1, <1>4, SessionHears DEF Session!PasswordAnswered
  <2>3. /\ cookies' \in Session!Cookies /\ (~Session!Ok("password") => cookies' = cookies)
        /\ (Session!Ok("password") => cookies'.session = calls["password"].answer.session)
    BY <1>1, <1>4, <2>2, CookiesTaken DEF Session!PasswordAnswered
  <2>4. doubtful' \in BOOLEAN /\ signedOut' \in BOOLEAN
    <3>1. {doubtful, signedOut} \subseteq BOOLEAN
      BY DEF SessionInvariant, Session!TypeOK
    <3> QED BY <1>4, <2>1, <3>1 DEF Session!PasswordAnswered
  <2>5. isLoading' \in BOOLEAN /\ (isLoading' => isLoading)
    BY <1>2, <2>1
  <2>6. CASE doubtful'
    BY <1>1, <1>2, <2>1, <2>2, <2>3, <2>4, <2>5, <2>6, EndFits
  <2>7. CASE ~doubtful'
    <3>1. ~doubtful /\ ~calls["password"].overtaken /\ user # Nobody
          /\ calls["password"].answer.status # "lost"
      BY <1>4, <2>7 DEF Session!PasswordAnswered
    <3>2. CASE Session!Ok("password")
      <4>1. /\ calls["password"].answer.session \in Session!Sessions
            /\ owner[calls["password"].answer.session] = calls["password"].answer.account
        BY <2>2, <3>1, <3>2 DEF CallFits, SessionAnswerFits, Live, Session!Ok
      <4>2. cookies'.session # 0
        BY <2>3, <3>2, <4>1, ScreenConstants DEF Session!Sessions
      <4>3. Session!OwnerOf(cookies.session)' = calls["password"].answer.account
        BY <2>2, <2>3, <3>2, <4>1, <4>2 DEF Session!OwnerOf
      <4>4. \/ user = calls["password"].answer.account
            \/ \E q \in Session!Procedures \ {"password"} : Changed(q)
        BY <2>2, <3>1, <3>2 DEF SessionInvariant, PasswordFits, Live, Session!Ok
      <4> QED BY <1>1, <1>2, <2>1, <2>2, <2>3, <2>4, <2>5, <4>3, <4>4, EndFits
    <3>3. CASE ~Session!Ok("password")
      <4>1. ~Changed("password")
        BY <3>1, <3>3 DEF Changed, Session!Ok
      <4>2. doubtful' = doubtful /\ isLoading' = isLoading
        BY <2>1, <2>4, <2>7, <3>1 DEF SessionInvariant, Session!TypeOK
      <4> QED BY <1>1, <1>2, <2>1, <2>2, <2>3, <2>4, <2>5, <3>3, <4>1, <4>2, EndFits
    <3> QED BY <3>2, <3>3
  <2> QED BY <2>6, <2>7
<1> QED BY <1>3, <1>4

\* A page is visited: nothing of the session changes.
LEMMA PageVisited ==
    ASSUME SessionInvariant, page' \in Session!Pages,
           UNCHANGED <<owner, opened, cookies, user, isLoading, token, calls, doubtful,
                       signedOut>>
    PROVE  SessionInvariant'
<1>1. Session!OwnerOf(cookies.session)' = Session!OwnerOf(cookies.session)
  BY DEF Session!OwnerOf
<1>2. Session!TypeOK'
  BY DEF SessionInvariant, Session!TypeOK
<1>3. NotYetOpened'
  BY DEF SessionInvariant, NotYetOpened
<1>4. PasswordFits'
  BY <1>1 DEF SessionInvariant, PasswordFits, Live, Changed
<1>5. TabKnows'
  BY <1>1 DEF SessionInvariant, TabKnows, Changed
<1>6. \A p \in Session!Procedures : CallFits(p)'
  BY <1>1 DEF SessionInvariant, CallFits, SessionAnswerFits, RequestFits, Live
<1> QED BY <1>2, <1>3, <1>4, <1>5, <1>6 DEF SessionInvariant

\* The page has been loaded: all that is under way is the bootstrap.
LEMMA PageLoads ==
    ASSUME NEW jar \in Session!Cookies, jar = cookies, Session!TypeOK, NotYetOpened,
           user = Nobody, isLoading = TRUE,
           calls = [p \in Session!Procedures |->
                      IF p = "bootstrap" THEN Session!Request("csrf", jar,
                                                              NoToken) ELSE Session!Idle]
    PROVE  SessionInvariant
<1> DEFINE r == Session!Request("csrf", jar, NoToken)
<1>1. r \in Session!Call /\ r.request = "csrf" /\ r.answer.status = "awaited"
  BY NewRequest DEF Session!Tokens
<1> HIDE DEF r
<1>2. calls["password"] = Session!Idle /\ calls["bootstrap"] = r
      /\ \A p \in Session!Procedures : calls[p] \in {r, Session!Idle}
  BY DEF Session!Procedures, r
<1>3. PasswordFits
  BY <1>2 DEF PasswordFits, Live
<1>4. TabKnows
  BY DEF TabKnows
<1>5. ASSUME NEW p \in Session!Procedures PROVE CallFits(p)
  BY <1>1, <1>2, NoCall DEF CallFits, SessionAnswerFits, RequestFits, Live
<1> QED BY <1>3, <1>4, <1>5 DEF SessionInvariant

LEMMA FirstCalls ==
    ASSUME NEW jar \in Session!Cookies
    PROVE  [p \in Session!Procedures |-> IF p = "bootstrap" THEN Session!Request("csrf", jar,
                                                                                 NoToken)
                                   ELSE Session!Idle] \in [Session!Procedures -> Session!Call \cup {Session!Idle}]
<1>1. Session!Request("csrf", jar, NoToken) \in Session!Call
  BY NewRequest DEF Session!Tokens
<1> QED BY <1>1

LEMMA SessionInit == Session!Init => SessionInvariant
<1> SUFFICES ASSUME Session!Init PROVE SessionInvariant
  OBVIOUS
<1>1. Session!NoCookies \in Session!Cookies
  BY ScreenConstants DEF Session!NoCookies, Session!Cookies
<1>2. calls \in [Session!Procedures -> Session!Call \cup {Session!Idle}]
  BY <1>1, FirstCalls DEF Session!Init
<1>3. Session!TypeOK
  <2>1. owner \in [Session!Sessions -> Accounts \cup {Nobody}] /\ opened \in 0..MaxSessions
    BY ScreenConstants DEF Session!Init
  <2>2. cookies \in Session!Cookies /\ user \in Accounts \cup {Nobody} /\ token \in Session!Tokens
        /\ page \in Session!Pages
    BY <1>1 DEF Session!Init, Session!Tokens
  <2>3. isLoading \in BOOLEAN /\ {doubtful, signedOut} \subseteq BOOLEAN
    BY DEF Session!Init
  <2> QED BY <1>2, <2>1, <2>2, <2>3 DEF Session!TypeOK
<1>4. NotYetOpened
  BY DEF Session!Init, NotYetOpened
<1> QED BY <1>1, <1>3, <1>4, PageLoads DEF Session!Init

LEMMA ReloadKeepsSession ==
    ASSUME SessionInvariant, Session!Reload
    PROVE  SessionInvariant'
<1> DEFINE r == Session!Request("csrf", cookies, NoToken)
<1>1. /\ UNCHANGED <<owner, opened, cookies, page, doubtful, signedOut>>
      /\ user' = Nobody /\ isLoading' = TRUE /\ token' = NoToken
      /\ calls' = [p \in Session!Procedures |-> IF p = "bootstrap" THEN r ELSE Session!Idle]
  BY DEF Session!Reload, Session!serverVars, Session!historyVars
<1>2. cookies \in Session!Cookies
  BY DEF SessionInvariant, Session!TypeOK
<1>3. calls' \in [Session!Procedures -> Session!Call \cup {Session!Idle}]
  BY <1>1, <1>2, FirstCalls
<1>4. r \in Session!Call /\ r.request = "csrf" /\ r.answer.status = "awaited"
  BY <1>2, NewRequest DEF Session!Tokens
<1> HIDE DEF r
<1>5. Session!TypeOK'
  BY <1>1, <1>3 DEF SessionInvariant, Session!TypeOK, Session!Tokens
<1>6. NotYetOpened'
  BY <1>1 DEF SessionInvariant, NotYetOpened
<1>7. calls'["password"] = Session!Idle /\ \A p \in Session!Procedures : calls'[p] \in {r,
     Session!Idle}
  BY <1>1 DEF Session!Procedures
<1>8. PasswordFits'
  BY <1>7 DEF PasswordFits, Live
<1>9. TabKnows'
  BY <1>1 DEF TabKnows
<1>10. ASSUME NEW p \in Session!Procedures PROVE CallFits(p)'
  BY <1>4, <1>7, NoCall DEF CallFits, SessionAnswerFits, RequestFits, Live
<1> QED BY <1>5, <1>6, <1>8, <1>9, <1>10 DEF SessionInvariant

LEMMA SessionStepKeeps ==
    ASSUME SessionInvariant, Session!Next
    PROVE  SessionInvariant'
<1>1. /\ isLoading \in BOOLEAN /\ page \in Session!Pages
      /\ {"login", "logout", "save", "password"} \subseteq Session!Procedures
  BY DEF SessionInvariant, Session!TypeOK, Session!Procedures
<1>2. ASSUME NEW p \in {"logout", "save", "password"},
             NEW name \in {"logout", "patch", "password"},
             Session!StartWrite(p, name), page # "login", Session!Shown,
                name = "password" => p = "password"
      PROVE  SessionInvariant'
  <2>1. ~isLoading
    BY <1>2 DEF Session!Shown, Session!SignedIn
  <2> DEFINE first == IF token = NoToken THEN "csrf" ELSE name
  <2>2. /\ first \in {"csrf", "login", "logout", "patch", "password"}
        /\ first = "password" => p = "password"
    BY <1>2
  <2>3. calls' = [calls EXCEPT ![p] = Session!Request(first, cookies,
                                                      token)] /\ Session!MayStart(p)
        /\ UNCHANGED <<owner, opened, cookies, user, isLoading, token, page, doubtful, signedOut>>
    BY <1>2 DEF Session!StartWrite, Session!serverVars, Session!authVars, Session!historyVars
  <2> HIDE DEF first
  <2> QED BY <1>1, <2>1, <2>2, <2>3, SessionStarts
<1>3. CASE Session!Login
  <2>1. calls' = [calls EXCEPT !["login"] = Session!Request("csrf", cookies, token)]
        /\ Session!MayStart("login")
        /\ UNCHANGED <<owner, opened, cookies, user, isLoading, token, page, doubtful, signedOut>>
    BY <1>3 DEF Session!Login, Session!serverVars, Session!authVars, Session!historyVars
  <2> QED BY <1>1, <2>1, SessionStarts
<1>4. CASE Session!Logout
  BY <1>2, <1>4 DEF Session!Logout
<1>5. CASE Session!SaveProfile
  BY <1>2, <1>5 DEF Session!SaveProfile
<1>6. CASE Session!ChangePassword
  BY <1>2, <1>6 DEF Session!ChangePassword
<1>7. ASSUME NEW to \in Session!Pages, Session!Visit(to)
      PROVE  SessionInvariant'
  BY <1>7, PageVisited DEF Session!Visit, Session!serverVars, Session!authVars,
     Session!historyVars
<1>8. CASE Session!Redirect
  <2>1. page' \in Session!Pages
    BY <1>8 DEF Session!Redirect, Session!Home, Session!ToLogin, Session!FromHistory,
       Session!Pages
  <2> QED BY <1>8, <2>1, PageVisited DEF Session!Redirect, Session!serverVars,
             Session!authVars, Session!historyVars
<1>9. CASE Session!Reload
  BY <1>9, ReloadKeepsSession
<1>10. CASE Session!Continuations
  BY <1>10, BootstrapKeeps, LoginKeeps, LogoutKeeps, SaveKeeps,
     PasswordKeeps DEF Session!Continuations
<1>11. CASE Session!Expire
  BY <1>11, SessionExpires
<1>12. CASE \E p \in Session!Procedures : Session!Serve(p) \/ Session!Lose(p)
  BY <1>12, SessionServes, SessionLoses
<1> QED BY <1>3, <1>4, <1>5, <1>6, <1>7, <1>8, <1>9, <1>10, <1>11, <1>12 DEF Session!Next,
           Session!User

LEMMA SessionRests ==
    ASSUME SessionInvariant, UNCHANGED sessionVars
    PROVE  SessionInvariant'
<1>1. UNCHANGED <<owner, opened, cookies, user, isLoading, token, page, calls, doubtful,
                  signedOut>>
  BY DEF sessionVars
<1>2. page' \in Session!Pages
  BY <1>1 DEF SessionInvariant, Session!TypeOK
<1> QED BY <1>1, <1>2, PageVisited

LEMMA SessionMeans == SessionInvariant => Session!TypeOK /\ Session!TabAgrees
<1> SUFFICES ASSUME SessionInvariant, Session!Quiet,
   ~doubtful PROVE user = Session!OwnerOf(cookies.session)
  BY DEF SessionInvariant, Session!TabAgrees
<1>1. ~isLoading /\ \A p \in Session!Procedures : calls[p] = Session!Idle
  BY DEF Session!Quiet, Session!Busy
<1>2. \A p \in Session!Procedures : ~Changed(p)
  BY <1>1, NoCall DEF Changed
<1> QED BY <1>1, <1>2 DEF SessionInvariant, TabKnows

-----------------------------------------------------------------------------
(* The page of a record.                                                   *)

ButtonsOf(p) == UNION {p.offers[s] : s \in DOMAIN p.offers}
RowsOf(p) == p.states \cup {move[2] : move \in p.others}
             \cup {Record!Becomes(o, s) : o \in ButtonsOf(p), s \in p.states}

\* What a page offers in a state of its record is accepted there, but for the known
\* refusals, and its states are all that becomes of its record.
PageFits(p) ==
    /\ \A s \in DOMAIN p.offers : \A o \in p.offers[s] :
          /\ p.busy[o] \in Record!Flags /\ o \in Record!Operations
          /\ Record!Accepts(o, s) \/ <<o, s>> \in Record!KnownRefusals
    /\ "save" \in ButtonsOf(p) => p.name = "staff"
    /\ p.name = "staff" => RowsOf(p) = Record!StaffStates
    /\ \A o \in ButtonsOf(p), s \in RowsOf(p) : Record!Becomes(o, s) \in RowsOf(p)
    /\ ButtonsOf(p) # {} => RowsOf(p) \ {"gone"} \subseteq DOMAIN p.offers

\* What the page has and what is on its way to it is of versions there are.
VersionsSeen ==
    /\ ops \in [Record!Flags -> Record!Op \cup {None}]
    /\ copy # 0 => copy <= Len(rows) /\ rows[copy] # "gone"
    /\ newest # None => newest.from <= Len(rows)
    /\ values # None => /\ values.of <= Len(rows)
                        /\ values.asked \/ values.isActive = rows[values.of]
    /\ heard <= Len(rows)

\* What was pressed was offered.
OpFits(op) ==
    /\ op.name \in ButtonsOf(record) /\ op.seen <= Len(rows) /\ op.of <= Len(rows)
    /\ op.made <= Len(rows)
    /\ op.done = "sent" => rows[op.seen] \in DOMAIN record.offers
                           /\ op.name \in record.offers[rows[op.seen]] /\ ~op.turned
    /\ op.sends # None => op.name = "save" /\ (op.asked \/ op.sends = rows[op.of])
    /\ op.done = "refused" => op.stale \/ <<op.name, rows[op.seen]>> \in Record!KnownRefusals
    /\ op.turned => op.asked \/ op.stale \/ (op.of # op.seen /\ op.sends = rows[op.of])
OpsFit == \A f \in Record!Flags : ops[f] # None => OpFits(ops[f])

\* The newest request, or without one what is shown, has seen the page's own writes.
WritesSeen ==
    /\ load = "loading" <=> newest # None
    /\ gone \/ (newest # None => newest.from >= heard)
    /\ gone \/ (load = "success" => copy >= heard)

RecordInvariant == Record!TypeOK /\ VersionsSeen /\ OpsFit /\ WritesSeen

\* The states of a page's record, when they are E.
LEMMA StatesAre ==
    ASSUME NEW p, NEW E,
           p.states \subseteq E, \A move \in p.others : move[2] \in E,
           \A o \in ButtonsOf(p), s \in E : Record!Becomes(o, s) \in E,
           \A x \in E : \/ x \in p.states \/ \E move \in p.others : move[2] = x
                        \/ \E o \in ButtonsOf(p), s \in p.states : Record!Becomes(o, s) = x
    PROVE  /\ RowsOf(p) = E
           /\ \A o \in ButtonsOf(p), s \in RowsOf(p) : Record!Becomes(o, s) \in RowsOf(p)
<1> DEFINE outcomes == {move[2] : move \in p.others}
           results == {Record!Becomes(o, s) : o \in ButtonsOf(p), s \in p.states}
<1>1. RowsOf(p) = p.states \cup outcomes \cup results
  BY DEF RowsOf
<1>2. outcomes \subseteq E
  OBVIOUS
<1>3. results \subseteq E
  <2> SUFFICES ASSUME NEW x \in results PROVE x \in E
    OBVIOUS
  <2>1. PICK o \in ButtonsOf(p), s \in p.states : x = Record!Becomes(o, s)
    OBVIOUS
  <2>2. s \in E
    OBVIOUS
  <2>3. Record!Becomes(o, s) \in E
    BY <2>2
  <2> QED BY <2>1, <2>3
<1>4. ASSUME NEW x \in E PROVE x \in p.states \cup outcomes \cup results
  <2>1. CASE x \in p.states
    BY <2>1
  <2>2. CASE \E move \in p.others : move[2] = x
    BY <2>2
  <2>3. CASE \E o \in ButtonsOf(p), s \in p.states : Record!Becomes(o, s) = x
    BY <2>3
  <2> QED BY <1>4, <2>1, <2>2, <2>3
<1> HIDE DEF outcomes, results
<1>5. RowsOf(p) = E
  BY <1>1, <1>2, <1>3, <1>4
<1> QED BY <1>5

LEMMA ButtonsFrom ==
    ASSUME NEW p, NEW B, \A s \in DOMAIN p.offers : p.offers[s] \subseteq B
    PROVE  ButtonsOf(p) \subseteq B
BY Zenon DEF ButtonsOf

LEMMA ReadingPages ==
    ASSUME NEW p \in {Record!CustomerHistoryPage, Record!CustomerVersionDetailPage,
                      Record!TransactionHistoryPage,
                      Record!InvitationPrintPage, Record!DashboardPage,
                         Record!CustomerTransactionsPanel,
                      Record!TransactionConfirmationPage}
    PROVE  PageFits(p)
<1>1. p.offers = [s \in {} |-> {}] /\ p.states = {"live"} /\ p.others = {<<"live", "live">>}
      /\ p.name # "staff"
  BY DEF Record!CustomerHistoryPage, Record!CustomerVersionDetailPage,
     Record!TransactionHistoryPage,
     Record!InvitationPrintPage, Record!DashboardPage, Record!CustomerTransactionsPanel,
     Record!TransactionConfirmationPage, Record!ReadingPage
<1>2. DOMAIN p.offers = {}
  BY <1>1
<1>3. ButtonsOf(p) = {}
  BY <1>2, Zenon DEF ButtonsOf
<1> QED BY <1>1, <1>2, <1>3 DEF PageFits

\* The pages of customers.
LEMMA CustomerPages ==
    ASSUME NEW p \in {Record!CustomerDetailPage, Record!CustomerEditPage,
                      Record!CustomerTransactionCreatePage}
    PROVE  PageFits(p)
<1> DEFINE E == {"live", "archived"}
           B == {"revise", "archive", "transact"}
<1>1. /\ p.states = E /\ p.others = {<<"live", "live">>, <<"live", "archived">>}
      /\ p.name # "staff" /\ p.busy = [o \in B |-> "isArchiving"] /\ DOMAIN p.offers = E
  <2>1. CASE p = Record!CustomerDetailPage
    BY <2>1 DEF Record!CustomerDetailPage, Record!ReadingPage, Record!CustomerStates,
       Record!CustomerChanges
  <2>2. CASE p = Record!CustomerEditPage
    BY <2>2 DEF Record!CustomerDetailPage, Record!CustomerEditPage, Record!ReadingPage,
       Record!CustomerStates,
       Record!CustomerChanges
  <2>3. CASE p = Record!CustomerTransactionCreatePage
    BY <2>3 DEF Record!CustomerDetailPage, Record!CustomerTransactionCreatePage,
       Record!ReadingPage,
       Record!CustomerStates, Record!CustomerChanges
  <2> QED BY <2>1, <2>2, <2>3
<1>2. \A s \in E : /\ p.offers[s] \subseteq B /\ ("archive" \in p.offers[s] => s = "live")
  <2>1. CASE p = Record!CustomerDetailPage
    BY <2>1 DEF Record!CustomerDetailPage, Record!ReadingPage, Record!CustomerStates,
       Record!CustomerReadOnlyDetails,
       Record!CustomerBalanceSummary
  <2>2. CASE p = Record!CustomerEditPage
    BY <2>2 DEF Record!CustomerDetailPage, Record!CustomerEditPage, Record!ReadingPage,
       Record!CustomerStates
  <2>3. CASE p = Record!CustomerTransactionCreatePage
    BY <2>3 DEF Record!CustomerDetailPage, Record!CustomerTransactionCreatePage,
       Record!ReadingPage,
       Record!CustomerStates
  <2> QED BY <2>1, <2>2, <2>3
<1>3. ButtonsOf(p) \subseteq B
  <2>1. \A s \in DOMAIN p.offers : p.offers[s] \subseteq B
    BY <1>1, <1>2
  <2> HIDE DEF B
  <2> QED BY <2>1, ButtonsFrom
<1>4. \A o \in ButtonsOf(p), s \in E : Record!Becomes(o, s) \in E
  BY <1>3 DEF Record!Becomes
<1>5. /\ RowsOf(p) = E
      /\ \A o \in ButtonsOf(p), s \in RowsOf(p) : Record!Becomes(o, s) \in RowsOf(p)
  <2>1. \A move \in p.others : move[2] \in E
    BY <1>1
  <2> HIDE DEF E
  <2> QED BY <1>1, <1>4, <2>1, StatesAre
<1>6. ASSUME NEW s \in E, NEW o \in p.offers[s]
      PROVE  /\ p.busy[o] \in Record!Flags /\ o \in Record!Operations
             /\ Record!Accepts(o, s) \/ <<o, s>> \in Record!KnownRefusals
  <2>1. o \in B /\ (o = "archive" => s = "live")
    BY <1>2
  <2>2. p.busy[o] = "isArchiving"
    BY <1>1, <2>1
  <2>0. o \in Record!Operations
    BY <2>1 DEF Record!Operations
  <2>3. Record!Accepts(o, s) <=> s = "live"
    BY <2>1 DEF Record!Accepts
  <2>4. s = "live" \/ <<o, s>> \in Record!KnownRefusals
    BY <2>1 DEF Record!KnownRefusals
  <2> QED BY <2>0, <2>2, <2>3, <2>4 DEF Record!Flags
<1>7. "save" \notin ButtonsOf(p)
  BY <1>3
<1> QED BY <1>1, <1>5, <1>6, <1>7 DEF PageFits

\* The pages of transactions.
LEMMA TransactionPages ==
    ASSUME NEW p \in {Record!TransactionDetailPage, Record!StaffTransactionPage,
                      Record!TransactionCorrectPage}
    PROVE  PageFits(p)
<1> DEFINE E == {"active", "initial", "superseded", "voided", "voidedInitial"}
           B == {"correct", "void", "print"}
<1>0. p.offers = Record!TransactionReadOnlyDetails
      \/ p.offers = [s \in Record!TransactionStates |-> IF Record!isCorrectable(s) THEN {"correct"} ELSE {}]
  <2>1. CASE p = Record!TransactionDetailPage
    BY <2>1 DEF Record!ReadingPage, Record!TransactionStates, Record!TransactionDetailPage
  <2>2. CASE p = Record!StaffTransactionPage
    BY <2>2 DEF Record!ReadingPage, Record!TransactionStates, Record!TransactionDetailPage,
       Record!StaffTransactionPage
  <2>3. CASE p = Record!TransactionCorrectPage
    BY <2>3 DEF Record!ReadingPage, Record!TransactionStates, Record!TransactionDetailPage,
       Record!TransactionCorrectPage
  <2> QED BY <2>1, <2>2, <2>3
<1>9. DOMAIN p.offers = E
  BY <1>0 DEF Record!TransactionReadOnlyDetails, Record!TransactionStates
<1>1. /\ p.states \subseteq E /\ \A x \in E : x \in p.states \/ x = "superseded"
      /\ "active" \in p.states
      /\ \A move \in p.others : move[2] \in E
      /\ p.name # "staff" /\ p.busy = [o \in B |-> "isSaving"]
  <2>1. CASE p = Record!TransactionDetailPage
    <3>1. p.states = E /\ p.name # "staff"
      BY <2>1 DEF Record!ReadingPage, Record!TransactionStates, Record!TransactionDetailPage
    <3>2. p.busy = [o \in B |-> "isSaving"]
      BY <2>1 DEF Record!ReadingPage, Record!TransactionStates, Record!TransactionDetailPage
    <3>3. p.others = {<<"active", "superseded">>, <<"active", "voided">>,
                      <<"initial", "voidedInitial">>}
      BY <2>1 DEF Record!ReadingPage, Record!TransactionStates, Record!TransactionDetailPage
    <3>4. ASSUME NEW move \in p.others PROVE move[2] \in E
      <4>1. \/ move = <<"active", "superseded">> \/ move = <<"active", "voided">>
            \/ move = <<"initial", "voidedInitial">>
        BY <3>3
      <4>2. move[2] \in {"active", "initial", "superseded", "voided", "voidedInitial"}
        BY <4>1
      <4> QED BY <4>2
    <3>5. p.states \subseteq E /\ (\A x \in E : x \in p.states \/ x = "superseded")
          /\ "active" \in p.states
      BY <3>1
    <3> HIDE DEF E, B
    <3> QED BY <3>1, <3>2, <3>4, <3>5
  <2>2. CASE p = Record!StaffTransactionPage
    <3>1. p.states = E \ {"superseded"} /\ p.name # "staff"
      BY <2>2 DEF Record!ReadingPage, Record!TransactionStates, Record!TransactionDetailPage,
         Record!StaffTransactionPage
    <3>2. p.busy = [o \in B |-> "isSaving"]
      BY <2>2 DEF Record!ReadingPage, Record!TransactionStates, Record!TransactionDetailPage,
         Record!StaffTransactionPage
    <3>3. p.others = {<<"active", "active">>, <<"active", "voided">>, <<"initial", "initial">>}
      BY <2>2 DEF Record!ReadingPage, Record!TransactionStates, Record!TransactionDetailPage,
         Record!StaffTransactionPage
    <3>4. ASSUME NEW move \in p.others PROVE move[2] \in E
      <4>1. \/ move = <<"active", "active">> \/ move = <<"active", "voided">>
            \/ move = <<"initial", "initial">>
        BY <3>3
      <4>2. move[2] \in {"active", "initial", "superseded", "voided", "voidedInitial"}
        BY <4>1
      <4> QED BY <4>2
    <3>5. p.states \subseteq E /\ (\A x \in E : x \in p.states \/ x = "superseded")
          /\ "active" \in p.states
      BY <3>1
    <3> HIDE DEF E, B
    <3> QED BY <3>1, <3>2, <3>4, <3>5
  <2>3. CASE p = Record!TransactionCorrectPage
    <3>1. p.states = E /\ p.name # "staff"
      BY <2>3 DEF Record!ReadingPage, Record!TransactionStates, Record!TransactionDetailPage,
         Record!TransactionCorrectPage
    <3>2. p.busy = [o \in B |-> "isSaving"]
      BY <2>3 DEF Record!ReadingPage, Record!TransactionStates, Record!TransactionDetailPage,
         Record!TransactionCorrectPage
    <3>3. p.others = {<<"active", "superseded">>, <<"active", "voided">>,
                      <<"initial", "voidedInitial">>}
      BY <2>3 DEF Record!ReadingPage, Record!TransactionStates, Record!TransactionDetailPage,
         Record!TransactionCorrectPage
    <3>4. ASSUME NEW move \in p.others PROVE move[2] \in E
      <4>1. \/ move = <<"active", "superseded">> \/ move = <<"active", "voided">>
            \/ move = <<"initial", "voidedInitial">>
        BY <3>3
      <4>2. move[2] \in {"active", "initial", "superseded", "voided", "voidedInitial"}
        BY <4>1
      <4> QED BY <4>2
    <3>5. p.states \subseteq E /\ (\A x \in E : x \in p.states \/ x = "superseded")
          /\ "active" \in p.states
      BY <3>1
    <3> HIDE DEF E, B
    <3> QED BY <3>1, <3>2, <3>4, <3>5
  <2> QED BY <2>1, <2>2, <2>3
<1>2. \A s \in E : /\ p.offers[s] \subseteq B
                   /\ ("correct" \in p.offers[s] <=> s \in {"active", "initial"})
                   /\ ("void" \in p.offers[s] => s \in {"active", "initial"})
                   /\ ("print" \in p.offers[s] => s \notin {"initial", "voidedInitial"})
  <2>2. CASE p.offers = Record!TransactionReadOnlyDetails
    BY <2>2 DEF Record!TransactionStates, Record!TransactionReadOnlyDetails,
       Record!isCorrectable, Record!canPrint
  <2>3. CASE p.offers = [s \in Record!TransactionStates |->
                           IF Record!isCorrectable(s) THEN {"correct"} ELSE {}]
    <3>1. \A s \in E : p.offers[s] = IF s \in {"active", "initial"} THEN {"correct"} ELSE {}
      BY <2>3 DEF Record!TransactionStates, Record!isCorrectable
    <3>2. \A s \in E : s \in {"active", "initial"} => p.offers[s] = {"correct"}
      BY <3>1
    <3>3. \A s \in E : s \notin {"active", "initial"} => p.offers[s] = {}
      BY <3>1
    <3>4. ASSUME NEW s \in E
          PROVE  /\ p.offers[s] \subseteq B
                 /\ ("correct" \in p.offers[s] <=> s \in {"active", "initial"})
                 /\ "void" \notin p.offers[s] /\ "print" \notin p.offers[s]
      <4>1. CASE s \in {"active", "initial"}
        <5>1. p.offers[s] = {"correct"}
          BY <3>2, <4>1
        <5> QED BY <4>1, <5>1
      <4>2. CASE s \notin {"active", "initial"}
        <5>1. p.offers[s] = {}
          BY <3>3, <4>2
        <5> QED BY <4>2, <5>1
      <4> QED BY <4>1, <4>2
    <3> QED BY <3>4
  <2> QED BY <1>0, <2>2, <2>3
<1>3. ButtonsOf(p) \subseteq B /\ "correct" \in ButtonsOf(p)
  <2>1. \A s \in DOMAIN p.offers : p.offers[s] \subseteq B
    BY <1>1, <1>2, <1>9
  <2>2. "active" \in DOMAIN p.offers /\ "correct" \in p.offers["active"]
    BY <1>1, <1>2, <1>9
  <2>3. "correct" \in ButtonsOf(p)
    BY <2>2 DEF ButtonsOf
  <2> HIDE DEF B
  <2> QED BY <2>1, <2>3, ButtonsFrom
<1>4. \A o \in ButtonsOf(p), s \in E : Record!Becomes(o, s) \in E
  BY <1>3 DEF Record!Becomes
<1>5. /\ RowsOf(p) = E
      /\ \A o \in ButtonsOf(p), s \in RowsOf(p) : Record!Becomes(o, s) \in RowsOf(p)
  <2>1. Record!Becomes("correct", "active") = "superseded"
    BY DEF Record!Becomes
  <2>2. ASSUME NEW x \in E
        PROVE  x \in p.states \/ \E o \in ButtonsOf(p), s \in p.states : Record!Becomes(o, s) = x
    <3>1. CASE x = "superseded"
      BY <1>1, <1>3, <2>1, <3>1
    <3>2. CASE x # "superseded"
      BY <1>1, <3>2
    <3> QED BY <3>1, <3>2
  <2> HIDE DEF E
  <2> QED BY <1>1, <1>4, <2>2, StatesAre
<1>6. ASSUME NEW s \in E, NEW o \in p.offers[s]
      PROVE  /\ p.busy[o] \in Record!Flags /\ o \in Record!Operations
             /\ Record!Accepts(o, s) \/ <<o, s>> \in Record!KnownRefusals
  <2>1. o \in B
    BY <1>2
  <2>2. p.busy[o] = "isSaving" /\ o \in Record!Operations
    BY <1>1, <2>1 DEF Record!Operations
  <2>3. Record!Accepts(o, s)
    BY <1>2, <2>1 DEF Record!Accepts
  <2> QED BY <2>2, <2>3 DEF Record!Flags
<1>7. "save" \notin ButtonsOf(p)
  BY <1>3
<1> QED BY <1>1, <1>9, <1>5, <1>6, <1>7 DEF PageFits

\* The pages of halkhatas.
LEMMA HalkhataPages ==
    ASSUME NEW p \in {Record!HalkhataDetailPage, Record!PreHalkhataInvitationPage}
    PROVE  PageFits(p)
<1> DEFINE E == {"open", "closed"}
           B == {"notes", "close", "reopen", "pay", "generate"}
<1>1. /\ p.states = E /\ \A move \in p.others : move[2] \in E
      /\ p.name # "staff" /\ DOMAIN p.offers = E
  <2>1. CASE p = Record!HalkhataDetailPage
    BY <2>1 DEF Record!ReadingPage, Record!HalkhataStates, Record!HalkhataDetailPage
  <2>2. CASE p = Record!PreHalkhataInvitationPage
    BY <2>2 DEF Record!ReadingPage, Record!HalkhataStates, Record!HalkhataDetailPage,
       Record!PreHalkhataInvitationPage
  <2> QED BY <2>1, <2>2
<1>2. \A s \in E : /\ p.offers[s] \subseteq B
                   /\ (("pay" \in p.offers[s] \/ "generate" \in p.offers[s]) => s = "open")
  <2>1. CASE p = Record!HalkhataDetailPage
    BY <2>1 DEF Record!ReadingPage, Record!HalkhataStates, Record!HalkhataDetailPage,
       Record!HalkhataDetailHeader, Record!HalkhataCustomerPaymentSection
  <2>2. CASE p = Record!PreHalkhataInvitationPage
    BY <2>2 DEF Record!ReadingPage, Record!HalkhataStates, Record!HalkhataDetailPage,
       Record!PreHalkhataInvitationPage
  <2> QED BY <2>1, <2>2
<1>3. ButtonsOf(p) \subseteq B
  <2>1. \A s \in DOMAIN p.offers : p.offers[s] \subseteq B
    BY <1>1, <1>2
  <2> HIDE DEF B
  <2> QED BY <2>1, ButtonsFrom
<1>4. \A o \in ButtonsOf(p), s \in E : Record!Becomes(o, s) \in E
  BY <1>3 DEF Record!Becomes
<1>5. /\ RowsOf(p) = E
      /\ \A o \in ButtonsOf(p), s \in RowsOf(p) : Record!Becomes(o, s) \in RowsOf(p)
  <2> HIDE DEF E
  <2> QED BY <1>1, <1>4, StatesAre
<1>6. ASSUME NEW s \in E, NEW o \in p.offers[s]
      PROVE  p.busy[o] \in Record!Flags
  <2>1. CASE p = Record!HalkhataDetailPage
    <3>1. o \in {"notes", "close", "reopen", "pay"}
      BY <2>1 DEF Record!ReadingPage, Record!HalkhataStates, Record!HalkhataDetailPage,
         Record!HalkhataDetailHeader, Record!HalkhataCustomerPaymentSection
    <3>2. p.busy[o] \in {"isPaying", "isUpdating"}
      BY <2>1, <3>1 DEF Record!ReadingPage, Record!HalkhataDetailPage
    <3> QED BY <3>2 DEF Record!Flags
  <2>2. CASE p = Record!PreHalkhataInvitationPage
    <3>1. o = "generate"
      BY <2>2 DEF Record!ReadingPage, Record!HalkhataStates, Record!HalkhataDetailPage,
         Record!PreHalkhataInvitationPage
    <3>2. p.busy[o] = "isGenerating"
      BY <2>2, <3>1 DEF Record!ReadingPage, Record!HalkhataDetailPage,
         Record!PreHalkhataInvitationPage
    <3> QED BY <3>2 DEF Record!Flags
  <2> QED BY <2>1, <2>2
<1>7. ASSUME NEW s \in E, NEW o \in p.offers[s]
      PROVE  o \in Record!Operations /\ Record!Accepts(o, s)
  <2>1. o \in B
    BY <1>2
  <2> QED BY <1>2, <2>1 DEF Record!Operations, Record!Accepts
<1>8. "save" \notin ButtonsOf(p)
  BY <1>3
<1> QED BY <1>1, <1>5, <1>6, <1>7, <1>8 DEF PageFits

\* The pages of addresses.
LEMMA GeoPages ==
    ASSUME NEW p \in {Record!BangladeshAddressDetailPage, Record!BangladeshAddressEditPage}
    PROVE  PageFits(p)
<1> DEFINE E == {"leaf", "parent", "gone"}
           B == {"rename", "edit", "delete"}
           U == [o \in B |-> IF o = "rename" THEN "isSaving" ELSE "isDeleting"]
<1>1. /\ p.states = {"leaf", "parent"} /\ p.name # "staff" /\ p.busy = U
      /\ p.others = {<<"leaf", "leaf">>, <<"leaf", "parent">>, <<"parent", "leaf">>,
                     <<"leaf", "gone">>}
  <2>1. CASE p = Record!BangladeshAddressDetailPage
    BY <2>1 DEF Record!ReadingPage, Record!GeoStates, Record!BangladeshAddressDetailPage
  <2>2. CASE p = Record!BangladeshAddressEditPage
    BY <2>2 DEF Record!ReadingPage, Record!GeoStates, Record!BangladeshAddressDetailPage,
       Record!BangladeshAddressEditPage
  <2> QED BY <2>1, <2>2
<1>2. \/ p.offers = [s \in {"leaf", "parent"} |-> B]
      \/ p.offers = [s \in {"leaf", "parent"} |-> {"edit"}]
  <2>1. CASE p = Record!BangladeshAddressDetailPage
    BY <2>1 DEF Record!ReadingPage, Record!GeoStates, Record!BangladeshAddressDetailPage
  <2>2. CASE p = Record!BangladeshAddressEditPage
    BY <2>2 DEF Record!ReadingPage, Record!GeoStates, Record!BangladeshAddressDetailPage,
       Record!BangladeshAddressEditPage
  <2> QED BY <2>1, <2>2
<1>3. DOMAIN p.offers = {"leaf", "parent"} /\ \A s \in {"leaf",
                                                        "parent"} : p.offers[s] \subseteq B
  BY <1>2
<1>4. ButtonsOf(p) \subseteq B
  <2>1. \A s \in DOMAIN p.offers : p.offers[s] \subseteq B
    BY <1>3
  <2> HIDE DEF B
  <2> QED BY <2>1, ButtonsFrom
<1>5. \A o \in ButtonsOf(p), s \in E : Record!Becomes(o, s) \in E
  BY <1>4 DEF Record!Becomes
<1>6. /\ RowsOf(p) = E
      /\ \A o \in ButtonsOf(p), s \in RowsOf(p) : Record!Becomes(o, s) \in RowsOf(p)
  <2>1. p.states \subseteq E /\ \A move \in p.others : move[2] \in E
    BY <1>1
  <2>2. ASSUME NEW x \in E
        PROVE  x \in p.states \/ \E move \in p.others : move[2] = x
    <3>1. CASE x = "gone"
      <4>1. <<"leaf", "gone">> \in p.others /\ <<"leaf", "gone">>[2] = x
        BY <1>1, <3>1
      <4> QED BY <4>1
    <3>2. CASE x # "gone"
      BY <1>1, <3>2
    <3> QED BY <3>1, <3>2
  <2> HIDE DEF E
  <2> QED BY <1>5, <2>1, <2>2, StatesAre
<1>7. ASSUME NEW s \in {"leaf", "parent"}, NEW o \in p.offers[s]
      PROVE  /\ p.busy[o] \in Record!Flags /\ o \in Record!Operations
             /\ Record!Accepts(o, s) \/ <<o, s>> \in Record!KnownRefusals
  <2>1. o \in B
    BY <1>3
  <2>2. p.busy[o] \in {"isSaving", "isDeleting"} /\ o \in Record!Operations
    BY <1>1, <2>1 DEF Record!Operations
  <2>3. Record!Accepts(o, s) \/ <<o, s>> \in Record!KnownRefusals
    BY <2>1 DEF Record!Accepts, Record!KnownRefusals
  <2> QED BY <2>2, <2>3 DEF Record!Flags
<1>8. "save" \notin ButtonsOf(p)
  BY <1>4
<1> QED BY <1>1, <1>3, <1>6, <1>7, <1>8 DEF PageFits

\* The page of a staff account.
LEMMA StaffPage == PageFits(Record!StaffUserDetailPage)
<1> DEFINE p == Record!StaffUserDetailPage
           E == {"active", "inactive"}
           B == {"save", "reset", "deactivate"}
<1>1. /\ p.states = E /\ p.name = "staff"
      /\ p.others = {<<"active", "inactive">>, <<"inactive", "active">>, <<"active", "active">>}
  BY DEF Record!StaffUserDetailPage, Record!ReadingPage, Record!StaffStates
<1>2. p.busy = [o \in B |-> CASE o = "save" -> "isSaving" [] o = "reset" -> "isResettingPassword"
                              [] OTHER -> "isDeactivating"]
  BY DEF Record!StaffUserDetailPage, Record!ReadingPage
<1>3. DOMAIN p.offers = E /\ \A s \in E : p.offers[s] \subseteq B
  <2>1. p.offers = [s \in E |-> {"save",
                                 "reset"} \cup IF s = "active" THEN {"deactivate"} ELSE {}]
    BY DEF Record!StaffUserDetailPage, Record!ReadingPage, Record!StaffStates
  <2> HIDE DEF p
  <2> QED BY <2>1
<1> HIDE DEF p
<1>4. ButtonsOf(p) \subseteq B
  <2>1. \A s \in DOMAIN p.offers : p.offers[s] \subseteq B
    BY <1>3
  <2> HIDE DEF B
  <2> QED BY <2>1, ButtonsFrom
<1>5. \A o \in ButtonsOf(p), s \in E : Record!Becomes(o, s) \in E
  BY <1>4 DEF Record!Becomes
<1>6. /\ RowsOf(p) = E
      /\ \A o \in ButtonsOf(p), s \in RowsOf(p) : Record!Becomes(o, s) \in RowsOf(p)
  <2>1. \A move \in p.others : move[2] \in E
    BY <1>1
  <2> HIDE DEF E
  <2> QED BY <1>1, <1>5, <2>1, StatesAre
<1>7. ASSUME NEW s \in E, NEW o \in p.offers[s]
      PROVE  p.busy[o] \in Record!Flags /\ o \in Record!Operations /\ Record!Accepts(o, s)
  <2>1. o \in B
    BY <1>3
  <2>2. p.busy[o] \in {"isSaving", "isResettingPassword",
                       "isDeactivating"} /\ o \in Record!Operations
    BY <1>2, <2>1 DEF Record!Operations
  <2>3. Record!Accepts(o, s)
    BY <2>1 DEF Record!Accepts
  <2> QED BY <2>2, <2>3 DEF Record!Flags
<1>8. RowsOf(p) = Record!StaffStates
  BY <1>6 DEF Record!StaffStates
<1>9. PageFits(p)
  BY <1>1, <1>3, <1>6, <1>7, <1>8 DEF PageFits
<1> QED BY <1>9 DEF p

\* The pages of follow-ups.
LEMMA FollowUpPages ==
    ASSUME NEW p \in {Record!CustomerFollowUpPanel, Record!DashboardFollowUps}
    PROVE  PageFits(p)
<1> DEFINE E == {"none", "pending"}
           B == {"set", "reschedule", "complete", "cancel"}
<1>1. /\ p.states = E /\ p.name # "staff" /\ p.busy = [o \in B |-> "isSaving"]
      /\ p.others = {<<"none", "pending">>, <<"pending", "pending">>, <<"pending", "none">>}
  <2>1. CASE p = Record!CustomerFollowUpPanel
    BY <2>1 DEF Record!ReadingPage, Record!FollowUpStates, Record!CustomerFollowUpPanel
  <2>2. CASE p = Record!DashboardFollowUps
    BY <2>2 DEF Record!ReadingPage, Record!FollowUpStates, Record!CustomerFollowUpPanel,
       Record!DashboardFollowUps
  <2> QED BY <2>1, <2>2
<1>2. /\ DOMAIN p.offers = E
      /\ \/ p.offers["none"] = {"set"}
         \/ p.offers["none"] = {}
      /\ \/ p.offers["pending"] = {"reschedule", "complete", "cancel"}
         \/ p.offers["pending"] = {"reschedule", "complete"}
  <2>1. CASE p = Record!CustomerFollowUpPanel
    BY <2>1 DEF Record!ReadingPage, Record!FollowUpStates, Record!CustomerFollowUpPanel,
       Record!FollowUpCard
  <2>2. CASE p = Record!DashboardFollowUps
    BY <2>2 DEF Record!ReadingPage, Record!FollowUpStates, Record!CustomerFollowUpPanel,
       Record!DashboardFollowUps
  <2> QED BY <2>1, <2>2
<1>3. \A s \in E : /\ p.offers[s] \subseteq B
                   /\ \A o \in p.offers[s] : o = "set" \/ s = "pending"
  BY <1>2
<1>4. ButtonsOf(p) \subseteq B
  <2>1. \A s \in DOMAIN p.offers : p.offers[s] \subseteq B
    BY <1>2, <1>3
  <2> HIDE DEF B
  <2> QED BY <2>1, ButtonsFrom
<1>5. \A o \in ButtonsOf(p), s \in E : Record!Becomes(o, s) \in E
  BY <1>4 DEF Record!Becomes
<1>6. /\ RowsOf(p) = E
      /\ \A o \in ButtonsOf(p), s \in RowsOf(p) : Record!Becomes(o, s) \in RowsOf(p)
  <2>1. \A move \in p.others : move[2] \in E
    BY <1>1
  <2> HIDE DEF E
  <2> QED BY <1>1, <1>5, <2>1, StatesAre
<1>7. ASSUME NEW s \in E, NEW o \in p.offers[s]
      PROVE  p.busy[o] \in Record!Flags /\ o \in Record!Operations /\ Record!Accepts(o, s)
  <2>1. o \in B /\ (o = "set" \/ s = "pending")
    BY <1>3
  <2>2. p.busy[o] = "isSaving" /\ o \in Record!Operations
    BY <1>1, <2>1 DEF Record!Operations
  <2>3. Record!Accepts(o, s)
    BY <2>1 DEF Record!Accepts
  <2> QED BY <2>2, <2>3 DEF Record!Flags
<1>8. "save" \notin ButtonsOf(p)
  BY <1>4
<1> QED BY <1>1, <1>2, <1>6, <1>7, <1>8 DEF PageFits

LEMMA PagesFit == \A p \in Record!Pages : PageFits(p)
BY ReadingPages, CustomerPages, TransactionPages, HalkhataPages, GeoPages, StaffPage,
   FollowUpPages
   DEF Record!Pages

LEMMA RecordFits ==
    ASSUME RecordInvariant
    PROVE  /\ record \in Record!Pages /\ PageFits(record)
           /\ rows \in Seq(RowsOf(record)) /\ Len(rows) \in Record!Versions
           /\ rows # <<>> /\ Record!Now \in RowsOf(record) /\ Record!Now = rows[Len(rows)]
           /\ \A i \in 1..Len(rows) : rows[i] \in RowsOf(record)
           /\ Record!Buttons = ButtonsOf(record)
           /\ Record!Versions = 1..MaxVersions /\ MaxVersions \in Nat
           /\ copy \in 0..MaxVersions /\ heard \in 0..MaxVersions
<1>1. record \in Record!Pages /\ Len(rows) \in Record!Versions /\ copy \in {0} \cup Record!Versions
      /\ heard \in {0} \cup Record!Versions
  BY DEF RecordInvariant, Record!TypeOK
<1>2. PageFits(record)
  BY <1>1, PagesFit
<1>3. rows \in Seq(RowsOf(record))
  BY DEF RecordInvariant, Record!TypeOK, RowsOf, ButtonsOf, Record!Buttons, Record!Outcomes
<1>4. MaxVersions \in Nat /\ Record!Versions = 1..MaxVersions
  BY ScreenConstants DEF Record!Versions
<1>5. \A i \in 1..Len(rows) : rows[i] \in RowsOf(record)
  BY <1>3, ElementOfSeq
<1>6. Record!Now = rows[Len(rows)]
  BY DEF Record!Now, Record!Last
<1>7. rows # <<>>
  <2>1. Len(<<>>) = 0
    OBVIOUS
  <2> QED BY <1>1, <1>4, <2>1
<1>8. Record!Buttons = ButtonsOf(record)
  BY DEF Record!Buttons, ButtonsOf
<1>9. Record!Now \in RowsOf(record)
  BY <1>1, <1>4, <1>5, <1>6
<1>10. copy \in 0..MaxVersions /\ heard \in 0..MaxVersions
  BY <1>1, <1>4
<1> QED BY <1>1, <1>2, <1>3, <1>4, <1>5, <1>6, <1>7, <1>8, <1>9, <1>10

\* The record as it is, or with one more version.
Grown == \/ rows' = rows
         \/ Len(rows) < MaxVersions /\ \E x \in RowsOf(record) : rows' = Append(rows, x)

LEMMA RowsGrow ==
    ASSUME RecordInvariant, Grown, record' = record
    PROVE  /\ rows' \in Seq(RowsOf(record)) /\ Len(rows') \in Record!Versions
           /\ Len(rows) <= Len(rows') /\ \A i \in 1..Len(rows) : rows'[i] = rows[i]
           /\ \A op \in Record!Op : OpFits(op) => OpFits(op)'
<1>1. /\ rows \in Seq(RowsOf(record)) /\ Len(rows) \in Record!Versions
      /\ Record!Versions = 1..MaxVersions /\ MaxVersions \in Nat
  BY RecordFits
<1>2. /\ rows' \in Seq(RowsOf(record)) /\ Len(rows') \in Record!Versions
      /\ Len(rows) <= Len(rows') /\ \A i \in 1..Len(rows) : rows'[i] = rows[i]
  <2>1. CASE rows' = rows
    BY <1>1, <2>1
  <2>2. CASE Len(rows) < MaxVersions /\ \E x \in RowsOf(record) : rows' = Append(rows, x)
    <3>1. PICK x \in RowsOf(record) : rows' = Append(rows, x)
      BY <2>2
    <3>2. /\ rows' \in Seq(RowsOf(record)) /\ Len(rows') = Len(rows) + 1
          /\ \A i \in 1..Len(rows) : rows'[i] = rows[i]
      BY <1>1, <3>1, AppendProperties
    <3> QED BY <1>1, <2>2, <3>2
  <2> QED BY <2>1, <2>2 DEF Grown
<1>3. ASSUME NEW op \in Record!Op, OpFits(op)
      PROVE  OpFits(op)'
  <2>1. op.seen \in 1..Len(rows) /\ op.of \in 1..Len(rows)
    BY <1>1, <1>3 DEF OpFits, Record!Op
  <2>2. rows'[op.seen] = rows[op.seen] /\ rows'[op.of] = rows[op.of]
    BY <1>2, <2>1
  <2>3. op.made <= Len(rows')
    BY <1>1, <1>2, <1>3 DEF OpFits, Record!Op
  <2>4. op.seen <= Len(rows') /\ op.of <= Len(rows')
    BY <1>1, <1>2, <2>1
  <2> QED BY <1>3, <2>2, <2>3, <2>4 DEF OpFits
<1> QED BY <1>2, <1>3

\* A step that leaves the load alone.
LEMMA LoadRests ==
    ASSUME RecordInvariant, Grown,
           UNCHANGED <<record, copy, load, newest, late, values, heard, gone>>,
           ops' \in [Record!Flags -> Record!Op \cup {None}],
           \A f \in Record!Flags : ops'[f] # None => OpFits(ops[f])'
    PROVE  RecordInvariant'
<1>1. /\ rows' \in Seq(RowsOf(record)) /\ Len(rows') \in Record!Versions
      /\ Len(rows) <= Len(rows') /\ \A i \in 1..Len(rows) : rows'[i] = rows[i]
  BY RowsGrow
<1>2. Len(rows) \in 1..MaxVersions /\ MaxVersions \in Nat /\ copy \in 0..MaxVersions
      /\ heard \in 0..MaxVersions /\ Record!Versions = 1..MaxVersions
  BY RecordFits
<1>3. Record!TypeOK'
  <2>1. rows' \in Seq(record'.states \cup Record!Outcomes'
                      \cup {Record!Becomes(o, s) : o \in Record!Buttons', s \in record'.states})
    BY <1>1 DEF RowsOf, ButtonsOf, Record!Buttons, Record!Outcomes
  <2>2. \A f \in Record!Flags : ops'[f] # None => ops'[f] \in Record!Op
    OBVIOUS
  <2> QED BY <1>1, <2>1, <2>2 DEF RecordInvariant, Record!TypeOK
<1>4. VersionsSeen'
  <2>1. copy' # 0 => copy' <= Len(rows') /\ rows'[copy'] # "gone"
    BY <1>1, <1>2 DEF RecordInvariant, VersionsSeen
  <2>2. newest' # None => newest'.from <= Len(rows')
    <3>1. newest # None => newest.from \in 1..MaxVersions
      BY <1>2 DEF RecordInvariant, Record!TypeOK, Record!Request
    <3> QED BY <1>1, <1>2, <3>1 DEF RecordInvariant, VersionsSeen
  <2>3. values' # None => /\ values'.of <= Len(rows')
                          /\ values'.asked \/ values'.isActive = rows'[values'.of]
    <3>1. values # None => values.of \in 1..Len(rows)
      BY <1>2 DEF RecordInvariant, VersionsSeen, Record!TypeOK, Record!StaffForm
    <3> QED BY <1>1, <1>2, <3>1 DEF RecordInvariant, VersionsSeen
  <2>4. heard' <= Len(rows')
    BY <1>1, <1>2 DEF RecordInvariant, VersionsSeen
  <2> QED BY <2>1, <2>2, <2>3, <2>4 DEF VersionsSeen
<1>5. OpsFit'
  BY DEF OpsFit
<1>6. WritesSeen'
  BY DEF RecordInvariant, WritesSeen
<1> QED BY <1>3, <1>4, <1>5, <1>6 DEF RecordInvariant

\* One operation is put in its place; the others stay.
LEMMA OneOp ==
    ASSUME RecordInvariant, Grown, record' = record,
           NEW flag \in Record!Flags, NEW op \in Record!Op \cup {None},
           ops' = [ops EXCEPT ![flag] = op],
           op # None => OpFits(op)'
    PROVE  /\ ops' \in [Record!Flags -> Record!Op \cup {None}]
           /\ \A f \in Record!Flags : ops'[f] # None => OpFits(ops[f])'
<1>1. ops \in [Record!Flags -> Record!Op \cup {None}]
  BY DEF RecordInvariant, VersionsSeen
<1>2. ops' \in [Record!Flags -> Record!Op \cup {None}]
  BY <1>1
<1>3. ASSUME NEW f \in Record!Flags, ops'[f] # None
      PROVE  OpFits(ops[f])'
  <2>1. CASE f = flag
    <3>1. ops'[f] = op
      BY <1>1, <2>1
    <3> QED BY <1>3, <3>1 DEF OpFits
  <2>2. CASE f # flag
    <3>1. ops'[f] = ops[f] /\ ops[f] \in Record!Op
      BY <1>1, <1>3, <2>2
    <3>2. OpFits(ops[f])
      BY <1>3, <3>1 DEF RecordInvariant, OpsFit
    <3> DEFINE o == ops[f]
    <3>3. o \in Record!Op /\ OpFits(o) /\ ops'[f] = o
      BY <3>1, <3>2
    <3>4. PICK c \in Record!Op : c = ops[f]
      BY <3>1
    <3>5. OpFits(c)
      BY <3>2, <3>4
    <3>6. OpFits(c)'
      BY <3>5, RowsGrow
    <3> QED BY <3>1, <3>4, <3>6 DEF OpFits
  <2> QED BY <2>1, <2>2
<1> QED BY <1>2, <1>3


LEMMA OpsRest ==
    ASSUME RecordInvariant, Grown, record' = record, ops' = ops
    PROVE  /\ ops' \in [Record!Flags -> Record!Op \cup {None}]
           /\ \A f \in Record!Flags : ops'[f] # None => OpFits(ops[f])'
<1>1. ops \in [Record!Flags -> Record!Op \cup {None}]
  BY DEF RecordInvariant, VersionsSeen
<1>2. ASSUME NEW f \in Record!Flags, ops'[f] # None
      PROVE  OpFits(ops[f])'
  <2>1. PICK c \in Record!Op : c = ops[f]
    BY <1>1, <1>2
  <2>2. OpFits(c)
    BY <1>2, <2>1 DEF RecordInvariant, OpsFit
  <2>3. OpFits(c)'
    BY <2>2, RowsGrow
  <2> QED BY <2>1, <2>3 DEF OpFits
<1> QED BY <1>1, <1>2

\* What an answered load sets free.
LEMMA FreeKeeps ==
    ASSUME RecordInvariant, record' = record, rows' = rows, NEW r \in Record!Request,
           ops' = Record!Free(r, ops)
    PROVE  /\ ops' \in [Record!Flags -> Record!Op \cup {None}]
           /\ \A f \in Record!Flags : ops'[f] # None => OpFits(ops[f])'
<1>1. Grown
  BY DEF Grown
<1>2. r.flag \in Record!Flags \cup {None}
  BY DEF Record!Request
<1>3. CASE r.flag = None
  <2>1. ops' = ops
    BY <1>3 DEF Record!Free
  <2> QED BY <1>1, <2>1, OpsRest
<1>4. CASE r.flag # None
  <2>1. PICK flag \in Record!Flags : flag = r.flag
    BY <1>2, <1>4
  <2>2. ops' = [ops EXCEPT ![flag] = None]
    BY <1>4, <2>1 DEF Record!Free
  <2>3. PICK none \in Record!Op \cup {None} : none = None
    OBVIOUS
  <2>4. ops' = [ops EXCEPT ![flag] = none] /\ (none # None => OpFits(none)')
    BY <2>2, <2>3
  <2> QED BY <1>1, <2>4, OneOp
<1> QED BY <1>3, <1>4

\* A step that leaves the record alone.
LEMMA SameRecord ==
    ASSUME RecordInvariant, record' = record, rows' = rows,
           copy' \in {0} \cup Record!Versions,
           copy' # 0 => copy' <= Len(rows) /\ rows[copy'] # "gone",
           load' \in {"loading", "success", "error"},
           newest' \in Record!Request \cup {None}, newest' # None => newest'.from <= Len(rows),
           late' \subseteq Record!Request,
           values' \in Record!StaffForm \cup {None},
           values' # None => /\ values'.of <= Len(rows)
                             /\ values'.asked \/ values'.isActive = rows[values'.of],
           heard' \in {0} \cup Record!Versions, heard' <= Len(rows), gone' \in BOOLEAN,
           ops' \in [Record!Flags -> Record!Op \cup {None}],
           \A f \in Record!Flags : ops'[f] # None => OpFits(ops[f])',
           WritesSeen'
    PROVE  RecordInvariant'
<1>1. Record!TypeOK'
  <2>1. rows \in Seq(record.states \cup Record!Outcomes
                     \cup {Record!Becomes(o, s) : o \in Record!Buttons, s \in record.states})
        /\ record \in Record!Pages /\ Len(rows) \in Record!Versions
    BY DEF RecordInvariant, Record!TypeOK
  <2>2. rows' \in Seq(record'.states \cup Record!Outcomes'
                      \cup {Record!Becomes(o, s) : o \in Record!Buttons', s \in record'.states})
    BY <2>1 DEF Record!Buttons, Record!Outcomes
  <2>3. \A f \in Record!Flags : ops'[f] # None => ops'[f] \in Record!Op
    OBVIOUS
  <2> QED BY <2>1, <2>2, <2>3 DEF Record!TypeOK
<1>2. VersionsSeen'
  BY DEF VersionsSeen
<1>3. OpsFit'
  BY DEF OpsFit
<1> QED BY <1>1, <1>2, <1>3 DEF RecordInvariant

\* What the invariant says of the variables one by one.
LEMMA RecordParts ==
    ASSUME RecordInvariant
    PROVE  /\ copy \in {0} \cup Record!Versions
           /\ copy # 0 => copy <= Len(rows) /\ rows[copy] # "gone"
           /\ load \in {"loading", "success", "error"}
           /\ newest \in Record!Request \cup {None} /\ (newest # None => newest.from <= Len(rows))
           /\ late \subseteq Record!Request /\ values \in Record!StaffForm \cup {None}
           /\ values # None => /\ values.of <= Len(rows)
                               /\ values.asked \/ values.isActive = rows[values.of]
           /\ heard \in {0} \cup Record!Versions /\ heard <= Len(rows) /\ gone \in BOOLEAN
           /\ ops \in [Record!Flags -> Record!Op \cup {None}]
BY DEF RecordInvariant, Record!TypeOK, VersionsSeen

LEMMA LoadAnswered ==
    ASSUME RecordInvariant, Record!Loaded \/ Record!LoadFailed
    PROVE  RecordInvariant'
<1>1. /\ record' = record /\ rows' = rows /\ values' = values /\ heard' = heard
      /\ gone' = gone /\ late' = late /\ newest' = None /\ newest # None /\ ~gone
      /\ ops' = Record!Free(newest, ops)
  BY DEF Record!Loaded, Record!LoadFailed, Record!LoadUnchanged
<1>2. newest \in Record!Request /\ newest.from \in Record!Versions
  BY <1>1, RecordParts DEF Record!Request
<1>3. /\ Len(rows) \in 1..MaxVersions /\ MaxVersions \in Nat /\ Record!Versions = 1..MaxVersions
      /\ heard \in 0..MaxVersions
  BY RecordFits
<1>4. /\ ops' \in [Record!Flags -> Record!Op \cup {None}]
      /\ \A f \in Record!Flags : ops'[f] # None => OpFits(ops[f])'
  BY <1>1, <1>2, FreeKeeps
<1>5. \/ load' = "error" /\ copy' = copy
      \/ /\ load' = "success" /\ copy' \in newest.from..Len(rows)
         /\ rows[copy'] # "gone"
  BY DEF Record!Loaded, Record!LoadFailed
<1>6. /\ copy' \in {0} \cup Record!Versions
      /\ copy' # 0 => copy' <= Len(rows) /\ rows[copy'] # "gone"
  BY <1>2, <1>3, <1>5, RecordParts
<1>7. load' \in {"loading", "success", "error"}
  BY <1>5
<1>8. newest.from >= heard
  BY <1>1 DEF RecordInvariant, WritesSeen
<1>9. load' = "success" => copy' >= heard
  BY <1>2, <1>3, <1>5, <1>8
<1>10. WritesSeen'
  BY <1>1, <1>5, <1>9 DEF WritesSeen
<1> QED BY <1>1, <1>4, <1>6, <1>7, <1>10, RecordParts, SameRecord

LEMMA LateAnswered ==
    ASSUME RecordInvariant, Record!LoadedLate
    PROVE  RecordInvariant'
<1>1. PICK r \in late :
         copy' = copy /\ ops' = Record!Free(r, ops) /\ late' = late \ {r}
  BY DEF Record!LoadedLate, Record!DropLate
<1>2. /\ record' = record /\ rows' = rows /\ values' = values /\ heard' = heard
      /\ gone' = gone /\ newest' = newest /\ load' = load
      /\ r \in Record!Request /\ late' \subseteq Record!Request
  BY <1>1, RecordParts DEF Record!LoadedLate, Record!LoadUnchanged
<1>3. /\ ops' \in [Record!Flags -> Record!Op \cup {None}]
      /\ \A f \in Record!Flags : ops'[f] # None => OpFits(ops[f])'
  BY <1>1, <1>2, FreeKeeps
<1>4. WritesSeen'
  BY <1>1, <1>2 DEF RecordInvariant, WritesSeen
<1> QED BY <1>1, <1>2, <1>3, <1>4, RecordParts, SameRecord

\* A reload asks for a version that is not older than any the page has heard of.
LEMMA ReloadAsks ==
    ASSUME RecordInvariant, NEW flag \in Record!Flags \cup {None}, Record!Reload(flag)
    PROVE  /\ newest' \in Record!Request /\ newest'.from = Len(rows) /\ newest' # None
           /\ late' \subseteq Record!Request /\ load' = "loading"
<1>1. Len(rows) \in Record!Versions
  BY RecordFits
<1>2. newest' = [from |-> Len(rows), flag |-> flag] /\ load' = "loading"
      /\ late' = late \cup ({newest} \ {None})
  BY DEF Record!Reload
<1>3. newest' \in Record!Request /\ newest'.from = Len(rows)
  BY <1>1, <1>2 DEF Record!Request
<1>4. newest' # None
  BY <1>3, NoneIsNothing
<1>5. late' \subseteq Record!Request
  BY <1>2, RecordParts
<1> QED BY <1>2, <1>3, <1>4, <1>5

LEMMA RetryKeeps ==
    ASSUME RecordInvariant, Record!Retry
    PROVE  RecordInvariant'
<1>1. /\ record' = record /\ rows' = rows /\ values' = values /\ heard' = heard
      /\ gone' = gone /\ copy' = copy /\ ops' = ops /\ Record!Reload(None)
  BY DEF Record!Retry, Record!LoadUnchanged
<1>2. /\ newest' \in Record!Request /\ newest'.from = Len(rows) /\ newest' # None
      /\ late' \subseteq Record!Request /\ load' = "loading"
  BY <1>1, ReloadAsks
<1>3. Len(rows) \in 1..MaxVersions /\ MaxVersions \in Nat /\ heard \in 0..MaxVersions
  BY RecordFits
<1>4. Grown
  BY <1>1 DEF Grown
<1>5. /\ ops' \in [Record!Flags -> Record!Op \cup {None}]
      /\ \A f \in Record!Flags : ops'[f] # None => OpFits(ops[f])'
  BY <1>1, <1>4, OpsRest
<1>6. heard <= Len(rows)
  BY RecordParts
<1>7. WritesSeen'
  BY <1>1, <1>2, <1>3, <1>6 DEF WritesSeen
<1>8. newest'.from <= Len(rows)
  BY <1>2, <1>3
<1> QED BY <1>1, <1>2, <1>5, <1>7, <1>8, RecordParts, SameRecord

LEMMA TouchKeeps ==
    ASSUME RecordInvariant, Record!TouchStaffForm
    PROVE  RecordInvariant'
<1>1. /\ record' = record /\ rows' = rows /\ heard' = heard /\ load' = load
      /\ gone' = gone /\ copy' = copy /\ ops' = ops /\ newest' = newest /\ late' = late
      /\ record.name = "staff" /\ copy # 0
  BY DEF Record!TouchStaffForm, Record!Shows
<1> DEFINE was == IF values = None THEN [isActive |-> rows[copy], of |-> copy, asked |-> FALSE]
                  ELSE values
           other == CHOOSE s \in Record!StaffStates : s # was.isActive
<1>2. values' \in {was, [was EXCEPT !.isActive = other, !.asked = TRUE]}
  BY DEF Record!TouchStaffForm, Record!State
<1>3. Len(rows) \in 1..MaxVersions /\ MaxVersions \in Nat /\ Record!Versions = 1..MaxVersions
  BY RecordFits
<1>4. copy \in 1..Len(rows)
  BY <1>1, <1>3, RecordParts
<1>5. rows[copy] \in Record!StaffStates
  <2>1. RowsOf(record) = Record!StaffStates
    BY <1>1, RecordFits DEF PageFits
  <2> QED BY <1>4, <2>1, RecordFits
<1>6. was \in Record!StaffForm /\ was.of <= Len(rows)
      /\ (was.asked \/ was.isActive = rows[was.of])
  <2>1. CASE values = None
    <3>1. was = [isActive |-> rows[copy], of |-> copy, asked |-> FALSE]
      BY <2>1
    <3>2. copy \in Record!Versions
      BY <1>3, <1>4
    <3>3. was \in Record!StaffForm
      <4>1. PICK s \in Record!StaffStates : s = rows[copy]
        BY <1>5
      <4>2. [isActive |-> s, of |-> copy, asked |-> FALSE] \in Record!StaffForm
        BY <3>2 DEF Record!StaffForm
      <4> QED BY <3>1, <4>1, <4>2
    <3>4. was.of <= Len(rows) /\ was.isActive = rows[was.of]
      BY <1>3, <1>4, <3>1
    <3> QED BY <3>3, <3>4
  <2>2. CASE values # None
    BY <2>2, RecordParts
  <2> QED BY <2>1, <2>2
<1>7. other \in Record!StaffStates
  <2>1. \E s \in Record!StaffStates : s # was.isActive
    <3>1. "active" \in Record!StaffStates /\ "inactive" \in Record!StaffStates /\ "active" # "inactive"
      BY DEF Record!StaffStates
    <3> QED BY <3>1
  <2> QED BY <2>1
<1> HIDE DEF was, other
<1>8. /\ values' \in Record!StaffForm /\ values'.of <= Len(rows)
      /\ values'.asked \/ values'.isActive = rows[values'.of]
  <2>1. CASE values' = was
    BY <1>6, <2>1
  <2>2. CASE values' = [was EXCEPT !.isActive = other, !.asked = TRUE]
    <3>1. values' \in Record!StaffForm /\ values'.of = was.of /\ values'.asked = TRUE
      BY <1>6, <1>7, <2>2 DEF Record!StaffForm
    <3> QED BY <1>6, <3>1
  <2> QED BY <1>2, <2>1, <2>2
<1>9. Grown
  BY <1>1 DEF Grown
<1>10. /\ ops' \in [Record!Flags -> Record!Op \cup {None}]
       /\ \A f \in Record!Flags : ops'[f] # None => OpFits(ops[f])'
  BY <1>1, <1>9, OpsRest
<1>11. WritesSeen'
  BY <1>1 DEF RecordInvariant, WritesSeen
<1> QED BY <1>1, <1>8, <1>10, <1>11, RecordParts, SameRecord

LEMMA RecordPressKeeps ==
    ASSUME RecordInvariant, NEW o \in Record!Buttons, Record!Press(o)
    PROVE  RecordInvariant'
<1>1. /\ UNCHANGED <<record, rows, copy, load, newest, late, values, heard, gone>>
      /\ copy # 0 /\ o \in record.offers[rows[copy]]
  BY DEF Record!Press, Record!Shows, Record!State
<1>2. /\ PageFits(record) /\ Len(rows) \in 1..MaxVersions /\ MaxVersions \in Nat
      /\ Record!Versions = 1..MaxVersions /\ Record!Buttons = ButtonsOf(record)
      /\ \A i \in 1..Len(rows) : rows[i] \in RowsOf(record)
  BY RecordFits
<1>3. copy \in 1..Len(rows) /\ rows[copy] # "gone" /\ copy \in Record!Versions
  BY <1>1, <1>2, RecordParts
<1>4. rows[copy] \in DOMAIN record.offers
  <2>1. ButtonsOf(record) # {}
    BY <1>2
  <2> QED BY <1>2, <1>3, <2>1 DEF PageFits
<1>5. record.busy[o] \in Record!Flags /\ o \in Record!Operations
  BY <1>1, <1>2, <1>4 DEF PageFits
<1>6. o = "save" => rows[copy] \in Record!StaffStates
  <2>1. o = "save" => RowsOf(record) = Record!StaffStates
    BY <1>2 DEF PageFits
  <2> QED BY <1>2, <1>3, <2>1
<1> DEFINE sends == IF o # "save" THEN None
                    ELSE IF values = None THEN rows[copy] ELSE values.isActive
           of == IF values = None THEN copy ELSE values.of
           wanted == o = "save" /\ values # None /\ values.asked
           op == [name |-> o, seen |-> copy, sends |-> sends, of |-> of, asked |-> wanted,
                  done |-> "sent", stale |-> FALSE, turned |-> FALSE, made |-> 0]
<1>7. ops' = [ops EXCEPT ![record.busy[o]] = op]
  BY DEF Record!Press, Record!State
<1>8. of \in Record!Versions /\ of <= Len(rows)
  <2>1. CASE values = None
    BY <1>2, <1>3, <2>1
  <2>2. CASE values # None
    BY <2>2, RecordParts DEF Record!StaffForm
  <2> QED BY <2>1, <2>2
<1>9. sends \in Record!StaffStates \cup {None} /\ wanted \in BOOLEAN
      /\ (sends # None => o = "save" /\ (wanted \/ sends = rows[of]))
  <2>1. CASE o # "save"
    <3>1. sends = None
      BY <2>1
    <3>2. wanted = FALSE
      BY <2>1
    <3> HIDE DEF sends, wanted
    <3> QED BY <3>1, <3>2
  <2>2. CASE o = "save" /\ values = None
    BY <1>6, <2>2
  <2>3. CASE o = "save" /\ values # None
    <3>1. values \in Record!StaffForm /\ (values.asked \/ values.isActive = rows[values.of])
      BY <2>3, RecordParts
    <3>2. values.asked \in BOOLEAN /\ values.isActive \in Record!StaffStates
      BY <3>1 DEF Record!StaffForm
    <3>3. sends = values.isActive /\ of = values.of
      BY <2>3
    <3>4. wanted = values.asked
      BY <2>3, <3>2
    <3> HIDE DEF sends, of, wanted
    <3> QED BY <2>3, <3>1, <3>2, <3>3, <3>4
  <2> QED BY <2>1, <2>2, <2>3
<1> HIDE DEF sends, of, wanted
<1>10. op \in Record!Op
  BY <1>3, <1>5, <1>8, <1>9 DEF Record!Op
<1>11. /\ op.name = o /\ op.seen = copy /\ op.sends = sends /\ op.of = of /\ op.asked = wanted
       /\ op.done = "sent" /\ op.turned = FALSE /\ op.made = 0
  OBVIOUS
<1> HIDE DEF op
<1>12. PICK p \in Record!Op \cup {None} : p = op
  BY <1>10
<1>13. p # None => OpFits(p)'
  <2>1. p.name \in ButtonsOf(record') /\ p.seen <= Len(rows') /\ p.of <= Len(rows')
        /\ p.made <= Len(rows')
    BY <1>1, <1>2, <1>3, <1>8, <1>11, <1>12
  <2>2. rows'[p.seen] \in DOMAIN record'.offers /\ p.name \in record'.offers[rows'[p.seen]]
        /\ ~p.turned
    BY <1>1, <1>4, <1>11, <1>12
  <2>3. p.sends # None => p.name = "save" /\ (p.asked \/ p.sends = rows'[p.of])
    BY <1>1, <1>9, <1>11, <1>12
  <2>4. p.done # "refused" /\ ~p.turned
    BY <1>11, <1>12
  <2> QED BY <2>1, <2>2, <2>3, <2>4 DEF OpFits
<1>14. Grown
  BY <1>1 DEF Grown
<1>15. PICK flag \in Record!Flags : flag = record.busy[o]
  BY <1>5
<1>16. ops' = [ops EXCEPT ![flag] = p]
  BY <1>7, <1>12, <1>15
<1>17. record' = record
  BY <1>1
<1>18. /\ ops' \in [Record!Flags -> Record!Op \cup {None}]
       /\ \A f \in Record!Flags : ops'[f] # None => OpFits(ops[f])'
  BY <1>13, <1>14, <1>16, <1>17, OneOp
<1> QED BY <1>1, <1>14, <1>18, LoadRests

\* What the server makes of an operation is a state the page knows.
LEMMA ResultKnown ==
    ASSUME RecordInvariant, NEW op \in Record!Op, OpFits(op)
    PROVE  Record!Result(op) \in RowsOf(record)
<1>1. /\ PageFits(record) /\ Record!Now \in RowsOf(record)
  BY RecordFits
<1>2. CASE op.sends # None
  <2>1. RowsOf(record) = Record!StaffStates
    BY <1>1, <1>2 DEF OpFits, PageFits
  <2>2. op.sends \in Record!StaffStates
    BY <1>2 DEF Record!Op
  <2>3. op.name # "correct"
    BY <1>2 DEF OpFits
  <2>4. Record!Result(op) = op.sends
    BY <1>2, <2>3 DEF Record!Result
  <2> QED BY <2>1, <2>2, <2>4
<1>3. CASE op.sends = None
  <2>1. Record!Becomes(op.name, Record!Now) \in RowsOf(record)
    BY <1>1 DEF PageFits, OpFits
  <2> QED BY <1>1, <1>3, <2>1 DEF Record!Result
<1> QED BY <1>2, <1>3

LEMMA RecordServeKeeps ==
    ASSUME RecordInvariant, NEW flag \in Record!Flags, Record!Serve(flag)
    PROVE  RecordInvariant'
<1>1. /\ UNCHANGED <<record, copy, load, newest, late, values, heard, gone>>
      /\ ops[flag] # None /\ ops[flag].done = "sent"
  BY DEF Record!Serve
<1>2. PICK op \in Record!Op : op = ops[flag]
  BY <1>1, RecordParts
<1>3. OpFits(op) /\ op.done = "sent"
  BY <1>1, <1>2 DEF RecordInvariant, OpsFit
<1>4. /\ PageFits(record) /\ Len(rows) \in 1..MaxVersions /\ MaxVersions \in Nat
      /\ Record!Versions = 1..MaxVersions /\ Record!Now = rows[Len(rows)]
  BY RecordFits
<1> DEFINE served == [op EXCEPT !.stale = (op.seen # Len(rows)),
                                !.turned = (op.sends \notin {None, Record!Now})]
<1>5. \E ok \in Record!Accepted(op) :
         IF ok THEN /\ Len(rows) < MaxVersions \/ op.name \in Record!Aside
                    /\ rows' = IF op.name \in Record!Aside THEN rows ELSE Append(rows,
                         Record!Result(op))
                    /\ ops' = [ops EXCEPT ![flag] = [served EXCEPT !.done = "accepted",
                                                                   !.made = Len(rows')]]
         ELSE /\ rows' = rows
              /\ ops' = [ops EXCEPT ![flag] = [served EXCEPT !.done = "refused"]]
  BY <1>2 DEF Record!Serve
<1>6. /\ served \in Record!Op /\ served.name = op.name /\ served.seen = op.seen
      /\ served.sends = op.sends /\ served.of = op.of /\ served.asked = op.asked
      /\ served.made = op.made
      /\ served.stale = (op.seen # Len(rows))
      /\ served.turned = (op.sends \notin {None, Record!Now})
  BY DEF Record!Op
<1> HIDE DEF served
<1>7. op.seen \in 1..Len(rows) /\ op.of \in 1..Len(rows) /\ op.made \in 0..MaxVersions
      /\ op.made <= Len(rows)
  BY <1>3, <1>4 DEF OpFits, Record!Op
\* What is turned was asked for, or is what an older version had.
<1>8. served.turned => served.asked \/ served.stale
                       \/ (served.of # served.seen /\ served.sends = rows[served.of])
  <2>1. ASSUME op.sends \notin {None, Record!Now}, ~op.asked, op.seen = Len(rows)
        PROVE  op.of # op.seen /\ op.sends = rows[op.of]
    BY <1>3, <1>4, <2>1 DEF OpFits
  <2>2. op.asked \in BOOLEAN
    BY DEF Record!Op
  <2> QED BY <1>6, <2>1, <2>2
<1>9. PICK ok \in Record!Accepted(op) :
         IF ok THEN /\ Len(rows) < MaxVersions \/ op.name \in Record!Aside
                    /\ rows' = IF op.name \in Record!Aside THEN rows ELSE Append(rows,
                         Record!Result(op))
                    /\ ops' = [ops EXCEPT ![flag] = [served EXCEPT !.done = "accepted",
                                                                   !.made = Len(rows')]]
         ELSE /\ rows' = rows
              /\ ops' = [ops EXCEPT ![flag] = [served EXCEPT !.done = "refused"]]
  BY <1>5
<1>10. CASE ok
  <2>1. /\ Len(rows) < MaxVersions \/ op.name \in Record!Aside
        /\ rows' = IF op.name \in Record!Aside THEN rows ELSE Append(rows, Record!Result(op))
        /\ ops' = [ops EXCEPT ![flag] = [served EXCEPT !.done = "accepted", !.made = Len(rows')]]
    BY <1>9, <1>10
  <2>2. Record!Result(op) \in RowsOf(record)
    BY <1>3, ResultKnown
  <2>3. Grown
    <3>1. CASE op.name \in Record!Aside
      BY <2>1, <3>1 DEF Grown
    <3>2. CASE op.name \notin Record!Aside
      <4>1. Len(rows) < MaxVersions /\ rows' = Append(rows, Record!Result(op))
        BY <2>1, <3>2
      <4> QED BY <2>2, <4>1 DEF Grown
    <3> QED BY <3>1, <3>2
  <2>4. record' = record
    BY <1>1
  <2>5. /\ Len(rows') \in Record!Versions
        /\ Len(rows) <= Len(rows') /\ \A i \in 1..Len(rows) : rows'[i] = rows[i]
    BY <2>3, <2>4, RowsGrow
  <2> DEFINE p == [served EXCEPT !.done = "accepted", !.made = Len(rows')]
  <2>6. /\ p \in Record!Op /\ p.name = op.name /\ p.seen = op.seen /\ p.sends = op.sends
        /\ p.of = op.of /\ p.asked = op.asked /\ p.done = "accepted" /\ p.made = Len(rows')
        /\ p.stale = served.stale /\ p.turned = served.turned
    BY <1>6, <2>5 DEF Record!Op
  <2>7. ops' = [ops EXCEPT ![flag] = p]
    BY <2>1
  <2> HIDE DEF p
  <2>8. PICK q \in Record!Op \cup {None} : q = p
    BY <2>6
  <2>9. q # None => OpFits(q)'
    <3>1. /\ q.name \in ButtonsOf(record') /\ q.seen <= Len(rows') /\ q.of <= Len(rows')
          /\ q.made <= Len(rows')
      BY <1>3, <1>4, <1>7, <2>4, <2>5, <2>6, <2>8 DEF OpFits
    <3>2. rows'[q.of] = rows[q.of]
      BY <1>7, <2>5, <2>6, <2>8
    <3>3. q.sends # None => q.name = "save" /\ (q.asked \/ q.sends = rows'[q.of])
      BY <1>3, <2>6, <2>8, <3>2 DEF OpFits
    <3>4. q.done # "sent" /\ q.done # "refused"
      BY <2>6, <2>8
    <3>5. q.turned => q.asked \/ q.stale \/ (q.of # q.seen /\ q.sends = rows'[q.of])
      BY <1>6, <1>8, <2>6, <2>8, <3>2
    <3> QED BY <3>1, <3>3, <3>4, <3>5 DEF OpFits
  <2>10. ops' = [ops EXCEPT ![flag] = q]
    BY <2>7, <2>8
  <2>11. /\ ops' \in [Record!Flags -> Record!Op \cup {None}]
         /\ \A f \in Record!Flags : ops'[f] # None => OpFits(ops[f])'
    BY <2>3, <2>4, <2>9, <2>10, OneOp
  <2> QED BY <1>1, <2>3, <2>11, LoadRests
<1>11. CASE ~ok
  <2>1. rows' = rows /\ ops' = [ops EXCEPT ![flag] = [served EXCEPT !.done = "refused"]]
    BY <1>9, <1>11
  <2>2. Grown
    BY <2>1 DEF Grown
  <2>3. record' = record
    BY <1>1
  <2> DEFINE p == [served EXCEPT !.done = "refused"]
  <2>4. /\ p \in Record!Op /\ p.name = op.name /\ p.seen = op.seen /\ p.sends = op.sends
        /\ p.of = op.of /\ p.asked = op.asked /\ p.done = "refused" /\ p.made = op.made
        /\ p.stale = served.stale /\ p.turned = served.turned
    BY <1>6 DEF Record!Op
  <2>5. ops' = [ops EXCEPT ![flag] = p]
    BY <2>1
  <2> HIDE DEF p
  \* A refusal of what is offered is a known one, or the copy was old.
  <2>6. op.seen # Len(rows) \/ <<op.name, rows[op.seen]>> \in Record!KnownRefusals
    <3>1. ASSUME op.seen = Len(rows)
          PROVE  <<op.name, rows[op.seen]>> \in Record!KnownRefusals
      <4>1. ok = Record!Accepts(op.name, rows[op.seen])
        BY <1>4, <1>9, <3>1 DEF Record!Accepted
      <4>2. ~Record!Accepts(op.name, rows[op.seen])
        BY <1>11, <4>1
      <4>3. rows[op.seen] \in DOMAIN record.offers /\ op.name \in record.offers[rows[op.seen]]
        BY <1>3 DEF OpFits
      <4> QED BY <1>4, <4>2, <4>3 DEF PageFits
    <3> QED BY <3>1
  <2>7. PICK q \in Record!Op \cup {None} : q = p
    BY <2>4
  <2>8. q # None => OpFits(q)'
    <3>1. /\ q.name \in ButtonsOf(record') /\ q.seen <= Len(rows') /\ q.of <= Len(rows')
          /\ q.made <= Len(rows')
      BY <1>3, <2>1, <2>3, <2>4, <2>7 DEF OpFits
    <3>2. q.sends # None => q.name = "save" /\ (q.asked \/ q.sends = rows'[q.of])
      BY <1>3, <2>1, <2>4, <2>7 DEF OpFits
    <3>3. q.done # "sent"
      BY <2>4, <2>7
    <3>4. q.stale \/ <<q.name, rows'[q.seen]>> \in Record!KnownRefusals
      BY <1>6, <2>1, <2>4, <2>6, <2>7
    <3>5. q.turned => q.asked \/ q.stale \/ (q.of # q.seen /\ q.sends = rows'[q.of])
      BY <1>6, <1>8, <2>1, <2>4, <2>7
    <3> QED BY <3>1, <3>2, <3>3, <3>4, <3>5 DEF OpFits
  <2>9. ops' = [ops EXCEPT ![flag] = q]
    BY <2>5, <2>7
  <2>10. /\ ops' \in [Record!Flags -> Record!Op \cup {None}]
         /\ \A f \in Record!Flags : ops'[f] # None => OpFits(ops[f])'
    BY <2>2, <2>3, <2>8, <2>9, OneOp
  <2> QED BY <1>1, <2>2, <2>10, LoadRests
<1> QED BY <1>10, <1>11

LEMMA RecordFailKeeps ==
    ASSUME RecordInvariant, NEW flag \in Record!Flags, Record!Fail(flag)
    PROVE  RecordInvariant'
<1>1. /\ UNCHANGED <<record, rows, copy, load, newest, late, values, heard, gone>>
      /\ ops' = [ops EXCEPT ![flag] = None]
  BY DEF Record!Fail
<1>2. Grown
  BY <1>1 DEF Grown
<1>3. PICK none \in Record!Op \cup {None} : none = None
  OBVIOUS
<1>4. record' = record /\ ops' = [ops EXCEPT ![flag] = none] /\ (none # None => OpFits(none)')
  BY <1>1, <1>3
<1>5. /\ ops' \in [Record!Flags -> Record!Op \cup {None}]
      /\ \A f \in Record!Flags : ops'[f] # None => OpFits(ops[f])'
  BY <1>2, <1>4, OneOp
<1> QED BY <1>1, <1>2, <1>5, LoadRests

LEMMA ChangeKeeps ==
    ASSUME RecordInvariant, NEW to \in Record!Outcomes, Record!Change(to)
    PROVE  RecordInvariant'
<1>1. /\ UNCHANGED <<record, copy, load, newest, late, values, heard, gone>>
      /\ ops' = ops /\ record' = record
      /\ Len(rows) < MaxVersions /\ rows' = Append(rows, to)
  BY DEF Record!Change
<1>2. to \in RowsOf(record)
  BY DEF Record!Outcomes, RowsOf
<1>3. Grown
  BY <1>1, <1>2 DEF Grown
<1>4. /\ ops' \in [Record!Flags -> Record!Op \cup {None}]
      /\ \A f \in Record!Flags : ops'[f] # None => OpFits(ops[f])'
  BY <1>1, <1>3, OpsRest
<1> QED BY <1>1, <1>3, <1>4, LoadRests

LEMMA RecordSucceedKeeps ==
    ASSUME RecordInvariant, NEW flag \in Record!Flags, Record!Succeed(flag)
    PROVE  RecordInvariant'
<1>1. /\ record' = record /\ rows' = rows /\ copy' = copy /\ values' = values
      /\ ops[flag] # None /\ ops[flag].done = "accepted" /\ ~gone
      /\ heard' = IF ops[flag].name \in Record!Aside THEN heard ELSE ops[flag].made
  BY DEF Record!Succeed
<1>2. PICK op \in Record!Op : op = ops[flag]
  BY <1>1, RecordParts
<1>3. OpFits(op)
  BY <1>1, <1>2 DEF RecordInvariant, OpsFit
<1>4. Grown
  BY <1>1 DEF Grown
<1>5. /\ Len(rows) \in 1..MaxVersions /\ MaxVersions \in Nat /\ Record!Versions = 1..MaxVersions
  BY RecordFits
<1>6. op.made \in {0} \cup Record!Versions /\ op.made <= Len(rows)
  BY <1>3 DEF OpFits, Record!Op
<1>7. heard' \in {0} \cup Record!Versions /\ heard' <= Len(rows)
  BY <1>1, <1>2, <1>6, RecordParts
<1>8. \/ /\ gone' = TRUE /\ ops' = [ops EXCEPT ![flag] = None]
         /\ UNCHANGED <<newest, late, load>>
      \/ /\ op.name = "reset" /\ UNCHANGED <<newest, late, load, gone>>
         /\ ops' = [ops EXCEPT ![flag] = None]
      \/ /\ Record!Reload(flag) /\ ops' = [ops EXCEPT ![flag].done = "reload"] /\ gone' = gone
  BY <1>2 DEF Record!Succeed, Record!AfterSuccess
<1>9. PICK none \in Record!Op \cup {None} : none = None
  OBVIOUS
<1>10. CASE ops' = [ops EXCEPT ![flag] = None]
            /\ (gone' = TRUE \/ (op.name = "reset" /\ gone' = gone))
            /\ UNCHANGED <<newest, late, load>>
  <2>1. newest' = newest /\ late' = late /\ load' = load /\ gone' \in BOOLEAN
    BY <1>10, RecordParts
  <2>2. ops' = [ops EXCEPT ![flag] = none] /\ (none # None => OpFits(none)')
    BY <1>9, <1>10
  <2>3. /\ ops' \in [Record!Flags -> Record!Op \cup {None}]
        /\ \A f \in Record!Flags : ops'[f] # None => OpFits(ops[f])'
    BY <1>1, <1>4, <2>2, OneOp
  <2>4. gone' = TRUE \/ heard' = heard
    <3>1. "reset" \in Record!Aside
      BY DEF Record!Aside
    <3> QED BY <1>1, <1>2, <1>10, <3>1
  <2>5. gone' => TRUE
    OBVIOUS
  <2>6. gone' = TRUE \/ gone' = gone
    BY <1>10
  <2>7. WritesSeen'
    <3>1. CASE gone' = TRUE
      BY <2>1, <3>1 DEF RecordInvariant, WritesSeen
    <3>2. CASE gone' # TRUE
      <4>1. heard' = heard /\ gone' = gone
        BY <2>4, <2>6, <3>2
      <4> QED BY <1>1, <2>1, <4>1 DEF RecordInvariant, WritesSeen
    <3> QED BY <3>1, <3>2
  <2> QED BY <1>1, <1>7, <2>1, <2>3, <2>7, RecordParts, SameRecord
<1>11. CASE Record!Reload(flag) /\ ops' = [ops EXCEPT ![flag].done = "reload"] /\ gone' = gone
  <2>1. /\ newest' \in Record!Request /\ newest'.from = Len(rows) /\ newest' # None
        /\ late' \subseteq Record!Request /\ load' = "loading"
    BY <1>11, ReloadAsks
  <2> DEFINE p == [op EXCEPT !.done = "reload"]
  <2>2. /\ p \in Record!Op /\ p.name = op.name /\ p.seen = op.seen /\ p.sends = op.sends
        /\ p.of = op.of /\ p.asked = op.asked /\ p.done = "reload" /\ p.made = op.made
        /\ p.stale = op.stale /\ p.turned = op.turned
    BY DEF Record!Op
  <2>3. ops' = [ops EXCEPT ![flag] = p]
    BY <1>2, <1>11
  <2> HIDE DEF p
  <2>4. PICK q \in Record!Op \cup {None} : q = p
    BY <2>2
  <2>5. q # None => OpFits(q)'
    <3>1. /\ q.name = op.name /\ q.seen = op.seen /\ q.sends = op.sends
          /\ q.of = op.of /\ q.asked = op.asked /\ q.done = "reload" /\ q.made = op.made
          /\ q.stale = op.stale /\ q.turned = op.turned
      BY <2>2, <2>4
    <3>2. OpFits(op)'
      BY <1>1, <1>3, <1>4, RowsGrow
    <3> QED BY <1>1, <1>3, <3>1 DEF OpFits
  <2>6. ops' = [ops EXCEPT ![flag] = q]
    BY <2>3, <2>4
  <2>7. /\ ops' \in [Record!Flags -> Record!Op \cup {None}]
        /\ \A f \in Record!Flags : ops'[f] # None => OpFits(ops[f])'
    BY <1>1, <1>4, <2>5, <2>6, OneOp
  <2>8. newest'.from <= Len(rows) /\ newest'.from >= heard'
    BY <1>5, <1>7, <2>1
  <2>9. WritesSeen'
    BY <2>1, <2>8 DEF WritesSeen
  <2> QED BY <1>1, <1>7, <1>11, <2>1, <2>7, <2>8, <2>9, RecordParts, SameRecord
<1> QED BY <1>8, <1>10, <1>11

LEMMA RecordInit ==
    ASSUME Record!Init
    PROVE  RecordInvariant
<1>1. /\ record \in Record!Pages /\ copy = 0 /\ load = "loading"
      /\ newest = [from |-> 1, flag |-> None] /\ late = {}
      /\ ops = [f \in Record!Flags |-> None] /\ values = None /\ heard = 0 /\ gone = FALSE
  BY DEF Record!Init
<1>2. PICK s \in record.states : rows = <<s>>
  BY DEF Record!Init
<1>3. MaxVersions \in Nat /\ 1 \in Record!Versions /\ Record!Versions = 1..MaxVersions
  BY ScreenConstants DEF Record!Versions
<1>4. Len(rows) = 1
  BY <1>2
<1>5. newest \in Record!Request /\ newest.from = 1
  BY <1>1, <1>3 DEF Record!Request
<1>6. newest # None
  BY <1>5, NoneIsNothing
<1>7. Record!TypeOK
  <2>1. rows \in Seq(record.states \cup Record!Outcomes
                     \cup {Record!Becomes(o, t) : o \in Record!Buttons, t \in record.states})
    <3> DEFINE S == record.states \cup Record!Outcomes
                    \cup {Record!Becomes(o, t) : o \in Record!Buttons, t \in record.states}
    <3>1. s \in S
      OBVIOUS
    <3> HIDE DEF S
    <3>2. rows \in Seq(S)
      BY <1>2, <3>1
    <3> QED BY <3>2 DEF S
  <2>2. \A f \in Record!Flags : ops[f] = None
    BY <1>1
  <2>3. Len(rows) \in Record!Versions /\ copy \in {0} \cup Record!Versions
        /\ heard \in {0} \cup Record!Versions
    BY <1>1, <1>3, <1>4
  <2>4. load \in {"loading", "success", "error"} /\ newest \in Record!Request \cup {None}
        /\ late \subseteq Record!Request /\ values \in Record!StaffForm \cup {None}
    BY <1>1, <1>5
  <2>5. gone \in BOOLEAN /\ \A f \in Record!Flags : ops[f] # None => ops[f] \in Record!Op
    BY <1>1, <2>2
  <2> QED BY <1>1, <2>1, <2>3, <2>4, <2>5 DEF Record!TypeOK
<1>8. VersionsSeen
  <2>1. ops \in [Record!Flags -> Record!Op \cup {None}]
    BY <1>1
  <2> QED BY <1>1, <1>4, <1>5, <2>1 DEF VersionsSeen
<1>9. OpsFit
  BY <1>1 DEF OpsFit
<1>10. WritesSeen
  BY <1>1, <1>5, <1>6 DEF WritesSeen
<1> QED BY <1>7, <1>8, <1>9, <1>10 DEF RecordInvariant

LEMMA RecordStepKeeps ==
    ASSUME RecordInvariant, Record!Next
    PROVE  RecordInvariant'
<1>1. CASE Record!Loaded \/ Record!LoadFailed
  BY <1>1, LoadAnswered
<1>2. CASE Record!LoadedLate
  BY <1>2, LateAnswered
<1>3. CASE Record!Retry
  BY <1>3, RetryKeeps
<1>4. CASE Record!TouchStaffForm
  BY <1>4, TouchKeeps
<1>5. ASSUME NEW o \in Record!Buttons, Record!Press(o)
      PROVE  RecordInvariant'
  BY <1>5, RecordPressKeeps
<1>6. ASSUME NEW f \in Record!Flags, Record!Serve(f) \/ Record!Succeed(f) \/ Record!Fail(f)
      PROVE  RecordInvariant'
  BY <1>6, RecordServeKeeps, RecordSucceedKeeps, RecordFailKeeps
<1>7. ASSUME NEW to \in Record!Outcomes, Record!Change(to)
      PROVE  RecordInvariant'
  BY <1>7, ChangeKeeps
<1> QED BY <1>1, <1>2, <1>3, <1>4, <1>5, <1>6, <1>7 DEF Record!Next

LEMMA RecordRests ==
    ASSUME RecordInvariant, UNCHANGED recordVars
    PROVE  RecordInvariant'
<1>1. /\ record' = record /\ rows' = rows /\ copy' = copy /\ load' = load
      /\ newest' = newest /\ late' = late /\ ops' = ops /\ values' = values
      /\ heard' = heard /\ gone' = gone
  BY DEF recordVars
<1>2. Grown
  BY <1>1 DEF Grown
<1>3. /\ ops' \in [Record!Flags -> Record!Op \cup {None}]
      /\ \A f \in Record!Flags : ops'[f] # None => OpFits(ops[f])'
  BY <1>1, <1>2, OpsRest
<1> QED BY <1>1, <1>2, <1>3, LoadRests

LEMMA RecordMeans ==
    ASSUME RecordInvariant
    PROVE  Record!TypeOK /\ Record!OffersAccepted /\ Record!OwnWritesShown
<1>1. Record!OffersAccepted
  BY DEF RecordInvariant, OpsFit, OpFits, Record!OffersAccepted
<1>2. Record!OwnWritesShown
  BY DEF RecordInvariant, WritesSeen, Record!OwnWritesShown
<1> QED BY <1>1, <1>2 DEF RecordInvariant
-----------------------------------------------------------------------------
(* The screens together: each has its own variables, and a step of one leaves    *)
(* those of the others alone.                                                    *)

AdminInvariant ==
    /\ FormInvariant /\ TextInvariant /\ PickerInvariant /\ ImportInvariant
    /\ RecordInvariant /\ CustomerInvariant /\ InvitationInvariant /\ LinksInvariant
    /\ SessionInvariant

LEMMA AdminInit == Init => AdminInvariant
<1> SUFFICES ASSUME Init
             PROVE  AdminInvariant
  OBVIOUS
<1>1. /\ Form!Init /\ Text!Init /\ Picker!Init /\ Import!Init /\ Record!Init
      /\ Customer!Init /\ Invitation!Init /\ Links!Init /\ Session!Init
  BY DEF Init
<1>2. FormInvariant /\ TextInvariant
  BY <1>1, FormInit, TextInit
<1>3. PickerInvariant /\ ImportInvariant
  BY <1>1, PickerInit, ImportInit
<1>4. RecordInvariant /\ CustomerInvariant
  BY <1>1, RecordInit, CustomerInit
<1>5. InvitationInvariant /\ LinksInvariant /\ SessionInvariant
  BY <1>1, InvitationInit, LinksInit, SessionInit
<1> QED BY <1>2, <1>3, <1>4, <1>5 DEF AdminInvariant

LEMMA AdminStepKeeps == AdminInvariant /\ [Next]_vars => AdminInvariant'
<1> SUFFICES ASSUME AdminInvariant, [Next]_vars
             PROVE  AdminInvariant'
  OBVIOUS
<1>1. /\ FormInvariant /\ TextInvariant /\ PickerInvariant /\ ImportInvariant
      /\ RecordInvariant /\ CustomerInvariant /\ InvitationInvariant /\ LinksInvariant
      /\ SessionInvariant
  BY DEF AdminInvariant
<1>2. FormInvariant'
  <2>1. Form!Next \/ UNCHANGED formVars
    BY DEF Next, vars, FormStep, TextStep, PickerStep, ImportStep, RecordStep, CustomerStep,
           InvitationStep, LinksStep, SessionStep
  <2> QED BY <1>1, <2>1, FormStepKeeps, FormRests
<1>3. TextInvariant'
  <2>1. Text!Next \/ UNCHANGED textVars
    BY DEF Next, vars, FormStep, TextStep, PickerStep, ImportStep, RecordStep, CustomerStep,
           InvitationStep, LinksStep, SessionStep
  <2> QED BY <1>1, <2>1, TextStepKeeps, TextRests
<1>4. PickerInvariant'
  <2>1. Picker!Next \/ UNCHANGED pickerVars
    BY DEF Next, vars, FormStep, TextStep, PickerStep, ImportStep, RecordStep, CustomerStep,
           InvitationStep, LinksStep, SessionStep
  <2> QED BY <1>1, <2>1, PickerStepKeeps, PickerRests
<1>5. ImportInvariant'
  <2>1. Import!Next \/ UNCHANGED importVars
    BY DEF Next, vars, FormStep, TextStep, PickerStep, ImportStep, RecordStep, CustomerStep,
           InvitationStep, LinksStep, SessionStep
  <2> QED BY <1>1, <2>1, ImportStepKeeps, ImportRests
<1>6. RecordInvariant'
  <2>1. Record!Next \/ UNCHANGED recordVars
    BY DEF Next, vars, FormStep, TextStep, PickerStep, ImportStep, RecordStep, CustomerStep,
           InvitationStep, LinksStep, SessionStep
  <2> QED BY <1>1, <2>1, RecordStepKeeps, RecordRests
<1>7. CustomerInvariant'
  <2>1. Customer!Next \/ UNCHANGED customerVars
    BY DEF Next, vars, FormStep, TextStep, PickerStep, ImportStep, RecordStep, CustomerStep,
           InvitationStep, LinksStep, SessionStep
  <2> QED BY <1>1, <2>1, CustomerStepKeeps, CustomerRests
<1>8. InvitationInvariant'
  <2>1. Invitation!Next \/ UNCHANGED invitationVars
    BY DEF Next, vars, FormStep, TextStep, PickerStep, ImportStep, RecordStep, CustomerStep,
           InvitationStep, LinksStep, SessionStep
  <2> QED BY <1>1, <2>1, InvitationStepKeeps, InvitationRests
<1>9. LinksInvariant'
  <2>1. Links!Next \/ UNCHANGED linkVars
    BY DEF Next, vars, FormStep, TextStep, PickerStep, ImportStep, RecordStep, CustomerStep,
           InvitationStep, LinksStep, SessionStep
  <2> QED BY <1>1, <2>1, LinksStepKeeps, LinksRest
<1>10. SessionInvariant'
  <2>1. Session!Next \/ UNCHANGED sessionVars
    BY DEF Next, vars, FormStep, TextStep, PickerStep, ImportStep, RecordStep, CustomerStep,
           InvitationStep, LinksStep, SessionStep
  <2> QED BY <1>1, <2>1, SessionStepKeeps, SessionRests
<1> QED BY <1>2, <1>3, <1>4, <1>5, <1>6, <1>7, <1>8, <1>9, <1>10 DEF AdminInvariant

LEMMA AdminAlways == Spec => []AdminInvariant
BY AdminInit, AdminStepKeeps, PTL DEF Spec

(* The variables of every screen of the admin web client keep their types.           *)
THEOREM ScreenTypes == Spec => []TypeOK
<1>1. AdminInvariant => TypeOK
  <2> SUFFICES ASSUME AdminInvariant
               PROVE  TypeOK
    OBVIOUS
  <2>1. Form!TypeOK /\ Text!TypeOK
    BY FormMeans, TextMeans DEF AdminInvariant
  <2>2. Picker!TypeOK /\ Import!TypeOK
    BY PickerMeans, ImportMeans DEF AdminInvariant
  <2>3. Record!TypeOK /\ Customer!TypeOK
    BY RecordMeans, CustomerMeans DEF AdminInvariant
  <2>4. Invitation!TypeOK /\ Links!TypeOK /\ Session!TypeOK
    BY InvitationMeans, LinksMeans, SessionMeans DEF AdminInvariant
  <2> QED BY <2>1, <2>2, <2>3, <2>4 DEF TypeOK
<1> QED BY <1>1, AdminAlways, PTL

(* A form enters a thing twice for one text only after a lost answer, or when the     *)
(* user presses again while the router leaves the page.                               *)
THEOREM EntriesOnce == Spec => []DuplicatesExplained
<1>1. AdminInvariant => DuplicatesExplained
  BY FormMeans DEF AdminInvariant, DuplicatesExplained
<1> QED BY <1>1, AdminAlways, PTL

(* What an automatic translation leaves in the English field, and how long it says    *)
(* it is under way.                                                                   *)
THEOREM TranslationSettlesDown == Spec => []AutomaticTextSettles
<1>1. AdminInvariant => AutomaticTextSettles
  BY TextMeans DEF AdminInvariant, AutomaticTextSettles
<1> QED BY <1>1, AdminAlways, PTL

(* The buttons of a record's page against the server, and its reloads against its     *)
(* own writes.                                                                        *)
THEOREM PagesFitTheirRecords == Spec => []PageFitsRecord
<1>1. AdminInvariant => PageFitsRecord
  BY RecordMeans DEF AdminInvariant, PageFitsRecord
<1> QED BY <1>1, AdminAlways, PTL

(* What the village import, the picture, the customer picker and the invitation       *)
(* selector send is what was chosen on display.                                       *)
THEOREM SentAsChosen == Spec => []ChoicesSent
<1>1. AdminInvariant => ChoicesSent
  <2> SUFFICES ASSUME AdminInvariant
               PROVE  ChoicesSent
    OBVIOUS
  <2>1. Import!ImportedWasTried
    BY ImportMeans DEF AdminInvariant
  <2>2. Picker!PictureIsTheChoice /\ Picker!CameraOnlyWhileShown
    BY PickerMeans DEF AdminInvariant
  <2>3. Customer!ShownIsSent /\ Customer!OptionsFit /\ Customer!RecentsInOrder
    BY CustomerMeans DEF AdminInvariant
  <2>4. Invitation!InvitationsAsTold
    BY InvitationMeans DEF AdminInvariant
  <2> QED BY <2>1, <2>2, <2>3, <2>4 DEF ChoicesSent
<1> QED BY <1>1, AdminAlways, PTL

(* The account a tab shows at rest, whatever other tabs and sessions did.             *)
THEOREM TabAgreesWithBrowser == Spec => []TabAgrees
<1>1. AdminInvariant => TabAgrees
  BY SessionMeans DEF AdminInvariant, TabAgrees
<1> QED BY <1>1, AdminAlways, PTL

(* No answer takes from the user what he typed since he sent.                         *)
THEOREM TypedTextStays == Spec => TypedTextKept
<1>1. AdminInvariant /\ [Next]_vars =>
        [Form!Succeed \/ Form!Reloaded \/ Form!PageReloaded \/ Form!Fail =>
           \A f \in forms \ Form!Exposed :
              Form!Dropped(f) => Form!Stored(f) \/ Form!Overwritten(f)]_Form!vars
  BY NothingIsLost DEF AdminInvariant
<1>2. AdminInvariant /\ [Next]_vars =>
        [en = Text!Hand /\ en' # en =>
           \/ Text!User
           \/ \E call \in translations :
                 call.force /\ Text!Newest(call) /\ Text!Translated(call)]_Text!vars
  <2>1. ASSUME AdminInvariant, Text!Next
        PROVE  en = Text!Hand /\ en' # en =>
                 \/ Text!User
                 \/ \E call \in translations :
                       call.force /\ Text!Newest(call) /\ Text!Translated(call)
    BY <2>1, TextStepKeeps DEF AdminInvariant
  <2>2. [Next]_vars => Text!Next \/ UNCHANGED textVars
    BY DEF Next, vars, FormStep, TextStep, PickerStep, ImportStep, RecordStep, CustomerStep,
           InvitationStep, LinksStep, SessionStep
  <2>3. UNCHANGED textVars => UNCHANGED Text!vars
    BY DEF textVars, Text!vars, Text!fieldVars, Text!autoVars
  <2> QED BY <2>1, <2>2, <2>3
<1> QED BY <1>1, <1>2, AdminAlways, PTL
        DEF Spec, TypedTextKept, Form!NothingTypedIsLost, Text!HandTextKept

(* The way back to a list.                                                            *)
THEOREM WayBack == Spec => BackToTheListLeft
<1>1. AdminInvariant /\ [Next]_vars =>
        [Links!BackToList => state' = state \/ astray \/ list.carries # "state"]_Links!vars
  BY BackIsToTheList DEF AdminInvariant
<1> QED BY <1>1, AdminAlways, PTL DEF Spec, BackToTheListLeft, Links!BackToTheListLeft
=============================================================================
