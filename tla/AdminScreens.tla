----------------------------- MODULE AdminScreens -----------------------------
(***************************************************************************)
(* What one tab of apps/frontend-admin has before its user: a form         *)
(* or a dialog (Forms), a bilingual field (Bilingual), the picker of a     *)
(* picture (ImagePicker) or of a customer (CustomerPicker), the import of  *)
(* villages (VillageImport), the choice of a halkhata's invitations        *)
(* (InvitationSelector), the page of a record (RecordPages), the links to  *)
(* it and back (ListLinks), or the shell that asks who is signed in        *)
(* (AdminSession).  They share no state, so each is looked at with the     *)
(* others at rest: the tab is one of them, its behaviours are that one's.  *)
(***************************************************************************)
EXTENDS Integers

CONSTANTS
    None, MaxPresses, MaxOpenings, MaxEdits,
    MaxText, MaxTranslations, MaxPictures, MaxCameras, MaxFiles, MaxVersions,
    MaxCustomers, MaxSearch, MaxRecent, MaxInvited, Threshold, MaxPage,
    Accounts, Supers, Nobody, NoToken, MaxSessions, MaxCalls

ASSUME ScreenConstants ==
    /\ {MaxPresses, MaxOpenings, MaxEdits, MaxTranslations, MaxPictures,
        MaxCameras, MaxFiles, MaxCustomers, MaxSearch, MaxInvited, Threshold,
        MaxSessions, MaxCalls} \subseteq Nat
    /\ {MaxText, MaxVersions, MaxRecent, MaxPage} \subseteq Nat \ {0}
    /\ Supers \subseteq Accounts /\ Nobody \notin Accounts

VARIABLES
    screen,         \* which of them
    forms, open, opening, text, edits, unseen, busy, failed, requests, place,
    mode, bn, en, debounced, status, lastAuto, lastBn, asked, translations, mounted, kept, redone,
    pickerMode, value, chosen, compressing, cameras, cameraRequests, live, stream, onPage, choice,
    crossed, hidden, leaked,
    selectedFile, files, preview, isPreviewing, isImporting, confirmOpen, confirmed, overtaken,
    record, rows, copy, load, newest, late, ops, values, heard, gone,
    use, named, preselected, search, searchDebounced, options, searching, cancelled,
    searchFailed, customerId, selected, looking, forsaken, recents, picked, unstored,
    active, due, closed, past, changed, seen, shown, selection, dialog, request, isGenerating,
    generateError, left,
    list, linked, state, from, label, astray,
    owner, opened, cookies, user, isLoading, token, page, calls, doubtful, signedOut

formVars == <<forms, open, opening, text, edits, unseen, busy, failed, requests, place>>
textVars == <<mode, bn, en, debounced, status, lastAuto, lastBn, asked, translations, mounted,
              kept, redone>>
pickerVars == <<pickerMode, value, chosen, compressing, cameras, cameraRequests, live, stream,
                onPage, choice, crossed, hidden, leaked>>
importVars == <<selectedFile, files, preview, isPreviewing, isImporting, confirmOpen, confirmed,
                overtaken>>
recordVars == <<record, rows, copy, load, newest, late, ops, values, heard, gone>>
customerVars == <<use, named, preselected, search, searchDebounced, options, searching, cancelled,
                  searchFailed, customerId, selected, looking, forsaken, recents, picked,
                  unstored>>
invitationVars == <<active, due, closed, past, changed, seen, shown, selection, dialog, request,
                    isGenerating, generateError, left>>
linkVars == <<list, linked, state, from, label, astray>>
sessionVars == <<owner, opened, cookies, user, isLoading, token, page, calls, doubtful,
                 signedOut>>
vars == <<screen, formVars, textVars, pickerVars, importVars, recordVars, customerVars,
          invitationVars, linkVars, sessionVars>>

Form == INSTANCE Forms
Text == INSTANCE Bilingual WITH calls <- translations, MaxCalls <- MaxTranslations
Picker == INSTANCE ImagePicker WITH mode <- pickerMode, opening <- cameraRequests,
                                   mounted <- onPage
Import == INSTANCE VillageImport WITH chosen <- files
Record == INSTANCE RecordPages WITH page <- record, status <- load
Customer == INSTANCE CustomerPicker WITH debounced <- searchDebounced, asked <- searching,
                                         failed <- searchFailed
Invitation == INSTANCE InvitationSelector WITH MaxCustomers <- MaxInvited
Links == INSTANCE ListLinks WITH place <- linked
Session == INSTANCE AdminSession

ASSUME NoneIsNothing ==
    /\ None \notin Links!Query /\ None \notin Invitation!Request
    /\ None \notin Record!Request \cup Record!Op \cup Record!StaffForm
    /\ None \notin Record!StaffStates \cup Record!Flags /\ None \notin 0..MaxSearch

-----------------------------------------------------------------------------
Screens == {"form", "text", "picker", "import", "record", "customer", "invitation", "links",
            "session"}

\* Each of them, or the one it is when the screen is another.
Init ==
    /\ screen \in Screens
    /\ Form!Init /\ (screen # "form" => forms = {Form!CustomerCreatePage})
    /\ Text!Init /\ (screen # "text" => mode = "translate" /\ bn = 0)
    /\ Picker!Init
    /\ Import!Init
    /\ Record!Init /\ (screen # "record" => record = Record!DashboardPage)
    /\ Customer!Init /\ (screen # "customer" => use = "sale" /\ named = 0)
    /\ Invitation!Init /\ (screen # "invitation" => active = {} /\ past = {})
    /\ Links!Init /\ (screen # "links" => list = Links!StaffLinks)
    /\ Session!Init /\ (screen # "session" => page = "home")

\* Everything but one screen is left alone.
FormStep ==
    screen = "form" /\ Form!Next
    /\ UNCHANGED <<screen, textVars, pickerVars, importVars, recordVars, customerVars,
                   invitationVars, linkVars, sessionVars>>
TextStep ==
    screen = "text" /\ Text!Next
    /\ UNCHANGED <<screen, formVars, pickerVars, importVars, recordVars, customerVars,
                   invitationVars, linkVars, sessionVars>>
PickerStep ==
    screen = "picker" /\ Picker!Next
    /\ UNCHANGED <<screen, formVars, textVars, importVars, recordVars, customerVars,
                   invitationVars, linkVars, sessionVars>>
ImportStep ==
    screen = "import" /\ Import!Next
    /\ UNCHANGED <<screen, formVars, textVars, pickerVars, recordVars, customerVars,
                   invitationVars, linkVars, sessionVars>>
RecordStep ==
    screen = "record" /\ Record!Next
    /\ UNCHANGED <<screen, formVars, textVars, pickerVars, importVars, customerVars,
                   invitationVars, linkVars, sessionVars>>
CustomerStep ==
    screen = "customer" /\ Customer!Next
    /\ UNCHANGED <<screen, formVars, textVars, pickerVars, importVars, recordVars,
                   invitationVars, linkVars, sessionVars>>
InvitationStep ==
    screen = "invitation" /\ Invitation!Next
    /\ UNCHANGED <<screen, formVars, textVars, pickerVars, importVars, recordVars,
                   customerVars, linkVars, sessionVars>>
LinksStep ==
    screen = "links" /\ Links!Next
    /\ UNCHANGED <<screen, formVars, textVars, pickerVars, importVars, recordVars,
                   customerVars, invitationVars, sessionVars>>
SessionStep ==
    screen = "session" /\ Session!Next
    /\ UNCHANGED <<screen, formVars, textVars, pickerVars, importVars, recordVars,
                   customerVars, invitationVars, linkVars>>

Next == FormStep \/ TextStep \/ PickerStep \/ ImportStep \/ RecordStep \/ CustomerStep
        \/ InvitationStep \/ LinksStep \/ SessionStep

\* What Forms and AdminSession assume, where the screen is theirs.
Fairness ==
    /\ WF_formVars(screen = "form" /\ (Form!Succeed \/ Form!Fail))
    /\ WF_formVars(screen = "form" /\ Form!Reloaded)
    /\ WF_sessionVars(screen = "session" /\ Session!Redirect)

Spec == Init /\ [][Next]_vars /\ Fairness

-----------------------------------------------------------------------------
(* Every variable of every screen has its type.                                     *)
TypeOK ==
    /\ screen = "form" => Form!TypeOK
    /\ screen = "text" => Text!TypeOK
    /\ screen = "picker" => Picker!TypeOK
    /\ screen = "import" => Import!TypeOK
    /\ screen = "record" => Record!TypeOK
    /\ screen = "customer" => Customer!TypeOK
    /\ screen = "invitation" => Invitation!TypeOK
    /\ screen = "links" => Links!TypeOK
    /\ screen = "session" => Session!TypeOK

(* A sale, a payment, a halkhata, a generation or a customer's version is entered   *)
(* twice for one text only when the first answer was lost and the user pressed      *)
(* again, or when he pressed again while the router was leaving the page.           *)
DuplicatesExplained == screen = "form" => Form!DuplicatesExplained

(* What an answer closes, empties or overwrites is not what the user typed since:   *)
(* in a form that locks its fields it is the text that was stored (but for the notes *)
(* of a halkhata that others changed, see Forms), and an English text typed by hand *)
(* is changed by him or by the answer to his Re-translate.                          *)
TypedTextKept == Form!NothingTypedIsLost /\ Text!HandTextKept

(* At rest an English text marked automatic is that of the Bangla text beside it,   *)
(* and "translating" is not shown for ever: with the exceptions Bilingual names.    *)
AutomaticTextSettles == screen = "text" => Text!AutomaticTextSettles

(* What a page offers on a copy that is still the record is accepted by the server, *)
(* but for three known refusals, and a Save changes an account's status only when   *)
(* that was asked for or what it was made of is older than the record; and at rest, *)
(* when nothing failed, a page shows its record as its own last write left it or    *)
(* newer, in whatever order the reloads of two writes are answered.                 *)
PageFitsRecord == screen = "record" => Record!OffersAccepted /\ Record!OwnWritesShown

(* What is sent is what the user chose and saw: the file imported is the one whose  *)
(* faultless summary was on display, the picture the last one chosen, the customer  *)
(* the one shown, from options that are those of the search typed and recent ones   *)
(* in their order, and the invitations are as many as he was told.  The camera runs *)
(* only while it is shown.  The exceptions are named in the five modules, each an   *)
(* overlap of two requests, or of a request and another user.                       *)
ChoicesSent ==
    /\ screen = "import" => Import!ImportedWasTried
    /\ screen = "picker" => Picker!PictureIsTheChoice /\ Picker!CameraOnlyWhileShown
    /\ screen = "customer" => Customer!ShownIsSent /\ Customer!OptionsFit /\ Customer!RecentsInOrder
    /\ screen = "invitation" => Invitation!InvitationsAsTold

(* The way back from a record is to the list as the user left it, where the list's  *)
(* links carry its state and no Edit link or other version was followed.            *)
BackToTheListLeft == Links!BackToTheListLeft

(* Once nothing is under way the tab shows the account the browser's session is of, *)
(* unless a request about it was lost, refused or overtaken, or it ended on its own.*)
TabAgrees == screen = "session" => Session!TabAgrees

(* Every press of a form ends, with an answer or without: no button stays disabled. *)
(* And the guards of the pages do not send the user to and fro for ever.            *)
ScreensSettle ==
    []<>(/\ screen = "form" => Form!NothingUnderway
         /\ screen = "session" => Session!OnItsPage)

=============================================================================
