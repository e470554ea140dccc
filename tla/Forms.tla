-------------------------------- MODULE Forms --------------------------------
(***************************************************************************)
(* The forms and dialogs of apps/frontend-admin, from the press of their   *)
(* button to what the screen makes of the answer.                          *)
(*                                                                         *)
(* They differ in few ways, and a form here is a record of these.  The     *)
(* forms of one component share its isSaving and its error message.  The   *)
(* client waits ten seconds for an answer; the server may still do what it *)
(* was asked, and nothing in a request tells it from an earlier one.       *)
(***************************************************************************)
EXTENDS Integers, Sequences

CONSTANTS
    None,           \* no form
    MaxPresses,     \* bound: requests sent
    MaxOpenings,    \* bound: dialogs opened
    MaxEdits        \* bound: texts typed

-----------------------------------------------------------------------------
(* What the forms do.  Every one has its button disabled while its own     *)
(* request is under way, and enabled again in a "finally".                 *)

\* A form on a page of its own.
PageForm == [
    name |-> "page",
    dialog |-> FALSE,       \* opened and closed over a page
    prefilled |-> FALSE,    \* can be sent as it opens
    locks |-> FALSE,        \* its fields are disabled while a request is under way
    busyOpens |-> TRUE,     \* it can be opened then
    busyCloses |-> FALSE,   \* and closed
    keepsText |-> FALSE,    \* closing it keeps what was typed
    keepsError |-> FALSE,   \* opening it keeps the error
    closes |-> FALSE,       \* a success closes it
    clears |-> FALSE,       \* a success empties it
    clearsLast |-> FALSE,   \* it is emptied when all that, the reload included, has ended
    failClears |-> FALSE,   \* a failure empties it too
    synced |-> FALSE,       \* a reload that finds the record's text changed shows that
    reloads |-> "no",       \* a success loads the page anew: "before" all that, or "after"
    leaves |-> FALSE,       \* a success goes to another page
    again |-> FALSE]        \* the server does it as often as it is asked

\* Its buttons are disabled, but the escape key is its owner's affair.
ConfirmDialog == [PageForm EXCEPT !.dialog = TRUE, !.prefilled = TRUE, !.locks = TRUE,
                                  !.busyCloses = TRUE, !.closes = TRUE]

CustomerCreateForm == [PageForm EXCEPT !.locks = TRUE, !.leaves = TRUE]
\* setFormKey gives an empty form.
CustomerCreatePage == [CustomerCreateForm EXCEPT !.name = "customer create", !.clears = TRUE]
CustomerEditPage == [CustomerCreateForm EXCEPT !.name = "customer edit", !.prefilled = TRUE,
                                               !.again = TRUE]
ArchiveConfirmationModal == [ConfirmDialog EXCEPT !.prefilled = FALSE, !.locks = FALSE,
                                                  !.keepsText = TRUE]
\* handleArchive closes after its reload, and onOpenChange tests isArchiving.
CustomerArchive == [ArchiveConfirmationModal EXCEPT !.name = "customer archive",
                        !.busyCloses = FALSE, !.reloads = "before"]

TransactionCreateForm == [PageForm EXCEPT !.name = "transaction create", !.leaves = TRUE,
                                          !.again = TRUE]
TransactionCorrectForm == [PageForm EXCEPT !.name = "transaction correct", !.leaves = TRUE]
TransactionVoidModal == [PageForm EXCEPT !.name = "transaction void", !.dialog = TRUE,
                             !.busyCloses = TRUE, !.keepsText = TRUE, !.keepsError = TRUE,
                             !.closes = TRUE, !.clears = TRUE]

\* The form is mounted anew whenever it opens.
FollowUpModal == [PageForm EXCEPT !.dialog = TRUE, !.prefilled = TRUE, !.busyCloses = TRUE,
                                  !.closes = TRUE, !.clears = TRUE]
FollowUpCancelDialog == [ConfirmDialog EXCEPT !.name = "follow-up cancel"]
\* handleConfirm empties the note when onConfirm returns: it reloads, and swallows its errors.
FollowUpCompleteDialog == [ConfirmDialog EXCEPT !.locks = FALSE, !.clearsLast = TRUE,
                                                !.failClears = TRUE]
CustomerFollowUpPanel ==
    {[form EXCEPT !.reloads = "after"] :
        form \in {[FollowUpModal EXCEPT !.name = "follow-up save"],
                  [FollowUpCompleteDialog EXCEPT !.name = "follow-up complete"],
                  FollowUpCancelDialog}}
DashboardFollowUps ==
    {[form EXCEPT !.reloads = "after"] :
        form \in {[FollowUpModal EXCEPT !.name = "dashboard reschedule"],
                  [FollowUpCompleteDialog EXCEPT !.name = "dashboard complete"]}}

CreateHalkhataModal == [PageForm EXCEPT !.dialog = TRUE, !.locks = TRUE, !.busyCloses = TRUE]
\* setCreateOpen(false) passes by the reset of handleOpenChange.
HalkhataCreate == [CreateHalkhataModal EXCEPT !.name = "halkhata create", !.keepsError = TRUE,
                       !.closes = TRUE, !.leaves = TRUE, !.again = TRUE]
\* handleOpenChange tests isLoading; the amount stays enabled.
HalkhataPaymentModal == [PageForm EXCEPT !.dialog = TRUE, !.closes = TRUE, !.clears = TRUE]
HalkhataPayment == [HalkhataPaymentModal EXCEPT !.name = "halkhata payment",
                        !.reloads = "before", !.again = TRUE]
\* Notes and status share isUpdating; the confirmation closes after the reload.  An effect
\* sets the notes to those of the record whenever it comes with others.
HalkhataDetailHeader ==
    {[PageForm EXCEPT !.name = "halkhata notes", !.locks = TRUE, !.synced = TRUE,
                      !.reloads = "before"],
     [ConfirmDialog EXCEPT !.name = "halkhata status", !.busyOpens = FALSE,
                           !.reloads = "before"]}

\* The choice of customers, with its generation (InvitationSelector).
PreHalkhataInvitationPage == [PageForm EXCEPT !.name = "invitations", !.leaves = TRUE,
                                              !.again = TRUE]

\* The confirmation covers the fields, and handleConfirmUpdate and onOpenChange test
\* isSubmitting: the two are one form.
BangladeshAddressEditForm == [PageForm EXCEPT !.name = "geo edit", !.prefilled = TRUE,
                                              !.locks = TRUE, !.leaves = TRUE]
\* Saved names are no change any more.
BangladeshAddressNameEditor == [PageForm EXCEPT !.name = "geo name", !.locks = TRUE,
                                                !.clears = TRUE, !.reloads = "after"]
\* A deletion leaves; its dialog is open until then.
ConfirmDeleteModal == [ConfirmDialog EXCEPT !.name = "geo delete", !.busyCloses = FALSE,
                                            !.closes = FALSE, !.leaves = TRUE]
\* Over the list it closes, and the list is loaded anew behind it.
BangladeshAddressTable == [ConfirmDeleteModal EXCEPT !.name = "geo delete in list",
                                                     !.closes = TRUE, !.leaves = FALSE]

StaffUserForm == [PageForm EXCEPT !.locks = TRUE]
StaffUserCreatePage == [StaffUserForm EXCEPT !.name = "staff create", !.leaves = TRUE]
StaffUserDetailPage == [StaffUserForm EXCEPT !.name = "staff update", !.prefilled = TRUE,
                                             !.reloads = "after"]
DeactivateStaffConfirmDialog == [ConfirmDialog EXCEPT !.name = "staff deactivate",
                                                      !.reloads = "after"]

ChangePasswordPage == [PageForm EXCEPT !.name = "change password", !.locks = TRUE,
                                       !.clears = TRUE]
AdminProfilePage == [PageForm EXCEPT !.name = "profile", !.dialog = TRUE, !.prefilled = TRUE,
                                     !.closes = TRUE, !.reloads = "before"]

\* The forms that share one isSaving and one error message.
Components ==
    {CustomerFollowUpPanel, DashboardFollowUps, HalkhataDetailHeader}
    \cup {{form} : form \in
            {CustomerCreatePage, CustomerEditPage, CustomerArchive,
             TransactionCreateForm, TransactionCorrectForm, TransactionVoidModal,
             HalkhataCreate, HalkhataPayment, PreHalkhataInvitationPage,
             BangladeshAddressEditForm, BangladeshAddressNameEditor, ConfirmDeleteModal,
             BangladeshAddressTable,
             StaffUserCreatePage, StaffUserDetailPage, DeactivateStaffConfirmDialog,
             ChangePasswordPage, AdminProfilePage}}

-----------------------------------------------------------------------------
VARIABLES
    forms,          \* the component on the page
    open,           \* its form the user has before him
    opening,        \* openings so far
    text,           \* what is in the fields: 0 as it was at first, else the text typed
    edits,          \* texts typed so far
    unseen,         \* whose text the record has and the page has not: a request's or Other
    busy,           \* isSubmitting, isSaving: "no", "sent", or "reload" after a success
    failed,         \* an error message is shown
    requests,       \* the requests sent, in order; the client awaits the last
    place           \* the page: "here", "leaving" while the router works, "gone"

formVars == <<forms, open, opening, text, edits, unseen>>
vars == <<formVars, busy, failed, requests, place>>

Request == [form : UNION Components, text : 0..MaxEdits, opening : 0..MaxOpenings,
            \* at the server: on its way, or what came of it
            done : {"no", "yes", "refused"},
            \* the client gave it up; it was sent while the page was being left
            lost : BOOLEAN, leaving : BOOLEAN]

\* What is before the user when no dialog is.
Underneath(component) ==
    IF \E f \in component : ~f.dialog THEN CHOOSE f \in component : ~f.dialog ELSE None

Init ==
    /\ forms \in Components
    /\ open = Underneath(forms) /\ opening = 0
    /\ text = [f \in forms |-> 0] /\ edits = 0 /\ unseen = 0
    /\ busy = "no" /\ failed = FALSE
    /\ requests = <<>> /\ place = "here"

\* Another user, or another tab.
Other == MaxPresses + 1
Newest == Len(requests)
Sent == requests[Newest]

-----------------------------------------------------------------------------
(* The user.                                                               *)

Open(form) ==
    /\ place # "gone" /\ form.dialog /\ open = Underneath(forms)
    /\ opening < MaxOpenings /\ (busy = "no" \/ form.busyOpens)
    /\ open' = form /\ opening' = opening + 1
    /\ failed' = (failed /\ form.keepsError)
    /\ UNCHANGED <<forms, text, edits, unseen, busy, requests, place>>

\* The cancel button, the cross, the escape key.
Close ==
    /\ place # "gone" /\ open # None /\ open.dialog
    /\ busy = "no" \/ open.busyCloses
    /\ open' = Underneath(forms)
    /\ text' = IF open.keepsText THEN text ELSE [text EXCEPT ![open] = 0]
    /\ UNCHANGED <<forms, opening, edits, unseen, busy, failed, requests, place>>

TypeUnlocked ==
    /\ place # "gone" /\ open # None /\ edits < MaxEdits
    /\ edits' = edits + 1 /\ text' = [text EXCEPT ![open] = edits + 1]
    /\ UNCHANGED <<forms, open, opening, unseen, busy, failed, requests, place>>
Type ==
    /\ place # "gone" /\ open # None /\ edits < MaxEdits
    /\ open.locks => busy = "no"
    /\ edits' = edits + 1 /\ text' = [text EXCEPT ![open] = edits + 1]
    /\ UNCHANGED <<forms, open, opening, unseen, busy, failed, requests, place>>

Send == Append(requests, [form |-> open, text |-> text[open], opening |-> opening,
                          done |-> "no", lost |-> FALSE, leaving |-> place = "leaving"])

\* handleSubmit: a form with nothing in it only shows what is missing.
PressAnyTime ==
    /\ place # "gone" /\ open # None /\ Newest < MaxPresses
    /\ text[open] # 0 \/ open.prefilled
    /\ requests' = Send /\ busy' = "sent" /\ failed' = FALSE
    /\ UNCHANGED <<formVars, place>>
Press ==
    /\ place # "gone" /\ open # None /\ Newest < MaxPresses
    /\ busy = "no"
    /\ text[open] # 0 \/ open.prefilled
    /\ requests' = Send /\ busy' = "sent" /\ failed' = FALSE
    /\ UNCHANGED <<formVars, place>>

-----------------------------------------------------------------------------
(* The server, and the answers.                                            *)

\* It may come to a request after the client gave it up.
Serve(i) ==
    /\ requests[i].done = "no"
    /\ \E outcome \in {"yes", "refused"} :
        /\ requests' = [requests EXCEPT ![i].done = outcome]
        /\ unseen' = IF outcome = "yes" /\ requests[i].form.synced THEN i ELSE unseen
    /\ UNCHANGED <<forms, open, opening, text, edits, busy, failed, place>>

ChangeElsewhere ==
    /\ \E f \in forms : f.synced
    /\ unseen' = Other
    /\ UNCHANGED <<forms, open, opening, text, edits, busy, failed, requests, place>>

\* What a success does to the form it came from, wherever the user is by then.
Finish(form, fields) ==
    /\ open' = IF form.closes /\ open = form THEN Underneath(forms) ELSE open
    /\ text' = IF form.clears THEN [fields EXCEPT ![form] = 0] ELSE fields
    /\ place' = IF form.leaves /\ place = "here" THEN "leaving" ELSE place

Succeed ==
    /\ busy = "sent" /\ Sent.done = "yes" /\ place # "gone"
    /\ busy' = IF Sent.form.reloads = "no" THEN "no" ELSE "reload"
    /\ IF Sent.form.reloads = "before" THEN UNCHANGED <<open, text, place>>
                                       ELSE Finish(Sent.form, text)
    /\ UNCHANGED <<forms, opening, edits, unseen, failed, requests>>

\* What the fields hold once the record is loaded anew.
Shown == [f \in forms |-> IF f.synced /\ unseen # 0 THEN 0 ELSE text[f]]

\* reload ends, with a list or an error of its own.
Reloaded ==
    /\ busy = "reload" /\ place # "gone"
    /\ busy' = "no"
    /\ \E loaded \in BOOLEAN :
        LET fields == IF loaded THEN Shown ELSE text
        IN  /\ unseen' = IF loaded THEN 0 ELSE unseen
            /\ IF Sent.form.reloads = "before" THEN Finish(Sent.form, fields)
               ELSE /\ text' = IF Sent.form.clearsLast THEN [fields EXCEPT ![Sent.form] = 0]
                                                       ELSE fields
                    /\ UNCHANGED <<open, place>>
    /\ UNCHANGED <<forms, opening, edits, failed, requests>>

\* A payment taken on the page loads its record anew too.
PageReloaded ==
    /\ unseen # 0 /\ place # "gone"
    /\ text' = Shown /\ unseen' = 0
    /\ UNCHANGED <<forms, open, opening, edits, busy, failed, requests, place>>

Empty(form) == text' = [text EXCEPT ![form] = 0]

FailUnfinished ==
    /\ busy = "sent" /\ place # "gone"
    /\ failed' = TRUE
    /\ requests' = [requests EXCEPT ![Newest].lost = (Sent.done # "refused")]
    /\ IF Sent.form.failClears THEN Empty(Sent.form) ELSE UNCHANGED text
    /\ UNCHANGED <<forms, open, opening, edits, unseen, busy, place>>
\* The answer is a refusal, or there is none in time.
Fail ==
    /\ busy = "sent" /\ place # "gone"
    /\ busy' = "no" /\ failed' = TRUE
    /\ requests' = [requests EXCEPT ![Newest].lost = (Sent.done # "refused")]
    /\ IF Sent.form.failClears THEN Empty(Sent.form) ELSE UNCHANGED text
    /\ UNCHANGED <<forms, open, opening, edits, unseen, place>>

\* The router shows the page it was told to.
Arrive ==
    /\ place = "leaving" /\ place' = "gone"
    /\ UNCHANGED <<formVars, busy, failed, requests>>

-----------------------------------------------------------------------------
User == (\E form \in forms : Open(form)) \/ Close \/ Type \/ Press

Next == User \/ (\E i \in 1..Newest : Serve(i)) \/ ChangeElsewhere
        \/ Succeed \/ Reloaded \/ PageReloaded \/ Fail \/ Arrive

\* An answer is handled or the request times out, and a reload ends.
Fairness == WF_vars(Succeed \/ Fail) /\ WF_vars(Reloaded)

Spec == Init /\ [][Next]_vars /\ Fairness

-----------------------------------------------------------------------------
TypeOK ==
    /\ forms \in Components /\ open \in forms \cup {None}
    /\ opening \in 0..MaxOpenings /\ edits \in 0..MaxEdits
    /\ text \in [forms -> 0..MaxEdits] /\ unseen \in 0..Other
    /\ busy \in {"no", "sent", "reload"} /\ failed \in BOOLEAN
    /\ requests \in Seq(Request) /\ Newest <= MaxPresses
    /\ place \in {"here", "leaving", "gone"}

(* A sale, a payment, a halkhata, a generation or a customer's version is entered   *)
(* twice for one text only when the first answer was lost and the user pressed      *)
(* again, or when he pressed again while the page was being left.                   *)
DuplicatesExplained ==
    \A i, j \in 1..Newest :
        /\ i < j /\ requests[i].form = requests[j].form /\ requests[i].text = requests[j].text
        /\ requests[i].form.again /\ requests[i].done = "yes" /\ requests[j].done = "yes"
        => requests[i].lost \/ requests[j].leaving

(* Forms in which the user can type or leave while the answer is awaited, or whose  *)
(* text a failure empties.                                                          *)
Exposed == {f \in forms : ~f.locks \/ f.busyCloses \/ f.failClears}

(* In the others what an answer closes, empties or leaves is what was stored: no    *)
(* text typed meanwhile and no later opening is taken for the one that was sent.    *)
(* Only notes give way to those of the record, when they are another user's or of a *)
(* save whose answer or whose reload had failed.                                    *)
Dropped(f) == text'[f] # text[f] \/ (open = f /\ (open' # f \/ place' # place))
Stored(f) == \E i \in 1..Newest :
                 requests[i].form = f /\ requests[i].text = text[f] /\ requests[i].done = "yes"
Overwritten(f) == f.synced /\ unseen # 0 /\ (busy = "no" \/ unseen # Newest)
NothingTypedIsLost ==
    [][Succeed \/ Reloaded \/ PageReloaded \/ Fail =>
          \A f \in forms \ Exposed : Dropped(f) => Stored(f) \/ Overwritten(f)]_vars

(* Every press ends, with an answer or without: no button stays disabled.           *)
NothingUnderway == busy = "no" \/ place = "gone"
PressEnds == []<>NothingUnderway

=============================================================================
