--------------------------- MODULE InvitationSelector ---------------------------
(***************************************************************************)
(* The page where a halkhata's invitations are chosen and generated        *)
(* (PreHalkhataInvitationPage): how many customers the user is told of and *)
(* asked about, and for whom the server then makes a card.  The totals are *)
(* those of the page's opening, a page of customers is as old as its       *)
(* reading, and a past generation's choice is as old as that.              *)
(***************************************************************************)
EXTENDS Integers, FiniteSets

CONSTANTS
    MaxCustomers,   \* customers are 1..MaxCustomers
    Threshold,      \* INVITATION_LARGE_BATCH_THRESHOLD
    None            \* no request

VARIABLES
    active, due,    \* the server: the customers not archived, and those who owe
    closed,         \* and the halkhata, which is open as the page opens
    seen,           \* totalActiveCustomers and totalDueCustomers, as the page opened
    shown,          \* the customers on display
    past,           \* selectedCustomerIds of an earlier generation
    selection,
    dialog,         \* confirmOpen
    request,        \* the last one, until it is served and answered
    isGenerating,
    generateError,
    changed,        \* history: customers changed since the page opened
    left            \* the cards' print page is shown

serverVars == <<active, due, closed, past, changed>>
vars == <<serverVars, seen, shown, selection, dialog, request, isGenerating, generateError, left>>

Customers == 1..MaxCustomers
Manual(ids) == [mode |-> "manual", ids |-> ids]
Whole(mode) == [mode |-> mode, ids |-> {}]

Selections == [mode : {"manual"}, ids : SUBSET Customers]
              \cup [mode : {"all_active", "due_only"}, ids : {{}}]
Request == [selection : Selections, told : 0..MaxCustomers,
            agreed : BOOLEAN, retried : BOOLEAN,
            status : {"sent", "made", "refused", "closed"}, cards : SUBSET Customers]

Init ==
    /\ active \in SUBSET Customers /\ due \in SUBSET active /\ closed = FALSE
    /\ seen = [active |-> Cardinality(active), due |-> Cardinality(due)]
    /\ shown = {} /\ past \in SUBSET Customers
    /\ selection = Manual({}) /\ dialog = FALSE
    /\ request = None /\ isGenerating = FALSE /\ generateError = FALSE
    /\ changed = FALSE /\ left = FALSE

-----------------------------------------------------------------------------
(* What is selected.                                                       *)

\* A page of the list, of any text and filters: due or not, nobody archived.
Listed ==
    /\ ~left
    /\ shown' \in SUBSET active \ {shown}
    /\ UNCHANGED <<serverVars, seen, selection, dialog, request, isGenerating, generateError,
                   left>>

Choose(chosen) ==
    /\ ~left /\ ~dialog
    /\ selection # chosen /\ selection' = chosen
    /\ UNCHANGED <<serverVars, seen, shown, dialog, request, isGenerating, generateError, left>>

toggleCustomer(customer) ==
    /\ customer \in shown /\ selection.mode = "manual"
    /\ Choose(Manual(IF customer \in selection.ids THEN selection.ids \ {customer}
                     ELSE selection.ids \cup {customer}))

\* A choice by a rule has no ids: the page starts a manual one.
togglePageSelection ==
    Choose(Manual(IF shown # {} /\ shown \subseteq selection.ids THEN selection.ids \ shown
                  ELSE selection.ids \cup shown))

ChooseByRule ==
    \/ seen.active # 0 /\ Choose(Whole("all_active"))
    \/ seen.due # 0 /\ Choose(Whole("due_only"))

handleReuseSelection == past # {} /\ Choose(Manual(past))

getSelectedCustomerCountAll ==
    IF selection.mode = "manual" THEN Cardinality(selection.ids) ELSE seen.active
getSelectedCustomerCount ==
    CASE selection.mode = "all_active" -> seen.active
      [] selection.mode = "due_only" -> seen.due
      [] OTHER -> Cardinality(selection.ids)

-----------------------------------------------------------------------------
(* The generation.                                                         *)

performGenerate(agreed, retried) ==
    /\ request' = [selection |-> selection, told |-> getSelectedCustomerCount,
                   agreed |-> agreed, retried |-> retried, status |-> "sent", cards |-> {}]
    /\ isGenerating' = TRUE /\ generateError' = FALSE
    /\ UNCHANGED <<serverVars, seen, shown, selection, left>>

GenerateUnasked ==
    /\ ~left /\ ~isGenerating /\ ~dialog
    /\ getSelectedCustomerCount > 0
    /\ performGenerate(FALSE, FALSE) /\ UNCHANGED dialog
handleGenerateClick ==
    /\ ~left /\ ~isGenerating /\ ~dialog
    /\ getSelectedCustomerCount > 0
    /\ IF getSelectedCustomerCount > Threshold
       THEN /\ dialog' = TRUE
            /\ UNCHANGED <<serverVars, seen, shown, selection, request, isGenerating,
                           generateError, left>>
       ELSE performGenerate(FALSE, FALSE) /\ UNCHANGED dialog

Confirm == dialog /\ ~isGenerating /\ performGenerate(TRUE, FALSE) /\ UNCHANGED dialog

\* The buttons are disabled while a request is under way, the escape key is not.
CloseConfirm ==
    /\ dialog /\ dialog' = FALSE
    /\ UNCHANGED <<serverVars, seen, shown, selection, request, isGenerating, generateError,
                   left>>

\* The button beside the error: neither the number nor its size is looked at.
Retry == ~left /\ generateError /\ ~dialog /\ performGenerate(FALSE, TRUE) /\ UNCHANGED dialog

\* create_invitation_generation: none when the halkhata is closed, else all the ids or nobody.
Serve ==
    /\ request # None /\ request.status = "sent"
    /\ LET chosen == request.selection
           cards == CASE chosen.mode = "all_active" -> active
                      [] chosen.mode = "due_only" -> due \cap active
                      [] OTHER -> chosen.ids
           made == ~closed /\ cards # {} /\ cards \subseteq active
       IN  request' = [request EXCEPT !.status = CASE made -> "made" [] closed -> "closed"
                                                       [] OTHER -> "refused",
                                      !.cards = IF made THEN cards ELSE {}]
    /\ UNCHANGED <<serverVars, seen, shown, selection, dialog, isGenerating, generateError, left>>

\* The answer, or none within ten seconds; then the server may still do it.
Answered ==
    /\ isGenerating /\ isGenerating' = FALSE /\ dialog' = FALSE
    /\ \/ request.status = "made" /\ left' = TRUE /\ UNCHANGED generateError
       \/ generateError' = TRUE /\ UNCHANGED left
    /\ request' = IF request.status = "sent" THEN request ELSE None
    /\ UNCHANGED <<serverVars, seen, shown, selection>>

\* Others archive, register and sell to customers.  The bound: one such change while the page
\* is open, and none of the halkhata beside it.
Others ==
    /\ ~changed /\ ~closed /\ ~left
    /\ active' \in SUBSET Customers /\ due' \in SUBSET Customers
    /\ Cardinality((active \ active') \cup (active' \ active) \cup
                   (due \ due') \cup (due' \ due)) = 1
    /\ due' \subseteq active'
    /\ changed' = TRUE
    /\ UNCHANGED <<closed, past, seen, shown, selection, dialog, request, isGenerating,
                   generateError, left>>

\* Or they close the halkhata, and open it again.
CloseOrReopen ==
    /\ ~changed /\ ~left /\ closed' = ~closed
    /\ UNCHANGED <<active, due, past, changed, seen, shown, selection, dialog, request,
                   isGenerating, generateError, left>>

Next ==
    \/ Listed \/ (\E customer \in Customers : toggleCustomer(customer)) \/ togglePageSelection
    \/ ChooseByRule \/ Choose(Manual({})) \/ handleReuseSelection
    \/ handleGenerateClick \/ Confirm \/ CloseConfirm \/ Retry \/ Serve \/ Answered \/ Others
    \/ CloseOrReopen

Spec == Init /\ [][Next]_vars

TypeOK ==
    /\ {active, due, shown, past} \subseteq SUBSET Customers
    /\ seen \in [active : 0..MaxCustomers, due : 0..MaxCustomers]
    /\ selection \in Selections
    /\ request \in {None} \cup Request
    /\ {closed, dialog, isGenerating, generateError, changed, left} \subseteq BOOLEAN

(* Cards are made for as many customers as the user was told, unless customers      *)
(* changed since the page opened; many of them only after he was asked or when he   *)
(* retried; and for an open halkhata he is refused only for such a change, for an   *)
(* emptied choice he retried, or for a customer of the past who is archived.        *)
InvitationsAsTold ==
    request # None =>
        /\ request.status = "made" => changed \/ Cardinality(request.cards) = request.told
        /\ request.told > Threshold => request.agreed \/ request.retried
        /\ request.status = "refused" =>
            \/ changed \/ (request.told = 0 /\ request.retried)
            \/ request.selection.ids \cap past # {}

=============================================================================
