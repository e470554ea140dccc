----------------------------- MODULE RecordPages -----------------------------
(***************************************************************************)
(* The pages of apps/frontend-admin that show one record and the buttons   *)
(* for it.  The page works on a copy (useAsyncData): it offers what the    *)
(* copy allows, the server accepts what the record allows, and others      *)
(* change the record meanwhile.  The record is the history of its states,  *)
(* and a version of it is a place in that history.                         *)
(***************************************************************************)
EXTENDS Integers, Sequences, SequencesExt

CONSTANTS
    None,           \* no operation, no request, nothing typed
    MaxVersions     \* bound: versions of the record

-----------------------------------------------------------------------------
(* The server, as far as the pages tell it apart.                          *)

\* What the buttons of the pages ask for.
Operations == {"revise", "archive", "transact", "correct", "void", "print", "notes", "close",
               "reopen", "pay", "generate", "rename", "edit", "delete", "save", "reset",
               "deactivate", "set", "reschedule", "complete", "cancel"}

\* Operations that leave the record itself alone.
Aside == {"print", "transact", "generate", "reset"}

\* What becomes of a record in this state.
Becomes(op, state) ==
    CASE op = "archive" -> "archived"
      [] op = "correct" -> "superseded"
      [] op = "void" -> IF state = "initial" THEN "voidedInitial" ELSE "voided"
      [] op = "close" -> "closed"
      [] op = "reopen" -> "open"
      [] op = "delete" -> "gone"
      [] op = "deactivate" -> "inactive"
      [] op \in {"complete", "cancel"} -> "none"
      [] op = "set" -> "pending"
      [] OTHER -> state

\* An operation on a version of the record, not on the record.
OfVersion == {"correct", "void", "reschedule", "complete", "cancel"}

Accepts(op, state) ==
    CASE op \in {"archive", "revise", "transact"} -> state = "live"
      [] op \in {"correct", "void"} -> state \in {"active", "initial"}
      [] op = "print" -> state \notin {"initial", "voidedInitial"}
      [] op \in {"pay", "generate"} -> state = "open"
      [] op \in {"rename", "edit"} -> state # "gone"
      [] op = "delete" -> state = "leaf"
      [] op \in {"reschedule", "complete", "cancel"} -> state = "pending"
      [] OTHER -> TRUE

-----------------------------------------------------------------------------
(* The pages.                                                              *)

\* A page that only shows: a load with its skeleton, its error and its retry button.
ReadingPage == [
    name |-> "reading",
    states |-> {"live"},                \* what the record can be when the page opens
    offers |-> [s \in {} |-> {}],       \* the buttons for it, by the state of the copy
    leaving |-> {},                     \* those that leave the page when they succeed
    busy |-> [o \in {} |-> ""],         \* which of its flags disables a button meanwhile
    fresh |-> {},                       \* those that want a copy loaded without error
    others |-> {<<"live", "live">>}]    \* what other users make of the record

CustomerHistoryPage == [ReadingPage EXCEPT !.name = "customerHistory"]
CustomerVersionDetailPage == [ReadingPage EXCEPT !.name = "customerVersion"]
TransactionHistoryPage == [ReadingPage EXCEPT !.name = "transactionHistory"]
InvitationPrintPage == [ReadingPage EXCEPT !.name = "invitationPrint"]
DashboardPage == [ReadingPage EXCEPT !.name = "dashboard"]
CustomerTransactionsPanel == [ReadingPage EXCEPT !.name = "customerTransactions"]
TransactionConfirmationPage == [ReadingPage EXCEPT !.name = "transactionConfirmation"]

CustomerStates == {"live", "archived"}
CustomerChanges == {<<"live", "live">>, <<"live", "archived">>}

CustomerReadOnlyDetails == [s \in CustomerStates |->
    IF s = "live" THEN {"revise", "archive"} ELSE {}]
\* Its links do not look at the customer.
CustomerBalanceSummary == [s \in CustomerStates |-> {"transact"}]
CustomerDetailPage == [ReadingPage EXCEPT
    !.name = "customer", !.states = CustomerStates, !.others = CustomerChanges,
    !.offers = [s \in CustomerStates |-> CustomerReadOnlyDetails[s] \cup CustomerBalanceSummary[s]],
    !.leaving = {"revise", "transact"},
    !.busy = [o \in {"revise", "archive", "transact"} |-> "isArchiving"]]

\* Nor do these pages, which an address can open.
CustomerEditPage == [CustomerDetailPage EXCEPT
    !.name = "customerEdit", !.offers = [s \in CustomerStates |-> {"revise"}]]
CustomerTransactionCreatePage == [CustomerDetailPage EXCEPT
    !.name = "customerTransaction", !.offers = [s \in CustomerStates |-> {"transact"}]]

TransactionStates == {"active", "initial", "superseded", "voided", "voidedInitial"}
isCorrectable(s) == s \in {"active", "initial"}
canPrint(s) == s \notin {"initial", "voidedInitial"}
TransactionReadOnlyDetails == [s \in TransactionStates |->
    (IF isCorrectable(s) THEN {"correct", "void"} ELSE {})
    \cup (IF canPrint(s) THEN {"print"} ELSE {})]
\* A superuser gets the version he asks for.
TransactionDetailPage == [ReadingPage EXCEPT
    !.name = "transaction", !.states = TransactionStates, !.offers = TransactionReadOnlyDetails,
    !.leaving = {"correct", "print"},
    !.busy = [o \in {"correct", "void", "print"} |-> "isSaving"],
    !.others = {<<"active", "superseded">>, <<"active", "voided">>, <<"initial", "voidedInitial">>}]
\* Others get the last one of its line.
StaffTransactionPage == [TransactionDetailPage EXCEPT
    !.name = "transactionLatest", !.states = @ \ {"superseded"},
    !.others = {<<"active", "active">>, <<"active", "voided">>, <<"initial", "initial">>}]
TransactionCorrectPage == [TransactionDetailPage EXCEPT
    !.name = "transactionCorrect",
    !.offers = [s \in TransactionStates |-> IF isCorrectable(s) THEN {"correct"} ELSE {}]]

HalkhataStates == {"open", "closed"}
\* The notes and the status are sent as the copy, not the record, has it.
HalkhataDetailHeader == [s \in HalkhataStates |->
    IF s = "open" THEN {"notes", "close"} ELSE {"reopen"}]
PaymentAlways == [s \in HalkhataStates |-> {"pay"}]
HalkhataCustomerPaymentSection == [s \in HalkhataStates |-> IF s = "open" THEN {"pay"} ELSE {}]
HalkhataDetailPage == [ReadingPage EXCEPT
    !.name = "halkhata", !.states = HalkhataStates,
    !.offers = [s \in HalkhataStates |-> HalkhataDetailHeader[s] \cup HalkhataCustomerPaymentSection[s]],
    !.busy = [o \in {"notes", "close", "reopen", "pay"} |->
                IF o = "pay" THEN "isPaying" ELSE "isUpdating"],
    !.others = {<<"open", "open">>, <<"open", "closed">>, <<"closed", "open">>}]
\* canGenerate of the server; else the page is read-only.
PreHalkhataInvitationPage == [HalkhataDetailPage EXCEPT
    !.name = "invitations",
    !.offers = [s \in HalkhataStates |-> IF s = "open" THEN {"generate"} ELSE {}],
    !.leaving = {"generate"}, !.busy = [o \in {"generate"} |-> "isGenerating"]]

GeoStates == {"leaf", "parent"}
BangladeshAddressDetailPage == [ReadingPage EXCEPT
    !.name = "geo", !.states = GeoStates,
    !.offers = [s \in GeoStates |-> {"rename", "edit", "delete"}],
    !.leaving = {"edit", "delete"}, !.fresh = {"delete"},
    !.busy = [o \in {"rename", "edit", "delete"} |-> IF o = "rename" THEN "isSaving" ELSE "isDeleting"],
    !.others = {<<"leaf", "leaf">>, <<"leaf", "parent">>, <<"parent", "leaf">>, <<"leaf", "gone">>}]
BangladeshAddressEditPage == [BangladeshAddressDetailPage EXCEPT
    !.name = "geoEdit", !.offers = [s \in GeoStates |-> {"edit"}], !.fresh = {"edit"}]

StaffStates == {"active", "inactive"}
StaffUserDetailPage == [ReadingPage EXCEPT
    !.name = "staff", !.states = StaffStates,
    !.offers = [s \in StaffStates |->
                  {"save", "reset"} \cup IF s = "active" THEN {"deactivate"} ELSE {}],
    !.busy = [o \in {"save", "reset", "deactivate"} |->
                CASE o = "save" -> "isSaving" [] o = "reset" -> "isResettingPassword"
                  [] OTHER -> "isDeactivating"],
    !.others = {<<"active", "inactive">>, <<"inactive", "active">>, <<"active", "active">>}]

FollowUpStates == {"none", "pending"}
\* The card of a customer who is not archived.
FollowUpCard == [s \in FollowUpStates |->
    IF s = "pending" THEN {"reschedule", "complete", "cancel"} ELSE {"set"}]
CustomerFollowUpPanel == [ReadingPage EXCEPT
    !.name = "followUp", !.states = FollowUpStates, !.offers = FollowUpCard,
    !.busy = [o \in {"set", "reschedule", "complete", "cancel"} |-> "isSaving"],
    !.others = {<<"none", "pending">>, <<"pending", "pending">>, <<"pending", "none">>}]
DashboardFollowUps == [CustomerFollowUpPanel EXCEPT
    !.name = "dashboardFollowUp",
    !.offers = [s \in FollowUpStates |-> IF s = "pending" THEN {"reschedule", "complete"} ELSE {}]]

Pages == {
    CustomerHistoryPage, CustomerVersionDetailPage, TransactionHistoryPage, InvitationPrintPage,
    DashboardPage, CustomerTransactionsPanel, TransactionConfirmationPage,
    CustomerDetailPage, CustomerEditPage, CustomerTransactionCreatePage,
    TransactionDetailPage, StaffTransactionPage, TransactionCorrectPage,
    HalkhataDetailPage, PreHalkhataInvitationPage,
    BangladeshAddressDetailPage, BangladeshAddressEditPage,
    StaffUserDetailPage, CustomerFollowUpPanel, DashboardFollowUps}

-----------------------------------------------------------------------------
VARIABLES
    page,
    rows,           \* server: the states of the record, the last one its present one
    copy,           \* the version on display, 0: none
    status,         \* useAsyncData: "loading", "success", "error"
    newest,         \* its newest request, while it waits: the version that was present
                    \* when it was sent, and the flag its end resets
    late,           \* the superseded ones
    ops,            \* what each flag of the page stands for
    values,         \* the staff form, once touched: its isActive, the version it had it of,
                    \* and was another one asked for
    heard,          \* history: the version the page's last accepted write made
    gone            \* the page was left

vars == <<page, rows, copy, status, newest, late, ops, values, heard, gone>>

Versions == 1..MaxVersions
Flags == {"isArchiving", "isSaving", "isPaying", "isUpdating", "isGenerating", "isDeleting",
          "isResettingPassword", "isDeactivating"}
Request == [from : Versions, flag : Flags \cup {None}]
Op == [name : Operations, seen : Versions, sends : StaffStates \cup {None},
       of : Versions,       \* the version isActive is of
       asked : BOOLEAN,     \* the change of isActive it sends was asked for
       done : {"sent", "accepted", "refused", "reload"},
       stale : BOOLEAN,     \* served when another version than the one seen was present
       turned : BOOLEAN,    \* it changed isActive
       made : {0} \cup Versions]
StaffForm == [isActive : StaffStates, of : Versions, asked : BOOLEAN]

Now == Last(rows)
Idle(flag) == ops[flag] = None

Init ==
    /\ page \in Pages
    /\ \E s \in page.states : rows = <<s>>
    /\ copy = 0 /\ status = "loading"
    /\ newest = [from |-> 1, flag |-> None] /\ late = {}
    /\ ops = [f \in Flags |-> None]
    /\ values = None /\ heard = 0 /\ gone = FALSE

-----------------------------------------------------------------------------
(* The load.                                                               *)

\* reload: what was loaded before stays on display.
Reload(flag) ==
    /\ newest' = [from |-> Len(rows), flag |-> flag]
    /\ late' = late \cup ({newest} \ {None})
    /\ status' = "loading"

Free(request, table) ==
    IF request.flag = None THEN table ELSE [table EXCEPT ![request.flag] = None]

LoadUnchanged == UNCHANGED <<page, rows, values, heard, gone>>

\* The record was read at some moment between the request and its answer.
Loaded ==
    /\ newest # None /\ ~gone
    /\ \E v \in newest.from..Len(rows) :
          IF rows[v] = "gone" THEN status' = "error" /\ UNCHANGED copy
          ELSE status' = "success" /\ copy' = v
    /\ ops' = Free(newest, ops)
    /\ newest' = None /\ UNCHANGED late /\ LoadUnchanged

LoadFailed ==
    /\ newest # None /\ ~gone
    /\ status' = "error" /\ UNCHANGED copy
    /\ ops' = Free(newest, ops)
    /\ newest' = None /\ UNCHANGED late /\ LoadUnchanged

\* requestId differs from the newest: the answer is dropped.
ShowLate(request) == copy' = request.from
DropLate(request) == UNCHANGED copy
LoadedLate ==
    /\ ~gone
    /\ \E request \in late :
          /\ DropLate(request)
          /\ ops' = Free(request, ops)
          /\ late' = late \ {request}
    /\ UNCHANGED <<status, newest>> /\ LoadUnchanged

Retry ==
    /\ status = "error" /\ ~gone
    /\ Reload(None)
    /\ UNCHANGED <<copy, ops>> /\ LoadUnchanged

-----------------------------------------------------------------------------
(* The user and the server.                                                *)

Shows == copy # 0 /\ ~gone
State == rows[copy]

\* The form of the staff page takes the copy's values when first touched, and has its own
\* from then on.
TouchStaffFormActive ==
    /\ page.name = "staff" /\ Shows /\ Idle("isSaving") /\ values = None
    /\ values' = [isActive |-> "active", of |-> copy, asked |-> FALSE]
    /\ UNCHANGED <<page, rows, copy, status, newest, late, ops, heard, gone>>
TouchStaffForm ==
    /\ page.name = "staff" /\ Shows /\ Idle("isSaving")
    /\ LET was == IF values = None THEN [isActive |-> State, of |-> copy, asked |-> FALSE]
                  ELSE values
           other == CHOOSE s \in StaffStates : s # was.isActive IN
       values' \in {was, [was EXCEPT !.isActive = other, !.asked = TRUE]}
    /\ values' # values
    /\ UNCHANGED <<page, rows, copy, status, newest, late, ops, heard, gone>>

Press(o) ==
    /\ Shows /\ o \in page.offers[State] /\ Idle(page.busy[o])
    /\ o \in page.fresh => status = "success"
    /\ ops' = [ops EXCEPT ![page.busy[o]] =
          [name |-> o, seen |-> copy,
           sends |-> IF o # "save" THEN None
                     ELSE IF values = None THEN State ELSE values.isActive,
           of |-> IF values = None THEN copy ELSE values.of,
           asked |-> o = "save" /\ values # None /\ values.asked,
           done |-> "sent", stale |-> FALSE, turned |-> FALSE, made |-> 0]]
    /\ UNCHANGED <<page, rows, copy, status, newest, late, values, heard, gone>>

\* What the operation makes of the record; of one for a version that is not the present
\* one the page cannot know whether it is refused.
Accepted(op) ==
    {Accepts(op.name, Now)} \cup (IF op.name \in OfVersion /\ op.seen # Len(rows) THEN {FALSE} ELSE {})
Result(op) ==
    CASE op.sends # None -> op.sends
      [] op.name = "correct" /\ page.name = "transactionLatest" -> Now
      [] OTHER -> Becomes(op.name, Now)

Serve(flag) ==
    LET op == ops[flag]
        served == [op EXCEPT !.stale = (op.seen # Len(rows)),
                             !.turned = (op.sends \notin {None, Now})] IN
    /\ op # None /\ op.done = "sent"
    /\ \E ok \in Accepted(op) :
         IF ok THEN /\ Len(rows) < MaxVersions \/ op.name \in Aside
                    /\ rows' = IF op.name \in Aside THEN rows ELSE Append(rows, Result(op))
                    /\ ops' = [ops EXCEPT ![flag] = [served EXCEPT !.done = "accepted",
                                                                   !.made = Len(rows')]]
         ELSE /\ UNCHANGED rows
              /\ ops' = [ops EXCEPT ![flag] = [served EXCEPT !.done = "refused"]]
    /\ UNCHANGED <<page, copy, status, newest, late, values, heard, gone>>

\* A success leaves the page or reloads what it shows; a new password is only shown.
AfterSuccessForgotten(flag) ==
    UNCHANGED <<newest, late, status, gone>> /\ ops' = [ops EXCEPT ![flag] = None]
AfterSuccess(flag) ==
    CASE ops[flag].name \in page.leaving ->
            /\ gone' = TRUE /\ ops' = [ops EXCEPT ![flag] = None]
            /\ UNCHANGED <<newest, late, status>>
      [] ops[flag].name = "reset" ->
            UNCHANGED <<newest, late, status, gone>> /\ ops' = [ops EXCEPT ![flag] = None]
      [] OTHER ->
            Reload(flag) /\ ops' = [ops EXCEPT ![flag].done = "reload"] /\ UNCHANGED gone
Succeed(flag) ==
    /\ ops[flag] # None /\ ops[flag].done = "accepted" /\ ~gone
    /\ AfterSuccess(flag)
    /\ heard' = IF ops[flag].name \in Aside THEN heard ELSE ops[flag].made
    /\ UNCHANGED <<page, rows, copy, values>>

\* The operation was refused, or nobody knows: the page shows an error and stays.  If the
\* server comes to it after that, it is as another user's.
Fail(flag) ==
    /\ ops[flag] # None /\ ops[flag].done # "reload" /\ ~gone
    /\ ops' = [ops EXCEPT ![flag] = None]
    /\ UNCHANGED <<page, rows, copy, status, newest, late, values, heard, gone>>

\* Other users, and this one in another tab.
Change(to) ==
    /\ <<Now, to>> \in page.others /\ Len(rows) < MaxVersions
    /\ rows' = Append(rows, to)
    /\ UNCHANGED <<page, copy, status, newest, late, ops, values, heard, gone>>

-----------------------------------------------------------------------------
Buttons == UNION {page.offers[s] : s \in DOMAIN page.offers}
Outcomes == {move[2] : move \in page.others}

Next ==
    \/ Loaded \/ LoadFailed \/ LoadedLate \/ Retry \/ TouchStaffForm
    \/ \E o \in Buttons : Press(o)
    \/ \E f \in Flags : Serve(f) \/ Succeed(f) \/ Fail(f)
    \/ \E to \in Outcomes : Change(to)

Spec == Init /\ [][Next]_vars

-----------------------------------------------------------------------------
TypeOK ==
    /\ page \in Pages
    /\ rows \in Seq(page.states \cup Outcomes \cup {Becomes(o, s) : o \in Buttons, s \in page.states})
    /\ Len(rows) \in Versions /\ copy \in {0} \cup Versions
    /\ status \in {"loading", "success", "error"}
    /\ newest \in Request \cup {None} /\ late \subseteq Request
    /\ \A f \in Flags : ops[f] # None => ops[f] \in Op
    /\ values \in StaffForm \cup {None}
    /\ heard \in {0} \cup Versions /\ gone \in BOOLEAN

\* The pages that offer what is not accepted: a transaction and, by its address, a
\* revision for an archived customer, the deletion of a place with others in it.
KnownRefusals == {<<"transact", "archived">>, <<"revise", "archived">>, <<"delete", "parent">>}

(* What a page offers on a copy that is still the record is accepted by the server, *)
(* but for these; and a Save gives an account another status only when that was     *)
(* asked for, or the copy or the form is older than the record: it is what it was.  *)
OffersAccepted ==
    \A f \in Flags : ops[f] # None =>
        LET op == ops[f] IN
        /\ op.done = "refused" => op.stale \/ <<op.name, rows[op.seen]>> \in KnownRefusals
        /\ op.turned => op.asked \/ op.stale \/ (op.of # op.seen /\ op.sends = rows[op.of])

(* At rest, when nothing failed, the page shows the record as its own last write    *)
(* left it or newer, in whatever order the reloads of two writes are answered.      *)
OwnWritesShown ==
    ~gone /\ status = "success" /\ (\A f \in Flags : ops[f] = None \/ ops[f].done # "reload")
    => copy >= heard

=============================================================================
