------------------------------ MODULE ListPage ------------------------------
(***************************************************************************)
(* A searchable list page of apps/frontend-admin (customers, transactions, *)
(* staff users, edit history, addresses, the payments of a halkhata).      *)
(*                                                                         *)
(* The address bar, the search field, its debounced value and the list are *)
(* four copies of one thing, kept together by effects: React runs those of *)
(* a change in order after it, so a change with its effects is one step.   *)
(* A navigation takes time (the router asks the server), and a new one     *)
(* discards the one that is pending.                                       *)
(***************************************************************************)
EXTENDS Integers, Sequences, SequencesExt

CONSTANTS
    Searches,       \* search texts
    NoSearch,       \* the empty one
    Pages,          \* page numbers, standing for the ordering and the filters too
    FirstPage,
    None,           \* no navigation, no list
    MaxTrail        \* bound: history entries behind the page

\* What a list request and a list are about.
Query == [search : Searches, page : Pages]

\* success: the address asks for a message ("?success=created").
Address == [search : Searches, page : Pages, success : BOOLEAN]

\* router.push and router.replace.
Navigation == [to : Address, replaces : BOOLEAN]

ASSUME ListPageConstants ==
    /\ NoSearch \in Searches /\ FirstPage \in Pages
    /\ None \notin Query \cup Navigation
    /\ MaxTrail \in Nat

-----------------------------------------------------------------------------
(* The pages.                                                              *)

\* A list with a page in the address, pagination and a retry button.
HalkhataListPage == [
    searches |-> FALSE,     \* has a search field
    banner |-> FALSE,       \* shows a success message, for a while
    clears |-> "never",     \* has buttons that empty the search
    refreshes |-> FALSE]    \* has a refresh button

EditHistoryPage == [HalkhataListPage EXCEPT !.searches = TRUE]
HalkhataTransactions == EditHistoryPage
TransactionsListPage == [EditHistoryPage EXCEPT !.banner = TRUE]
StaffUsersListPage == TransactionsListPage
CustomersListPage == [TransactionsListPage EXCEPT !.clears = "search"]
\* handleTypeChange and handleClearFilters: a type is another page, with its own list.
BangladeshAddressPage == [EditHistoryPage EXCEPT !.clears = "always", !.refreshes = TRUE]

Kinds == {HalkhataListPage, EditHistoryPage, HalkhataTransactions, TransactionsListPage,
          StaffUsersListPage, CustomersListPage, BangladeshAddressPage}

-----------------------------------------------------------------------------
VARIABLES
    kind,           \* the page
    url,            \* the address: listState
    trail,          \* the history entries behind it
    pending,        \* the navigation the router works on
    input,          \* searchInput
    debounced,      \* debouncedSearch
    armed,          \* the 300 ms timer of useDebouncedValue runs
    dismissed,      \* the success message was shown long enough
    list,           \* useAsyncData: the status, and the list on display
    asked,          \* what its newest request asked for
    late,           \* what a superseded request, not answered yet, asked for
    wanted,         \* history: the search the user last asked for
    crossed,        \* history: how the user last acted on a search that was on its way
                    \* or in the address: "no", "typing", "clearing" or "back"
    forgotten       \* history: a clearing discarded a search on its way to an
                    \* address that had none, and that has not changed since

pageVars == <<url, trail, pending>>
fieldVars == <<input, debounced, armed>>
listVars == <<list, asked, late>>
vars == <<kind, pageVars, fieldVars, dismissed, listVars, wanted, crossed, forgotten>>

Start == [search |-> NoSearch, page |-> FirstPage]

\* buildListUrl: an address without a message.
ListUrl(q) == [search |-> q.search, page |-> q.page, success |-> FALSE]

Init ==
    /\ kind \in Kinds
    /\ url \in {ListUrl(Start), [ListUrl(Start) EXCEPT !.success = TRUE]}
    /\ url.success => kind.banner
    /\ trail = <<>>
    /\ pending = None
    /\ input = NoSearch /\ debounced = NoSearch /\ armed = FALSE
    /\ dismissed = FALSE
    /\ list = [status |-> "loading", data |-> None]
    /\ asked = Start
    /\ late = None
    /\ wanted = NoSearch
    /\ crossed = "no"
    /\ forgotten = FALSE

-----------------------------------------------------------------------------
(* The effects.                                                            *)

PushAsIs(q) == [to |-> q, replaces |-> FALSE]
Push(q)    == [to |-> ListUrl(q), replaces |-> FALSE]
Replace(q) == [to |-> ListUrl(q), replaces |-> TRUE]

\* setSearchInput: a new value restarts the timer.
SetInput(value) ==
    /\ input' = value
    /\ armed' = (armed \/ value # input)

\* useEffect [listState.search]: the field follows the address.
SyncAlways == SetInput(url'.search)
SyncInput ==
    IF url'.search # url.search THEN SetInput(url'.search) ELSE UNCHANGED <<input, armed>>

\* useEffect [debouncedSearch, listState]: the address follows the debounced value;
\* else the navigation is the one given.
PushSearch(next) ==
    pending' = IF debounced' # url'.search
               THEN Push([search |-> debounced', page |-> FirstPage])
               ELSE next

\* effectiveState: the search is the debounced one.
QueryNow == [search |-> debounced', page |-> url'.page]

\* reload of useAsyncData: the list shown stays until the answer.
Reload ==
    /\ asked' = QueryNow
    /\ late' = IF list.status = "loading" THEN asked ELSE late
    /\ list' = [list EXCEPT !.status = "loading"]

\* Its effect [page, search]: a request only when one of them changed.
ReloadIfChanged ==
    IF debounced' # debounced \/ url'.page # url.page THEN Reload
    ELSE UNCHANGED listVars

\* An address has come into force and nothing is pending; the effects run when it
\* is not the same.
ComeTo(address) ==
    /\ url' = address
    /\ UNCHANGED debounced
    /\ SyncInput
    /\ IF url' = url THEN pending' = None ELSE PushSearch(None)
    /\ ReloadIfChanged
    /\ forgotten' = (forgotten /\ url' = url)

-----------------------------------------------------------------------------
(* The user.                                                               *)

Quiet == pending = None /\ ~armed /\ list.status # "loading"

\* A search that has not reached the address.
Underway == debounced # url.search \/ (pending # None /\ pending.to.search # url.search)

Type(text) ==
    /\ kind.searches /\ text # input
    /\ SetInput(text)
    /\ wanted' = text
    /\ crossed' = IF Underway THEN "typing" ELSE IF Quiet THEN "no" ELSE crossed
    /\ UNCHANGED <<pageVars, debounced, kind, dismissed, listVars, forgotten>>

TimerFires ==
    /\ armed
    /\ armed' = FALSE
    /\ debounced' = input
    /\ UNCHANGED <<url, trail, input, kind, dismissed, wanted, crossed, forgotten>>
    /\ IF input = debounced THEN UNCHANGED <<pending, listVars>>
       ELSE PushSearch(pending) /\ ReloadIfChanged

\* handleClearSearch, from the field or from the empty table, or a tab: the field and the
\* address are emptied.
Clear(page) ==
    /\ \/ kind.clears = "search" /\ page = FirstPage /\ (input # NoSearch \/ debounced # NoSearch)
       \/ kind.clears = "always"
    /\ SetInput(NoSearch)
    /\ pending' = Push([search |-> NoSearch, page |-> page])
    /\ wanted' = NoSearch
    /\ crossed' = "clearing"
    /\ forgotten' = (forgotten \/ (pending'.to = url /\ debounced # NoSearch))
    /\ UNCHANGED <<kind, url, trail, debounced, dismissed, listVars>>

\* navigate: another page, ordering or filter for the search in the address.
Turn(page) ==
    /\ page # url.page
    /\ pending' = Push([url EXCEPT !.page = page])
    /\ UNCHANGED <<url, trail, fieldVars, kind, dismissed, listVars, wanted, crossed, forgotten>>

\* The dismissal timer of the success message.
DismissBanner ==
    /\ url.success /\ ~dismissed
    /\ dismissed' = TRUE
    /\ pending' = Replace(url)
    /\ UNCHANGED <<kind, url, trail, fieldVars, listVars, wanted, crossed, forgotten>>

\* The browser's back button: the entry before is at hand, nothing is pending.
Back ==
    /\ trail # <<>>
    /\ ComeTo(Last(trail))
    /\ trail' = Front(trail)
    /\ wanted' = IF url'.search = url.search THEN wanted ELSE url'.search
    /\ crossed' = IF url'.search = url.search THEN crossed ELSE "back"
    /\ UNCHANGED <<kind, dismissed>>

\* The retry button of a failed list, or the refresh button.
Retry ==
    /\ list.status = "error" \/ (kind.refreshes /\ list.status = "success")
    /\ UNCHANGED <<pageVars, fieldVars, kind, dismissed, wanted, crossed, forgotten>>
    /\ Reload

-----------------------------------------------------------------------------
(* The router and the server.                                              *)

\* The bound MaxTrail: older entries are out of the back button's reach.
Remembered(entries) == IF Len(entries) > MaxTrail THEN Tail(entries) ELSE entries

Navigated ==
    /\ pending # None
    /\ ComeTo(pending.to)
    /\ trail' = IF pending.replaces \/ pending.to = url THEN trail
                ELSE Remembered(Append(trail, url))
    /\ UNCHANGED <<kind, dismissed, wanted, crossed>>

Answered ==
    /\ list.status = "loading"
    /\ list' = [status |-> "success", data |-> asked]
    /\ UNCHANGED <<pageVars, fieldVars, kind, dismissed, asked, late, wanted, crossed, forgotten>>

Failed ==
    /\ list.status = "loading"
    /\ list' = [list EXCEPT !.status = "error"]
    /\ UNCHANGED <<pageVars, fieldVars, kind, dismissed, asked, late, wanted, crossed, forgotten>>

ShowLate == list' = [status |-> "success", data |-> late]
\* requestId differs from the newest: the answer is dropped.
DropLate == UNCHANGED list

AnsweredLate ==
    /\ late # None
    /\ late' = None
    /\ DropLate
    /\ UNCHANGED <<pageVars, fieldVars, kind, dismissed, asked, wanted, crossed, forgotten>>

-----------------------------------------------------------------------------
User == (\E s \in Searches : Type(s)) \/ (\E p \in Pages : Turn(p) \/ Clear(p)) \/ Back \/ Retry

System == TimerFires \/ DismissBanner \/ Navigated \/ Answered \/ Failed \/ AnsweredLate

Next == User \/ System

Spec == Init /\ [][Next]_vars

-----------------------------------------------------------------------------
(* Correctness.                                                            *)

TypeOK ==
    /\ kind \in Kinds
    /\ url \in Address
    /\ trail \in Seq(Address)
    /\ pending \in {None} \cup Navigation
    /\ input \in Searches /\ debounced \in Searches /\ wanted \in Searches
    /\ armed \in BOOLEAN /\ dismissed \in BOOLEAN /\ forgotten \in BOOLEAN
    /\ crossed \in {"no", "typing", "clearing", "back"}
    /\ list \in [status : {"loading", "success", "error"}, data : {None} \cup Query]
    /\ asked \in Query /\ late \in {None} \cup Query

(* Once the page rests, the list shown is the one for the text in the field and the *)
(* page in the address, in whatever order the answers came; and the address has     *)
(* that text, whatever navigations were discarded on the way, but for a clearing    *)
(* that discarded the text's own and was followed by the same text.  A search typed *)
(* at a resting page, with pages turned and messages dismissed meanwhile, ends up   *)
(* in the address and in the list.                                                  *)
RestingPageAgrees ==
    Quiet => /\ input = debounced
             /\ list.status = "success" => list.data = [search |-> input, page |-> url.page]
             /\ ~forgotten => url.search = input
TypingReachesTheAddress ==
    Quiet /\ crossed = "no" => url.search = wanted
ListFollowsTheUser == RestingPageAgrees /\ TypingReachesTheAddress

=============================================================================
