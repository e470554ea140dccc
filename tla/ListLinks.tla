------------------------------- MODULE ListLinks -------------------------------
(***************************************************************************)
(* The ways from a list of apps/frontend-admin to the pages of its records *)
(* and back.  A link to a record takes the list's page, search and filters *)
(* along, as a query inside the query "from", and the back link of the     *)
(* record's page makes an address of the list out of it again.             *)
(***************************************************************************)
EXTENDS Integers

CONSTANTS
    MaxPage,        \* pages are 1..MaxPage; they stand for ordering and filters too
    MaxSearch,      \* searches are 0..MaxSearch; 0 is the empty one
    None            \* an address without "from"

Damaged == MaxSearch + 1        \* a search with "/edit" at its end
ListState == [tab : 1..2, page : 1..MaxPage, search : 0..Damaged]
Start == [tab |-> 1, page |-> 1, search |-> 0]

-----------------------------------------------------------------------------
(* The lists.                                                              *)

TransactionLinks == [
    carries |-> "state",    \* what a row's link has of the list
    tabs |-> FALSE,         \* its type is always in the address
    rowEdits |-> FALSE,     \* a row has an Edit link
    edits |-> FALSE,        \* a record's page has one
    passes |-> TRUE,        \* which takes "from" along
    versions |-> TRUE]      \* it has links to the versions before and after
StaffLinks == [TransactionLinks EXCEPT !.versions = FALSE]
CustomerLinks == [StaffLinks EXCEPT !.rowEdits = TRUE, !.edits = TRUE]
GeoLinks == [CustomerLinks EXCEPT !.tabs = TRUE, !.passes = FALSE]
HalkhataLinks == [StaffLinks EXCEPT !.carries = "nothing"]
\* from=edit-history: the way back is to the list as it is at first.
EditHistoryLinks == [StaffLinks EXCEPT !.carries = "list"]

Lists == {TransactionLinks, StaffLinks, CustomerLinks, GeoLinks, HalkhataLinks, EditHistoryLinks}

VARIABLES
    list,           \* the list
    place,          \* "list", "record" or "edit"
    state,          \* the list's own: as it is, or was when the user left it
    from,           \* of a record's address
    label,          \* history: what the last link was for
    astray          \* history: since the list an Edit link, or one to another version,
                    \* was followed

vars == <<list, place, state, from, label, astray>>

\* A query: the state it was made of, and whether its last value has "/edit" at the end.
Query == [of : ListState, broken : BOOLEAN]

Init ==
    /\ list \in Lists
    /\ place = "list" /\ state = Start
    /\ from = None /\ label = "list" /\ astray = FALSE

-----------------------------------------------------------------------------
(* The addresses.                                                          *)

\* buildListUrl has what differs from the beginning, and a type always.
ListQuery(s) == IF s = Start /\ ~list.tabs THEN None ELSE [of |-> s, broken |-> FALSE]

\* parseListState: "2/edit" is no number and "villages/edit" no type.  Which value is the
\* last depends on what page stands for.
Parsed(query) ==
    IF query = None THEN {Start}
    ELSE IF ~query.broken THEN {query.of}
    ELSE LET s == query.of IN
         (IF s.search # 0 THEN {[s EXCEPT !.search = Damaged]} ELSE {})
         \cup (IF s.page # 1 THEN {[s EXCEPT !.page = 1]} ELSE {})
         \cup (IF s.page = 1 /\ s.search = 0 THEN {[s EXCEPT !.tab = 1]} ELSE {})

\* buildDetailUrl.
RecordUrl(s) == IF list.carries = "state" THEN ListQuery(s) ELSE None

Show(where, query, name) ==
    /\ place' = where /\ from' = query /\ label' = name
    /\ UNCHANGED list

\* buildEditUrl: "/edit" is put at the end of the record's address, "from" included.
EditUrl(query) ==
    IF query = None THEN Show("edit", None, "edit")
    ELSE Show("record", [query EXCEPT !.broken = TRUE], "edit")

-----------------------------------------------------------------------------
(* The links.                                                              *)

\* The list's own navigation: ListPage.
Browse ==
    /\ place = "list"
    /\ state' \in [tab : IF list.tabs THEN 1..2 ELSE {1}, page : 1..MaxPage, search : 0..MaxSearch]
    /\ state' # state
    /\ UNCHANGED <<list, place, from, label, astray>>

Row ==
    /\ place = "list"
    /\ Show("record", RecordUrl(state), "record")
    /\ astray' = FALSE /\ UNCHANGED state

RowEdit ==
    /\ place = "list" /\ list.rowEdits
    /\ EditUrl(RecordUrl(state))
    /\ astray' = TRUE /\ UNCHANGED state

RecordEdit ==
    /\ place = "record" /\ list.edits
    /\ IF list.passes THEN \E s \in Parsed(from) : EditUrl(ListQuery(s)) ELSE EditUrl(None)
    /\ astray' = TRUE /\ UNCHANGED state

\* Saved, cancelled, or the edit page's own link back.
EditDone ==
    /\ place = "edit"
    /\ Show("record", None, "record")
    /\ UNCHANGED <<state, astray>>

OtherVersion ==
    /\ place = "record" /\ list.versions
    /\ Show("record", None, "record")
    /\ astray' = TRUE /\ UNCHANGED state

\* The back link, and a deletion of the record.
BackNowhere == {Start}
Back == Parsed(from)
BackToList ==
    /\ place = "record"
    /\ state' \in Back
    /\ Show("list", None, "list")
    /\ UNCHANGED astray

Next == Browse \/ Row \/ RowEdit \/ RecordEdit \/ EditDone \/ OtherVersion \/ BackToList

Spec == Init /\ [][Next]_vars

-----------------------------------------------------------------------------
TypeOK ==
    /\ list \in Lists /\ place \in {"list", "record", "edit"}
    /\ state \in ListState
    /\ from \in {None} \cup Query
    /\ label \in {"list", "record", "edit"} /\ astray \in BOOLEAN

(* The way back from a record is to the list as the user left it, for the lists     *)
(* whose links carry their state, unless he followed an Edit link or one to another *)
(* version: those lose it or damage it.                                             *)
BackToTheListLeft ==
    [][BackToList => state' = state \/ astray \/ list.carries # "state"]_vars

(* The label of the link is 'Edit', and "row actions are core admin workflows"      *)
(* (docs/ui-ux-qa-report.md): an Edit link leads to the edit page.                  *)
EditLinksEdit == label = "edit" => place = "edit"

=============================================================================
