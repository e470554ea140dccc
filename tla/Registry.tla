------------------------------ MODULE Registry ------------------------------
(***************************************************************************)
(* The customer registry of apps/backend/customers: one row per customer,  *)
(* the numbered versions of its profile, and the requests and Django-admin *)
(* forms that write them.  A profile is its phone number and its picture;  *)
(* the names and addresses travel with the phone.  Transactions are as in  *)
(* Ledger: a statement is a step, FOR UPDATE and UPDATE wait for the row,  *)
(* and Commit publishes.                                                   *)
(***************************************************************************)
EXTENDS Integers, Sequences, FiniteSets

CONSTANTS
    Workers, NoWorker,      \* server processes; the owner of a free lock
    Customers,              \* customer primary keys
    Phones, NoPhone,        \* normalised phone numbers; the mark of no row
    Pictures, NoPicture,    \* uploaded pictures; an empty picture field
    Operations,             \* the operations the workers are asked to serve
    MaxVersions             \* bound: versions of one customer

AllOps == {"create", "edit", "archive", "adminAdd", "adminSave"}

ASSUME RegistryConstants ==
    /\ Customers # {}
    /\ NoWorker \notin Workers
    /\ NoPhone \notin Phones
    /\ NoPicture \notin Pictures
    /\ Operations \subseteq AllOps
    /\ MaxVersions \in Nat \ {0}

Image   == Pictures \cup {NoPicture}
Profile == [phone : Phones, picture : Image]
Row     == [phone : Phones \cup {NoPhone}, picture : Image, archived : BOOLEAN]
NoRow   == [phone |-> NoPhone, picture |-> NoPicture, archived |-> FALSE]

\* prev is the place in the history of previous_version, 0 for NULL.
Version == [number : Nat, prev : Nat, current : BOOLEAN, phone : Phones, picture : Image]

\* The operations that end by inserting a CustomerVersion.
Versioned == {"create", "edit"}

VARIABLES
    rows,       \* the customer table; NoRow for a key without a row
    versions,   \* the customer version table, by customer, in insertion order
    custLock,   \* row locks of the customer table
    pc,         \* how far each worker is in its request
    req,        \* the operation, its customer and the submitted profile
    draft,      \* the customer row each worker has written, or has read to write
    added,      \* the version each worker has inserted, as a sequence of at most one
    formSaved   \* history: an admin form was saved after the last version

vars == <<rows, versions, custLock, pc, req, draft, added, formSaved>>

NoRequest == [op |-> "archive", cust |-> CHOOSE c \in Customers : TRUE,
              phone |-> NoPhone, picture |-> NoPicture]

Born(c) == rows[c] # NoRow

Init ==
    /\ rows = [c \in Customers |-> NoRow]
    /\ versions = [c \in Customers |-> <<>>]
    /\ custLock = [c \in Customers |-> NoWorker]
    /\ pc = [w \in Workers |-> "idle"]
    /\ req = [w \in Workers |-> NoRequest]
    /\ draft = [w \in Workers |-> NoRow]
    /\ added = [w \in Workers |-> <<>>]
    /\ formSaved = [c \in Customers |-> FALSE]

Goto(w, place) == pc' = [pc EXCEPT ![w] = place]

\* The end of a transaction: the worker's locks are freed.
Finish(w) ==
    /\ Goto(w, "idle")
    /\ req' = [req EXCEPT ![w] = NoRequest]
    /\ draft' = [draft EXCEPT ![w] = NoRow]
    /\ added' = [added EXCEPT ![w] = <<>>]
    /\ custLock' = [c \in Customers |-> IF custLock[c] = w THEN NoWorker ELSE custLock[c]]

Abort(w) == Finish(w) /\ UNCHANGED <<rows, versions, formSaved>>

-----------------------------------------------------------------------------
(* Receiving a request.                                                    *)

Begin(w, q, read) ==
    /\ pc[w] = "idle"
    /\ q.op \in Operations
    /\ Goto(w, "received")
    /\ req' = [req EXCEPT ![w] = q]
    /\ draft' = [draft EXCEPT ![w] = read]
    /\ UNCHANGED <<rows, versions, custLock, added, formSaved>>

\* The bounds: a key is left for every customer being added, and a version number
\* for every edit being served.
InProgress(ops) == {w \in Workers : pc[w] # "idle" /\ req[w].op \in ops}
KeyLeft ==
    Cardinality({c \in Customers : Born(c)}) + Cardinality(InProgress({"create", "adminAdd"}))
        < Cardinality(Customers)
VersionLeft(c) == Len(versions[c]) + Cardinality(InProgress({"edit"})) < MaxVersions

\* CustomerAdminSerializer.create and the add form of Django's admin site.
ReceiveNew(w) ==
    /\ KeyLeft
    /\ \E op \in {"create", "adminAdd"}, p \in Profile :
          Begin(w, [NoRequest EXCEPT !.op = op, !.phone = p.phone, !.picture = p.picture], NoRow)

\* create_version: get_object finds the customer, archived or not.
ReceiveEdit(w) ==
    \E c \in Customers, p \in Profile :
        /\ Born(c) /\ VersionLeft(c)
        /\ Begin(w, [op |-> "edit", cust |-> c, phone |-> p.phone, picture |-> p.picture], NoRow)

ReceiveArchive(w) ==
    \E c \in Customers : Born(c) /\ Begin(w, [NoRequest EXCEPT !.cust = c], NoRow)

\* The change form of Django's admin site: the whole row is read without a lock.
ReceiveAdminSave(w) ==
    \E c \in Customers, p \in Profile :
        /\ Born(c)
        /\ Begin(w, [op |-> "adminSave", cust |-> c, phone |-> p.phone, picture |-> p.picture],
                 rows[c])

Receive(w) == ReceiveNew(w) \/ ReceiveEdit(w) \/ ReceiveArchive(w) \/ ReceiveAdminSave(w)

-----------------------------------------------------------------------------
(* create_customer_version and archive_customer: SELECT FOR UPDATE re-reads *)
(* the customer.                                                            *)

NoWait(w) == TRUE
CustomerFree(w) == custLock[req[w].cust] = NoWorker

EditableNow(w) == TRUE
Editable(w) == ~rows[req[w].cust].archived

LockCustomer(w) ==
    /\ pc[w] = "received" /\ req[w].op = "edit"
    /\ CustomerFree(w)
    /\ Editable(w)
    /\ custLock' = [custLock EXCEPT ![req[w].cust] = w]
    /\ draft' = [draft EXCEPT ![w] = rows[req[w].cust]]
    /\ Goto(w, "locked")
    /\ UNCHANGED <<rows, versions, req, added, formSaved>>

WriteArchive(w) ==
    LET c == req[w].cust IN
    /\ pc[w] = "received" /\ req[w].op = "archive"
    /\ CustomerFree(w)
    /\ Editable(w)
    /\ custLock' = [custLock EXCEPT ![c] = w]
    /\ draft' = [draft EXCEPT ![w] = [rows[c] EXCEPT !.archived = TRUE]]
    /\ Goto(w, "written")
    /\ UNCHANGED <<rows, versions, req, added, formSaved>>

RefuseArchived(w) ==
    /\ pc[w] = "received" /\ req[w].op \in {"edit", "archive"}
    /\ CustomerFree(w)
    /\ ~Editable(w)
    /\ Abort(w)

-----------------------------------------------------------------------------
(* _validate_phone_unique, a SELECT of the committed rows.                 *)

AnyPhone(w) == TRUE
PhoneValid(w) ==
    \A c \in Customers \ (IF req[w].op = "edit" THEN {req[w].cust} ELSE {}) :
        rows[c].phone = req[w].phone => rows[c].archived

Validating(w) ==
    \/ pc[w] = "received" /\ req[w].op = "create"
    \/ pc[w] = "locked"

ValidatePhone(w) ==
    /\ Validating(w)
    /\ PhoneValid(w)
    /\ Goto(w, "checked")
    /\ UNCHANGED <<rows, versions, custLock, req, draft, added, formSaved>>

RefusePhone(w) ==
    /\ Validating(w)
    /\ ~PhoneValid(w)
    /\ Abort(w)

-----------------------------------------------------------------------------
(* The unique index on customer.phone (external).  An UPDATE first marks    *)
(* the row it replaces, whose number is undecided from then on, and enters  *)
(* its own number in the index afterwards.  The entry of a number waits     *)
(* while another transaction is giving or taking it, and fails when a       *)
(* committed row has it, archived or not.                                   *)

\* The numbers v is giving up or has taken.
Undecided(v) ==
    CASE pc[v] = "marked"  -> {rows[req[v].cust].phone}
      [] pc[v] = "written" -> {rows[req[v].cust].phone, draft[v].phone}
      [] OTHER             -> {}

IndexWaits(w, p, c) == \E v \in Workers \ {w} : req[v].cust # c /\ p \in Undecided(v)

NoIndex(p, c) == FALSE
Taken(p, c) == \E d \in Customers \ {c} : rows[d].phone = p

IndexAdmits(w, p, c)  == ~IndexWaits(w, p, c) /\ ~Taken(p, c)
IndexRefuses(w, p, c) == ~IndexWaits(w, p, c) /\ Taken(p, c)

\* The entry of an UPDATE.
EnterPhone(w) ==
    /\ pc[w] = "marked"
    /\ IndexAdmits(w, req[w].phone, req[w].cust)
    /\ Goto(w, "written")
    /\ UNCHANGED <<rows, versions, custLock, req, draft, added, formSaved>>

\* IntegrityError: no handler knows it, and the request ends as a server error.
EntryRefused(w) ==
    /\ pc[w] = "marked"
    /\ IndexRefuses(w, req[w].phone, req[w].cust)
    /\ Abort(w)

-----------------------------------------------------------------------------
(* create_customer_with_version and the admin site's add form.             *)

Inserting(w) ==
    \/ pc[w] = "checked" /\ req[w].op = "create"
    \/ pc[w] = "received" /\ req[w].op = "adminAdd"

FirstVersion(q) ==
    [number |-> 1, prev |-> 0, current |-> TRUE, phone |-> q.phone, picture |-> q.picture]

FreshKeys ==
    {c \in Customers : ~Born(c) /\ \A v \in Workers : pc[v] = "written" => req[v].cust # c}

InsertCustomer(w) ==
    \E c \in FreshKeys :
        /\ Inserting(w)
        /\ IndexAdmits(w, req[w].phone, c)
        /\ req' = [req EXCEPT ![w].cust = c]
        /\ draft' = [draft EXCEPT ![w] = [phone |-> req[w].phone, picture |-> req[w].picture,
                                          archived |-> FALSE]]
        /\ added' = [added EXCEPT ![w] =
              IF req[w].op = "create" THEN <<FirstVersion(req[w])>> ELSE <<>>]
        /\ custLock' = [custLock EXCEPT ![c] = w]
        /\ Goto(w, "written")
        /\ UNCHANGED <<rows, versions, formSaved>>

InsertRefused(w) ==
    \E c \in FreshKeys :
        /\ Inserting(w)
        /\ IndexRefuses(w, req[w].phone, c)
        /\ Abort(w)

-----------------------------------------------------------------------------
(* create_customer_version, after the phone has been validated.            *)

CurrentOf(c) == {i \in DOMAIN versions[c] : versions[c][i].current}

\* The picture of the next version: the upload, else the current version's, else
\* the row's.
UploadOnly(q, old) == q.picture
PictureOf(q, old) == IF q.picture = NoPicture THEN old ELSE q.picture

NextVersion(w) ==
    LET q == req[w]
        current == CurrentOf(q.cust)
    IN  IF current = {}
        THEN [FirstVersion(q) EXCEPT !.picture = PictureOf(q, draft[w].picture)]
        ELSE LET i == CHOOSE i \in current : TRUE
                 s == versions[q.cust][i]
             IN  [number |-> s.number + 1, prev |-> i, current |-> TRUE,
                  phone |-> q.phone, picture |-> PictureOf(q, s.picture)]

\* _denormalize_customer_from_version, and the full-row save.
KeepingPhone(row, v) ==
    [row EXCEPT !.picture = IF v.picture = NoPicture THEN row.picture ELSE v.picture]
Denormalized(row, v) ==
    [row EXCEPT !.phone = v.phone,
                !.picture = IF v.picture = NoPicture THEN row.picture ELSE v.picture]

WriteVersion(w) ==
    /\ pc[w] = "checked" /\ req[w].op = "edit"
    /\ added' = [added EXCEPT ![w] = <<NextVersion(w)>>]
    /\ draft' = [draft EXCEPT ![w] = Denormalized(draft[w], NextVersion(w))]
    /\ Goto(w, "marked")
    /\ UNCHANGED <<rows, versions, custLock, req, formSaved>>

-----------------------------------------------------------------------------
(* CustomerAdmin.save_model: every column of the row read by the form is   *)
(* written back, with the submitted profile; no version is added.          *)

\* The form's picture: a new upload, the stored picture, or none (the "clear" box).
PicturesOfForm(w) == {PictureOf(req[w], draft[w].picture), NoPicture}

WriteAdminSave(w) ==
    /\ pc[w] = "received" /\ req[w].op = "adminSave"
    /\ CustomerFree(w)
    /\ custLock' = [custLock EXCEPT ![req[w].cust] = w]
    /\ \E image \in PicturesOfForm(w) :
          draft' = [draft EXCEPT ![w].phone = req[w].phone, ![w].picture = image]
    /\ Goto(w, "marked")
    /\ UNCHANGED <<rows, versions, req, added, formSaved>>

-----------------------------------------------------------------------------
BothCurrent(history, new) == history \o new
\* The history with the new version in it, and only that one current.
WithVersion(history, new) ==
    IF new = <<>> THEN history
    ELSE [i \in DOMAIN history |-> [history[i] EXCEPT !.current = FALSE]] \o new

Commit(w) ==
    LET c == req[w].cust IN
    /\ pc[w] = "written"
    /\ rows' = [rows EXCEPT ![c] = draft[w]]
    /\ versions' = [versions EXCEPT ![c] = WithVersion(versions[c], added[w])]
    /\ formSaved' = [formSaved EXCEPT ![c] =
          IF req[w].op \in Versioned THEN FALSE ELSE @ \/ req[w].op # "archive"]
    /\ Finish(w)

\* A rollback, by PostgreSQL to end a deadlock or for any other reason.
Rollback(w) == pc[w] \in {"marked", "written"} /\ Abort(w)

Steps(w) ==
    \/ LockCustomer(w) \/ WriteArchive(w) \/ RefuseArchived(w)
    \/ ValidatePhone(w) \/ RefusePhone(w)
    \/ InsertCustomer(w) \/ InsertRefused(w)
    \/ WriteVersion(w) \/ WriteAdminSave(w)
    \/ EnterPhone(w) \/ EntryRefused(w)
    \/ Commit(w)

Next == \E w \in Workers : Receive(w) \/ Steps(w) \/ Rollback(w)

Spec == Init /\ [][Next]_vars

-----------------------------------------------------------------------------
(* Correctness.                                                            *)

TypeOK ==
    /\ rows \in [Customers -> Row]
    /\ \A c \in Customers : \A i \in DOMAIN versions[c] : versions[c][i] \in Version
    /\ custLock \in [Customers -> Workers \cup {NoWorker}]
    /\ pc \in [Workers -> {"idle", "received", "locked", "checked", "marked", "written"}]
    /\ draft \in [Workers -> Row]
    /\ formSaved \in [Customers -> BOOLEAN]
    /\ \A w \in Workers :
          pc[w] \in {"locked", "marked", "written"} => custLock[req[w].cust] = w

(* The versions of a customer form one numbered line, each made from the one       *)
(* before it, and the last is the current one: the customer lock is taken before   *)
(* the current version is read.                                                    *)
VersionsFormALine ==
    \A c \in Customers : \A i \in DOMAIN versions[c] :
        /\ versions[c][i].number = i
        /\ versions[c][i].prev = i - 1
        /\ versions[c][i].current <=> i = Len(versions[c])

(* The customer row shows the current version (what the lists, the search and the  *)
(* snapshots of other tables read is what the history ends with), until an admin   *)
(* form, which adds no version, is saved; a picture of the history stays shown.    *)
RowShowsCurrent ==
    \A c \in Customers : Born(c) /\ ~formSaved[c] =>
        \E v \in {versions[c][i] : i \in CurrentOf(c)} :
            /\ rows[c].phone = v.phone
            /\ v.picture # NoPicture => rows[c].picture = v.picture

(* Two customers never hold one phone number, although the serializers validate it *)
(* in a SELECT that sees neither each other's work nor archived customers.         *)
PhonesDistinct ==
    \A c, d \in Customers : Born(c) /\ Born(d) /\ c # d => rows[c].phone # rows[d].phone

(* A picture once in the history is in every later version: an edit without an     *)
(* upload carries it over, through any mix of edits, admin forms and archivings.   *)
PictureCarriedOver ==
    \A c \in Customers : \A i, j \in DOMAIN versions[c] :
        i < j /\ versions[c][i].picture # NoPicture => versions[c][j].picture # NoPicture

CustomersConsistent ==
    VersionsFormALine /\ RowShowsCurrent /\ PhonesDistinct /\ PictureCarriedOver

(* No version is added to an archived customer, even when the edit was received    *)
(* before the archiving ("Archived customers cannot be edited").                   *)
ArchivedHistoryFrozen ==
    [][\A c \in Customers : rows[c].archived => versions'[c] = versions[c]]_vars

\* An UPDATE that has marked its row waits for a number that v is to decide.
WaitsFor(w, v) == pc[w] = "marked" /\ v # w /\ req[w].phone \in Undecided(v)

(* Requests that hold a customer and wait for each other's numbers (two saves that  *)
(* exchange them, say) are never edits of the API alone: an edit tests its number   *)
(* with its customer locked, so the last of them would have seen the number at a    *)
(* customer that an earlier one holds and been refused.  With a form of the admin   *)
(* site among them they can be stuck until the database ends one (Rollback).        *)
OnlyFormsDeadlock ==
    \A S \in SUBSET {w \in Workers : pc[w] = "marked"} :
        S # {} /\ (\A w \in S : \E v \in S : WaitsFor(w, v)) =>
            \E w \in S : req[w].op = "adminSave"

=============================================================================
