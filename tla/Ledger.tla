------------------------------- MODULE Ledger -------------------------------
(***************************************************************************)
(* The versioned transaction ledger of apps/backend: the append-only       *)
(* chains of transaction versions, the balance cached on every customer    *)
(* row, and the requests that write them.                                  *)
(*                                                                         *)
(* A worker is one server process (or the management command, or Django's  *)
(* own admin site) serving one request.  It talks to PostgreSQL at the     *)
(* default READ COMMITTED level: every statement is a step that sees the   *)
(* committed rows and the worker's own writes, SELECT ... FOR UPDATE and   *)
(* UPDATE wait for the row lock, and Commit publishes the writes and frees *)
(* the locks.  The committed tables are tx, archived, cached, hkStatus;    *)
(* everything indexed by a worker is private to its request.               *)
(***************************************************************************)
EXTENDS Integers, FiniteSets, Functions

CONSTANTS
    Workers,        \* server processes
    Customers,      \* customer primary keys
    Halkhatas,      \* halkhata (new-year ledger event) primary keys
    NoHalkhata,     \* the NULL foreign key of an ordinary transaction
    NoWorker,       \* the owner of a lock nobody holds
    Amounts,        \* amounts in paisa a request may carry
    MaxTx,          \* bound: primary keys the transaction sequence hands out
    Operations      \* the operations the workers are asked to serve

LedgerOps   == {"create", "pay", "correct", "void"}
BalanceOps  == LedgerOps \cup {"rebuild"}
CustomerOps == {"archive", "edit", "adminSave"}
AllOps      == BalanceOps \cup CustomerOps \cup {"halkhata"}

ASSUME LedgerConstants ==
    /\ NoHalkhata \notin Halkhatas
    /\ NoWorker \notin Workers
    /\ Amounts \subseteq Nat
    /\ MaxTx \in Nat \ {0}
    /\ Operations \subseteq AllOps
    /\ Customers # {}

TxId     == 1..MaxTx
Types    == {"INITIAL", "SALE", "PAYMENT"}
Statuses == {"ABSENT", "ACTIVE", "SUPERSEDED", "VOIDED"}
Links    == Halkhatas \cup {NoHalkhata}

\* A row of the transaction table; "ABSENT" stands for a key without a row, and
\* prev = 0 for a NULL previous_version.
Row == [customer : Customers, type : Types, amount : Nat, status : Statuses,
        current : BOOLEAN, version : Nat, root : TxId, prev : 0..MaxTx,
        halkhata : Links]

VARIABLES
    tx,         \* committed transaction rows
    nextId,     \* the primary key sequence (not rolled back)
    archived,   \* customer.is_archived
    cached,     \* customer.cached_balance
    hkStatus,   \* halkhata.status
    txLock, custLock, hkLock,   \* row locks: the worker holding each
    pc,         \* how far each worker is in its request
    req,        \* the request it serves
    seen,       \* what it read before, or outside, any lock
    wrote,      \* transaction rows it wrote and has not committed
    sum,        \* the balance it computed
    dirty,      \* history: a commit on its customer came after its read
    drift       \* history: the cached balance was last written from such a read

tables  == <<tx, archived, cached, hkStatus>>
locks   == <<txLock, custLock, hkLock>>
history == <<dirty, drift>>
vars    == <<tables, nextId, locks, pc, req, seen, wrote, sum, history>>

-----------------------------------------------------------------------------
(* Rows, chains and balances.                                              *)

Exists(r) == r.status # "ABSENT"

\* A row counts when it is the current version of a chain nobody voided.
CountsNow(r) == r.current /\ r.status = "ACTIVE"

\* _ensure_correctable: only the current active version may be replaced.
CorrectableIfNotVoided(r) == r.status # "VOIDED"
Correctable(r) == r.current /\ r.status = "ACTIVE"

Signed(r) == IF r.type = "PAYMENT" THEN -r.amount ELSE r.amount

\* The amounts a customer's balance is made of, in the table v.
LiveAmounts(v, c) ==
    [i \in {j \in TxId : v[j].customer = c /\ CountsNow(v[j])} |-> Signed(v[i])]

\* calculate_customer_balance: initial + sales - payments.
Balance(v, c) == SumFunction(LiveAmounts(v, c))

Chain(v, r) == {i \in TxId : Exists(v[i]) /\ v[i].root = r}

\* get_chain_latest_version: order by -version_number, -id, first.
LatestById(v, r) ==
    CHOOSE i \in Chain(v, r) : \A j \in Chain(v, r) : i <= j
Latest(v, r) ==
    CHOOSE i \in Chain(v, r) :
        \A j \in Chain(v, r) \ {i} :
            \/ v[j].version < v[i].version
            \/ v[j].version = v[i].version /\ j < i

\* An amount a request of each type gets past validation: a sale total is a sum
\* of lines whose unit price may be zero, the others must be positive.
AmountsOf(type) == IF type = "SALE" THEN Amounts ELSE Amounts \ {0}

NoRow(c) == [customer |-> c, type |-> "INITIAL", amount |-> 0,
             status |-> "ABSENT", current |-> FALSE, version |-> 0, root |-> 1,
             prev |-> 0, halkhata |-> NoHalkhata]

-----------------------------------------------------------------------------
(* Requests.                                                               *)

Request == [op : AllOps, cust : Customers, target : 0..MaxTx, hk : Links,
            type : Types, amount : Nat, status : {"active", "closed"}]

SomeCustomer == CHOOSE c \in Customers : TRUE

NoRequest == [op |-> "create", cust |-> SomeCustomer, target |-> 0,
              hk |-> NoHalkhata, type |-> "INITIAL", amount |-> 0,
              status |-> "active"]

\* What a request knows of a customer's row and of a halkhata's status.
Reads(isArchived, balance, status) ==
    [archived |-> isArchived, cached |-> balance, hk |-> status]

NothingSeen == Reads(FALSE, 0, "active")

NoWrites == [i \in {} |-> NoRow(SomeCustomer)]

\* The transaction table as w's own transaction sees it.
View(w) == [i \in TxId |-> IF i \in DOMAIN wrote[w] THEN wrote[w][i] ELSE tx[i]]

FirstVersionWithoutRoot(q, id) ==
    [customer |-> q.cust, type |-> q.type, amount |-> q.amount,
     status |-> "ACTIVE", current |-> TRUE, version |-> 1, root |-> 0,
     prev |-> 0, halkhata |-> q.hk]
\* The row create_transaction inserts, _finalize_root_transaction included.
FirstVersion(q, id) ==
    [customer |-> q.cust, type |-> q.type, amount |-> q.amount,
     status |-> "ACTIVE", current |-> TRUE, version |-> 1, root |-> id,
     prev |-> 0, halkhata |-> q.hk]

NextVersionUnlinked(q, s) ==
    [s EXCEPT !.type = q.type, !.amount = q.amount, !.halkhata = NoHalkhata,
              !.version = s.version + 1, !.prev = q.target]
\* The row create_transaction_correction inserts after its source s.
NextVersion(q, s) ==
    [s EXCEPT !.type = q.type, !.amount = q.amount, !.status = "ACTIVE",
              !.current = TRUE, !.version = s.version + 1, !.prev = q.target]

\* What the correction leaves of its source.
SupersededStillCurrent(s) == [s EXCEPT !.status = "SUPERSEDED"]
Superseded(s) == [s EXCEPT !.status = "SUPERSEDED", !.current = FALSE]

\* What voiding leaves of the current version.
VoidedAmountCleared(s) ==
    [s EXCEPT !.status = "VOIDED", !.current = FALSE, !.amount = 0]
Voided(s) == [s EXCEPT !.status = "VOIDED", !.current = FALSE]

Init ==
    /\ tx = [i \in TxId |-> NoRow(SomeCustomer)]
    /\ nextId = 1
    /\ archived = [c \in Customers |-> FALSE]
    /\ cached = [c \in Customers |-> 0]
    /\ hkStatus = [h \in Halkhatas |-> "active"]
    /\ txLock = [i \in TxId |-> NoWorker]
    /\ custLock = [c \in Customers |-> NoWorker]
    /\ hkLock = [h \in Halkhatas |-> NoWorker]
    /\ pc = [w \in Workers |-> "idle"]
    /\ req = [w \in Workers |-> NoRequest]
    /\ seen = [w \in Workers |-> NothingSeen]
    /\ wrote = [w \in Workers |-> NoWrites]
    /\ sum = [w \in Workers |-> 0]
    /\ dirty = [w \in Workers |-> FALSE]
    /\ drift = [c \in Customers |-> FALSE]

-----------------------------------------------------------------------------
(* Steps every request shares.                                             *)

Begin(w, q, s) ==
    /\ pc[w] = "idle"
    /\ q.op \in Operations
    /\ pc' = [pc EXCEPT ![w] = "received"]
    /\ req' = [req EXCEPT ![w] = q]
    /\ seen' = [seen EXCEPT ![w] = s]
    /\ UNCHANGED <<tables, nextId, locks, wrote, sum, history>>

\* The bound MaxTx: no more requests are received than there are keys to hand out.
KeyLeft ==
    nextId + Cardinality({w \in Workers :
        /\ pc[w] = "received"
        /\ req[w].op \in {"create", "pay", "correct"}}) <= MaxTx

WithoutLocksOf(w, lock) ==
    [k \in DOMAIN lock |-> IF lock[k] = w THEN NoWorker ELSE lock[k]]

\* The end of a request, answered or rolled back: its locks are freed and its
\* private state forgotten.
Finish(w) ==
    /\ pc' = [pc EXCEPT ![w] = "idle"]
    /\ req' = [req EXCEPT ![w] = NoRequest]
    /\ seen' = [seen EXCEPT ![w] = NothingSeen]
    /\ wrote' = [wrote EXCEPT ![w] = NoWrites]
    /\ sum' = [sum EXCEPT ![w] = 0]
    /\ txLock' = WithoutLocksOf(w, txLock)
    /\ custLock' = WithoutLocksOf(w, custLock)
    /\ hkLock' = WithoutLocksOf(w, hkLock)

\* An error answer before anything was committed.
Refuse(w) ==
    /\ Finish(w)
    /\ dirty' = [dirty EXCEPT ![w] = FALSE]
    /\ UNCHANGED <<tables, nextId, drift>>

\* Every other request on customer c now holds reads older than c's last commit.
DirtyOthers(w, c) ==
    dirty' = [v \in Workers |->
                IF v = w THEN FALSE
                ELSE dirty[v] \/ (pc[v] # "idle" /\ req[v].cust = c)]

-----------------------------------------------------------------------------
(* Receiving a request: the reads of the view and of the serializer, made  *)
(* before the service opens its database transaction.                      *)

ReceiveCreate(w) ==
    \E c \in Customers, type \in Types : \E a \in AmountsOf(type) :
        /\ KeyLeft
        /\ ~archived[c]                      \* validate_customerId
        /\ Begin(w, [NoRequest EXCEPT !.op = "create", !.cust = c,
                                      !.type = type, !.amount = a],
                 NothingSeen)

\* create_payment: get_object reads the halkhata, the serializer the customer.
ReceivePayment(w) ==
    \E h \in Halkhatas, c \in Customers : \E a \in AmountsOf("PAYMENT") :
        /\ KeyLeft
        /\ ~archived[c]
        /\ Begin(w, [NoRequest EXCEPT !.op = "pay", !.cust = c, !.hk = h,
                                      !.type = "PAYMENT", !.amount = a],
                 Reads(FALSE, 0, hkStatus[h]))

\* create_correction and void: get_object finds the row, whatever its status.
ReceiveCorrection(w) ==
    \E i \in TxId, type \in Types : \E a \in AmountsOf(type) :
        /\ KeyLeft
        /\ Exists(tx[i])
        /\ Begin(w, [NoRequest EXCEPT !.op = "correct", !.cust = tx[i].customer,
                                      !.target = i, !.type = type, !.amount = a],
                 NothingSeen)

ReceiveVoid(w) ==
    \E i \in TxId :
        /\ Exists(tx[i])
        /\ Begin(w, [NoRequest EXCEPT !.op = "void", !.cust = tx[i].customer,
                                      !.target = i],
                 NothingSeen)

\* The customer views and Django's admin site load the row without a lock.
ReceiveOnCustomer(w) ==
    \E c \in Customers, op \in CustomerOps :
        Begin(w, [NoRequest EXCEPT !.op = op, !.cust = c],
              Reads(archived[c], cached[c], "active"))

\* One round of the loop of the recalculate_customer_balances command.
ReceiveRebuild(w) ==
    \E c \in Customers :
        Begin(w, [NoRequest EXCEPT !.op = "rebuild", !.cust = c], NothingSeen)

ReceiveHalkhataUpdate(w) ==
    \E h \in Halkhatas, st \in {"active", "closed"} :
        Begin(w, [NoRequest EXCEPT !.op = "halkhata", !.hk = h, !.status = st],
              NothingSeen)

Receive(w) ==
    \/ ReceiveCreate(w)
    \/ ReceivePayment(w)
    \/ ReceiveCorrection(w)
    \/ ReceiveVoid(w)
    \/ ReceiveOnCustomer(w)
    \/ ReceiveRebuild(w)
    \/ ReceiveHalkhataUpdate(w)

-----------------------------------------------------------------------------
(* create_transaction: the customer is re-read, the halkhata is not.       *)

Accepts(w) ==
    /\ ~archived[req[w].cust]                        \* _ensure_customer_can_transact
    /\ req[w].op = "pay" => seen[w].hk = "active"    \* ensure_halkhata_accepts_payments

Insert(w) ==
    /\ pc[w] = "received"
    /\ req[w].op \in {"create", "pay"}
    /\ Accepts(w)
    /\ nextId <= MaxTx
    /\ wrote' = [wrote EXCEPT ![w] = [i \in {nextId} |-> FirstVersion(req[w], i)]]
    /\ nextId' = nextId + 1
    /\ pc' = [pc EXCEPT ![w] = "written"]
    /\ UNCHANGED <<tables, locks, req, seen, sum, history>>

RefuseInsert(w) ==
    /\ pc[w] = "received"
    /\ req[w].op \in {"create", "pay"}
    /\ ~Accepts(w)
    /\ Refuse(w)

-----------------------------------------------------------------------------
(* create_transaction_correction and void_transaction: SELECT FOR UPDATE   *)
(* on the source waits for its lock and re-reads it.                       *)

SourceFree(w) ==
    /\ pc[w] = "received"
    /\ req[w].op \in {"correct", "void"}
    /\ txLock[req[w].target] = NoWorker

\* create_transaction_correction: the source is superseded, its successor added.
Correct(w) ==
    LET i == req[w].target IN
    /\ SourceFree(w)
    /\ req[w].op = "correct"
    /\ Correctable(tx[i])
    /\ nextId <= MaxTx
    /\ txLock' = [txLock EXCEPT ![i] = w]
    /\ wrote' = [wrote EXCEPT ![w] =
          [j \in {i, nextId} |-> IF j = i THEN Superseded(tx[i])
                                ELSE NextVersion(req[w], tx[i])]]
    /\ nextId' = nextId + 1
    /\ pc' = [pc EXCEPT ![w] = "written"]
    /\ UNCHANGED <<tables, custLock, hkLock, req, seen, sum, history>>

\* void_transaction.
Void(w) ==
    LET i == req[w].target IN
    /\ SourceFree(w)
    /\ req[w].op = "void"
    /\ Correctable(tx[i])
    /\ txLock' = [txLock EXCEPT ![i] = w]
    /\ wrote' = [wrote EXCEPT ![w] = [j \in {i} |-> Voided(tx[i])]]
    /\ pc' = [pc EXCEPT ![w] = "written"]
    /\ UNCHANGED <<tables, nextId, custLock, hkLock, req, seen, sum, history>>

RetrySource(w) ==
    SourceFree(w) /\ ~Correctable(tx[req[w].target]) /\ UNCHANGED vars
RefuseSource(w) ==
    /\ SourceFree(w)
    /\ ~Correctable(tx[req[w].target])
    /\ Refuse(w)

-----------------------------------------------------------------------------
(* sync_customer_cached_balance: one SELECT SUM, then one UPDATE.          *)

SumBeforeOwnWrites(w) == Balance(tx, req[w].cust)
SumSeenBy(w) == Balance(View(w), req[w].cust)

SumLedger(w) ==
    /\ \/ pc[w] = "written"
       \/ pc[w] = "received" /\ req[w].op = "rebuild"
    /\ sum' = [sum EXCEPT ![w] = SumSeenBy(w)]
    /\ dirty' = [dirty EXCEPT ![w] = FALSE]
    /\ pc' = [pc EXCEPT ![w] = "summed"]
    /\ UNCHANGED <<tables, nextId, locks, req, seen, wrote, drift>>

UpdateBalance(w) ==
    /\ pc[w] = "summed"
    /\ custLock[req[w].cust] = NoWorker
    /\ custLock' = [custLock EXCEPT ![req[w].cust] = w]
    /\ pc' = [pc EXCEPT ![w] = "ready"]
    /\ UNCHANGED <<tables, nextId, txLock, hkLock, req, seen, wrote, sum, history>>

\* The foreign keys are deferred: COMMIT takes the halkhata's key-share lock,
\* which waits for an update_halkhata in progress.
CommitBalance(w) ==
    /\ pc[w] = "ready"
    /\ req[w].op \in BalanceOps
    /\ \A i \in DOMAIN wrote[w] :
          LET h == wrote[w][i].halkhata
          IN  h # NoHalkhata /\ ~Exists(tx[i]) => hkLock[h] = NoWorker
    /\ tx' = View(w)
    /\ cached' = [cached EXCEPT ![req[w].cust] = sum[w]]
    /\ drift' = [drift EXCEPT ![req[w].cust] = dirty[w]]
    /\ DirtyOthers(w, req[w].cust)
    /\ Finish(w)
    /\ UNCHANGED <<nextId, archived, hkStatus>>

-----------------------------------------------------------------------------
(* The customer row: archive_customer, the full-row save of                *)
(* create_customer_version, and the full-row save of Django's admin site.  *)

CustomerFree(w) ==
    /\ pc[w] = "received"
    /\ req[w].op \in CustomerOps
    /\ custLock[req[w].cust] = NoWorker

RowFromView(w) == seen[w]
RowUnderLock(w) == Reads(archived[req[w].cust], cached[req[w].cust], seen[w].hk)

\* Archiving and editing read the row under the lock and refuse an archived one.
LockCustomer(w) ==
    /\ CustomerFree(w)
    /\ req[w].op # "adminSave" => ~RowUnderLock(w).archived
    /\ custLock' = [custLock EXCEPT ![req[w].cust] = w]
    /\ seen' = [seen EXCEPT ![w] = IF req[w].op = "adminSave" THEN @ ELSE RowUnderLock(w)]
    /\ pc' = [pc EXCEPT ![w] = "ready"]
    /\ UNCHANGED <<tables, nextId, txLock, hkLock, req, wrote, sum, history>>

RefuseCustomer(w) ==
    /\ CustomerFree(w)
    /\ req[w].op # "adminSave"
    /\ RowUnderLock(w).archived
    /\ Refuse(w)

CommitArchive(w) ==
    /\ pc[w] = "ready"
    /\ req[w].op = "archive"
    /\ archived' = [archived EXCEPT ![req[w].cust] = TRUE]
    /\ dirty' = [dirty EXCEPT ![w] = FALSE]
    /\ Finish(w)
    /\ UNCHANGED <<tx, nextId, cached, hkStatus, drift>>

\* customer.save() writes every column back, the cached balance among them.
CommitCustomer(w) ==
    /\ pc[w] = "ready"
    /\ req[w].op \in {"edit", "adminSave"}
    /\ archived' = [archived EXCEPT ![req[w].cust] = seen[w].archived]
    /\ cached' = [cached EXCEPT ![req[w].cust] = seen[w].cached]
    /\ drift' = [drift EXCEPT ![req[w].cust] =
                   @ \/ (req[w].op = "adminSave" /\ dirty[w])]
    /\ DirtyOthers(w, req[w].cust)
    /\ Finish(w)
    /\ UNCHANGED <<tx, nextId, hkStatus>>

-----------------------------------------------------------------------------
(* update_halkhata: closing and reopening.                                 *)

LockHalkhata(w) ==
    /\ pc[w] = "received"
    /\ req[w].op = "halkhata"
    /\ hkLock[req[w].hk] = NoWorker
    /\ hkLock' = [hkLock EXCEPT ![req[w].hk] = w]
    /\ pc' = [pc EXCEPT ![w] = "ready"]
    /\ UNCHANGED <<tables, nextId, txLock, custLock, req, seen, wrote, sum, history>>

CommitHalkhata(w) ==
    /\ pc[w] = "ready"
    /\ req[w].op = "halkhata"
    /\ hkStatus' = [hkStatus EXCEPT ![req[w].hk] = req[w].status]
    /\ dirty' = [dirty EXCEPT ![w] = FALSE]
    /\ Finish(w)
    /\ UNCHANGED <<tx, nextId, archived, cached, drift>>

-----------------------------------------------------------------------------
\* A statement fails, the client disconnects or the process dies: PostgreSQL
\* rolls the transaction back.
Abort(w) ==
    /\ pc[w] # "idle"
    /\ Refuse(w)

\* The steps by which a received request moves on; some wait for a row lock.
Proceed(w) ==
    \/ Insert(w) \/ RefuseInsert(w)
    \/ Correct(w) \/ Void(w) \/ RefuseSource(w)
    \/ SumLedger(w) \/ UpdateBalance(w) \/ CommitBalance(w)
    \/ LockCustomer(w) \/ RefuseCustomer(w) \/ CommitArchive(w) \/ CommitCustomer(w)
    \/ LockHalkhata(w) \/ CommitHalkhata(w)

Next == \E w \in Workers : Receive(w) \/ Proceed(w) \/ Abort(w)

Spec == Init /\ [][Next]_vars

\* A server process runs its request to the end, and PostgreSQL queues the
\* waiters of a row lock, so that none of them is overtaken for ever.
FairSpec == Spec /\ \A w \in Workers : SF_vars(Proceed(w))

-----------------------------------------------------------------------------
(* Correctness.                                                            *)

\* Balances are only required to be recorded per customer: that they are the
\* right numbers is DriftOnlyByOverlap.
TablesTyped ==
    /\ tx \in [TxId -> Row]
    /\ nextId \in 1..(MaxTx + 1)
    /\ archived \in [Customers -> BOOLEAN]
    /\ cached = [c \in Customers |-> cached[c]]
    /\ hkStatus \in [Halkhatas -> {"active", "closed"}]
    /\ drift \in [Customers -> BOOLEAN]

LocksTyped ==
    /\ txLock \in [TxId -> Workers \cup {NoWorker}]
    /\ custLock \in [Customers -> Workers \cup {NoWorker}]
    /\ hkLock \in [Halkhatas -> Workers \cup {NoWorker}]

ReadsTyped ==
    /\ seen = [w \in Workers |-> Reads(seen[w].archived, seen[w].cached, seen[w].hk)]
    /\ \A w \in Workers : /\ seen[w].archived \in BOOLEAN
                          /\ seen[w].hk \in {"active", "closed"}
    /\ sum = [w \in Workers |-> sum[w]]
    /\ dirty \in [Workers -> BOOLEAN]

WritesTyped ==
    /\ wrote = [w \in Workers |-> [i \in DOMAIN wrote[w] |-> wrote[w][i]]]
    /\ \A w \in Workers : /\ DOMAIN wrote[w] \subseteq TxId
                          /\ \A i \in DOMAIN wrote[w] : wrote[w][i] \in Row

RequestsTyped ==
    /\ pc \in [Workers -> {"idle", "received", "written", "summed", "ready"}]
    /\ req \in [Workers -> Request]
    /\ \A w \in Workers :
          /\ req[w].op \in {"correct", "void"} => req[w].target \in TxId
          /\ req[w].op = "halkhata" => req[w].hk \in Halkhatas

TypeOK == TablesTyped /\ LocksTyped /\ ReadsTyped /\ WritesTyped /\ RequestsTyped

\* What replaces a row: the versions whose previous_version it is.
Successors(i) == {j \in TxId : Exists(tx[j]) /\ tx[j].prev = i}

(* The versions of a transaction form one line: a row is replaced at most once, *)
(* by a version numbered one higher of the same chain, customer and halkhata;   *)
(* it is SUPERSEDED exactly when it was replaced, and current exactly when it   *)
(* is ACTIVE.  Two corrections, or a correction and a void, racing for the same *)
(* row must not both win (services.py: select_for_update, _ensure_correctable). *)
ChainIsALine ==
    \A i \in TxId : Exists(tx[i]) =>
        /\ tx[i].current <=> tx[i].status = "ACTIVE"
        /\ tx[i].status = "SUPERSEDED" <=> Successors(i) # {}
        /\ \A j, k \in Successors(i) : j = k
        /\ \A j \in Successors(i) :
              /\ tx[j].version = tx[i].version + 1
              /\ tx[j].root = tx[i].root
              /\ tx[j].customer = tx[i].customer
              /\ tx[j].halkhata = tx[i].halkhata
        /\ IF tx[i].version = 1 THEN tx[i].root = i /\ tx[i].prev = 0
                                ELSE tx[i].prev \in TxId /\ Exists(tx[tx[i].prev])

(* uniq_current_transaction_per_root never rejects a commit: no reachable state *)
(* has two current rows in a chain, so a chain is never counted twice.          *)
OneCurrentPerRoot ==
    \A i, j \in TxId :
        tx[i].current /\ tx[j].current /\ tx[i].root = tx[j].root => i = j

(* resolve_transaction_for_staff_view shows a chain's newest version: it is the *)
(* one the balance counts, or the chain is voided and nothing is counted.       *)
LatestIsTheTip ==
    \A i \in TxId : Exists(tx[i]) =>
        LET tip == Latest(tx, tx[i].root)
        IN  /\ Successors(tip) = {}
            /\ \A j \in Chain(tx, tx[i].root) : CountsNow(tx[j]) => j = tip

(* A recorded version is never rewritten or deleted: only its status moves, once, *)
(* from ACTIVE to SUPERSEDED or VOIDED.                                           *)
HistoryIsAppendOnly ==
    [][\A i \in TxId : Exists(tx[i]) =>
          /\ tx'[i] = [tx[i] EXCEPT !.status = tx'[i].status, !.current = tx'[i].current]
          /\ tx'[i] # tx[i] => /\ tx[i].status = "ACTIVE"
                               /\ tx'[i].status \in {"SUPERSEDED", "VOIDED"}]_vars

(* The cached balance of a customer is the ledger's balance unless it was last   *)
(* written by a request that read before another request on the same customer    *)
(* committed: nothing but such an overlap makes them differ.                     *)
DriftOnlyByOverlap ==
    \A c \in Customers : ~drift[c] => cached[c] = Balance(tx, c)

(* With no request in progress the cached balance is the ledger's balance.       *)
CachedBalanceExact ==
    (\A w \in Workers : pc[w] = "idle") => \A c \in Customers : cached[c] = Balance(tx, c)

(* An edit never brings a customer back from the archive or restores an older      *)
(* balance, however long ago its view loaded the row: only the Django admin form,  *)
(* which saves every column it loaded, undoes an archiving.                        *)
OnlyFormsUnarchive ==
    [][\A c \in Customers : archived[c] /\ ~archived'[c] =>
          \E w \in Workers : /\ pc[w] = "ready" /\ pc'[w] = "idle"
                             /\ req[w].op = "adminSave" /\ req[w].cust = c]_vars

(* Every request is answered: the lock order source row, customer, halkhata has  *)
(* no cycle, and every way out of a request frees its locks.                     *)
EveryRequestEnds == \A w \in Workers : pc[w] # "idle" ~> pc[w] = "idle"

=============================================================================
