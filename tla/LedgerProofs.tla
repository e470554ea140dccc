---------------------------- MODULE LedgerProofs ----------------------------
(***************************************************************************)
(* Theorems about Ledger, for every value of its constants: its types; its *)
(* version chains are lines, since ChainInvariant is inductive given       *)
(* TypeOK; with TipsLead its rows implement the book; and a cached balance *)
(* is wrong only after two requests on the customer overlapped             *)
(* (BalanceInvariant), and only Django's form undoes an archiving.         *)
(***************************************************************************)
EXTENDS LedgerInvariant, LedgerRefinement, TLAPS

-----------------------------------------------------------------------------
(* Types.                                                                  *)

LEMMA SomeCustomerIsOne == SomeCustomer \in Customers
  BY LedgerConstants DEF SomeCustomer

LEMMA DefaultsTyped ==
    /\ \A c \in Customers : NoRow(c) \in Row
    /\ NoRequest \in Request
  BY LedgerConstants, SomeCustomerIsOne
     DEF NoRow, Row, NoRequest, Request, Types, Statuses, Links, TxId, AllOps,
         BalanceOps, LedgerOps, CustomerOps

LEMMA TypeInit == Init => TypeOK
<1> SUFFICES ASSUME Init PROVE TypeOK
  OBVIOUS
<1> USE LedgerConstants, SomeCustomerIsOne, DefaultsTyped
<1>1. TablesTyped
  BY DEF Init, TablesTyped, TxId
<1>2. LocksTyped
  BY DEF Init, LocksTyped
<1>3. ReadsTyped
  BY DEF Init, ReadsTyped, NothingSeen, Reads
<1>4. WritesTyped
  BY DEF Init, WritesTyped, NoWrites
<1>5. RequestsTyped
  BY DEF Init, RequestsTyped, NoRequest
<1> QED
  BY <1>1, <1>2, <1>3, <1>4, <1>5 DEF TypeOK

-----------------------------------------------------------------------------
(* Every step keeps the types.  Finish and Refuse are shared by the steps   *)
(* that end a request.                                                      *)

LEMMA FinishTyped ==
    ASSUME TypeOK, NEW w \in Workers, Finish(w)
    PROVE  /\ LocksTyped'
           /\ RequestsTyped'
           /\ WritesTyped'
           /\ seen' = [seen EXCEPT ![w] = NothingSeen]
           /\ sum' = [sum EXCEPT ![w] = 0]
<1> USE LedgerConstants, DefaultsTyped DEF TypeOK, Finish
<1>1. LocksTyped'
  BY DEF LocksTyped, WithoutLocksOf
<1>2. RequestsTyped'
  BY DEF RequestsTyped, NoRequest
<1>3. WritesTyped'
  BY DEF WritesTyped, NoWrites
<1> QED
  BY <1>1, <1>2, <1>3

LEMMA ReadsKept ==
    ASSUME TypeOK, NEW w \in Workers,
           seen' = [seen EXCEPT ![w] = NothingSeen],
           sum' = [sum EXCEPT ![w] = 0],
           dirty' \in [Workers -> BOOLEAN]
    PROVE  ReadsTyped'
  BY DEF TypeOK, ReadsTyped, NothingSeen, Reads

LEMMA RefuseTyped ==
    ASSUME TypeOK, NEW w \in Workers, Refuse(w)
    PROVE  TypeOK'
<1>1. LocksTyped' /\ RequestsTyped' /\ WritesTyped'
  BY FinishTyped DEF Refuse
<1>2. ReadsTyped'
  BY FinishTyped, ReadsKept DEF Refuse, TypeOK, ReadsTyped
<1>3. TablesTyped'
  BY DEF Refuse, TypeOK, TablesTyped, tables
<1> QED
  BY <1>1, <1>2, <1>3 DEF TypeOK

LEMMA BeginTyped ==
    ASSUME TypeOK, NEW w \in Workers, NEW q \in Request,
           NEW a \in BOOLEAN, NEW b, NEW h \in {"active", "closed"},
           Begin(w, q, Reads(a, b, h)),
           q.op \in {"correct", "void"} => q.target \in TxId,
           q.op = "halkhata" => q.hk \in Halkhatas
    PROVE  TypeOK'
<1> USE DEF TypeOK, Begin
<1>1. TablesTyped' /\ LocksTyped' /\ WritesTyped'
  BY DEF TablesTyped, LocksTyped, WritesTyped, tables, locks, history
<1>2. ReadsTyped'
  BY DEF ReadsTyped, history, Reads
<1>3. RequestsTyped'
  BY DEF RequestsTyped
<1> QED
  BY <1>1, <1>2, <1>3

LEMMA ReceiveTyped ==
    ASSUME TypeOK, NEW w \in Workers, Receive(w)
    PROVE  TypeOK'
<1> USE LedgerConstants, DefaultsTyped
        DEF Request, NoRequest, AllOps, BalanceOps, LedgerOps, CustomerOps, Links
<1>1. ASSUME NEW q \in Request, Begin(w, q, NothingSeen),
             q.op \in {"correct", "void"} => q.target \in TxId,
             q.op = "halkhata" => q.hk \in Halkhatas
      PROVE  TypeOK'
  BY <1>1, BeginTyped DEF NothingSeen
<1>2. CASE ReceiveCreate(w)
  <2>1. PICK c \in Customers, type \in Types, a \in Nat :
          Begin(w, [NoRequest EXCEPT !.op = "create", !.cust = c,
                                     !.type = type, !.amount = a], NothingSeen)
    BY <1>2 DEF ReceiveCreate, AmountsOf
  <2> QED
    BY <2>1, <1>1
<1>3. CASE ReceivePayment(w)
  <2>1. PICK h \in Halkhatas, c \in Customers, a \in Nat :
          Begin(w, [NoRequest EXCEPT !.op = "pay", !.cust = c, !.hk = h,
                                     !.type = "PAYMENT", !.amount = a],
                Reads(FALSE, 0, hkStatus[h]))
    BY <1>3 DEF ReceivePayment, AmountsOf
  <2>2. hkStatus[h] \in {"active", "closed"}
    BY DEF TypeOK, TablesTyped
  <2>3. [NoRequest EXCEPT !.op = "pay", !.cust = c, !.hk = h,
                          !.type = "PAYMENT", !.amount = a] \in Request
    BY DEF Types
  <2> QED
    BY <2>1, <2>2, <2>3, BeginTyped
<1>4. CASE ReceiveCorrection(w)
  <2>1. PICK i \in TxId, type \in Types, a \in Nat :
          Begin(w, [NoRequest EXCEPT !.op = "correct", !.cust = tx[i].customer,
                                     !.target = i, !.type = type, !.amount = a],
                NothingSeen)
    BY <1>4 DEF ReceiveCorrection, AmountsOf
  <2>2. tx[i].customer \in Customers /\ i \in 0..MaxTx
    BY DEF TypeOK, TablesTyped, Row, TxId
  <2> QED
    BY <2>1, <2>2, <1>1
<1>5. CASE ReceiveVoid(w)
  <2>1. PICK i \in TxId :
          Begin(w, [NoRequest EXCEPT !.op = "void", !.cust = tx[i].customer,
                                     !.target = i], NothingSeen)
    BY <1>5 DEF ReceiveVoid
  <2>2. tx[i].customer \in Customers /\ i \in 0..MaxTx
    BY DEF TypeOK, TablesTyped, Row, TxId
  <2> QED
    BY <2>1, <2>2, <1>1
<1>6. CASE ReceiveOnCustomer(w)
  <2>1. PICK c \in Customers, op \in CustomerOps :
          Begin(w, [NoRequest EXCEPT !.op = op, !.cust = c],
                Reads(archived[c], cached[c], "active"))
    BY <1>6 DEF ReceiveOnCustomer
  <2>2. archived[c] \in BOOLEAN
    BY DEF TypeOK, TablesTyped
  <2>3. [NoRequest EXCEPT !.op = op, !.cust = c] \in Request
    OBVIOUS
  <2> QED
    BY <2>1, <2>2, <2>3, BeginTyped
<1>7. CASE ReceiveRebuild(w)
  BY <1>7, <1>1 DEF ReceiveRebuild
<1>8. CASE ReceiveHalkhataUpdate(w)
  BY <1>8, <1>1 DEF ReceiveHalkhataUpdate
<1> QED
  BY <1>2, <1>3, <1>4, <1>5, <1>6, <1>7, <1>8 DEF Receive

\* The rows a request writes are rows of the table.
LEMMA VersionsTyped ==
    ASSUME NEW q \in Request, NEW s \in Row, NEW id \in TxId
    PROVE  /\ FirstVersion(q, id) \in Row
           /\ NextVersion(q, s) \in Row
           /\ Superseded(s) \in Row
           /\ Voided(s) \in Row
<1> USE LedgerConstants DEF Row, Request, Statuses, TxId
<1>1. FirstVersion(q, id) \in Row
  BY DEF FirstVersion
<1>2. NextVersion(q, s) \in Row
  <2>1. s.version + 1 \in Nat
    OBVIOUS
  <2> QED
    BY <2>1 DEF NextVersion
<1>3. Superseded(s) \in Row /\ Voided(s) \in Row
  BY DEF Superseded, Voided
<1> QED
  BY <1>1, <1>2, <1>3

LEMMA WriteTyped ==
    ASSUME WritesTyped, NEW w \in Workers,
           NEW S \in SUBSET TxId, NEW f \in [S -> Row],
           wrote' = [wrote EXCEPT ![w] = f]
    PROVE  WritesTyped'
<1>1. f = [i \in DOMAIN f |-> f[i]] /\ DOMAIN f = S
  OBVIOUS
<1>2. \A i \in S : f[i] \in Row
  OBVIOUS
<1> HIDE DEF Row
<1> QED
  BY ZenonT(60), <1>1, <1>2 DEF WritesTyped

LEMMA ProceedTyped ==
    ASSUME TypeOK, NEW w \in Workers, Proceed(w)
    PROVE  TypeOK'
<1> USE LedgerConstants DEF TypeOK
<1>0. req[w] \in Request /\ req[w].cust \in Customers
  BY DEF RequestsTyped, Request
<1>1. CASE Insert(w)
  <2> USE <1>1 DEF Insert
  <2>1. TablesTyped' /\ LocksTyped'
    BY DEF TablesTyped, LocksTyped, tables, locks, history
  <2>4. ReadsTyped'
    BY DEF ReadsTyped, history
  <2>5. RequestsTyped'
    BY DEF RequestsTyped
  <2>2. FirstVersion(req[w], nextId) \in Row
    BY DEF FirstVersion, Row, RequestsTyped, Request, TablesTyped, TxId, Statuses, Types
  <2>6. nextId \in TxId
    BY DEF TablesTyped, TxId
  <2>7. [j \in {nextId} |-> FirstVersion(req[w], j)] \in [{nextId} -> Row]
    BY <2>2
  <2>3. WritesTyped'
    BY <2>6, <2>7, WriteTyped
  <2> QED
    BY <2>1, <2>3, <2>4, <2>5
<1>2. CASE Correct(w)
  <2> USE <1>2 DEF Correct, SourceFree
  <2> DEFINE i == req[w].target
  <2>1. i \in TxId /\ tx[i] \in Row /\ nextId \in TxId
    BY DEF RequestsTyped, TablesTyped, TxId
  <2>2. TablesTyped'
    BY <2>1 DEF TablesTyped, tables, history, TxId
  <2>5. LocksTyped'
    BY <2>1 DEF LocksTyped
  <2>6. ReadsTyped'
    BY DEF ReadsTyped, history
  <2>7. RequestsTyped'
    BY DEF RequestsTyped
  <2>3. Superseded(tx[i]) \in Row /\ NextVersion(req[w], tx[i]) \in Row
    BY <1>0, <2>1, VersionsTyped
  <2> DEFINE f == [j \in {i, nextId} |-> IF j = i THEN Superseded(tx[i])
                                        ELSE NextVersion(req[w], tx[i])]
  <2>8. f \in [{i, nextId} -> Row]
    BY <2>3
  <2>4. WritesTyped'
    BY <2>1, <2>8, WriteTyped
  <2> QED
    BY <2>2, <2>4, <2>5, <2>6, <2>7
<1>3. CASE Void(w)
  <2> USE <1>3 DEF Void, SourceFree
  <2> DEFINE i == req[w].target
  <2>1. i \in TxId /\ tx[i] \in Row
    BY DEF RequestsTyped, TablesTyped
  <2>2. TablesTyped'
    BY DEF TablesTyped, tables, history
  <2>5. LocksTyped'
    BY <2>1 DEF LocksTyped
  <2>6. ReadsTyped'
    BY DEF ReadsTyped, history
  <2>7. RequestsTyped'
    BY DEF RequestsTyped
  <2>3. Voided(tx[i]) \in Row
    BY <1>0, <2>1, VersionsTyped
  <2>8. [j \in {i} |-> Voided(tx[i])] \in [{i} -> Row]
    BY <2>3
  <2>4. WritesTyped'
    BY <2>1, <2>8, WriteTyped
  <2> QED
    BY <2>2, <2>4, <2>5, <2>6, <2>7
<1>4. CASE RefuseInsert(w) \/ RefuseSource(w) \/ RefuseCustomer(w)
  BY <1>4, RefuseTyped DEF RefuseInsert, RefuseSource, RefuseCustomer
<1>5. CASE SumLedger(w)
  <2>1. TablesTyped' /\ LocksTyped' /\ WritesTyped'
    BY <1>5 DEF SumLedger, TablesTyped, LocksTyped, WritesTyped, tables, locks
  <2>2. ReadsTyped'
    BY <1>5 DEF SumLedger, ReadsTyped
  <2>3. RequestsTyped'
    BY <1>5 DEF SumLedger, RequestsTyped
  <2> QED
    BY <2>1, <2>2, <2>3
<1>6. CASE UpdateBalance(w)
  <2>1. TablesTyped' /\ ReadsTyped' /\ WritesTyped'
    BY <1>6 DEF UpdateBalance, TablesTyped, ReadsTyped, WritesTyped, tables, history
  <2>2. LocksTyped'
    BY <1>0, <1>6 DEF UpdateBalance, LocksTyped
  <2>3. RequestsTyped'
    BY <1>6 DEF UpdateBalance, RequestsTyped
  <2> QED
    BY <2>1, <2>2, <2>3
<1>7. CASE CommitBalance(w)
  <2> USE <1>7 DEF CommitBalance
  <2>1. View(w) \in [TxId -> Row]
    BY DEF View, TablesTyped, WritesTyped
  <2>2. dirty' \in [Workers -> BOOLEAN]
    BY DEF DirtyOthers, ReadsTyped
  <2>3. TablesTyped'
    BY <1>0, <2>1 DEF TablesTyped, ReadsTyped
  <2> QED
    BY <2>2, <2>3, FinishTyped, ReadsKept
<1>8. CASE LockCustomer(w)
  <2> USE <1>8 DEF LockCustomer, CustomerFree
  <2>1. TablesTyped' /\ WritesTyped'
    BY DEF TablesTyped, WritesTyped, tables, history
  <2>4. LocksTyped'
    BY <1>0 DEF LocksTyped
  <2>5. RequestsTyped'
    BY DEF RequestsTyped
  <2>3. ReadsTyped'
    BY <1>0 DEF ReadsTyped, TablesTyped, history, RowUnderLock, Reads
  <2> QED
    BY <2>1, <2>3, <2>4, <2>5
<1>9. CASE CommitArchive(w)
  <2>1. TablesTyped' /\ dirty' \in [Workers -> BOOLEAN]
    BY <1>0, <1>9 DEF CommitArchive, TablesTyped, ReadsTyped
  <2> QED
    BY <1>9, <2>1, FinishTyped, ReadsKept DEF CommitArchive
<1>10. CASE CommitCustomer(w)
  <2> USE <1>10 DEF CommitCustomer
  <2>1. dirty' \in [Workers -> BOOLEAN]
    BY DEF DirtyOthers, ReadsTyped
  <2>2. TablesTyped'
    BY <1>0 DEF TablesTyped, ReadsTyped
  <2> QED
    BY <2>1, <2>2, FinishTyped, ReadsKept
<1>11. CASE LockHalkhata(w)
  <2>1. TablesTyped' /\ ReadsTyped' /\ WritesTyped'
    BY <1>11 DEF LockHalkhata, TablesTyped, ReadsTyped, WritesTyped, tables, history
  <2>2. LocksTyped'
    BY <1>11 DEF LockHalkhata, LocksTyped, RequestsTyped
  <2>3. RequestsTyped'
    BY <1>11 DEF LockHalkhata, RequestsTyped
  <2> QED
    BY <2>1, <2>2, <2>3
<1>12. CASE CommitHalkhata(w)
  <2>1. TablesTyped' /\ dirty' \in [Workers -> BOOLEAN]
    BY <1>0, <1>12 DEF CommitHalkhata, TablesTyped, ReadsTyped, RequestsTyped, Request
  <2> QED
    BY <1>12, <2>1, FinishTyped, ReadsKept DEF CommitHalkhata
<1> QED
  BY <1>1, <1>2, <1>3, <1>4, <1>5, <1>6, <1>7, <1>8, <1>9, <1>10, <1>11, <1>12
     DEF Proceed

\* In every behaviour of the ledger the tables, the locks and what each request
\* holds have their types (models.py): a request's row writes are rows under keys
\* of the table, whoever interleaves with it, and no lock outlives its worker.
THEOREM TypeCorrect == Spec => []TypeOK
<1>1. TypeOK /\ [Next]_vars => TypeOK'
  <2> SUFFICES ASSUME TypeOK, [Next]_vars PROVE TypeOK'
    OBVIOUS
  <2>1. CASE UNCHANGED vars
    BY <2>1 DEF vars, tables, locks, history, TypeOK, TablesTyped, LocksTyped,
                ReadsTyped, WritesTyped, RequestsTyped
  <2>2. ASSUME NEW w \in Workers, Receive(w) \/ Proceed(w) \/ Abort(w)
        PROVE  TypeOK'
    BY <2>2, ReceiveTyped, ProceedTyped, RefuseTyped DEF Abort
  <2> QED
    BY <2>1, <2>2 DEF Next
<1> QED
  BY TypeInit, <1>1, PTL DEF Spec

-----------------------------------------------------------------------------
(* Chains.  ChainInvariant is inductive.                                   *)

LEMMA RowTyped ==
    ASSUME TypeOK, NEW i \in TxId
    PROVE  /\ tx[i] \in Row
           /\ tx[i].version \in Nat /\ tx[i].root \in TxId /\ tx[i].prev \in 0..MaxTx
           /\ tx[i].status \in Statuses /\ tx[i].current \in BOOLEAN
  BY DEF TypeOK, TablesTyped, Row

LEMMA ChainInit == Init => ChainInvariant
<1> SUFFICES ASSUME Init PROVE ChainInvariant
  OBVIOUS
<1>1. \A i \in TxId : ~Exists(tx[i]) /\ ~tx[i].current /\ ~Holds(tx[i])
  BY DEF Init, NoRow, Exists, Holds
<1>2. \A w \in Workers : ~HasWritten(w) /\ DOMAIN wrote[w] = {}
  BY DEF Init, HasWritten, NoWrites
<1> QED
  BY <1>1, <1>2 DEF ChainInvariant, ChainIsALine, RowsInOrder, WritesUnderway

-----------------------------------------------------------------------------
(* Steps that leave the committed rows as they are.                        *)

\* Another request's writes stay underway when the rows it depends on, its lock
\* and its own state are left alone.
LEMMA WritesStay ==
    ASSUME NEW v \in Workers, WritesUnderway(v),
           wrote'[v] = wrote[v],
           HasWritten(v)' <=> HasWritten(v),
           HasWritten(v) => req'[v] = req[v],
           nextId \in Nat, nextId' \in Nat, nextId <= nextId',
           \A i \in TxId : txLock[i] = v => txLock'[i] = v,
           \A i \in TxId : i \in DOMAIN wrote[v] => tx'[i] = tx[i],
           HasWritten(v) => req[v].target \in TxId \/ req[v].op \in {"create", "pay"}
    PROVE  WritesUnderway(v)'
<1>1. CASE ~HasWritten(v)
  BY <1>1 DEF WritesUnderway
<1>2. CASE HasWritten(v) /\ req[v].op \in {"create", "pay"}
  <2>1. Opens(v)
    BY <1>2 DEF WritesUnderway
  <2>2. PICK n \in TxId : Fresh(n) /\ DOMAIN wrote[v] = {n}
                          /\ wrote[v][n] = FirstVersion(req[v], n)
    BY <2>1 DEF Opens
  <2>3. Fresh(n)'
    BY <2>2 DEF Fresh, Exists, TxId
  <2>4. Opens(v)'
    BY <1>2, <2>2, <2>3 DEF Opens, FirstVersion
  <2> QED
    BY <1>2, <2>4 DEF WritesUnderway
<1>3. CASE HasWritten(v) /\ req[v].op = "correct"
  <2> DEFINE i == req[v].target
  <2>1. Replaces(v) /\ i \in TxId
    BY <1>3 DEF WritesUnderway
  <2>2. PICK n \in TxId : Fresh(n) /\ DOMAIN wrote[v] = {i, n}
                          /\ wrote[v][i] = Superseded(tx[i])
                          /\ wrote[v][n] = NextVersion(req[v], tx[i])
    BY <2>1 DEF Replaces
  <2>3. Fresh(n)'
    BY <2>2 DEF Fresh, Exists, TxId
  <2>4. HoldsSource(v)' /\ tx'[i] = tx[i] /\ req'[v] = req[v]
    BY <1>3, <2>1, <2>2 DEF HoldsSource, Replaces
  <2>5. Replaces(v)'
    BY <2>2, <2>3, <2>4 DEF Replaces
  <2> QED
    BY <1>3, <2>4, <2>5 DEF WritesUnderway
<1>4. CASE HasWritten(v) /\ req[v].op = "void"
  <2>1. Voids(v) /\ req[v].target \in TxId
    BY <1>4 DEF WritesUnderway
  <2>2. tx'[req[v].target] = tx[req[v].target] /\ req'[v] = req[v]
    BY <1>4, <2>1 DEF Voids
  <2>3. Voids(v)'
    BY <2>1, <2>2 DEF Voids, HoldsSource
  <2> QED
    BY <1>4, <2>2, <2>3 DEF WritesUnderway
<1> QED
  BY <1>1, <1>2, <1>3, <1>4 DEF HasWritten, LedgerOps

LEMMA TargetTyped ==
    ASSUME TypeOK, NEW w \in Workers, req[w].op \in LedgerOps
    PROVE  req[w].target \in TxId \/ req[w].op \in {"create", "pay"}
  BY DEF TypeOK, RequestsTyped, LedgerOps

\* The committed part of the invariant speaks of the table alone.
LEMMA RowsStay ==
    ASSUME ChainIsALine, RowsInOrder, tx' = tx,
           nextId \in Nat, nextId' \in Nat, nextId <= nextId'
    PROVE  ChainIsALine' /\ RowsInOrder'
<1>1. ChainIsALine'
  BY DEF ChainIsALine, Successors
<1>2. \A i \in TxId : Exists(tx'[i]) =>
        i < nextId' /\ Exists(tx'[tx'[i].root]) /\ tx'[i].version # 0
  BY DEF RowsInOrder, TxId
<1>3. RowsInOrder'
  BY <1>2 DEF RowsInOrder
<1> QED
  BY <1>1, <1>3

\* A step of w that writes no row and ends nothing.
LEMMA PrivateStep ==
    ASSUME TypeOK, ChainInvariant, NEW w \in Workers,
           UNCHANGED <<tx, nextId, txLock, wrote>>,
           \A v \in Workers : HasWritten(v)' <=> HasWritten(v),
           \A v \in Workers : HasWritten(v) => req'[v] = req[v]
    PROVE  ChainInvariant'
<1>1. nextId \in Nat
  BY DEF TypeOK, TablesTyped
<1>2. ASSUME NEW v \in Workers PROVE WritesUnderway(v)'
  BY <1>1, <1>2, WritesStay, TargetTyped DEF ChainInvariant, HasWritten
<1>3. ChainIsALine' /\ RowsInOrder'
  BY <1>1, RowsStay DEF ChainInvariant
<1>4. \A u, v \in Workers : u # v => DOMAIN wrote'[u] \cap DOMAIN wrote'[v] = {}
  BY DEF ChainInvariant
<1> QED
  BY <1>2, <1>3, <1>4 DEF ChainInvariant

\* What the end of w's request means to the others.
LEMMA FinishedWrites ==
    ASSUME TypeOK, ChainInvariant, NEW w \in Workers, Finish(w),
           nextId' = nextId,
           \A v \in Workers \ {w} : \A i \in TxId :
              i \in DOMAIN wrote[v] => tx'[i] = tx[i]
    PROVE  /\ \A v \in Workers : WritesUnderway(v)'
           /\ \A u, v \in Workers : u # v => DOMAIN wrote'[u] \cap DOMAIN wrote'[v] = {}
<1> USE DEF Finish
<1>0. nextId \in Nat
  BY DEF TypeOK, TablesTyped
<1>1. DOMAIN wrote'[w] = {} /\ pc'[w] = "idle"
  BY DEF TypeOK, WritesTyped, RequestsTyped, NoWrites
<1>2. WritesUnderway(w)'
  BY <1>1 DEF WritesUnderway, HasWritten
<1>3. ASSUME NEW v \in Workers \ {w}
      PROVE  /\ wrote'[v] = wrote[v] /\ pc'[v] = pc[v] /\ req'[v] = req[v]
             /\ \A i \in TxId : txLock[i] = v => txLock'[i] = v
  BY <1>3, LedgerConstants
     DEF TypeOK, WritesTyped, RequestsTyped, LocksTyped, WithoutLocksOf
<1>4. ASSUME NEW v \in Workers \ {w} PROVE WritesUnderway(v)'
  BY <1>0, <1>3, <1>4, WritesStay, TargetTyped DEF ChainInvariant, HasWritten
<1>5. \A u, v \in Workers : u # v => DOMAIN wrote'[u] \cap DOMAIN wrote'[v] = {}
  BY <1>1, <1>3 DEF ChainInvariant
<1> QED
  BY <1>2, <1>4, <1>5

LEMMA EndKeepsRows ==
    ASSUME TypeOK, ChainInvariant, NEW w \in Workers, Finish(w),
           UNCHANGED <<tx, nextId>>
    PROVE  ChainInvariant'
<1>1. nextId \in Nat
  BY DEF TypeOK, TablesTyped
<1>2. ChainIsALine' /\ RowsInOrder'
  BY <1>1, RowsStay DEF ChainInvariant
<1> QED
  BY <1>2, FinishedWrites DEF ChainInvariant

-----------------------------------------------------------------------------
(* Steps that write rows nobody else sees yet.                             *)

\* The keys a request has written are of this table and were handed out before now.
LEMMA WrittenKeys ==
    ASSUME TypeOK, ChainInvariant, NEW v \in Workers, NEW i \in DOMAIN wrote[v]
    PROVE  /\ i \in TxId /\ i < nextId
           /\ Exists(tx[i]) => txLock[i] = v /\ Correctable(tx[i])
<1>1. WritesUnderway(v) /\ HasWritten(v)
  BY DEF ChainInvariant, WritesUnderway
<1>2. CASE Opens(v)
  BY <1>2 DEF Opens, Fresh
<1>3. CASE Replaces(v)
  BY <1>3, TargetTyped DEF Replaces, HoldsSource, Fresh, ChainInvariant, RowsInOrder, TypeOK, WritesTyped
<1>4. CASE Voids(v)
  BY <1>4, TargetTyped DEF Voids, HoldsSource, ChainInvariant, RowsInOrder, TypeOK, WritesTyped
<1> QED
  BY <1>1, <1>2, <1>3, <1>4 DEF WritesUnderway, HasWritten, LedgerOps

\* w writes rows that no other request has written, and goes on as w alone.
LEMMA WriteStep ==
    ASSUME TypeOK, ChainInvariant, NEW w \in Workers,
           tx' = tx, nextId' \in Nat, nextId <= nextId', req' = req,
           pc' = [pc EXCEPT ![w] = "written"],
           NEW S \in SUBSET TxId, NEW f,
           wrote' = [wrote EXCEPT ![w] = f], DOMAIN f = S,
           \A v \in Workers \ {w} : \A i \in TxId : txLock[i] = v => txLock'[i] = v,
           \A v \in Workers \ {w} : DOMAIN wrote[v] \cap S = {},
           WritesUnderway(w)'
    PROVE  ChainInvariant'
<1>1. nextId \in Nat
  BY DEF TypeOK, TablesTyped
<1>2. ChainIsALine' /\ RowsInOrder'
  BY <1>1, RowsStay DEF ChainInvariant
<1>3. wrote'[w] = f /\ \A v \in Workers \ {w} : wrote'[v] = wrote[v] /\ pc'[v] = pc[v]
  BY DEF TypeOK, WritesTyped, RequestsTyped
<1>4. ASSUME NEW v \in Workers \ {w} PROVE WritesUnderway(v)'
  BY <1>1, <1>3, <1>4, WritesStay, TargetTyped DEF ChainInvariant, HasWritten
<1>5. \A u, v \in Workers : u # v => DOMAIN wrote'[u] \cap DOMAIN wrote'[v] = {}
  BY <1>3 DEF ChainInvariant
<1> QED
  BY <1>2, <1>4, <1>5 DEF ChainInvariant

LEMMA InsertKeepsChains ==
    ASSUME TypeOK, ChainInvariant, NEW w \in Workers, Insert(w)
    PROVE  ChainInvariant'
<1> USE DEF Insert
<1> DEFINE f == [i \in {nextId} |-> FirstVersion(req[w], i)]
<1>1. nextId \in TxId /\ nextId \in Nat /\ nextId + 1 \in Nat /\ nextId <= nextId + 1
  BY DEF TypeOK, TablesTyped, TxId
<1>2. ~Exists(tx[nextId])
  BY <1>1 DEF ChainInvariant, RowsInOrder
<1>3. wrote'[w] = f /\ pc'[w] = "written" /\ req' = req /\ tx' = tx /\ txLock' = txLock
  BY DEF TypeOK, WritesTyped, RequestsTyped, tables, locks
<1>4. Opens(w)'
  <2>1. PICK n \in TxId : n = nextId
    BY <1>1
  <2>2. Fresh(n)'
    BY <1>1, <1>2, <1>3, <2>1 DEF Fresh, Exists
  <2>3. DOMAIN f = {n} /\ f[n] = FirstVersion(req[w], n)
    BY <2>1
  <2> HIDE DEF f
  <2> QED
    BY <1>3, <2>2, <2>3 DEF Opens, FirstVersion
<1>5. WritesUnderway(w)'
  BY <1>3, <1>4 DEF WritesUnderway, HasWritten, LedgerOps
<1>6. \A v \in Workers : DOMAIN wrote[v] \cap {nextId} = {}
  BY <1>1, WrittenKeys
<1> HIDE DEF f
<1>7. DOMAIN f = {nextId}
  BY DEF f
<1> QED
  BY <1>1, <1>3, <1>5, <1>6, <1>7, WriteStep DEF f

LEMMA CorrectKeepsChains ==
    ASSUME TypeOK, ChainInvariant, NEW w \in Workers, Correct(w)
    PROVE  ChainInvariant'
<1> USE DEF Correct, SourceFree
<1> DEFINE i == req[w].target
           f == [j \in {i, nextId} |-> IF j = i THEN Superseded(tx[i])
                                      ELSE NextVersion(req[w], tx[i])]
<1>1. /\ nextId \in TxId /\ nextId \in Nat /\ nextId + 1 \in Nat /\ nextId <= nextId + 1
      /\ i \in TxId
  BY DEF TypeOK, TablesTyped, TxId, RequestsTyped
<1>2. ~Exists(tx[nextId]) /\ Exists(tx[i]) /\ i # nextId
  BY <1>1 DEF ChainInvariant, RowsInOrder, Correctable, Exists
<1>3. wrote'[w] = f /\ pc'[w] = "written" /\ req' = req /\ tx' = tx
      /\ txLock' = [txLock EXCEPT ![i] = w]
  BY DEF TypeOK, WritesTyped, RequestsTyped, tables
<1>4. txLock'[i] = w /\ \A j \in TxId \ {i} : txLock'[j] = txLock[j]
  BY <1>1, <1>3 DEF TypeOK, LocksTyped
<1>5. Replaces(w)'
  <2>1. PICK n \in TxId : n = nextId
    BY <1>1
  <2>2. Fresh(n)'
    BY <1>1, <1>2, <1>3, <2>1 DEF Fresh, Exists
  <2>3. /\ DOMAIN f = {i, n} /\ f[i] = Superseded(tx[i])
        /\ f[n] = NextVersion(req[w], tx[i])
    BY <1>2, <2>1
  <2>4. HoldsSource(w)' /\ req'[w].target = i /\ tx'[i] = tx[i] /\ req'[w] = req[w]
    BY <1>2, <1>3, <1>4 DEF HoldsSource
  <2> HIDE DEF f, i, Correct, SourceFree
  <2> QED
    BY <1>3, <2>2, <2>3, <2>4 DEF Replaces, NextVersion
<1>6. WritesUnderway(w)'
  BY <1>3, <1>5 DEF WritesUnderway, HasWritten, LedgerOps
<1>7. ASSUME NEW v \in Workers \ {w} PROVE DOMAIN wrote[v] \cap {i, nextId} = {}
  BY <1>1, <1>2, WrittenKeys, LedgerConstants
<1>8. \A v \in Workers \ {w} : \A j \in TxId : txLock[j] = v => txLock'[j] = v
  BY <1>4, LedgerConstants
<1> HIDE DEF f
<1>9. DOMAIN f = {i, nextId} /\ {i, nextId} \in SUBSET TxId /\ nextId <= nextId'
  BY <1>1 DEF f
<1>10. nextId' = nextId + 1 /\ pc' = [pc EXCEPT ![w] = "written"]
       /\ wrote' = [wrote EXCEPT ![w] = f]
  BY DEF f
<1>11. tx' = tx /\ req' = req /\ nextId' \in Nat
  BY <1>1, <1>3, <1>10
<1> DEFINE S == {i, nextId}
<1>12. S \in SUBSET TxId /\ DOMAIN f = S
       /\ \A v \in Workers \ {w} : DOMAIN wrote[v] \cap S = {}
  BY <1>7, <1>9
<1> HIDE DEF Correct, SourceFree, S
<1> QED
  BY <1>6, <1>8, <1>9, <1>10, <1>11, <1>12, WriteStep

LEMMA VoidKeepsChains ==
    ASSUME TypeOK, ChainInvariant, NEW w \in Workers, Void(w)
    PROVE  ChainInvariant'
<1> USE DEF Void, SourceFree
<1> DEFINE i == req[w].target
           f == [j \in {i} |-> Voided(tx[i])]
<1>1. i \in TxId /\ Exists(tx[i]) /\ nextId \in Nat /\ nextId <= nextId
  BY DEF TypeOK, RequestsTyped, TablesTyped, Correctable, Exists
<1>2. wrote'[w] = f /\ pc'[w] = "written" /\ req' = req /\ tx' = tx /\ nextId' = nextId
      /\ txLock' = [txLock EXCEPT ![i] = w]
  BY DEF TypeOK, WritesTyped, RequestsTyped, tables
<1>3. txLock'[i] = w /\ \A j \in TxId \ {i} : txLock'[j] = txLock[j]
  BY <1>1, <1>2 DEF TypeOK, LocksTyped
<1>4. Voids(w)'
  BY <1>1, <1>2, <1>3 DEF Voids, HoldsSource
<1>5. WritesUnderway(w)'
  BY <1>2, <1>4 DEF WritesUnderway, HasWritten, LedgerOps
<1>6. ASSUME NEW v \in Workers \ {w} PROVE DOMAIN wrote[v] \cap {i} = {}
  BY <1>1, WrittenKeys, LedgerConstants
<1>7. \A v \in Workers \ {w} : \A j \in TxId : txLock[j] = v => txLock'[j] = v
  BY <1>3, LedgerConstants
<1> HIDE DEF f
<1>8. DOMAIN f = {i} /\ {i} \in SUBSET TxId
  BY <1>1 DEF f
<1>9. pc' = [pc EXCEPT ![w] = "written"] /\ wrote' = [wrote EXCEPT ![w] = f]
  BY DEF f
<1> HIDE DEF Void, SourceFree
<1> QED
  BY ZenonT(60), <1>1, <1>2, <1>5, <1>6, <1>7, <1>8, <1>9, WriteStep

-----------------------------------------------------------------------------
(* COMMIT publishes w's rows: each kind of request extends the lines.      *)

\* What a commit of w makes of the table.
LEMMA Published ==
    ASSUME TypeOK, NEW w \in Workers, tx' = View(w)
    PROVE  /\ \A i \in TxId \cap DOMAIN wrote[w] : tx'[i] = wrote[w][i]
           /\ \A i \in TxId \ DOMAIN wrote[w] : tx'[i] = tx[i]
  BY DEF View

LEMMA OpeningCommitted ==
    ASSUME TypeOK, ChainIsALine, RowsInOrder, NEW w \in Workers, Opens(w),
           tx' = View(w), nextId' = nextId
    PROVE  ChainIsALine' /\ RowsInOrder'
<1>1. PICK n \in TxId : /\ Fresh(n) /\ DOMAIN wrote[w] = {n}
                        /\ wrote[w][n] = FirstVersion(req[w], n)
  BY DEF Opens
<1>2. \A i \in TxId \ {n} : tx'[i] = tx[i]
  BY <1>1, Published
<1>3. /\ Exists(tx'[n]) /\ Holds(tx'[n]) /\ tx'[n].root = n /\ tx'[n].prev = 0
      /\ tx'[n].version = 1 /\ tx'[n].current /\ tx'[n].status = "ACTIVE"
  BY <1>1, Published DEF FirstVersion, Exists, Holds
<1>4. ~Exists(tx[n]) /\ ~Holds(tx[n]) /\ n < nextId /\ 0 \notin TxId /\ n \in Nat
  BY <1>1 DEF Fresh, Exists, Holds, TxId
<1>5. \A i \in TxId : Exists(tx'[i]) <=> Exists(tx[i]) \/ i = n
  BY <1>2, <1>3
<1>6. ASSUME NEW i \in TxId PROVE Successors(i)' = Successors(i)
  <2>1. \A j \in TxId : Exists(tx'[j]) /\ tx'[j].prev = i <=> Exists(tx[j]) /\ tx[j].prev = i
    BY <1>2, <1>3, <1>4, <1>5
  <2> QED
    BY <2>1 DEF Successors
<1>7. Successors(n) = {}
  <2>1. ASSUME NEW j \in TxId, Exists(tx[j]), tx[j].prev = n PROVE FALSE
    BY <1>4, <2>1 DEF ChainIsALine
  <2> QED
    BY <2>1 DEF Successors
<1>8. ChainIsALine'
  <2> SUFFICES ASSUME NEW i \in TxId, Exists(tx'[i])
      PROVE  /\ tx'[i].current <=> tx'[i].status = "ACTIVE"
             /\ tx'[i].status = "SUPERSEDED" <=> Successors(i)' # {}
             /\ \A j, k \in Successors(i)' : j = k
             /\ \A j \in Successors(i)' :
                   /\ tx'[j].version = tx'[i].version + 1
                   /\ tx'[j].root = tx'[i].root
                   /\ tx'[j].customer = tx'[i].customer
                   /\ tx'[j].halkhata = tx'[i].halkhata
             /\ IF tx'[i].version = 1 THEN tx'[i].root = i /\ tx'[i].prev = 0
                                     ELSE tx'[i].prev \in TxId /\ Exists(tx'[tx'[i].prev])
    BY DEF ChainIsALine
  <2>1. CASE i = n
    BY <1>3, <1>6, <1>7, <2>1
  <2>2. CASE i # n
    <3>1. Exists(tx[i]) /\ tx'[i] = tx[i]
      BY <1>2, <1>5, <2>2
    <3>2. \A j \in Successors(i) : tx'[j] = tx[j] /\ j \in TxId
      BY <1>2, <1>4 DEF Successors
    <3> QED
      BY <1>5, <1>6, <3>1, <3>2 DEF ChainIsALine
  <2> QED
    BY <2>1, <2>2
<1>9. RowsInOrder'
  <2>1. \A i \in TxId : Exists(tx'[i]) =>
          i < nextId' /\ Exists(tx'[tx'[i].root]) /\ tx'[i].version # 0
    <3> SUFFICES ASSUME NEW i \in TxId, Exists(tx'[i])
        PROVE  i < nextId' /\ Exists(tx'[tx'[i].root]) /\ tx'[i].version # 0
      OBVIOUS
    <3>1. CASE i = n
      BY <1>3, <1>4, <3>1
    <3>2. CASE i # n
      <4>1. Exists(tx[i]) /\ tx'[i] = tx[i]
        BY <1>2, <1>5, <3>2
      <4>2. i < nextId /\ Exists(tx[tx[i].root]) /\ tx[i].version # 0
        BY <4>1 DEF RowsInOrder
      <4>3. tx[i].root \in TxId
        BY RowTyped
      <4>4. Exists(tx'[tx[i].root])
        BY <1>2, <1>4, <1>5, <4>2, <4>3
      <4> QED
        BY <4>1, <4>2, <4>4
    <3> QED
      BY <3>1, <3>2
  <2>2. \A i \in TxId : ~Exists(tx'[i]) => ~tx'[i].current
    BY <1>2, <1>5 DEF RowsInOrder
  <2>3. \A i \in TxId : Holds(tx[i]) => tx[i].root # n
    BY <1>4 DEF RowsInOrder, Exists, Holds
  <2>4. \A i, j \in TxId :
           Holds(tx'[i]) /\ Holds(tx'[j]) /\ tx'[i].root = tx'[j].root => i = j
    BY <1>2, <1>3, <2>3 DEF RowsInOrder
  <2> QED
    BY <2>1, <2>2, <2>4 DEF RowsInOrder
<1> QED
  BY <1>8, <1>9

LEMMA VoidingCommitted ==
    ASSUME TypeOK, ChainIsALine, RowsInOrder, NEW w \in Workers, Voids(w),
           req[w].target \in TxId, tx' = View(w), nextId' = nextId
    PROVE  ChainIsALine' /\ RowsInOrder'
<1> DEFINE s == req[w].target
<1>1. /\ \A i \in TxId \ {s} : tx'[i] = tx[i]
      /\ tx'[s] = Voided(tx[s])
      /\ Exists(tx[s]) /\ tx[s].current /\ tx[s].status = "ACTIVE"
  BY Published DEF Voids, HoldsSource, Correctable
<1>2. /\ tx'[s].status = "VOIDED" /\ tx'[s].current = FALSE
      /\ tx'[s].version = tx[s].version /\ tx'[s].root = tx[s].root
      /\ tx'[s].prev = tx[s].prev /\ tx'[s].customer = tx[s].customer
      /\ tx'[s].halkhata = tx[s].halkhata
  BY <1>1, RowTyped DEF Voided, Row
<1>3. \A i \in TxId : /\ Exists(tx'[i]) <=> Exists(tx[i])
                      /\ tx'[i].version = tx[i].version /\ tx'[i].root = tx[i].root
                      /\ tx'[i].prev = tx[i].prev /\ tx'[i].customer = tx[i].customer
                      /\ tx'[i].halkhata = tx[i].halkhata
                      /\ tx'[i].status = "SUPERSEDED" <=> tx[i].status = "SUPERSEDED"
                      /\ Exists(tx[i]) => (tx'[i].current <=> tx'[i].status = "ACTIVE")
                      /\ Holds(tx'[i]) <=> Holds(tx[i])
  BY <1>1, <1>2 DEF Exists, Holds, ChainIsALine
<1>4. \A i : Successors(i)' = Successors(i)
  BY <1>3 DEF Successors
<1>5. ChainIsALine'
  <2> SUFFICES ASSUME NEW i \in TxId, Exists(tx'[i])
      PROVE  /\ tx'[i].current <=> tx'[i].status = "ACTIVE"
             /\ tx'[i].status = "SUPERSEDED" <=> Successors(i)' # {}
             /\ \A j, k \in Successors(i)' : j = k
             /\ \A j \in Successors(i)' :
                   /\ tx'[j].version = tx'[i].version + 1
                   /\ tx'[j].root = tx'[i].root
                   /\ tx'[j].customer = tx'[i].customer
                   /\ tx'[j].halkhata = tx'[i].halkhata
             /\ IF tx'[i].version = 1 THEN tx'[i].root = i /\ tx'[i].prev = 0
                                     ELSE tx'[i].prev \in TxId /\ Exists(tx'[tx'[i].prev])
    BY DEF ChainIsALine
  <2>1. \A j \in Successors(i) : j \in TxId
    BY DEF Successors
  <2> QED
    BY <1>3, <1>4, <2>1 DEF ChainIsALine
<1>6. RowsInOrder'
  <2>1. \A i \in TxId : tx[i].root \in TxId
    BY RowTyped
  <2>2. \A i \in TxId : ~Exists(tx'[i]) => ~tx'[i].current
    BY <1>1, <1>2 DEF RowsInOrder
  <2> QED
    BY <1>3, <2>1, <2>2 DEF RowsInOrder
<1> QED
  BY <1>5, <1>6

LEMMA CorrectionCommitted ==
    ASSUME TypeOK, ChainIsALine, RowsInOrder, NEW w \in Workers, Replaces(w),
           req[w].target \in TxId, tx' = View(w), nextId' = nextId
    PROVE  ChainIsALine' /\ RowsInOrder'
<1>0. PICK s \in TxId : s = req[w].target
  OBVIOUS
<1>1. PICK n \in TxId : /\ Fresh(n) /\ DOMAIN wrote[w] = {s, n}
                        /\ wrote[w][s] = Superseded(tx[s])
                        /\ wrote[w][n] = NextVersion(req[w], tx[s])
  BY <1>0 DEF Replaces
<1>2. /\ Exists(tx[s]) /\ tx[s].current /\ tx[s].status = "ACTIVE"
      /\ ~Exists(tx[n]) /\ n < nextId /\ n # s /\ 0 \notin TxId
  BY <1>0, <1>1 DEF Replaces, HoldsSource, Correctable, Fresh, Exists, TxId
<1>3. /\ \A i \in TxId \ {s, n} : tx'[i] = tx[i]
      /\ tx'[s] = Superseded(tx[s])
      /\ tx'[n] = NextVersion(req[w], tx[s])
  BY <1>1, <1>2, Published
<1>4. /\ tx'[s].status = "SUPERSEDED" /\ tx'[s].current = FALSE
      /\ tx'[s].version = tx[s].version /\ tx'[s].root = tx[s].root
      /\ tx'[s].prev = tx[s].prev /\ tx'[s].customer = tx[s].customer
      /\ tx'[s].halkhata = tx[s].halkhata
  BY <1>3, RowTyped DEF Superseded, Row
<1>5. /\ tx'[n].status = "ACTIVE" /\ tx'[n].current = TRUE
      /\ tx'[n].version = tx[s].version + 1 /\ tx'[n].root = tx[s].root
      /\ tx'[n].prev = s /\ tx'[n].customer = tx[s].customer
      /\ tx'[n].halkhata = tx[s].halkhata
  BY <1>0, <1>3, RowTyped DEF NextVersion, Row
<1>6. \A i \in TxId \ {n} :
        /\ Exists(tx'[i]) <=> Exists(tx[i])
        /\ tx'[i].version = tx[i].version /\ tx'[i].root = tx[i].root
        /\ tx'[i].prev = tx[i].prev /\ tx'[i].customer = tx[i].customer
        /\ tx'[i].halkhata = tx[i].halkhata
        /\ Exists(tx[i]) => (tx'[i].current <=> tx'[i].status = "ACTIVE")
        /\ Holds(tx'[i]) <=> Holds(tx[i]) /\ i # s
        /\ tx'[i].status = "SUPERSEDED" <=> tx[i].status = "SUPERSEDED" \/ i = s
  BY <1>2, <1>3, <1>4 DEF Exists, Holds, ChainIsALine
<1>7. Exists(tx'[n]) /\ Holds(tx'[n])
  BY <1>5 DEF Exists, Holds
<1>8. Successors(s) = {} /\ Successors(n) = {}
  <2>1. Successors(s) = {}
    BY <1>2 DEF ChainIsALine
  <2>2. ASSUME NEW j \in TxId, Exists(tx[j]), tx[j].prev = n PROVE FALSE
    BY <1>2, <2>2 DEF ChainIsALine
  <2> QED
    BY <2>1, <2>2 DEF Successors
<1>9. Successors(s)' = {n} /\ \A i \in TxId \ {s} : Successors(i)' = Successors(i)
  <2>1. \A i, j \in TxId :
           (Exists(tx'[j]) /\ tx'[j].prev = i)
             <=> (Exists(tx[j]) /\ tx[j].prev = i /\ j # n) \/ (j = n /\ i = s)
    <3> SUFFICES ASSUME NEW i \in TxId, NEW j \in TxId
        PROVE (Exists(tx'[j]) /\ tx'[j].prev = i)
             <=> (Exists(tx[j]) /\ tx[j].prev = i /\ j # n) \/ (j = n /\ i = s)
      OBVIOUS
    <3>1. CASE j = n
      BY <1>5, <1>7, <3>1
    <3>2. CASE j # n
      BY <1>6, <3>2
    <3> QED
      BY <3>1, <3>2
  <2>2. \A j \in TxId : ~(Exists(tx[j]) /\ tx[j].prev = s)
    BY <1>8 DEF Successors
  <2>3. Successors(s)' = {n}
    BY <2>1, <2>2, <1>1 DEF Successors
  <2>4. ASSUME NEW i \in TxId \ {s} PROVE Successors(i)' = Successors(i)
    <3>1. \A j \in TxId : (Exists(tx'[j]) /\ tx'[j].prev = i)
                             <=> (Exists(tx[j]) /\ tx[j].prev = i)
      BY <1>2, <2>1, <2>4
    <3> QED
      BY <3>1 DEF Successors
  <2> QED
    BY <2>3, <2>4
<1>10. ChainIsALine'
  <2> SUFFICES ASSUME NEW i \in TxId, Exists(tx'[i])
      PROVE  /\ tx'[i].current <=> tx'[i].status = "ACTIVE"
             /\ tx'[i].status = "SUPERSEDED" <=> Successors(i)' # {}
             /\ \A j, k \in Successors(i)' : j = k
             /\ \A j \in Successors(i)' :
                   /\ tx'[j].version = tx'[i].version + 1
                   /\ tx'[j].root = tx'[i].root
                   /\ tx'[j].customer = tx'[i].customer
                   /\ tx'[j].halkhata = tx'[i].halkhata
             /\ IF tx'[i].version = 1 THEN tx'[i].root = i /\ tx'[i].prev = 0
                                     ELSE tx'[i].prev \in TxId /\ Exists(tx'[tx'[i].prev])
    BY DEF ChainIsALine
  <2>1. CASE i = n
    <3>1. tx'[n].version # 1
      <4>1. tx[s].version \in Nat /\ tx[s].version # 0
        BY <1>2, RowTyped DEF RowsInOrder
      <4> QED
        BY <1>5, <4>1
    <3>2. n \in TxId \ {s} /\ s \in TxId \ {n}
      BY <1>2, <1>1
    <3>3. Successors(n)' = {} /\ Exists(tx'[s])
      BY <1>2, <1>6, <1>8, <1>9, <3>2
    <3>4. /\ tx'[n].current <=> tx'[n].status = "ACTIVE"
          /\ tx'[n].status = "SUPERSEDED" <=> Successors(n)' # {}
      BY <1>5, <3>3
    <3> QED
      BY <1>5, <2>1, <3>1, <3>2, <3>3, <3>4
  <2>2. CASE i = s
    <3>1. \A j \in Successors(s)' : j = n
      BY <1>9
    <3>2. tx'[s].version = 1 => tx'[s].root = s /\ tx'[s].prev = 0
      BY ZenonT(60), <1>2, <1>4 DEF ChainIsALine
    <3>3. tx'[s].version # 1 => tx'[s].prev \in TxId /\ Exists(tx'[tx'[s].prev])
      BY <1>2, <1>4, <1>6, <1>7 DEF ChainIsALine
    <3>4. /\ tx'[s].current <=> tx'[s].status = "ACTIVE"
          /\ tx'[s].status = "SUPERSEDED" <=> Successors(s)' # {}
      BY <1>4, <1>9
    <3>5. /\ tx'[n].version = tx'[s].version + 1 /\ tx'[n].root = tx'[s].root
          /\ tx'[n].customer = tx'[s].customer /\ tx'[n].halkhata = tx'[s].halkhata
      BY <1>4, <1>5
    <3> QED
      BY <2>2, <3>1, <3>2, <3>3, <3>4, <3>5
  <2>3. CASE i \notin {s, n}
    <3>1. Exists(tx[i]) /\ tx'[i] = tx[i]
      BY <1>3, <1>6, <2>3
    <3>2. \A j \in Successors(i) : j \in TxId \ {n}
      BY <1>2 DEF Successors
    <3> QED
      BY <1>6, <1>7, <1>9, <2>3, <3>1, <3>2 DEF ChainIsALine
  <2> QED
    BY <2>1, <2>2, <2>3
<1>11. RowsInOrder'
  <2>1. \A i \in TxId : tx[i].root \in TxId
    BY RowTyped
  <2>2. s \in TxId /\ Holds(tx[s])
    BY <1>2 DEF Holds
  <2>3. \A i \in TxId : Exists(tx'[i]) =>
          i < nextId' /\ Exists(tx'[tx'[i].root]) /\ tx'[i].version # 0
    BY <1>2, <1>5, <1>6, <1>7, <2>1, <2>2, RowTyped DEF RowsInOrder
  <2>4. \A i \in TxId : ~Exists(tx'[i]) => ~tx'[i].current
    BY <1>3, <1>4, <1>6, <1>7 DEF RowsInOrder
  <2>5. \A i, j \in TxId :
           Holds(tx'[i]) /\ Holds(tx'[j]) /\ tx'[i].root = tx'[j].root => i = j
    BY <1>5, <1>6, <2>2 DEF RowsInOrder
  <2> QED
    BY <2>3, <2>4, <2>5 DEF RowsInOrder
<1> QED
  BY <1>10, <1>11

LEMMA CommitKeepsChains ==
    ASSUME TypeOK, ChainInvariant, NEW w \in Workers, CommitBalance(w)
    PROVE  ChainInvariant'
<1>1. pc[w] = "ready" /\ req[w].op \in BalanceOps /\ tx' = View(w)
      /\ Finish(w) /\ nextId' = nextId
  BY DEF CommitBalance
<1>2. ChainIsALine /\ RowsInOrder /\ WritesUnderway(w)
  BY DEF ChainInvariant
<1>3. ChainIsALine' /\ RowsInOrder'
  <2>1. CASE req[w].op = "rebuild"
    <3>1. DOMAIN wrote[w] = {}
      BY <1>2, <2>1 DEF WritesUnderway, HasWritten, LedgerOps
    <3>2. tx' = tx /\ nextId \in Nat
      BY <1>1, <3>1 DEF View, TypeOK, TablesTyped
    <3> QED
      BY <1>1, <1>2, <3>2, RowsStay
  <2>2. CASE req[w].op \in {"create", "pay"}
    <3>1. Opens(w)
      BY <1>1, <1>2, <2>2 DEF WritesUnderway, HasWritten, LedgerOps
    <3> QED
      BY <1>1, <1>2, <3>1, OpeningCommitted
  <2>3. CASE req[w].op \in {"correct", "void"}
    <3>1. req[w].target \in TxId
      BY <2>3 DEF TypeOK, RequestsTyped
    <3>2. Replaces(w) \/ Voids(w)
      BY <1>1, <1>2, <2>3 DEF WritesUnderway, HasWritten, LedgerOps
    <3> QED
      BY <1>1, <1>2, <3>1, <3>2, CorrectionCommitted, VoidingCommitted
  <2> QED
    BY <1>1, <2>1, <2>2, <2>3 DEF BalanceOps, LedgerOps
<1>4. ASSUME NEW v \in Workers \ {w}, NEW i \in TxId, i \in DOMAIN wrote[v]
      PROVE  tx'[i] = tx[i]
  BY <1>1, <1>4, Published DEF ChainInvariant
<1> QED
  BY <1>1, <1>3, <1>4, FinishedWrites DEF ChainInvariant

-----------------------------------------------------------------------------
(* Every step preserves the invariant.                                     *)

LEMMA ReceiveKeepsChains ==
    ASSUME TypeOK, ChainInvariant, NEW w \in Workers, NEW q, NEW s, Begin(w, q, s)
    PROVE  ChainInvariant'
<1>1. UNCHANGED <<tx, nextId, txLock, wrote>> /\ pc[w] = "idle"
  BY DEF Begin, tables, locks
<1>2. pc'[w] = "received"
      /\ \A v \in Workers \ {w} : pc'[v] = pc[v] /\ req'[v] = req[v]
  BY DEF Begin, TypeOK, RequestsTyped
<1>3. \A v \in Workers : /\ HasWritten(v)' <=> HasWritten(v)
                         /\ HasWritten(v) => req'[v] = req[v]
  BY <1>1, <1>2 DEF HasWritten
<1> QED
  BY <1>1, <1>3, PrivateStep

LEMMA SumKeepsChains ==
    ASSUME TypeOK, ChainInvariant, NEW w \in Workers, SumLedger(w)
    PROVE  ChainInvariant'
<1>1. UNCHANGED <<tx, nextId, txLock, wrote, req>>
  BY DEF SumLedger, tables, locks
<1>2. /\ pc[w] = "written" \/ req[w].op = "rebuild"
      /\ pc'[w] = "summed" /\ \A v \in Workers \ {w} : pc'[v] = pc[v]
  BY DEF SumLedger, TypeOK, RequestsTyped
<1>3. \A v \in Workers : HasWritten(v)' <=> HasWritten(v)
  <2>1. HasWritten(w)' <=> HasWritten(w)
    BY <1>1, <1>2 DEF HasWritten, LedgerOps, SumLedger
  <2> QED
    BY <1>1, <1>2, <2>1 DEF HasWritten
<1> QED
  BY <1>1, <1>3, PrivateStep

\* The row locks on customers and halkhatas, and the reads under them.
LEMMA OtherLocksKeepChains ==
    ASSUME TypeOK, ChainInvariant, NEW w \in Workers,
           UpdateBalance(w) \/ LockCustomer(w) \/ LockHalkhata(w)
    PROVE  ChainInvariant'
<1>1. UNCHANGED <<tx, nextId, txLock, wrote, req>>
  BY DEF UpdateBalance, LockCustomer, LockHalkhata, tables
<1>2. /\ pc[w] = "summed" \/ req[w].op \notin LedgerOps
      /\ pc'[w] = "ready" /\ \A v \in Workers \ {w} : pc'[v] = pc[v]
  BY DEF UpdateBalance, LockCustomer, LockHalkhata, CustomerFree,
         TypeOK, RequestsTyped, LedgerOps, CustomerOps
<1>3. \A v \in Workers : HasWritten(v)' <=> HasWritten(v)
  BY <1>1, <1>2 DEF HasWritten
<1> QED
  BY <1>1, <1>3, PrivateStep

LEMMA ChainStep ==
    ASSUME TypeOK, ChainInvariant, [Next]_vars
    PROVE  ChainInvariant'
<1>1. CASE UNCHANGED vars
  <2>1. UNCHANGED <<tx, nextId, txLock, wrote, pc, req>> /\ nextId \in Nat
    BY <1>1 DEF vars, tables, locks, TypeOK, TablesTyped
  <2>2. ChainIsALine' /\ RowsInOrder'
    BY <2>1, RowsStay DEF ChainInvariant
  <2>3. ASSUME NEW v \in Workers PROVE WritesUnderway(v)'
    BY <2>1, <2>3, WritesStay, TargetTyped DEF ChainInvariant, HasWritten
  <2>4. \A u, v \in Workers : u # v => DOMAIN wrote'[u] \cap DOMAIN wrote'[v] = {}
    BY <2>1 DEF ChainInvariant
  <2> QED
    BY <2>2, <2>3, <2>4 DEF ChainInvariant
<1>2. CASE Next
  <2> SUFFICES ASSUME NEW w \in Workers, Receive(w) \/ Proceed(w) \/ Abort(w)
      PROVE  ChainInvariant'
    BY <1>2 DEF Next
  <2>1. CASE Receive(w)
    BY <2>1, ReceiveKeepsChains
       DEF Receive, ReceiveCreate, ReceivePayment, ReceiveCorrection, ReceiveVoid,
           ReceiveOnCustomer, ReceiveRebuild, ReceiveHalkhataUpdate
  <2>2. CASE Insert(w)
    BY <2>2, InsertKeepsChains
  <2>3. CASE Correct(w)
    BY <2>3, CorrectKeepsChains
  <2>4. CASE Void(w)
    BY <2>4, VoidKeepsChains
  <2>5. CASE SumLedger(w)
    BY <2>5, SumKeepsChains
  <2>6. CASE UpdateBalance(w) \/ LockCustomer(w) \/ LockHalkhata(w)
    BY <2>6, OtherLocksKeepChains
  <2>7. CASE CommitBalance(w)
    BY <2>7, CommitKeepsChains
  <2>8. CASE RefuseInsert(w) \/ RefuseSource(w) \/ RefuseCustomer(w) \/ Abort(w)
    BY <2>8, EndKeepsRows
       DEF RefuseInsert, RefuseSource, RefuseCustomer, Abort, Refuse, tables
  <2>9. CASE CommitArchive(w) \/ CommitCustomer(w) \/ CommitHalkhata(w)
    BY <2>9, EndKeepsRows DEF CommitArchive, CommitCustomer, CommitHalkhata
  <2> QED
    BY <2>1, <2>2, <2>3, <2>4, <2>5, <2>6, <2>7, <2>8, <2>9 DEF Proceed
<1> QED
  BY <1>1, <1>2

-----------------------------------------------------------------------------
(* The theorems.                                                           *)

(* However the requests of any number of workers interleave, fail or wait, the    *)
(* committed chains are lines and every request that has written extends them:    *)
(* the row locks and the check under them are enough.                             *)
THEOREM ChainsStayInOrder == Spec => []ChainInvariant
<1>1. TypeOK /\ ChainInvariant /\ [Next]_vars => ChainInvariant'
  BY ChainStep
<1> QED
  BY <1>1, ChainInit, TypeCorrect, PTL DEF Spec

(* No two corrections, and no correction and void, of the same version both win:  *)
(* every row is replaced at most once, by the next version of its own chain.      *)
THEOREM ChainsAreLines == Spec => []ChainIsALine
<1>1. ChainInvariant => ChainIsALine
  BY DEF ChainInvariant
<1> QED
  BY <1>1, ChainsStayInOrder, PTL

(* uniq_current_transaction_per_root never rejects a commit: a chain has at most  *)
(* one current row at any moment.                                                 *)
THEOREM CurrentRowsAreUnique == Spec => []OneCurrentPerRoot
<1>1. ASSUME ChainInvariant PROVE OneCurrentPerRoot
  <2>1. \A i \in TxId : tx[i].current => Holds(tx[i])
    BY <1>1 DEF ChainInvariant, RowsInOrder, ChainIsALine, Holds
  <2> QED
    BY <1>1, <2>1 DEF ChainInvariant, RowsInOrder, OneCurrentPerRoot
<1> QED
  BY <1>1, ChainsStayInOrder, PTL

\* Only a commit that syncs a balance writes transaction rows.
LEMMA OnlyCommitsWriteRows ==
    ASSUME TypeOK, [Next]_vars, tx' # tx
    PROVE  \E w \in Workers : CommitBalance(w)
<1>1. PICK w \in Workers : Receive(w) \/ Proceed(w) \/ Abort(w)
  BY DEF Next, vars, tables
<1>2. ~Receive(w)
  BY DEF Receive, ReceiveCreate, ReceivePayment, ReceiveCorrection, ReceiveVoid,
         ReceiveOnCustomer, ReceiveRebuild, ReceiveHalkhataUpdate, Begin, tables
<1>3. ~Abort(w)
  BY DEF Abort, Refuse, tables
<1>4. Proceed(w) => CommitBalance(w)
  BY DEF Proceed, Insert, RefuseInsert, Correct, Void, RefuseSource, SumLedger,
         UpdateBalance, LockCustomer, RefuseCustomer, CommitArchive, CommitCustomer,
         LockHalkhata, CommitHalkhata, Refuse, tables
<1> QED
  BY <1>1, <1>2, <1>3, <1>4

\* What a commit may do to a row that was there before.
LEMMA CommittedRowKept ==
    ASSUME TypeOK, ChainInvariant, NEW w \in Workers, CommitBalance(w),
           NEW i \in TxId, Exists(tx[i]), tx'[i] # tx[i]
    PROVE  /\ tx[i].status = "ACTIVE"
           /\ tx'[i] = Superseded(tx[i]) \/ tx'[i] = Voided(tx[i])
<1>1. tx' = View(w) /\ pc[w] = "ready" /\ WritesUnderway(w)
  BY DEF CommitBalance, ChainInvariant
<1>2. i \in DOMAIN wrote[w] /\ tx'[i] = wrote[w][i]
  BY <1>1, Published
<1>3. HasWritten(w)
  BY <1>1, <1>2 DEF WritesUnderway
<1>4. CASE Opens(w)
  BY <1>2, <1>4 DEF Opens, Fresh
<1>5. CASE Replaces(w)
  BY <1>2, <1>5 DEF Replaces, HoldsSource, Correctable, Fresh
<1>6. CASE Voids(w)
  BY <1>2, <1>6 DEF Voids, HoldsSource, Correctable
<1> QED
  BY <1>1, <1>3, <1>4, <1>5, <1>6 DEF WritesUnderway, HasWritten, LedgerOps

(* A version, once committed, is history: nothing in it ever changes but its      *)
(* status, and that once, when it is replaced or voided.                          *)
THEOREM VersionsAreHistory == Spec => HistoryIsAppendOnly
<1>1. ASSUME TypeOK, ChainInvariant, [Next]_vars
      PROVE  [\A i \in TxId : Exists(tx[i]) =>
                /\ tx'[i] = [tx[i] EXCEPT !.status = tx'[i].status,
                                          !.current = tx'[i].current]
                /\ tx'[i] # tx[i] => /\ tx[i].status = "ACTIVE"
                                     /\ tx'[i].status \in {"SUPERSEDED", "VOIDED"}]_vars
  <2> SUFFICES ASSUME NEW i \in TxId, Exists(tx[i])
      PROVE  /\ tx'[i] = [tx[i] EXCEPT !.status = tx'[i].status,
                                       !.current = tx'[i].current]
             /\ tx'[i] # tx[i] => /\ tx[i].status = "ACTIVE"
                                  /\ tx'[i].status \in {"SUPERSEDED", "VOIDED"}
    OBVIOUS
  <2>1. tx[i] \in Row
    BY <1>1, RowTyped
  <2>2. CASE tx'[i] = tx[i]
    BY <2>1, <2>2 DEF Row
  <2>3. CASE tx'[i] # tx[i]
    <3>1. PICK w \in Workers : CommitBalance(w)
      BY <1>1, <2>3, OnlyCommitsWriteRows
    <3>2. tx[i].status = "ACTIVE" /\ (tx'[i] = Superseded(tx[i]) \/ tx'[i] = Voided(tx[i]))
      BY <1>1, <2>3, <3>1, CommittedRowKept
    <3> QED
      BY <2>1, <3>2 DEF Superseded, Voided, Row
  <2> QED
    BY <2>2, <2>3
<1> QED
  BY <1>1, ChainsStayInOrder, TypeCorrect, PTL DEF Spec, HistoryIsAppendOnly

-----------------------------------------------------------------------------
(* What a step makes of the committed rows: nothing, or one chain opened,  *)
(* extended or voided.                                                     *)

OthersKept(S) == \A i \in TxId \ S : tx'[i] = tx[i]

OpenedAs(n, q) ==
    ~Exists(tx[n]) /\ tx'[n] = FirstVersion(q, n) /\ OthersKept({n})

ReplacedAs(i, n, q) ==
    /\ Exists(tx[i]) /\ Correctable(tx[i]) /\ ~Exists(tx[n])
    /\ tx'[i] = Superseded(tx[i]) /\ tx'[n] = NextVersion(q, tx[i])
    /\ OthersKept({i, n})

VoidedAs(i) ==
    Exists(tx[i]) /\ Correctable(tx[i]) /\ tx'[i] = Voided(tx[i]) /\ OthersKept({i})

LEMMA RowsMove ==
    ASSUME TypeOK, ChainInvariant, [Next]_vars, tx' # tx
    PROVE  \/ \E n \in TxId, w \in Workers : OpenedAs(n, req[w])
           \/ \E i, n \in TxId, w \in Workers : ReplacedAs(i, n, req[w])
           \/ \E i \in TxId : VoidedAs(i)
<1>1. PICK w \in Workers : CommitBalance(w)
  BY OnlyCommitsWriteRows
<1>2. tx' = View(w) /\ pc[w] = "ready" /\ WritesUnderway(w)
  BY <1>1 DEF CommitBalance, ChainInvariant
<1>3. HasWritten(w)
  <2>1. DOMAIN wrote[w] # {}
    BY <1>2 DEF View, TypeOK, TablesTyped
  <2> QED
    BY <1>2, <2>1 DEF WritesUnderway
<1>4. CASE Opens(w)
  <2>1. PICK n \in TxId : Fresh(n) /\ DOMAIN wrote[w] = {n}
                          /\ wrote[w][n] = FirstVersion(req[w], n)
    BY <1>4 DEF Opens
  <2>2. OpenedAs(n, req[w])
    BY <1>2, <2>1, Published DEF OpenedAs, OthersKept, Fresh
  <2> QED
    BY <2>2
<1>5. CASE Replaces(w)
  <2> DEFINE i == req[w].target
  <2>1. PICK n \in TxId : Fresh(n) /\ DOMAIN wrote[w] = {i, n}
                          /\ wrote[w][i] = Superseded(tx[i])
                          /\ wrote[w][n] = NextVersion(req[w], tx[i])
    BY <1>5 DEF Replaces
  <2>2. HoldsSource(w) /\ i \in TxId
    BY <1>5, <2>1 DEF Replaces, TypeOK, WritesTyped
  <2>3. ReplacedAs(i, n, req[w])
    BY <1>2, <2>1, <2>2, Published DEF ReplacedAs, OthersKept, Fresh, HoldsSource
  <2> QED
    BY <2>2, <2>3
<1>6. CASE Voids(w)
  <2> DEFINE i == req[w].target
  <2>1. HoldsSource(w) /\ i \in TxId /\ DOMAIN wrote[w] = {i} /\ wrote[w][i] = Voided(tx[i])
    BY <1>6 DEF Voids, TypeOK, WritesTyped
  <2>2. VoidedAs(i)
    BY <1>2, <2>1, Published DEF VoidedAs, OthersKept, HoldsSource
  <2> QED
    BY <2>1, <2>2
<1> QED
  BY <1>2, <1>3, <1>4, <1>5, <1>6 DEF WritesUnderway, HasWritten, LedgerOps

\* The source of a replacement, and the row made of it.
LEMMA ReplacedRows ==
    ASSUME TypeOK, TypeOK', ChainInvariant,
           NEW i \in TxId, NEW n \in TxId, NEW q, ReplacedAs(i, n, q)
    PROVE  /\ i # n /\ Holds(tx[i]) /\ ~Holds(tx'[i]) /\ Exists(tx'[i]) /\ Holds(tx'[n])
           /\ tx[i].version \in Nat /\ tx'[n].version = tx[i].version + 1
           /\ tx'[i].version = tx[i].version
           /\ tx'[i].root = tx[i].root /\ tx'[n].root = tx[i].root
           /\ tx[i].status = "ACTIVE" /\ tx'[n].status = "ACTIVE" /\ tx'[i].status = "SUPERSEDED"
           /\ tx'[n].customer = tx[i].customer /\ tx'[n].halkhata = tx[i].halkhata
  BY RowTyped DEF ReplacedAs, Row, Superseded, NextVersion, Holds, Exists, Correctable

LEMMA VoidedRows ==
    ASSUME TypeOK, NEW i \in TxId, VoidedAs(i)
    PROVE  /\ tx[i].status = "ACTIVE" /\ Holds(tx[i]) /\ Holds(tx'[i]) /\ Exists(tx'[i])
           /\ tx'[i].status = "VOIDED"
           /\ tx'[i].version = tx[i].version /\ tx'[i].root = tx[i].root
           /\ tx'[i].customer = tx[i].customer /\ tx'[i].halkhata = tx[i].halkhata
           /\ tx'[i].type = tx[i].type /\ tx'[i].amount = tx[i].amount
  BY RowTyped DEF VoidedAs, Row, Voided, Holds, Exists, Correctable

-----------------------------------------------------------------------------
(* The newest version of a chain is its tip.                               *)

LEMMA TipInit == Init => TipsLead
  BY DEF Init, TipsLead, Chain, Exists, NoRow

LEMMA TipStep ==
    ASSUME TypeOK, TypeOK', ChainInvariant, TipsLead, [Next]_vars
    PROVE  TipsLead'
<1> SUFFICES ASSUME NEW r \in TxId, Chain(tx', r) # {}
    PROVE  \E t \in Chain(tx', r) : LeadsIn(tx', r, t)
  BY DEF TipsLead
<1>0. \A i \in TxId : tx[i].root \in TxId /\ tx[i].version \in Nat
  BY RowTyped
<1>1. CASE tx' = tx
  BY <1>1 DEF TipsLead
<1>2. ASSUME NEW n \in TxId, NEW w \in Workers, OpenedAs(n, req[w])
      PROVE  \E t \in Chain(tx', r) : LeadsIn(tx', r, t)
  <2>1. tx'[n].root = n /\ Exists(tx'[n]) /\ Holds(tx'[n])
    BY <1>2 DEF OpenedAs, FirstVersion, Exists, Holds
  <2>2. \A i \in TxId \ {n} : tx'[i] = tx[i]
    BY <1>2 DEF OpenedAs, OthersKept
  <2>3. \A i \in TxId : Exists(tx[i]) => tx[i].root # n
    BY <1>2 DEF OpenedAs, ChainInvariant, RowsInOrder
  <2>4. CASE r = n
    <3>1. Chain(tx', r) = {n}
      BY <2>1, <2>2, <2>3, <2>4 DEF Chain
    <3> QED
      BY <2>1, <3>1 DEF LeadsIn
  <2>5. CASE r # n
    <3>1. Chain(tx', r) = Chain(tx, r) /\ n \notin Chain(tx, r)
      BY <1>2, <2>1, <2>2, <2>5 DEF Chain, OpenedAs
    <3>2. PICK t \in Chain(tx, r) : LeadsIn(tx, r, t)
      BY <3>1 DEF TipsLead
    <3> QED
      BY <2>2, <3>1, <3>2 DEF LeadsIn, Chain
  <2> QED
    BY <2>4, <2>5
<1>3. ASSUME NEW i \in TxId, NEW n \in TxId, NEW w \in Workers, ReplacedAs(i, n, req[w])
      PROVE  \E t \in Chain(tx', r) : LeadsIn(tx', r, t)
  <2> DEFINE s == tx[i].root
  <2>1. /\ i # n /\ Holds(tx[i]) /\ Exists(tx'[i]) /\ Holds(tx'[n])
        /\ tx'[n].version = tx[i].version + 1 /\ tx'[i].version = tx[i].version
        /\ tx'[i].root = s /\ tx'[n].root = s
    BY <1>3, ReplacedRows
  <2>2. (\A j \in TxId \ {i, n} : tx'[j] = tx[j]) /\ Exists(tx[i]) /\ ~Exists(tx[n])
    BY <1>3 DEF ReplacedAs, OthersKept
  <2>3. Exists(tx'[n])
    BY <2>1 DEF Exists, Holds
  <2>4. CASE r = s
    <3>1. Chain(tx', r) = Chain(tx, r) \cup {n} /\ n \notin Chain(tx, r) /\ i \in Chain(tx, r)
      BY <2>1, <2>2, <2>3, <2>4 DEF Chain
    <3>2. PICK t \in Chain(tx, r) : LeadsIn(tx, r, t)
      BY <3>1 DEF TipsLead
    <3>3. t = i
      BY <2>1, <2>4, <3>2 DEF LeadsIn, Chain, ChainInvariant, RowsInOrder
    <3>4. ASSUME NEW j \in Chain(tx', r) \ {n} PROVE tx'[j].version < tx'[n].version
      <4>1. j = i \/ (tx[j].version < tx[i].version /\ tx'[j] = tx[j] /\ j \in TxId)
        BY <2>2, <3>1, <3>2, <3>3, <3>4 DEF LeadsIn, Chain
      <4> QED
        BY <1>0, <2>1, <4>1
    <3> QED
      BY <2>1, <3>1, <3>4 DEF LeadsIn
  <2>5. CASE r # s
    <3>1. Chain(tx', r) = Chain(tx, r) /\ n \notin Chain(tx, r) /\ i \notin Chain(tx, r)
      BY <2>1, <2>2, <2>5 DEF Chain
    <3>2. PICK t \in Chain(tx, r) : LeadsIn(tx, r, t)
      BY <3>1 DEF TipsLead
    <3> QED
      BY <2>2, <3>1, <3>2 DEF LeadsIn, Chain
  <2> QED
    BY <2>4, <2>5
<1>4. ASSUME NEW i \in TxId, VoidedAs(i)
      PROVE  \E t \in Chain(tx', r) : LeadsIn(tx', r, t)
  <2>1. /\ Holds(tx[i]) /\ Holds(tx'[i]) /\ Exists(tx'[i]) /\ Exists(tx[i])
        /\ tx'[i].version = tx[i].version /\ tx'[i].root = tx[i].root
        /\ \A j \in TxId \ {i} : tx'[j] = tx[j]
    BY <1>4, VoidedRows DEF VoidedAs, OthersKept
  <2>2. Chain(tx', r) = Chain(tx, r)
    BY <2>1 DEF Chain
  <2>3. PICK t \in Chain(tx, r) : LeadsIn(tx, r, t)
    BY <2>2 DEF TipsLead
  <2>4. \A j \in Chain(tx, r) : tx'[j].version = tx[j].version /\ (Holds(tx'[j]) <=> Holds(tx[j]))
    BY <2>1 DEF Chain
  <2> QED
    BY <2>2, <2>3, <2>4 DEF LeadsIn
<1> QED
  BY <1>1, <1>2, <1>3, <1>4, RowsMove

(* A chain never loses its tip: as long as it has rows, one of them was replaced   *)
(* by nothing, and all the others have lower version numbers.                      *)
THEOREM ChainsHaveTips == Spec => []TipsLead
<1>1. TypeOK /\ TypeOK' /\ ChainInvariant /\ TipsLead /\ [Next]_vars => TipsLead'
  BY TipStep
<1> QED
  BY <1>1, TipInit, ChainsStayInOrder, TypeCorrect, PTL DEF Spec

LEMMA LatestLeads ==
    ASSUME TypeOK, ChainInvariant, NEW r \in TxId, NEW t \in Chain(tx, r), LeadsIn(tx, r, t)
    PROVE  Latest(tx, r) = t
<1>1. \A i \in Chain(tx, r) : i \in TxId /\ tx[i].version \in Nat
  BY RowTyped DEF Chain
<1>2. \A j \in Chain(tx, r) \ {t} : tx[j].version < tx[t].version
  BY DEF LeadsIn
<1>3. ASSUME NEW i \in Chain(tx, r),
             \A j \in Chain(tx, r) \ {i} :
                \/ tx[j].version < tx[i].version
                \/ tx[j].version = tx[i].version /\ j < i
      PROVE  i = t
  BY <1>1, <1>2, <1>3
<1> QED
  BY <1>2, <1>3 DEF Latest

(* What get_chain_latest_version finds by its numbers is the version that nothing  *)
(* replaced, and no other row of the chain counts for the balance.                 *)
THEOREM LatestVersionIsTheTip == Spec => []LatestIsTheTip
<1>1. ASSUME TypeOK, ChainInvariant, TipsLead PROVE LatestIsTheTip
  <2> SUFFICES ASSUME NEW i \in TxId, Exists(tx[i])
      PROVE  /\ Successors(Latest(tx, tx[i].root)) = {}
             /\ \A j \in Chain(tx, tx[i].root) : CountsNow(tx[j]) => j = Latest(tx, tx[i].root)
    BY DEF LatestIsTheTip
  <2>1. tx[i].root \in TxId /\ i \in Chain(tx, tx[i].root)
    BY <1>1, RowTyped DEF Chain
  <2>2. PICK t \in Chain(tx, tx[i].root) : LeadsIn(tx, tx[i].root, t)
    BY <1>1, <2>1 DEF TipsLead
  <2>3. Latest(tx, tx[i].root) = t
    BY <1>1, <2>1, <2>2, LatestLeads
  <2>4. Holds(tx[t]) /\ t \in TxId /\ Exists(tx[t]) /\ tx[t].root = tx[i].root
    BY <2>2 DEF LeadsIn, Chain
  <2>5. Successors(t) = {}
    BY <1>1, <2>4 DEF Holds, ChainInvariant, ChainIsALine
  <2>6. \A j \in Chain(tx, tx[i].root) : CountsNow(tx[j]) => j = t
    BY <1>1, <2>4 DEF CountsNow, Holds, Chain, ChainInvariant, RowsInOrder
  <2> QED
    BY <2>3, <2>5, <2>6
<1> QED
  BY <1>1, ChainsHaveTips, ChainsStayInOrder, TypeCorrect, PTL

-----------------------------------------------------------------------------
(* The rows implement the book.                                            *)

\* The content of an entry, given the row of its chain that nothing replaced.
ContentOf(t) ==
    [state |-> IF t.status = "ACTIVE" THEN "open" ELSE "voided",
     customer |-> t.customer, halkhata |-> t.halkhata,
     type |-> t.type, amount |-> t.amount, versions |-> t.version]

LEMMA ContentTyped == \A t \in Row : ContentOf(t) \in Book!Content
  BY DEF Row, ContentOf, Book!Content

LEMMA EntryOfChain ==
    ASSUME TypeOK, ChainInvariant, NEW e \in TxId, NEW t \in TxId,
           Exists(tx[t]), Holds(tx[t]), tx[t].root = e
    PROVE  Entry(e) = ContentOf(tx[t])
<1>1. t \in Chain(tx, e) /\ tx[t].status # "SUPERSEDED"
  BY DEF Chain, Holds
<1>2. ASSUME NEW i \in Chain(tx, e), tx[i].status # "SUPERSEDED" PROVE i = t
  <2>1. i \in TxId /\ Exists(tx[i]) /\ tx[i].root = e /\ tx[i].status \in Statuses
    BY RowTyped DEF Chain
  <2> QED
    BY <1>2, <2>1 DEF Holds, Exists, Statuses, ChainInvariant, RowsInOrder
<1>3. Tip(e) = t
  BY <1>1, <1>2 DEF Tip
<1> QED
  BY <1>1, <1>3 DEF Entry, ContentOf

LEMMA EntryOfNextChain ==
    ASSUME TypeOK', ChainInvariant', NEW e \in TxId, NEW t \in TxId,
           Exists(tx'[t]), Holds(tx'[t]), tx'[t].root = e
    PROVE  Entry(e)' = ContentOf(tx'[t])
<1>0. \A i \in TxId : tx'[i].status \in Statuses
  BY DEF TypeOK, TablesTyped, Row
<1>1. t \in Chain(tx', e) /\ tx'[t].status # "SUPERSEDED"
  BY DEF Chain, Holds
<1>2. ASSUME NEW i \in Chain(tx', e), tx'[i].status # "SUPERSEDED" PROVE i = t
  <2>1. i \in TxId /\ Exists(tx'[i]) /\ tx'[i].root = e /\ tx'[i].status \in Statuses
    BY <1>0 DEF Chain
  <2> QED
    BY <1>2, <2>1 DEF Holds, Exists, Statuses, ChainInvariant, RowsInOrder
<1>3. Tip(e)' = t
  BY <1>1, <1>2 DEF Tip
<1> QED
  BY <1>1, <1>3 DEF Entry, ContentOf

\* An entry none of whose rows a step touches reads as before.
LEMMA EntryKept ==
    ASSUME TypeOK, ChainInvariant, TipsLead, TypeOK', ChainInvariant',
           NEW e \in TxId, Chain(tx', e) = Chain(tx, e),
           \A i \in Chain(tx, e) : tx'[i] = tx[i]
    PROVE  Entry(e)' = Entry(e)
<1>1. CASE Chain(tx, e) = {}
  BY <1>1 DEF Entry
<1>2. CASE Chain(tx, e) # {}
  <2>1. PICK t \in Chain(tx, e) : LeadsIn(tx, e, t)
    BY <1>2 DEF TipsLead
  <2>2. t \in TxId /\ Exists(tx[t]) /\ Holds(tx[t]) /\ tx[t].root = e /\ tx'[t] = tx[t]
    BY <2>1 DEF Chain, LeadsIn
  <2>3. Entry(e) = ContentOf(tx[t])
    BY <2>2, EntryOfChain
  <2>4. Entry(e)' = ContentOf(tx'[t])
    BY <2>2, EntryOfNextChain
  <2> QED
    BY <2>2, <2>3, <2>4
<1> QED
  BY <1>1, <1>2

LEMMA NextEntryTyped ==
    ASSUME TypeOK', ChainInvariant', TipsLead', NEW e \in TxId
    PROVE  Entry(e)' \in Book!Content \cup {Book!Blank}
<1>1. CASE Chain(tx', e) = {}
  BY <1>1 DEF Entry, Book!Blank
<1>2. CASE Chain(tx', e) # {}
  <2>1. PICK t \in Chain(tx', e) : LeadsIn(tx', e, t)
    BY <1>2 DEF TipsLead
  <2>2. t \in TxId /\ Exists(tx'[t]) /\ Holds(tx'[t]) /\ tx'[t].root = e
    BY <2>1 DEF Chain, LeadsIn
  <2>3. Entry(e)' = ContentOf(tx'[t]) /\ tx'[t] \in Row
    BY <2>2, EntryOfNextChain DEF TypeOK, TablesTyped
  <2> QED
    BY <2>3 DEF ContentOf, Book!Content, Row
<1> QED
  BY <1>1, <1>2

\* The rows of an untouched chain, when a step writes rows of chain r alone.
LEMMA OtherEntriesKept ==
    ASSUME TypeOK, ChainInvariant, TipsLead, TypeOK', ChainInvariant', TipsLead',
           NEW S \in SUBSET TxId, OthersKept(S), NEW r \in TxId,
           \A i \in S : Exists(tx[i]) => tx[i].root = r,
           \A i \in S : Exists(tx'[i]) => tx'[i].root = r
    PROVE  Book!Write(r)
<1>1. ASSUME NEW e \in TxId \ {r} PROVE Entry(e)' = Entry(e)
  <2>1. \A i \in TxId : (i \in Chain(tx', e) <=> i \in Chain(tx, e))
                        /\ (i \in Chain(tx, e) => tx'[i] = tx[i])
    BY <1>1 DEF OthersKept, Chain
  <2>2. Chain(tx', e) = Chain(tx, e) /\ \A i \in Chain(tx, e) : tx'[i] = tx[i]
    BY <2>1 DEF Chain
  <2> QED
    BY <2>2, EntryKept
<1>2. ASSUME NEW e \in TxId PROVE Entry(e)' \in Book!Content \cup {Book!Blank}
  BY NextEntryTyped
<1> QED
  BY <1>1, <1>2 DEF Book!Write, Book!TypeOK

LEMMA OpeningOpens ==
    ASSUME TypeOK, ChainInvariant, TipsLead, TypeOK', ChainInvariant', TipsLead',
           NEW n \in TxId, NEW q, OpenedAs(n, q)
    PROVE  Book!Open(n)
<1>1. /\ ~Exists(tx[n]) /\ OthersKept({n})
      /\ tx'[n].root = n /\ Exists(tx'[n]) /\ Holds(tx'[n])
      /\ tx'[n].status = "ACTIVE" /\ tx'[n].version = 1
  BY DEF OpenedAs, FirstVersion, Exists, Holds
<1>2. Chain(tx, n) = {}
  BY <1>1 DEF Chain, ChainInvariant, RowsInOrder
<1>3. Entry(n) = Book!Blank
  BY <1>2 DEF Entry, Book!Blank
<1>4. Entry(n)' = ContentOf(tx'[n])
  BY <1>1, EntryOfNextChain
<1>5. Entry(n)'.state = "open" /\ Entry(n)'.versions = 1
  BY <1>1, <1>4 DEF ContentOf
<1>6. Book!Write(n)
  BY <1>1, OtherEntriesKept
<1> QED
  BY <1>3, <1>5, <1>6 DEF Book!Open

\* What a revision leaves of an open entry's content.
LEMMA RevisedContent ==
    ASSUME NEW old \in Book!Content, NEW new \in Book!Content,
           new.state = old.state, new.versions = old.versions + 1,
           new.customer = old.customer, new.halkhata = old.halkhata
    PROVE  new = [old EXCEPT !.type = new.type, !.amount = new.amount, !.versions = @ + 1]
  BY DEF Book!Content

LEMMA ReplacementRevises ==
    ASSUME TypeOK, ChainInvariant, TipsLead, TypeOK', ChainInvariant', TipsLead',
           NEW i \in TxId, NEW n \in TxId, NEW q, ReplacedAs(i, n, q)
    PROVE  Book!Revise(tx[i].root)
<1>0. PICK r \in TxId : r = tx[i].root
  BY RowTyped
<1>1. /\ Holds(tx[i]) /\ Exists(tx'[i]) /\ Holds(tx'[n])
      /\ tx[i].version \in Nat /\ tx'[n].version = tx[i].version + 1
      /\ tx'[i].root = r /\ tx'[n].root = r
      /\ tx[i].status = "ACTIVE" /\ tx'[n].status = "ACTIVE"
      /\ tx'[n].customer = tx[i].customer /\ tx'[n].halkhata = tx[i].halkhata
  BY <1>0, ReplacedRows
<1>2. r \in TxId /\ Exists(tx[i]) /\ ~Exists(tx[n]) /\ OthersKept({i, n}) /\ Exists(tx'[n])
  BY <1>1, RowTyped DEF ReplacedAs, Exists, Holds
<1>3. Entry(r) = ContentOf(tx[i])
  BY <1>0, <1>1, <1>2, EntryOfChain
<1>4. Entry(r)' = ContentOf(tx'[n])
  BY <1>1, <1>2, EntryOfNextChain
<1>5. Entry(r).state = "open"
  BY <1>1, <1>3 DEF ContentOf
<1>6. Entry(r)' = [Entry(r) EXCEPT !.type = Entry(r)'.type, !.amount = Entry(r)'.amount,
                                   !.versions = @ + 1]
  <2>1. ContentOf(tx[i]) \in Book!Content /\ ContentOf(tx'[n]) \in Book!Content
    BY ContentTyped DEF TypeOK, TablesTyped
  <2>2. /\ ContentOf(tx'[n]).state = ContentOf(tx[i]).state
        /\ ContentOf(tx'[n]).versions = ContentOf(tx[i]).versions + 1
        /\ ContentOf(tx'[n]).customer = ContentOf(tx[i]).customer
        /\ ContentOf(tx'[n]).halkhata = ContentOf(tx[i]).halkhata
    BY <1>1 DEF ContentOf
  <2>3. ContentOf(tx'[n]) = [ContentOf(tx[i]) EXCEPT !.type = ContentOf(tx'[n]).type,
                                !.amount = ContentOf(tx'[n]).amount, !.versions = @ + 1]
    BY <2>1, <2>2, RevisedContent
  <2> QED
    BY <1>3, <1>4, <2>3
<1>7. Book!Write(r)
  BY <1>0, <1>1, <1>2, OtherEntriesKept
<1>8. Book!Revise(r)
  BY <1>2, <1>5, <1>6, <1>7 DEF Book!Revise
<1> QED
  BY <1>0, <1>8

LEMMA VoidingCancels ==
    ASSUME TypeOK, ChainInvariant, TipsLead, TypeOK', ChainInvariant', TipsLead',
           NEW i \in TxId, VoidedAs(i)
    PROVE  Book!Cancel(tx[i].root)
<1>0. PICK r \in TxId : r = tx[i].root
  BY RowTyped
<1>1. /\ tx[i].status = "ACTIVE" /\ Holds(tx[i]) /\ Holds(tx'[i]) /\ Exists(tx'[i])
      /\ tx'[i].status = "VOIDED"
      /\ tx'[i].version = tx[i].version /\ tx'[i].root = r
      /\ tx'[i].customer = tx[i].customer /\ tx'[i].halkhata = tx[i].halkhata
      /\ tx'[i].type = tx[i].type /\ tx'[i].amount = tx[i].amount
  BY <1>0, VoidedRows
<1>2. r \in TxId /\ Exists(tx[i]) /\ OthersKept({i})
  BY RowTyped DEF VoidedAs
<1>3. Entry(r) = ContentOf(tx[i])
  BY <1>0, <1>1, <1>2, EntryOfChain
<1>4. Entry(r)' = ContentOf(tx'[i])
  BY <1>1, <1>2, EntryOfNextChain
<1>5. Entry(r).state = "open" /\ Entry(r)' = [Entry(r) EXCEPT !.state = "voided"]
  BY <1>1, <1>3, <1>4 DEF ContentOf
<1>6. Book!Write(r)
  BY <1>0, <1>1, <1>2, OtherEntriesKept
<1>7. Book!Cancel(r)
  BY <1>2, <1>5, <1>6 DEF Book!Cancel
<1> QED
  BY <1>0, <1>7

(* Whatever the interleaving, what the committed rows say is one book whose        *)
(* entries are opened, revised while open and cancelled, one at a time.            *)
THEOREM LedgerImplementsBook == Spec => ImplementsBook
<1>1. Init => Book!Init
  <2>1. Init => \A e \in TxId : Chain(tx, e) = {}
    BY DEF Init, NoRow, Chain, Exists
  <2> QED
    BY <2>1 DEF Book!Init, Book!Blank, Entry
<1>2. ASSUME TypeOK, ChainInvariant, TipsLead, TypeOK', ChainInvariant', TipsLead', [Next]_vars
      PROVE  [Book!Next]_([e \in TxId |-> Entry(e)])
  <2>1. CASE tx' = tx
    <3>1. \A e \in TxId : Entry(e)' = Entry(e)
      BY <2>1 DEF Entry, Tip
    <3> QED
      BY <3>1
  <2>2. CASE tx' # tx
    <3>1. CASE \E n \in TxId, w \in Workers : OpenedAs(n, req[w])
      BY <1>2, <3>1, OpeningOpens DEF Book!Next
    <3>2. CASE \E i, n \in TxId, w \in Workers : ReplacedAs(i, n, req[w])
      BY <1>2, <3>2, ReplacementRevises, RowTyped DEF Book!Next
    <3>3. CASE \E i \in TxId : VoidedAs(i)
      BY <1>2, <3>3, VoidingCancels, RowTyped DEF Book!Next
    <3> QED
      BY <1>2, <2>2, <3>1, <3>2, <3>3, RowsMove
  <2> QED
    BY <2>1, <2>2
<1> QED
  BY <1>1, <1>2, ChainsHaveTips, ChainsStayInOrder, TypeCorrect, PTL DEF Spec, ImplementsBook, Book!Spec

-----------------------------------------------------------------------------
(* Balances.  A sum is never taken apart: two tables with the same live    *)
(* rows of a customer have the same balance.                               *)

LEMMA SameLiveRows ==
    ASSUME NEW u, NEW v, NEW c,
           \A i \in TxId : (u[i].customer = c /\ CountsNow(u[i]))
                              <=> (v[i].customer = c /\ CountsNow(v[i])),
           \A i \in TxId : u[i].customer = c /\ CountsNow(u[i]) => u[i] = v[i]
    PROVE  Balance(u, c) = Balance(v, c)
<1>1. {j \in TxId : u[j].customer = c /\ CountsNow(u[j])}
        = {j \in TxId : v[j].customer = c /\ CountsNow(v[j])}
  OBVIOUS
<1>2. \A i \in {j \in TxId : u[j].customer = c /\ CountsNow(u[j])} : Signed(u[i]) = Signed(v[i])
  BY DEF Signed
<1>3. LiveAmounts(u, c) = LiveAmounts(v, c)
  BY <1>1, <1>2 DEF LiveAmounts
<1> QED
  BY <1>3 DEF Balance

LEMMA EmptySum ==
    ASSUME NEW f, DOMAIN f = {}
    PROVE  SumFunction(f) = 0
<1> DEFINE Step(it, s) == IF s = {} THEN 0
                          ELSE LET x == CHOOSE x \in s : TRUE IN f[x] + it[s \ {x}]
           Iter(it) == it = [s \in SUBSET {} |-> Step(it, s)]
<1>1. SumFunction(f) = (CHOOSE it : Iter(it))[{}]
  BY DEF SumFunction, SumFunctionOnSet, FoldFunctionOnSet, MapThenFoldSet
<1>2. Iter([s \in SUBSET {} |-> 0])
  OBVIOUS
<1>3. Iter(CHOOSE it : Iter(it))
  BY <1>2
<1> QED
  BY <1>1, <1>3

\* Every row a request has written is its customer's, and so is the row it replaces.
LEMMA WritesOwn ==
    ASSUME TypeOK, ChainInvariant, TargetsOwn, NEW w \in Workers, NEW i \in DOMAIN wrote[w]
    PROVE  /\ i \in TxId /\ wrote[w][i].customer = req[w].cust
           /\ Exists(tx[i]) => tx[i].customer = req[w].cust
<1>1. WritesUnderway(w) /\ HasWritten(w) /\ pc[w] # "idle" /\ i \in TxId
  BY WrittenKeys DEF ChainInvariant, WritesUnderway, HasWritten
<1>2. CASE Opens(w)
  BY <1>2 DEF Opens, FirstVersion, Fresh
<1>3. CASE Replaces(w) /\ req[w].op = "correct"
  <2> DEFINE s == req[w].target
  <2>1. PICK n \in TxId : Fresh(n) /\ DOMAIN wrote[w] = {s, n}
                          /\ wrote[w][s] = Superseded(tx[s])
                          /\ wrote[w][n] = NextVersion(req[w], tx[s])
    BY <1>3 DEF Replaces
  <2>2. s \in TxId /\ tx[s] \in Row /\ tx[s].customer = req[w].cust
    BY <1>1, <1>3, <2>1, RowTyped DEF TargetsOwn, TypeOK, WritesTyped
  <2>3. Superseded(tx[s]).customer = tx[s].customer
        /\ NextVersion(req[w], tx[s]).customer = tx[s].customer
    BY <2>2 DEF Superseded, NextVersion, Row
  <2>4. i = s \/ i = n
    BY <2>1
  <2> QED
    BY <1>1, <2>1, <2>2, <2>3, <2>4 DEF Fresh
<1>4. CASE Voids(w) /\ req[w].op = "void"
  <2> DEFINE s == req[w].target
  <2>1. i = s /\ wrote[w][s] = Voided(tx[s])
    BY <1>4 DEF Voids
  <2>2. tx[s] \in Row /\ tx[s].customer = req[w].cust
    BY <1>1, <1>4, <2>1, RowTyped DEF TargetsOwn
  <2> QED
    BY <1>1, <2>1, <2>2 DEF Voided, Row
<1> QED
  BY <1>1, <1>2, <1>3, <1>4 DEF WritesUnderway, HasWritten, LedgerOps

\* The rows of other customers are untouched by a commit, in every view.
LEMMA OthersBalancesKept ==
    ASSUME TypeOK, ChainInvariant, TargetsOwn, NEW w \in Workers, tx' = View(w),
           NEW c \in Customers, c # req[w].cust
    PROVE  /\ \A i \in TxId : /\ (tx'[i].customer = c /\ CountsNow(tx'[i]))
                                    <=> (tx[i].customer = c /\ CountsNow(tx[i]))
                              /\ tx[i].customer = c /\ CountsNow(tx[i]) => tx'[i] = tx[i]
           /\ Balance(tx', c) = Balance(tx, c)
<1>1. ASSUME NEW i \in TxId
      PROVE  /\ (tx'[i].customer = c /\ CountsNow(tx'[i]))
                    <=> (tx[i].customer = c /\ CountsNow(tx[i]))
             /\ tx[i].customer = c /\ CountsNow(tx[i]) => tx'[i] = tx[i]
  <2>1. CASE i \in DOMAIN wrote[w]
    <3>1. tx'[i].customer # c /\ (Exists(tx[i]) => tx[i].customer # c)
      BY <2>1, Published, WritesOwn
    <3> QED
      BY <3>1 DEF CountsNow, Exists
  <2>2. CASE i \notin DOMAIN wrote[w]
    BY <2>2, Published
  <2> QED
    BY <2>1, <2>2
<1>2. Balance(tx', c) = Balance(tx, c)
  BY <1>1, SameLiveRows
<1> QED
  BY <1>1, <1>2

\* What a request sees of a customer, as long as its customer's rows stay.
LEMMA SumSeenKept ==
    ASSUME NEW v \in Workers, wrote'[v] = wrote[v], req'[v] = req[v],
           \A i \in TxId :
              /\ (tx'[i].customer = req[v].cust /\ CountsNow(tx'[i]))
                    <=> (tx[i].customer = req[v].cust /\ CountsNow(tx[i]))
              /\ tx[i].customer = req[v].cust /\ CountsNow(tx[i]) => tx'[i] = tx[i]
    PROVE  SumSeenBy(v)' = SumSeenBy(v)
<1> DEFINE old == View(v)
           new == [i \in TxId |-> IF i \in DOMAIN wrote[v] THEN wrote[v][i] ELSE tx'[i]]
<1>1. new = View(v)'
  BY DEF View
<1>2. ASSUME NEW i \in TxId
      PROVE  /\ (new[i].customer = req[v].cust /\ CountsNow(new[i]))
                    <=> (old[i].customer = req[v].cust /\ CountsNow(old[i]))
             /\ new[i].customer = req[v].cust /\ CountsNow(new[i]) => new[i] = old[i]
  BY DEF View
<1> HIDE DEF old, new
<1>3. Balance(new, req[v].cust) = Balance(old, req[v].cust)
  BY <1>2, SameLiveRows
<1>4. SumSeenBy(v) = Balance(old, req[v].cust)
  BY DEF SumSeenBy, old
<1>5. SumSeenBy(v)' = Balance(new, req[v].cust)
  BY <1>1 DEF SumSeenBy
<1> QED
  BY <1>3, <1>4, <1>5

-----------------------------------------------------------------------------
(* The invariant, request by request.                                      *)

TargetOwn(w) ==
    pc[w] # "idle" /\ req[w].op \in {"correct", "void"} =>
        Exists(tx[req[w].target]) /\ tx[req[w].target].customer = req[w].cust

Synced(w) == pc[w] \in {"written", "summed"} => req[w].op \in BalanceOps

HoldsCustomer(w) ==
    pc[w] = "ready" /\ req[w].op \in BalanceOps \cup CustomerOps => custLock[req[w].cust] = w

SumFits(w) ==
    pc[w] \in {"summed", "ready"} /\ req[w].op \in BalanceOps /\ ~dirty[w] =>
        sum[w] = SumSeenBy(w)

ReadFits(w) ==
    /\ pc[w] = "ready" /\ req[w].op = "edit" => seen[w].cached = cached[req[w].cust]
    /\ pc[w] = "ready" /\ req[w].op \in {"edit", "archive"} =>
          ~seen[w].archived /\ ~archived[req[w].cust]
    /\ pc[w] # "idle" /\ req[w].op = "adminSave" /\ ~dirty[w] =>
          seen[w].cached = cached[req[w].cust]

Fits(w) == TargetOwn(w) /\ Synced(w) /\ HoldsCustomer(w) /\ SumFits(w) /\ ReadFits(w)

LEMMA InvariantByRequest ==
    BalanceInvariant <=> DriftOnlyByOverlap /\ \A w \in Workers : Fits(w)
  BY DEF BalanceInvariant, TargetsOwn, BalancesSynced, HoldCustomers, SumsFit, ReadsFit,
         Fits, TargetOwn, Synced, HoldsCustomer, SumFits, ReadFits

LEMMA InvariantByRequestNext ==
    BalanceInvariant' <=> DriftOnlyByOverlap' /\ \A w \in Workers : Fits(w)'
  BY DEF BalanceInvariant, TargetsOwn, BalancesSynced, HoldCustomers, SumsFit, ReadsFit,
         Fits, TargetOwn, Synced, HoldsCustomer, SumFits, ReadFits

LEMMA BalanceInit == Init => BalanceInvariant
<1> SUFFICES ASSUME Init PROVE BalanceInvariant
  OBVIOUS
<1>1. ASSUME NEW c \in Customers PROVE cached[c] = Balance(tx, c)
  <2>1. \A i \in TxId : ~CountsNow(tx[i])
    BY DEF Init, CountsNow, NoRow
  <2>2. DOMAIN LiveAmounts(tx, c) = {}
    BY <2>1 DEF LiveAmounts
  <2> QED
    BY <2>2, EmptySum DEF Init, Balance
<1>2. \A w \in Workers : Fits(w)
  BY DEF Init, Fits, TargetOwn, Synced, HoldsCustomer, SumFits, ReadFits
<1> QED
  BY <1>1, <1>2, InvariantByRequest DEF DriftOnlyByOverlap

\* A request is left alone by a step that leaves what it depends on alone.
LEMMA OtherFits ==
    ASSUME TypeOK, NEW v \in Workers, Fits(v),
           pc'[v] = pc[v], req'[v] = req[v], seen'[v] = seen[v], wrote'[v] = wrote[v],
           sum'[v] = sum[v], tx' = tx, dirty'[v] = dirty[v],
           \A c \in Customers : custLock[c] = v => custLock'[c] = v,
           cached'[req[v].cust] = cached[req[v].cust],
           archived'[req[v].cust] = archived[req[v].cust]
    PROVE  Fits(v)'
<1>1. req[v].cust \in Customers
  BY DEF TypeOK, RequestsTyped, Request
<1>2. SumSeenBy(v)' = SumSeenBy(v)
  BY DEF SumSeenBy, View
<1>3. TargetOwn(v)' /\ Synced(v)' /\ HoldsCustomer(v)'
  BY <1>1 DEF Fits, TargetOwn, Synced, HoldsCustomer
<1>4. SumFits(v)'
  BY <1>2 DEF Fits, SumFits
<1>5. ReadFits(v)'
  BY DEF Fits, ReadFits
<1> QED
  BY <1>3, <1>4, <1>5 DEF Fits

\* A step of w alone that writes no committed row of a customer or of the ledger.
LEMMA OwnStep ==
    ASSUME TypeOK, BalanceInvariant, NEW w \in Workers,
           UNCHANGED <<tx, cached, archived, drift>>,
           \A v \in Workers \ {w} :
              /\ pc'[v] = pc[v] /\ req'[v] = req[v] /\ seen'[v] = seen[v]
              /\ wrote'[v] = wrote[v] /\ sum'[v] = sum[v] /\ dirty'[v] = dirty[v]
              /\ \A c \in Customers : custLock[c] = v => custLock'[c] = v,
           Fits(w)'
    PROVE  BalanceInvariant'
<1>1. ASSUME NEW v \in Workers \ {w} PROVE Fits(v)'
  BY <1>1, OtherFits, InvariantByRequest
<1>2. DriftOnlyByOverlap'
  BY InvariantByRequest DEF DriftOnlyByOverlap
<1> QED
  BY <1>1, <1>2, InvariantByRequestNext

LEMMA FinishedFits ==
    ASSUME TypeOK, NEW w \in Workers, Finish(w)
    PROVE  /\ pc'[w] = "idle" /\ Fits(w)'
           /\ \A v \in Workers \ {w} :
                 /\ pc'[v] = pc[v] /\ req'[v] = req[v] /\ seen'[v] = seen[v]
                 /\ wrote'[v] = wrote[v] /\ sum'[v] = sum[v]
                 /\ \A c \in Customers : custLock[c] = v => custLock'[c] = v
<1>1. pc'[w] = "idle"
  BY DEF TypeOK, RequestsTyped, Finish
<1>2. Fits(w)'
  BY <1>1 DEF Fits, TargetOwn, Synced, HoldsCustomer, SumFits, ReadFits
<1>3. ASSUME NEW v \in Workers \ {w}
      PROVE  /\ pc'[v] = pc[v] /\ req'[v] = req[v] /\ seen'[v] = seen[v]
             /\ wrote'[v] = wrote[v] /\ sum'[v] = sum[v]
             /\ \A c \in Customers : custLock[c] = v => custLock'[c] = v
  BY <1>3, LedgerConstants
     DEF TypeOK, WritesTyped, RequestsTyped, LocksTyped, ReadsTyped, Finish, WithoutLocksOf
<1> QED
  BY <1>1, <1>2, <1>3

LEMMA RefuseFits ==
    ASSUME TypeOK, BalanceInvariant, NEW w \in Workers, Refuse(w)
    PROVE  BalanceInvariant'
<1>1. \A v \in Workers \ {w} : dirty'[v] = dirty[v]
  BY DEF Refuse, TypeOK, ReadsTyped
<1>2. UNCHANGED <<tx, cached, archived, drift>>
  BY DEF Refuse, tables
<1>3. Finish(w)
  BY DEF Refuse
<1> QED
  BY <1>1, <1>2, <1>3, FinishedFits, OwnStep

LEMMA BeginFits ==
    ASSUME TypeOK, BalanceInvariant, NEW w \in Workers, NEW q, NEW s, Begin(w, q, s),
           q.op \in {"correct", "void"} => Exists(tx[q.target]) /\ tx[q.target].customer = q.cust,
           q.op = "adminSave" => s.cached = cached[q.cust]
    PROVE  BalanceInvariant'
<1>1. /\ pc'[w] = "received" /\ req'[w] = q /\ seen'[w] = s
      /\ UNCHANGED <<tx, cached, archived, drift, custLock, wrote, sum, dirty>>
      /\ \A v \in Workers \ {w} : pc'[v] = pc[v] /\ req'[v] = req[v] /\ seen'[v] = seen[v]
  BY DEF Begin, TypeOK, RequestsTyped, ReadsTyped, tables, locks, history
<1>2. Fits(w)'
  BY <1>1 DEF Fits, TargetOwn, Synced, HoldsCustomer, SumFits, ReadFits
<1> QED
  BY <1>1, <1>2, OwnStep

LEMMA ReceiveFits ==
    ASSUME TypeOK, BalanceInvariant, NEW w \in Workers, Receive(w)
    PROVE  BalanceInvariant'
<1> USE SomeCustomerIsOne DEF NoRequest
<1>1. CASE ReceiveCreate(w) \/ ReceivePayment(w) \/ ReceiveRebuild(w) \/ ReceiveHalkhataUpdate(w)
  BY <1>1, BeginFits
     DEF ReceiveCreate, ReceivePayment, ReceiveRebuild, ReceiveHalkhataUpdate
<1>2. CASE ReceiveCorrection(w)
  BY <1>2, BeginFits DEF ReceiveCorrection
<1>3. CASE ReceiveVoid(w)
  BY <1>3, BeginFits DEF ReceiveVoid
<1>4. CASE ReceiveOnCustomer(w)
  BY <1>4, BeginFits DEF ReceiveOnCustomer, Reads, CustomerOps
<1> QED
  BY <1>1, <1>2, <1>3, <1>4 DEF Receive

-----------------------------------------------------------------------------
(* The steps of a request before its commit.                               *)

LEMMA WriteFits ==
    ASSUME TypeOK, BalanceInvariant, NEW w \in Workers, Insert(w) \/ Correct(w) \/ Void(w)
    PROVE  BalanceInvariant'
<1>1. /\ pc[w] = "received" /\ pc'[w] = "written"
      /\ UNCHANGED <<tx, cached, archived, drift, custLock, req, seen, sum, dirty>>
      /\ \A v \in Workers \ {w} : pc'[v] = pc[v] /\ wrote'[v] = wrote[v]
  BY DEF Insert, Correct, Void, SourceFree, TypeOK, RequestsTyped, WritesTyped,
         tables, locks, history
<1>2. Fits(w)'
  BY <1>1, InvariantByRequest
     DEF Fits, TargetOwn, Synced, HoldsCustomer, SumFits, ReadFits,
         BalanceOps, LedgerOps, Insert, Correct, Void, SourceFree
<1> QED
  BY <1>1, <1>2, OwnStep

LEMMA SumFitsNext ==
    ASSUME TypeOK, BalanceInvariant, NEW w \in Workers, SumLedger(w)
    PROVE  BalanceInvariant'
<1>1. /\ pc[w] \in {"written", "received"} /\ pc'[w] = "summed" /\ sum'[w] = SumSeenBy(w)
      /\ UNCHANGED <<tx, cached, archived, drift, custLock, req, seen, wrote>>
      /\ \A v \in Workers \ {w} : pc'[v] = pc[v] /\ sum'[v] = sum[v] /\ dirty'[v] = dirty[v]
  BY DEF SumLedger, TypeOK, RequestsTyped, ReadsTyped, tables, locks
<1>2. SumSeenBy(w)' = SumSeenBy(w)
  BY <1>1 DEF SumSeenBy, View
<1>3. Fits(w)'
  <2>1. req[w].op \in BalanceOps
    BY InvariantByRequest DEF SumLedger, Fits, Synced, BalanceOps
  <2> QED
    BY <1>1, <1>2, <2>1, InvariantByRequest
       DEF Fits, TargetOwn, Synced, HoldsCustomer, SumFits, ReadFits, BalanceOps, LedgerOps
<1> QED
  BY <1>1, <1>3, OwnStep

LEMMA UpdateFits ==
    ASSUME TypeOK, BalanceInvariant, NEW w \in Workers, UpdateBalance(w)
    PROVE  BalanceInvariant'
<1>1. req[w].cust \in Customers
  BY DEF TypeOK, RequestsTyped, Request
<1>2. /\ pc[w] = "summed" /\ pc'[w] = "ready"
      /\ UNCHANGED <<tx, cached, archived, drift, req, seen, wrote, sum, dirty>>
      /\ custLock'[req[w].cust] = w
      /\ \A v \in Workers \ {w} :
            pc'[v] = pc[v] /\ \A c \in Customers : custLock[c] = v => custLock'[c] = v
  BY <1>1, LedgerConstants
     DEF UpdateBalance, TypeOK, RequestsTyped, LocksTyped, tables, history
<1>3. SumSeenBy(w)' = SumSeenBy(w)
  BY <1>2 DEF SumSeenBy, View
<1>4. Fits(w)'
  BY <1>2, <1>3, InvariantByRequest DEF BalanceOps, LedgerOps, Fits, TargetOwn, Synced, HoldsCustomer, SumFits, ReadFits
<1> QED
  BY <1>2, <1>4, OwnStep
LEMMA LockCustomerFits ==
    ASSUME TypeOK, BalanceInvariant, NEW w \in Workers, LockCustomer(w)
    PROVE  BalanceInvariant'
<1> DEFINE c == req[w].cust
<1>1. c \in Customers
  BY DEF TypeOK, RequestsTyped, Request
<1>2. /\ pc[w] = "received" /\ pc'[w] = "ready" /\ req[w].op \in CustomerOps
      /\ UNCHANGED <<tx, cached, archived, drift, req, wrote, sum, dirty>>
      /\ custLock'[c] = w
      /\ req[w].op # "adminSave" => seen'[w] = RowUnderLock(w) /\ ~RowUnderLock(w).archived
      /\ req[w].op = "adminSave" => seen'[w] = seen[w]
      /\ \A v \in Workers \ {w} :
            /\ pc'[v] = pc[v] /\ seen'[v] = seen[v]
            /\ \A d \in Customers : custLock[d] = v => custLock'[d] = v
  BY <1>1, LedgerConstants
     DEF LockCustomer, CustomerFree, TypeOK, RequestsTyped, LocksTyped, ReadsTyped, tables, history
<1>3. RowUnderLock(w).archived = archived[c] /\ RowUnderLock(w).cached = cached[c]
  BY DEF RowUnderLock, Reads
<1>4. TargetOwn(w)' /\ Synced(w)' /\ SumFits(w)'
  BY <1>2 DEF TargetOwn, Synced, SumFits, CustomerOps, BalanceOps, LedgerOps
<1>5. HoldsCustomer(w)'
  BY <1>2 DEF HoldsCustomer
<1>6. ReadFits(w)'
  BY <1>2, <1>3, InvariantByRequest DEF Fits, ReadFits
<1> QED
  BY <1>2, <1>4, <1>5, <1>6, OwnStep DEF Fits

LEMMA LockHalkhataFits ==
    ASSUME TypeOK, BalanceInvariant, NEW w \in Workers, LockHalkhata(w)
    PROVE  BalanceInvariant'
<1>1. /\ pc[w] = "received" /\ pc'[w] = "ready" /\ req[w].op = "halkhata"
      /\ UNCHANGED <<tx, cached, archived, drift, custLock, req, seen, wrote, sum, dirty>>
      /\ \A v \in Workers \ {w} : pc'[v] = pc[v]
  BY DEF LockHalkhata, TypeOK, RequestsTyped, tables, history
<1>2. Fits(w)'
  BY <1>1 DEF Fits, TargetOwn, Synced, HoldsCustomer, SumFits, ReadFits,
              CustomerOps, BalanceOps, LedgerOps
<1> QED
  BY <1>1, <1>2, OwnStep

-----------------------------------------------------------------------------
(* The commits.                                                            *)

\* Nobody else is about to write the customer row that w holds.
LEMMA CustomerHeld ==
    ASSUME TypeOK, BalanceInvariant, NEW w \in Workers, NEW v \in Workers \ {w},
           pc[w] = "ready", req[w].op \in BalanceOps \cup CustomerOps,
           pc[v] = "ready", req[v].op \in BalanceOps \cup CustomerOps
    PROVE  req[v].cust # req[w].cust
  BY InvariantByRequest DEF Fits, HoldsCustomer

LEMMA CommitBalanceFits ==
    ASSUME TypeOK, ChainInvariant, ChainInvariant', BalanceInvariant,
           NEW w \in Workers, CommitBalance(w)
    PROVE  BalanceInvariant'
<1> DEFINE c == req[w].cust
<1>1. c \in Customers
  BY DEF TypeOK, RequestsTyped, Request
<1>2. /\ pc[w] = "ready" /\ req[w].op \in BalanceOps /\ tx' = View(w) /\ Finish(w)
      /\ cached' = [cached EXCEPT ![c] = sum[w]] /\ drift' = [drift EXCEPT ![c] = dirty[w]]
      /\ archived' = archived /\ DirtyOthers(w, c)
  BY DEF CommitBalance
<1>3. /\ cached'[c] = sum[w] /\ drift'[c] = dirty[w]
      /\ \A d \in Customers \ {c} : cached'[d] = cached[d] /\ drift'[d] = drift[d]
  BY <1>1, <1>2 DEF TypeOK, TablesTyped
<1>4. Fits(w) /\ TargetsOwn
  BY InvariantByRequest DEF BalanceInvariant
<1>5. DriftOnlyByOverlap'
  <2>1. ~dirty[w] => sum[w] = Balance(tx', c)
    BY <1>2, <1>4 DEF Fits, SumFits, SumSeenBy
  <2>2. ASSUME NEW d \in Customers \ {c} PROVE Balance(tx', d) = Balance(tx, d)
    BY <1>2, <1>4, OthersBalancesKept
  <2> HIDE DEF c
  <2>3. ASSUME NEW d \in Customers, ~drift'[d] PROVE cached'[d] = Balance(tx', d)
    BY <1>3, <2>1, <2>2, <2>3, InvariantByRequest DEF DriftOnlyByOverlap
  <2> QED
    BY <2>3 DEF DriftOnlyByOverlap
<1>6. ASSUME NEW v \in Workers \ {w} PROVE Fits(v)'
  <2>1. /\ pc'[v] = pc[v] /\ req'[v] = req[v] /\ seen'[v] = seen[v]
        /\ wrote'[v] = wrote[v] /\ sum'[v] = sum[v]
        /\ \A d \in Customers : custLock[d] = v => custLock'[d] = v
    BY <1>2, FinishedFits
  <2>2. /\ req[v].cust \in Customers /\ Fits(v)
        /\ ~dirty'[v] => ~dirty[v] /\ (pc[v] = "idle" \/ req[v].cust # c)
    BY <1>2, InvariantByRequest DEF DirtyOthers, TypeOK, RequestsTyped, Request, ReadsTyped
  <2>3. TargetOwn(v)'
    <3> SUFFICES ASSUME pc[v] # "idle", req[v].op \in {"correct", "void"}
        PROVE  Exists(tx'[req[v].target]) /\ tx'[req[v].target].customer = req[v].cust
      BY <2>1 DEF TargetOwn
    <3>1. /\ req[v].target \in TxId /\ Exists(tx[req[v].target])
          /\ tx[req[v].target].customer = req[v].cust
      BY <2>2 DEF Fits, TargetOwn, TypeOK, RequestsTyped
    <3>2. CASE tx'[req[v].target] = tx[req[v].target]
      BY <3>1, <3>2
    <3>3. CASE tx'[req[v].target] # tx[req[v].target]
      <4>1. \/ tx'[req[v].target] = Superseded(tx[req[v].target])
            \/ tx'[req[v].target] = Voided(tx[req[v].target])
        BY <3>1, <3>3, CommittedRowKept
      <4> QED
        BY <3>1, <4>1, RowTyped DEF Superseded, Voided, Row, Exists
    <3> QED
      BY <3>2, <3>3
  <2>4. Synced(v)' /\ HoldsCustomer(v)'
    BY <2>1, <2>2 DEF Fits, Synced, HoldsCustomer
  <2>5. SumFits(v)'
    <3> SUFFICES ASSUME pc[v] \in {"summed", "ready"}, req[v].op \in BalanceOps, ~dirty'[v]
        PROVE  sum[v] = SumSeenBy(v)'
      BY <2>1 DEF SumFits
    <3>1. sum[v] = SumSeenBy(v) /\ req[v].cust # c
      BY <2>2 DEF Fits, SumFits
    <3>2. \A i \in TxId :
             /\ (tx'[i].customer = req[v].cust /\ CountsNow(tx'[i]))
                   <=> (tx[i].customer = req[v].cust /\ CountsNow(tx[i]))
             /\ tx[i].customer = req[v].cust /\ CountsNow(tx[i]) => tx'[i] = tx[i]
      BY <1>2, <1>4, <2>2, <3>1, OthersBalancesKept
    <3> QED
      BY <2>1, <3>1, <3>2, SumSeenKept
  <2>6. ReadFits(v)'
    <3>1. pc[v] = "ready" /\ req[v].op \in CustomerOps => req[v].cust # c
      BY <1>2, CustomerHeld
    <3> HIDE DEF c
    <3> QED
      BY <1>2, <1>3, <2>1, <2>2, <3>1 DEF Fits, ReadFits, CustomerOps
  <2> QED
    BY <2>3, <2>4, <2>5, <2>6 DEF Fits
<1>7. Fits(w)'
  BY <1>2, FinishedFits
<1> QED
  BY <1>5, <1>6, <1>7, InvariantByRequestNext

\* The commits of an archiving, an edit or an admin form leave the ledger alone.
LEMMA CommitRowFits ==
    ASSUME TypeOK, BalanceInvariant, NEW w \in Workers, Finish(w), tx' = tx,
           pc[w] = "ready", req[w].op \in CustomerOps,
           \A d \in Customers \ {req[w].cust} :
              cached'[d] = cached[d] /\ archived'[d] = archived[d] /\ drift'[d] = drift[d],
           ~drift'[req[w].cust] => cached'[req[w].cust] = Balance(tx, req[w].cust),
           \A v \in Workers \ {w} :
              /\ ~dirty'[v] => ~dirty[v]
              /\ ~dirty'[v] /\ pc[v] # "idle" /\ req[v].cust = req[w].cust =>
                    cached'[req[w].cust] = cached[req[w].cust]
    PROVE  BalanceInvariant'
<1>1. DriftOnlyByOverlap'
  BY InvariantByRequest DEF DriftOnlyByOverlap
<1>2. ASSUME NEW v \in Workers \ {w} PROVE Fits(v)'
  <2>1. /\ pc'[v] = pc[v] /\ req'[v] = req[v] /\ seen'[v] = seen[v]
        /\ wrote'[v] = wrote[v] /\ sum'[v] = sum[v]
        /\ \A d \in Customers : custLock[d] = v => custLock'[d] = v
    BY FinishedFits
  <2>2. req[v].cust \in Customers /\ Fits(v) /\ SumSeenBy(v)' = SumSeenBy(v)
    BY <2>1, InvariantByRequest DEF TypeOK, RequestsTyped, Request, SumSeenBy, View
  <2>3. TargetOwn(v)' /\ Synced(v)' /\ HoldsCustomer(v)' /\ SumFits(v)'
    BY <2>1, <2>2 DEF Fits, TargetOwn, Synced, HoldsCustomer, SumFits
  <2>4. ReadFits(v)'
    <3>1. pc[v] = "ready" /\ req[v].op \in CustomerOps => req[v].cust # req[w].cust
      BY CustomerHeld
    <3>2. req[v].cust # req[w].cust =>
            cached'[req[v].cust] = cached[req[v].cust] /\ archived'[req[v].cust] = archived[req[v].cust]
      BY <2>2
    <3> QED
      BY <2>1, <2>2, <3>1, <3>2 DEF Fits, ReadFits, CustomerOps
  <2> QED
    BY <2>3, <2>4 DEF Fits
<1>3. Fits(w)'
  BY FinishedFits
<1> QED
  BY <1>1, <1>2, <1>3, InvariantByRequestNext

LEMMA CommitArchiveFits ==
    ASSUME TypeOK, BalanceInvariant, NEW w \in Workers, CommitArchive(w)
    PROVE  BalanceInvariant'
<1>1. req[w].cust \in Customers
  BY DEF TypeOK, RequestsTyped, Request
<1>2. /\ Finish(w) /\ tx' = tx /\ cached' = cached /\ drift' = drift
      /\ pc[w] = "ready" /\ req[w].op \in CustomerOps
      /\ \A d \in Customers \ {req[w].cust} : archived'[d] = archived[d]
      /\ \A v \in Workers \ {w} : dirty'[v] = dirty[v]
  BY <1>1 DEF CommitArchive, CustomerOps, TypeOK, TablesTyped, ReadsTyped
<1>3. ~drift'[req[w].cust] => cached'[req[w].cust] = Balance(tx, req[w].cust)
  BY <1>1, <1>2, InvariantByRequest DEF DriftOnlyByOverlap
<1> QED
  BY <1>2, <1>3, CommitRowFits

LEMMA CommitCustomerFits ==
    ASSUME TypeOK, BalanceInvariant, NEW w \in Workers, CommitCustomer(w)
    PROVE  BalanceInvariant'
<1> DEFINE c == req[w].cust
<1>1. c \in Customers /\ Fits(w)
  BY InvariantByRequest DEF TypeOK, RequestsTyped, Request
<1>2. /\ Finish(w) /\ tx' = tx /\ pc[w] = "ready" /\ req[w].op \in {"edit", "adminSave"}
      /\ DirtyOthers(w, c)
  BY DEF CommitCustomer
<1>3. /\ cached'[c] = seen[w].cached
      /\ drift'[c] = (drift[c] \/ (req[w].op = "adminSave" /\ dirty[w]))
      /\ \A d \in Customers \ {c} :
            cached'[d] = cached[d] /\ archived'[d] = archived[d] /\ drift'[d] = drift[d]
  BY <1>1 DEF CommitCustomer, TypeOK, TablesTyped
<1>4. ~drift'[c] => cached'[c] = Balance(tx, c)
  <2>1. ~drift'[c] => ~drift[c] /\ ~(req[w].op = "adminSave" /\ dirty[w])
    BY <1>3
  <2>2. ~drift[c] => cached[c] = Balance(tx, c)
    BY <1>1, InvariantByRequest DEF DriftOnlyByOverlap
  <2>3. ~(req[w].op = "adminSave" /\ dirty[w]) => seen[w].cached = cached[c]
    BY <1>1, <1>2 DEF Fits, ReadFits
  <2> QED
    BY <1>3, <2>1, <2>2, <2>3
<1>5. ASSUME NEW v \in Workers \ {w}
      PROVE  /\ ~dirty'[v] => ~dirty[v]
             /\ ~dirty'[v] => pc[v] = "idle" \/ req[v].cust # c
  BY <1>2 DEF DirtyOthers, TypeOK, ReadsTyped
<1> QED
  BY <1>2, <1>3, <1>4, <1>5, CommitRowFits DEF CustomerOps

LEMMA CommitHalkhataFits ==
    ASSUME TypeOK, BalanceInvariant, NEW w \in Workers, CommitHalkhata(w)
    PROVE  BalanceInvariant'
<1>1. /\ Finish(w) /\ UNCHANGED <<tx, cached, archived, drift>>
      /\ \A v \in Workers \ {w} : dirty'[v] = dirty[v]
  BY DEF CommitHalkhata, TypeOK, ReadsTyped
<1> QED
  BY <1>1, FinishedFits, OwnStep

LEMMA BalanceStep ==
    ASSUME TypeOK, ChainInvariant, ChainInvariant', BalanceInvariant, [Next]_vars
    PROVE  BalanceInvariant'
<1>1. CASE UNCHANGED vars
  <2>1. ASSUME NEW v \in Workers PROVE Fits(v)'
    BY <1>1, <2>1, OtherFits, InvariantByRequest DEF vars, tables, locks, history
  <2>2. DriftOnlyByOverlap'
    BY <1>1, InvariantByRequest DEF DriftOnlyByOverlap, vars, tables, history
  <2> QED
    BY <2>1, <2>2, InvariantByRequestNext
<1>2. ASSUME NEW w \in Workers, Receive(w) \/ Proceed(w) \/ Abort(w)
      PROVE  BalanceInvariant'
  <2>1. CASE Receive(w)
    BY <2>1, ReceiveFits
  <2>2. CASE Insert(w) \/ Correct(w) \/ Void(w)
    BY <2>2, WriteFits
  <2>3. CASE SumLedger(w) \/ UpdateBalance(w)
    BY <2>3, SumFitsNext, UpdateFits
  <2>4. CASE LockCustomer(w) \/ LockHalkhata(w)
    BY <2>4, LockCustomerFits, LockHalkhataFits
  <2>5. CASE CommitBalance(w)
    BY <2>5, CommitBalanceFits
  <2>6. CASE CommitArchive(w) \/ CommitCustomer(w) \/ CommitHalkhata(w)
    BY <2>6, CommitArchiveFits, CommitCustomerFits, CommitHalkhataFits
  <2>7. CASE RefuseInsert(w) \/ RefuseSource(w) \/ RefuseCustomer(w) \/ Abort(w)
    BY <2>7, RefuseFits DEF RefuseInsert, RefuseSource, RefuseCustomer, Abort
  <2> QED
    BY <1>2, <2>1, <2>2, <2>3, <2>4, <2>5, <2>6, <2>7 DEF Proceed
<1> QED
  BY <1>1, <1>2 DEF Next

-----------------------------------------------------------------------------
(* The theorems.                                                           *)

(* In every reachable state, whoever is about to write a cached balance and was not *)
(* overtaken since its SELECT SUM has the sum of the live rows, and a full-row save *)
(* under the lock writes the balance that is there.                                 *)
THEOREM BalancesStayExplained == Spec => []BalanceInvariant
<1>1. TypeOK /\ ChainInvariant /\ ChainInvariant' /\ BalanceInvariant /\ [Next]_vars
        => BalanceInvariant'
  BY BalanceStep
<1> QED
  BY <1>1, BalanceInit, ChainsStayInOrder, TypeCorrect, PTL DEF Spec

(* A customer's cached balance is the sum of the current active transactions unless *)
(* it was last written by a request that another one on the customer overtook.      *)
THEOREM OnlyOverlapsDrift == Spec => []DriftOnlyByOverlap
<1>1. BalanceInvariant => DriftOnlyByOverlap
  BY DEF BalanceInvariant
<1> QED
  BY <1>1, BalancesStayExplained, PTL

(* An edit never brings a customer back from the archive, however old the row its   *)
(* view loaded: only Django's admin form, which saves what it loaded, does.         *)
THEOREM OnlyAdminFormsUnarchive == Spec => OnlyFormsUnarchive
<1>1. ASSUME TypeOK, BalanceInvariant, [Next]_vars,
             NEW c \in Customers, archived[c], ~archived'[c]
      PROVE  \E w \in Workers : /\ pc[w] = "ready" /\ pc'[w] = "idle"
                                /\ req[w].op = "adminSave" /\ req[w].cust = c
  <2>1. PICK w \in Workers : Receive(w) \/ Proceed(w) \/ Abort(w)
    BY <1>1 DEF Next, vars, tables
  <2>2. archived' # archived
    BY <1>1
  <2>3. ~Receive(w) /\ ~Abort(w)
    BY <2>2 DEF Receive, ReceiveCreate, ReceivePayment, ReceiveCorrection, ReceiveVoid,
           ReceiveOnCustomer, ReceiveRebuild, ReceiveHalkhataUpdate, Begin, Abort, Refuse, tables
  <2>4. CommitArchive(w) \/ CommitCustomer(w)
    BY <2>1, <2>2, <2>3 DEF Proceed, Insert, RefuseInsert, Correct, Void, RefuseSource, SumLedger,
           UpdateBalance, CommitBalance, LockCustomer, RefuseCustomer, LockHalkhata,
           CommitHalkhata, Refuse, tables
  <2>5. /\ pc[w] = "ready" /\ pc'[w] = "idle" /\ req[w].cust \in Customers
        /\ Fits(w) /\ archived \in [Customers -> BOOLEAN]
    BY <1>1, <2>4, FinishedFits, InvariantByRequest
       DEF CommitArchive, CommitCustomer, TypeOK, RequestsTyped, Request, TablesTyped
  <2>6. CASE CommitArchive(w)
    BY <1>1, <2>5, <2>6 DEF CommitArchive
  <2>7. CASE CommitCustomer(w)
    <3>1. req[w].cust = c
      BY <1>1, <2>5, <2>7 DEF CommitCustomer
    <3>2. req[w].op # "edit"
      BY <1>1, <2>5, <3>1 DEF Fits, ReadFits
    <3> QED
      BY <2>5, <2>7, <3>1, <3>2 DEF CommitCustomer
  <2> QED
    BY <2>4, <2>6, <2>7
<1>2. TypeOK /\ BalanceInvariant /\ [Next]_vars
        => [\A c \in Customers : archived[c] /\ ~archived'[c] =>
              \E w \in Workers : /\ pc[w] = "ready" /\ pc'[w] = "idle"
                                 /\ req[w].op = "adminSave" /\ req[w].cust = c]_vars
  BY <1>1
<1> QED
  BY <1>2, BalancesStayExplained, TypeCorrect, PTL DEF Spec, OnlyFormsUnarchive

=============================================================================
