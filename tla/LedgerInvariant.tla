-------------------------- MODULE LedgerInvariant --------------------------
(***************************************************************************)
(* Why the version chains of Ledger stay lines: an invariant its own steps *)
(* preserve, which joins the committed rows to what each request in        *)
(* progress has written under its locks.                                   *)
(***************************************************************************)
EXTENDS Ledger

Holds(r) == r.status \in {"ACTIVE", "VOIDED"}

\* The committed table: keys are handed out in order, a chain is named by the row
\* that opened it, and has one row that no other replaced.
RowsInOrder ==
    /\ \A i \in TxId : Exists(tx[i]) =>
          i < nextId /\ Exists(tx[tx[i].root]) /\ tx[i].version # 0
    /\ \A i \in TxId : ~Exists(tx[i]) => ~tx[i].current
    /\ \A i, j \in TxId :
          Holds(tx[i]) /\ Holds(tx[j]) /\ tx[i].root = tx[j].root => i = j

\* Key n was handed out to a request whose row of that key is still private.
Fresh(n) == n \in TxId /\ n < nextId /\ ~Exists(tx[n])

\* Request w opens a chain: one fresh row, its own root.
Opens(w) ==
    \E n \in TxId :
        /\ Fresh(n)
        /\ DOMAIN wrote[w] = {n}
        /\ wrote[w][n] = FirstVersion(req[w], n)

\* Request w holds the row it replaces or voids, which is still the active one.
HoldsSource(w) ==
    /\ txLock[req[w].target] = w
    /\ Exists(tx[req[w].target])
    /\ Correctable(tx[req[w].target])

Replaces(w) ==
    LET i == req[w].target IN
    /\ HoldsSource(w)
    /\ \E n \in TxId :
          /\ Fresh(n)
          /\ DOMAIN wrote[w] = {i, n}
          /\ wrote[w][i] = Superseded(tx[i])
          /\ wrote[w][n] = NextVersion(req[w], tx[i])

Voids(w) ==
    LET i == req[w].target IN
    /\ HoldsSource(w)
    /\ DOMAIN wrote[w] = {i}
    /\ wrote[w][i] = Voided(tx[i])

HasWritten(w) == pc[w] \in {"written", "summed", "ready"} /\ req[w].op \in LedgerOps

WritesUnderway(w) ==
    IF ~HasWritten(w) THEN DOMAIN wrote[w] = {}
    ELSE CASE req[w].op \in {"create", "pay"} -> Opens(w)
           [] req[w].op = "correct" -> Replaces(w)
           [] req[w].op = "void" -> Voids(w)

\* Row t leads chain r of table v: nothing replaced it, every other row is older.
LeadsIn(v, r, t) ==
    /\ Holds(v[t])
    /\ \A j \in Chain(v, r) \ {t} : v[j].version < v[t].version

(* Every chain has a row nothing replaced, and it has the highest number.          *)
TipsLead == \A r \in TxId : Chain(tx, r) # {} => \E t \in Chain(tx, r) : LeadsIn(tx, r, t)

(* At any moment the committed chains are lines with one tip each, every request   *)
(* that has written still holds the lock of an active source or keys nobody else   *)
(* has, and no row is being written by two requests: what any of them commits next *)
(* extends the lines.                                                              *)
ChainInvariant ==
    /\ ChainIsALine
    /\ RowsInOrder
    /\ \A w \in Workers : WritesUnderway(w)
    /\ \A v, w \in Workers : v # w => DOMAIN wrote[v] \cap DOMAIN wrote[w] = {}

-----------------------------------------------------------------------------
(* Why a cached balance is wrong only after an overlap.                    *)

\* A request names the customer of the row it corrects or voids.
TargetsOwn ==
    \A w \in Workers : pc[w] # "idle" /\ req[w].op \in {"correct", "void"} =>
        Exists(tx[req[w].target]) /\ tx[req[w].target].customer = req[w].cust

\* Only requests that write the ledger, or rebuild a balance, come to these steps.
BalancesSynced ==
    \A w \in Workers : pc[w] \in {"written", "summed"} => req[w].op \in BalanceOps

\* The customer row is held from the UPDATE, or the locking SELECT, to the end.
HoldCustomers ==
    \A w \in Workers : pc[w] = "ready" /\ req[w].op \in BalanceOps \cup CustomerOps =>
        custLock[req[w].cust] = w

\* A sum that no other commit on the customer overtook is still the sum.
SumsFit ==
    \A w \in Workers :
        pc[w] \in {"summed", "ready"} /\ req[w].op \in BalanceOps /\ ~dirty[w] =>
            sum[w] = SumSeenBy(w)

\* What a full-row save is about to write back: an edit read it under the lock.
ReadsFit ==
    \A w \in Workers :
        /\ pc[w] = "ready" /\ req[w].op = "edit" => seen[w].cached = cached[req[w].cust]
        /\ pc[w] = "ready" /\ req[w].op \in {"edit", "archive"} =>
              ~seen[w].archived /\ ~archived[req[w].cust]
        /\ pc[w] # "idle" /\ req[w].op = "adminSave" /\ ~dirty[w] =>
              seen[w].cached = cached[req[w].cust]

(* Whoever is about to write a balance and was not overtaken has the right one, and *)
(* whoever writes the rest of the customer row writes the balance that is there.    *)
BalanceInvariant ==
    /\ DriftOnlyByOverlap
    /\ TargetsOwn /\ BalancesSynced /\ HoldCustomers /\ SumsFit /\ ReadsFit

=============================================================================
