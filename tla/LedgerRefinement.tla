-------------------------- MODULE LedgerRefinement --------------------------
(***************************************************************************)
(* The rows of Ledger read as the book of LedgerChains: an entry is the    *)
(* root row's key, its content the one version that was never superseded.  *)
(***************************************************************************)
EXTENDS Ledger

Tip(e) == CHOOSE i \in Chain(tx, e) : tx[i].status # "SUPERSEDED"

Entry(e) ==
    IF Chain(tx, e) = {} THEN [state |-> "blank"]
    ELSE LET t == tx[Tip(e)]
         IN  [state |-> IF t.status = "ACTIVE" THEN "open" ELSE "voided",
              customer |-> t.customer, halkhata |-> t.halkhata,
              type |-> t.type, amount |-> t.amount, versions |-> t.version]

Book == INSTANCE LedgerChains WITH Entries <- TxId, book <- [e \in TxId |-> Entry(e)]

(* Interleaved creations, corrections, voids and rollbacks read as one book whose *)
(* entries change one at a time, by opening, revising or cancelling: no request   *)
(* revises a voided entry, revises from an outdated version, or splits an entry.  *)
ImplementsBook == Book!Spec

=============================================================================
