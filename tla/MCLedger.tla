------------------------------ MODULE MCLedger ------------------------------
(* Small instances of Ledger for TLC. *)
EXTENDS LedgerRefinement, LedgerInvariant, TLC

\* Workers run the same program and are compared only with each other.
WorkerSymmetry == Permutations(Workers)

=============================================================================
