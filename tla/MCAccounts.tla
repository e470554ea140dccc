----------------------------- MODULE MCAccounts -----------------------------
(* Small instances of Accounts for TLC. *)
EXTENDS Accounts, TLC

\* Without fairness every set of model values is symmetric.
Symmetry == Permutations(Workers) \cup Permutations(Superusers)

=============================================================================
