--------------------------- MODULE MCInvitations ---------------------------
(* Small instances of Invitations for TLC. *)
EXTENDS Invitations, TLC

Symmetry == Permutations(Workers) \cup Permutations(Customers)

=============================================================================
