----------------------------- MODULE MCListPage -----------------------------
(* Small instances of ListPage for TLC. *)
EXTENDS ListPage, TLC

\* Texts typed in are alike; the empty one and the pages are not.
Symmetry == Permutations(Searches \ {NoSearch})

=============================================================================
