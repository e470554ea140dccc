------------------------------- MODULE MCGeo -------------------------------
(* Small instances of Geo for TLC. *)
EXTENDS Geo, TLC

Symmetry == Permutations(Readers) \cup Permutations(Writers) \cup
            Permutations(Filters) \cup Permutations(Orders) \cup
            Permutations(Requests) \cup Permutations(Names)

=============================================================================
