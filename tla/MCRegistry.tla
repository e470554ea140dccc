----------------------------- MODULE MCRegistry -----------------------------
(***************************************************************************)
(* Small instances of Registry for TLC: two customers without pictures and *)
(* with short histories, or one customer with pictures and a longer one.   *)
(***************************************************************************)
EXTENDS Registry, TLC

Symmetry == Permutations(Workers) \cup Permutations(Phones)

TwoCustomers ==
    Cardinality({c \in Customers : Born(c)}) + Cardinality(InProgress({"create", "adminAdd"})) > 1

Illustrated ==
    \/ \E w \in Workers : req[w].picture # NoPicture
    \/ \E c \in Customers : \/ rows[c].picture # NoPicture
                            \/ \E i \in DOMAIN versions[c] :
                                  versions[c][i].picture # NoPicture

\* The bound of TLC's instances beyond MaxVersions.
Small == TwoCustomers => ~Illustrated /\ \A c \in Customers : Len(versions[c]) <= 2

SmallSpec == Init /\ [][Next /\ Small']_vars

=============================================================================
