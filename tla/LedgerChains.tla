---------------------------- MODULE LedgerChains ----------------------------
(***************************************************************************)
(* What the ledger promises its reader: a book of entries, one per chain   *)
(* of transaction versions.  An entry is opened once, for one customer and *)
(* at most one halkhata, may be revised while it is open, and once voided  *)
(* stays as it is.  Every step changes one entry, at once.                 *)
(***************************************************************************)
EXTENDS Integers

CONSTANTS Entries, Customers, Links, Types

VARIABLE book

Content == [state : {"open", "voided"}, customer : Customers, halkhata : Links,
            type : Types, amount : Nat, versions : Nat]

Blank == [state |-> "blank"]

TypeOK == book \in [Entries -> Content \cup {Blank}]

\* Only entry e is written.
Write(e) ==
    /\ TypeOK'
    /\ \A f \in Entries \ {e} : book'[f] = book[f]

Open(e) ==
    /\ book[e] = Blank
    /\ Write(e)
    /\ book'[e].state = "open"
    /\ book'[e].versions = 1

Revise(e) ==
    /\ book[e].state = "open"
    /\ Write(e)
    /\ book'[e] = [book[e] EXCEPT !.type = book'[e].type,
                                  !.amount = book'[e].amount,
                                  !.versions = @ + 1]

Cancel(e) ==
    /\ book[e].state = "open"
    /\ Write(e)
    /\ book'[e] = [book[e] EXCEPT !.state = "voided"]

Init == book = [e \in Entries |-> Blank]

Next == \E e \in Entries : Open(e) \/ Revise(e) \/ Cancel(e)

Spec == Init /\ [][Next]_book

=============================================================================
