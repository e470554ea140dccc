------------------------- MODULE FollowUpRefinement -------------------------
(***************************************************************************)
(* The rows of FollowUps read as Reminders: a customer's reminder is the   *)
(* pending follow-up, the others are counted by how they were closed.      *)
(***************************************************************************)
EXTENDS FollowUps

Outcomes == {"COMPLETED", "CANCELLED", "RESCHEDULED"}

Reminded(c) ==
    IF PendingOf(c) = {} THEN [set |-> FALSE]
    ELSE LET i == CHOOSE i \in PendingOf(c) : TRUE
         IN  [set |-> TRUE, date |-> followUps[i].date, note |-> followUps[i].note]

ClosedRows(c, o) == {i \in Id : followUps[i].customer = c /\ followUps[i].status = o}

Abstract == INSTANCE Reminders WITH
    Days <- Day,
    reminder <- [c \in Customers |-> Reminded(c)],
    closed <- [c \in Customers |-> [o \in Outcomes |-> Cardinality(ClosedRows(c, o))]]

(* Racing requests on a customer's follow-ups read as one reminder that is set,   *)
(* reworded, moved or closed once: a move never leaves the customer without the   *)
(* reminder, and a closed one is never closed or moved again.                     *)
ImplementsReminders == Abstract!Spec

=============================================================================
