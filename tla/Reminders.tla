----------------------------- MODULE Reminders -----------------------------
(***************************************************************************)
(* What the follow-ups promise: a customer has at most one reminder; it is *)
(* set, reworded, moved or closed, and nothing else makes it disappear.    *)
(* Closed reminders are only ever added to, one at a time.                 *)
(***************************************************************************)
EXTENDS Integers, FiniteSets

CONSTANTS Customers, Days, Notes, Outcomes

VARIABLES
    reminder,   \* each customer's reminder, or None
    closed      \* how many reminders each customer has had closed, by outcome

None == [set |-> FALSE]

Reminder == [set : {TRUE}, date : Days, note : Notes]

Init ==
    /\ reminder = [c \in Customers |-> None]
    /\ closed = [c \in Customers |-> [o \in Outcomes |-> 0]]

Set(c) ==
    /\ reminder[c] = None
    /\ \E r \in Reminder : reminder' = [reminder EXCEPT ![c] = r]
    /\ UNCHANGED closed

Reword(c) ==
    /\ reminder[c] # None
    /\ \E n \in Notes : reminder' = [reminder EXCEPT ![c].note = n]
    /\ UNCHANGED closed

Move(c) ==
    /\ reminder[c] # None
    /\ \E r \in Reminder : reminder' = [reminder EXCEPT ![c] = r]
    /\ closed' = [closed EXCEPT ![c]["RESCHEDULED"] = @ + 1]

Close(c, o) ==
    /\ reminder[c] # None
    /\ reminder' = [reminder EXCEPT ![c] = None]
    /\ closed' = [closed EXCEPT ![c][o] = @ + 1]

Next ==
    \E c \in Customers :
        \/ Set(c) \/ Reword(c) \/ Move(c)
        \/ \E o \in Outcomes \ {"RESCHEDULED"} : Close(c, o)

Spec == Init /\ [][Next]_<<reminder, closed>>

=============================================================================
