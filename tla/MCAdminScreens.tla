---------------------------- MODULE MCAdminScreens ----------------------------
(* A small instance of AdminScreens for TLC. *)
EXTENDS AdminScreens

\* Customers to invite are interchangeable: those with a due come first, then the active.
FirstOnes(customers) == \E n \in 0..MaxInvited : customers = 1..n
SmallInit == Init /\ FirstOnes(active) /\ FirstOnes(due)

\* That a request is given up and what follows its await are one task of the browser.
GivenUp(p) == calls[p] # Session!Idle /\ calls[p].answer.status = "lost"
Prompt == \A p \in Session!Procedures : GivenUp(p) => ~GivenUp(p)'

SmallSpec == SmallInit /\ [][Next /\ Prompt]_vars /\ Fairness
=============================================================================
