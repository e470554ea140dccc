---------------------------- MODULE Invitations ----------------------------
(***************************************************************************)
(* Invitation generations of a Halkhata (apps/backend/halkhata): a request *)
(* picks customers, reads their rows in a second SELECT, and stores a      *)
(* generation with a snapshot of each recipient.  Nothing is locked, so    *)
(* customers and the Halkhata change between any two of its statements.    *)
(***************************************************************************)
EXTENDS Integers, FiniteSets, Sequences

CONSTANTS
    Workers,            \* server processes
    Customers,          \* customer primary keys
    Halkhatas,          \* halkhata primary keys
    Balances,           \* values of cached_balance
    MaxGenerations,     \* bound: generations stored
    MaxMoments          \* bound: customer tables a request lives through

ASSUME InvitationConstants ==
    /\ Balances \subseteq Int /\ 0 \in Balances
    /\ IsFiniteSet(Customers) /\ Halkhatas # {}
    /\ MaxGenerations \in Nat /\ MaxMoments \in Nat

Modes == {"manual", "all_active", "due_only"}

\* What the queries of this module see of the customer table.
Book == [Customers -> [due : Balances, archived : BOOLEAN]]

Generation == [halkhata : Halkhatas, mode : Modes, selected : SUBSET Customers,
               count : Nat, dues : UNION {[S -> Balances] : S \in SUBSET Customers}]

VARIABLES
    book,           \* the customer table
    status,         \* halkhata.status
    generations,    \* committed generations with their recipients' snapshots
    pc, req,        \* how far each worker is, and what it was asked for
    ids,            \* the customers it resolved
    cards,          \* the dues of the customer rows it read
    moments         \* history: the customer tables since its request arrived

tables == <<book, status, generations>>
vars   == <<tables, pc, req, ids, cards, moments>>

NoCards   == [c \in {} |-> 0]
NoRequest == [halkhata |-> CHOOSE h \in Halkhatas : TRUE, mode |-> "manual",
              chosen |-> {}, status |-> "active"]

Init ==
    /\ book \in [Customers -> [due : {0}, archived : {FALSE}]]
    /\ status = [h \in Halkhatas |-> "active"]
    /\ generations = <<>>
    /\ pc = [w \in Workers |-> "idle"]
    /\ req = [w \in Workers |-> NoRequest]
    /\ ids = [w \in Workers |-> {}]
    /\ cards = [w \in Workers |-> NoCards]
    /\ moments = [w \in Workers |-> {}]

Goto(w, place) == pc' = [pc EXCEPT ![w] = place]

Finish(w) ==
    /\ Goto(w, "idle")
    /\ req' = [req EXCEPT ![w] = NoRequest]
    /\ ids' = [ids EXCEPT ![w] = {}]
    /\ cards' = [cards EXCEPT ![w] = NoCards]
    /\ moments' = [moments EXCEPT ![w] = {}]

-----------------------------------------------------------------------------
(* create_invitation_generation.                                           *)

\* get_object reads the halkhata; the serializer refuses an empty manual choice.
Receive(w) ==
    \E h \in Halkhatas, mode \in Modes, chosen \in SUBSET Customers :
        /\ pc[w] = "idle"
        /\ mode = "manual" <=> chosen # {}
        /\ Len(generations) + Cardinality({v \in Workers : pc[v] # "idle"}) < MaxGenerations
        /\ req' = [req EXCEPT ![w] = [halkhata |-> h, mode |-> mode, chosen |-> chosen,
                                      status |-> status[h]]]
        /\ moments' = [moments EXCEPT ![w] = {book}]
        /\ Goto(w, "received")
        /\ UNCHANGED <<tables, ids, cards>>

Active == {c \in Customers : ~book[c].archived}

\* resolve_customer_ids.
SelectableWithDue(q) ==
    {c \in Active : book[c].due > 0 \/ c \in q.chosen}
Selectable(q) ==
    CASE q.mode = "manual"     -> Active \cap q.chosen
      [] q.mode = "all_active" -> Active
      [] q.mode = "due_only"   -> {c \in Active : book[c].due > 0}

Acceptable(w) ==
    /\ req[w].status = "active"
    /\ Selectable(req[w]) # {}
    /\ req[w].chosen \subseteq Selectable(req[w])

ResolveIds(w) ==
    /\ pc[w] = "received"
    /\ Acceptable(w)
    /\ ids' = [ids EXCEPT ![w] = Selectable(req[w])]
    /\ Goto(w, "resolved")
    /\ UNCHANGED <<tables, req, cards, moments>>

\* HalkhataClosed, HalkhataInvitationNoCustomers, HalkhataInvitationInvalidCustomers.
Refuse(w) ==
    /\ pc[w] = "received"
    /\ ~Acceptable(w)
    /\ Finish(w)
    /\ UNCHANGED tables

NoRecount(w) == TRUE
\* Every customer resolved is still there: len(customers) = len(resolved_ids).
StillAllActive(w) == Cardinality(ids[w] \cap Active) = Cardinality(ids[w])

ReadCustomers(w) ==
    /\ pc[w] = "resolved"
    /\ StillAllActive(w)
    /\ cards' = [cards EXCEPT ![w] = [c \in ids[w] \cap Active |-> book[c].due]]
    /\ Goto(w, "read")
    /\ UNCHANGED <<tables, req, ids, moments>>

CustomersChanged(w) ==
    /\ pc[w] = "resolved"
    /\ ~StillAllActive(w)
    /\ Finish(w)
    /\ UNCHANGED tables

\* _build_snapshot: the due amount of a recipient.
DueAtInsert(w, c) == book[c].due
AsCredit(w, c) == -cards[w][c]
SnapshotOf(w, c) == cards[w][c]

NewGeneration(w) ==
    [halkhata |-> req[w].halkhata, mode |-> req[w].mode, selected |-> ids[w],
     count |-> Cardinality(ids[w]),
     dues |-> [c \in DOMAIN cards[w] |-> SnapshotOf(w, c)]]

\* Both insertions and the COMMIT: nothing else sees them apart.
StoreGeneration(w) ==
    /\ pc[w] = "read"
    /\ generations' = Append(generations, NewGeneration(w))
    /\ Finish(w)
    /\ UNCHANGED <<book, status>>

-----------------------------------------------------------------------------
(* What other requests commit meanwhile.                                   *)

\* A new customer table, remembered by the requests being served.
Publish(b) ==
    /\ \A w \in Workers : Cardinality(moments[w] \cup {b}) <= MaxMoments
    /\ book' = b
    /\ moments' = [w \in Workers |-> IF pc[w] = "idle" THEN {} ELSE moments[w] \cup {b}]
    /\ UNCHANGED <<status, generations, pc, req, ids, cards>>

\* sync_customer_cached_balance of a committed transaction (module Ledger).
CommitBalance ==
    \E c \in Customers, due \in Balances :
        due # book[c].due /\ Publish([book EXCEPT ![c].due = due])

\* archive_customer (module Registry).
CommitArchive ==
    \E c \in Active : Publish([book EXCEPT ![c].archived = TRUE])

\* update_halkhata.
CommitStatus ==
    \E h \in Halkhatas, s \in {"active", "closed"} :
        /\ s # status[h]
        /\ status' = [status EXCEPT ![h] = s]
        /\ UNCHANGED <<book, generations, pc, req, ids, cards, moments>>

Serve(w) ==
    \/ Receive(w) \/ ResolveIds(w) \/ Refuse(w)
    \/ ReadCustomers(w) \/ CustomersChanged(w) \/ StoreGeneration(w)

Next ==
    \/ \E w \in Workers : Serve(w)
    \/ CommitBalance \/ CommitArchive \/ CommitStatus

Spec == Init /\ [][Next]_vars

-----------------------------------------------------------------------------
(* Correctness.                                                            *)

TypeOK ==
    /\ book \in Book
    /\ status \in [Halkhatas -> {"active", "closed"}]
    /\ \A i \in DOMAIN generations : generations[i] \in Generation
    /\ pc \in [Workers -> {"idle", "received", "resolved", "read"}]
    /\ ids \in [Workers -> SUBSET Customers]

(* A generation's recorded count and selection are its recipients: a customer      *)
(* archived between the two SELECTs is never silently left out.                    *)
CountIsRecipients ==
    \A i \in DOMAIN generations :
        /\ generations[i].selected = DOMAIN generations[i].dues
        /\ generations[i].count = Cardinality(DOMAIN generations[i].dues)

(* The customers that the request is for, by the customer table b: those chosen by  *)
(* hand, all that are active, or all that are active with a due.                    *)
RecipientsIn(q, b) ==
    {c \in Customers : /\ ~b[c].archived
                       /\ q.mode = "manual" => c \in q.chosen
                       /\ q.mode = "due_only" => b[c].due > 0}

(* The selection is that of one moment of the request, and nobody chosen by hand is *)
(* missing from it.                                                                 *)
SelectionOfOneMoment ==
    \A w \in Workers : pc[w] \in {"resolved", "read"} =>
        /\ \E b \in moments[w] : ids[w] = RecipientsIn(req[w], b)
        /\ req[w].chosen \subseteq ids[w]

(* The cards about to be stored show the selected customers as they were at one     *)
(* moment of the request: active, each with its due.  It need not be the moment of  *)
(* the selection, so that a card selected for its due can be without one.           *)
CardsOfOneMoment ==
    \A w \in Workers : pc[w] = "read" =>
        \E b \in moments[w] : \A c \in ids[w] :
            ~b[c].archived /\ NewGeneration(w).dues[c] = b[c].due

CardsFitTheCustomers == CountIsRecipients /\ SelectionOfOneMoment /\ CardsOfOneMoment

=============================================================================
