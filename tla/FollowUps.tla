----------------------------- MODULE FollowUps -----------------------------
(***************************************************************************)
(* Customer follow-ups of apps/backend/follow_ups: at most one pending     *)
(* reminder per customer, kept by replacing the row when its date moves.   *)
(*                                                                         *)
(* As in Ledger, a worker serves one request at a time and every database  *)
(* statement is a step under READ COMMITTED.  Two waits are PostgreSQL's:  *)
(* a row lock held by another transaction, and an entry of the unique      *)
(* index on the pending rows that another transaction has not committed.   *)
(***************************************************************************)
EXTENDS Integers, FiniteSets

CONSTANTS
    Workers,        \* server processes
    Customers,      \* customer primary keys
    Notes,          \* note texts
    NoNote,         \* a request that leaves the note alone
    NoWorker,       \* the owner of a lock nobody holds
    MaxId,          \* bound: follow-up keys the sequence hands out
    MaxDay,         \* bound: last day of the calendar
    Operations      \* the operations the workers are asked to serve

FollowUpOps == {"create", "update", "complete", "cancel"}
AllOps      == FollowUpOps \cup {"archive"}

ASSUME FollowUpConstants ==
    /\ Customers # {} /\ Notes # {}
    /\ NoNote \notin Notes /\ NoWorker \notin Workers
    /\ MaxId \in Nat \ {0} /\ MaxDay \in Nat \ {0}
    /\ Operations \subseteq AllOps

Id       == 1..MaxId
Day      == 0..MaxDay
NoDate   == -1
Statuses == {"ABSENT", "PENDING", "COMPLETED", "RESCHEDULED", "CANCELLED"}

Row == [customer : Customers, date : Day, note : Notes, status : Statuses,
        rescheduledFrom : 0..MaxId]

Request == [op : AllOps, customer : Customers, target : 0..MaxId,
            date : Day \cup {NoDate}, note : Notes \cup {NoNote},
            superuser : BOOLEAN, day : Day, sawArchived : BOOLEAN]

VARIABLES
    followUps,      \* committed rows
    nextId,         \* the primary key sequence (not rolled back)
    archived,       \* customer.is_archived
    today,          \* timezone.localdate()
    rowLock,        \* follow-up row locks
    custLock,       \* customer row locks (FOR UPDATE)
    pc,             \* how far each worker is in its request
    req,            \* its request; day and sawArchived are from its arrival
    wrote           \* rows it wrote and has not committed

tables == <<followUps, archived>>
locks  == <<rowLock, custLock>>
vars   == <<tables, nextId, today, locks, pc, req, wrote>>

Exists(r)  == r.status # "ABSENT"
Pending(r) == r.status = "PENDING"

SomeCustomer == CHOOSE c \in Customers : TRUE
SomeNote     == CHOOSE n \in Notes : TRUE

NoRow == [customer |-> SomeCustomer, date |-> 0, note |-> SomeNote,
          status |-> "ABSENT", rescheduledFrom |-> 0]

NoRequest == [op |-> "create", customer |-> SomeCustomer, target |-> 0,
              date |-> NoDate, note |-> NoNote, superuser |-> FALSE,
              day |-> 0, sawArchived |-> FALSE]

NoWrites == [i \in {} |-> NoRow]

PendingOf(c) == {i \in Id : Pending(followUps[i]) /\ followUps[i].customer = c}

Init ==
    /\ followUps = [i \in Id |-> NoRow]
    /\ nextId = 1
    /\ archived = [c \in Customers |-> FALSE]
    /\ today = 0
    /\ rowLock = [i \in Id |-> NoWorker]
    /\ custLock = [c \in Customers |-> NoWorker]
    /\ pc = [w \in Workers |-> "idle"]
    /\ req = [w \in Workers |-> NoRequest]
    /\ wrote = [w \in Workers |-> NoWrites]

-----------------------------------------------------------------------------
(* Requests arrive: the views read the customer or the row without a lock. *)

\* The bound MaxId: requests that may insert are received while a key is left.
KeyLeft ==
    nextId + Cardinality({w \in Workers : /\ pc[w] \notin {"idle", "written"}
                                         /\ req[w].op \in {"create", "update"}}) <= MaxId

Receive(w, q) ==
    /\ pc[w] = "idle"
    /\ q.op \in Operations
    /\ pc' = [pc EXCEPT ![w] = "received"]
    /\ req' = [req EXCEPT ![w] = q]
    /\ UNCHANGED <<tables, nextId, today, locks, wrote>>

ReceiveCreate(w) ==
    \E c \in Customers, d \in Day, n \in Notes, su \in BOOLEAN :
        /\ KeyLeft
        /\ Receive(w, [NoRequest EXCEPT !.customer = c, !.date = d, !.note = n,
                          !.superuser = su, !.day = today, !.sawArchived = archived[c]])

ReceiveUpdate(w) ==
    \E i \in Id, d \in Day \cup {NoDate}, n \in Notes \cup {NoNote}, su \in BOOLEAN :
        /\ KeyLeft
        /\ Exists(followUps[i])
        /\ Receive(w, [NoRequest EXCEPT !.op = "update", !.target = i, !.date = d,
                          !.customer = followUps[i].customer, !.note = n,
                          !.superuser = su, !.day = today])

ReceiveClose(w) ==
    \E i \in Id, op \in {"complete", "cancel"} :
        /\ Exists(followUps[i])
        /\ Receive(w, [NoRequest EXCEPT !.op = op, !.target = i,
                          !.customer = followUps[i].customer])

ReceiveArchive(w) ==
    \E c \in Customers : Receive(w, [NoRequest EXCEPT !.op = "archive", !.customer = c])

-----------------------------------------------------------------------------
(* Steps that several operations share.                                    *)

Goto(w, place) == pc' = [pc EXCEPT ![w] = place]

\* The transaction is over, committed or rolled back.
Finish(w) ==
    /\ Goto(w, "idle")
    /\ req' = [req EXCEPT ![w] = NoRequest]
    /\ wrote' = [wrote EXCEPT ![w] = NoWrites]
    /\ rowLock' = [i \in Id |-> IF rowLock[i] = w THEN NoWorker ELSE rowLock[i]]
    /\ custLock' = [c \in Customers |-> IF custLock[c] = w THEN NoWorker ELSE custLock[c]]

Refuse(w) ==
    /\ Finish(w)
    /\ UNCHANGED <<tables, nextId, today>>

AnyDate(w) == TRUE
\* _validate_follow_up_date: only a superuser may set a date that has passed.
DateAllowed(w) == req[w].date >= today \/ req[w].superuser

-----------------------------------------------------------------------------
(* create_follow_up up to its insertion or its turn to reschedule_follow_up. *)

CreateAllowed(w) == ~req[w].sawArchived /\ DateAllowed(w)

CheckCreate(w) ==
    /\ pc[w] = "received" /\ req[w].op = "create"
    /\ CreateAllowed(w)
    /\ IF PendingOf(req[w].customer) = {}
       THEN Goto(w, "inserting") /\ UNCHANGED req
       ELSE /\ Goto(w, "locating")
            /\ \E i \in PendingOf(req[w].customer) : req' = [req EXCEPT ![w].target = i]
    /\ UNCHANGED <<tables, nextId, today, locks, wrote>>

RefuseCreate(w) ==
    /\ pc[w] = "received" /\ req[w].op = "create"
    /\ ~CreateAllowed(w)
    /\ Refuse(w)

-----------------------------------------------------------------------------
(* SELECT ... FOR UPDATE: the joined customer row is locked after the      *)
(* follow-up when the query selects it, and both are re-read.              *)

JoinsNoCustomer(w) == TRUE
LocksOnlyRow(w) == req[w].op \in {"complete", "cancel"}

LockRow(w) ==
    /\ \/ pc[w] = "locating"
       \/ pc[w] = "received" /\ req[w].op \in {"update", "complete", "cancel"}
    /\ rowLock[req[w].target] = NoWorker
    /\ rowLock' = [rowLock EXCEPT ![req[w].target] = w]
    /\ Goto(w, IF LocksOnlyRow(w) THEN "locked" ELSE "joining")
    /\ UNCHANGED <<tables, nextId, today, custLock, req, wrote>>

LockCustomer(w) ==
    /\ \/ pc[w] = "joining"
       \/ pc[w] = "received" /\ req[w].op = "archive"
    /\ custLock[req[w].customer] = NoWorker
    /\ custLock' = [custLock EXCEPT ![req[w].customer] = w]
    /\ Goto(w, "locked")
    /\ UNCHANGED <<tables, nextId, today, rowLock, req, wrote>>

-----------------------------------------------------------------------------
(* Under the locks.                                                        *)

Source(w) == followUps[req[w].target]

NotCompleted(w) == Source(w).status # "COMPLETED"
\* FollowUpNotActionable unless the row is still pending.
Actionable(w) == Pending(Source(w))

MovesToNoDate(w) ==
    \/ req[w].op = "create"
    \/ req[w].op = "update" /\ req[w].date # Source(w).date
MovesDate(w) ==
    \/ req[w].op = "create"
    \/ req[w].op = "update" /\ req[w].date \notin {NoDate, Source(w).date}

\* What update_follow_up and reschedule_follow_up require before they write.
Replaceable(w) ==
    /\ ~archived[req[w].customer]
    /\ Actionable(w)
    /\ MovesDate(w) => DateAllowed(w)

\* reschedule_follow_up: the old row is closed, its successor is inserted next.
Reschedule(w) ==
    /\ pc[w] = "locked" /\ req[w].op \in {"create", "update"}
    /\ Replaceable(w) /\ MovesDate(w)
    /\ wrote' = [wrote EXCEPT ![w] =
          [i \in {req[w].target} |-> [Source(w) EXCEPT !.status = "RESCHEDULED"]]]
    /\ Goto(w, "inserting")
    /\ UNCHANGED <<tables, nextId, today, locks, req>>

\* update_follow_up of the note alone (or of nothing) rewrites the row in place.
EditInPlace(w) ==
    /\ pc[w] = "locked" /\ req[w].op = "update"
    /\ Replaceable(w) /\ ~MovesDate(w)
    /\ wrote' = [wrote EXCEPT ![w] =
          [i \in {j \in {req[w].target} : req[w].note # NoNote} |->
              [Source(w) EXCEPT !.note = req[w].note]]]
    /\ Goto(w, "written")
    /\ UNCHANGED <<tables, nextId, today, locks, req>>

Closed(op) == IF op = "complete" THEN "COMPLETED" ELSE "CANCELLED"

\* complete_follow_up and cancel_follow_up.
Close(w) ==
    /\ pc[w] = "locked" /\ req[w].op \in {"complete", "cancel"}
    /\ Actionable(w)
    /\ wrote' = [wrote EXCEPT ![w] =
          [i \in {req[w].target} |-> [Source(w) EXCEPT !.status = Closed(req[w].op)]]]
    /\ Goto(w, "written")
    /\ UNCHANGED <<tables, nextId, today, locks, req>>

RetryLocked(w) ==
    /\ pc[w] = "locked" /\ req[w].op # "archive" /\ ~Actionable(w)
    /\ Goto(w, "locating")
    /\ rowLock' = [rowLock EXCEPT ![req[w].target] = NoWorker]
    /\ custLock' = [c \in Customers |-> IF custLock[c] = w THEN NoWorker ELSE custLock[c]]
    /\ UNCHANGED <<tables, nextId, today, req, wrote>>
\* ArchivedCustomerFollowUp, FollowUpNotActionable, InvalidFollowUpDate.
RefuseLocked(w) ==
    /\ pc[w] = "locked"
    /\ \/ req[w].op \in {"create", "update"} /\ ~Replaceable(w)
       \/ req[w].op \in {"complete", "cancel"} /\ ~Actionable(w)
       \/ req[w].op = "archive" /\ archived[req[w].customer]
    /\ Refuse(w)

-----------------------------------------------------------------------------
(* INSERT under uniq_pending_follow_up_per_customer: it waits while another *)
(* transaction has written a row that is, or was, the customer's pending    *)
(* one.                                                                     *)

UniqueUndecided(w) ==
    \E v \in Workers \ {w} : \E i \in DOMAIN wrote[v] :
        /\ wrote[v][i].customer = req[w].customer
        /\ Pending(wrote[v][i]) \/ Pending(followUps[i])

Duplicate(w) == PendingOf(req[w].customer) \ DOMAIN wrote[w] # {}

NewRow(w) ==
    LET i == req[w].target
        from == DOMAIN wrote[w]
    IN  [customer |-> req[w].customer, date |-> req[w].date, status |-> "PENDING",
         note |-> IF req[w].note = NoNote THEN followUps[i].note ELSE req[w].note,
         rescheduledFrom |-> IF from = {} THEN 0 ELSE i]

ForgetsSource(w) == [i \in {nextId} |-> NewRow(w)]
WithNewRow(w) ==
    [i \in DOMAIN wrote[w] \cup {nextId} |-> IF i = nextId THEN NewRow(w) ELSE wrote[w][i]]

Insert(w) ==
    /\ pc[w] = "inserting"
    /\ nextId <= MaxId
    /\ ~UniqueUndecided(w)
    /\ ~Duplicate(w)
    /\ wrote' = [wrote EXCEPT ![w] = WithNewRow(w)]
    /\ nextId' = nextId + 1
    /\ Goto(w, "written")
    /\ UNCHANGED <<tables, today, locks, req>>

\* IntegrityError: nothing in the services catches it.
RefuseInsert(w) ==
    /\ pc[w] = "inserting"
    /\ nextId <= MaxId
    /\ ~UniqueUndecided(w)
    /\ Duplicate(w)
    /\ nextId' = nextId + 1
    /\ Finish(w)
    /\ UNCHANGED <<tables, today>>

\* COMMIT checks the deferred foreign key of a new row: it waits for a FOR
\* UPDATE lock another transaction holds on the customer.
Commit(w) ==
    /\ pc[w] = "written"
    /\ (\E i \in DOMAIN wrote[w] : ~Exists(followUps[i])) =>
          custLock[req[w].customer] \in {NoWorker, w}
    /\ followUps' = [i \in Id |-> IF i \in DOMAIN wrote[w] THEN wrote[w][i] ELSE followUps[i]]
    /\ Finish(w)
    /\ UNCHANGED <<archived, nextId, today>>

CommitArchive(w) ==
    /\ pc[w] = "locked" /\ req[w].op = "archive"
    /\ ~archived[req[w].customer]
    /\ archived' = [archived EXCEPT ![req[w].customer] = TRUE]
    /\ Finish(w)
    /\ UNCHANGED <<followUps, nextId, today>>

\* A failure or a disconnection rolls the transaction back.
Abort(w) == pc[w] # "idle" /\ Refuse(w)

Midnight ==
    /\ today < MaxDay
    /\ today' = today + 1
    /\ UNCHANGED <<tables, nextId, locks, pc, req, wrote>>

Arrive(w) == ReceiveCreate(w) \/ ReceiveUpdate(w) \/ ReceiveClose(w) \/ ReceiveArchive(w)

Proceed(w) ==
    \/ CheckCreate(w) \/ RefuseCreate(w)
    \/ LockRow(w) \/ LockCustomer(w) \/ RefuseLocked(w)
    \/ Reschedule(w) \/ EditInPlace(w) \/ Close(w)
    \/ Insert(w) \/ RefuseInsert(w)
    \/ Commit(w) \/ CommitArchive(w)

Next == Midnight \/ \E w \in Workers : Arrive(w) \/ Proceed(w) \/ Abort(w)

Spec == Init /\ [][Next]_vars

\* PostgreSQL queues the waiters of a lock, so none is overtaken for ever.
FairSpec == Spec /\ \A w \in Workers : SF_vars(Proceed(w))

-----------------------------------------------------------------------------
(* Correctness.                                                            *)

TypeOK ==
    /\ followUps \in [Id -> Row]
    /\ nextId \in 1..(MaxId + 1)
    /\ archived \in [Customers -> BOOLEAN]
    /\ today \in Day
    /\ rowLock \in [Id -> Workers \cup {NoWorker}]
    /\ custLock \in [Customers -> Workers \cup {NoWorker}]
    /\ pc \in [Workers -> {"idle", "received", "locating", "joining", "locked",
                           "inserting", "written"}]
    /\ req \in [Workers -> Request]
    /\ \A w \in Workers : DOMAIN wrote[w] \subseteq Id
    /\ \A w \in Workers : \A i \in DOMAIN wrote[w] : wrote[w][i] \in Row

Replacements(i) == {j \in Id : Exists(followUps[j]) /\ followUps[j].rescheduledFrom = i}

(* A follow-up is RESCHEDULED exactly when one later row of the same customer     *)
(* replaces it: a date moved while the row was being completed, cancelled or      *)
(* moved by someone else neither forks nor loses the trail.                       *)
RescheduleTrail ==
    \A i \in Id : Exists(followUps[i]) =>
        /\ followUps[i].status = "RESCHEDULED" <=> Replacements(i) # {}
        /\ \A j, k \in Replacements(i) : j = k
        /\ \A j \in Replacements(i) : followUps[j].customer = followUps[i].customer /\ j > i

Inserted(i) == ~Exists(followUps[i]) /\ Exists(followUps'[i])

(* A follow-up is never moved to a new date once its customer is archived: the     *)
(* join of the locking query keeps the customer locked until the move commits.     *)
NoMoveWhenArchived ==
    [][\A i \in Id : Inserted(i) /\ followUps'[i].rescheduledFrom # 0
          => ~archived[followUps'[i].customer]]_vars

(* A staff user's request never records a date that had passed when it arrived,    *)
(* whichever path, create, update or create turned into a move, inserts the row.   *)
NoPastDates ==
    [][\A w \in Workers :
          pc[w] = "written" /\ pc'[w] = "idle" /\ ~req[w].superuser =>
              \A i \in DOMAIN wrote[w] : Inserted(i) => followUps'[i].date >= req[w].day]_vars
InsertionsAllowed == NoMoveWhenArchived /\ NoPastDates

(* No request waits for ever: the follow-up, customer and index waits of moves,    *)
(* creations and archiving never form a cycle.                                     *)
EveryRequestEnds == \A w \in Workers : pc[w] # "idle" ~> pc[w] = "idle"

=============================================================================
