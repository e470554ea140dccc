--------------------------- MODULE FollowUpProofs ---------------------------
(***************************************************************************)
(* Theorems about FollowUps, for every value of its constants.             *)
(***************************************************************************)
EXTENDS FollowUpRefinement, FiniteSetTheorems, TLAPS

-----------------------------------------------------------------------------
(* The invariant.                                                          *)

Writes == UNION {[S -> Row] : S \in SUBSET Id}

Typed ==
    /\ followUps \in [Id -> Row]
    /\ nextId \in 1..(MaxId + 1)
    /\ archived \in [Customers -> BOOLEAN]
    /\ today \in Day
    /\ rowLock \in [Id -> Workers \cup {NoWorker}]
    /\ custLock \in [Customers -> Workers \cup {NoWorker}]
    /\ pc \in [Workers -> {"idle", "received", "locating", "joining", "locked",
                           "inserting", "written"}]
    /\ req \in [Workers -> Request]
    /\ wrote \in [Workers -> Writes]

\* The places where a request goes by the follow-up it has found, and where it holds it.
HasTarget(w) ==
    \/ pc[w] = "received" /\ req[w].op \in {"update", "complete", "cancel"}
    \/ pc[w] \in {"locating", "joining"}
    \/ pc[w] = "locked" /\ req[w].op # "archive"
HoldsRow(w) ==
    \/ pc[w] = "joining"
    \/ pc[w] = "locked" /\ req[w].op # "archive"

InPlace(w) ==
    /\ HasTarget(w) => /\ req[w].target \in Id
                       /\ Exists(followUps[req[w].target])
                       /\ followUps[req[w].target].customer = req[w].customer
    /\ HoldsRow(w) => rowLock[req[w].target] = w
    /\ pc[w] = "locked" /\ req[w].op \in {"create", "update", "archive"} =>
          custLock[req[w].customer] = w
    /\ pc[w] \in {"locating", "joining", "inserting"} => req[w].op \in {"create", "update"}
    /\ pc[w] \notin {"inserting", "written"} => DOMAIN wrote[w] = {}
    /\ pc[w] # "idle" /\ req[w].op = "create" => req[w].date \in Day /\ req[w].note \in Notes
    /\ pc[w] = "received" /\ req[w].op = "create" => req[w].target = 0
    /\ pc[w] # "idle" /\ req[w].op \in {"create", "update"} => req[w].day <= today

DateFits(w) == req[w].superuser \/ req[w].date >= req[w].day

\* The follow-up a request has rewritten: the customer's pending one, under its lock.
Rewritten(w) ==
    LET t == req[w].target IN
    t \in DOMAIN wrote[w] =>
        /\ t \in Id /\ Pending(followUps[t]) /\ rowLock[t] = w
        /\ followUps[t].customer = req[w].customer
        /\ wrote[w][t] = [followUps[t] EXCEPT !.status = wrote[w][t].status,
                                              !.note = wrote[w][t].note]
        /\ Exists(wrote[w][t])
        /\ wrote[w][t].status = "RESCHEDULED" =>
              custLock[req[w].customer] = w /\ ~archived[req[w].customer]

\* The follow-up it has inserted: with it the customer will have one pending.
NewlyWritten(w) ==
    LET t == req[w].target IN
    \A i \in DOMAIN wrote[w] \ {t} :
        /\ pc[w] = "written"
        /\ i < nextId /\ ~Exists(followUps[i])
        /\ Pending(wrote[w][i])
        /\ wrote[w][i].customer = req[w].customer
        /\ wrote[w][i].date = req[w].date /\ DateFits(w)
        /\ wrote[w][i].rescheduledFrom = IF t \in DOMAIN wrote[w] THEN t ELSE 0
        /\ t \in DOMAIN wrote[w] => t < i /\ wrote[w][t].status = "RESCHEDULED"
        /\ PendingOf(req[w].customer) \subseteq DOMAIN wrote[w]
        /\ DOMAIN wrote[w] \subseteq {t, i}

\* A follow-up is moved by closing it and inserting the next one, never by half of it.
Whole(w) ==
    LET t == req[w].target IN
    /\ pc[w] = "inserting" =>
          /\ req[w].date \in Day /\ DateFits(w)
          /\ \/ DOMAIN wrote[w] = {} /\ t = 0 /\ req[w].op = "create"
             \/ DOMAIN wrote[w] = {t} /\ wrote[w][t].status = "RESCHEDULED"
    /\ pc[w] = "written" /\ t \in DOMAIN wrote[w] /\ wrote[w][t].status = "RESCHEDULED" =>
          DOMAIN wrote[w] # {t}

Fits(w) == InPlace(w) /\ Rewritten(w) /\ NewlyWritten(w) /\ Whole(w)

\* Two requests never write follow-ups of one customer at a time.
Apart(v, w) ==
    DOMAIN wrote[v] # {} /\ DOMAIN wrote[w] # {} =>
        /\ req[v].customer # req[w].customer
        /\ DOMAIN wrote[v] \cap DOMAIN wrote[w] = {}

OnePending == \A c \in Customers : \A i, j \in PendingOf(c) : i = j

KeysUsed ==
    \A i \in Id : Exists(followUps[i]) =>
        /\ i < nextId
        /\ LET f == followUps[i].rescheduledFrom IN f \in Id => Exists(followUps[f])

(* The trail is whole, a customer has one pending follow-up, and what each request *)
(* has written is about a customer nobody else is writing for.                     *)
FollowUpInvariant ==
    /\ RescheduleTrail /\ OnePending /\ KeysUsed
    /\ \A w \in Workers : Fits(w)
    /\ \A v, w \in Workers : v # w => Apart(v, w)

-----------------------------------------------------------------------------
(* Types.                                                                  *)

LEMMA DefaultsTyped ==
    /\ SomeCustomer \in Customers /\ SomeNote \in Notes
    /\ NoRow \in Row /\ NoRequest \in Request /\ NoWrites \in Writes /\ DOMAIN NoWrites = {}
<1>1. SomeCustomer \in Customers /\ SomeNote \in Notes
  BY FollowUpConstants DEF SomeCustomer, SomeNote
<1>2. 0 \in Day /\ 0 \in 0..MaxId
  BY FollowUpConstants DEF Day
<1>3. NoRow \in Row
  BY <1>1, <1>2 DEF NoRow, Row, Statuses
<1>4. NoRequest \in Request
  BY <1>1, <1>2 DEF NoRequest, Request, AllOps, FollowUpOps, NoDate
<1>5. NoWrites \in Writes /\ DOMAIN NoWrites = {}
  BY <1>3 DEF NoWrites, Writes
<1> QED
  BY <1>1, <1>3, <1>4, <1>5

LEMMA WritesTyped ==
    ASSUME NEW W \in Writes
    PROVE  DOMAIN W \subseteq Id /\ \A i \in DOMAIN W : W[i] \in Row
  BY DEF Writes

LEMMA InitTyped == Init => Typed
<1> SUFFICES ASSUME Init PROVE Typed
  OBVIOUS
<1>1. 1 \in 1..(MaxId + 1) /\ 0 \in Day
  BY FollowUpConstants DEF Day
<1> QED
  BY <1>1, DefaultsTyped DEF Init, Typed

LEMMA FinishTyped ==
    ASSUME Typed, NEW w \in Workers, Finish(w)
    PROVE  /\ rowLock' \in [Id -> Workers \cup {NoWorker}]
           /\ custLock' \in [Customers -> Workers \cup {NoWorker}]
           /\ pc' \in [Workers -> {"idle", "received", "locating", "joining", "locked",
                                  "inserting", "written"}]
           /\ req' \in [Workers -> Request]
           /\ wrote' \in [Workers -> Writes]
  BY DefaultsTyped DEF Finish, Goto, Typed

LEMMA ArriveTyped ==
    ASSUME Typed, NEW w \in Workers, Arrive(w)
    PROVE  Typed'
<1>1. ASSUME NEW q \in Request, Receive(w, q)
      PROVE  Typed'
  BY <1>1 DEF Receive, tables, locks, Typed
<1>2. /\ NoRequest \in Request /\ Id \subseteq 0..MaxId /\ today \in Day
      /\ \A i \in Id : followUps[i].customer \in Customers
      /\ \A c \in Customers : archived[c] \in BOOLEAN
  BY DefaultsTyped, FollowUpConstants DEF Typed, Row, Id
<1>3. CASE ReceiveCreate(w)
  <2>1. PICK c \in Customers, d \in Day, n \in Notes, su \in BOOLEAN :
            Receive(w, [NoRequest EXCEPT !.customer = c, !.date = d, !.note = n,
                          !.superuser = su, !.day = today, !.sawArchived = archived[c]])
    BY <1>3 DEF ReceiveCreate
  <2>2. [NoRequest EXCEPT !.customer = c, !.date = d, !.note = n, !.superuser = su,
                          !.day = today, !.sawArchived = archived[c]] \in Request
    BY <1>2 DEF Request
  <2> QED
    BY <1>1, <2>1, <2>2
<1>4. CASE ReceiveUpdate(w)
  <2>1. PICK i \in Id, d \in Day \cup {NoDate}, n \in Notes \cup {NoNote}, su \in BOOLEAN :
            Receive(w, [NoRequest EXCEPT !.op = "update", !.target = i, !.date = d,
                          !.customer = followUps[i].customer, !.note = n,
                          !.superuser = su, !.day = today])
    BY <1>4 DEF ReceiveUpdate
  <2>2. [NoRequest EXCEPT !.op = "update", !.target = i, !.date = d,
                          !.customer = followUps[i].customer, !.note = n,
                          !.superuser = su, !.day = today] \in Request
    BY <1>2 DEF Request, AllOps, FollowUpOps
  <2> QED
    BY <1>1, <2>1, <2>2
<1>5. CASE ReceiveClose(w)
  BY <1>1, <1>2, <1>5 DEF ReceiveClose, Request, AllOps, FollowUpOps
<1>6. CASE ReceiveArchive(w)
  BY <1>1, <1>2, <1>6 DEF ReceiveArchive, Request, AllOps
<1> QED
  BY <1>3, <1>4, <1>5, <1>6 DEF Arrive

-----------------------------------------------------------------------------
(* The steps of one request that publish nothing.                          *)

\* Only request w goes on; what the others hold stays theirs.
OnlyOne(w) ==
    /\ UNCHANGED <<followUps, archived, today>>
    /\ nextId' \in Nat /\ nextId <= nextId'
    /\ \A v \in Workers \ {w} :
          /\ pc'[v] = pc[v] /\ req'[v] = req[v] /\ wrote'[v] = wrote[v]
          /\ \A i \in Id : rowLock[i] = v => rowLock'[i] = v
          /\ \A c \in Customers : custLock[c] = v => custLock'[c] = v

LEMMA OthersKept ==
    ASSUME Typed, FollowUpInvariant, NEW w \in Workers, OnlyOne(w), Fits(w)',
           \A v \in Workers \ {w} :
               DOMAIN wrote[v] # {} /\ DOMAIN wrote'[w] # {} =>
                   /\ req[v].customer # req'[w].customer
                   /\ DOMAIN wrote[v] \cap DOMAIN wrote'[w] = {}
    PROVE  FollowUpInvariant'
<1>1. RescheduleTrail'
  BY DEF OnlyOne, FollowUpInvariant, RescheduleTrail, Replacements
<1>2. OnePending'
  BY DEF OnlyOne, FollowUpInvariant, OnePending, PendingOf
<1>3. KeysUsed'
  BY DEF OnlyOne, FollowUpInvariant, KeysUsed, Typed, Id
<1>4. ASSUME NEW v \in Workers \ {w}
      PROVE  Fits(v)'
  <2> DEFINE t == req[v].target
  <2>1. /\ InPlace(v) /\ Rewritten(v) /\ NewlyWritten(v) /\ Whole(v)
        /\ req[v] \in Request /\ wrote[v] \in Writes
    BY DEF FollowUpInvariant, Fits, Typed
  <2>2. /\ pc'[v] = pc[v] /\ req'[v] = req[v] /\ wrote'[v] = wrote[v]
        /\ UNCHANGED <<followUps, archived, today>>
        /\ \A i \in Id : rowLock[i] = v => rowLock'[i] = v
        /\ custLock[req[v].customer] = v => custLock'[req[v].customer] = v
    BY <2>1 DEF OnlyOne, Request
  <2>3. InPlace(v)'
    <3>1. HoldsRow(v) => HasTarget(v) /\ t \in Id
      BY <2>1 DEF InPlace, HoldsRow, HasTarget
    <3> QED
      BY <2>1, <2>2, <3>1 DEF InPlace, HasTarget, HoldsRow
  <2>4. Rewritten(v)'
    BY <2>1, <2>2 DEF Rewritten
  <2>5. NewlyWritten(v)'
    <3>1. nextId \in Nat /\ nextId' \in Nat /\ nextId <= nextId'
      BY FollowUpConstants DEF OnlyOne, Typed
    <3>2. DOMAIN wrote[v] \subseteq Id /\ Id \subseteq Nat
      BY <2>1, WritesTyped DEF Id
    <3>3. ASSUME NEW i \in DOMAIN wrote[v] \ {t}
          PROVE  i < nextId' /\ PendingOf(req[v].customer)' \subseteq DOMAIN wrote[v]
      <4>1. i < nextId /\ PendingOf(req[v].customer) \subseteq DOMAIN wrote[v] /\ i \in Nat
        BY <2>1, <3>2, <3>3 DEF NewlyWritten
      <4>2. PendingOf(req[v].customer)' = PendingOf(req[v].customer)
        BY <2>2 DEF PendingOf
      <4> QED
        BY <3>1, <4>1, <4>2
    <3> QED
      BY <2>1, <2>2, <3>3 DEF NewlyWritten, DateFits, PendingOf
  <2>6. Whole(v)'
    BY <2>1, <2>2 DEF Whole, DateFits
  <2> QED
    BY <2>3, <2>4, <2>5, <2>6 DEF Fits
<1>5. ASSUME NEW u \in Workers, NEW v \in Workers, u # v
      PROVE  Apart(u, v)'
  BY <1>5 DEF OnlyOne, FollowUpInvariant, Apart
<1> QED
  BY <1>1, <1>2, <1>3, <1>4, <1>5 DEF FollowUpInvariant

\* A request that has not written, and frees or takes only locks nobody else holds.
LEMMA NothingWritten ==
    ASSUME Typed, FollowUpInvariant, NEW w \in Workers, OnlyOne(w), InPlace(w)',
           DOMAIN wrote'[w] = {}, pc'[w] # "inserting"
    PROVE  FollowUpInvariant'
<1>1. Fits(w)'
  BY DEF Fits, Rewritten, NewlyWritten, Whole
<1> QED
  BY <1>1, OthersKept

LEMMA FinishKeeps ==
    ASSUME Typed, FollowUpInvariant, NEW w \in Workers, Finish(w),
           UNCHANGED <<followUps, archived, today>>, nextId' \in 1..(MaxId + 1), nextId <= nextId'
    PROVE  Typed' /\ FollowUpInvariant'
<1>1. Typed'
  BY FinishTyped DEF Typed
<1>2. OnlyOne(w)
  BY FollowUpConstants DEF Finish, Goto, Typed, OnlyOne
<1>3. pc'[w] = "idle" /\ DOMAIN wrote'[w] = {}
  BY DefaultsTyped DEF Finish, Goto, Typed
<1>4. InPlace(w)'
  BY <1>3 DEF InPlace, HasTarget, HoldsRow
<1> QED
  BY <1>1, <1>2, <1>3, <1>4, NothingWritten

LEMMA RefuseKeeps ==
    ASSUME Typed, FollowUpInvariant, NEW w \in Workers, Refuse(w)
    PROVE  Typed' /\ FollowUpInvariant'
<1>1. /\ Finish(w) /\ UNCHANGED <<followUps, archived, today>>
      /\ nextId' \in 1..(MaxId + 1) /\ nextId <= nextId'
  BY FollowUpConstants DEF Refuse, tables, Typed
<1> QED
  BY <1>1, FinishKeeps

LEMMA RefuseInsertKeeps ==
    ASSUME Typed, FollowUpInvariant, NEW w \in Workers, RefuseInsert(w)
    PROVE  Typed' /\ FollowUpInvariant'
<1>1. /\ Finish(w) /\ UNCHANGED <<followUps, archived, today>>
      /\ nextId' \in 1..(MaxId + 1) /\ nextId <= nextId'
  BY FollowUpConstants DEF RefuseInsert, tables, Typed
<1> QED
  BY <1>1, FinishKeeps

LEMMA ArriveKeeps ==
    ASSUME Typed, FollowUpInvariant, NEW w \in Workers, Arrive(w)
    PROVE  FollowUpInvariant'
<1> USE DEF HasTarget, HoldsRow
<1>1. ASSUME NEW q, Receive(w, q),
             q.op \in {"update", "complete", "cancel"} =>
                 /\ q.target \in Id /\ Exists(followUps[q.target])
                 /\ followUps[q.target].customer = q.customer,
             q.op = "create" => q.date \in Day /\ q.note \in Notes /\ q.target = 0,
             q.op \in {"create", "update"} => q.day = today
      PROVE  FollowUpInvariant'
  <2>1. /\ pc[w] = "idle" /\ pc' = [pc EXCEPT ![w] = "received"] /\ req' = [req EXCEPT ![w] = q]
        /\ UNCHANGED <<followUps, archived, nextId, today, rowLock, custLock, wrote>>
    BY <1>1 DEF Receive, tables, locks
  <2>2. OnlyOne(w)
    BY <2>1, FollowUpConstants DEF Typed, OnlyOne
  <2>3. pc'[w] = "received" /\ req'[w] = q /\ DOMAIN wrote'[w] = {}
    BY <2>1 DEF Typed, FollowUpInvariant, Fits, InPlace
  <2>4. today \in Int
    BY FollowUpConstants DEF Typed, Day
  <2>5. InPlace(w)'
    BY <1>1, <2>1, <2>3, <2>4 DEF InPlace
  <2> QED
    BY <2>2, <2>3, <2>5, NothingWritten
<1> USE DEF NoRequest
<1>2. CASE ReceiveCreate(w)
  BY <1>1, <1>2 DEF ReceiveCreate
<1>3. CASE ReceiveUpdate(w)
  BY <1>1, <1>3 DEF ReceiveUpdate
<1>4. CASE ReceiveClose(w)
  BY <1>1, <1>4 DEF ReceiveClose
<1>5. CASE ReceiveArchive(w)
  BY <1>1, <1>5 DEF ReceiveArchive
<1> QED
  BY <1>2, <1>3, <1>4, <1>5 DEF Arrive

LEMMA CheckCreateKeeps ==
    ASSUME Typed, FollowUpInvariant, NEW w \in Workers, CheckCreate(w)
    PROVE  Typed' /\ FollowUpInvariant'
<1> DEFINE c == req[w].customer
<1>1. /\ pc[w] = "received" /\ req[w].op = "create" /\ DateAllowed(w)
      /\ UNCHANGED <<followUps, archived, nextId, today, rowLock, custLock, wrote>>
      /\ \/ /\ pc' = [pc EXCEPT ![w] = "inserting"] /\ req' = req
         \/ \E i \in PendingOf(c) : /\ pc' = [pc EXCEPT ![w] = "locating"]
                                    /\ req' = [req EXCEPT ![w].target = i]
  BY DEF CheckCreate, CreateAllowed, Goto, tables, locks
<1>2. /\ req[w] \in Request /\ today \in Int /\ req[w].day \in Int /\ req[w].date \in Day
      /\ req[w].note \in Notes /\ req[w].target = 0 /\ DOMAIN wrote[w] = {}
      /\ req[w].day <= today /\ req[w].date \in Int
  BY <1>1, FollowUpConstants DEF Typed, Request, Day, FollowUpInvariant, Fits, InPlace
<1>3. CASE pc' = [pc EXCEPT ![w] = "inserting"] /\ req' = req
  <2>1. Typed' /\ OnlyOne(w)
    BY <1>1, <1>3, FollowUpConstants DEF Typed, OnlyOne
  <2>2. pc'[w] = "inserting"
    BY <1>3 DEF Typed
  <2>3. InPlace(w)'
    BY <1>1, <1>2, <1>3, <2>2 DEF InPlace, HasTarget, HoldsRow
  <2>4. DateFits(w)
    BY <1>1, <1>2 DEF DateAllowed, DateFits
  <2>5. Fits(w)'
    BY <1>1, <1>2, <1>3, <2>2, <2>3, <2>4
       DEF Fits, Rewritten, NewlyWritten, Whole, DateFits
  <2> QED
    BY <1>1, <1>2, <2>1, <2>5, OthersKept
<1>4. ASSUME NEW i \in PendingOf(c), pc' = [pc EXCEPT ![w] = "locating"],
             req' = [req EXCEPT ![w].target = i]
      PROVE  Typed' /\ FollowUpInvariant'
  <2>1. i \in Id /\ i \in 0..MaxId /\ Exists(followUps[i]) /\ followUps[i].customer = c
    BY <1>4, FollowUpConstants DEF PendingOf, Pending, Exists, Id
  <2>2. pc'[w] = "locating" /\ req'[w] = [req[w] EXCEPT !.target = i] /\ req'[w] \in Request
        /\ req'[w].target = i /\ req'[w].op = "create" /\ req'[w].customer = c
        /\ req'[w].date = req[w].date /\ req'[w].note = req[w].note /\ req'[w].day = req[w].day
    BY <1>1, <1>2, <1>4, <2>1 DEF Typed, Request
  <2>3. Typed'
    BY <1>1, <1>2, <1>4, <2>2 DEF Typed
  <2>4. OnlyOne(w)
    BY <1>1, <1>4, FollowUpConstants DEF Typed, OnlyOne
  <2>5. InPlace(w)'
    BY <1>1, <1>2, <2>1, <2>2 DEF InPlace, HasTarget, HoldsRow
  <2> QED
    BY <1>1, <1>2, <2>2, <2>3, <2>4, <2>5, NothingWritten
<1> QED
  BY <1>1, <1>3, <1>4

LEMMA LockRowKeeps ==
    ASSUME Typed, FollowUpInvariant, NEW w \in Workers, LockRow(w)
    PROVE  Typed' /\ FollowUpInvariant'
<1> DEFINE t == req[w].target
<1>1. /\ HasTarget(w) /\ ~HoldsRow(w) /\ pc[w] \in {"locating", "received"}
      /\ pc[w] = "received" => req[w].op # "create"
      /\ rowLock[t] = NoWorker /\ rowLock' = [rowLock EXCEPT ![t] = w]
      /\ pc' = [pc EXCEPT ![w] = IF LocksOnlyRow(w) THEN "locked" ELSE "joining"]
      /\ UNCHANGED <<followUps, archived, nextId, today, custLock, req, wrote>>
  BY DEF LockRow, HasTarget, HoldsRow, Goto, tables
<1>2. InPlace(w) /\ t \in Id /\ DOMAIN wrote[w] = {} /\ req[w].op \in AllOps
  BY <1>1 DEF FollowUpInvariant, Fits, InPlace, Typed, Request
<1>3. Typed'
  BY <1>1, <1>2 DEF Typed
<1>4. OnlyOne(w)
  BY <1>1, <1>2, FollowUpConstants DEF Typed, OnlyOne
<1>5. rowLock'[t] = w /\ pc'[w] = IF LocksOnlyRow(w) THEN "locked" ELSE "joining"
  BY <1>1, <1>2 DEF Typed
<1>6. ~LocksOnlyRow(w) => req[w].op \in {"create", "update"}
  BY <1>1, <1>2 DEF LocksOnlyRow, InPlace, HasTarget
<1>7. InPlace(w)'
  BY <1>1, <1>2, <1>5, <1>6 DEF InPlace, HasTarget, HoldsRow, LocksOnlyRow
<1> QED
  BY <1>1, <1>2, <1>3, <1>4, <1>5, <1>7, NothingWritten

LEMMA LockCustomerKeeps ==
    ASSUME Typed, FollowUpInvariant, NEW w \in Workers, LockCustomer(w)
    PROVE  Typed' /\ FollowUpInvariant'
<1> DEFINE c == req[w].customer
<1>1. /\ \/ pc[w] = "joining"
         \/ pc[w] = "received" /\ req[w].op = "archive"
      /\ custLock[c] = NoWorker /\ custLock' = [custLock EXCEPT ![c] = w]
      /\ pc' = [pc EXCEPT ![w] = "locked"]
      /\ UNCHANGED <<followUps, archived, nextId, today, rowLock, req, wrote>>
  BY DEF LockCustomer, Goto, tables
<1>2. InPlace(w) /\ c \in Customers /\ DOMAIN wrote[w] = {}
  BY <1>1 DEF FollowUpInvariant, Fits, InPlace, Typed, Request
<1>3. Typed'
  BY <1>1, <1>2 DEF Typed
<1>4. OnlyOne(w)
  BY <1>1, <1>2, FollowUpConstants DEF Typed, OnlyOne
<1>5. custLock'[c] = w /\ pc'[w] = "locked"
  BY <1>1, <1>2 DEF Typed
<1>6. InPlace(w)'
  BY <1>1, <1>2, <1>5 DEF InPlace, HasTarget, HoldsRow
<1> QED
  BY <1>1, <1>2, <1>3, <1>4, <1>5, <1>6, NothingWritten

-----------------------------------------------------------------------------
(* The steps that write.                                                   *)

\* Whoever holds the customer's pending follow-up is the only one to write for it.
LEMMA Alone ==
    ASSUME Typed, FollowUpInvariant, NEW w \in Workers, NEW v \in Workers \ {w},
           NEW t \in Id, Pending(followUps[t]), rowLock[t] = w,
           DOMAIN wrote[v] # {}
    PROVE  req[v].customer # followUps[t].customer /\ t \notin DOMAIN wrote[v]
<1> DEFINE s == req[v].target
           c == followUps[t].customer
<1>1. /\ Rewritten(v) /\ NewlyWritten(v) /\ c \in Customers /\ t \in PendingOf(c)
      /\ DOMAIN wrote[v] \subseteq Id
  BY WritesTyped DEF FollowUpInvariant, Fits, Typed, Row, PendingOf
<1>2. t \notin DOMAIN wrote[v]
  <2>1. CASE t = s
    BY <1>1, <2>1 DEF Rewritten
  <2>2. CASE t # s
    BY <1>1, <2>2 DEF NewlyWritten, Exists, Pending
  <2> QED
    BY <2>1, <2>2
<1>3. ASSUME req[v].customer = c
      PROVE  FALSE
  <2>1. CASE s \in DOMAIN wrote[v]
    <3>1. s \in PendingOf(c) /\ rowLock[s] = v
      BY <1>1, <1>3, <2>1 DEF Rewritten, PendingOf
    <3> QED
      BY <1>1, <3>1 DEF FollowUpInvariant, OnePending
  <2>2. CASE s \notin DOMAIN wrote[v]
    <3>1. PICK i \in DOMAIN wrote[v] : i # s
      BY <2>2
    <3>2. PendingOf(c) \subseteq DOMAIN wrote[v]
      BY <1>1, <1>3, <3>1 DEF NewlyWritten
    <3> QED
      BY <1>1, <1>2, <3>2
  <2> QED
    BY <2>1, <2>2
<1> QED
  BY <1>2, <1>3

Movable(w) ==
    /\ req[w].op \in {"create", "update"}
    /\ ~archived[req[w].customer]
    /\ req[w].date \in Day /\ DateFits(w)

\* Rewriting the follow-up under the lock: closed, moved or with another note.
LEMMA RewriteKeeps ==
    ASSUME Typed, FollowUpInvariant, NEW w \in Workers,
           pc[w] = "locked", req[w].op # "archive", Actionable(w),
           NEW s \in Statuses \ {"ABSENT"}, NEW n \in Notes, NEW p \in {"inserting", "written"},
           wrote' = [wrote EXCEPT ![w] =
               [i \in {req[w].target} |-> [Source(w) EXCEPT !.status = s, !.note = n]]],
           pc' = [pc EXCEPT ![w] = p],
           UNCHANGED <<followUps, archived, nextId, today, rowLock, custLock, req>>,
           p = "inserting" <=> s = "RESCHEDULED",
           s = "RESCHEDULED" => Movable(w)
    PROVE  Typed' /\ FollowUpInvariant'
<1> DEFINE t == req[w].target
           r == [Source(w) EXCEPT !.status = s, !.note = n]
<1>1. InPlace(w) /\ HasTarget(w) /\ HoldsRow(w)
  BY DEF FollowUpInvariant, Fits, HasTarget, HoldsRow
<1>2. /\ t \in Id /\ Pending(followUps[t]) /\ followUps[t].customer = req[w].customer
      /\ rowLock[t] = w /\ followUps[t] \in Row
      /\ s = "RESCHEDULED" => custLock[req[w].customer] = w
  BY <1>1 DEF InPlace, Actionable, Source, Typed, Movable
<1>3. r \in Row /\ r.status = s /\ r.note = n
      /\ r = [followUps[t] EXCEPT !.status = s, !.note = n]
  BY <1>2 DEF Row, Source
<1>4. [i \in {t} |-> r] \in Writes
  BY <1>2, <1>3 DEF Writes
<1>5. Typed'
  BY <1>4 DEF Typed
<1>6. OnlyOne(w)
  BY FollowUpConstants DEF Typed, OnlyOne
<1>7. pc'[w] = p /\ DOMAIN wrote'[w] = {t} /\ wrote'[w][t] = r
  BY DEF Typed
<1> HIDE DEF r
<1>8. InPlace(w)'
  BY <1>1, <1>7 DEF InPlace, HasTarget, HoldsRow, Movable
<1>9. Rewritten(w)'
  <2>1. Exists(wrote'[w][t])
    BY <1>3, <1>7 DEF Exists
  <2> QED
    BY ZenonT(60), <1>2, <1>3, <1>7, <2>1 DEF Rewritten, Movable
<1>10. NewlyWritten(w)' /\ Whole(w)'
  BY <1>3, <1>7 DEF NewlyWritten, Whole, DateFits, Movable
<1>11. ASSUME NEW v \in Workers \ {w}, DOMAIN wrote[v] # {}
       PROVE  req[v].customer # req'[w].customer /\ DOMAIN wrote[v] \cap DOMAIN wrote'[w] = {}
  BY <1>2, <1>7, <1>11, Alone
<1> QED
  BY <1>5, <1>6, <1>8, <1>9, <1>10, <1>11, OthersKept DEF Fits

LEMMA RescheduleKeeps ==
    ASSUME Typed, FollowUpInvariant, NEW w \in Workers, Reschedule(w)
    PROVE  Typed' /\ FollowUpInvariant'
<1> DEFINE t == req[w].target
<1>1. /\ pc[w] = "locked" /\ req[w].op \in {"create", "update"}
      /\ ~archived[req[w].customer] /\ Actionable(w) /\ MovesDate(w) /\ DateAllowed(w)
      /\ wrote' = [wrote EXCEPT ![w] = [i \in {t} |-> [Source(w) EXCEPT !.status = "RESCHEDULED"]]]
      /\ pc' = [pc EXCEPT ![w] = "inserting"]
      /\ UNCHANGED <<followUps, archived, nextId, today, rowLock, custLock, req>>
  BY DEF Reschedule, Replaceable, Goto, tables, locks
<1>2. InPlace(w) /\ HasTarget(w) /\ req[w] \in Request /\ today \in Int
  BY <1>1, FollowUpConstants DEF FollowUpInvariant, Fits, HasTarget, Typed, Day
<1>3. Source(w) \in Row /\ Source(w).note \in Notes
  BY <1>1, <1>2 DEF InPlace, Source, Typed, Row
<1>4. [Source(w) EXCEPT !.status = "RESCHEDULED"]
        = [Source(w) EXCEPT !.status = "RESCHEDULED", !.note = Source(w).note]
  BY <1>3 DEF Row
<1>5. req[w].date \in Day
  BY <1>1, <1>2 DEF MovesDate, InPlace, Request
<1>6. DateFits(w)
  <2>1. req[w].date \in Int /\ req[w].day \in Int /\ req[w].day <= today
    BY <1>1, <1>2, <1>5, FollowUpConstants DEF InPlace, Request, Day
  <2> QED
    BY <1>1, <1>2, <2>1 DEF DateAllowed, DateFits
<1>9. Movable(w) /\ req[w].op # "archive"
  BY <1>1, <1>5, <1>6 DEF Movable
<1> DEFINE s == "RESCHEDULED"
           n == Source(w).note
           p == "inserting"
<1>7. wrote' = [wrote EXCEPT ![w] = [i \in {t} |-> [Source(w) EXCEPT !.status = s, !.note = n]]]
  BY <1>1, <1>4
<1>8. s \in Statuses \ {"ABSENT"} /\ n \in Notes /\ p \in {"inserting", "written"}
      /\ (p = "inserting" <=> s = "RESCHEDULED") /\ pc' = [pc EXCEPT ![w] = p]
  BY <1>1, <1>3 DEF Statuses
<1> HIDE DEF s, n, p
<1>10. /\ pc[w] = "locked" /\ Actionable(w)
       /\ UNCHANGED <<followUps, archived, nextId, today, rowLock, custLock, req>>
  BY <1>1
<1> QED
  BY <1>7, <1>8, <1>9, <1>10, RewriteKeeps

LEMMA EditKeeps ==
    ASSUME Typed, FollowUpInvariant, NEW w \in Workers, EditInPlace(w)
    PROVE  Typed' /\ FollowUpInvariant'
<1> DEFINE t == req[w].target
<1>1. /\ pc[w] = "locked" /\ req[w].op = "update" /\ Actionable(w)
      /\ wrote' = [wrote EXCEPT ![w] =
            [i \in {j \in {t} : req[w].note # NoNote} |->
                [Source(w) EXCEPT !.note = req[w].note]]]
      /\ pc' = [pc EXCEPT ![w] = "written"]
      /\ UNCHANGED <<followUps, archived, nextId, today, rowLock, custLock, req>>
  BY DEF EditInPlace, Replaceable, Goto, tables, locks
<1>2. InPlace(w) /\ HasTarget(w) /\ req[w] \in Request
  BY <1>1 DEF FollowUpInvariant, Fits, HasTarget, Typed
<1>3. CASE req[w].note # NoNote
  <2>1. Source(w) \in Row /\ Source(w).status = "PENDING" /\ req[w].note \in Notes
    BY <1>1, <1>2, <1>3 DEF InPlace, Source, Actionable, Pending, Typed, Request
  <2>2. [Source(w) EXCEPT !.note = req[w].note]
          = [Source(w) EXCEPT !.status = "PENDING", !.note = req[w].note]
    BY <2>1 DEF Row
  <2>3. {j \in {t} : req[w].note # NoNote} = {t}
    BY <1>3
  <2> DEFINE s == "PENDING"
             n == req[w].note
             p == "written"
  <2>4. wrote' = [wrote EXCEPT ![w] =
            [i \in {t} |-> [Source(w) EXCEPT !.status = s, !.note = n]]]
    BY <1>1, <2>2, <2>3
  <2>5. /\ s \in Statuses \ {"ABSENT"} /\ n \in Notes /\ p \in {"inserting", "written"}
        /\ s # "RESCHEDULED" /\ p # "inserting" /\ pc' = [pc EXCEPT ![w] = p]
    BY <1>1, <2>1 DEF Statuses
  <2> HIDE DEF s, n, p
  <2> QED
    BY <1>1, <2>4, <2>5, RewriteKeeps
<1>4. CASE req[w].note = NoNote
  <2>0. {j \in {t} : req[w].note # NoNote} = {}
    BY <1>4
  <2> DEFINE nothing == [i \in {} |-> [Source(w) EXCEPT !.note = req[w].note]]
  <2>1. wrote' = [wrote EXCEPT ![w] = nothing]
    BY <1>1, <2>0
  <2>2. nothing \in Writes /\ DOMAIN nothing = {}
    BY DEF Writes
  <2> HIDE DEF nothing
  <2>3. Typed' /\ OnlyOne(w)
    <3>1. Typed'
      BY <1>1, <2>1, <2>2 DEF Typed
    <3>2. OnlyOne(w)
      BY <1>1, <2>1, FollowUpConstants DEF Typed, OnlyOne
    <3> QED
      BY <3>1, <3>2
  <2>5. pc'[w] = "written" /\ DOMAIN wrote'[w] = {}
    BY <1>1, <2>1, <2>2 DEF Typed
  <2>4. InPlace(w)'
    BY <1>1, <1>2, <2>5 DEF InPlace, HasTarget, HoldsRow
  <2> QED
    BY <2>3, <2>4, <2>5, NothingWritten
<1> QED
  BY <1>3, <1>4

LEMMA CloseKeeps ==
    ASSUME Typed, FollowUpInvariant, NEW w \in Workers, Close(w)
    PROVE  Typed' /\ FollowUpInvariant'
<1> DEFINE t == req[w].target
           s == Closed(req[w].op)
<1>1. /\ pc[w] = "locked" /\ req[w].op \in {"complete", "cancel"} /\ Actionable(w)
      /\ wrote' = [wrote EXCEPT ![w] = [i \in {t} |-> [Source(w) EXCEPT !.status = s]]]
      /\ pc' = [pc EXCEPT ![w] = "written"]
      /\ UNCHANGED <<followUps, archived, nextId, today, rowLock, custLock, req>>
  BY DEF Close, Goto, tables, locks
<1>2. InPlace(w) /\ HasTarget(w)
  BY <1>1 DEF FollowUpInvariant, Fits, HasTarget
<1>3. Source(w) \in Row /\ Source(w).note \in Notes /\ s \in {"COMPLETED", "CANCELLED"}
  BY <1>1, <1>2 DEF InPlace, Source, Typed, Row, Closed
<1> HIDE DEF s
<1>4. [Source(w) EXCEPT !.status = s]
        = [Source(w) EXCEPT !.status = s, !.note = Source(w).note]
  BY <1>3 DEF Row
<1>5. wrote' = [wrote EXCEPT ![w] =
          [i \in {t} |-> [Source(w) EXCEPT !.status = s, !.note = Source(w).note]]]
  BY <1>1, <1>4
<1>6. s \in Statuses \ {"ABSENT"} /\ s # "RESCHEDULED"
  BY <1>3 DEF Statuses
<1> QED
  BY <1>1, <1>3, <1>5, <1>6, RewriteKeeps

\* The new follow-up is of the right type and has everything that is promised of it.
LEMMA NewRowFits ==
    ASSUME Typed, FollowUpInvariant, NEW w \in Workers, pc[w] = "inserting"
    PROVE  LET t == req[w].target
               r == NewRow(w)
           IN  /\ r \in Row /\ Pending(r) /\ r.customer = req[w].customer
               /\ r.date = req[w].date
               /\ r.rescheduledFrom = IF DOMAIN wrote[w] = {} THEN 0 ELSE t
               /\ DOMAIN wrote[w] # {} => DOMAIN wrote[w] = {t} /\ t \in Id /\ Exists(followUps[t])
<1> DEFINE t == req[w].target
<1>1. InPlace(w) /\ Rewritten(w) /\ Whole(w) /\ req[w] \in Request
  BY DEF FollowUpInvariant, Fits, Typed
<1>2. req[w].date \in Day /\ req[w].customer \in Customers /\ req[w].note \in Notes \cup {NoNote}
  BY <1>1 DEF Whole, Request
<1>3. CASE DOMAIN wrote[w] = {}
  <2>1. req[w].note \in Notes /\ req[w].note # NoNote /\ 0 \in 0..MaxId
    BY <1>1, <1>3, FollowUpConstants DEF Whole, InPlace
  <2>2. NewRow(w) = [customer |-> req[w].customer, date |-> req[w].date, status |-> "PENDING",
                     note |-> req[w].note, rescheduledFrom |-> 0]
    BY <1>3, <2>1 DEF NewRow
  <2> QED
    BY <1>2, <1>3, <2>1, <2>2 DEF Row, Statuses, Pending
<1>4. CASE DOMAIN wrote[w] # {}
  <2>1. DOMAIN wrote[w] = {t} /\ t \in Id /\ t \in 0..MaxId /\ Exists(followUps[t])
    BY <1>1, <1>4, FollowUpConstants DEF Whole, Rewritten, Id, Exists, Pending
  <2> DEFINE note == IF req[w].note = NoNote THEN followUps[t].note ELSE req[w].note
  <2>2. note \in Notes
    BY <1>2, <2>1 DEF Typed, Row
  <2>3. NewRow(w) = [customer |-> req[w].customer, date |-> req[w].date, status |-> "PENDING",
                     note |-> note, rescheduledFrom |-> t]
    BY <1>4 DEF NewRow
  <2> HIDE DEF note
  <2> QED
    BY <1>2, <1>4, <2>1, <2>2, <2>3 DEF Row, Statuses, Pending
<1> QED
  BY <1>3, <1>4

\* Only keys that were handed out are in use.
LEMMA NextIdIsNew ==
    ASSUME Typed, FollowUpInvariant, nextId <= MaxId
    PROVE  /\ nextId \in Id /\ ~Exists(followUps[nextId])
           /\ \A v \in Workers : nextId \notin DOMAIN wrote[v]
<1>1. nextId \in Id /\ nextId \in Nat
  BY FollowUpConstants DEF Typed, Id
<1>2. ~Exists(followUps[nextId])
  BY <1>1 DEF FollowUpInvariant, KeysUsed
<1>3. ASSUME NEW v \in Workers, nextId \in DOMAIN wrote[v]
      PROVE  FALSE
  <2>1. Rewritten(v) /\ NewlyWritten(v)
    BY DEF FollowUpInvariant, Fits
  <2>2. CASE nextId = req[v].target
    BY <1>2, <1>3, <2>1, <2>2 DEF Rewritten, Exists, Pending
  <2>3. CASE nextId # req[v].target
    BY <1>1, <1>3, <2>1, <2>3 DEF NewlyWritten
  <2> QED
    BY <2>2, <2>3
<1> QED
  BY <1>1, <1>2, <1>3

LEMMA InsertKeeps ==
    ASSUME Typed, FollowUpInvariant, NEW w \in Workers, Insert(w)
    PROVE  Typed' /\ FollowUpInvariant'
<1> DEFINE t == req[w].target
           c == req[w].customer
           old == wrote[w]
           new == WithNewRow(w)
           r == NewRow(w)
<1>1. /\ pc[w] = "inserting" /\ nextId <= MaxId /\ ~UniqueUndecided(w) /\ ~Duplicate(w)
      /\ wrote' = [wrote EXCEPT ![w] = new]
      /\ nextId' = nextId + 1
      /\ pc' = [pc EXCEPT ![w] = "written"]
      /\ UNCHANGED <<followUps, archived, today, rowLock, custLock, req>>
  BY DEF Insert, Goto, tables, locks
<1>2. /\ nextId \in Id /\ nextId \in Nat /\ ~Exists(followUps[nextId])
      /\ \A v \in Workers : nextId \notin DOMAIN wrote[v]
  BY <1>1, NextIdIsNew, FollowUpConstants DEF Typed
<1>3. InPlace(w) /\ Rewritten(w) /\ Whole(w) /\ old \in Writes
  BY DEF FollowUpInvariant, Fits, Typed
<1>4. /\ r \in Row /\ Pending(r) /\ r.customer = c /\ r.date = req[w].date
      /\ r.rescheduledFrom = IF DOMAIN old = {} THEN 0 ELSE t
      /\ DOMAIN old # {} => DOMAIN old = {t} /\ t \in Id /\ Exists(followUps[t])
  BY <1>1, NewRowFits
<1>5. /\ DOMAIN new = DOMAIN old \cup {nextId} /\ new[nextId] = r
      /\ \A i \in DOMAIN old : new[i] = old[i]
  BY <1>2 DEF WithNewRow
<1>6. new \in Writes
  <2>1. DOMAIN old \subseteq Id /\ \A i \in DOMAIN old : old[i] \in Row
    BY <1>3, WritesTyped
  <2>2. DOMAIN old \cup {nextId} \in SUBSET Id
    BY <1>2, <2>1
  <2>3. new \in [DOMAIN old \cup {nextId} -> Row]
    BY <1>4, <2>1 DEF WithNewRow
  <2> QED
    BY <2>2, <2>3 DEF Writes
<1>7. Typed'
  BY <1>1, <1>2, <1>6, FollowUpConstants DEF Typed
<1>8. OnlyOne(w)
  BY <1>1, <1>2 DEF Typed, OnlyOne
<1>9. pc'[w] = "written" /\ wrote'[w] = new
  BY <1>1 DEF Typed
<1>10. t # nextId
  <2>1. DOMAIN old = {} => t = 0
    BY <1>1, <1>3 DEF Whole
  <2> QED
    BY <1>2, <1>4, <2>1 DEF Id
<1> HIDE DEF new, r
<1>11. InPlace(w)'
  BY <1>1, <1>3, <1>9 DEF InPlace, HasTarget, HoldsRow
<1>12. Rewritten(w)'
  <2>1. t \in DOMAIN wrote'[w] => t \in DOMAIN old /\ wrote'[w][t] = old[t]
    BY <1>5, <1>9, <1>10
  <2> QED
    BY <1>1, <1>3, <2>1 DEF Rewritten
<1>13. NewlyWritten(w)'
  <2>1. PendingOf(c) \subseteq DOMAIN old
    BY <1>1 DEF Duplicate
  <2>2. DateFits(w) /\ (t \in DOMAIN old => old[t].status = "RESCHEDULED")
    BY <1>1, <1>3 DEF Whole
  <2>3. t \in DOMAIN old => t < nextId
    BY <1>4 DEF FollowUpInvariant, KeysUsed
  <2>4. DOMAIN new \subseteq {t, nextId} /\ DOMAIN new \ {t} = {nextId}
    BY <1>4, <1>5, <1>10
  <2>5. t \in DOMAIN old <=> DOMAIN old # {}
    BY <1>4
  <2> QED
    BY <1>1, <1>2, <1>4, <1>5, <1>9, <1>10, <2>1, <2>2, <2>3, <2>4, <2>5
       DEF NewlyWritten, DateFits, PendingOf
<1>14. Whole(w)'
  BY <1>1, <1>5, <1>9, <1>10 DEF Whole
<1>15. ASSUME NEW v \in Workers \ {w}, DOMAIN wrote[v] # {}
       PROVE  req[v].customer # c /\ DOMAIN wrote[v] \cap DOMAIN new = {}
  <2>1. req[v].customer # c
    <3>1. PICK i \in DOMAIN wrote[v] : TRUE
      BY <1>15
    <3>2. Rewritten(v) /\ NewlyWritten(v) /\ wrote[v] \in Writes /\ v \in Workers \ {w}
      BY DEF FollowUpInvariant, Fits, Typed
    <3>3. wrote[v][i].customer = req[v].customer /\ (Pending(wrote[v][i]) \/ Pending(followUps[i]))
      <4>1. CASE i = req[v].target
        <5>1. followUps[i] \in Row
          BY <3>1, <3>2, WritesTyped DEF Typed
        <5> QED
          BY <3>1, <3>2, <4>1, <5>1 DEF Rewritten, Row
      <4>2. CASE i # req[v].target
        BY <3>1, <3>2, <4>2 DEF NewlyWritten
      <4> QED
        BY <4>1, <4>2
    <3> QED
      BY <1>1, <3>1, <3>2, <3>3 DEF UniqueUndecided
  <2>2. DOMAIN old # {} => DOMAIN wrote[v] \cap DOMAIN old = {}
    BY <1>15 DEF FollowUpInvariant, Apart
  <2> QED
    BY <1>2, <1>5, <2>1, <2>2
<1> QED
  BY <1>1, <1>7, <1>8, <1>9, <1>11, <1>12, <1>13, <1>14, <1>15, OthersKept DEF Fits

-----------------------------------------------------------------------------
(* The commits, and midnight.                                              *)

LEMMA CommitArchiveKeeps ==
    ASSUME Typed, FollowUpInvariant, NEW w \in Workers, CommitArchive(w)
    PROVE  Typed' /\ FollowUpInvariant'
<1> DEFINE c == req[w].customer
<1>1. /\ pc[w] = "locked" /\ req[w].op = "archive" /\ Finish(w)
      /\ archived' = [archived EXCEPT ![c] = TRUE]
      /\ UNCHANGED <<followUps, nextId, today>>
  BY DEF CommitArchive
<1>2. c \in Customers /\ custLock[c] = w
  BY <1>1 DEF FollowUpInvariant, Fits, InPlace, Typed, Request
<1>3. Typed'
  BY <1>1, <1>2, FinishTyped DEF Typed
<1>4. /\ pc'[w] = "idle" /\ DOMAIN wrote'[w] = {}
      /\ \A v \in Workers \ {w} :
            /\ pc'[v] = pc[v] /\ req'[v] = req[v] /\ wrote'[v] = wrote[v]
            /\ \A i \in Id : rowLock[i] = v => rowLock'[i] = v
            /\ \A d \in Customers : custLock[d] = v => custLock'[d] = v
  BY <1>1, DefaultsTyped DEF Finish, Goto, Typed
<1>5. RescheduleTrail' /\ OnePending' /\ KeysUsed'
  BY <1>1 DEF FollowUpInvariant, RescheduleTrail, Replacements, OnePending, PendingOf, KeysUsed
<1>6. Fits(w)'
  BY <1>4 DEF Fits, InPlace, Rewritten, NewlyWritten, Whole, HasTarget, HoldsRow
<1>7. ASSUME NEW v \in Workers \ {w}
      PROVE  Fits(v)'
  <2> DEFINE t == req[v].target
  <2>1. /\ InPlace(v) /\ Rewritten(v) /\ NewlyWritten(v) /\ Whole(v) /\ req[v] \in Request
        /\ req[v].customer \in Customers
    BY DEF FollowUpInvariant, Fits, Typed, Request
  <2>2. InPlace(v)'
    <3>1. HoldsRow(v) => HasTarget(v) /\ t \in Id
      BY <2>1 DEF InPlace, HoldsRow, HasTarget
    <3> QED
      BY <1>1, <1>4, <2>1, <3>1 DEF InPlace, HasTarget, HoldsRow
  <2>3. Rewritten(v)'
    <3>1. custLock[req[v].customer] = v /\ ~archived[req[v].customer]
             => custLock'[req[v].customer] = v /\ ~archived'[req[v].customer]
      BY <1>1, <1>2, <1>4, <2>1 DEF Typed
    <3>2. \A i \in Id : rowLock[i] = v => rowLock'[i] = v
      BY <1>4
    <3> QED
      BY ZenonT(60), <1>1, <1>4, <2>1, <3>1, <3>2 DEF Rewritten
  <2>4. NewlyWritten(v)' /\ Whole(v)'
    BY <1>1, <1>4, <2>1 DEF NewlyWritten, Whole, DateFits, PendingOf
  <2> QED
    BY <2>2, <2>3, <2>4 DEF Fits
<1>8. ASSUME NEW u \in Workers, NEW v \in Workers, u # v
      PROVE  Apart(u, v)'
  BY <1>4, <1>8 DEF FollowUpInvariant, Apart
<1> QED
  BY <1>3, <1>5, <1>6, <1>7, <1>8 DEF FollowUpInvariant

LEMMA MidnightKeeps ==
    ASSUME Typed, FollowUpInvariant, Midnight
    PROVE  Typed' /\ FollowUpInvariant'
<1>1. /\ today' = today + 1 /\ today < MaxDay
      /\ UNCHANGED <<followUps, archived, nextId, rowLock, custLock, pc, req, wrote>>
  BY DEF Midnight, tables, locks
<1>2. Typed'
  BY <1>1, FollowUpConstants DEF Typed, Day
<1>3. RescheduleTrail' /\ OnePending' /\ KeysUsed'
  BY <1>1 DEF FollowUpInvariant, RescheduleTrail, Replacements, OnePending, PendingOf, KeysUsed
<1>4. ASSUME NEW v \in Workers
      PROVE  Fits(v)'
  <2>1. InPlace(v) /\ Rewritten(v) /\ NewlyWritten(v) /\ Whole(v)
    BY DEF FollowUpInvariant, Fits
  <2>2. req[v].day \in Int /\ today \in Int
    BY FollowUpConstants DEF Typed, Request, Day
  <2>3. InPlace(v)'
    BY <1>1, <2>1, <2>2 DEF InPlace, HasTarget, HoldsRow
  <2>4. Rewritten(v)' /\ NewlyWritten(v)' /\ Whole(v)'
    BY <1>1, <2>1 DEF Rewritten, NewlyWritten, Whole, DateFits, PendingOf
  <2> QED
    BY <2>3, <2>4 DEF Fits
<1>5. \A u, v \in Workers : u # v => Apart(u, v)'
  BY <1>1 DEF FollowUpInvariant, Apart
<1> QED
  BY <1>2, <1>3, <1>4, <1>5 DEF FollowUpInvariant

\* What a commit can do to the follow-ups of its customer.
Revises(c) ==
    \E i \in PendingOf(c), s \in {"PENDING", "COMPLETED", "CANCELLED"}, n \in Notes :
        followUps' = [followUps EXCEPT ![i].status = s, ![i].note = n]

Fresh(k) == k \in Id /\ k < nextId /\ ~Exists(followUps[k])
Reminds(r, c, from) ==
    r \in Row /\ Pending(r) /\ r.customer = c /\ r.rescheduledFrom = from

Opens(c) ==
    /\ PendingOf(c) = {}
    /\ \E k, r : Fresh(k) /\ Reminds(r, c, 0) /\ followUps' = [followUps EXCEPT ![k] = r]

Moves(c) ==
    \E i \in PendingOf(c), n \in Notes : \E k, r :
        /\ Fresh(k) /\ i < k /\ Reminds(r, c, i)
        /\ followUps' = [followUps EXCEPT ![i].status = "RESCHEDULED", ![i].note = n, ![k] = r]

LEMMA CommitCases ==
    ASSUME Typed, FollowUpInvariant, NEW w \in Workers, Commit(w)
    PROVE  LET c == req[w].customer IN
           UNCHANGED followUps \/ Revises(c) \/ Opens(c) \/ Moves(c)
<1> DEFINE t == req[w].target
           c == req[w].customer
           W == wrote[w]
           D == DOMAIN W
<1>1. /\ pc[w] = "written"
      /\ followUps' = [i \in Id |-> IF i \in D THEN W[i] ELSE followUps[i]]
  BY DEF Commit
<1>2. /\ Rewritten(w) /\ NewlyWritten(w) /\ Whole(w) /\ D \subseteq Id
      /\ \A i \in D : W[i] \in Row
      /\ followUps \in [Id -> Row] /\ nextId \in Nat
  BY WritesTyped, FollowUpConstants DEF FollowUpInvariant, Fits, Typed
<1>3. ASSUME t \in D
      PROVE  /\ t \in PendingOf(c) /\ W[t].note \in Notes
             /\ W[t].status \in {"PENDING", "COMPLETED", "CANCELLED", "RESCHEDULED"}
             /\ W[t] = [followUps[t] EXCEPT !.status = W[t].status, !.note = W[t].note]
  BY <1>2, <1>3 DEF Rewritten, PendingOf, Row, Statuses, Exists
<1>4. ASSUME NEW i \in D \ {t}
      PROVE  /\ Fresh(i) /\ Reminds(W[i], c, IF t \in D THEN t ELSE 0)
             /\ D \subseteq {t, i} /\ PendingOf(c) \subseteq D
             /\ t \in D => t < i /\ W[t].status = "RESCHEDULED"
  BY <1>2, <1>4 DEF NewlyWritten, Fresh, Reminds
<1>5. CASE D = {}
  BY <1>1, <1>2, <1>5
<1>6. CASE D = {t}
  <2>1. W[t].status # "RESCHEDULED"
    BY <1>1, <1>2, <1>6 DEF Whole
  <2>2. followUps' = [followUps EXCEPT ![t] = W[t]]
    BY <1>1, <1>2, <1>6
  <2> DEFINE s == W[t].status
             n == W[t].note
  <2>3. followUps' = [followUps EXCEPT ![t].status = s, ![t].note = n]
    BY <1>2, <1>3, <1>6, <2>2
  <2>4. s \in {"PENDING", "COMPLETED", "CANCELLED"} /\ n \in Notes /\ t \in PendingOf(c)
    BY <1>3, <1>6, <2>1
  <2> HIDE DEF s, n
  <2> QED
    BY <2>3, <2>4 DEF Revises
<1>7. CASE t \notin D /\ D # {}
  <2>1. PICK i \in D : i # t
    BY <1>7
  <2>2. /\ Fresh(i) /\ Reminds(W[i], c, 0) /\ D \subseteq {t, i} /\ PendingOf(c) \subseteq D
    BY <1>4, <1>7, <2>1
  <2>3. D = {i} /\ PendingOf(c) = {}
    BY <1>7, <2>1, <2>2 DEF PendingOf, Fresh, Exists, Pending
  <2>4. followUps' = [followUps EXCEPT ![i] = W[i]]
    BY <1>1, <1>2, <2>3
  <2> QED
    BY <2>2, <2>3, <2>4 DEF Opens
<1>8. CASE t \in D /\ D # {t}
  <2>1. PICK i \in D : i # t
    BY <1>8
  <2>2. /\ Fresh(i) /\ Reminds(W[i], c, t) /\ D \subseteq {t, i} /\ t < i
        /\ W[t].status = "RESCHEDULED"
    BY <1>4, <1>8, <2>1
  <2>3. D = {t, i}
    BY <1>8, <2>1, <2>2
  <2>4. W[t] = [followUps[t] EXCEPT !.status = "RESCHEDULED", !.note = W[t].note]
        /\ W[t].note \in Notes /\ t \in PendingOf(c)
    BY <1>3, <1>8, <2>2
  <2> DEFINE n == W[t].note
             r == W[i]
  <2>5. followUps' = [followUps EXCEPT ![t].status = "RESCHEDULED", ![t].note = n, ![i] = r]
    BY <1>1, <1>2, <2>1, <2>3, <2>4
  <2> HIDE DEF n, r
  <2>6. n \in Notes /\ Reminds(r, c, t)
    BY <2>2, <2>4 DEF n, r
  <2> QED
    BY <2>2, <2>4, <2>5, <2>6 DEF Moves
<1> QED
  BY <1>5, <1>6, <1>7, <1>8

\* What the history and the other requests rely on after a commit.
TablesKept(c) ==
    /\ followUps' \in [Id -> Row]
    /\ RescheduleTrail' /\ OnePending' /\ KeysUsed'
    /\ \A i \in Id : Exists(followUps[i]) =>
          Exists(followUps'[i]) /\ followUps'[i].customer = followUps[i].customer
    /\ \A d \in Customers \ {c} : PendingOf(d)' = PendingOf(d)

LEMMA RevisesKeeps ==
    ASSUME Typed, FollowUpInvariant, nextId' = nextId, NEW c \in Customers, Revises(c)
    PROVE  TablesKept(c)
<1>1. PICK i \in PendingOf(c), s \in {"PENDING", "COMPLETED", "CANCELLED"}, n \in Notes :
          followUps' = [followUps EXCEPT ![i].status = s, ![i].note = n]
  BY DEF Revises
<1>2. /\ followUps \in [Id -> Row] /\ i \in Id /\ Pending(followUps[i]) /\ followUps[i] \in Row
      /\ followUps[i].customer = c
  BY DEF Typed, PendingOf
<1>3. followUps'[i] = [followUps[i] EXCEPT !.status = s, !.note = n]
      /\ \A j \in Id \ {i} : followUps'[j] = followUps[j]
  BY <1>1, <1>2
<1>4. followUps'[i] \in Row /\ followUps'[i].status = s /\ followUps'[i].customer = c
      /\ followUps'[i].rescheduledFrom = followUps[i].rescheduledFrom
  BY <1>2, <1>3 DEF Row, Statuses
<1>5. followUps' \in [Id -> Row]
  BY <1>1, <1>2, <1>4
<1>6. \A j \in Id : /\ Exists(followUps'[j]) <=> Exists(followUps[j])
                    /\ followUps'[j].customer = followUps[j].customer
                    /\ followUps'[j].rescheduledFrom = followUps[j].rescheduledFrom
                    /\ followUps'[j].status = "RESCHEDULED" <=> followUps[j].status = "RESCHEDULED"
                    /\ Pending(followUps'[j]) => Pending(followUps[j])
  BY <1>2, <1>3, <1>4 DEF Exists, Pending
<1>7. \A j \in Id : Replacements(j)' = Replacements(j)
  BY <1>6 DEF Replacements
<1>8. RescheduleTrail'
  <2>1. \A j \in Id : Replacements(j) \subseteq Id
    BY DEF Replacements
  <2> QED
    BY <1>6, <1>7, <2>1 DEF FollowUpInvariant, RescheduleTrail
<1>9. OnePending'
  BY <1>6 DEF FollowUpInvariant, OnePending, PendingOf
<1>10. KeysUsed'
  BY <1>6 DEF FollowUpInvariant, KeysUsed
<1>11. \A d \in Customers \ {c} : PendingOf(d)' = PendingOf(d)
  BY <1>2, <1>3, <1>4 DEF PendingOf
<1> QED
  BY <1>5, <1>6, <1>8, <1>9, <1>10, <1>11 DEF TablesKept

LEMMA OpensKeeps ==
    ASSUME Typed, FollowUpInvariant, nextId' = nextId, NEW c \in Customers, Opens(c)
    PROVE  TablesKept(c)
<1>1. PICK k, r : /\ Fresh(k) /\ Reminds(r, c, 0)
                  /\ followUps' = [followUps EXCEPT ![k] = r]
  BY DEF Opens
<1>2. /\ followUps \in [Id -> Row] /\ k \in Id /\ k < nextId /\ ~Exists(followUps[k])
      /\ r \in Row /\ Pending(r) /\ Exists(r) /\ r.customer = c /\ r.rescheduledFrom = 0
      /\ PendingOf(c) = {}
  BY <1>1 DEF Typed, Fresh, Reminds, Opens, Pending, Exists
<1>3. followUps'[k] = r /\ (\A j \in Id \ {k} : followUps'[j] = followUps[j])
  BY <1>1, <1>2
<1>4. followUps' \in [Id -> Row]
  BY <1>1, <1>2
<1>5. 0 \notin Id
  BY DEF Id
<1>6. \A j \in Id : k \notin Replacements(j)
  BY <1>2 DEF Replacements
<1>7. \A j \in Id : Replacements(j)' = Replacements(j)
  BY <1>2, <1>3, <1>5, <1>6 DEF Replacements
<1>8. Replacements(k) = {}
  BY <1>2 DEF FollowUpInvariant, KeysUsed, Replacements
<1>9. RescheduleTrail'
  <2>1. ASSUME NEW j \in Id, Exists(followUps'[j])
        PROVE  /\ followUps'[j].status = "RESCHEDULED" <=> Replacements(j) # {}
               /\ \A m, n \in Replacements(j) : m = n
               /\ \A m \in Replacements(j) :
                     followUps'[m].customer = followUps'[j].customer /\ m > j
    <3>1. CASE j = k
      BY <1>2, <1>3, <1>8, <3>1 DEF Pending
    <3>2. CASE j # k
      <4>1. followUps'[j] = followUps[j] /\ \A m \in Replacements(j) : followUps'[m] = followUps[m]
        BY <1>3, <1>6, <3>2 DEF Replacements
      <4> QED
        BY <2>1, <4>1 DEF FollowUpInvariant, RescheduleTrail
    <3> QED
      BY <3>1, <3>2
  <2> QED
    BY <1>7, <2>1 DEF RescheduleTrail
<1>10. PendingOf(c)' = {k}
  BY <1>2, <1>3 DEF PendingOf
<1>11. \A d \in Customers \ {c} : PendingOf(d)' = PendingOf(d)
  BY <1>2, <1>3 DEF PendingOf, Pending, Exists
<1>12. OnePending'
  BY <1>10, <1>11 DEF FollowUpInvariant, OnePending
<1>13. KeysUsed'
  BY <1>2, <1>3, <1>5 DEF FollowUpInvariant, KeysUsed
<1>14. \A j \in Id : Exists(followUps[j]) =>
          Exists(followUps'[j]) /\ followUps'[j].customer = followUps[j].customer
  BY <1>2, <1>3
<1> QED
  BY <1>4, <1>9, <1>11, <1>12, <1>13, <1>14 DEF TablesKept

LEMMA MovesKeeps ==
    ASSUME Typed, FollowUpInvariant, nextId' = nextId, NEW c \in Customers, Moves(c)
    PROVE  TablesKept(c)
<1>1. PICK i \in PendingOf(c), n \in Notes, k \in Id, r \in Row :
          /\ Fresh(k) /\ i < k /\ Reminds(r, c, i)
          /\ followUps' = [followUps EXCEPT ![i].status = "RESCHEDULED", ![i].note = n, ![k] = r]
  BY DEF Moves, Fresh, Reminds
<1>2. /\ followUps \in [Id -> Row] /\ k \in Id /\ k < nextId /\ ~Exists(followUps[k])
      /\ r \in Row /\ Pending(r) /\ Exists(r) /\ r.customer = c /\ r.rescheduledFrom = i
      /\ i \in Id /\ i # k /\ k > i
      /\ Pending(followUps[i]) /\ Exists(followUps[i]) /\ followUps[i].customer = c
  BY <1>1 DEF Typed, Fresh, Reminds, PendingOf, Pending, Exists, Id
<1>3. /\ followUps'[k] = r
      /\ followUps'[i] = [followUps[i] EXCEPT !.status = "RESCHEDULED", !.note = n]
      /\ \A j \in Id \ {i, k} : followUps'[j] = followUps[j]
  BY <1>1, <1>2
<1>4. /\ followUps'[i] \in Row /\ followUps'[i].status = "RESCHEDULED"
      /\ followUps'[i].customer = c /\ followUps'[i].rescheduledFrom = followUps[i].rescheduledFrom
      /\ Exists(followUps'[i]) /\ ~Pending(followUps'[i])
  BY <1>2, <1>3 DEF Row, Statuses, Exists, Pending
<1>5. followUps' \in [Id -> Row]
  BY <1>1, <1>2, <1>4
<1>0. \A m \in Id \ {k} : /\ Exists(followUps'[m]) <=> Exists(followUps[m])
                          /\ followUps'[m].rescheduledFrom = followUps[m].rescheduledFrom
                          /\ followUps'[m].customer = followUps[m].customer
  BY <1>2, <1>3, <1>4
<1>6. Replacements(i) = {} /\ Replacements(k) = {} /\ \A j \in Id : k \notin Replacements(j)
  BY <1>2 DEF FollowUpInvariant, RescheduleTrail, KeysUsed, Replacements, Pending
<1>7. ASSUME NEW j \in Id \ {i}
      PROVE  Replacements(j)' = Replacements(j)
  <2>1. k \notin Replacements(j) /\ followUps'[k].rescheduledFrom # j
    BY <1>2, <1>3, <1>6
  <2> QED
    BY <1>0, <2>1 DEF Replacements
<1>8. Replacements(i)' = {k}
  <2>1. \A j \in Id : followUps[j].rescheduledFrom = i => ~Exists(followUps[j])
    BY <1>6 DEF Replacements
  <2> QED
    BY <1>0, <1>2, <1>3, <2>1 DEF Replacements
<1>9. RescheduleTrail'
  <2>1. ASSUME NEW j \in Id, Exists(followUps'[j])
        PROVE  /\ followUps'[j].status = "RESCHEDULED" <=> Replacements(j)' # {}
               /\ \A m, o \in Replacements(j)' : m = o
               /\ \A m \in Replacements(j)' :
                     followUps'[m].customer = followUps'[j].customer /\ m > j
    <3>1. CASE j = i
      BY <1>2, <1>3, <1>4, <1>8, <3>1
    <3>2. CASE j = k
      BY <1>2, <1>3, <1>6, <1>7, <3>2 DEF Pending
    <3>3. CASE j \notin {i, k}
      <4>1. followUps'[j] = followUps[j] /\ Exists(followUps[j]) /\ Replacements(j)' = Replacements(j)
        BY <1>3, <1>7, <2>1, <3>3
      <4>2. \A m \in Replacements(j) : followUps'[m].customer = followUps[m].customer
        BY <1>2, <1>3, <1>4, <1>6 DEF Replacements
      <4> QED
        BY <4>1, <4>2 DEF FollowUpInvariant, RescheduleTrail
    <3> QED
      BY <3>1, <3>2, <3>3
  <2> QED
    BY <2>1 DEF RescheduleTrail
<1>10. PendingOf(c)' = {k}
  <2>1. PendingOf(c) = {i}
    BY <1>1 DEF FollowUpInvariant, OnePending
  <2> QED
    BY <1>2, <1>3, <1>4, <2>1 DEF PendingOf
<1>11. ASSUME NEW d \in Customers \ {c}
       PROVE  PendingOf(d)' = PendingOf(d)
  <2>1. followUps'[k].customer # d /\ followUps'[i].customer # d /\ followUps[i].customer # d
        /\ ~Pending(followUps[k])
    BY <1>2, <1>3, <1>4 DEF Pending, Exists
  <2> QED
    BY <1>3, <2>1 DEF PendingOf
<1>12. OnePending'
  BY <1>10, <1>11 DEF FollowUpInvariant, OnePending
<1>13. KeysUsed'
  <2>1. ASSUME NEW j \in Id, Exists(followUps'[j])
        PROVE  j < nextId /\ (followUps'[j].rescheduledFrom \in Id =>
                                 Exists(followUps'[followUps'[j].rescheduledFrom]))
    <3>1. CASE j = k
      BY <1>2, <1>3, <1>4, <3>1
    <3>2. CASE j # k
      <4>1. followUps'[j].rescheduledFrom = followUps[j].rescheduledFrom /\ Exists(followUps[j])
        BY <1>0, <2>1, <3>2
      <4> DEFINE f == followUps[j].rescheduledFrom
      <4>2. j < nextId /\ (f \in Id => Exists(followUps[f]))
        BY <4>1 DEF FollowUpInvariant, KeysUsed
      <4> QED
        BY <1>0, <1>2, <4>1, <4>2
    <3> QED
      BY <3>1, <3>2
  <2> QED
    BY <2>1 DEF KeysUsed
<1>14. \A j \in Id : Exists(followUps[j]) =>
          Exists(followUps'[j]) /\ followUps'[j].customer = followUps[j].customer
  BY <1>2, <1>3, <1>4
<1> QED
  BY <1>5, <1>9, <1>11, <1>12, <1>13, <1>14 DEF TablesKept

LEMMA CommitPublishes ==
    ASSUME Typed, FollowUpInvariant, NEW w \in Workers, Commit(w)
    PROVE  TablesKept(req[w].customer)
<1> DEFINE c == req[w].customer
<1>1. c \in Customers /\ nextId' = nextId
  BY DEF Typed, Request, Commit
<1>2. CASE UNCHANGED followUps
  <2>1. RescheduleTrail' /\ OnePending' /\ KeysUsed'
    BY <1>1, <1>2 DEF FollowUpInvariant, RescheduleTrail, Replacements, OnePending, PendingOf,
                      KeysUsed
  <2>2. \A d \in Customers : PendingOf(d)' = PendingOf(d)
    BY <1>2 DEF PendingOf
  <2> QED
    BY <1>2, <2>1, <2>2 DEF TablesKept, Typed
<1> QED
  BY <1>1, <1>2, CommitCases, RevisesKeeps, OpensKeeps, MovesKeeps

LEMMA CommitKeeps ==
    ASSUME Typed, FollowUpInvariant, NEW w \in Workers, Commit(w)
    PROVE  Typed' /\ FollowUpInvariant'
<1> DEFINE c == req[w].customer
<1>1. /\ pc[w] = "written" /\ Finish(w) /\ UNCHANGED <<archived, nextId, today>>
      /\ followUps' = [i \in Id |-> IF i \in DOMAIN wrote[w] THEN wrote[w][i] ELSE followUps[i]]
  BY DEF Commit
<1>2. TablesKept(c)
  BY CommitPublishes
<1>3. Typed'
  BY <1>1, <1>2, FinishTyped DEF Typed, TablesKept
<1>4. /\ pc'[w] = "idle" /\ DOMAIN wrote'[w] = {}
      /\ \A v \in Workers \ {w} :
            /\ pc'[v] = pc[v] /\ req'[v] = req[v] /\ wrote'[v] = wrote[v]
            /\ \A i \in Id : rowLock[i] = v => rowLock'[i] = v
            /\ \A d \in Customers : custLock[d] = v => custLock'[d] = v
  BY <1>1, DefaultsTyped DEF Finish, Goto, Typed
<1>5. Fits(w)'
  BY <1>4 DEF Fits, InPlace, Rewritten, NewlyWritten, Whole, HasTarget, HoldsRow
<1>6. ASSUME NEW v \in Workers \ {w}
      PROVE  Fits(v)'
  <2> DEFINE t == req[v].target
  <2>1. /\ InPlace(v) /\ Rewritten(v) /\ NewlyWritten(v) /\ Whole(v) /\ req[v] \in Request
        /\ req[v].customer \in Customers /\ wrote[v] \in Writes /\ DOMAIN wrote[v] \subseteq Id
    BY WritesTyped DEF FollowUpInvariant, Fits, Typed, Request
  <2>2. /\ pc'[v] = pc[v] /\ req'[v] = req[v] /\ wrote'[v] = wrote[v]
        /\ \A i \in Id : rowLock[i] = v => rowLock'[i] = v
        /\ custLock[req[v].customer] = v => custLock'[req[v].customer] = v
        /\ UNCHANGED <<archived, nextId, today>>
    BY <1>1, <1>4, <2>1
  <2>3. /\ \A i \in DOMAIN wrote[v] : followUps'[i] = followUps[i]
        /\ DOMAIN wrote[v] # {} => PendingOf(req[v].customer)' = PendingOf(req[v].customer)
    <3>1. CASE DOMAIN wrote[w] = {}
      <4>1. followUps' = followUps
        BY <1>1, <3>1 DEF Typed
      <4> QED
        BY <2>2, <4>1 DEF PendingOf
    <3>2. CASE DOMAIN wrote[v] # {} /\ DOMAIN wrote[w] # {}
      <4>1. req[v].customer # c /\ DOMAIN wrote[v] \cap DOMAIN wrote[w] = {}
        BY <3>2 DEF FollowUpInvariant, Apart
      <4>2. \A i \in DOMAIN wrote[v] : followUps'[i] = followUps[i]
        BY <1>1, <2>1, <4>1
      <4>3. \A d \in Customers \ {c} : PendingOf(d)' = PendingOf(d)
        BY <1>2 DEF TablesKept
      <4>4. PendingOf(req[v].customer)' = PendingOf(req[v].customer)
        BY <2>1, <2>2, <4>1, <4>3
      <4> QED
        BY <4>2, <4>4
    <3> QED
      BY <3>1, <3>2
  <2>4. InPlace(v)'
    <3>1. HoldsRow(v) => HasTarget(v) /\ t \in Id
      BY <2>1 DEF InPlace, HoldsRow, HasTarget
    <3>2. HasTarget(v) => /\ t \in Id /\ Exists(followUps'[t])
                          /\ followUps'[t].customer = req[v].customer
      BY <1>2, <2>1 DEF InPlace, TablesKept
    <3> QED
      BY <2>1, <2>2, <3>1, <3>2 DEF InPlace, HasTarget, HoldsRow
  <2>5. Rewritten(v)'
    BY <2>1, <2>2, <2>3 DEF Rewritten
  <2>6. NewlyWritten(v)'
    <3>1. ASSUME NEW i \in DOMAIN wrote[v] \ {t}
          PROVE  followUps'[i] = followUps[i]
                 /\ PendingOf(req[v].customer)' = PendingOf(req[v].customer)
      BY <2>3
    <3> QED
      BY <2>1, <2>2, <3>1 DEF NewlyWritten, DateFits, PendingOf
  <2>7. Whole(v)'
    BY <2>1, <2>2 DEF Whole, DateFits
  <2> QED
    BY <2>4, <2>5, <2>6, <2>7 DEF Fits
<1>7. ASSUME NEW u \in Workers, NEW v \in Workers, u # v
      PROVE  Apart(u, v)'
  BY <1>4, <1>7 DEF FollowUpInvariant, Apart
<1> QED
  BY <1>2, <1>3, <1>5, <1>6, <1>7 DEF FollowUpInvariant, TablesKept

-----------------------------------------------------------------------------
(* The invariant and the theorems.                                         *)

LEMMA InitFits == Init => FollowUpInvariant
<1> SUFFICES ASSUME Init PROVE FollowUpInvariant
  OBVIOUS
<1>1. \A i \in Id : ~Exists(followUps[i]) /\ ~Pending(followUps[i])
  BY DEF Init, NoRow, Exists, Pending
<1>2. \A w \in Workers : pc[w] = "idle" /\ DOMAIN wrote[w] = {}
  BY DefaultsTyped DEF Init
<1> QED
  BY <1>1, <1>2 DEF FollowUpInvariant, RescheduleTrail, Replacements, OnePending, PendingOf,
                    KeysUsed, Fits, InPlace, HasTarget, HoldsRow, Rewritten, NewlyWritten,
                    Whole, Apart

LEMMA StepKeeps ==
    ASSUME Typed, FollowUpInvariant, [Next]_vars
    PROVE  Typed' /\ FollowUpInvariant'
<1>1. ASSUME NEW w \in Workers, Arrive(w)
      PROVE  Typed' /\ FollowUpInvariant'
  BY <1>1, ArriveTyped, ArriveKeeps
<1>2. ASSUME NEW w \in Workers, Proceed(w)
      PROVE  Typed' /\ FollowUpInvariant'
  <2>1. CASE Refuse(w)
    BY <2>1, RefuseKeeps
  <2>2. CASE CheckCreate(w)
    BY <2>2, CheckCreateKeeps
  <2>3. CASE LockRow(w)
    BY <2>3, LockRowKeeps
  <2>4. CASE LockCustomer(w)
    BY <2>4, LockCustomerKeeps
  <2>5. CASE Reschedule(w)
    BY <2>5, RescheduleKeeps
  <2>6. CASE EditInPlace(w)
    BY <2>6, EditKeeps
  <2>7. CASE Close(w)
    BY <2>7, CloseKeeps
  <2>8. CASE Insert(w)
    BY <2>8, InsertKeeps
  <2>9. CASE RefuseInsert(w)
    BY <2>9, RefuseInsertKeeps
  <2>10. CASE Commit(w)
    BY <2>10, CommitKeeps
  <2>11. CASE CommitArchive(w)
    BY <2>11, CommitArchiveKeeps
  <2> QED
    BY <1>2, <2>1, <2>2, <2>3, <2>4, <2>5, <2>6, <2>7, <2>8, <2>9, <2>10, <2>11
       DEF Proceed, RefuseCreate, RefuseLocked
<1>3. ASSUME NEW w \in Workers, Abort(w)
      PROVE  Typed' /\ FollowUpInvariant'
  BY <1>3, RefuseKeeps DEF Abort
<1>4. ASSUME UNCHANGED vars
      PROVE  Typed' /\ FollowUpInvariant'
  <2> USE <1>4 DEF vars, tables, locks
  <2>1. Typed'
    BY DEF Typed
  <2>2. RescheduleTrail' /\ OnePending' /\ KeysUsed'
    BY DEF FollowUpInvariant, RescheduleTrail, Replacements, OnePending, PendingOf, KeysUsed
  <2>3. ASSUME NEW w \in Workers
        PROVE  Fits(w)'
    <3>1. InPlace(w) /\ Rewritten(w) /\ NewlyWritten(w) /\ Whole(w)
      BY DEF FollowUpInvariant, Fits
    <3>2. InPlace(w)'
      BY <3>1 DEF InPlace, HasTarget, HoldsRow
    <3>3. Rewritten(w)'
      BY <3>1 DEF Rewritten
    <3>4. NewlyWritten(w)' /\ Whole(w)'
      BY <3>1 DEF NewlyWritten, Whole, DateFits, PendingOf
    <3> QED
      BY <3>2, <3>3, <3>4 DEF Fits
  <2>4. \A u, v \in Workers : u # v => Apart(u, v)'
    BY DEF FollowUpInvariant, Apart
  <2> QED
    BY <2>1, <2>2, <2>3, <2>4 DEF FollowUpInvariant
<1> QED
  BY <1>1, <1>2, <1>3, <1>4, MidnightKeeps DEF Next

(* The inductive invariant holds in every state.                                   *)
THEOREM FollowUpInvariantHolds == Spec => [](Typed /\ FollowUpInvariant)
<1>1. Init => Typed /\ FollowUpInvariant
  BY InitTyped, InitFits
<1>2. Typed /\ FollowUpInvariant /\ [Next]_vars => (Typed /\ FollowUpInvariant)'
  BY StepKeeps
<1> QED
  BY <1>1, <1>2, PTL DEF Spec

(* The follow-ups, the locks and the requests in progress keep their types.        *)
THEOREM FollowUpTypes == Spec => []TypeOK
<1>1. Typed => TypeOK
  BY WritesTyped DEF Typed, TypeOK
<1> QED
  BY <1>1, FollowUpInvariantHolds, PTL

(* A rescheduled follow-up has exactly one later replacement, of its own customer, *)
(* and a follow-up with a replacement is rescheduled.                              *)
THEOREM TrailIsWhole == Spec => []RescheduleTrail
<1>1. FollowUpInvariant => RescheduleTrail
  BY DEF FollowUpInvariant
<1> QED
  BY <1>1, FollowUpInvariantHolds, PTL

\* Only a commit changes the follow-ups.
LEMMA OnlyCommitsPublish ==
    ASSUME [Next]_vars
    PROVE  UNCHANGED followUps \/ \E w \in Workers : Commit(w)
<1> USE DEF vars, tables
<1>1. ASSUME NEW w \in Workers, Arrive(w)
      PROVE  UNCHANGED followUps
  BY <1>1 DEF Arrive, ReceiveCreate, ReceiveUpdate, ReceiveClose, ReceiveArchive, Receive
<1>2. ASSUME NEW w \in Workers, Proceed(w)
      PROVE  UNCHANGED followUps \/ Commit(w)
  BY <1>2 DEF Proceed, CheckCreate, RefuseCreate, LockRow, LockCustomer, RefuseLocked,
              Reschedule, EditInPlace, Close, Insert, RefuseInsert, CommitArchive, Refuse
<1>3. ASSUME NEW w \in Workers, Abort(w)
      PROVE  UNCHANGED followUps
  BY <1>3 DEF Abort, Refuse
<1> QED
  BY <1>1, <1>2, <1>3 DEF Next, Midnight

(* A follow-up is moved only while its customer is not archived.                   *)
THEOREM ArchivedCustomersAreNotMoved == Spec => NoMoveWhenArchived
<1>1. ASSUME Typed, FollowUpInvariant, [Next]_vars,
             NEW i \in Id, Inserted(i), followUps'[i].rescheduledFrom # 0
      PROVE  ~archived[followUps'[i].customer]
  <2>1. PICK w \in Workers : Commit(w)
    BY <1>1, OnlyCommitsPublish DEF Inserted
  <2> DEFINE t == req[w].target
  <2>2. i \in DOMAIN wrote[w] /\ followUps'[i] = wrote[w][i]
    BY <1>1, <2>1 DEF Commit, Inserted
  <2>3. Rewritten(w) /\ NewlyWritten(w)
    BY <1>1 DEF FollowUpInvariant, Fits
  <2>4. i # t
    BY <1>1, <2>2, <2>3 DEF Rewritten, Inserted, Exists, Pending
  <2>5. t \in DOMAIN wrote[w] /\ wrote[w][t].status = "RESCHEDULED"
        /\ followUps'[i].customer = req[w].customer
    BY <1>1, <2>2, <2>3, <2>4 DEF NewlyWritten
  <2> QED
    BY <2>3, <2>5 DEF Rewritten
<1>2. Typed /\ FollowUpInvariant /\ [Next]_vars
        => [\A i \in Id : Inserted(i) /\ followUps'[i].rescheduledFrom # 0
               => ~archived[followUps'[i].customer]]_vars
  BY <1>1
<1> QED
  BY <1>2, FollowUpInvariantHolds, PTL DEF NoMoveWhenArchived, Spec

(* A staff user's request inserts no follow-up for a day before the day it arrived. *)
THEOREM PastDatesAreRefused == Spec => NoPastDates
<1>1. ASSUME Typed, FollowUpInvariant, [Next]_vars,
             NEW w \in Workers, pc[w] = "written", pc'[w] = "idle", ~req[w].superuser,
             NEW i \in DOMAIN wrote[w], Inserted(i)
      PROVE  followUps'[i].date >= req[w].day
  <2>1. Rewritten(w) /\ NewlyWritten(w) /\ i \in Id
    BY <1>1, WritesTyped DEF FollowUpInvariant, Fits, Typed
  <2>2. i # req[w].target
    BY <1>1, <2>1 DEF Rewritten, Inserted, Exists, Pending
  <2>3. wrote[w][i].date >= req[w].day
    BY <1>1, <2>1, <2>2 DEF NewlyWritten, DateFits
  <2>4. PICK v \in Workers : Commit(v)
    BY <1>1, OnlyCommitsPublish DEF Inserted
  <2>5. i \in DOMAIN wrote[v] /\ followUps'[i] = wrote[v][i]
    BY <1>1, <2>1, <2>4 DEF Commit, Inserted
  <2>6. v = w
    BY <1>1, <2>5 DEF FollowUpInvariant, Apart
  <2> QED
    BY <2>3, <2>5, <2>6
<1>2. Typed /\ FollowUpInvariant /\ [Next]_vars
        => [\A w \in Workers :
              pc[w] = "written" /\ pc'[w] = "idle" /\ ~req[w].superuser =>
                  \A i \in DOMAIN wrote[w] :
                      Inserted(i) => followUps'[i].date >= req[w].day]_vars
  BY <1>1
<1> QED
  BY <1>2, FollowUpInvariantHolds, PTL DEF NoPastDates, Spec

(* What a request inserts is allowed when it is inserted.                          *)
THEOREM InsertionsAreAllowed == Spec => InsertionsAllowed
  BY ArchivedCustomersAreNotMoved, PastDatesAreRefused DEF InsertionsAllowed

-----------------------------------------------------------------------------
(* The follow-ups implement Reminders.                                     *)

ReminderTable == [c \in Customers |-> Reminded(c)]
ClosedTable == [c \in Customers |-> [o \in Outcomes |-> Cardinality(ClosedRows(c, o))]]

LEMMA ReminderIsPending ==
    ASSUME OnePending, NEW c \in Customers, NEW i \in PendingOf(c)
    PROVE  Reminded(c) = [set |-> TRUE, date |-> followUps[i].date, note |-> followUps[i].note]
<1>1. (CHOOSE j \in PendingOf(c) : TRUE) = i
  BY DEF OnePending
<1> QED
  BY <1>1 DEF Reminded

LEMMA ReminderNext ==
    ASSUME OnePending', NEW c \in Customers, NEW i \in PendingOf(c)'
    PROVE  Reminded(c)' = [set |-> TRUE, date |-> followUps'[i].date, note |-> followUps'[i].note]
<1>1. (CHOOSE j \in PendingOf(c)' : TRUE) = i
  BY DEF OnePending
<1> QED
  BY <1>1 DEF Reminded

LEMMA Reworded ==
    ASSUME NEW b, NEW d, NEW m, NEW n
    PROVE  [[set |-> b, date |-> d, note |-> m] EXCEPT !.note = n]
             = [set |-> b, date |-> d, note |-> n]
  OBVIOUS

LEMMA CountsGrow ==
    ASSUME NEW S \in SUBSET Id, NEW i \in Id \ S
    PROVE  Cardinality(S \cup {i}) = Cardinality(S) + 1
<1>1. IsFiniteSet(Id)
  BY FS_Interval, FollowUpConstants DEF Id
<1>2. IsFiniteSet(S)
  BY <1>1, FS_Subset
<1> QED
  BY <1>2, FS_AddElement

Untouched(d) ==
    /\ \A j \in Id : Exists(followUps[j]) /\ followUps[j].customer = d
                     => followUps'[j] = followUps[j]
    /\ \A j \in Id : Exists(followUps'[j]) /\ followUps'[j].customer = d
                     => followUps'[j] = followUps[j]

\* A customer whose rows are left alone has the same reminder and the same counts.
LEMMA SameRows ==
    ASSUME NEW d \in Customers, Untouched(d)
    PROVE  /\ Reminded(d)' = Reminded(d)
           /\ \A o \in Outcomes : ClosedRows(d, o)' = ClosedRows(d, o)
<1>1. PendingOf(d)' = PendingOf(d) /\ \A i \in PendingOf(d) : followUps'[i] = followUps[i]
  BY DEF Untouched, PendingOf, Pending, Exists
<1>2. ASSUME PendingOf(d) # {}
      PROVE  Reminded(d)' = Reminded(d)
  <2> DEFINE i == CHOOSE i \in PendingOf(d) : TRUE
  <2>1. i \in PendingOf(d)
    BY <1>2
  <2>2. Reminded(d) = [set |-> TRUE, date |-> followUps[i].date, note |-> followUps[i].note]
    BY <1>2 DEF Reminded
  <2>3. Reminded(d)' = [set |-> TRUE, date |-> followUps'[i].date, note |-> followUps'[i].note]
    BY <1>1, <1>2 DEF Reminded
  <2> QED
    BY <1>1, <2>1, <2>2, <2>3
<1>3. PendingOf(d) = {} => Reminded(d)' = Reminded(d)
  BY <1>1 DEF Reminded
<1>4. \A o \in Outcomes : ClosedRows(d, o)' = ClosedRows(d, o)
  BY DEF Untouched, ClosedRows, Outcomes, Exists
<1> QED
  BY <1>2, <1>3, <1>4

\* A reminder that is there, or is not, in the words of Reminders.
LEMMA ReminderSet ==
    ASSUME Typed, OnePending, NEW c \in Customers, NEW i \in PendingOf(c)
    PROVE  /\ Reminded(c) = [set |-> TRUE, date |-> followUps[i].date, note |-> followUps[i].note]
           /\ Reminded(c) \in Abstract!Reminder /\ Reminded(c) # Abstract!None
<1>1. Reminded(c) = [set |-> TRUE, date |-> followUps[i].date, note |-> followUps[i].note]
  BY ReminderIsPending
<1>2. followUps[i].date \in Day /\ followUps[i].note \in Notes
  BY DEF PendingOf, Typed, Row
<1>3. Reminded(c).set = TRUE /\ Abstract!None.set = FALSE
  BY <1>1 DEF Abstract!None
<1>4. Reminded(c) \in Abstract!Reminder
  BY <1>1, <1>2 DEF Abstract!Reminder
<1>5. Reminded(c) # Abstract!None
  BY <1>3
<1> QED
  BY <1>1, <1>4, <1>5

LEMMA NoReminder ==
    ASSUME NEW c \in Customers, PendingOf(c) = {}
    PROVE  Reminded(c) = Abstract!None
  BY DEF Reminded, Abstract!None

CountsOf(c) == [o \in Outcomes |-> Cardinality(ClosedRows(c, o))]

\* One customer's rows change: the two tables change at that customer.
LEMMA TablesChange ==
    ASSUME NEW c \in Customers,
           \A d \in Customers \ {c} : Untouched(d)
    PROVE  /\ ReminderTable' = [ReminderTable EXCEPT ![c] = Reminded(c)']
           /\ ClosedTable' = [ClosedTable EXCEPT ![c] = CountsOf(c)']
<1>1. ASSUME NEW d \in Customers \ {c}
      PROVE  Reminded(d)' = Reminded(d) /\ CountsOf(d)' = CountsOf(d)
  <2>1. Untouched(d)
    BY <1>1
  <2>2. Reminded(d)' = Reminded(d) /\ \A o \in Outcomes : ClosedRows(d, o)' = ClosedRows(d, o)
    BY <2>1, SameRows
  <2>3. CountsOf(d)' = [o \in Outcomes |-> Cardinality(ClosedRows(d, o)')]
    BY DEF CountsOf
  <2> QED
    BY <2>2, <2>3 DEF CountsOf
<1>2. ReminderTable = [d \in Customers |-> Reminded(d)]
      /\ ReminderTable' = [d \in Customers |-> Reminded(d)']
  BY DEF ReminderTable
<1>3. ClosedTable = [d \in Customers |-> CountsOf(d)]
      /\ ClosedTable' = [d \in Customers |-> CountsOf(d)']
  BY DEF ClosedTable, CountsOf
<1>4. ReminderTable' = [ReminderTable EXCEPT ![c] = Reminded(c)']
  BY <1>1, <1>2
<1>5. ClosedTable' = [ClosedTable EXCEPT ![c] = CountsOf(c)']
  BY <1>1, <1>3
<1> QED
  BY <1>4, <1>5

\* One more row of a customer closed with outcome s.
LEMMA CountsStep ==
    ASSUME NEW c \in Customers, NEW s \in Outcomes, NEW i \in Id,
           i \notin ClosedRows(c, s), ClosedRows(c, s)' = ClosedRows(c, s) \cup {i},
           \A o \in Outcomes \ {s} : ClosedRows(c, o)' = ClosedRows(c, o)
    PROVE  CountsOf(c)' = [ClosedTable[c] EXCEPT ![s] = @ + 1]
<1>1. ClosedTable[c] = CountsOf(c)
  BY DEF ClosedTable, CountsOf
<1>2. Cardinality(ClosedRows(c, s)') = Cardinality(ClosedRows(c, s)) + 1
  <2>1. ClosedRows(c, s) \in SUBSET Id
    BY DEF ClosedRows
  <2> QED
    BY <2>1, CountsGrow
<1>3. CountsOf(c)' = [o \in Outcomes |-> Cardinality(ClosedRows(c, o)')]
  BY DEF CountsOf
<1> QED
  BY <1>1, <1>2, <1>3 DEF CountsOf

LEMMA RevisesImplements ==
    ASSUME Typed, FollowUpInvariant, Typed', FollowUpInvariant',
           NEW c \in Customers, Revises(c)
    PROVE  Abstract!Next
<1>1. PICK i \in PendingOf(c), s \in {"PENDING", "COMPLETED", "CANCELLED"}, n \in Notes :
          followUps' = [followUps EXCEPT ![i].status = s, ![i].note = n]
  BY DEF Revises
<1>2. /\ i \in Id /\ followUps[i] \in Row /\ followUps[i].status = "PENDING"
      /\ followUps[i].customer = c
  BY DEF Typed, PendingOf, Pending
<1>3. /\ followUps'[i] = [followUps[i] EXCEPT !.status = s, !.note = n]
      /\ \A j \in Id \ {i} : followUps'[j] = followUps[j]
  BY <1>1, <1>2 DEF Typed
<1>4. /\ followUps'[i].status = s /\ followUps'[i].note = n /\ followUps'[i].customer = c
      /\ followUps'[i].date = followUps[i].date
  BY <1>2, <1>3 DEF Row
<1>5. /\ ReminderTable' = [ReminderTable EXCEPT ![c] = Reminded(c)']
      /\ ClosedTable' = [ClosedTable EXCEPT ![c] = CountsOf(c)']
  <2>1. ASSUME NEW d \in Customers \ {c}
        PROVE  Untouched(d)
    BY <1>2, <1>3, <1>4 DEF Untouched
  <2> QED
    BY <2>1, TablesChange
<1>6. ReminderTable[c] = Reminded(c) /\ ClosedTable[c] = CountsOf(c)
  BY DEF ReminderTable, ClosedTable, CountsOf
<1>7. /\ Reminded(c) = [set |-> TRUE, date |-> followUps[i].date, note |-> followUps[i].note]
      /\ Reminded(c) # Abstract!None
  BY ReminderSet DEF FollowUpInvariant
<1>8. CASE s = "PENDING"
  <2>1. i \in PendingOf(c)'
    BY <1>2, <1>4, <1>8 DEF PendingOf, Pending
  <2>2. Reminded(c)' = [set |-> TRUE, date |-> followUps'[i].date, note |-> followUps'[i].note]
    BY <2>1, ReminderNext DEF FollowUpInvariant
  <2>3. Reminded(c)' = [Reminded(c) EXCEPT !.note = n]
    <3>1. Reminded(c)' = [set |-> TRUE, date |-> followUps[i].date, note |-> n]
      BY <1>4, <2>2
    <3> DEFINE b == TRUE
    <3>2. /\ Reminded(c) = [set |-> b, date |-> followUps[i].date, note |-> followUps[i].note]
          /\ Reminded(c)' = [set |-> b, date |-> followUps[i].date, note |-> n]
      BY <1>7, <3>1
    <3> HIDE DEF b
    <3> QED
      BY <3>2, Reworded
  <2>4. \A o \in Outcomes : ClosedRows(c, o)' = ClosedRows(c, o)
    BY <1>2, <1>3, <1>4, <1>8 DEF ClosedRows, Outcomes
  <2>5. CountsOf(c)' = CountsOf(c)
    BY <2>4 DEF CountsOf
  <2>6. ClosedTable' = ClosedTable
    BY <1>5, <1>6, <2>5 DEF ClosedTable
  <2>7. ReminderTable' = [ReminderTable EXCEPT ![c].note = n]
    BY <1>5, <1>6, <2>3
  <2>8. Abstract!Reword(c)
    BY <1>6, <1>7, <2>6, <2>7 DEF Abstract!Reword, ReminderTable, ClosedTable
  <2> QED
    BY <2>8 DEF Abstract!Next
<1>9. CASE s # "PENDING"
  <2>1. s \in Outcomes \ {"RESCHEDULED"}
    BY <1>9 DEF Outcomes
  <2>2. PendingOf(c)' = {}
    <3>1. PendingOf(c) = {i}
      BY <1>1 DEF FollowUpInvariant, OnePending
    <3>2. ASSUME NEW j \in Id, Pending(followUps'[j]), followUps'[j].customer = c
          PROVE  FALSE
      BY ZenonT(60), <1>3, <1>4, <1>9, <3>1, <3>2 DEF PendingOf, Pending
    <3> QED
      BY <3>2 DEF PendingOf
  <2>3. Reminded(c)' = Abstract!None
    BY <2>2 DEF Reminded, Abstract!None
  <2>4. /\ i \notin ClosedRows(c, s) /\ ClosedRows(c, s)' = ClosedRows(c, s) \cup {i}
        /\ \A o \in Outcomes \ {s} : ClosedRows(c, o)' = ClosedRows(c, o)
    <3>1. i \notin ClosedRows(c, s)
      BY <1>2, <1>9 DEF ClosedRows
    <3>2. ClosedRows(c, s)' = ClosedRows(c, s) \cup {i}
      <4>1. \A j \in Id : followUps'[j].customer = c /\ followUps'[j].status = s
              <=> j = i \/ (followUps[j].customer = c /\ followUps[j].status = s)
        BY <1>2, <1>3, <1>4
      <4> QED
        BY <1>2, <4>1 DEF ClosedRows
    <3>3. ASSUME NEW o \in Outcomes \ {s} PROVE ClosedRows(c, o)' = ClosedRows(c, o)
      <4>1. o # "PENDING"
        BY <3>3 DEF Outcomes
      <4> QED
        BY <1>2, <1>3, <1>4, <3>3, <4>1 DEF ClosedRows
    <3> QED
      BY <3>1, <3>2, <3>3
  <2>5. CountsOf(c)' = [ClosedTable[c] EXCEPT ![s] = @ + 1]
    BY <1>2, <2>1, <2>4, CountsStep
  <2>6. ClosedTable' = [ClosedTable EXCEPT ![c][s] = @ + 1]
    BY <1>5, <2>5
  <2>7. ReminderTable' = [ReminderTable EXCEPT ![c] = Abstract!None]
    BY <1>5, <2>3
  <2>8. Abstract!Close(c, s)
    BY <1>6, <1>7, <2>6, <2>7 DEF Abstract!Close, ReminderTable, ClosedTable
  <2> QED
    BY <2>1, <2>8 DEF Abstract!Next
<1> QED
  BY <1>8, <1>9

LEMMA OpensImplements ==
    ASSUME Typed, FollowUpInvariant, Typed', FollowUpInvariant',
           NEW c \in Customers, Opens(c)
    PROVE  Abstract!Next
<1>1. PICK k, r : /\ Fresh(k) /\ Reminds(r, c, 0)
                  /\ followUps' = [followUps EXCEPT ![k] = r]
  BY DEF Opens
<1>2. /\ k \in Id /\ followUps[k].status = "ABSENT" /\ ~Exists(followUps[k])
      /\ r \in Row /\ Pending(r) /\ r.status = "PENDING" /\ r.customer = c
      /\ followUps'[k] = r /\ \A j \in Id \ {k} : followUps'[j] = followUps[j]
  BY <1>1 DEF Typed, Fresh, Reminds, Pending, Exists
<1>3. /\ ReminderTable' = [ReminderTable EXCEPT ![c] = Reminded(c)']
      /\ ClosedTable' = [ClosedTable EXCEPT ![c] = CountsOf(c)']
  <2>1. ASSUME NEW d \in Customers \ {c}
        PROVE  Untouched(d)
    BY <1>2 DEF Untouched
  <2> QED
    BY <2>1, TablesChange
<1>4. ReminderTable[c] = Abstract!None
  BY NoReminder DEF Opens, ReminderTable
<1>5. Reminded(c)' \in Abstract!Reminder
  <2>1. k \in PendingOf(c)'
    BY <1>2 DEF PendingOf
  <2>2. Reminded(c)' = [set |-> TRUE, date |-> followUps'[k].date, note |-> followUps'[k].note]
    BY <2>1, ReminderNext DEF FollowUpInvariant
  <2> QED
    BY <1>2, <2>2 DEF Abstract!Reminder, Row
<1>6. ClosedTable' = ClosedTable
  <2>1. \A o \in Outcomes : ClosedRows(c, o)' = ClosedRows(c, o)
    BY <1>2 DEF ClosedRows, Outcomes
  <2>2. CountsOf(c)' = CountsOf(c) /\ ClosedTable[c] = CountsOf(c)
    BY <2>1 DEF CountsOf, ClosedTable
  <2> QED
    BY <1>3, <2>2 DEF ClosedTable
<1>7. Abstract!Set(c)
  BY <1>3, <1>4, <1>5, <1>6 DEF Abstract!Set, ReminderTable, ClosedTable
<1> QED
  BY <1>7 DEF Abstract!Next

LEMMA MovesImplements ==
    ASSUME Typed, FollowUpInvariant, Typed', FollowUpInvariant',
           NEW c \in Customers, Moves(c)
    PROVE  Abstract!Next
<1>1. PICK i \in PendingOf(c), n \in Notes, k \in Id, r \in Row :
          /\ Fresh(k) /\ i < k /\ Reminds(r, c, i)
          /\ followUps' = [followUps EXCEPT ![i].status = "RESCHEDULED", ![i].note = n, ![k] = r]
  BY DEF Moves, Fresh, Reminds
<1>2. /\ followUps \in [Id -> Row] /\ k \in Id /\ i \in Id /\ i # k
      /\ followUps[k].status = "ABSENT" /\ ~Exists(followUps[k])
      /\ r \in Row /\ Pending(r) /\ r.status = "PENDING" /\ r.customer = c
      /\ followUps[i].status = "PENDING" /\ followUps[i].customer = c
  BY <1>1 DEF Typed, Fresh, Reminds, Pending, Exists, PendingOf
<1>3. /\ followUps'[k] = r
      /\ followUps'[i] = [followUps[i] EXCEPT !.status = "RESCHEDULED", !.note = n]
      /\ \A j \in Id \ {i, k} : followUps'[j] = followUps[j]
  BY <1>1, <1>2
<1>4. followUps'[i].status = "RESCHEDULED" /\ followUps'[i].customer = c
  BY <1>2, <1>3 DEF Row
<1>5. /\ ReminderTable' = [ReminderTable EXCEPT ![c] = Reminded(c)']
      /\ ClosedTable' = [ClosedTable EXCEPT ![c] = CountsOf(c)']
  <2>1. ASSUME NEW d \in Customers \ {c}
        PROVE  Untouched(d)
    BY <1>2, <1>3, <1>4 DEF Untouched
  <2> QED
    BY <2>1, TablesChange
<1>6. ReminderTable[c] # Abstract!None
  BY ReminderSet DEF FollowUpInvariant, ReminderTable
<1>7. Reminded(c)' \in Abstract!Reminder
  <2>1. k \in PendingOf(c)'
    BY <1>2, <1>3 DEF PendingOf
  <2>2. Reminded(c)' = [set |-> TRUE, date |-> followUps'[k].date, note |-> followUps'[k].note]
    BY <2>1, ReminderNext DEF FollowUpInvariant
  <2> QED
    BY <1>2, <1>3, <2>2 DEF Abstract!Reminder, Row
<1>8. ClosedTable' = [ClosedTable EXCEPT ![c]["RESCHEDULED"] = @ + 1]
  <2> DEFINE s == "RESCHEDULED"
  <2>1. /\ s \in Outcomes
        /\ i \notin ClosedRows(c, s) /\ ClosedRows(c, s)' = ClosedRows(c, s) \cup {i}
        /\ \A o \in Outcomes \ {s} : ClosedRows(c, o)' = ClosedRows(c, o)
    <3>1. /\ i \notin ClosedRows(c, s)
          /\ \A o \in Outcomes : k \notin ClosedRows(c, o) /\ k \notin ClosedRows(c, o)'
      BY <1>2, <1>3 DEF ClosedRows, Outcomes
    <3>2. \A o \in Outcomes : \A j \in Id \ {i, k} :
             j \in ClosedRows(c, o)' <=> j \in ClosedRows(c, o)
      BY <1>3 DEF ClosedRows
    <3>3. \A o \in Outcomes : (i \in ClosedRows(c, o)' <=> o = s) /\ i \notin ClosedRows(c, o)
      BY <1>2, <1>4 DEF ClosedRows, Outcomes
    <3>4. \A o \in Outcomes : ClosedRows(c, o) \subseteq Id /\ ClosedRows(c, o)' \subseteq Id
      BY DEF ClosedRows
    <3>5. s \in Outcomes
      BY DEF Outcomes
    <3> HIDE DEF s
    <3>6. ASSUME NEW o \in Outcomes, NEW j \in Id
          PROVE  j \in ClosedRows(c, o)' <=> j \in ClosedRows(c, o) \/ (o = s /\ j = i)
      BY <3>1, <3>2, <3>3
    <3>7. ClosedRows(c, s)' = ClosedRows(c, s) \cup {i}
      BY <1>2, <3>4, <3>5, <3>6
    <3>8. \A o \in Outcomes \ {s} : ClosedRows(c, o)' = ClosedRows(c, o)
      BY <3>4, <3>6
    <3> QED
      BY <3>1, <3>5, <3>7, <3>8
  <2>2. CountsOf(c)' = [ClosedTable[c] EXCEPT ![s] = @ + 1]
    BY <1>2, <2>1, CountsStep
  <2> QED
    BY <1>5, <2>2
<1>9. Abstract!Move(c)
  BY <1>5, <1>6, <1>7, <1>8 DEF Abstract!Move, ReminderTable, ClosedTable
<1> QED
  BY <1>9 DEF Abstract!Next

(* Interleaved requests on the follow-ups read as steps of Reminders: initial      *)
(* states are initial states, and a step is a step of Reminders or changes nothing.*)
THEOREM FollowUpsImplementReminders == Spec => ImplementsReminders
<1>1. Init => Abstract!Init
  <2> SUFFICES ASSUME Init PROVE Abstract!Init
    OBVIOUS
  <2>1. \A i \in Id : followUps[i].status = "ABSENT"
    BY DEF Init, NoRow
  <2>2. \A c \in Customers : PendingOf(c) = {} /\ \A o \in Outcomes : ClosedRows(c, o) = {}
    BY <2>1 DEF PendingOf, Pending, ClosedRows, Outcomes
  <2>3. \A c \in Customers : Reminded(c) = Abstract!None
    BY <2>2, NoReminder
  <2>4. \A c \in Customers : \A o \in Outcomes : Cardinality(ClosedRows(c, o)) = 0
    BY <2>2, FS_EmptySet
  <2> QED
    BY <2>3, <2>4 DEF Abstract!Init
<1>2. ASSUME Typed, FollowUpInvariant, Typed', FollowUpInvariant', [Next]_vars
      PROVE  [Abstract!Next]_<<ReminderTable, ClosedTable>>
  <2>1. CASE UNCHANGED followUps
    <3>1. \A c \in Customers : Untouched(c)
      BY <2>1 DEF Untouched
    <3>2. ASSUME NEW c \in Customers
          PROVE  Reminded(c)' = Reminded(c) /\ CountsOf(c)' = CountsOf(c)
      <4>1. Reminded(c)' = Reminded(c) /\ \A o \in Outcomes : ClosedRows(c, o)' = ClosedRows(c, o)
        BY <3>1, SameRows
      <4> QED
        BY <4>1 DEF CountsOf
    <3>3. ReminderTable' = ReminderTable
      BY <3>2 DEF ReminderTable
    <3>4. ClosedTable' = ClosedTable
      BY <3>2 DEF ClosedTable, CountsOf
    <3> QED
      BY <3>3, <3>4
  <2>2. ASSUME NEW w \in Workers, Commit(w)
        PROVE  UNCHANGED followUps \/ Abstract!Next
    <3>1. req[w].customer \in Customers
      BY <1>2 DEF Typed, Request
    <3> QED
      BY <1>2, <2>2, <3>1, CommitCases, RevisesImplements, OpensImplements, MovesImplements
  <2> QED
    BY <1>2, <2>1, <2>2, OnlyCommitsPublish
<1>3. Typed /\ FollowUpInvariant /\ (Typed /\ FollowUpInvariant)' /\ [Next]_vars
        => [Abstract!Next]_<<ReminderTable, ClosedTable>>
  BY <1>2
<1> QED
  BY <1>1, <1>3, FollowUpInvariantHolds, PTL
     DEF Spec, ImplementsReminders, Abstract!Spec, ReminderTable, ClosedTable

=============================================================================
