--------------------------- MODULE AccountProofs ---------------------------
(***************************************************************************)
(* Theorems about Accounts, for every value of its constants.              *)
(***************************************************************************)
EXTENDS Accounts, TLAPS

-----------------------------------------------------------------------------
(* What a request in progress holds and knows.                             *)

\* The requests that browsers send with their cookies.
BrowserOps == OwnOps \cup EndOps \cup {"login"}

\* The places of an operation, and who asks for it.
InPlace(w) ==
    /\ pc[w] = "touched" => req[w].op = "update"
    /\ pc[w] \in {"saved", "stamped"} => req[w].op \in StaffOps
    /\ pc[w] = "answering" => req[w].op = "change"
    /\ pc[w] # "idle" /\ req[w].op \in BrowserOps => req[w].by \in Browsers
    /\ pc[w] # "idle" /\ req[w].op \in StaffOps => req[w].by \in Superusers

\* A request that has written the user row and not committed holds its lock.
HoldsRow(w) ==
    pc[w] \in {"saved", "stamped"} => lock[<<"user", User(w)>>] = w

\* A whole row that will be saved is the committed one, unless a commit came since.
LoadedIsCommitted(w) ==
    pc[w] # "idle" /\ req[w].op \in {"profile", "update"} /\ ~dirty[w] =>
        loaded[w] = row[User(w)]

\* What is written: the row that was loaded, or the password alone.
WroteFits(w) ==
    pc[w] \in {"saved", "stamped"} =>
        IF req[w].op = "update"
        THEN /\ wrote[w].password = loaded[w].password
             /\ wrote[w].active = Asked(w, loaded[w].active)
        ELSE wrote[w].active = row[User(w)].active

\* The profile row names the superuser already, or will at the commit.
StampFits(w) ==
    pc[w] = "stamped" =>
        lock[<<"profile", User(w)>>] = w \/ updatedBy[User(w)] = req[w].by

\* The browser's own change that must keep its session.
Kept(b) == renewed[b] # NoOne /\ ~overlap[renewed[b]]

\* No login, logout or refusal sent after the change can take its session away.
TakesNothing(w) ==
    pc[w] # "idle" /\ req[w].op \in EndOps \cup {"login"} /\ Kept(req[w].by) =>
        late[w] \/ crossed[req[w].by]

Fits(w) == InPlace(w) /\ HoldsRow(w) /\ LoadedIsCommitted(w) /\ WroteFits(w) /\ StampFits(w)

Histories == UndoneOnlyByOverlap /\ ChangeKeepsSession /\ ProfileNamesLastEditor

AccountInvariant ==
    /\ TypeOK
    /\ \A w \in Workers : Fits(w)
    /\ \A w \in Workers : TakesNothing(w)
    /\ Histories

-----------------------------------------------------------------------------
(* The steps.                                                              *)

LEMMA DefaultsTyped ==
    /\ SomeUser \in Staff
    /\ NoRequest \in Request
    /\ FirstRow \in Row
<1>1. SomeUser \in Staff
  BY AccountConstants DEF SomeUser
<1>2. NoRequest \in Request
  BY <1>1 DEF NoRequest, Request, AllOps, OwnOps, StaffOps
<1>3. FirstRow \in Row
  BY AccountConstants DEF FirstRow, Row, Passwords
<1> QED
  BY <1>1, <1>2, <1>3

LEMMA InitFits == Init => AccountInvariant
<1> SUFFICES ASSUME Init PROVE AccountInvariant
  OBVIOUS
<1>1. TypeOK
  BY DefaultsTyped, AccountConstants DEF Init, TypeOK, Passwords
<1>2. \A w \in Workers : Fits(w)
  BY DEF Init, Fits, InPlace, HoldsRow, LoadedIsCommitted, WroteFits, StampFits
<1>3. \A w \in Workers : TakesNothing(w)
  BY DEF Init, TakesNothing
<1>4. Histories
  BY AccountConstants DEF Init, Histories, UndoneOnlyByOverlap, ChangeKeepsSession,
     ProfileNamesLastEditor
<1> QED
  BY <1>1, <1>2, <1>3, <1>4 DEF AccountInvariant

LEMMA InvariantParts ==
    ASSUME AccountInvariant
    PROVE  /\ TypeOK /\ UndoneOnlyByOverlap /\ ChangeKeepsSession /\ ProfileNamesLastEditor
           /\ \A w \in Workers :
                 Fits(w) /\ InPlace(w) /\ TakesNothing(w) /\ User(w) \in Staff
  BY DEF AccountInvariant, Histories, Fits, TypeOK, Request, User

\* A request that has ended fits, whatever it did.
LEMMA EndedFits ==
    ASSUME NEW w \in Workers, pc'[w] = "idle"
    PROVE  Fits(w)' /\ TakesNothing(w)'
  BY DEF Fits, InPlace, HoldsRow, LoadedIsCommitted, WroteFits, StampFits, TakesNothing

\* A changed password is a row.
LEMMA PasswordTyped ==
    ASSUME NEW r \in Row, NEW l, NEW p \in Passwords
    PROVE  /\ PasswordAlone(r, l, p) \in Row
           /\ PasswordAlone(r, l, p).password = p
           /\ PasswordAlone(r, l, p).active = r.active
  BY DEF Row, PasswordAlone

LEMMA FinishTyped ==
    ASSUME TypeOK, NEW w \in Workers, Finish(w)
    PROVE  /\ lock' \in [Rows \X Staff -> Workers \cup {NoOne}]
           /\ pc' \in [Workers -> {"idle", "loaded", "touched", "saved", "stamped", "answering"}]
           /\ req' \in [Workers -> Request]
           /\ loaded' \in [Workers -> Row]
           /\ wrote' \in [Workers -> Row]
           /\ pc'[w] = "idle"
  BY DefaultsTyped DEF Finish, Goto, TypeOK

\* An answer leaves the types of the cookie's variables, whether it sets it or not.
LEMMA CookieTyped ==
    ASSUME TypeOK, NEW w \in Workers,
           \/ CookieStays(w)
           \/ \E s \in [user : Staff, hash : Passwords \cup {0}] \cup {NoSession} :
                 CookieSet(w, s)
    PROVE  /\ session' \in [Browsers -> [user : Staff,
                                         hash : Passwords \cup {0}] \cup {NoSession}]
           /\ late' \in [Workers -> BOOLEAN]
  BY DEF CookieStays, CookieSet, TypeOK

-----------------------------------------------------------------------------
(* What a step of w leaves to the requests of the others.                  *)

Leaves(w) ==
    \A v \in Workers \ {w} :
        /\ UNCHANGED <<pc[v], req[v], loaded[v], wrote[v]>>
        /\ \A kind \in Rows : lock[<<kind, User(v)>>] = v => lock'[<<kind, User(v)>>] = v
        /\ dirty[v] => dirty'[v]
        /\ updatedBy'[User(v)] # updatedBy[User(v)] => pc[v] \notin {"saved", "stamped"}
        /\ row'[User(v)] # row[User(v)] =>
              /\ pc[v] \notin {"saved", "stamped"}
              /\ pc[v] # "idle" /\ req[v].op \in {"profile", "update"} => dirty'[v]

\* A request in flight that may take a session away is no nearer to a kept one.
LeavesCookies(w) ==
    \A v \in Workers \ {w} :
        /\ late[v] => late'[v]
        /\ pc[v] # "idle" /\ req[v].op \in EndOps \cup {"login"} /\ Kept(req[v].by)' =>
              \/ late'[v]
              \/ Kept(req[v].by) /\ (crossed[req[v].by] => crossed'[req[v].by])

LEMMA OthersFit ==
    ASSUME AccountInvariant, NEW w \in Workers, Leaves(w), LeavesCookies(w),
           NEW v \in Workers \ {w}
    PROVE  Fits(v)' /\ TakesNothing(v)'
<1>1. Fits(v) /\ TakesNothing(v) /\ TypeOK
  BY InvariantParts
<1>2. /\ UNCHANGED <<pc[v], req[v], loaded[v], wrote[v]>>
      /\ \A kind \in Rows : lock[<<kind, User(v)>>] = v => lock'[<<kind, User(v)>>] = v
      /\ dirty[v] => dirty'[v]
      /\ updatedBy'[User(v)] # updatedBy[User(v)] => pc[v] \notin {"saved", "stamped"}
      /\ row'[User(v)] # row[User(v)] =>
            /\ pc[v] \notin {"saved", "stamped"}
            /\ pc[v] # "idle" /\ req[v].op \in {"profile", "update"} => dirty'[v]
  BY DEF Leaves
<1>3. InPlace(v)'
  BY <1>1, <1>2 DEF Fits, InPlace
<1>4. HoldsRow(v)'
  BY <1>1, <1>2 DEF Fits, HoldsRow, User, Rows
<1>5. LoadedIsCommitted(v)'
  BY <1>1, <1>2 DEF Fits, LoadedIsCommitted, User
<1>6. WroteFits(v)'
  BY <1>1, <1>2 DEF Fits, WroteFits, User, Asked
<1>7. StampFits(v)'
  BY <1>1, <1>2 DEF Fits, StampFits, User, Rows
<1>8. TakesNothing(v)'
  BY <1>1, <1>2 DEF LeavesCookies, TakesNothing
<1> QED
  BY <1>3, <1>4, <1>5, <1>6, <1>7, <1>8 DEF Fits

\* A step of w that leaves the others alone.
LEMMA StepFits ==
    ASSUME AccountInvariant, NEW w \in Workers, TypeOK', Leaves(w), LeavesCookies(w),
           Fits(w)', TakesNothing(w)', Histories'
    PROVE  AccountInvariant'
  BY OthersFit DEF AccountInvariant

\* A request that is not about the session itself takes nothing.
LEMMA OtherOpsTakeNothing ==
    ASSUME NEW w \in Workers, req[w].op \notin EndOps \cup {"login"}, req'[w] = req[w]
    PROVE  TakesNothing(w)'
  BY DEF TakesNothing

\* A step that renews no session.
LEMMA LeavesKept ==
    ASSUME AccountInvariant, NEW w \in Workers,
           \A v \in Workers \ {w} : (late[v] => late'[v]) /\ UNCHANGED req[v],
           \A b \in Browsers : renewed'[b] \in {renewed[b], NoOne},
           \A u \in Staff : overlap[u] => overlap'[u],
           \A b \in Browsers : crossed[b] => crossed'[b]
    PROVE  LeavesCookies(w)
<1> SUFFICES ASSUME NEW v \in Workers \ {w}, pc[v] # "idle",
                    req[v].op \in EndOps \cup {"login"}, Kept(req[v].by)'
             PROVE  Kept(req[v].by) /\ (crossed[req[v].by] => crossed'[req[v].by])
  BY DEF LeavesCookies
<1> DEFINE b == req[v].by
<1>1. b \in Browsers /\ TypeOK
  BY InvariantParts DEF InPlace, BrowserOps
<1>2. renewed'[b] # NoOne /\ ~overlap'[renewed'[b]]
  BY DEF Kept
<1>3. renewed'[b] = renewed[b] /\ renewed[b] \in Staff
  BY <1>1, <1>2 DEF TypeOK
<1>4. Kept(b)
  BY <1>2, <1>3 DEF Kept
<1> QED
  BY <1>1, <1>4

\* No step takes a lock that another request holds.
LEMMA LocksOfOthers ==
    ASSUME TypeOK, NEW w \in Workers, NEW v \in Workers \ {w}, NEW u \in Staff,
           NEW row1 \in Rows,
           \/ Finish(w)
           \/ \E kind \in Rows : Free(w, kind) /\ Take(w, kind)
           \/ UNCHANGED lock,
           lock[<<row1, u>>] = v
    PROVE  lock'[<<row1, u>>] = v
<1> DEFINE key == <<row1, u>>
<1>1. key \in Rows \X Staff
  OBVIOUS
<1>2. v # NoOne
  BY AccountConstants
<1>3. CASE Finish(w)
  BY <1>1, <1>3 DEF Finish
<1>4. CASE \E kind \in Rows : Free(w, kind) /\ Take(w, kind)
  <2>1. PICK kind \in Rows : Free(w, kind) /\ Take(w, kind)
    BY <1>4
  <2>2. lock[<<kind, User(w)>>] # v /\ lock' = [lock EXCEPT ![<<kind, User(w)>>] = w]
    BY <1>2, <2>1 DEF Free, Take
  <2>3. key # <<kind, User(w)>>
    BY <2>2
  <2> HIDE DEF key
  <2>4. lock'[key] = lock[key]
    BY <1>1, <2>2, <2>3 DEF TypeOK
  <2> QED
    BY <2>4 DEF key
<1>5. CASE UNCHANGED lock
  BY <1>5
<1> QED
  BY <1>3, <1>4, <1>5

\* A step that writes no row leaves the others alone.
LEMMA LeavesRows ==
    ASSUME AccountInvariant, NEW w \in Workers,
           \A v \in Workers \ {w} : UNCHANGED <<pc[v], req[v], loaded[v], wrote[v], dirty[v]>>,
           \/ Finish(w)
           \/ \E kind \in Rows : Free(w, kind) /\ Take(w, kind)
           \/ UNCHANGED lock,
           UNCHANGED <<row, updatedBy>>
    PROVE  Leaves(w)
<1>1. \A v \in Workers \ {w} : \A kind \in Rows :
          lock[<<kind, User(v)>>] = v => lock'[<<kind, User(v)>>] = v
  BY InvariantParts, LocksOfOthers
<1> QED
  BY <1>1 DEF Leaves

\* A commit waits for the row's lock and makes the rows others have loaded old.
LEMMA LeavesOthers ==
    ASSUME AccountInvariant, NEW w \in Workers, NEW r \in Row,
           \A v \in Workers \ {w} : UNCHANGED <<pc[v], req[v], loaded[v], wrote[v]>>,
           Finish(w) \/ UNCHANGED lock,
           Free(w, "user"),
           row' = [row EXCEPT ![User(w)] = r],
           \A u \in Staff \ {User(w)} : UNCHANGED updatedBy[u],
           DirtyOthers(w, User(w))
    PROVE  Leaves(w)
<1> SUFFICES ASSUME NEW v \in Workers \ {w}
             PROVE  /\ \A kind \in Rows :
                          lock[<<kind, User(v)>>] = v => lock'[<<kind, User(v)>>] = v
                    /\ dirty[v] => dirty'[v]
                    /\ updatedBy'[User(v)] # updatedBy[User(v)] => pc[v] \notin {"saved",
                                                                                 "stamped"}
                    /\ row'[User(v)] # row[User(v)] =>
                          /\ pc[v] \notin {"saved", "stamped"}
                          /\ pc[v] # "idle" /\ req[v].op \in {"profile", "update"} => dirty'[v]
  BY DEF Leaves
<1>1. TypeOK /\ Fits(v) /\ User(v) \in Staff /\ User(w) \in Staff
  BY InvariantParts
<1>2. \A kind \in Rows : lock[<<kind, User(v)>>] = v => lock'[<<kind, User(v)>>] = v
  BY <1>1, LocksOfOthers
<1>3. dirty'[v] = (dirty[v] \/ /\ pc[v] # "idle" /\ User(v) = User(w)
                               /\ req[v].op \in {"profile", "update", "login"})
  BY DEF DirtyOthers
<1>4. ASSUME User(v) = User(w)
      PROVE  pc[v] \notin {"saved", "stamped"}
  <2>1. lock[<<"user", User(v)>>] # v
    BY <1>4, AccountConstants DEF Free
  <2> QED
    BY <1>1, <2>1 DEF Fits, HoldsRow
<1>5. row'[User(v)] # row[User(v)] => User(v) = User(w)
  BY <1>1 DEF TypeOK
<1>6. updatedBy'[User(v)] # updatedBy[User(v)] => User(v) = User(w)
  BY <1>1
<1> QED
  BY <1>1, <1>2, <1>3, <1>4, <1>5, <1>6 DEF TypeOK

\* The steps that touch no row, no session and no history.
LEMMA QuietKeeps ==
    ASSUME AccountInvariant,
           UNCHANGED <<row, updatedBy, session, lastSet, renewed, crossed, lastEditor, overlap>>
    PROVE  Histories'
  BY InvariantParts DEF Histories, UndoneOnlyByOverlap, ChangeKeepsSession, ProfileNamesLastEditor

LEMMA ArriveFits ==
    ASSUME AccountInvariant, NEW w \in Workers, NEW q \in Request, NEW r \in Row,
           Arrive(w, q, r),
           q.op \in BrowserOps => q.by \in Browsers,
           q.op \in StaffOps => q.by \in Superusers,
           q.op \in {"profile", "update"} => r = row[q.user],
           session' \in [Browsers -> [user : Staff, hash : Passwords \cup {0}] \cup {NoSession}],
           renewed' \in [Browsers -> Staff \cup {NoOne}],
           \A b \in Browsers :
               /\ renewed'[b] \in {renewed[b], NoOne}
               /\ Kept(b)' /\ ~crossed[b] => session'[b] = session[b],
           q.op \in EndOps \cup {"login"} /\ Kept(q.by)' => crossed[q.by]
    PROVE  AccountInvariant'
<1>0. /\ TypeOK /\ (\A v \in Workers : Fits(v) /\ TakesNothing(v)) /\ UndoneOnlyByOverlap
      /\ ChangeKeepsSession /\ ProfileNamesLastEditor
  BY InvariantParts
<1>a. /\ pc' = [pc EXCEPT ![w] = "loaded"] /\ req' = [req EXCEPT ![w] = q]
      /\ loaded' = [loaded EXCEPT ![w] = r]
      /\ UNCHANGED <<row, updatedBy, chosen, lock, wrote, lastSet, late, crossed, lastEditor,
                     dirty, overlap>>
  BY DEF Arrive, Goto
<1>1. TypeOK'
  BY <1>0, <1>a DEF TypeOK
<1>2. ASSUME NEW v \in Workers PROVE Fits(v)'
  BY <1>0, <1>a DEF TypeOK, Fits, InPlace, HoldsRow, LoadedIsCommitted, WroteFits, StampFits,
     Asked, User
<1>3. ASSUME NEW v \in Workers PROVE TakesNothing(v)'
  <2>1. CASE v = w
    BY <1>0, <1>a, <2>1 DEF TypeOK, TakesNothing
  <2>2. CASE v # w
    <3>1. pc'[v] = pc[v] /\ req'[v] = req[v] /\ Fits(v) /\ TakesNothing(v)
      BY <1>0, <1>a, <2>2 DEF TypeOK
    <3>2. ASSUME pc[v] # "idle", req[v].op \in EndOps \cup {"login"}, Kept(req[v].by)'
          PROVE  late'[v] \/ crossed'[req[v].by]
      <4> DEFINE b == req[v].by
      <4>1. b \in Browsers
        BY <3>1, <3>2 DEF Fits, InPlace, BrowserOps
      <4> HIDE DEF b
      <4>2. renewed'[b] # NoOne /\ ~overlap[renewed'[b]]
        BY <1>a, <3>1, <3>2 DEF Kept, b
      <4>3. Kept(b)
        BY <4>1, <4>2 DEF Kept
      <4> QED
        BY <1>a, <3>1, <3>2, <4>3 DEF TakesNothing, b
    <3> QED
      BY <3>1, <3>2 DEF TakesNothing
  <2> QED
    BY <2>1, <2>2
<1>4. ChangeKeepsSession'
  <2>1. ASSUME NEW b \in Browsers, renewed'[b] # NoOne, ~crossed[b], ~overlap[renewed'[b]]
        PROVE  session'[b] = [user |-> renewed'[b], hash |-> row[renewed'[b]].password]
    <3>1. renewed'[b] = renewed[b]
      BY <2>1
    <3>2. session'[b] = session[b]
      BY <1>a, <2>1 DEF Kept
    <3> QED
      BY <1>0, <2>1, <3>1, <3>2 DEF ChangeKeepsSession
  <2> QED
    BY <1>a, <2>1 DEF ChangeKeepsSession
<1>5. UndoneOnlyByOverlap' /\ ProfileNamesLastEditor'
  BY <1>0, <1>a DEF UndoneOnlyByOverlap, ProfileNamesLastEditor
<1> QED
  BY <1>1, <1>2, <1>3, <1>4, <1>5 DEF AccountInvariant, Histories

LEMMA BeginFits ==
    ASSUME AccountInvariant, NEW w \in Workers, NEW q \in Request, NEW r \in Row,
           Begin(w, q, r),
           q.op \notin EndOps \cup {"login"},
           q.op \in OwnOps => q.by \in Browsers,
           q.op \in StaffOps => q.by \in Superusers,
           q.op \in {"profile", "update"} => r = row[q.user]
    PROVE  AccountInvariant'
<1>1. TypeOK
  BY InvariantParts
<1>2. Arrive(w, q, r) /\ UNCHANGED <<session, renewed>>
  BY DEF Begin
<1>3. session' \in [Browsers -> [user : Staff, hash : Passwords \cup {0}] \cup {NoSession}]
  BY <1>1, <1>2 DEF TypeOK
<1>4. renewed' \in [Browsers -> Staff \cup {NoOne}]
  BY <1>1, <1>2 DEF TypeOK
<1> QED
  BY <1>2, <1>3, <1>4, ArriveFits DEF BrowserOps

LEMMA RolledBackFits ==
    ASSUME AccountInvariant, NEW w \in Workers, RolledBack(w)
    PROVE  AccountInvariant'
<1>0. /\ TypeOK /\ UndoneOnlyByOverlap /\ ChangeKeepsSession /\ ProfileNamesLastEditor
      /\ Fits(w) /\ InPlace(w) /\ User(w) \in Staff
  BY InvariantParts
<1>1. TypeOK'
  BY <1>0, FinishTyped, CookieTyped DEF RolledBack, CookieStays, TypeOK
<1>2. Leaves(w)
  <2>1. \A v \in Workers \ {w} : UNCHANGED <<pc[v], req[v], loaded[v], wrote[v], dirty[v]>>
    BY <1>0 DEF RolledBack, Finish, Goto, TypeOK
  <2> QED
    BY <2>1, LeavesRows DEF RolledBack
<1>3. Fits(w)' /\ TakesNothing(w)'
  BY <1>0, FinishTyped, EndedFits DEF RolledBack
<1>4. Histories'
  BY QuietKeeps DEF RolledBack, CookieStays
<1>5. LeavesCookies(w)
  <2>1. \A v \in Workers \ {w} : UNCHANGED <<req[v], late[v]>>
    BY <1>0 DEF RolledBack, CookieStays, Finish, TypeOK
  <2>2. \A u \in Staff : overlap[u] => overlap'[u]
    BY <1>0 DEF RolledBack, TypeOK
  <2> QED
    BY <2>1, <2>2, LeavesKept DEF RolledBack, CookieStays
<1> QED
  BY <1>1, <1>2, <1>3, <1>4, <1>5, StepFits

LEMMA StoreSessionFits ==
    ASSUME AccountInvariant, NEW w \in Workers, StoreSession(w)
    PROVE  AccountInvariant'
<1>0. /\ TypeOK /\ UndoneOnlyByOverlap /\ ChangeKeepsSession /\ ProfileNamesLastEditor
      /\ Fits(w) /\ InPlace(w) /\ TakesNothing(w) /\ User(w) \in Staff
  BY InvariantParts
<1>b. req[w].by \in Browsers
  BY <1>0 DEF StoreSession, InPlace, BrowserOps
<1>s. SessionOf(w) \in [user : Staff, hash : Passwords \cup {0}] \cup {NoSession}
  BY <1>0 DEF SessionOf, TypeOK, Row
<1>1. TypeOK'
  <2>1. session' \in [Browsers -> [user : Staff, hash : Passwords \cup {0}] \cup {NoSession}]
        /\ late' \in [Workers -> BOOLEAN]
    BY <1>0, <1>s, CookieTyped DEF StoreSession
  <2>2. dirty' \in [Workers -> BOOLEAN] /\ overlap' \in [Staff -> BOOLEAN]
    BY <1>0 DEF StoreSession, TypeOK
  <2>3. crossed' \in [Browsers -> BOOLEAN]
    BY <1>0, <1>b DEF StoreSession, MayCross, TypeOK
  <2> QED
    BY <1>0, <2>1, <2>2, <2>3, FinishTyped DEF StoreSession, TypeOK
<1>2. Leaves(w)
  <2>1. \A v \in Workers \ {w} : UNCHANGED <<pc[v], req[v], loaded[v], wrote[v], dirty[v]>>
    BY <1>0 DEF StoreSession, Finish, Goto, TypeOK
  <2> QED
    BY <2>1, LeavesRows DEF StoreSession
<1>3. Fits(w)' /\ TakesNothing(w)'
  BY <1>0, FinishTyped, EndedFits DEF StoreSession
<1>o. \A u \in Staff : overlap[u] => overlap'[u]
  BY <1>0 DEF StoreSession, TypeOK
<1>c. \A b \in Browsers : crossed[b] => crossed'[b]
  BY <1>0, <1>b DEF StoreSession, MayCross, TypeOK
<1>4. Histories'
  <2>1. ASSUME NEW b \in Browsers, renewed[b] # NoOne, ~crossed'[b], ~overlap'[renewed[b]]
        PROVE  session'[b] = [user |-> renewed[b], hash |-> row[renewed[b]].password]
    <3>1. ~crossed[b] /\ ~overlap[renewed[b]]
      BY <1>0, <1>o, <1>c, <2>1 DEF TypeOK
    <3>2. b # req[w].by
      <4>1. SUFFICES ASSUME b = req[w].by PROVE FALSE
        OBVIOUS
      <4>2. late[w]
        BY <1>0, <2>1, <3>1, <4>1 DEF StoreSession, TakesNothing, Kept
      <4>3. crossed'[b]
        BY <1>0, <1>b, <4>1, <4>2 DEF StoreSession, MayCross, TypeOK
      <4> QED
        BY <2>1, <4>3
    <3>3. session'[b] = session[b]
      BY <1>0, <3>2 DEF StoreSession, CookieSet, TypeOK
    <3> QED
      BY <1>0, <2>1, <3>1, <3>3 DEF ChangeKeepsSession
  <2>2. ChangeKeepsSession'
    BY <2>1 DEF StoreSession, ChangeKeepsSession
  <2>3. UndoneOnlyByOverlap' /\ ProfileNamesLastEditor'
    BY <1>0, <1>o DEF StoreSession, UndoneOnlyByOverlap, ProfileNamesLastEditor
  <2> QED
    BY <2>2, <2>3 DEF Histories
<1>5. LeavesCookies(w)
  <2>1. \A v \in Workers \ {w} : (late[v] => late'[v]) /\ UNCHANGED req[v]
    BY <1>0 DEF StoreSession, CookieSet, Finish, TypeOK
  <2> QED
    BY <2>1, <1>o, <1>c, LeavesKept DEF StoreSession
<1> QED
  BY <1>1, <1>2, <1>3, <1>4, <1>5, StepFits

LEMMA DeleteCookieFits ==
    ASSUME AccountInvariant, NEW w \in Workers, DeleteCookie(w)
    PROVE  AccountInvariant'
<1>0. /\ TypeOK /\ UndoneOnlyByOverlap /\ ChangeKeepsSession /\ ProfileNamesLastEditor
      /\ Fits(w) /\ InPlace(w) /\ TakesNothing(w) /\ User(w) \in Staff
  BY InvariantParts
<1>b. req[w].by \in Browsers
  BY <1>0 DEF DeleteCookie, InPlace, BrowserOps
<1>s. NoSession \in [user : Staff, hash : Passwords \cup {0}] \cup {NoSession}
  BY <1>0 DEF SessionOf, TypeOK, Row
<1>1. TypeOK'
  <2>1. session' \in [Browsers -> [user : Staff, hash : Passwords \cup {0}] \cup {NoSession}]
        /\ late' \in [Workers -> BOOLEAN]
    BY <1>0, <1>s, CookieTyped DEF DeleteCookie
  <2>2. dirty' \in [Workers -> BOOLEAN] /\ overlap' \in [Staff -> BOOLEAN]
    BY <1>0 DEF DeleteCookie, TypeOK
  <2>3. crossed' \in [Browsers -> BOOLEAN]
    BY <1>0, <1>b DEF DeleteCookie, MayCross, TypeOK
  <2> QED
    BY <1>0, <2>1, <2>2, <2>3, FinishTyped DEF DeleteCookie, TypeOK
<1>2. Leaves(w)
  <2>1. \A v \in Workers \ {w} : UNCHANGED <<pc[v], req[v], loaded[v], wrote[v], dirty[v]>>
    BY <1>0 DEF DeleteCookie, Finish, Goto, TypeOK
  <2> QED
    BY <2>1, LeavesRows DEF DeleteCookie
<1>3. Fits(w)' /\ TakesNothing(w)'
  BY <1>0, FinishTyped, EndedFits DEF DeleteCookie
<1>o. \A u \in Staff : overlap[u] => overlap'[u]
  BY <1>0 DEF DeleteCookie, TypeOK
<1>c. \A b \in Browsers : crossed[b] => crossed'[b]
  BY <1>0, <1>b DEF DeleteCookie, MayCross, TypeOK
<1>4. Histories'
  <2>1. ASSUME NEW b \in Browsers, renewed[b] # NoOne, ~crossed'[b], ~overlap'[renewed[b]]
        PROVE  session'[b] = [user |-> renewed[b], hash |-> row[renewed[b]].password]
    <3>1. ~crossed[b] /\ ~overlap[renewed[b]]
      BY <1>0, <1>o, <1>c, <2>1 DEF TypeOK
    <3>2. b # req[w].by
      <4>1. SUFFICES ASSUME b = req[w].by PROVE FALSE
        OBVIOUS
      <4>2. late[w]
        BY <1>0, <2>1, <3>1, <4>1 DEF DeleteCookie, TakesNothing, Kept
      <4>3. crossed'[b]
        BY <1>0, <1>b, <4>1, <4>2 DEF DeleteCookie, MayCross, TypeOK
      <4> QED
        BY <2>1, <4>3
    <3>3. session'[b] = session[b]
      BY <1>0, <3>2 DEF DeleteCookie, CookieSet, TypeOK
    <3> QED
      BY <1>0, <2>1, <3>1, <3>3 DEF ChangeKeepsSession
  <2>2. ChangeKeepsSession'
    BY <2>1 DEF DeleteCookie, ChangeKeepsSession
  <2>3. UndoneOnlyByOverlap' /\ ProfileNamesLastEditor'
    BY <1>0, <1>o DEF DeleteCookie, UndoneOnlyByOverlap, ProfileNamesLastEditor
  <2> QED
    BY <2>2, <2>3 DEF Histories
<1>5. LeavesCookies(w)
  <2>1. \A v \in Workers \ {w} : (late[v] => late'[v]) /\ UNCHANGED req[v]
    BY <1>0 DEF DeleteCookie, CookieSet, Finish, TypeOK
  <2> QED
    BY <2>1, <1>o, <1>c, LeavesKept DEF DeleteCookie
<1> QED
  BY <1>1, <1>2, <1>3, <1>4, <1>5, StepFits

LEMMA SaveProfileFits ==
    ASSUME AccountInvariant, NEW w \in Workers, SaveProfile(w)
    PROVE  AccountInvariant'
<1>0. /\ TypeOK /\ UndoneOnlyByOverlap /\ ChangeKeepsSession /\ ProfileNamesLastEditor
      /\ Fits(w) /\ InPlace(w) /\ User(w) \in Staff
  BY InvariantParts
<1>a. loaded[w] \in Row /\ (~dirty[w] => loaded[w] = row[User(w)])
  BY <1>0 DEF SaveProfile, Fits, LoadedIsCommitted, TypeOK
<1>1. TypeOK'
  <2>1. row' \in [Staff -> Row] /\ overlap' \in [Staff -> BOOLEAN]
    BY <1>0, <1>a DEF SaveProfile, TypeOK
  <2>2. dirty' \in [Workers -> BOOLEAN]
    BY <1>0 DEF SaveProfile, DirtyOthers, TypeOK
  <2> QED
    BY <1>0, <2>1, <2>2, FinishTyped, CookieTyped DEF SaveProfile, CookieStays, TypeOK
<1>2. Leaves(w)
  <2>1. \A v \in Workers \ {w} : UNCHANGED <<pc[v], req[v], loaded[v], wrote[v]>>
    BY <1>0 DEF SaveProfile, Finish, Goto, TypeOK
  <2> QED
    BY <1>a, <2>1, LeavesOthers DEF SaveProfile
<1>3. Fits(w)' /\ TakesNothing(w)'
  BY <1>0, FinishTyped, EndedFits DEF SaveProfile
<1>4. Histories'
  <2>1. \A u \in Staff : ~overlap'[u] => ~overlap[u] /\ row'[u] = row[u]
    BY <1>0, <1>a DEF SaveProfile, TypeOK
  <2> QED
    BY <1>0, <2>1 DEF SaveProfile, CookieStays, Histories, UndoneOnlyByOverlap,
       ChangeKeepsSession, ProfileNamesLastEditor, TypeOK
<1>5. LeavesCookies(w)
  <2>1. \A v \in Workers \ {w} : UNCHANGED <<req[v], late[v]>>
    BY <1>0 DEF SaveProfile, CookieStays, Finish, TypeOK
  <2>2. \A u \in Staff : overlap[u] => overlap'[u]
    BY <1>0 DEF SaveProfile, TypeOK
  <2> QED
    BY <2>1, <2>2, LeavesKept DEF SaveProfile, CookieStays
<1> QED
  BY <1>1, <1>2, <1>3, <1>4, <1>5, StepFits

LEMMA SetPasswordSets ==
    ASSUME AccountInvariant, NEW w \in Workers, SetPassword(w), UNCHANGED <<updatedBy, session,
         crossed, lastEditor, overlap>>
    PROVE  /\ chosen' \in Passwords
           /\ row' \in [Staff -> Row] /\ lastSet' \in [Staff -> Row]
           /\ renewed' \in [Browsers -> Staff \cup {NoOne}]
           /\ \A b \in Browsers : renewed'[b] \in {renewed[b], NoOne}
           /\ dirty' \in [Workers -> BOOLEAN]
           /\ \E r \in Row : row' = [row EXCEPT ![User(w)] = r]
           /\ Histories'
<1> DEFINE u == User(w)
           r == PasswordAlone(row[u], loaded[w], NewPassword)
           s == [lastSet[u] EXCEPT !.password = NewPassword]
<1>0. /\ TypeOK /\ UndoneOnlyByOverlap /\ ChangeKeepsSession /\ ProfileNamesLastEditor
      /\ u \in Staff
  BY InvariantParts
<1>1. NewPassword \in Passwords
  BY <1>0, AccountConstants DEF SetPassword, NewPassword, Passwords, TypeOK
<1>2. r \in Row /\ s \in Row /\ r.password = NewPassword /\ r.active = row[u].active
  <2>1. row[u] \in Row /\ lastSet[u] \in Row
    BY <1>0 DEF TypeOK
  <2>2. s \in Row
    BY <1>1, <2>1 DEF Row
  <2> QED
    BY <1>1, <2>1, <2>2, PasswordTyped
<1>3. row[u] = lastSet[u] => r = s
  BY <1>0 DEF PasswordAlone
<1>4. /\ row' = [row EXCEPT ![u] = r] /\ lastSet' = [lastSet EXCEPT ![u] = s]
      /\ renewed' = [b \in Browsers |-> IF renewed[b] = u THEN NoOne ELSE renewed[b]]
  BY DEF SetPassword
<1> HIDE DEF u, r, s
<1>5. row' \in [Staff -> Row] /\ lastSet' \in [Staff -> Row]
  BY <1>0, <1>2, <1>4 DEF TypeOK
<1>6. /\ renewed' \in [Browsers -> Staff \cup {NoOne}]
      /\ \A b \in Browsers : renewed'[b] \in {renewed[b], NoOne}
  BY <1>0, <1>4 DEF TypeOK
<1>7. dirty' \in [Workers -> BOOLEAN]
  BY <1>0 DEF SetPassword, DirtyOthers, TypeOK
<1>8. UndoneOnlyByOverlap'
  BY <1>0, <1>3, <1>4 DEF UndoneOnlyByOverlap, TypeOK
<1>9. ChangeKeepsSession'
  <2>1. \A b \in Browsers : renewed'[b] # NoOne =>
            /\ renewed'[b] = renewed[b] /\ renewed[b] \in Staff
            /\ row'[renewed[b]] = row[renewed[b]]
    BY <1>0, <1>4 DEF TypeOK
  <2> QED
    BY <2>1, <1>0 DEF ChangeKeepsSession
<1>11. ProfileNamesLastEditor'
  BY <1>0 DEF ProfileNamesLastEditor
<1>10. \E x \in Row : row' = [row EXCEPT ![User(w)] = x]
  BY <1>2, <1>4 DEF u
<1> QED
  BY <1>1, <1>5, <1>6, <1>7, <1>8, <1>9, <1>10, <1>11 DEF SetPassword, Histories

LEMMA SaveIssuedFits ==
    ASSUME AccountInvariant, NEW w \in Workers, SaveIssued(w)
    PROVE  AccountInvariant'
<1>0. /\ TypeOK /\ UndoneOnlyByOverlap /\ ChangeKeepsSession /\ ProfileNamesLastEditor
      /\ Fits(w) /\ InPlace(w) /\ User(w) \in Staff
  BY InvariantParts
<1>1. TypeOK'
  BY <1>0, FinishTyped, CookieTyped, SetPasswordSets DEF SaveIssued, CookieStays, TypeOK
<1>2. Leaves(w)
  <2>1. \A v \in Workers \ {w} : UNCHANGED <<pc[v], req[v], loaded[v], wrote[v]>>
    BY <1>0 DEF SaveIssued, Finish, Goto, TypeOK
  <2>2. PICK r \in Row : row' = [row EXCEPT ![User(w)] = r]
    BY SetPasswordSets DEF SaveIssued, CookieStays
  <2> QED
    BY <2>1, <2>2, LeavesOthers DEF SaveIssued, SetPassword
<1>3. Fits(w)' /\ TakesNothing(w)'
  BY <1>0, FinishTyped, EndedFits DEF SaveIssued
<1>4. Histories'
  BY SetPasswordSets DEF SaveIssued, CookieStays
<1>5. LeavesCookies(w)
  <2>1. \A v \in Workers \ {w} : UNCHANGED <<req[v], late[v]>>
    BY <1>0 DEF SaveIssued, CookieStays, Finish, TypeOK
  <2> QED
    BY <2>1, SetPasswordSets, LeavesKept DEF SaveIssued, CookieStays
<1> QED
  BY <1>1, <1>2, <1>3, <1>4, <1>5, StepFits

LEMMA SaveChangedFits ==
    ASSUME AccountInvariant, NEW w \in Workers, SaveChanged(w)
    PROVE  AccountInvariant'
<1>0. /\ TypeOK /\ UndoneOnlyByOverlap /\ ChangeKeepsSession /\ ProfileNamesLastEditor
      /\ Fits(w) /\ InPlace(w) /\ User(w) \in Staff
  BY InvariantParts
<1>1. TypeOK'
  <2>1. NewPassword \in Passwords
    BY SetPasswordSets DEF SaveChanged, SetPassword
  <2>r. loaded[w] \in Row
    BY <1>0 DEF TypeOK
  <2>2. [loaded[w] EXCEPT !.password = NewPassword] \in Row
    BY <2>1, <2>r DEF Row
  <2>3. loaded' \in [Workers -> Row]
    BY <1>0, <2>2 DEF SaveChanged, TypeOK
  <2> QED
    BY <1>0, <2>3, SetPasswordSets DEF SaveChanged, Goto, TypeOK
<1>2. Leaves(w)
  <2>1. \A v \in Workers \ {w} : UNCHANGED <<pc[v], req[v], loaded[v], wrote[v]>>
    BY <1>0 DEF SaveChanged, Goto, TypeOK
  <2>2. PICK r \in Row : row' = [row EXCEPT ![User(w)] = r]
    BY SetPasswordSets DEF SaveChanged
  <2> QED
    BY <2>1, <2>2, LeavesOthers DEF SaveChanged, SetPassword
<1>3. Fits(w)' /\ TakesNothing(w)'
  <2>1. pc'[w] = "answering" /\ req'[w] = req[w] /\ req[w].op = "change"
    BY <1>0 DEF SaveChanged, Goto, TypeOK
  <2> QED
    BY <1>0, <2>1 DEF SaveChanged, Fits, InPlace, HoldsRow, LoadedIsCommitted, WroteFits,
       StampFits,
       TakesNothing, BrowserOps, OwnOps, EndOps, StaffOps
<1>4. Histories'
  BY SetPasswordSets DEF SaveChanged
<1>5. LeavesCookies(w)
  <2>1. \A v \in Workers \ {w} : UNCHANGED <<req[v], late[v]>>
    BY <1>0 DEF SaveChanged, CookieStays, Finish, TypeOK
  <2> QED
    BY <2>1, SetPasswordSets, LeavesKept DEF SaveChanged, CookieStays
<1> QED
  BY <1>1, <1>2, <1>3, <1>4, <1>5, StepFits

LEMMA RenewSessionFits ==
    ASSUME AccountInvariant, NEW w \in Workers, RenewSession(w)
    PROVE  AccountInvariant'
<1>0. /\ TypeOK /\ UndoneOnlyByOverlap /\ ChangeKeepsSession /\ ProfileNamesLastEditor
      /\ Fits(w) /\ InPlace(w) /\ TakesNothing(w) /\ User(w) \in Staff
  BY InvariantParts
<1>b. req[w].by \in Browsers
  BY <1>0 DEF RenewSession, InPlace, BrowserOps, OwnOps
<1>s. SessionRenewed(w) \in [user : Staff, hash : Passwords \cup {0}] \cup {NoSession}
  BY <1>0 DEF SessionRenewed, SessionOf, TypeOK, Row
<1>1. TypeOK'
  <2>0. renewed' \in [Browsers -> Staff \cup {NoOne}]
    BY <1>0, <1>b DEF RenewSession, TypeOK
  <2>1. session' \in [Browsers -> [user : Staff, hash : Passwords \cup {0}] \cup {NoSession}]
        /\ late' \in [Workers -> BOOLEAN]
    BY <1>0, <1>s, CookieTyped DEF RenewSession
  <2>2. dirty' \in [Workers -> BOOLEAN] /\ overlap' \in [Staff -> BOOLEAN]
    BY <1>0 DEF RenewSession, TypeOK
  <2>3. crossed' \in [Browsers -> BOOLEAN]
    BY <1>0, <1>b DEF RenewSession, TypeOK
  <2> QED
    BY <1>0, <2>0, <2>1, <2>2, <2>3, FinishTyped DEF RenewSession, TypeOK
<1>2. Leaves(w)
  <2>1. \A v \in Workers \ {w} : UNCHANGED <<pc[v], req[v], loaded[v], wrote[v], dirty[v]>>
    BY <1>0 DEF RenewSession, Finish, Goto, TypeOK
  <2> QED
    BY <2>1, LeavesRows DEF RenewSession
<1>3. Fits(w)' /\ TakesNothing(w)'
  BY <1>0, FinishTyped, EndedFits DEF RenewSession
<1>4. Histories'
  <2>1. ASSUME NEW b \in Browsers, renewed'[b] # NoOne, ~crossed'[b], ~overlap[renewed'[b]]
        PROVE  session'[b] = [user |-> renewed'[b], hash |-> row[renewed'[b]].password]
    <3>1. CASE b = req[w].by
      <4>1. renewed'[b] = User(w) /\ lastSet[User(w)].password = loaded[w].password
        BY <1>0, <1>b, <2>1, <3>1 DEF RenewSession, TypeOK
      <4>2. session'[b] = [user |-> User(w), hash |-> loaded[w].password]
        BY <1>0, <1>b, <3>1 DEF RenewSession, CookieSet, SessionRenewed, SessionOf, TypeOK
      <4>3. row[User(w)] = lastSet[User(w)]
        BY <1>0, <2>1, <4>1 DEF UndoneOnlyByOverlap
      <4> QED
        BY <4>1, <4>2, <4>3
    <3>2. CASE b # req[w].by
      <4>1. /\ renewed'[b] = renewed[b] /\ crossed'[b] = crossed[b]
            /\ session'[b] = session[b]
        BY <1>0, <3>2 DEF RenewSession, CookieSet, TypeOK
      <4> QED
        BY <1>0, <2>1, <4>1 DEF ChangeKeepsSession
    <3> QED
      BY <3>1, <3>2
  <2>2. ChangeKeepsSession'
    BY <2>1 DEF RenewSession, ChangeKeepsSession
  <2>3. UndoneOnlyByOverlap' /\ ProfileNamesLastEditor'
    BY <1>0 DEF RenewSession, UndoneOnlyByOverlap, ProfileNamesLastEditor
  <2> QED
    BY <2>2, <2>3 DEF Histories
<1>5. LeavesCookies(w)
  <2> SUFFICES ASSUME NEW v \in Workers \ {w}
               PROVE  /\ late[v] => late'[v]
                      /\ pc[v] # "idle" /\ req[v].op \in EndOps \cup {"login"}
                         /\ Kept(req[v].by)' =>
                            \/ late'[v]
                            \/ Kept(req[v].by) /\ (crossed[req[v].by] => crossed'[req[v].by])
    BY DEF LeavesCookies
  <2>1. /\ late[v] => late'[v]
        /\ pc[v] # "idle" /\ req[v].by = req[w].by => late'[v]
    BY <1>0 DEF RenewSession, CookieSet, TypeOK
  <2>2. ASSUME pc[v] # "idle", req[v].op \in EndOps \cup {"login"}, Kept(req[v].by)',
               req[v].by # req[w].by
        PROVE  Kept(req[v].by) /\ (crossed[req[v].by] => crossed'[req[v].by])
    <3>1. req[v].by \in Browsers
      BY <2>2, InvariantParts DEF InPlace, BrowserOps
    <3>2. /\ req'[v] = req[v] /\ overlap' = overlap
          /\ renewed'[req[v].by] = renewed[req[v].by] /\ crossed'[req[v].by] = crossed[req[v].by]
      BY <1>0, <2>2, <3>1 DEF RenewSession, Finish, TypeOK
    <3> QED
      BY <2>2, <3>2 DEF Kept
  <2> QED
    BY <2>1, <2>2
<1> QED
  BY <1>1, <1>2, <1>3, <1>4, <1>5, StepFits

LEMMA TouchProfileFits ==
    ASSUME AccountInvariant, NEW w \in Workers, TouchProfile(w)
    PROVE  AccountInvariant'
<1>0. /\ TypeOK /\ UndoneOnlyByOverlap /\ ChangeKeepsSession /\ ProfileNamesLastEditor
      /\ Fits(w) /\ InPlace(w) /\ User(w) \in Staff
  BY InvariantParts
<1>1. TypeOK'
  BY <1>0 DEF TouchProfile, Take, Goto, Rows, TypeOK
<1>2. Leaves(w)
  <2>1. \A v \in Workers \ {w} : UNCHANGED <<pc[v], req[v], loaded[v], wrote[v], dirty[v]>>
    BY <1>0 DEF TouchProfile, Goto, TypeOK
  <2>2. \/ \E kind \in Rows : Free(w, kind) /\ Take(w, kind)
        \/ UNCHANGED lock
    BY DEF TouchProfile, Rows
  <2> QED
    BY <2>1, <2>2, LeavesRows DEF TouchProfile
<1>6. TakesNothing(w)'
  BY <1>0, OtherOpsTakeNothing DEF TouchProfile, InPlace, StaffOps, EndOps
<1>3. Fits(w)'
  <2>1. pc'[w] = "touched"
    BY <1>0 DEF TouchProfile, Goto, TypeOK
  <2>2. InPlace(w)'
    BY <1>0, <2>1 DEF TouchProfile, InPlace, OwnOps, StaffOps
  <2>3. LoadedIsCommitted(w)'
    BY <1>0 DEF TouchProfile, Fits, LoadedIsCommitted, User
  <2> QED
    BY <2>1, <2>2, <2>3 DEF Fits, HoldsRow, WroteFits, StampFits
<1>4. Histories'
  BY QuietKeeps DEF TouchProfile
<1>5. LeavesCookies(w)
  <2>1. \A v \in Workers \ {w} : UNCHANGED <<req[v], late[v]>>
    BY <1>0 DEF TouchProfile, CookieStays, Finish, TypeOK
  <2>2. \A u \in Staff : overlap[u] => overlap'[u]
    BY <1>0 DEF TouchProfile, TypeOK
  <2> QED
    BY <2>1, <2>2, LeavesKept DEF TouchProfile, CookieStays
<1> QED
  BY <1>1, <1>2, <1>3, <1>4, <1>5, <1>6, StepFits

LEMMA SaveUpdatedFits ==
    ASSUME AccountInvariant, NEW w \in Workers, SaveUpdated(w)
    PROVE  AccountInvariant'
<1>0. /\ TypeOK /\ UndoneOnlyByOverlap /\ ChangeKeepsSession /\ ProfileNamesLastEditor
      /\ Fits(w) /\ InPlace(w) /\ User(w) \in Staff
  BY InvariantParts
<1>w. PICK r \in Row : /\ r = [loaded[w] EXCEPT !.active = Asked(w, loaded[w].active)]
                       /\ r.password = loaded[w].password
                       /\ r.active = Asked(w, loaded[w].active)
  <2> DEFINE r == [loaded[w] EXCEPT !.active = Asked(w, loaded[w].active)]
  <2>1. loaded[w] \in Row /\ Asked(w, loaded[w].active) \in BOOLEAN
    BY <1>0 DEF TypeOK, Row, Asked
  <2>2. r \in Row /\ r.password = loaded[w].password /\ r.active = Asked(w, loaded[w].active)
    BY <2>1 DEF Row
  <2> QED
    BY <2>2
<1>1. TypeOK'
  BY <1>0, <1>w DEF SaveUpdated, Take, Goto, Rows, TypeOK
<1>2. Leaves(w)
  <2>1. \A v \in Workers \ {w} : UNCHANGED <<pc[v], req[v], loaded[v], wrote[v], dirty[v]>>
    BY <1>0 DEF SaveUpdated, Goto, TypeOK
  <2>2. \/ \E kind \in Rows : Free(w, kind) /\ Take(w, kind)
        \/ UNCHANGED lock
    BY DEF SaveUpdated, Rows
  <2> QED
    BY <2>1, <2>2, LeavesRows DEF SaveUpdated
<1>6. TakesNothing(w)'
  BY <1>0, OtherOpsTakeNothing DEF SaveUpdated, InPlace, StaffOps, EndOps
<1>3. Fits(w)'
  <2>1. pc'[w] = "saved"
    BY <1>0 DEF SaveUpdated, Goto, TypeOK
  <2>2. InPlace(w)'
    BY <1>0, <2>1 DEF SaveUpdated, InPlace, OwnOps, StaffOps
  <2>3. LoadedIsCommitted(w)'
    BY <1>0 DEF SaveUpdated, Fits, LoadedIsCommitted, User
  <2>4. HoldsRow(w)'
    <3>1. <<"user", User(w)>> \in Rows \X Staff
      BY <1>0 DEF Rows
    <3> QED
      BY <1>0, <3>1 DEF SaveUpdated, Take, HoldsRow, User, TypeOK
  <2>5. WroteFits(w)'
    <3>1. wrote'[w].password = loaded[w].password /\ wrote'[w].active = Asked(w, loaded[w].active)
      BY <1>0, <1>w DEF SaveUpdated, TypeOK
    <3> QED
      BY <1>0, <3>1 DEF SaveUpdated, InPlace, WroteFits, Asked
  <2> QED
    BY <2>1, <2>2, <2>3, <2>4, <2>5 DEF Fits, StampFits
<1>4. Histories'
  BY QuietKeeps DEF SaveUpdated
<1>5. LeavesCookies(w)
  <2>1. \A v \in Workers \ {w} : UNCHANGED <<req[v], late[v]>>
    BY <1>0 DEF SaveUpdated, CookieStays, Finish, TypeOK
  <2>2. \A u \in Staff : overlap[u] => overlap'[u]
    BY <1>0 DEF SaveUpdated, TypeOK
  <2> QED
    BY <2>1, <2>2, LeavesKept DEF SaveUpdated, CookieStays
<1> QED
  BY <1>1, <1>2, <1>3, <1>4, <1>5, <1>6, StepFits

LEMMA SaveResetFits ==
    ASSUME AccountInvariant, NEW w \in Workers, SaveReset(w)
    PROVE  AccountInvariant'
<1>0. /\ TypeOK /\ UndoneOnlyByOverlap /\ ChangeKeepsSession /\ ProfileNamesLastEditor
      /\ Fits(w) /\ InPlace(w) /\ User(w) \in Staff
  BY InvariantParts
<1>p. NewPassword \in Passwords
  BY <1>0, AccountConstants DEF SaveReset, ResetWith, NewPassword, Passwords, TypeOK
<1>w. PICK r \in Row : /\ r = PasswordAlone(row[User(w)], loaded[w], NewPassword)
                       /\ r.active = row[User(w)].active
  <2>1. row[User(w)] \in Row
    BY <1>0 DEF TypeOK
  <2> QED
    BY <1>p, <2>1, PasswordTyped
<1>1. TypeOK'
  BY <1>0, <1>p, <1>w DEF SaveReset, ResetWith, Take, Goto, Rows, TypeOK
<1>2. Leaves(w)
  <2>1. \A v \in Workers \ {w} : UNCHANGED <<pc[v], req[v], loaded[v], wrote[v], dirty[v]>>
    BY <1>0 DEF SaveReset, ResetWith, Goto, TypeOK
  <2>2. \/ \E kind \in Rows : Free(w, kind) /\ Take(w, kind)
        \/ UNCHANGED lock
    BY DEF SaveReset, ResetWith, Take, Rows
  <2> QED
    BY <2>1, <2>2, LeavesRows DEF SaveReset, ResetWith
<1>6. TakesNothing(w)'
  BY <1>0, OtherOpsTakeNothing DEF SaveReset, ResetWith, InPlace, StaffOps, EndOps
<1>3. Fits(w)'
  <2>1. pc'[w] = "saved" /\ req[w].op = "reset"
    BY <1>0 DEF SaveReset, ResetWith, Goto, TypeOK
  <2>2. InPlace(w)'
    BY <1>0, <2>1 DEF SaveReset, ResetWith, InPlace, OwnOps, StaffOps
  <2>3. LoadedIsCommitted(w)'
    BY <1>0, <2>1 DEF SaveReset, ResetWith, LoadedIsCommitted
  <2>4. HoldsRow(w)'
    <3>1. <<"user", User(w)>> \in Rows \X Staff
      BY <1>0 DEF Rows
    <3> QED
      BY <1>0, <3>1 DEF SaveReset, ResetWith, Take, HoldsRow, User, TypeOK
  <2>5. WroteFits(w)'
    BY <1>0, <1>w, <2>1 DEF SaveReset, ResetWith, WroteFits, User, TypeOK
  <2> QED
    BY <2>1, <2>2, <2>3, <2>4, <2>5 DEF Fits, StampFits
<1>4. Histories'
  BY QuietKeeps DEF SaveReset, ResetWith
<1>5. LeavesCookies(w)
  <2>1. \A v \in Workers \ {w} : UNCHANGED <<req[v], late[v]>>
    BY <1>0 DEF SaveReset, ResetWith, CookieStays, Finish, TypeOK
  <2>2. \A u \in Staff : overlap[u] => overlap'[u]
    BY <1>0 DEF SaveReset, ResetWith, TypeOK
  <2> QED
    BY <2>1, <2>2, LeavesKept DEF SaveReset, ResetWith, CookieStays
<1> QED
  BY <1>1, <1>2, <1>3, <1>4, <1>5, <1>6, StepFits

LEMMA StampProfileFits ==
    ASSUME AccountInvariant, NEW w \in Workers, StampProfile(w)
    PROVE  AccountInvariant'
<1>0. /\ TypeOK /\ UndoneOnlyByOverlap /\ ChangeKeepsSession /\ ProfileNamesLastEditor
      /\ Fits(w) /\ InPlace(w) /\ User(w) \in Staff
  BY InvariantParts
<1>1. TypeOK'
  BY <1>0 DEF StampProfile, Take, Goto, Rows, TypeOK
<1>2. Leaves(w)
  <2>1. \A v \in Workers \ {w} : UNCHANGED <<pc[v], req[v], loaded[v], wrote[v], dirty[v]>>
    BY <1>0 DEF StampProfile, Goto, TypeOK
  <2>2. \/ \E kind \in Rows : Free(w, kind) /\ Take(w, kind)
        \/ UNCHANGED lock
    BY DEF StampProfile, Rows
  <2> QED
    BY <2>1, <2>2, LeavesRows DEF StampProfile
<1>6. TakesNothing(w)'
  BY <1>0, OtherOpsTakeNothing DEF StampProfile, InPlace, StaffOps, EndOps
<1>3. Fits(w)'
  <2>1. pc[w] = "saved" /\ pc'[w] = "stamped"
    BY <1>0 DEF StampProfile, Goto, TypeOK
  <2>2. InPlace(w)'
    BY <1>0, <2>1 DEF StampProfile, InPlace, OwnOps, StaffOps
  <2>3. LoadedIsCommitted(w)'
    BY <1>0, <2>1 DEF StampProfile, Fits, LoadedIsCommitted, User
  <2>4. HoldsRow(w)'
    <3>1. <<"user", User(w)>> \in Rows \X Staff /\ lock[<<"user", User(w)>>] = w
      BY <1>0, <2>1 DEF Rows, Fits, HoldsRow
    <3> QED
      BY <1>0, <3>1 DEF StampProfile, Take, HoldsRow, User, TypeOK
  <2>5. WroteFits(w)'
    BY <1>0, <2>1 DEF StampProfile, Fits, WroteFits, User, Asked
  <2>6. StampFits(w)'
    <3>1. CASE req[w].op = "update" \/ StampNeeded(w)
      <4>1. <<"profile", User(w)>> \in Rows \X Staff
        BY <1>0 DEF Rows
      <4> QED
        BY <1>0, <3>1, <4>1 DEF StampProfile, Take, StampFits, User, TypeOK
    <3>2. CASE ~ (req[w].op = "update" \/ StampNeeded(w))
      BY <1>0, <3>2 DEF StampProfile, StampNeeded, StampFits, User
    <3> QED
      BY <3>1, <3>2
  <2> QED
    BY <2>2, <2>3, <2>4, <2>5, <2>6 DEF Fits
<1>4. Histories'
  BY QuietKeeps DEF StampProfile
<1>5. LeavesCookies(w)
  <2>1. \A v \in Workers \ {w} : UNCHANGED <<req[v], late[v]>>
    BY <1>0 DEF StampProfile, CookieStays, Finish, TypeOK
  <2>2. \A u \in Staff : overlap[u] => overlap'[u]
    BY <1>0 DEF StampProfile, TypeOK
  <2> QED
    BY <2>1, <2>2, LeavesKept DEF StampProfile, CookieStays
<1> QED
  BY <1>1, <1>2, <1>3, <1>4, <1>5, <1>6, StepFits

LEMMA CommitStaffFits ==
    ASSUME AccountInvariant, NEW w \in Workers, CommitStaff(w)
    PROVE  AccountInvariant'
<1>0. /\ TypeOK /\ UndoneOnlyByOverlap /\ ChangeKeepsSession /\ ProfileNamesLastEditor
      /\ Fits(w) /\ InPlace(w) /\ TakesNothing(w) /\ User(w) \in Staff
  BY InvariantParts
<1> DEFINE u == User(w)
<1>a. /\ req[w].op \in StaffOps /\ req[w].by \in Superusers
      /\ lock[<<"user", u>>] = w
      /\ wrote[w] \in Row /\ row[u] \in Row /\ lastSet[u] \in Row /\ loaded[w] \in Row
  BY <1>0 DEF CommitStaff, InPlace, Fits, HoldsRow, TypeOK
<1>b. PICK s \in Row :
          /\ lastSet' = [lastSet EXCEPT ![u] = s]
          /\ req[w].op = "reset" =>
                s.password = wrote[w].password /\ s.active = lastSet[u].active
          /\ req[w].op # "reset" =>
                s.password = lastSet[u].password /\ s.active = Asked(w, lastSet[u].active)
  <2>1. CASE req[w].op = "reset"
    <3> DEFINE s == [lastSet[u] EXCEPT !.password = wrote[w].password]
    <3>1. s \in Row /\ s.password = wrote[w].password /\ s.active = lastSet[u].active
      BY <1>a DEF Row
    <3>2. lastSet' = [lastSet EXCEPT ![u] = s]
      BY <2>1 DEF CommitStaff
    <3> QED
      BY <2>1, <3>1, <3>2
  <2>2. CASE req[w].op # "reset"
    <3> DEFINE s == [lastSet[u] EXCEPT !.active = Asked(w, lastSet[u].active)]
    <3>1. Asked(w, lastSet[u].active) \in BOOLEAN
      BY <1>a DEF Asked, Row
    <3>2. s \in Row /\ s.password = lastSet[u].password /\ s.active = Asked(w, lastSet[u].active)
      BY <1>a, <3>1 DEF Row
    <3>3. lastSet' = [lastSet EXCEPT ![u] = s]
      BY <2>2 DEF CommitStaff
    <3> QED
      BY <2>2, <3>2, <3>3
  <2> QED
    BY <2>1, <2>2
<1>1. TypeOK'
  <2>1. row' \in [Staff -> Row] /\ lastSet' \in [Staff -> Row]
    BY SMTT(60), <1>0, <1>a, <1>b DEF CommitStaff, TypeOK
  <2>2. updatedBy' \in [Staff -> Superusers \cup {NoOne}]
    BY <1>0, <1>a DEF CommitStaff, TypeOK
  <2>3. renewed' \in [Browsers -> Staff \cup {NoOne}]
    BY <1>0 DEF CommitStaff, TypeOK
  <2>5. lastEditor' \in [Staff -> Superusers \cup {NoOne}]
    BY <1>0, <1>a DEF CommitStaff, TypeOK
  <2>4. dirty' \in [Workers -> BOOLEAN] /\ overlap' \in [Staff -> BOOLEAN]
    BY <1>0 DEF CommitStaff, DirtyOthers, TypeOK
  <2> QED
    BY <1>0, <2>1, <2>2, <2>3, <2>4, <2>5, FinishTyped, CookieTyped
       DEF CommitStaff, CookieStays, TypeOK
<1>2. Leaves(w)
  <2>1. \A v \in Workers \ {w} : UNCHANGED <<pc[v], req[v], loaded[v], wrote[v]>>
    BY <1>0 DEF CommitStaff, Finish, Goto, TypeOK
  <2>2. Free(w, "user")
    BY <1>a DEF Free
  <2>3. \A x \in Staff \ {User(w)} : UNCHANGED updatedBy[x]
    BY <1>0 DEF CommitStaff, TypeOK
  <2> QED
    BY <1>a, <2>1, <2>2, <2>3, LeavesOthers DEF CommitStaff
<1>3. Fits(w)' /\ TakesNothing(w)'
  BY <1>0, FinishTyped, EndedFits DEF CommitStaff
<1>c. ASSUME ~overlap'[u]
      PROVE  /\ ~overlap[u]
             /\ row[u] = lastSet[u]
             /\ req[w].op = "update" => loaded[w] = row[u]
  BY <1>0, <1>c DEF CommitStaff, UndoneOnlyByOverlap, Fits, LoadedIsCommitted, TypeOK
<1>w. /\ req[w].op = "update" => /\ wrote[w].password = loaded[w].password
                                 /\ wrote[w].active = Asked(w, loaded[w].active)
      /\ req[w].op = "reset" => wrote[w].active = row[u].active
  BY <1>0, <1>a DEF CommitStaff, Fits, WroteFits, StaffOps
<1>d. \A x \in Staff \ {u} : /\ UNCHANGED <<row[x], lastSet[x], overlap[x], updatedBy[x],
                                            lastEditor[x]>>
  BY <1>0, <1>b DEF CommitStaff, TypeOK
<1>4. Histories'
  <2>1. row'[u] = wrote[w] /\ lastSet'[u] = s
    BY <1>0, <1>b DEF CommitStaff, TypeOK
  <2>2. ASSUME ~overlap'[u] PROVE row'[u] = lastSet'[u]
    <3>1. wrote[w].password = s.password /\ wrote[w].active = s.active
      BY <1>a, <1>b, <1>c, <1>w, <2>2 DEF StaffOps
    <3> QED
      BY <1>a, <2>1, <3>1 DEF Row
  <2>3. UndoneOnlyByOverlap'
    BY <1>0, <1>d, <2>2 DEF UndoneOnlyByOverlap
  <2>4. ASSUME NEW b \in Browsers, renewed'[b] # NoOne, ~crossed[b], ~overlap'[renewed'[b]]
        PROVE  session[b] = [user |-> renewed'[b], hash |-> row'[renewed'[b]].password]
    <3>1. /\ renewed'[b] = renewed[b] /\ renewed[b] \in Staff
          /\ ~ (req[w].op = "reset" /\ renewed[b] = u)
      BY <1>0, <2>4 DEF CommitStaff, TypeOK
    <3>2. ~overlap[renewed[b]] /\ row'[renewed[b]].password = row[renewed[b]].password
      <4>1. CASE renewed[b] = u
        <5>1. req[w].op = "update" /\ ~overlap'[u]
          BY <1>a, <2>4, <3>1, <4>1 DEF StaffOps
        <5> QED
          BY <1>c, <1>w, <2>1, <4>1, <5>1
      <4>2. CASE renewed[b] # u
        BY <1>d, <2>4, <3>1, <4>2
      <4> QED
        BY <4>1, <4>2
    <3> QED
      BY <1>0, <2>4, <3>1, <3>2 DEF ChangeKeepsSession
  <2>5. ChangeKeepsSession'
    <3>1. session' = session /\ crossed' = crossed
      BY DEF CommitStaff, CookieStays
    <3> QED
      BY <2>4, <3>1 DEF ChangeKeepsSession
  <2>6. ProfileNamesLastEditor'
    <3>1. updatedBy'[u] = req[w].by /\ lastEditor'[u] = req[w].by
      <4>1. lock[<<"profile", u>>] = w \/ updatedBy[u] = req[w].by
        BY <1>0 DEF CommitStaff, Fits, StampFits
      <4> QED
        BY <1>0, <4>1 DEF CommitStaff, TypeOK
    <3> QED
      BY <1>0, <1>d, <3>1 DEF ProfileNamesLastEditor
  <2> QED
    BY <2>3, <2>5, <2>6 DEF Histories
<1>5. LeavesCookies(w)
  <2>1. \A v \in Workers \ {w} : UNCHANGED <<req[v], late[v]>>
    BY <1>0 DEF CommitStaff, CookieStays, Finish, TypeOK
  <2>2. \A x \in Staff : overlap[x] => overlap'[x]
    BY <1>0 DEF CommitStaff, TypeOK
  <2>3. \A b \in Browsers : renewed'[b] \in {renewed[b], NoOne}
    BY DEF CommitStaff
  <2> QED
    BY <2>1, <2>2, <2>3, LeavesKept DEF CommitStaff, CookieStays
<1> QED
  BY <1>1, <1>2, <1>3, <1>4, <1>5, StepFits

\* The requests that end the session they come with.
LEMMA EndSessionTyped ==
    ASSUME TypeOK, NEW b \in Browsers, EndSession(b)
    PROVE  /\ session' \in [Browsers -> [user : Staff,
                                         hash : Passwords \cup {0}] \cup {NoSession}]
           /\ \A c \in Browsers \ {b} : session'[c] = session[c]
<1>1. CASE session[b] = NoSession
  BY <1>1 DEF EndSession, TypeOK
<1>2. CASE session[b] # NoSession
  <2>1. session[b] \in [user : Staff, hash : Passwords \cup {0}]
    BY <1>2 DEF TypeOK
  <2> DEFINE t == [session[b] EXCEPT !.hash = 0]
  <2>2. t \in [user : Staff, hash : Passwords \cup {0}]
    BY <2>1
  <2>3. session' = [session EXCEPT ![b] = t]
    BY <1>2 DEF EndSession
  <2> HIDE DEF t
  <2> QED
    BY <2>2, <2>3 DEF TypeOK
<1> QED
  BY <1>1, <1>2

LEMMA SessionEnds ==
    ASSUME AccountInvariant, NEW w \in Workers,
           ReceiveLogin(w) \/ ReceiveLogout(w) \/ ReceiveRefused(w)
    PROVE  AccountInvariant'
<1> DEFINE Ask(op, u, b) == [NoRequest EXCEPT !.op = op, !.user = u, !.by = b]
<1>0. TypeOK /\ ChangeKeepsSession
  BY InvariantParts
<1>a. \A op \in {"login", "logout", "refused"}, u \in Staff, b \in Browsers :
          /\ Ask(op, u, b) \in Request
          /\ Ask(op, u, b).op = op /\ Ask(op, u, b).by = b
  BY DefaultsTyped DEF NoRequest, Request, AllOps, EndOps
<1> HIDE DEF Ask
<1>b. ASSUME NEW op \in {"login", "logout", "refused"}, NEW u \in Staff, NEW b \in Browsers,
             NEW r \in Row, Arrive(w, Ask(op, u, b), r),
             EndSession(b) \/ UNCHANGED session,
             Forget(b) \/ (UNCHANGED renewed /\ (Kept(b) => crossed[b]))
      PROVE  AccountInvariant'
  <2> DEFINE q == Ask(op, u, b)
  <2>1. q \in Request /\ q.op = op /\ q.by = b
    BY <1>a
  <2> HIDE DEF q
  <2>2. /\ session' \in [Browsers -> [user : Staff, hash : Passwords \cup {0}] \cup {NoSession}]
        /\ \A c \in Browsers \ {b} : session'[c] = session[c]
    BY <1>0, <1>b, EndSessionTyped DEF TypeOK
  <2>3. /\ renewed' \in [Browsers -> Staff \cup {NoOne}]
        /\ \A c \in Browsers : renewed'[c] \in {renewed[c], NoOne}
        /\ UNCHANGED <<overlap, crossed>>
    BY <1>0, <1>b DEF Forget, Arrive, TypeOK
  <2>4. Kept(b)' => crossed[b]
    BY <1>0, <1>b, <2>3 DEF Forget, Kept, TypeOK
  <2>5. \A c \in Browsers : Kept(c)' /\ ~crossed[c] => session'[c] = session[c]
    BY <2>2, <2>4
  <2>6. Arrive(w, q, r)
    BY <1>b DEF q
  <2>7. q.op \in BrowserOps /\ q.op \notin StaffOps /\ q.op \notin {"profile", "update"}
    BY <2>1 DEF BrowserOps, EndOps, StaffOps
  <2> QED
    BY <2>1, <2>2, <2>3, <2>4, <2>5, <2>6, <2>7, ArriveFits
<1>1. CASE ReceiveLogin(w)
  <2>1. PICK b \in Browsers, u \in Staff :
            /\ Arrive(w, Ask("login", u, b), row[u])
            /\ EndSession(b) \/ UNCHANGED session
            /\ Forget(b)
    BY <1>1 DEF ReceiveLogin, Ask
  <2>2. row[u] \in Row
    BY <1>0 DEF TypeOK
  <2> QED
    BY <1>b, <2>1, <2>2
<1>2. CASE ReceiveLogout(w)
  <2>1. PICK b \in Browsers :
            /\ session[b] # NoSession
            /\ Arrive(w, Ask("logout", session[b].user, b), FirstRow)
            /\ EndSession(b)
            /\ Forget(b)
    BY <1>2 DEF ReceiveLogout, Ask
  <2>2. session[b].user \in Staff
    BY <1>0, <2>1 DEF TypeOK
  <2> QED
    BY <1>b, <2>1, <2>2, DefaultsTyped
<1>3. CASE ReceiveRefused(w)
  <2>1. PICK b \in Browsers :
            /\ session[b] # NoSession
            /\ session[b].hash = 0 \/ (row[session[b].user].active /\ ~Authentic(b))
            /\ Arrive(w, Ask("refused", session[b].user, b), FirstRow)
            /\ EndSession(b)
            /\ UNCHANGED renewed
    BY <1>3 DEF ReceiveRefused, Ask
  <2>2. session[b].user \in Staff
    BY <1>0, <2>1 DEF TypeOK
  <2>3. Kept(b) => crossed[b]
    <3>1. SUFFICES ASSUME Kept(b), ~crossed[b] PROVE FALSE
      OBVIOUS
    <3> DEFINE u == renewed[b]
    <3>2. u \in Staff /\ session[b] = [user |-> u, hash |-> row[u].password]
      BY <1>0, <3>1 DEF Kept, ChangeKeepsSession, TypeOK
    <3>3. row[u].password \in Nat \ {0}
      BY <1>0, <3>2, AccountConstants DEF TypeOK, Row, Passwords
    <3> QED
      BY <2>1, <3>2, <3>3 DEF Authentic
  <2> QED
    BY <1>b, <2>1, <2>2, <2>3, DefaultsTyped
<1> QED
  BY <1>1, <1>2, <1>3

LEMMA ReceiveFits ==
    ASSUME AccountInvariant, NEW w \in Workers, Receive(w)
    PROVE  AccountInvariant'
<1>0. TypeOK
  BY InvariantParts
<1>1. CASE ReceiveLogin(w) \/ ReceiveLogout(w) \/ ReceiveRefused(w)
  BY <1>1, SessionEnds
<1> USE DEF NoRequest, Request, AllOps, OwnOps, StaffOps, EndOps
<1>2. CASE ReceiveOwn(w)
  <2>1. PICK b \in Browsers, op \in OwnOps :
            /\ Authentic(b)
            /\ Begin(w, [NoRequest EXCEPT !.op = op, !.user = session[b].user, !.by = b],
                     row[session[b].user])
    BY <1>2 DEF ReceiveOwn
  <2>2. PICK u \in Staff : u = session[b].user
    BY <1>0, <2>1 DEF Authentic, TypeOK
  <2>3. row[u] \in Row
    BY <1>0 DEF TypeOK
  <2> QED
    BY <2>1, <2>2, <2>3, BeginFits
<1>3. CASE ReceiveIssue(w)
  <2>1. PICK u \in Staff : Begin(w, [NoRequest EXCEPT !.op = "issue", !.user = u], FirstRow)
    BY <1>3 DEF ReceiveIssue
  <2> QED
    BY <2>1, DefaultsTyped, BeginFits
<1>4. CASE ReceiveStaff(w)
  <2>1. PICK a \in Superusers, u \in Staff, active \in {"keep", "on", "off"} :
            \/ Begin(w, [op |-> "update", user |-> u, by |-> a, active |-> active], row[u])
            \/ Begin(w, [NoRequest EXCEPT !.op = "reset", !.user = u, !.by = a], row[u])
    BY <1>4 DEF ReceiveStaff
  <2>2. row[u] \in Row
    BY <1>0 DEF TypeOK
  <2> QED
    BY <2>1, <2>2, BeginFits
<1> QED
  BY <1>1, <1>2, <1>3, <1>4 DEF Receive

LEMMA NextFits ==
    ASSUME AccountInvariant, [Next]_vars
    PROVE  AccountInvariant'
<1>1. CASE \E w \in Workers : Receive(w)
  BY <1>1, ReceiveFits
<1>2. CASE \E w \in Workers : Proceed(w)
  BY <1>2, StoreSessionFits, DeleteCookieFits, SaveProfileFits, SaveIssuedFits,
     SaveChangedFits, RenewSessionFits,
     TouchProfileFits, SaveUpdatedFits, SaveResetFits, StampProfileFits, CommitStaffFits,
     RolledBackFits DEF Proceed, BreakDeadlock, OutOfPasswords
<1>3. CASE \E w \in Workers : Abort(w)
  BY <1>3, RolledBackFits DEF Abort
<1>5. CASE UNCHANGED vars
  <2> USE <1>5 DEF vars
  <2>0. TypeOK /\ \A w \in Workers : Fits(w) /\ TakesNothing(w)
    BY InvariantParts
  <2>1. TypeOK'
    BY <2>0 DEF TypeOK
  <2>2. \A w \in Workers : Fits(w)' /\ TakesNothing(w)'
    BY <2>0 DEF Fits, InPlace, HoldsRow, LoadedIsCommitted, WroteFits, StampFits, TakesNothing,
       Kept, User, Asked
  <2>3. Histories'
    BY QuietKeeps
  <2> QED
    BY <2>1, <2>2, <2>3 DEF AccountInvariant
<1> QED
  BY <1>1, <1>2, <1>3, <1>5 DEF Next

-----------------------------------------------------------------------------
(* The theorems.                                                           *)

\* The inductive invariant that the theorems below rest on.
THEOREM AccountInvariantHolds == Spec => []AccountInvariant
<1>1. Init => AccountInvariant
  BY InitFits
<1>2. AccountInvariant /\ [Next]_vars => AccountInvariant'
  BY NextFits
<1> QED
  BY <1>1, <1>2, PTL DEF Spec

\* Accounts, sessions and requests keep their types; a password is one that was chosen.
THEOREM AccountTypes == Spec => []TypeOK
<1>1. AccountInvariant => TypeOK
  BY DEF AccountInvariant
<1> QED
  BY AccountInvariantHolds, <1>1, PTL

(* However many requests are in flight, a password that was set or an account that *)
(* was deactivated is undone only by a whole-row save of a row loaded before.      *)
THEOREM OnlyOverlapUndoes == Spec => []UndoneOnlyByOverlap
<1>1. AccountInvariant => UndoneOnlyByOverlap
  BY DEF AccountInvariant, Histories
<1> QED
  BY AccountInvariantHolds, <1>1, PTL

(* However answers overtake each other, a browser that changed its password keeps a *)
(* session with the new one until it logs in or out or someone sets another, unless *)
(* the answer of a request sent before another answer came, or a whole-row save,    *)
(* takes it.                                                                        *)
THEOREM ChangeKeepsItsSession == Spec => []ChangeKeepsSession
<1>1. AccountInvariant => ChangeKeepsSession
  BY DEF AccountInvariant, Histories
<1> QED
  BY AccountInvariantHolds, <1>1, PTL

(* Whoever else updates or resets the account meanwhile, its profile names the     *)
(* superuser whose request was committed last.                                     *)
THEOREM LastEditorIsNamed == Spec => []ProfileNamesLastEditor
<1>1. AccountInvariant => ProfileNamesLastEditor
  BY DEF AccountInvariant, Histories
<1> QED
  BY AccountInvariantHolds, <1>1, PTL

=============================================================================
