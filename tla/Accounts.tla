------------------------------ MODULE Accounts ------------------------------
(***************************************************************************)
(* The admin accounts of apps/backend/api: the row of each staff user, the *)
(* profile row beside it, the sessions of the browsers, and the requests   *)
(* that write them.                                                        *)
(*                                                                         *)
(* A request loads the user row when it is authenticated, or in get_object,*)
(* and saves it later: a profile update and a staff update save every      *)
(* column they loaded, the password operations save the password alone.    *)
(* The staff views run in a database transaction, the others save in       *)
(* autocommit mode. The cookie of a browser changes when an answer reaches *)
(* it: answers of requests in flight together may come in any order.       *)
(***************************************************************************)
EXTENDS Integers

CONSTANTS
    Workers,        \* server processes
    Staff,          \* user rows
    Superusers,     \* who may use the staff views
    Browsers,       \* each with the session its cookie names
    NoOne,          \* no worker, no user, no browser
    MaxPasswords    \* bound: passwords chosen, handed out in order

ASSUME AccountConstants ==
    /\ MaxPasswords \in Nat \ {0}
    /\ NoOne \notin Workers \cup Staff \cup Superusers \cup Browsers
    /\ Staff # {}

Passwords == 1..MaxPasswords
Row       == [password : Passwords, active : BOOLEAN]
Rows      == {"user", "profile"}

OwnOps   == {"profile", "change"}
StaffOps == {"update", "reset"}
\* Requests that end the session they come with.
EndOps   == {"logout", "refused"}
AllOps   == OwnOps \cup StaffOps \cup EndOps \cup {"login", "issue"}

\* active: what a staff update asks of is_active, if anything.
Request == [op : AllOps, user : Staff, by : Browsers \cup Superusers \cup {NoOne},
            active : {"keep", "on", "off"}]

VARIABLES
    row,        \* committed user rows
    updatedBy,  \* staff_profile.updated_by
    session,    \* per browser: whose session its cookie names, made with which
                \* password; 0 when the server has ended it
    chosen,     \* how many passwords were chosen
    lock,       \* who holds the lock of each user row and profile row
    pc, req,    \* how far each worker is in which request
    loaded,     \* the row it loaded
    wrote,      \* the row it wrote and has not committed
    lastSet,    \* history: password and is_active as last asked for
    renewed,    \* history, per browser: whose password it changed last, when that
                \* password is still the last one set
    late,       \* history: an answer changed the cookie after this request was sent
    crossed,    \* history, per browser: such a late answer came since that change's
    lastEditor, \* history: the superuser of the last staff request on an account
    dirty,      \* history: a commit on its user came after it loaded the row
    overlap     \* history: a whole row or a session was saved from such a load

vars == <<row, updatedBy, session, chosen, lock, pc, req, loaded, wrote,
          lastSet, renewed, late, crossed, lastEditor, dirty, overlap>>

SomeUser  == CHOOSE u \in Staff : TRUE
NoRequest == [op |-> "login", user |-> SomeUser, by |-> NoOne, active |-> "keep"]
FirstRow  == [password |-> 1, active |-> TRUE]
NoSession == [user |-> NoOne, hash |-> 0]

Init ==
    /\ row = [u \in Staff |-> FirstRow]
    /\ updatedBy = [u \in Staff |-> NoOne]
    /\ session = [b \in Browsers |-> NoSession]
    /\ chosen = 1
    /\ lock = [k \in Rows \X Staff |-> NoOne]
    /\ pc = [w \in Workers |-> "idle"]
    /\ req = [w \in Workers |-> NoRequest]
    /\ loaded = [w \in Workers |-> FirstRow]
    /\ wrote = [w \in Workers |-> FirstRow]
    /\ lastSet = row
    /\ renewed = [b \in Browsers |-> NoOne]
    /\ late = [w \in Workers |-> FALSE]
    /\ crossed = [b \in Browsers |-> FALSE]
    /\ lastEditor = [u \in Staff |-> NoOne]
    /\ dirty = [w \in Workers |-> FALSE]
    /\ overlap = [u \in Staff |-> FALSE]

-----------------------------------------------------------------------------
(* Steps every request shares.                                             *)

User(w) == req[w].user

Goto(w, place) == pc' = [pc EXCEPT ![w] = place]

\* A request arrives and loads the user row it is about, or its key alone.
Arrive(w, q, r) ==
    /\ pc[w] = "idle"
    /\ Goto(w, "loaded")
    /\ req' = [req EXCEPT ![w] = q]
    /\ loaded' = [loaded EXCEPT ![w] = r]
    /\ UNCHANGED <<row, updatedBy, chosen, lock, wrote, lastSet, late, crossed, lastEditor,
                   dirty, overlap>>

Begin(w, q, r) == Arrive(w, q, r) /\ UNCHANGED <<session, renewed>>

Finish(w) ==
    /\ Goto(w, "idle")
    /\ req' = [req EXCEPT ![w] = NoRequest]
    /\ loaded' = [loaded EXCEPT ![w] = FirstRow]
    /\ wrote' = [wrote EXCEPT ![w] = FirstRow]
    /\ lock' = [k \in Rows \X Staff |-> IF lock[k] = w THEN NoOne ELSE lock[k]]

\* The answer of w's request leaves the cookie of the browser alone.
CookieStays(w) ==
    /\ late' = [late EXCEPT ![w] = FALSE]
    /\ UNCHANGED <<session, crossed>>

\* The answer of w's request reaches its browser and sets the cookie to that of s.
CookieSet(w, s) ==
    /\ session' = [session EXCEPT ![req[w].by] = s]
    /\ late' = [v \in Workers |->
                   v # w /\ (late[v] \/ (pc[v] # "idle" /\ req[v].by = req[w].by))]

MayCross(w) == crossed' = [crossed EXCEPT ![req[w].by] = @ \/ late[w]]

\* Every other request that will save what it loaded of user u holds a row older
\* than u's last commit.
DirtyOthers(w, u) ==
    LET holders == {v \in Workers : /\ pc[v] # "idle" /\ User(v) = u
                                    /\ req[v].op \in {"profile", "update", "login"}}
    IN  dirty' = [v \in Workers |-> v # w /\ (dirty[v] \/ v \in holders)]

Free(w, kind) == lock[<<kind, User(w)>>] \in {NoOne, w}

\* The key of the row w's next statement locks; <<>> when it locks none.
Wanted(w) ==
    CASE pc[w] = "loaded" /\ req[w].op = "update" -> <<"profile", User(w)>>
      [] pc[w] = "loaded" /\ req[w].op \in {"profile", "change", "issue", "reset"}
            -> <<"user", User(w)>>
      [] pc[w] = "touched" -> <<"user", User(w)>>
      [] pc[w] = "saved" -> <<"profile", User(w)>>
      [] OTHER -> <<>>

NewPassword == chosen + 1

-----------------------------------------------------------------------------
(* Sessions: login, logout and the authentication of a request.            *)

\* The session carries a hash of the password of the row that was loaded.
SessionOf(w) == [user |-> User(w), hash |-> loaded[w].password]

\* The server deletes the session that b's cookie names.
EndSession(b) ==
    session' = IF session[b] = NoSession THEN session ELSE [session EXCEPT ![b].hash = 0]

Forget(b) == renewed' = [renewed EXCEPT ![b] = NoOne]

\* admin_login: authenticate() reads the row and accepts the password typed; login()
\* ends the session of the cookie unless it is of that user and password already.
ReceiveLogin(w) ==
    \E b \in Browsers, u \in Staff :
        /\ row[u].active
        /\ Arrive(w, [NoRequest EXCEPT !.op = "login", !.user = u, !.by = b], row[u])
        /\ IF session[b] = [user |-> u, hash |-> row[u].password]
           THEN UNCHANGED session ELSE EndSession(b)
        /\ Forget(b)

StoreSession(w) ==
    /\ pc[w] = "loaded" /\ req[w].op = "login"
    /\ CookieSet(w, SessionOf(w))
    /\ MayCross(w)
    /\ overlap' = [overlap EXCEPT ![User(w)] = @ \/ dirty[w]]
    /\ dirty' = [dirty EXCEPT ![w] = FALSE]
    /\ Finish(w)
    /\ UNCHANGED <<row, updatedBy, chosen, lastSet, renewed, lastEditor>>

Authentic(b) ==
    /\ session[b] # NoSession
    /\ row[session[b].user].active
    /\ session[b].hash = row[session[b].user].password

\* admin_logout: the session is flushed, the cookie deleted by the answer.
ReceiveLogout(w) ==
    \E b \in Browsers :
        /\ session[b] # NoSession
        /\ Arrive(w, [NoRequest EXCEPT !.op = "logout", !.user = session[b].user, !.by = b],
                  FirstRow)
        /\ EndSession(b)
        /\ Forget(b)

\* A request whose cookie names no session, or one whose password is no longer the
\* user's: get_user() flushes that one, and the answer deletes the cookie.
ReceiveRefused(w) ==
    \E b \in Browsers :
        /\ session[b] # NoSession
        /\ session[b].hash = 0 \/ (row[session[b].user].active /\ ~Authentic(b))
        /\ Arrive(w, [NoRequest EXCEPT !.op = "refused", !.user = session[b].user, !.by = b],
                  FirstRow)
        /\ EndSession(b)
        /\ UNCHANGED renewed

DeleteCookie(w) ==
    /\ pc[w] = "loaded" /\ req[w].op \in EndOps
    /\ CookieSet(w, NoSession)
    /\ MayCross(w)
    /\ dirty' = [dirty EXCEPT ![w] = FALSE]
    /\ Finish(w)
    /\ UNCHANGED <<row, updatedBy, chosen, lastSet, renewed, lastEditor, overlap>>

ReceiveOwn(w) ==
    \E b \in Browsers, op \in OwnOps :
        /\ Authentic(b)
        /\ Begin(w, [NoRequest EXCEPT !.op = op, !.user = session[b].user, !.by = b],
                 row[session[b].user])

-----------------------------------------------------------------------------
(* PATCH /me, POST /change-password and issue_temporary_password: one      *)
(* UPDATE each, committed at once.                                         *)

\* AdminProfileUpdateSerializer.update: instance.save() writes every column.
SaveProfile(w) ==
    /\ pc[w] = "loaded" /\ req[w].op = "profile"
    /\ Free(w, "user")
    /\ row' = [row EXCEPT ![User(w)] = loaded[w]]
    /\ overlap' = [overlap EXCEPT ![User(w)] = @ \/ dirty[w]]
    /\ DirtyOthers(w, User(w))
    /\ Finish(w)
    /\ CookieStays(w)
    /\ UNCHANGED <<updatedBy, chosen, lastSet, renewed, lastEditor>>

ReceiveIssue(w) ==
    \E u \in Staff : Begin(w, [NoRequest EXCEPT !.op = "issue", !.user = u], FirstRow)

PasswordUnusable(r, l, p) == [r EXCEPT !.password = 0]
WholeRow(r, l, p) == [l EXCEPT !.password = p]
\* save(update_fields=["password"]) on row r by a request that loaded row l.
PasswordAlone(r, l, p) == [r EXCEPT !.password = p]

SetPassword(w) ==
    /\ chosen < MaxPasswords
    /\ chosen' = NewPassword
    /\ row' = [row EXCEPT ![User(w)] = PasswordAlone(@, loaded[w], NewPassword)]
    /\ lastSet' = [lastSet EXCEPT ![User(w)].password = NewPassword]
    /\ renewed' = [b \in Browsers |-> IF renewed[b] = User(w) THEN NoOne ELSE renewed[b]]
    /\ DirtyOthers(w, User(w))

\* The command has loaded the key alone.
SaveIssued(w) ==
    /\ pc[w] = "loaded" /\ req[w].op = "issue"
    /\ Free(w, "user")
    /\ SetPassword(w)
    /\ Finish(w)
    /\ CookieStays(w)
    /\ UNCHANGED <<updatedBy, lastEditor, overlap>>

\* AdminChangePasswordSerializer.save, once the current password was accepted.
SaveChanged(w) ==
    /\ pc[w] = "loaded" /\ req[w].op = "change"
    /\ Free(w, "user")
    /\ SetPassword(w)
    /\ loaded' = [loaded EXCEPT ![w].password = NewPassword]
    /\ Goto(w, "answering")
    /\ UNCHANGED <<updatedBy, session, lock, req, wrote, late, crossed, lastEditor, overlap>>

SessionKept(w) == session[req[w].by]
SessionRenewed(w) == SessionOf(w)

\* update_session_auth_hash: a new session for the browser, whatever became of the one
\* the request came with, in the cookie once the request is answered.
RenewSession(w) ==
    /\ pc[w] = "answering"
    /\ CookieSet(w, SessionRenewed(w))
    /\ crossed' = [crossed EXCEPT ![req[w].by] = FALSE]
    /\ renewed' = [renewed EXCEPT ![req[w].by] =
                      IF lastSet[User(w)].password = loaded[w].password THEN User(w) ELSE NoOne]
    /\ dirty' = [dirty EXCEPT ![w] = FALSE]
    /\ Finish(w)
    /\ UNCHANGED <<row, updatedBy, chosen, lastSet, lastEditor, overlap>>

-----------------------------------------------------------------------------
(* The staff views of a superuser, each in one database transaction.       *)

ReceiveStaff(w) ==
    \E a \in Superusers, u \in Staff, active \in {"keep", "on", "off"} :
        \/ Begin(w, [op |-> "update", user |-> u, by |-> a, active |-> active],
                 row[u])
        \/ Begin(w, [NoRequest EXCEPT !.op = "reset", !.user = u, !.by = a], row[u])

\* ensure_staff_profile writes the profile row only when it names someone else.
StampNeeded(w) == updatedBy[User(w)] # req[w].by

Take(w, kind) == lock' = [lock EXCEPT ![<<kind, User(w)>>] = w]

\* update: ensure_staff_profile, and the telephone number when the form has one.
TouchProfile(w) ==
    /\ pc[w] = "loaded" /\ req[w].op = "update"
    /\ \/ Free(w, "profile") /\ Take(w, "profile")
       \/ ~StampNeeded(w) /\ UNCHANGED lock
    /\ Goto(w, "touched")
    /\ UNCHANGED <<row, updatedBy, session, chosen, req, loaded, wrote, lastSet, renewed,
                   late, crossed, lastEditor, dirty, overlap>>

Asked(w, isActive) ==
    IF req[w].active = "keep" THEN isActive ELSE req[w].active = "on"

\* update: instance.save() writes every column of the row it loaded.
SaveUpdated(w) ==
    /\ pc[w] = "touched"
    /\ Free(w, "user")
    /\ Take(w, "user")
    /\ wrote' = [wrote EXCEPT ![w] = [loaded[w] EXCEPT !.active = Asked(w, @)]]
    /\ Goto(w, "saved")
    /\ UNCHANGED <<row, updatedBy, session, chosen, req, loaded, lastSet, renewed, late,
                   crossed, lastEditor, dirty, overlap>>

\* reset_temp_password: save(update_fields=["password"]), with the locks in held.
ResetWith(w, held) ==
    /\ pc[w] = "loaded" /\ req[w].op = "reset"
    /\ Free(w, "user")
    /\ lock' = held
    /\ chosen < MaxPasswords
    /\ chosen' = NewPassword
    /\ wrote' = [wrote EXCEPT ![w] = PasswordAlone(row[User(w)], loaded[w], NewPassword)]
    /\ Goto(w, "saved")
    /\ UNCHANGED <<row, updatedBy, session, req, loaded, lastSet, renewed, late, crossed,
                   lastEditor, dirty, overlap>>

SaveResetUnlocked(w) == ResetWith(w, lock)
SaveReset(w) == ResetWith(w, [lock EXCEPT ![<<"user", User(w)>>] = w])

\* update stamps the profile whatever it says; ensure_staff_profile only a change.
StampProfile(w) ==
    /\ pc[w] = "saved"
    /\ IF req[w].op = "update" \/ StampNeeded(w)
       THEN Free(w, "profile") /\ Take(w, "profile")
       ELSE UNCHANGED lock
    /\ Goto(w, "stamped")
    /\ UNCHANGED <<row, updatedBy, session, chosen, req, loaded, wrote, lastSet, renewed,
                   late, crossed, lastEditor, dirty, overlap>>

CommitStaff(w) ==
    LET u == User(w) IN
    /\ pc[w] = "stamped"
    /\ row' = [row EXCEPT ![u] = wrote[w]]
    /\ updatedBy' = IF lock[<<"profile", u>>] = w THEN [updatedBy EXCEPT ![u] = req[w].by]
                                                  ELSE updatedBy
    /\ lastSet' = [lastSet EXCEPT ![u] =
                     IF req[w].op = "reset" THEN [@ EXCEPT !.password = wrote[w].password]
                     ELSE [@ EXCEPT !.active = Asked(w, lastSet[u].active)]]
    /\ renewed' = [b \in Browsers |->
                      IF req[w].op = "reset" /\ renewed[b] = u THEN NoOne ELSE renewed[b]]
    /\ lastEditor' = [lastEditor EXCEPT ![u] = req[w].by]
    /\ overlap' = [overlap EXCEPT ![u] = @ \/ (req[w].op = "update" /\ dirty[w])]
    /\ DirtyOthers(w, u)
    /\ Finish(w)
    /\ CookieStays(w)
    /\ UNCHANGED chosen

-----------------------------------------------------------------------------
(* Failures.                                                               *)

RolledBack(w) ==
    /\ Finish(w)
    /\ dirty' = [dirty EXCEPT ![w] = FALSE]
    /\ CookieStays(w)
    /\ UNCHANGED <<row, updatedBy, chosen, lastSet, renewed, lastEditor, overlap>>

\* A refused input, a wrong password, a failed statement or a crash.
Abort(w) == pc[w] # "idle" /\ RolledBack(w)

WaitsFor(v, w) ==
    /\ v # w /\ Wanted(v) # <<>>
    /\ lock[Wanted(v)] = w

\* PostgreSQL ends one of the transactions that wait for each other.
Deadlocked(w) == \E v \in Workers : WaitsFor(v, w) /\ WaitsFor(w, v)

BreakDeadlock(w) == Deadlocked(w) /\ RolledBack(w)

\* The bound MaxPasswords: a request that would need one more is given up.
OutOfPasswords(w) ==
    /\ pc[w] = "loaded" /\ req[w].op \in {"reset", "issue", "change"}
    /\ chosen = MaxPasswords
    /\ RolledBack(w)

-----------------------------------------------------------------------------
Receive(w) ==
    \/ ReceiveLogin(w) \/ ReceiveLogout(w) \/ ReceiveRefused(w) \/ ReceiveOwn(w)
    \/ ReceiveIssue(w) \/ ReceiveStaff(w)

Proceed(w) ==
    \/ StoreSession(w) \/ DeleteCookie(w) \/ SaveProfile(w) \/ SaveIssued(w) \/ SaveChanged(w)
    \/ RenewSession(w) \/ TouchProfile(w) \/ SaveUpdated(w) \/ SaveReset(w)
    \/ StampProfile(w) \/ CommitStaff(w) \/ BreakDeadlock(w) \/ OutOfPasswords(w)

Next == \E w \in Workers : Receive(w) \/ Proceed(w) \/ Abort(w)

Spec == Init /\ [][Next]_vars

-----------------------------------------------------------------------------
(* Correctness.                                                            *)

TypeOK ==
    /\ row \in [Staff -> Row]
    /\ updatedBy \in [Staff -> Superusers \cup {NoOne}]
    /\ session \in [Browsers -> [user : Staff, hash : Passwords \cup {0}] \cup {NoSession}]
    /\ chosen \in Passwords
    /\ lock \in [Rows \X Staff -> Workers \cup {NoOne}]
    /\ pc \in [Workers -> {"idle", "loaded", "touched", "saved", "stamped", "answering"}]
    /\ req \in [Workers -> Request]
    /\ loaded \in [Workers -> Row]
    /\ wrote \in [Workers -> Row]
    /\ lastSet \in [Staff -> Row]
    /\ renewed \in [Browsers -> Staff \cup {NoOne}]
    /\ late \in [Workers -> BOOLEAN]
    /\ crossed \in [Browsers -> BOOLEAN]
    /\ lastEditor \in [Staff -> Superusers \cup {NoOne}]
    /\ dirty \in [Workers -> BOOLEAN]
    /\ overlap \in [Staff -> BOOLEAN]

(* A password set or an account deactivated stays so until someone asks otherwise: *)
(* only a whole-row save from a row loaded before the commit undoes it.            *)
UndoneOnlyByOverlap == \A u \in Staff : ~overlap[u] => row[u] = lastSet[u]

(* A browser that changed its password is logged in with the new one until the     *)
(* browser itself logs in or out, or someone sets another password: only the answer *)
(* of a request it had sent before an earlier answer came (a refusal that deletes   *)
(* the cookie, an older login or change) takes that session from it.                *)
ChangeKeepsSession ==
    \A b \in Browsers : renewed[b] # NoOne /\ ~crossed[b] /\ ~overlap[renewed[b]] =>
        session[b] = [user |-> renewed[b], hash |-> row[renewed[b]].password]

(* An account names the superuser who touched it last, an update or a reset: a     *)
(* reset that finds its own name there writes none, and is right because it holds  *)
(* the user row, under which every other one commits its name.                     *)
ProfileNamesLastEditor == \A u \in Staff : updatedBy[u] = lastEditor[u]

=============================================================================
