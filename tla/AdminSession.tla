----------------------------- MODULE AdminSession -----------------------------
(***************************************************************************)
(* Who is signed in, as one browser tab of apps/frontend-admin and the     *)
(* server see it.  AdminAuthProvider keeps the user, the API client a CSRF *)
(* token, the browser the cookies.  Bootstrap, login, logout, a profile    *)
(* save and a password change are procedures, each a chain of requests     *)
(* whose answers come in any order, late or never.                         *)
(***************************************************************************)
EXTENDS Integers, FiniteSets

CONSTANTS
    Accounts,       \* staff accounts
    Supers,         \* the superusers among them
    Nobody,         \* no account
    NoToken,        \* cachedCsrfToken = null
    MaxSessions,    \* bound: sessions opened
    MaxCalls        \* bound: procedures under way at a time

Sessions == 1..MaxSessions
Procedures == {"bootstrap", "login", "logout", "save", "password"}
Pages == {"login", "home", "profile", "password", "history"}

VARIABLES
    owner,          \* server: whose each session is; Nobody: not open
    opened,         \* server: sessions opened so far
    cookies,        \* browser: the session (0: none) and the CSRF secret, named after
                    \* the session whose login made it
    user, isLoading, \* AdminAuthProvider
    token,          \* cachedCsrfToken: the secret it was made of
    page,           \* the route
    calls,          \* the request each procedure waits for
    doubtful,       \* history: since the tab last heard of its session, that ended on its
                    \* own, or a request about it was lost, refused or overtaken by
                    \* another login, logout or password change
    signedOut       \* history: signed out since the last login, with an answer

serverVars == <<owner, opened>>
authVars == <<user, isLoading, token>>
historyVars == <<doubtful, signedOut>>
vars == <<serverVars, cookies, authVars, page, calls, historyVars>>

Cookies == [session : 0..MaxSessions, secret : 0..MaxSessions]
Tokens == {NoToken} \cup 0..MaxSessions
\* "lost": no answer within the client's ten seconds.
Answer == [status : {"awaited", "ok", "unauthorized", "forbidden", "lost"},
           account : Accounts \cup {Nobody}, session : 0..MaxSessions]
Call == [request : {"csrf", "me", "login", "logout", "patch", "password"},
         sent : Cookies, tokenFits : BOOLEAN, answer : Answer, overtaken : BOOLEAN]
Idle == [request |-> "none"]
Awaited == [status |-> "awaited", account |-> Nobody, session |-> 0]

Busy(p) == calls[p] # Idle
MayStart(p) == ~Busy(p) /\ Cardinality({q \in Procedures : Busy(q)}) < MaxCalls
Quiet == ~isLoading /\ \A p \in Procedures : ~Busy(p)
OwnerOf(s) == IF s = 0 THEN Nobody ELSE owner[s]

\* executeRequest: the browser adds its cookies, applyCsrfHeader the cached token.  Of
\* these the record has what the view looks at.
Request(name, jar, t) ==
    [request |-> name,
     sent |-> IF name = "csrf" THEN [jar EXCEPT !.session = 0] ELSE [jar EXCEPT !.secret = 0],
     tokenFits |-> name \in {"csrf", "me", "login"} \/ t = jar.secret,
     answer |-> Awaited, overtaken |-> FALSE]

NoCookies == [session |-> 0, secret |-> 0]

Init ==
    /\ owner = [s \in Sessions |-> Nobody] /\ opened = 0
    /\ cookies = NoCookies
    /\ user = Nobody /\ isLoading = TRUE /\ token = NoToken
    /\ page \in Pages
    /\ calls = [p \in Procedures |->
                  IF p = "bootstrap" THEN Request("csrf", NoCookies, NoToken) ELSE Idle]
    /\ doubtful = FALSE /\ signedOut = FALSE

-----------------------------------------------------------------------------
(* The server: Accounts models what it stores.                             *)

\* A signed-in caller's unsafe request is refused when the token in its header was not
\* made of the secret in its CSRF cookie.
Permitted(call) ==
    IF OwnerOf(call.sent.session) = Nobody THEN "unauthorized"
    ELSE IF call.tokenFits THEN "ok" ELSE "forbidden"

Respond(p, status, account, session) ==
    calls' = [calls EXCEPT ![p].answer = [status |-> status, account |-> account,
                                          session |-> session]]

Overtaken(call) == IF call = Idle THEN Idle ELSE [call EXCEPT !.overtaken = TRUE]

\* The same for a request that changes the session: the others under way are overtaken.
RespondChanging(p, status, account, session) ==
    calls' = [q \in Procedures |->
                IF q = p THEN [calls[q] EXCEPT !.answer = [status |-> status, account |-> account,
                                                           session |-> session]]
                ELSE Overtaken(calls[q])]

\* The caller's session becomes a new one of this account.
Reopen(p, account) ==
    /\ opened < MaxSessions
    /\ opened' = opened + 1
    /\ owner' = [s \in Sessions |-> IF s = opened + 1 THEN account
                                    ELSE IF s = calls[p].sent.session THEN Nobody ELSE owner[s]]
    /\ RespondChanging(p, "ok", account, opened + 1)

\* admin_login.
ServeLogin(p) ==
    /\ calls[p].request = "login"
    /\ \/ \E account \in Accounts : Reopen(p, account)
       \/ Respond(p, "unauthorized", Nobody, 0) /\ UNCHANGED serverVars

\* admin_change_password: update_session_auth_hash gives the session a new key.
ServePassword(p) ==
    /\ calls[p].request = "password"
    /\ IF Permitted(calls[p]) = "ok" THEN Reopen(p, OwnerOf(calls[p].sent.session))
       ELSE Respond(p, Permitted(calls[p]), Nobody, 0) /\ UNCHANGED serverVars

\* admin_logout: nobody's request passes too, and ends nothing.
ServeLogout(p) ==
    /\ calls[p].request = "logout"
    /\ UNCHANGED opened
    /\ IF Permitted(calls[p]) = "forbidden"
       THEN Respond(p, "forbidden", Nobody, 0) /\ UNCHANGED owner
       ELSE /\ RespondChanging(p, "ok", Nobody, 0)
            /\ owner' = [s \in Sessions |->
                           IF s = calls[p].sent.session THEN Nobody ELSE owner[s]]

\* admin_csrf, and admin_me with both its methods.
ServeRest(p) ==
    /\ calls[p].request \in {"csrf", "me", "patch"}
    /\ UNCHANGED serverVars
    /\ LET account == OwnerOf(calls[p].sent.session) IN
       Respond(p, CASE calls[p].request = "csrf" -> "ok"
                    [] calls[p].request = "me" -> IF account = Nobody THEN "unauthorized" ELSE "ok"
                    [] OTHER -> Permitted(calls[p]),
               account, 0)

Serve(p) ==
    /\ Busy(p) /\ calls[p].answer.status = "awaited"
    /\ ServeLogin(p) \/ ServePassword(p) \/ ServeLogout(p) \/ ServeRest(p)
    /\ UNCHANGED <<cookies, authVars, page, historyVars>>

\* The request or its answer is lost, or takes too long: the client gives up.
Lose(p) ==
    /\ Busy(p) /\ calls[p].answer.status # "lost"
    /\ Respond(p, "lost", Nobody, 0)
    /\ UNCHANGED <<serverVars, cookies, authVars, page, historyVars>>

\* The session's time is over, or somebody else ended it.
Expire ==
    /\ OwnerOf(cookies.session) # Nobody
    /\ owner' = [owner EXCEPT ![cookies.session] = Nobody]
    /\ doubtful' = TRUE
    /\ calls' = [p \in Procedures |-> Overtaken(calls[p])]
    /\ UNCHANGED <<opened, cookies, authVars, page, signedOut>>

-----------------------------------------------------------------------------
(* The client: what follows each await of a procedure.                     *)

Answered(p, name) ==
    /\ calls[p].request = name /\ calls[p].answer.status # "awaited"
    /\ UNCHANGED serverVars

Ok(p) == calls[p].answer.status = "ok"

\* The cookies an answer sets.
TakeCookies(p) ==
    cookies' = IF ~Ok(p) THEN cookies
               ELSE CASE calls[p].request = "csrf" -> [cookies EXCEPT !.secret = calls[p].sent.secret]
                      [] calls[p].request = "login" -> [session |-> calls[p].answer.session,
                                                        secret |-> calls[p].answer.session]
                      [] calls[p].request = "password" ->
                            [cookies EXCEPT !.session = calls[p].answer.session]
                      [] calls[p].request = "logout" -> [cookies EXCEPT !.session = 0]
                      [] OTHER -> cookies

Continue(p, name) == calls' = [calls EXCEPT ![p] = Request(name, cookies', token')]
End(p) == calls' = [calls EXCEPT ![p] = Idle]
\* A change of the session overtakes what else is under way.
EndChanging(p) ==
    calls' = [q \in Procedures |-> IF q = p THEN Idle ELSE Overtaken(calls[q])]

ClearTokenOnly == token' = NoToken /\ UNCHANGED user
ClearAuthStateSwapped == user' = NoToken /\ token' = Nobody
clearAuthState == user' = Nobody /\ token' = NoToken

\* The user was set or cleared from this answer; it is news of the session if it is of
\* the session.  A refused login says nothing of it, but clears a user a bootstrap set.
Judge(p) ==
    LET status == calls[p].answer.status
        news == status = "ok" \/ (status = "unauthorized" /\ calls[p].request = "me") IN
    doubtful' = (\/ calls[p].overtaken \/ status \in {"lost", "forbidden"}
                 \/ ~news /\ (doubtful \/ user # Nobody))

\* refreshUser.
RefreshUser(p) ==
    /\ IF Ok(p) THEN user' = calls[p].answer.account /\ UNCHANGED token ELSE clearAuthState
    /\ Judge(p)

\* bootstrap: ensureAdminCsrf, then refreshUser; whatever fails clears.
BootstrapCsrf ==
    /\ Answered("bootstrap", "csrf") /\ TakeCookies("bootstrap")
    /\ UNCHANGED <<page, signedOut>>
    /\ IF Ok("bootstrap")
       THEN /\ token' = calls["bootstrap"].sent.secret
            /\ Continue("bootstrap", "me")
            /\ UNCHANGED <<user, isLoading, doubtful>>
       ELSE /\ clearAuthState /\ isLoading' = FALSE
            /\ End("bootstrap") /\ Judge("bootstrap")

BootstrapMe ==
    /\ Answered("bootstrap", "me") /\ TakeCookies("bootstrap")
    /\ RefreshUser("bootstrap") /\ isLoading' = FALSE
    /\ End("bootstrap")
    /\ UNCHANGED <<page, signedOut>>

\* login: whatever fails clears; LoginPage then goes home.
LoginCsrf ==
    /\ Answered("login", "csrf") /\ TakeCookies("login")
    /\ UNCHANGED <<isLoading, page, signedOut>>
    /\ IF Ok("login")
       THEN /\ token' = calls["login"].sent.secret
            /\ Continue("login", "login")
            /\ UNCHANGED <<user, doubtful>>
       ELSE clearAuthState /\ End("login") /\ Judge("login")

LoginAnswered ==
    /\ Answered("login", "login") /\ TakeCookies("login")
    /\ UNCHANGED isLoading
    /\ Judge("login")
    /\ IF Ok("login")
       THEN /\ user' = calls["login"].answer.account /\ UNCHANGED token
            /\ page' = "home" /\ signedOut' = FALSE
            /\ EndChanging("login")
       ELSE /\ clearAuthState /\ UNCHANGED <<page, signedOut>>
            /\ End("login")

\* logout: whatever happens clears.
LogoutCsrf ==
    /\ Answered("logout", "csrf") /\ TakeCookies("logout")
    /\ UNCHANGED <<isLoading, page, signedOut>>
    /\ IF Ok("logout")
       THEN /\ token' = calls["logout"].sent.secret
            /\ Continue("logout", "logout")
            /\ UNCHANGED <<user, doubtful>>
       ELSE clearAuthState /\ EndChanging("logout") /\ Judge("logout")

LogoutAnswered ==
    /\ Answered("logout", "logout") /\ TakeCookies("logout")
    /\ clearAuthState /\ Judge("logout")
    /\ signedOut' = (calls["logout"].answer.status # "lost")
    /\ EndChanging("logout")
    /\ UNCHANGED <<isLoading, page>>

\* handleSave of the profile: updateProfile, then refreshUser.
SaveCsrf ==
    /\ Answered("save", "csrf") /\ TakeCookies("save")
    /\ IF Ok("save")
       THEN token' = calls["save"].sent.secret /\ Continue("save", "patch")
       ELSE UNCHANGED token /\ End("save")
    /\ UNCHANGED <<user, isLoading, page, historyVars>>

SavePatched ==
    /\ Answered("save", "patch") /\ TakeCookies("save")
    /\ UNCHANGED <<authVars, page, historyVars>>
    /\ IF Ok("save") THEN Continue("save", "me") ELSE End("save")

SaveRefreshed ==
    /\ Answered("save", "me") /\ TakeCookies("save")
    /\ RefreshUser("save")
    /\ End("save")
    /\ UNCHANGED <<isLoading, page, signedOut>>

\* handleSubmit of the password page.
PasswordCsrf ==
    /\ Answered("password", "csrf") /\ TakeCookies("password")
    /\ IF Ok("password")
       THEN token' = calls["password"].sent.secret /\ Continue("password", "password")
       ELSE UNCHANGED token /\ End("password")
    /\ UNCHANGED <<user, isLoading, page, historyVars>>

PasswordAnswered ==
    /\ Answered("password", "password") /\ TakeCookies("password")
    /\ doubtful' = (\/ doubtful \/ calls["password"].overtaken \/ user = Nobody
                    \/ calls["password"].answer.status = "lost")
    /\ EndChanging("password")
    /\ UNCHANGED <<authVars, page, signedOut>>

-----------------------------------------------------------------------------
(* The user and the guards of the pages.                                   *)

canAccessEditHistory == user \in Supers
SignedIn == ~isLoading /\ user # Nobody
\* The page is shown, not a loading shell.
Shown == CASE page = "login" -> ~SignedIn
           [] page = "history" -> SignedIn /\ canAccessEditHistory
           [] OTHER -> SignedIn

\* adminAuthApi: a write asks for a token only when there is none.
StartWrite(p, name) ==
    /\ MayStart(p)
    /\ calls' = [calls EXCEPT ![p] = Request(IF token = NoToken THEN "csrf" ELSE name,
                                             cookies, token)]
    /\ UNCHANGED <<serverVars, cookies, authVars, page, historyVars>>

\* login asks for one always.
Login ==
    /\ page = "login" /\ Shown /\ MayStart("login")
    /\ calls' = [calls EXCEPT !["login"] = Request("csrf", cookies, token)]
    /\ UNCHANGED <<serverVars, cookies, authVars, page, historyVars>>

Logout == page # "login" /\ Shown /\ StartWrite("logout", "logout")
SaveProfile == page = "profile" /\ Shown /\ StartWrite("save", "patch")
ChangePassword == page = "password" /\ Shown /\ StartWrite("password", "password")

\* The links of the sidebar and of the profile page.
Visit(to) ==
    /\ page # "login" /\ Shown /\ to \notin {"login", page}
    /\ to = "history" => canAccessEditHistory
    /\ page' = to
    /\ UNCHANGED <<serverVars, cookies, authVars, calls, historyVars>>

\* The effects of RedirectIfAuthenticated, RequireAdminAuth and RequireSuperuser.
Home == page = "login" /\ SignedIn /\ page' = "home"
StayPut == FALSE
ToLogin == page # "login" /\ ~isLoading /\ user = Nobody /\ page' = "login"
FromHistory == page = "history" /\ SignedIn /\ ~canAccessEditHistory /\ page' = "home"
Redirect ==
    /\ Home \/ ToLogin \/ FromHistory
    /\ UNCHANGED <<serverVars, cookies, authVars, calls, historyVars>>

\* The browser loads the page anew: what the tab knew and asked is gone.
Reload ==
    /\ user' = Nobody /\ isLoading' = TRUE /\ token' = NoToken
    /\ calls' = [p \in Procedures |->
                   IF p = "bootstrap" THEN Request("csrf", cookies, NoToken) ELSE Idle]
    /\ UNCHANGED <<serverVars, cookies, page, historyVars>>

-----------------------------------------------------------------------------
Continuations ==
    \/ BootstrapCsrf \/ BootstrapMe \/ LoginCsrf \/ LoginAnswered \/ LogoutCsrf \/ LogoutAnswered
    \/ SaveCsrf \/ SavePatched \/ SaveRefreshed \/ PasswordCsrf \/ PasswordAnswered

User == Login \/ Logout \/ SaveProfile \/ ChangePassword \/ (\E to \in Pages : Visit(to)) \/ Reload

Next ==
    \/ User \/ Redirect \/ Continuations \/ Expire
    \/ \E p \in Procedures : Serve(p) \/ Lose(p)

\* React runs the effects of a render.
Fairness == WF_vars(Redirect)

Spec == Init /\ [][Next]_vars /\ Fairness

-----------------------------------------------------------------------------
TypeOK ==
    /\ owner \in [Sessions -> Accounts \cup {Nobody}] /\ opened \in 0..MaxSessions
    /\ cookies \in Cookies
    /\ user \in Accounts \cup {Nobody} /\ isLoading \in BOOLEAN /\ token \in Tokens
    /\ page \in Pages
    /\ calls \in [Procedures -> Call \cup {Idle}]
    /\ {doubtful, signedOut} \subseteq BOOLEAN

(* Once nothing is under way the tab shows the account the browser's session is of,  *)
(* unless since it last heard of it the session ended on its own, or a request about *)
(* it was lost, refused, or overtaken by a login, a logout or a password change.     *)
TabAgrees == Quiet => (doubtful \/ user = OwnerOf(cookies.session))

(* The guards do not send the user to and fro: the page comes to be one for who is   *)
(* signed in, as long as that does not change again.                                 *)
OnItsPage == Shown \/ isLoading
RedirectsEnd == []<>OnItsPage

(* Test "logout clears session and redirects to login": after a logout that was      *)
(* answered the browser has no open session.                                         *)
LogoutEndsSession == signedOut => OwnerOf(cookies.session) = Nobody

=============================================================================
