-------------------------------- MODULE Session --------------------------------
(* Who is logged in to the web console: the cookies of the browser, the     *)
(* store of useAuth.ts with its check at startup, the page Login, the guard *)
(* in AppLayout.tsx and the interceptors of api/index.ts that send the      *)
(* cookies along and leave for the login page when the server misses them.  *)
(* Another tab shares the cookies but not the store.                        *)
EXTENDS WebWorld, Naturals, FiniteSets, Sequences, SequencesExt

CONSTANTS
    Users,        \* registered users
    MaxCalls      \* bound: requests under way at once, logins and others

ASSUME UsersAssumption == "none" \notin Users

VARIABLES
    cookie,       \* the user of the cookies, "none" for none; token: it is valid
    token,
    auth,         \* the store: uid, isAuth and loading
    route,        \* "login", or "app" for every page inside AppLayout
    check,        \* the cookie that the startup check was sent with, or none
    logins,       \* submitted logins, in the order of their submission
    calls,        \* other requests under way, by the cookies they carry
    redirects,    \* history: redirects to the login page since the cookies changed
    overtaken,    \* history: a login came in during the startup check, or
                  \* another tab changed the cookies
    gone          \* history: the user has logged out, with no startup check
                  \* under way, and there has been no login and no cookie since

svars == <<cookie, token, auth, route, check, logins, calls, redirects,
           overtaken, gone>>

NoCheck == [out |-> FALSE, uid |-> "none", ok |-> FALSE]
Cookies == [uid |-> cookie, ok |-> token]
Carried == [uid : Users \cup {"none"}, ok : BOOLEAN]

Stores == [uid : Users \cup {"none"}, isAuth : BOOLEAN, loading : BOOLEAN]
Checks == [out : BOOLEAN, uid : Users \cup {"none"}, ok : BOOLEAN]

\* The guard and the body of AppLayout: pages are shown to who is logged in.
PageShown == route = "app" /\ ~auth.loading /\ auth.isAuth
Guarded(r, a) == IF r = "app" /\ ~a.loading /\ ~a.isAuth THEN "login" ELSE r

\* checkAuth, when the program starts: without a cookie there is nothing to ask.
CheckAuth(c) ==
    IF c.uid = "none"
    THEN [auth |-> [uid |-> "none", isAuth |-> FALSE, loading |-> FALSE],
          check |-> NoCheck]
    ELSE [auth |-> [uid |-> "none", isAuth |-> FALSE, loading |-> TRUE],
          check |-> [out |-> TRUE, uid |-> c.uid, ok |-> c.ok]]

\* A page is loaded from the server: the program starts anew.
Start(r) ==
    LET begun == CheckAuth(Cookies)
    IN  /\ auth' = begun.auth /\ check' = begun.check
        /\ route' = Guarded(r, begun.auth)
        /\ logins' = <<>> /\ calls' = <<>>
        /\ gone' = (gone /\ cookie = "none")
        /\ UNCHANGED <<cookie, token>>

Reload(r) ==
    /\ Start(r) /\ overtaken' = FALSE
    /\ UNCHANGED redirects

\* The answer of the startup check.  The server confirms a valid token; it
\* refuses a bad one with a code that does not redirect.
CheckAnswered(ok) ==
    LET known == [uid |-> check.uid, isAuth |-> TRUE, loading |-> FALSE]
        unknown == [auth EXCEPT !.isAuth = FALSE, !.loading = FALSE]
        a == IF ok THEN known ELSE unknown
    IN  /\ check.out /\ check.uid # "none"
        /\ ok => check.ok
        /\ auth' = a /\ route' = Guarded(route, a)
        /\ check' = NoCheck
        /\ UNCHANGED <<cookie, token, logins, calls, redirects, overtaken, gone>>

\* The interceptor: a request without cookies is answered 401 and 4010001.
LeaveForLogin ==
    /\ \/ \E i \in 1 .. Len(calls) : calls[i].uid = "none"
       \/ check.out /\ check.uid = "none"
    /\ Start("login")
    /\ redirects' = IF redirects < 3 THEN redirects + 1 ELSE redirects
    /\ overtaken' = FALSE

-----------------------------------------------------------------------------
(* The login page and the logout button.                                    *)

\* The button, or Enter, which does not look whether one is under way.
HandleSubmit(u) ==
    /\ route = "login" /\ Len(logins) < MaxCalls
    /\ logins' = Append(logins, u)
    /\ UNCHANGED <<cookie, token, auth, route, check, calls, redirects, overtaken, gone>>

\* Mutant: a login fills the store and leaves the cookies to the server.
LoginAnsweredNoCookie(i) ==
    /\ auth' = [uid |-> logins[i], isAuth |-> TRUE, loading |-> FALSE]
    /\ route' = "app"
    /\ logins' = RemoveAt(logins, i)
    /\ overtaken' = (overtaken \/ check.out)
    /\ redirects' = 0 /\ gone' = FALSE
    /\ UNCHANGED <<cookie, token, check, calls>>

\* login or register succeeds, wherever the user is by now.
LoginAnswered(i) ==
    /\ cookie' = logins[i] /\ token' = TRUE
    /\ auth' = [uid |-> logins[i], isAuth |-> TRUE, loading |-> FALSE]
    /\ route' = "app"
    /\ logins' = RemoveAt(logins, i)
    /\ overtaken' = (overtaken \/ check.out)
    /\ redirects' = 0 /\ gone' = FALSE
    /\ UNCHANGED <<check, calls>>

LoginRefused(i) ==
    /\ logins' = RemoveAt(logins, i)
    /\ UNCHANGED <<cookie, token, auth, route, check, calls, redirects, overtaken, gone>>

Logout ==
    /\ PageShown
    /\ cookie' = "none" /\ token' = FALSE
    /\ auth' = [auth EXCEPT !.uid = "none", !.isAuth = FALSE]
    /\ route' = "login" /\ gone' = ~check.out
    /\ UNCHANGED <<check, logins, calls, redirects, overtaken>>

-----------------------------------------------------------------------------

\* A page asks for something: the request carries the cookies of the moment.
Request ==
    /\ PageShown /\ Len(calls) < MaxCalls
    /\ calls' = Append(calls, Cookies)
    /\ UNCHANGED <<cookie, token, auth, route, check, logins, redirects, overtaken, gone>>

\* Answered, or refused for a bad token: the page shows data or an error.
RequestDone(i) ==
    /\ calls[i].uid # "none"
    /\ calls' = RemoveAt(calls, i)
    /\ UNCHANGED <<cookie, token, auth, route, check, logins, redirects, overtaken, gone>>

\* Another tab logs in or out, the cookies expire, or the server's secret changes.
CookiesChange(u, ok) ==
    /\ world.shared
    /\ <<u, ok>> # <<cookie, token>> /\ (u = "none" => ~ok)
    /\ cookie' = u /\ token' = ok
    /\ overtaken' = TRUE /\ redirects' = 0
    /\ UNCHANGED <<auth, route, check, logins, calls, gone>>

GoToLogin ==
    /\ route = "app"
    /\ route' = "login"
    /\ UNCHANGED <<cookie, token, auth, check, logins, calls, redirects, overtaken, gone>>

\* The history leads back to a page, with the memory of the program intact; where
\* it reaches back before the program started, it is a Reload.
GoBack ==
    /\ route = "login"
    /\ route' = Guarded("app", auth)
    /\ UNCHANGED <<cookie, token, auth, check, logins, calls, redirects, overtaken, gone>>

SessionInit ==
    /\ cookie = "none" /\ token = FALSE
    /\ auth = CheckAuth(Cookies).auth /\ check = CheckAuth(Cookies).check
    /\ route = "login" /\ logins = <<>> /\ calls = <<>>
    /\ redirects = 0 /\ overtaken = FALSE /\ gone = FALSE

SessionNext ==
    /\ \/ \E r \in {"app", "login"} : Reload(r)
       \/ \E ok \in BOOLEAN : CheckAnswered(ok)
       \/ LeaveForLogin \/ GoToLogin \/ GoBack
       \/ \E u \in Users : HandleSubmit(u)
       \/ \E i \in 1 .. Len(logins) : LoginAnswered(i) \/ LoginRefused(i)
       \/ Logout \/ Request
       \/ \E i \in 1 .. Len(calls) : RequestDone(i)
       \/ \E u \in Users \cup {"none"}, ok \in BOOLEAN : CookiesChange(u, ok)
    /\ UNCHANGED world

\* The session by itself, whatever the pages do with it.
SessionSpec == SessionInit /\ [][SessionNext]_<<world, svars>>

-----------------------------------------------------------------------------
(* Properties.                                                              *)

\* The state of the session is well formed.
SessionTypeOK ==
    /\ cookie \in Users \cup {"none"} /\ token \in BOOLEAN
    /\ auth \in Stores
    /\ route \in {"login", "app"}
    /\ check \in Checks
    /\ logins \in Seq(Users)
    /\ calls \in Seq(Carried)
    /\ redirects \in 0 .. 3 /\ overtaken \in BOOLEAN /\ gone \in BOOLEAN

\* The name in the header is the user in whose name requests are sent, in every
\* order of logins, checks and reloads, except after a login that came in while
\* the startup check was out, or a change by another tab, until the program
\* starts again (useAuth.ts 21-60).
StoreMatchesCookie ==
    auth.isAuth /\ ~overtaken => auth.uid = cookie /\ token

\* Unless the cookies change in between, at most one redirect leads to the login page: the
\* program that starts there asks the server nothing (api/index.ts 44-58,
\* useAuth.ts 21-27).
NoRedirectLoop == redirects <= 1

\* A logout is final: neither the history, nor a reload, nor what was under way
\* shows a page again before the next login or cookie.  A startup check that is
\* still out at the logout is excepted, its answer fills the store again
\* (useAuth.ts 28-44 and 78-83, AppLayout.tsx 32-50).
LogoutHolds == gone => ~PageShown

\* All three: the session of a tab is one user's, losing it ends at the login page,
\* and so does leaving it.
SessionIsSound == StoreMatchesCookie /\ NoRedirectLoop /\ LogoutHolds

=============================================================================
