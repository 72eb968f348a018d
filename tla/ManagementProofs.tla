-------------------------- MODULE ManagementProofs --------------------------
(***************************************************************************)
(* Theorems about the session of the web console and its pages of          *)
(* settings, groups, tasks, schedules and agents, for any users, URLs,     *)
(* groups and rows and any number of requests under way.  Each page has an *)
(* invariant of its own variables, which the steps of the other pages      *)
(* leave alone.                                                            *)
(***************************************************************************)
EXTENDS WebConsole, SequenceTheorems, FiniteSetTheorems, WellFoundedInduction, TLAPS

-----------------------------------------------------------------------------
(* The session.                                                            *)

\* Removing an element leaves a sequence over the same set.
LEMMA RemoveAtType ==
  ASSUME NEW S, NEW s \in Seq(S), NEW i \in 1 .. Len(s)
  PROVE  RemoveAt(s, i) \in Seq(S)
<1>1. /\ Len(s) \in Nat /\ \A k \in 1 .. Len(s) : s[k] \in S
  BY LenProperties, ElementOfSeq
<1>2. SubSeq(s, 1, i - 1) \in Seq(S)
  <2>1. /\ 1 \in Int /\ i - 1 \in Int
        /\ \A k \in 1 .. i - 1 : s[k] \in S
    BY <1>1
  <2> QED
    BY <2>1, SubSeqProperties
<1>3. SubSeq(s, i + 1, Len(s)) \in Seq(S)
  <2>1. /\ i + 1 \in Int /\ Len(s) \in Int
        /\ \A k \in i + 1 .. Len(s) : s[k] \in S
    BY <1>1
  <2> QED
    BY <2>1, SubSeqProperties
<1> QED
  BY <1>2, <1>3, ConcatProperties DEF RemoveAt

\* A check that is out was sent with a cookie; as long as nothing overtook it
\* the store waits for it and the cookie is still the one it was sent with.
CheckInv ==
    check.out =>
        /\ check.uid # "none"
        /\ ~overtaken => /\ auth.loading /\ ~auth.isAuth
                         /\ check.uid = cookie /\ check.ok = token

\* The cookies of a user.
Named == [uid : Users, ok : BOOLEAN]

\* After a redirect no request without cookies is under way, and none can be
\* sent before the cookies change: without a cookie nobody is, or is about to
\* be, logged in.
RedirectInv ==
    /\ redirects \in {0, 1}
    /\ redirects = 1 =>
         /\ calls \in Seq(Named)
         /\ cookie = "none" => ~check.out /\ ~auth.isAuth
         /\ check.out => auth.loading /\ ~auth.isAuth

SessionInv == SessionTypeOK /\ CheckInv /\ RedirectInv /\ StoreMatchesCookie

\* The program starts with nothing to ask.
LEMMA InitSessionInv == SessionInit => SessionInv
<1> SUFFICES ASSUME SessionInit PROVE SessionInv
  OBVIOUS
<1>1. /\ auth = [uid |-> "none", isAuth |-> FALSE, loading |-> FALSE]
      /\ check = [out |-> FALSE, uid |-> "none", ok |-> FALSE]
  BY DEF SessionInit, CheckAuth, Cookies, NoCheck
<1>2. ~auth.isAuth /\ ~check.out
  BY <1>1
<1>3. auth \in Stores /\ check \in Checks
  BY <1>1 DEF Stores, Checks
<1>4. SessionTypeOK
  <2>1. logins \in Seq(Users) /\ calls \in Seq(Carried)
    BY EmptySeq, Zenon DEF SessionInit
  <2>2. redirects \in 0 .. 3
    BY SMT DEF SessionInit
  <2>3. /\ cookie \in Users \cup {"none"} /\ token \in BOOLEAN
        /\ route \in {"login", "app"} /\ overtaken \in BOOLEAN /\ gone \in BOOLEAN
    BY Zenon DEF SessionInit
  <2> QED
    BY <1>3, <2>1, <2>2, <2>3, Zenon DEF SessionTypeOK
<1> QED
  BY <1>2, <1>4 DEF SessionInit, SessionInv, CheckInv, RedirectInv,
     StoreMatchesCookie

\* A start of the program establishes the invariant, whatever it was before:
\* it has nothing to ask, or its check is out and the store waits for it.
LEMMA StartKeeps ==
  ASSUME SessionTypeOK, NEW r \in {"app", "login"}, Start(r),
         overtaken' = FALSE, redirects' \in {0, 1}
  PROVE  SessionInv'
<1>1. /\ cookie' = cookie /\ token' = token
      /\ auth' = CheckAuth(Cookies).auth /\ check' = CheckAuth(Cookies).check
      /\ route' = Guarded(r, CheckAuth(Cookies).auth)
      /\ logins' = <<>> /\ calls' = <<>> /\ gone' \in BOOLEAN
  BY DEF Start
<1>2. cookie \in Users \cup {"none"} /\ token \in BOOLEAN
  BY DEF SessionTypeOK
<1>3. route' \in {"login", "app"}
  BY <1>1 DEF Guarded
<1>s. /\ logins' \in Seq(Users) /\ calls' \in Seq(Carried)
      /\ calls' \in Seq(Named)
  BY <1>1, EmptySeq, Zenon
<1>4. Cookies.uid = cookie /\ Cookies.ok = token
  BY DEF Cookies
<1>5. CASE cookie = "none"
  <2>1. /\ auth' = [uid |-> "none", isAuth |-> FALSE, loading |-> FALSE]
        /\ check' = [out |-> FALSE, uid |-> "none", ok |-> FALSE]
    BY <1>1, <1>4, <1>5 DEF CheckAuth, NoCheck
  <2>2. ~auth'.isAuth /\ ~check'.out
    BY <2>1
  <2>3. auth' \in Stores /\ check' \in Checks
    BY <2>1 DEF Stores, Checks
  <2>4. SessionTypeOK'
    <3>1. redirects' \in 0 .. 3
      BY SMT
    <3>2. overtaken' \in BOOLEAN
      BY Zenon
    <3>3. cookie' \in Users \cup {"none"} /\ token' \in BOOLEAN
      BY <1>1, <1>2, Zenon
    <3> QED
      BY <1>1, <1>s, <1>3, <2>3, <3>1, <3>2, <3>3, Zenon DEF SessionTypeOK
  <2> QED
    BY <1>s, <2>2, <2>4 DEF SessionInv, CheckInv, RedirectInv, StoreMatchesCookie
<1>6. CASE cookie # "none"
  <2>1. /\ auth' = [uid |-> "none", isAuth |-> FALSE, loading |-> TRUE]
        /\ check' = [out |-> TRUE, uid |-> cookie, ok |-> token]
    BY <1>1, <1>4, <1>6 DEF CheckAuth
  <2>2. /\ ~auth'.isAuth /\ auth'.loading
        /\ check'.uid = cookie /\ check'.ok = token
    BY <2>1
  <2>3. auth' \in Stores /\ check' \in Checks
    BY <1>2, <2>1 DEF Stores, Checks
  <2>4. SessionTypeOK'
    <3>1. redirects' \in 0 .. 3
      BY SMT
    <3>2. overtaken' \in BOOLEAN
      BY Zenon
    <3>3. cookie' \in Users \cup {"none"} /\ token' \in BOOLEAN
      BY <1>1, <1>2, Zenon
    <3> QED
      BY <1>1, <1>s, <1>3, <2>3, <3>1, <3>2, <3>3, Zenon DEF SessionTypeOK
  <2> QED
    BY <1>1, <1>s, <1>6, <2>2, <2>4 DEF SessionInv, CheckInv, RedirectInv,
       StoreMatchesCookie
<1> QED
  BY <1>5, <1>6

\* Every step of the session keeps the invariant.
LEMMA SessionInvInductive ==
  SessionInv /\ [SessionNext]_<<world, svars>> => SessionInv'
<1> SUFFICES ASSUME SessionInv, [SessionNext]_<<world, svars>> PROVE SessionInv'
  OBVIOUS
<1> USE UsersAssumption DEF SessionInv, SessionTypeOK, CheckInv, RedirectInv,
        StoreMatchesCookie
<1>0. CASE UNCHANGED <<world, svars>>
  BY <1>0 DEF svars
<1>1. ASSUME NEW r \in {"app", "login"}, Reload(r) PROVE SessionInv'
  BY <1>1, StartKeeps DEF Reload
<1>2. ASSUME NEW ok \in BOOLEAN, CheckAnswered(ok) PROVE SessionInv'
  <2>1. /\ check.out /\ check.uid # "none" /\ (ok => check.ok)
        /\ check' = [out |-> FALSE, uid |-> "none", ok |-> FALSE]
        /\ UNCHANGED <<cookie, token, logins, calls, redirects, overtaken, gone>>
    BY <1>2 DEF CheckAnswered, NoCheck
  <2>2. check' \in Checks /\ ~check'.out /\ check.uid \in Users \cup {"none"}
    BY <2>1 DEF Checks
  <2>3. route' \in {"login", "app"}
    BY <1>2 DEF CheckAnswered, Guarded
  <2>4. CASE ok
    <3>1. auth' = [uid |-> check.uid, isAuth |-> TRUE, loading |-> FALSE]
      BY <1>2, <2>4 DEF CheckAnswered
    <3>2. auth' \in Stores /\ auth'.uid = check.uid
      BY <2>2, <3>1 DEF Stores
    <3>3. ~overtaken => check.uid = cookie /\ token
      BY <2>1, <2>4
    <3> QED
      BY <2>1, <2>2, <2>3, <3>2, <3>3
  <2>5. CASE ~ok
    <3>1. auth' = [auth EXCEPT !.isAuth = FALSE, !.loading = FALSE]
      BY <1>2, <2>5 DEF CheckAnswered
    <3>2. auth' \in Stores /\ ~auth'.isAuth
      BY <3>1 DEF Stores
    <3> QED
      BY <2>1, <2>2, <2>3, <3>2
  <2> QED
    BY <2>4, <2>5
<1>3. ASSUME LeaveForLogin PROVE SessionInv'
  <2>1. redirects = 0
    <3>1. redirects = 1 => \A i \in 1 .. Len(calls) : calls[i] \in Named
      BY ElementOfSeq
    <3>2. \A c \in Named : c.uid # "none"
      BY DEF Named
    <3> QED
      BY <1>3, <3>1, <3>2 DEF LeaveForLogin
  <2>2. /\ Start("login") /\ redirects' = 1 /\ overtaken' = FALSE
    BY <1>3, <2>1 DEF LeaveForLogin
  <2> QED
    BY <2>2, StartKeeps
<1>4. CASE GoToLogin \/ GoBack
  BY <1>4 DEF GoToLogin, GoBack, Guarded
<1>5. ASSUME NEW u \in Users, HandleSubmit(u) PROVE SessionInv'
  BY <1>5 DEF HandleSubmit
<1>6. ASSUME NEW i \in 1 .. Len(logins), LoginAnswered(i) PROVE SessionInv'
  <2>1. RemoveAt(logins, i) \in Seq(Users) /\ logins[i] \in Users
    BY RemoveAtType, ElementOfSeq
  <2>2. /\ cookie' = logins[i] /\ token' = TRUE /\ route' = "app"
        /\ auth' = [uid |-> logins[i], isAuth |-> TRUE, loading |-> FALSE]
        /\ logins' = RemoveAt(logins, i) /\ redirects' = 0
        /\ overtaken' = (overtaken \/ check.out) /\ gone' = FALSE
        /\ UNCHANGED <<check, calls>>
    BY <1>6 DEF LoginAnswered
  <2>3. auth' \in Stores /\ auth'.uid = logins[i]
    BY <2>1, <2>2 DEF Stores
  <2>4. overtaken' \in BOOLEAN /\ gone' \in BOOLEAN /\ (~overtaken' => ~check.out)
    <3>1. check.out \in BOOLEAN
      BY DEF Checks
    <3>2. gone' \in BOOLEAN
      BY <2>2, Zenon
    <3> QED
      BY <2>2, <3>1, <3>2
  <2>5. SessionTypeOK'
    <3>1. redirects' \in 0 .. 3 /\ logins' \in Seq(Users) /\ calls' \in Seq(Carried)
      BY <2>1, <2>2
    <3>2. /\ cookie' \in Users \cup {"none"} /\ token' \in BOOLEAN
          /\ route' \in {"login", "app"} /\ check' \in Checks
      BY <2>1, <2>2, Zenon
    <3> QED
      BY <2>3, <2>4, <3>1, <3>2, Zenon
  <2> QED
    BY <2>2, <2>3, <2>4, <2>5
<1>7. ASSUME NEW i \in 1 .. Len(logins), LoginRefused(i) PROVE SessionInv'
  <2>1. RemoveAt(logins, i) \in Seq(Users)
    BY RemoveAtType
  <2> QED
    BY <1>7, <2>1 DEF LoginRefused
<1>8. CASE Logout
  <2>1. ~auth.loading /\ auth.isAuth
    BY <1>8 DEF Logout, PageShown
  <2>2. /\ cookie' = "none" /\ token' = FALSE /\ route' = "login"
        /\ auth' = [auth EXCEPT !.uid = "none", !.isAuth = FALSE]
        /\ gone' \in BOOLEAN
        /\ UNCHANGED <<check, logins, calls, redirects, overtaken>>
    BY <1>8 DEF Logout
  <2>3. auth' \in Stores /\ ~auth'.isAuth
    BY <2>2 DEF Stores
  <2>4. SessionTypeOK'
    BY <2>2, <2>3
  <2> QED
    BY <2>1, <2>2, <2>3, <2>4
<1>9. CASE Request
  <2>1. auth.isAuth /\ calls' = Append(calls, [uid |-> cookie, ok |-> token])
    BY <1>9 DEF Request, PageShown, Cookies
  <2>2. redirects = 1 => [uid |-> cookie, ok |-> token] \in Named
    BY <2>1 DEF Named
  <2>3. [uid |-> cookie, ok |-> token] \in Carried
    BY DEF Carried
  <2>4. /\ calls' \in Seq(Carried)
        /\ redirects = 1 => calls' \in Seq(Named)
    BY <2>1, <2>2, <2>3
  <2> QED
    BY <1>9, <2>4 DEF Request
<1>10. ASSUME NEW i \in 1 .. Len(calls), RequestDone(i) PROVE SessionInv'
  <2>1. redirects = 1 => RemoveAt(calls, i) \in Seq(Named)
    BY RemoveAtType
  <2>2. RemoveAt(calls, i) \in Seq(Carried)
    BY RemoveAtType
  <2> QED
    BY <1>10, <2>1, <2>2 DEF RequestDone
<1>11. ASSUME NEW u \in Users \cup {"none"}, NEW ok \in BOOLEAN, CookiesChange(u, ok)
       PROVE SessionInv'
  BY <1>11 DEF CookiesChange
<1> QED
  BY <1>0, <1>1, <1>2, <1>3, <1>4, <1>5, <1>6, <1>7, <1>8, <1>9, <1>10, <1>11
     DEF SessionNext

\* SessionInv holds in every state of the session.
THEOREM SessionInvHolds == SessionSpec => []SessionInv
  BY InitSessionInv, SessionInvInductive, PTL DEF SessionSpec

\* The session goes on behind the pages: their steps leave it alone.
LEMMA SessionOfConsole == Spec => SessionSpec
<1>1. Init => SessionInit
  BY DEF Init
<1>2. [Next]_wvars => [SessionNext]_<<world, svars>>
  BY DEF Next, wvars, ResultPage, CreationPages, Timeline, FlamePages, SessionOfTab, Groups,
         Lists, Settings, ResultNext, CreationNext, TimelineNext, FlameNext, GroupsNext,
         ListNext, SettingsNext
<1>3. QED
  BY <1>1, <1>2, PTL DEF Spec, SessionSpec

\* Once logged out the store holds nobody and no check is under way to fill it.
GoneInv == gone => ~auth.isAuth /\ ~check.out

\* Every step of the session keeps it so until a login or a cookie.
LEMMA GoneInductive ==
  SessionInv /\ GoneInv /\ [SessionNext]_<<world, svars>> => GoneInv'
<1> SUFFICES ASSUME SessionInv, GoneInv, [SessionNext]_<<world, svars>>, gone'
             PROVE  ~auth'.isAuth /\ ~check'.out
  BY DEF GoneInv
<1>1. ASSUME NEW r \in {"app", "login"}, Start(r) PROVE ~auth'.isAuth /\ ~check'.out
  BY <1>1 DEF Start, CheckAuth, Cookies, NoCheck
<1>2. ASSUME NEW ok \in BOOLEAN, CheckAnswered(ok) PROVE FALSE
  BY <1>2 DEF CheckAnswered, GoneInv
<1>3. ASSUME NEW i \in 1 .. Len(logins), LoginAnswered(i) PROVE FALSE
  BY <1>3 DEF LoginAnswered
<1>4. CASE Logout
  BY <1>4 DEF Logout, SessionInv, SessionTypeOK, Stores
<1>5. CASE UNCHANGED <<auth, check, gone>>
  BY <1>5 DEF GoneInv
<1> QED
  BY <1>1, <1>2, <1>3, <1>4, <1>5
     DEF SessionNext, svars, Reload, LeaveForLogin, GoToLogin, GoBack, HandleSubmit,
         LoginRefused, Request, RequestDone, CookiesChange

\* After a logout with no startup check under way no page is shown, whatever
\* arrives, wherever the history leads and however often the program is reloaded,
\* until a login is answered or another tab sets a cookie (useAuth.ts,
\* AppLayout.tsx).
THEOREM LogoutHoldsAlways == Spec => []LogoutHolds
<1>1. SessionInit => GoneInv
  BY DEF SessionInit, GoneInv
<1>2. GoneInv => LogoutHolds
  BY DEF GoneInv, LogoutHolds, PageShown
<1> QED
  BY <1>1, <1>2, GoneInductive, SessionOfConsole, SessionInvHolds, PTL DEF SessionSpec

\* For any users and any number of logins, checks and reloads in any order, the
\* name in the header is the one requests are sent with, unless a login came in
\* during the startup check or another tab changed the cookies (useAuth.ts); and
\* however many requests were under way without cookies, one redirect leads to
\* the login page and no second follows it (api/index.ts).  A logout is final.
THEOREM SessionIsSoundAlways == Spec => []SessionIsSound
<1>1. SessionInv => StoreMatchesCookie
  BY DEF SessionInv
<1>2. SessionInv => NoRedirectLoop
  BY DEF SessionInv, RedirectInv, NoRedirectLoop
<1>3. SessionInv /\ LogoutHolds => SessionIsSound
  BY <1>1, <1>2 DEF SessionIsSound
<1> QED
  BY <1>3, SessionOfConsole, SessionInvHolds, LogoutHoldsAlways, PTL

-----------------------------------------------------------------------------
(* Sequences of requests.                                                  *)

\* One request of a sequence is over: the others stay.
LEMMA RemoveAtElements ==
    ASSUME NEW S, NEW s \in Seq(S), NEW i \in 1 .. Len(s)
    PROVE  /\ RemoveAt(s, i) \in Seq(S)
           /\ \A k \in 1 .. Len(RemoveAt(s, i)) :
                 \E j \in 1 .. Len(s) : j # i /\ RemoveAt(s, i)[k] = s[j]
           /\ \A j \in 1 .. Len(s) : j # i =>
                 \E k \in 1 .. Len(RemoveAt(s, i)) : RemoveAt(s, i)[k] = s[j]
<1> DEFINE a == SubSeq(s, 1, i - 1)
           b == SubSeq(s, i + 1, Len(s))
<1>0. Len(s) \in Nat /\ \A k \in 1 .. Len(s) : s[k] \in S
  BY LenProperties, ElementOfSeq
<1>1. /\ a \in Seq(S) /\ Len(a) = i - 1 /\ \A k \in 1 .. i - 1 : a[k] = s[k]
  <2>1. /\ 1 \in Int /\ i - 1 \in Int
        /\ \A k \in 1 .. i - 1 : s[k] \in S
    BY <1>0
  <2>2. a \in Seq(S) /\ Len(a) = (IF 1 <= i - 1 THEN (i - 1) - 1 + 1 ELSE 0)
        /\ \A k \in 1 .. (i - 1) - 1 + 1 : a[k] = s[1 + k - 1]
    BY <2>1, SubSeqProperties
  <2>3. QED
    BY <1>0, <2>2
<1>2. /\ b \in Seq(S) /\ Len(b) = Len(s) - i /\ \A k \in 1 .. Len(s) - i : b[k] = s[i + k]
  <2>1. /\ i + 1 \in Int /\ Len(s) \in Int
        /\ \A k \in i + 1 .. Len(s) : s[k] \in S
    BY <1>0
  <2>2. b \in Seq(S) /\ Len(b) = (IF i + 1 <= Len(s) THEN Len(s) - (i + 1) + 1 ELSE 0)
        /\ \A k \in 1 .. Len(s) - (i + 1) + 1 : b[k] = s[(i + 1) + k - 1]
    BY <2>1, SubSeqProperties
  <2>3. QED
    BY <1>0, <2>2
<1> DEFINE c == a \o b
<1>3. /\ c \in Seq(S) /\ Len(c) = Len(a) + Len(b)
      /\ \A k \in 1 .. Len(a) + Len(b) : c[k] = IF k <= Len(a) THEN a[k] ELSE b[k - Len(a)]
  BY <1>1, <1>2, ConcatProperties
<1>4. RemoveAt(s, i) = c
  BY DEF RemoveAt
<1> HIDE DEF a, b, c
<1>5. Len(a) + Len(b) = Len(s) - 1 /\ i \in Nat /\ i >= 1 /\ i <= Len(s)
  BY <1>0, <1>1, <1>2
<1>6. ASSUME NEW k \in 1 .. Len(s) - 1, k < i PROVE c[k] = s[k]
  <2>1. k \in 1 .. i - 1 /\ k <= Len(a)
    BY <1>0, <1>1, <1>6
  <2>2. QED BY <1>1, <1>3, <1>5, <2>1
<1>7. ASSUME NEW k \in 1 .. Len(s) - 1, ~(k < i) PROVE c[k] = s[k + 1]
  <2>1. k - (i - 1) \in 1 .. Len(s) - i /\ i + (k - (i - 1)) = k + 1 /\ ~(k <= i - 1)
    BY <1>0, <1>7
  <2>2. c[k] = b[k - (i - 1)]
    BY <1>1, <1>3, <1>5, <2>1
  <2>3. QED BY <1>2, <2>1, <2>2
<1>8. ASSUME NEW k \in 1 .. Len(c) PROVE \E j \in 1 .. Len(s) : j # i /\ c[k] = s[j]
  <2>0. k \in 1 .. Len(s) - 1
    BY <1>3, <1>5
  <2>1. CASE k < i
    <3>1. k \in 1 .. Len(s) /\ k # i
      BY <1>0, <2>0, <2>1
    <3>2. QED BY <1>6, <2>0, <2>1, <3>1
  <2>2. CASE ~(k < i)
    <3>1. k + 1 \in 1 .. Len(s) /\ k + 1 # i
      BY <1>0, <2>0, <2>2
    <3>2. QED BY <1>7, <2>0, <2>2, <3>1
  <2>3. QED BY <2>1, <2>2
<1>9. ASSUME NEW j \in 1 .. Len(s), j # i PROVE \E k \in 1 .. Len(c) : c[k] = s[j]
  <2>1. CASE j < i
    <3>1. j \in 1 .. Len(s) - 1
      BY <1>0, <1>5, <2>1
    <3>2. QED BY <1>3, <1>5, <1>6, <2>1, <3>1
  <2>2. CASE ~(j < i)
    <3>1. j - 1 \in 1 .. Len(s) - 1 /\ ~(j - 1 < i) /\ (j - 1) + 1 = j
      BY <1>0, <1>9, <2>2
    <3>2. c[j - 1] = s[j]
      BY <1>7, <3>1
    <3>3. QED BY <1>3, <1>5, <3>1, <3>2
  <2>3. QED BY <2>1, <2>2
<1>10. QED
  BY <1>3, <1>4, <1>8, <1>9

\* A new request comes last.
LEMMA AppendElements ==
    ASSUME NEW S, NEW s \in Seq(S), NEW e \in S
    PROVE  /\ Append(s, e) \in Seq(S)
           /\ Len(Append(s, e)) = Len(s) + 1 /\ Len(s) \in Nat
           /\ Append(s, e)[Len(s) + 1] = e
           /\ \A k \in 1 .. Len(s) : Append(s, e)[k] = s[k]
           /\ 1 .. (Len(s) + 1) = (1 .. Len(s)) \cup {Len(s) + 1}
<1>1. /\ Append(s, e) \in Seq(S)
      /\ Len(Append(s, e)) = Len(s) + 1 /\ Len(s) \in Nat
      /\ Append(s, e)[Len(s) + 1] = e
      /\ \A k \in 1 .. Len(s) : Append(s, e)[k] = s[k]
  OBVIOUS
<1>2. QED BY <1>1

\* A sequence with a place is not empty.
LEMMA NotEmpty ==
    ASSUME NEW S, NEW s \in Seq(S), NEW k \in 1 .. Len(s)
    PROVE  s # <<>>
BY EmptySeq

-----------------------------------------------------------------------------
(* Settings.                                                               *)

BaseUrl == Urls \cup {"", "old"}
Conf == [base : BaseUrl, model : Models, token : BOOLEAN]
Form == [base : BaseUrl, model : Models, token : BOOLEAN, input : BOOLEAN,
         known : SUBSET LLMFields]
SettingsAnswer == [base : BaseUrl, model : Models, token : BOOLEAN, known : SUBSET LLMFields]
SettingsOp == [kind : {"load", "save"}, at : 1 .. 3, out : BOOLEAN, clear : BOOLEAN,
               sent : Form, ans : SettingsAnswer, stale : BOOLEAN]

SettingsTypeOK ==
    /\ conf \in Conf /\ llm \in Form /\ sops \in Seq(SettingsOp)
    /\ typed \subseteq {"base", "model", "input"} /\ blind \subseteq LLMFields

\* A field as it was stored at first, or blank because it was saved unknown.
Untouched(f, v) == v = StoredAtFirst[f] \/ (f \in blind /\ v = BlankForm[f])

\* What was not typed is untouched; in what was received, what was not read is
\* blank.
Kept(x) == \A f \in LLMFields \ typed : Untouched(f, x[f])
Received(x) ==
    \A f \in LLMFields \ typed : Untouched(f, x[f]) \/ (f \notin x.known /\ x[f] = BlankForm[f])

OpKeeps(op) ==
    /\ op.kind = "save" => Kept(op.sent)
    /\ ~op.out => Received(op.ans)

\* Every copy of the settings, stored, in the form or under way, keeps what was
\* not typed, but for the blanks of what was not read.
CopiesInv ==
    /\ Kept(conf)
    /\ Received(llm)
    /\ \A i \in 1 .. Len(sops) : OpKeeps(sops[i])

SettingsInv == SettingsTypeOK /\ CopiesInv

\* A sequence by its elements.
LEMMA SeqOfElements ==
    ASSUME NEW S, NEW n \in Nat, NEW f \in [1 .. n -> S]
    PROVE  f \in Seq(S) /\ Len(f) = n
OBVIOUS

\* Requests under way while nothing is typed: what holds of each stays.
LEMMA KeptOps ==
    ASSUME SettingsInv, UNCHANGED <<typed, blind>>, SettingsTypeOK',
           Kept(conf'), Received(llm'),
           \A k \in 1 .. Len(sops') : OpKeeps(sops'[k])
    PROVE  SettingsInv'
BY DEF SettingsInv, CopiesInv, OpKeeps, Kept, Received, Untouched

\* What is sent by a save that begins: unknown fields are blank from now on.
KeptFromNow(x) ==
    \A f \in LLMFields \ typed : x[f] = StoredAtFirst[f] \/ (f \in blind' /\ x[f] = BlankForm[f])

\* A load or a save begins.
LEMMA SettingsBegins ==
    ASSUME SettingsInv, ClickReload \/ \E clear \in BOOLEAN : SaveLLM(clear)
    PROVE  SettingsInv'
<1> USE DEF SettingsInv, SettingsTypeOK
<1>1. BlankForm \in Form /\ NoAnswer \in SettingsAnswer
  BY DEF BlankForm, Form, NoAnswer, SettingsAnswer, BaseUrl, Models
<1>2. LoadOp \in SettingsOp /\ LoadOp.kind = "load" /\ LoadOp.out = TRUE
  BY <1>1 DEF LoadOp, SettingsOp
<1>3. PICK op \in SettingsOp :
         /\ sops' = Append(sops, op) /\ op.out = TRUE
         /\ UNCHANGED <<conf, llm, typed>>
                 /\ blind' \subseteq LLMFields /\ blind \subseteq blind'
         /\ op.kind = "save" => KeptFromNow(op.sent)
  <2>1. CASE ClickReload
    BY <1>2, <2>1 DEF ClickReload
  <2>2. ASSUME NEW clear \in BOOLEAN, SaveLLM(clear)
        PROVE  \E op \in SettingsOp :
                 /\ sops' = Append(sops, op) /\ op.out = TRUE
                 /\ UNCHANGED <<conf, llm, typed>>
                 /\ blind' \subseteq LLMFields /\ blind \subseteq blind'
                 /\ op.kind = "save" => KeptFromNow(op.sent)
    <3> DEFINE f == [llm EXCEPT !.input = @ /\ ~clear]
               op == [LoadOp EXCEPT !.kind = "save", !.clear = clear, !.sent = f]
    <3>1. f \in Form /\ f.base = llm.base /\ f.model = llm.model
      BY DEF Form
    <3>2. /\ sops' = Append(sops, op) /\ UNCHANGED <<conf, llm, typed>>
          /\ blind' = blind \cup (LLMFields \ llm.known)
      BY <2>2 DEF SaveLLM
    <3> HIDE DEF f
    <3>3. op \in SettingsOp /\ op.out = TRUE /\ op.sent = f
      BY <1>2, <3>1 DEF SettingsOp
    <3> HIDE DEF op
    <3>4. \A x \in LLMFields \ typed : f[x] = llm[x]
      BY <3>1 DEF LLMFields
    <3>5. KeptFromNow(f)
      <4>1. Received(llm)
        BY DEF CopiesInv
      <4>2. QED
        BY <3>2, <3>4, <4>1 DEF Received, Untouched, KeptFromNow
    <3>6. blind' \subseteq LLMFields /\ blind \subseteq blind'
      BY <3>2
    <3>7. KeptFromNow(op.sent)
      BY <3>3, <3>5
    <3>8. QED
      BY <3>2, <3>3, <3>6, <3>7
  <2>3. QED BY <2>1, <2>2
<1>4. /\ sops' \in Seq(SettingsOp)
      /\ \A k \in 1 .. Len(sops') : sops'[k] = op \/ \E j \in 1 .. Len(sops) : sops'[k] = sops[j]
  BY <1>3, AppendElements
<1>5. ASSUME NEW j \in 1 .. Len(sops) PROVE OpKeeps(sops[j])'
  BY <1>3 DEF CopiesInv, OpKeeps, Kept, Received, Untouched
<1>6. OpKeeps(op)'
  BY <1>3 DEF OpKeeps, KeptFromNow, Kept, Untouched
<1>7. Kept(conf)' /\ Received(llm)'
  BY <1>3 DEF CopiesInv, Kept, Received, Untouched
<1>8. QED
  BY <1>3, <1>4, <1>5, <1>6, <1>7 DEF CopiesInv

\* A field is edited: it is one of those that were typed.
LEMMA EditSettings ==
    ASSUME SettingsInv, NEW field \in {"base", "model", "input"}, NEW value,
           [llm EXCEPT ![field] = value] \in Form, Edit(field, value)
    PROVE  SettingsInv'
<1> USE DEF SettingsInv, SettingsTypeOK
<1>1. /\ llm' = [llm EXCEPT ![field] = value] /\ typed' = typed \cup {field}
      /\ UNCHANGED <<conf, sops, blind>>
  BY DEF Edit
<1>2. llm'.known = llm.known /\ \A f \in LLMFields \ typed' : llm'[f] = llm[f]
  BY <1>1 DEF Form, LLMFields
<1>3. QED
  BY <1>1, <1>2 DEF CopiesInv, OpKeeps, Kept, Received, Untouched

\* The server serves a request: a save stores what the form had, and the answer
\* is what is stored, but for the blanks of what could not be read.
LEMMA ServeKeeps ==
    ASSUME SettingsInv, NEW i \in 1 .. Len(sops), NEW unread, ServeSettings(i, unread)
    PROVE  SettingsInv'
<1> USE DEF SettingsInv, SettingsTypeOK
<1> DEFINE op == sops[i]
           n == Len(sops)
           base == IF op.kind = "save" THEN OvertakenSettings(i) ELSE sops
           ans == Answer(conf', unread)
<1>0. /\ n \in Nat /\ DOMAIN sops = 1 .. n /\ sops \in [1 .. n -> SettingsOp] /\ op \in SettingsOp
  BY LenProperties
<1>1. /\ conf' = IF op.kind = "save" THEN Stored(op.sent, op.clear) ELSE conf
      /\ sops' = [base EXCEPT ![i].out = FALSE, ![i].ans = ans]
      /\ UNCHANGED <<llm, typed, blind>>
  BY DEF ServeSettings
<1>2. /\ op.sent \in Form /\ op.clear \in BOOLEAN
      /\ op.sent.base \in BaseUrl /\ op.sent.model \in Models /\ op.sent.input \in BOOLEAN
      /\ conf.token \in BOOLEAN
  BY <1>0 DEF SettingsOp, Form, Conf
<1>3. Stored(op.sent, op.clear) \in Conf
  BY <1>2 DEF Stored, Conf
<1>4. conf' \in Conf
  BY <1>1, <1>3
<1>5. Kept(conf')
  <2>1. CASE op.kind = "save"
    <3>1. Kept(op.sent)
      BY <2>1 DEF CopiesInv, OpKeeps
    <3>2. conf'.base = op.sent.base /\ conf'.model = op.sent.model
      BY <1>1, <2>1 DEF Stored
    <3>3. QED BY <3>1, <3>2 DEF Kept, LLMFields
  <2>2. CASE op.kind # "save"
    BY <1>1, <2>2 DEF CopiesInv
  <2>3. QED BY <2>1, <2>2
<1>a. /\ ans \in SettingsAnswer /\ ans.known = LLMFields \ unread
      /\ ans.base = conf'.base \/ ("base" \in unread /\ ans.base = BlankForm.base)
      /\ ans.model = conf'.model \/ ("model" \in unread /\ ans.model = BlankForm.model)
  <2>1. conf'.base \in BaseUrl /\ conf'.model \in Models /\ conf'.token \in BOOLEAN
    BY <1>4 DEF Conf
  <2>2. NoAnswer.base \in BaseUrl /\ NoAnswer.model \in Models
    BY DEF NoAnswer, BaseUrl, Models
  <2>3. NoAnswer.base = BlankForm.base /\ NoAnswer.model = BlankForm.model
    BY DEF NoAnswer, BlankForm
  <2>4. QED
    BY <2>1, <2>2, <2>3 DEF Answer, SettingsAnswer
<1>b. Received(ans)
  BY <1>5, <1>a DEF Kept, Received, LLMFields
<1> HIDE DEF ans
<1>6. /\ base \in [1 .. n -> SettingsOp]
      /\ \A k \in 1 .. n : /\ base[k].kind = sops[k].kind /\ base[k].out = sops[k].out
                           /\ base[k].sent = sops[k].sent /\ base[k].ans = sops[k].ans
  <2>1. CASE op.kind = "save"
    <3>1. ASSUME NEW k \in 1 .. n
          PROVE  LET q == [sops[k] EXCEPT !.stale = @ \/ (k # i /\ ~sops[k].out)]
                 IN  /\ q \in SettingsOp
                     /\ q.kind = sops[k].kind /\ q.out = sops[k].out
                     /\ q.sent = sops[k].sent /\ q.ans = sops[k].ans
      BY <1>0 DEF SettingsOp
    <3>2. base = [k \in 1 .. n |-> [sops[k] EXCEPT !.stale = @ \/ (k # i /\ ~sops[k].out)]]
      BY <1>0, <2>1 DEF OvertakenSettings
    <3> HIDE DEF base
    <3>3. QED BY <3>1, <3>2
  <2>2. CASE op.kind # "save"
    BY <1>0, <2>2
  <2>3. QED BY <2>1, <2>2
<1> HIDE DEF base
<1>7. /\ sops' \in [1 .. n -> SettingsOp]
      /\ \A k \in 1 .. n : k # i => sops'[k] = base[k]
      /\ sops'[i].kind = base[i].kind /\ sops'[i].sent = base[i].sent
      /\ sops'[i].ans = ans
  <2> DEFINE q == [base[i] EXCEPT !.out = FALSE, !.ans = ans]
  <2>1. /\ q \in SettingsOp /\ q.ans = ans /\ q.kind = base[i].kind
        /\ q.sent = base[i].sent
    <3>1. base[i] \in SettingsOp
      BY <1>6
    <3>2. QED BY <1>a, <3>1 DEF SettingsOp
  <2>2. sops' = [base EXCEPT ![i] = q]
    BY <1>1, <1>6
  <2> HIDE DEF q
  <2>3. QED BY <1>6, <2>1, <2>2
<1>8. sops' \in Seq(SettingsOp) /\ Len(sops') = n
  BY <1>0, <1>7, SeqOfElements
<1>9. ASSUME NEW k \in 1 .. n PROVE OpKeeps(sops'[k])
  <2>1. OpKeeps(sops[k])
    BY DEF CopiesInv
  <2>2. QED
    BY <1>b, <1>6, <1>7, <2>1 DEF OpKeeps
<1>10. Received(llm')
  BY <1>1 DEF CopiesInv
<1>11. QED
  BY <1>1, <1>4, <1>5, <1>8, <1>9, <1>10, KeptOps

\* A chain of requests goes on or ends.
LEMMA GoOnKeeps ==
    ASSUME SettingsInv, NEW i \in 1 .. Len(sops), SettingsGoOn(i)
    PROVE  /\ sops' \in Seq(SettingsOp)
           /\ \A k \in 1 .. Len(sops') : OpKeeps(sops'[k])
<1> USE DEF SettingsInv, SettingsTypeOK
<1>0. sops[i] \in SettingsOp /\ Len(SettingsRequests) = 3
  BY DEF SettingsRequests
<1>1. CASE sops[i].kind = "load" /\ sops[i].at < 3
  <2> DEFINE q == [sops[i] EXCEPT !.at = @ + 1, !.out = TRUE, !.stale = FALSE]
  <2>0. sops[i].at \in 1 .. 3
    BY <1>0 DEF SettingsOp
  <2>a. sops[i].at + 1 \in 1 .. 3
    BY <1>1, <2>0
  <2>1. q \in SettingsOp /\ q.kind = "load" /\ q.out = TRUE
    BY <1>0, <1>1, <2>a DEF SettingsOp
  <2>2. sops' = [sops EXCEPT ![i] = q]
    BY <1>0, <1>1 DEF SettingsGoOn
  <2> HIDE DEF q
  <2>3. /\ sops' \in Seq(SettingsOp) /\ Len(sops') = Len(sops)
        /\ \A k \in 1 .. Len(sops) : sops'[k] = IF k = i THEN q ELSE sops[k]
    BY <2>1, <2>2, ExceptSeq
  <2>4. QED
    BY <2>1, <2>3 DEF CopiesInv, OpKeeps
<1>2. CASE ~(sops[i].kind = "load" /\ sops[i].at < 3)
  <2>1. sops' = RemoveAt(sops, i)
    BY <1>0, <1>2 DEF SettingsGoOn
  <2>2. /\ sops' \in Seq(SettingsOp)
        /\ \A k \in 1 .. Len(sops') : \E j \in 1 .. Len(sops) : sops'[k] = sops[j]
    BY <2>1, RemoveAtElements, ZenonT(60)
  <2>3. QED
    BY <2>2 DEF CopiesInv
<1>3. QED BY <1>1, <1>2

\* The answer becomes the form.
LEMMA ArriveKeeps ==
    ASSUME SettingsInv, NEW i \in 1 .. Len(sops), SettingsArrive(i)
    PROVE  SettingsInv'
<1> USE DEF SettingsInv, SettingsTypeOK
<1> DEFINE op == sops[i]
           ans == sops[i].ans
<1>a. op \in SettingsOp
  OBVIOUS
<1>0. op \in SettingsOp /\ ans \in SettingsAnswer
  BY <1>a DEF SettingsOp
<1>1. /\ ~op.out /\ SettingsGoOn(i) /\ UNCHANGED <<conf, typed, blind>>
      /\ \/ llm' = [Filled(ans) EXCEPT !.input = FALSE]
         \/ llm' = Filled(ans)
         \/ llm' = llm
  BY <1>0 DEF SettingsArrive, SettingsOp
<1>2. Received(ans)
  BY <1>1 DEF CopiesInv, OpKeeps
<1> HIDE DEF ans
<1>3. /\ Filled(ans) \in Form /\ Filled(ans).base = ans.base /\ Filled(ans).model = ans.model
      /\ Filled(ans).known = ans.known
  BY <1>0 DEF Filled, Form, SettingsAnswer
<1>4. /\ llm' \in Form
      /\ \/ llm' = llm
         \/ llm'.base = ans.base /\ llm'.model = ans.model /\ llm'.known = ans.known
  BY <1>1, <1>3 DEF Form
<1>5. Received(llm')
  BY <1>2, <1>4 DEF CopiesInv, Received, LLMFields
<1>6. QED
  BY <1>1, <1>4, <1>5, GoOnKeeps, KeptOps DEF CopiesInv

\* A request fails; a save may have stored a part of the form.
LEMMA FailKeeps ==
    ASSUME SettingsInv, NEW i \in 1 .. Len(sops), SettingsFail(i)
    PROVE  SettingsInv'
<1> USE DEF SettingsInv, SettingsTypeOK
<1> DEFINE op == sops[i]
<1>a. op \in SettingsOp
  OBVIOUS
<1>b. op.sent \in Form
  BY <1>a DEF SettingsOp
<1>0. op.sent.base \in BaseUrl /\ op.sent.model \in Models
  BY <1>b DEF Form
<1>1. /\ SettingsGoOn(i) /\ UNCHANGED <<llm, typed, blind>>
      /\ \/ conf' = conf
         \/ /\ op.kind = "save"
            /\ \/ conf' = [conf EXCEPT !.base = op.sent.base]
               \/ conf' = [conf EXCEPT !.base = op.sent.base, !.model = op.sent.model]
  BY DEF SettingsFail
<1>2. op.kind = "save" => Kept(op.sent)
  BY DEF CopiesInv, OpKeeps
<1> HIDE DEF op
<1>3. /\ conf' \in Conf
      /\ conf'.base = conf.base \/ (op.kind = "save" /\ conf'.base = op.sent.base)
      /\ conf'.model = conf.model \/ (op.kind = "save" /\ conf'.model = op.sent.model)
  BY <1>0, <1>1 DEF Conf
<1>4. Kept(conf')
  BY <1>2, <1>3 DEF CopiesInv, Kept, LLMFields
<1>5. Received(llm')
  BY <1>1 DEF CopiesInv
<1>6. QED
  BY <1>1, <1>3, <1>4, <1>5, GoOnKeeps, KeptOps

\* Every step of the console.
LEMMA NextSettingsInv == SettingsInv /\ [Next]_wvars => SettingsInv'
<1> SUFFICES ASSUME SettingsInv, [Next]_wvars PROVE SettingsInv'
  OBVIOUS
<1>1. CASE UNCHANGED setvars
  BY <1>1 DEF setvars, SettingsInv, SettingsTypeOK, CopiesInv, OpKeeps, Kept, Received, Untouched
<1>2. CASE SettingsNext
  <2>1. ASSUME NEW u \in Urls, Edit("base", u) PROVE SettingsInv'
    BY <2>1, EditSettings DEF SettingsInv, SettingsTypeOK, Form, BaseUrl
  <2>2. ASSUME NEW m \in Models, Edit("model", m) PROVE SettingsInv'
    BY <2>2, EditSettings DEF SettingsInv, SettingsTypeOK, Form
  <2>3. CASE Edit("input", TRUE)
    BY <2>3, EditSettings DEF SettingsInv, SettingsTypeOK, Form
  <2>4. QED
    BY <1>2, <2>1, <2>2, <2>3, SettingsBegins, ServeKeeps, ArriveKeeps, FailKeeps DEF SettingsNext
<1>3. QED
  BY <1>1, <1>2
     DEF Next, wvars, ResultPage, CreationPages, Timeline, FlamePages, SessionOfTab, Groups,
         Lists, Settings

\* The page before anything has arrived.
LEMMA SettingsInitInv == Init => SettingsInv
<1> SUFFICES ASSUME SettingsInit PROVE SettingsInv
  BY DEF Init
<1>1. /\ BlankForm \in Form /\ NoAnswer \in SettingsAnswer /\ StoredAtFirst \in Conf
      /\ BlankForm.known = {}
  BY DEF BlankForm, Form, NoAnswer, SettingsAnswer, Conf, BaseUrl, Models, StoredAtFirst
<1>2. LoadOp \in SettingsOp /\ LoadOp.kind = "load" /\ LoadOp.out = TRUE
  BY <1>1 DEF LoadOp, SettingsOp
<1>a. sops \in Seq(SettingsOp) /\ Len(sops) = 1 /\ sops[1] = LoadOp
  BY <1>2 DEF SettingsInit
<1>3. SettingsTypeOK
  BY <1>1, <1>a DEF SettingsInit, SettingsTypeOK
<1>4. QED
  BY <1>1, <1>2, <1>a, <1>3
     DEF SettingsInit, SettingsInv, CopiesInv, OpKeeps, Kept, Received, Untouched

\* A save stores what the user typed and what the server held, in every order
\* of loads, edits, saves and failures; a field that was saved before its stored
\* value had arrived, or after a read of it that failed, may be blanked, and no
\* other (Settings.tsx, settings.go).
THEOREM UntouchedSettingsAreKept == Spec => []UntouchedSettingsKept
<1>1. SettingsInv => UntouchedSettingsKept
  BY DEF SettingsInv, CopiesInv, Kept, Untouched, UntouchedSettingsKept
<1>2. QED
  BY <1>1, SettingsInitInv, NextSettingsInv, PTL DEF Spec

\* The form shows what is stored.
SameSettings == llm.base = conf.base /\ llm.model = conf.model /\ llm.token = conf.token

\* An answer on its way to the form that no save has overtaken is what is stored.
AnswerHolds(op, c) ==
    ~op.out /\ ~op.stale /\ (op.kind = "save" \/ op.at = 3) =>
        op.ans.base = c.base /\ op.ans.model = c.model /\ op.ans.token = c.token

\* A chain whose end will fill the form: not so a save that is not served yet.
FillsForm(op) == op.kind = "load" \/ ~op.out

\* As long as nothing fails, a form that is not edited shows what is stored or
\* waits for an answer.
FormInv ==
    /\ SettingsTypeOK /\ world \in Worlds /\ sfails \in Nat
    /\ saving => \E k \in 1 .. Len(sops) : sops[k].kind = "save"
    /\ sfails = 0 =>
          /\ \A k \in 1 .. Len(sops) : AnswerHolds(sops[k], conf)
          /\ edited \/ SameSettings \/ \E k \in 1 .. Len(sops) : FillsForm(sops[k])

\* A click: the chain it starts comes last, and is not served.
LEMMA FormClick ==
    ASSUME FormInv, ClickReload \/ \E clear \in BOOLEAN : SaveLLM(clear),
           UNCHANGED world, SettingsTypeOK'
    PROVE  FormInv'
<1> DEFINE n == Len(sops)
<1>1. PICK op : /\ sops' = Append(sops, op) /\ op.out = TRUE
                /\ saving' => saving \/ op.kind = "save"
                /\ UNCHANGED <<conf, llm, sfails, edited>>
  <2>1. LoadOp.out = TRUE /\ LoadOp = [kind |-> "load", at |-> 1, out |-> TRUE, clear |-> FALSE,
           sent |-> BlankForm, ans |-> NoAnswer, stale |-> FALSE]
    BY DEF LoadOp
  <2>2. CASE ClickReload
    BY <2>1, <2>2 DEF ClickReload
  <2>3. ASSUME NEW clear \in BOOLEAN, SaveLLM(clear)
        PROVE  \E op : /\ sops' = Append(sops, op) /\ op.out = TRUE
                       /\ saving' => saving \/ op.kind = "save"
                       /\ UNCHANGED <<conf, llm, sfails, edited>>
    <3> DEFINE f == [llm EXCEPT !.input = @ /\ ~clear]
               op == [LoadOp EXCEPT !.kind = "save", !.clear = clear, !.sent = f]
    <3>1. sops' = Append(sops, op) /\ UNCHANGED <<conf, llm, sfails, edited>>
      BY <2>3 DEF SaveLLM
    <3>2. op.out = TRUE /\ op.kind = "save"
      BY <2>1
    <3>3. QED BY <3>1, <3>2, Zenon
  <2>4. QED BY <2>2, <2>3
<1>2. /\ n \in Nat /\ Len(sops') = n + 1 /\ sops'[n + 1] = op
      /\ \A k \in 1 .. n : sops'[k] = sops[k]
  BY <1>1 DEF FormInv, SettingsTypeOK
<1>3. \A k \in 1 .. Len(sops') : k \in 1 .. n \/ k = n + 1
  BY <1>2
<1>4. n + 1 \in 1 .. Len(sops') /\ \A k \in 1 .. n : k \in 1 .. Len(sops')
  BY <1>2
<1> HIDE DEF n
<1>5. saving' => \E k \in 1 .. Len(sops') : sops'[k].kind = "save"
  BY <1>1, <1>2, <1>4 DEF FormInv, n
<1>6. ASSUME sfails' = 0 PROVE \A k \in 1 .. Len(sops') : AnswerHolds(sops'[k], conf')
  BY <1>1, <1>2, <1>3, <1>6 DEF FormInv, n, AnswerHolds
<1>7. ASSUME sfails' = 0
      PROVE  edited' \/ SameSettings' \/ \E k \in 1 .. Len(sops') : FillsForm(sops'[k])
  BY <1>1, <1>2, <1>4, <1>7 DEF FormInv, n, SameSettings
<1>8. QED
  BY <1>1, <1>5, <1>6, <1>7 DEF FormInv

\* The server serves a request: what is on its way is as it was, but a save
\* overtakes the answers.
LEMMA ServedSettings ==
    ASSUME SettingsTypeOK, NEW i \in 1 .. Len(sops), NEW unread, ServeSettings(i, unread)
    PROVE  /\ Len(sops') = Len(sops)
           /\ sops'[i].kind = sops[i].kind /\ ~sops'[i].out
           /\ sops'[i].ans = Answer(conf', unread)
           /\ \A k \in 1 .. Len(sops) : k # i =>
                 /\ sops'[k].kind = sops[k].kind /\ sops'[k].at = sops[k].at
                 /\ sops'[k].out = sops[k].out /\ sops'[k].ans = sops[k].ans
                 /\ sops[k].stale => sops'[k].stale
                 /\ sops[i].kind = "save" /\ ~sops[k].out => sops'[k].stale
<1> USE DEF SettingsTypeOK
<1> DEFINE op == sops[i]
           n == Len(sops)
           base == IF op.kind = "save" THEN OvertakenSettings(i) ELSE sops
           ans == Answer(conf', unread)
<1>0. /\ n \in Nat /\ DOMAIN sops = 1 .. n /\ sops \in [1 .. n -> SettingsOp]
  BY LenProperties
<1>1. sops' = [base EXCEPT ![i].out = FALSE, ![i].ans = ans]
  BY DEF ServeSettings
<1> HIDE DEF ans
<1>2. /\ base \in [1 .. n -> SettingsOp]
      /\ \A k \in 1 .. n : /\ base[k].kind = sops[k].kind /\ base[k].at = sops[k].at
                           /\ base[k].out = sops[k].out /\ base[k].ans = sops[k].ans
                           /\ sops[k].stale => base[k].stale
                           /\ k # i /\ op.kind = "save" /\ ~sops[k].out => base[k].stale
  <2>1. CASE op.kind = "save"
    <3>1. ASSUME NEW k \in 1 .. n
          PROVE  LET q == [sops[k] EXCEPT !.stale = @ \/ (k # i /\ ~sops[k].out)]
                 IN  /\ q \in SettingsOp
                     /\ q.kind = sops[k].kind /\ q.at = sops[k].at
                     /\ q.out = sops[k].out /\ q.ans = sops[k].ans
                     /\ sops[k].stale => q.stale
                     /\ k # i /\ ~sops[k].out => q.stale
      BY <1>0 DEF SettingsOp
    <3>2. base = [k \in 1 .. n |-> [sops[k] EXCEPT !.stale = @ \/ (k # i /\ ~sops[k].out)]]
      BY <1>0, <2>1 DEF OvertakenSettings
    <3> HIDE DEF base
    <3>3. QED BY <3>1, <3>2
  <2>2. CASE op.kind # "save"
    BY <1>0, <2>2
  <2>3. QED BY <2>1, <2>2
<1> HIDE DEF base
<1> DEFINE q == [base[i] EXCEPT !.out = FALSE, !.ans = ans]
<1>3. ~q.out /\ q.ans = ans /\ q.kind = base[i].kind
  <2>1. base[i] \in SettingsOp
    BY <1>2
  <2>2. QED BY <2>1 DEF SettingsOp
<1>4. sops' = [base EXCEPT ![i] = q]
  BY <1>1, <1>2
<1> HIDE DEF q
<1>5. /\ sops'[i] = q /\ \A k \in 1 .. n : k # i => sops'[k] = base[k]
      /\ sops' = [k \in 1 .. n |-> sops'[k]]
  BY <1>2, <1>4
<1>6. Len(sops') = n
  BY <1>0, <1>5
<1>7. QED
  BY <1>2, <1>3, <1>5, <1>6 DEF ans

\* A request of the settings reaches the server: a save overtakes the answers under way.
LEMMA FormServed ==
    ASSUME FormInv, NEW i \in 1 .. Len(sops), NEW unread, ServeSettings(i, unread),
           UNCHANGED world, SettingsTypeOK'
    PROVE  FormInv'
<1>1. SettingsTypeOK
  BY DEF FormInv
<1>2. /\ UNCHANGED <<saving, edited, llm>>
      /\ sfails' \in Nat /\ (sfails' = 0 => sfails = 0 /\ unread = {})
      /\ sops[i].kind # "save" => conf' = conf
  BY DEF ServeSettings, FormInv
<1>3. /\ Len(sops') = Len(sops)
      /\ sops'[i].kind = sops[i].kind /\ ~sops'[i].out
      /\ sops'[i].ans = Answer(conf', unread)
      /\ \A k \in 1 .. Len(sops) : k # i =>
            /\ sops'[k].kind = sops[k].kind /\ sops'[k].at = sops[k].at
            /\ sops'[k].out = sops[k].out /\ sops'[k].ans = sops[k].ans
            /\ sops[k].stale => sops'[k].stale
            /\ sops[i].kind = "save" /\ ~sops[k].out => sops'[k].stale
  BY <1>1, ServedSettings
<1>4. saving' => \E k \in 1 .. Len(sops') : sops'[k].kind = "save"
  BY <1>2, <1>3, Zenon DEF FormInv
<1>a. ASSUME unread = {}
      PROVE  LET ans == Answer(conf', unread)
             IN  ans.base = conf'.base /\ ans.model = conf'.model /\ ans.token = conf'.token
  <2>1. conf'.token \in BOOLEAN
    BY DEF SettingsTypeOK, Conf
  <2>2. QED BY <1>a, <2>1 DEF Answer
<1>5. ASSUME sfails' = 0, NEW k \in 1 .. Len(sops') PROVE AnswerHolds(sops'[k], conf')
  <2>1. AnswerHolds(sops[k], conf)
    BY <1>2, <1>3, <1>5 DEF FormInv
  <2>2. QED
    BY <1>2, <1>3, <1>5, <1>a, <2>1, Zenon DEF AnswerHolds
<1>6. \E k \in 1 .. Len(sops') : FillsForm(sops'[k])
  BY <1>3, Zenon DEF FillsForm
<1>7. QED
  BY <1>1, <1>2, <1>4, <1>5, <1>6 DEF FormInv

\* A chain goes on, or ends.
LEMMA SettingsChains ==
    ASSUME SettingsTypeOK, NEW i \in 1 .. Len(sops), SettingsGoOn(i)
    PROVE  /\ \A k \in 1 .. Len(sops') :
                 (\E j \in 1 .. Len(sops) : sops'[k] = sops[j]) \/ sops'[k].out
           /\ \A j \in 1 .. Len(sops) : j # i => \E k \in 1 .. Len(sops') : sops'[k] = sops[j]
           /\ sops[i].kind = "load" /\ sops[i].at < 3 =>
                 \E k \in 1 .. Len(sops') : sops'[k].kind = "load"
<1> USE DEF SettingsTypeOK
<1>0. sops[i] \in SettingsOp /\ Len(SettingsRequests) = 3
  BY DEF SettingsRequests
<1>1. CASE sops[i].kind = "load" /\ sops[i].at < 3
  <2> DEFINE q == [sops[i] EXCEPT !.at = @ + 1, !.out = TRUE, !.stale = FALSE]
  <2>1. sops[i].at + 1 \in 1 .. 3
    BY <1>0, <1>1 DEF SettingsOp
  <2>2. q \in SettingsOp /\ q.kind = "load" /\ q.out = TRUE
    BY <1>0, <1>1, <2>1 DEF SettingsOp
  <2>3. sops' = [sops EXCEPT ![i] = q]
    BY <1>0, <1>1 DEF SettingsGoOn
  <2> HIDE DEF q
  <2>4. /\ Len(sops') = Len(sops)
        /\ \A k \in 1 .. Len(sops) : sops'[k] = IF k = i THEN q ELSE sops[k]
    BY <2>2, <2>3, ExceptSeq
  <2>5. QED
    BY <2>2, <2>4
<1>2. CASE ~(sops[i].kind = "load" /\ sops[i].at < 3)
  <2>1. sops' = RemoveAt(sops, i)
    BY <1>0, <1>2 DEF SettingsGoOn
  <2>2. /\ \A k \in 1 .. Len(sops') : \E j \in 1 .. Len(sops) : sops'[k] = sops[j]
        /\ \A j \in 1 .. Len(sops) : j # i => \E k \in 1 .. Len(sops') : sops'[k] = sops[j]
    BY <2>1, RemoveAtElements, ZenonT(60)
  <2>3. QED
    BY <1>2, <2>2
<1>3. QED BY <1>1, <1>2

\* The end of a chain fills the form with what is stored.
LEMMA FormArrives ==
    ASSUME FormInv, NEW i \in 1 .. Len(sops), SettingsArrive(i), UNCHANGED world,
           SettingsTypeOK'
    PROVE  FormInv'
<1> DEFINE op == sops[i]
           fill == op.kind = "save" \/ op.at = 3
<1>1. SettingsTypeOK /\ op \in SettingsOp /\ op.kind \in {"load", "save"} /\ op.at \in 1 .. 3
  <2>1. SettingsTypeOK /\ op \in SettingsOp
    BY DEF FormInv, SettingsTypeOK
  <2>2. QED BY <2>1 DEF SettingsOp
<1>2. /\ ~op.out /\ SettingsGoOn(i) /\ UNCHANGED <<conf, sfails>>
      /\ saving' = (saving /\ op.kind # "save")
  BY DEF SettingsArrive
<1>3. /\ \A k \in 1 .. Len(sops') :
            (\E j \in 1 .. Len(sops) : sops'[k] = sops[j]) \/ sops'[k].out
      /\ \A j \in 1 .. Len(sops) : j # i => \E k \in 1 .. Len(sops') : sops'[k] = sops[j]
      /\ op.kind = "load" /\ op.at < 3 => \E k \in 1 .. Len(sops') : sops'[k].kind = "load"
  BY <1>1, <1>2, SettingsChains
<1>4. (SettingsRequests[op.at] = "llm") <=> op.at = 3
  BY <1>1 DEF SettingsRequests
<1>5. ASSUME fill, sfails = 0 PROVE edited' \/ SameSettings'
  <2>1. edited' = op.stale
    BY <1>4, <1>5 DEF SettingsArrive
  <2>2. llm' = [Filled(op.ans) EXCEPT !.input = FALSE] \/ llm' = Filled(op.ans)
    BY <1>1, <1>4, <1>5 DEF SettingsArrive
  <2>3. llm'.base = op.ans.base /\ llm'.model = op.ans.model /\ llm'.token = op.ans.token
    BY <2>2 DEF Filled
  <2>4. AnswerHolds(op, conf)
    BY <1>5 DEF FormInv
  <2>5. QED
    BY <1>2, <1>5, <2>1, <2>3, <2>4 DEF AnswerHolds, SameSettings
<1>6. ASSUME ~fill, sfails = 0
      PROVE  \E k \in 1 .. Len(sops') : FillsForm(sops'[k])
  BY <1>1, <1>3, <1>6 DEF FillsForm
<1> HIDE DEF fill
<1>7. saving' => \E k \in 1 .. Len(sops') : sops'[k].kind = "save"
  BY <1>2, <1>3 DEF FormInv
<1>8. ASSUME sfails' = 0, NEW k \in 1 .. Len(sops') PROVE AnswerHolds(sops'[k], conf')
  <2>1. sfails = 0 /\ conf' = conf /\ \A j \in 1 .. Len(sops) : AnswerHolds(sops[j], conf)
    BY <1>2, <1>8 DEF FormInv
  <2>2. CASE sops'[k].out
    BY <2>2 DEF AnswerHolds
  <2>3. CASE \E j \in 1 .. Len(sops) : sops'[k] = sops[j]
    BY <2>1, <2>3, Zenon
  <2>4. QED
    BY <1>3, <2>2, <2>3
<1>9. sfails = 0 => edited' \/ SameSettings' \/ \E k \in 1 .. Len(sops') : FillsForm(sops'[k])
  BY <1>5, <1>6
<1>10. QED
  BY <1>1, <1>2, <1>7, <1>8, <1>9 DEF FormInv

\* After a failure nothing is said of the form but that its button comes back.
LEMMA FormFails ==
    ASSUME FormInv, NEW i \in 1 .. Len(sops), SettingsFail(i), UNCHANGED world,
           SettingsTypeOK'
    PROVE  FormInv'
<1>1. SettingsTypeOK /\ world \in Worlds /\ sfails \in Nat /\ world.fails \in Nat
  BY WorldsAssumption DEF FormInv
<1>2. /\ SettingsGoOn(i) /\ saving' = (saving /\ sops[i].kind # "save")
      /\ sfails' = IF sfails < world.fails + 1 THEN sfails + 1 ELSE sfails
  BY DEF SettingsFail
<1>3. sfails' \in Nat /\ sfails' # 0
  BY <1>1, <1>2
<1>4. \A j \in 1 .. Len(sops) : j # i => \E k \in 1 .. Len(sops') : sops'[k] = sops[j]
  BY <1>1, <1>2, SettingsChains
<1>5. saving' => \E k \in 1 .. Len(sops') : sops'[k].kind = "save"
  BY <1>2, <1>4 DEF FormInv
<1>6. QED
  BY <1>1, <1>3, <1>5 DEF FormInv

\* The form before anything has arrived waits for its load.
LEMMA FormInitInv == Init => FormInv
<1> SUFFICES ASSUME Init PROVE FormInv
  OBVIOUS
<1>1. SettingsTypeOK
  BY SettingsInitInv DEF SettingsInv
<1>2. SettingsInit /\ world \in Worlds
  BY DEF Init
<1>3. /\ Len(sops) = 1 /\ sops[1] = LoadOp /\ LoadOp.kind = "load" /\ LoadOp.out = TRUE
      /\ ~saving /\ sfails = 0
  BY <1>2 DEF SettingsInit, LoadOp
<1>4. 1 \in 1 .. Len(sops) /\ \A k \in 1 .. Len(sops) : k = 1
  BY <1>3
<1>5. QED
  BY <1>1, <1>2, <1>3, <1>4 DEF FormInv, AnswerHolds, FillsForm

\* Every step of the console.
LEMMA NextFormInv == SettingsInv /\ FormInv /\ [Next]_wvars => FormInv'
<1> SUFFICES ASSUME SettingsInv, FormInv, [Next]_wvars PROVE FormInv'
  OBVIOUS
<1>1. SettingsTypeOK'
  BY NextSettingsInv DEF SettingsInv
<1>2. CASE UNCHANGED <<world, setvars>>
  BY <1>1, <1>2 DEF setvars, FormInv, SameSettings
<1>3. CASE SettingsNext
  <2>1. UNCHANGED world
    BY <1>3 DEF SettingsNext
  <2>2. ASSUME NEW field, NEW value, Edit(field, value) PROVE FormInv'
    BY <1>1, <2>1, <2>2 DEF Edit, FormInv
  <2>3. QED
    BY <1>1, <1>3, <2>1, <2>2, FormClick, FormServed, FormArrives, FormFails
       DEF SettingsNext
<1>4. QED
  BY <1>2, <1>3
     DEF Next, wvars, ResultPage, CreationPages, Timeline, FlamePages, SessionOfTab, Groups,
         Lists, Settings, ResultNext, CreationNext, TimelineNext, FlameNext, SessionNext,
         GroupsNext, ListNext

\* Without failures and edits the form shows what is stored once it waits for
\* nothing, and the button is back in any case.
LEMMA FormIsSettled == FormInv => SettingsSettled
<1> SUFFICES ASSUME FormInv, sops = <<>> PROVE SettingsSettled
  BY DEF SettingsSettled
<1>1. \A k \in 1 .. Len(sops) : FALSE
  OBVIOUS
<1>2. QED
  BY <1>1 DEF FormInv, SameSettings, SettingsSettled

-----------------------------------------------------------------------------
(* The page of groups.                                                     *)

IsSeq(s) == \E S : s \in Seq(S)

\* What the lemmas above say of sequences, whatever their elements are.
LEMMA SequenceLength ==
    ASSUME NEW s, IsSeq(s)
    PROVE  Len(s) \in Nat /\ DOMAIN s = 1 .. Len(s)
BY DEF IsSeq

LEMMA RemovedFrom ==
    ASSUME NEW s, IsSeq(s), NEW i \in 1 .. Len(s)
    PROVE  /\ IsSeq(RemoveAt(s, i))
           /\ \A k \in 1 .. Len(RemoveAt(s, i)) :
                 \E j \in 1 .. Len(s) : j # i /\ RemoveAt(s, i)[k] = s[j]
           /\ \A j \in 1 .. Len(s) : j # i =>
                 \E k \in 1 .. Len(RemoveAt(s, i)) : RemoveAt(s, i)[k] = s[j]
<1>1. PICK S : s \in Seq(S)
  BY DEF IsSeq
<1>2. QED
  BY <1>1, RemoveAtElements, ZenonT(60) DEF IsSeq

\* A sequence in which each element is replaced.
LEMMA MappedSequence ==
    ASSUME NEW s, IsSeq(s), NEW r, r = [k \in 1 .. Len(s) |-> r[k]]
    PROVE  IsSeq(r) /\ Len(r) = Len(s)
<1> DEFINE S == {r[k] : k \in 1 .. Len(s)}
<1>1. Len(s) \in Nat
  BY SequenceLength
<1>2. r \in [1 .. Len(s) -> S]
  <2>1. [k \in 1 .. Len(s) |-> r[k]] \in [1 .. Len(s) -> S]
    OBVIOUS
  <2>2. QED BY <2>1
<1> HIDE DEF S
<1>3. r \in Seq(S) /\ Len(r) = Len(s)
  BY <1>1, <1>2, SeqOfElements
<1>4. QED BY <1>3 DEF IsSeq

LEMMA AppendedTo ==
    ASSUME NEW s, IsSeq(s), NEW e
    PROVE  LET r == Append(s, e)
           IN  /\ IsSeq(r) /\ r[Len(s) + 1] = e
               /\ \A k \in 1 .. Len(s) : r[k] = s[k]
               /\ 1 .. Len(r) = (1 .. Len(s)) \cup {Len(s) + 1}
<1>1. PICK S : s \in Seq(S)
  BY DEF IsSeq
<1> DEFINE T == S \cup {e}
<1>2. Len(s) \in Nat /\ s \in [1 .. Len(s) -> S]
  BY <1>1
<1>3. s \in [1 .. Len(s) -> T] /\ e \in T
  BY <1>2
<1> HIDE DEF T
<1>4. s \in Seq(T)
  BY <1>2, <1>3, SeqOfElements
<1>5. /\ Append(s, e) \in Seq(T) /\ Len(Append(s, e)) = Len(s) + 1
      /\ Append(s, e)[Len(s) + 1] = e
      /\ \A k \in 1 .. Len(s) : Append(s, e)[k] = s[k]
      /\ 1 .. (Len(s) + 1) = (1 .. Len(s)) \cup {Len(s) + 1}
  BY <1>3, <1>4, AppendElements
<1>6. QED
  BY <1>5 DEF IsSeq

GroupKinds == {"load", "select", "create", "created", "add", "remove", "drop"}
GroupAts == {"list", "listed", "members", "membered", "change", "changed"}

\* A chain of requests, and where chains of its kind may be.
GroupChain(op) ==
    /\ op \in [kind : GroupKinds, gid : {op.gid}, uid : {op.uid}, sel : {op.sel},
               at : GroupAts, of : {op.of}, ans : {op.ans}, stale : {op.stale}]
    /\ op.kind = "created" => op.at \in {"members", "membered"}
    /\ op.at \in {"change", "changed"} => op.kind \in {"create", "add", "remove", "drop"}

GroupView(v) ==
    v \in [list : {v.list}, cache : {v.cache}, sel : {v.sel}, busy : BOOLEAN,
           submitting : BOOLEAN, error : BOOLEAN]

\* The chains that end with the spinner, and with the submit button.
Loading(op) == op.kind \in {"load", "create", "drop"} /\ op.at \notin {"change", "changed"}
Submitting(op) == op.kind \in {"create", "created", "add"}

GroupsInv ==
    /\ IsSeq(gops) /\ (\A k \in 1 .. Len(gops) : GroupChain(gops[k])) /\ GroupView(gview)
    /\ gview.busy => \E k \in 1 .. Len(gops) : Loading(gops[k])
    /\ gview.submitting => \E k \in 1 .. Len(gops) : Submitting(gops[k])

LEMMA GroupChainReplaced ==
    ASSUME IsSeq(gops), NEW i \in 1 .. Len(gops), NEW e, gops' = [gops EXCEPT ![i] = e]
    PROVE  /\ IsSeq(gops') /\ Len(gops') = Len(gops) /\ gops'[i] = e
           /\ \A k \in 1 .. Len(gops) : k # i => gops'[k] = gops[k]
<1>1. Len(gops) \in Nat /\ DOMAIN gops = 1 .. Len(gops)
  BY SequenceLength
<1>2. /\ gops' = [k \in 1 .. Len(gops) |-> gops'[k]] /\ gops'[i] = e
      /\ \A k \in 1 .. Len(gops) : k # i => gops'[k] = gops[k]
  BY <1>1
<1>3. IsSeq(gops') /\ Len(gops') = Len(gops)
  BY <1>2, MappedSequence
<1>4. QED
  BY <1>2, <1>3

\* One chain goes on.
LEMMA GroupChainGoesOn ==
    ASSUME GroupsInv, NEW i \in 1 .. Len(gops), NEW e, GroupChain(e),
           gops' = [gops EXCEPT ![i] = e], GroupView(gview'),
           gview'.busy => Loading(e) \/ (gview.busy /\ ~Loading(gops[i])),
           gview'.submitting => Submitting(e) \/ (gview.submitting /\ ~Submitting(gops[i]))
    PROVE  GroupsInv'
<1>0. IsSeq(gops)
  BY DEF GroupsInv
<1>1. /\ IsSeq(gops') /\ Len(gops') = Len(gops) /\ gops'[i] = e
      /\ \A k \in 1 .. Len(gops) : k # i => gops'[k] = gops[k]
  BY <1>0, GroupChainReplaced, Zenon
<1>2. \A k \in 1 .. Len(gops') : GroupChain(gops'[k])
  BY <1>1, Zenon DEF GroupsInv
<1>3. gview'.busy => \E k \in 1 .. Len(gops') : Loading(gops'[k])
  BY <1>1, Zenon DEF GroupsInv
<1>4. gview'.submitting => \E k \in 1 .. Len(gops') : Submitting(gops'[k])
  BY <1>1, Zenon DEF GroupsInv
<1>5. QED
  BY <1>1, <1>2, <1>3, <1>4, Zenon DEF GroupsInv, GroupChain, GroupView, Loading, Submitting

\* One chain ends.
LEMMA GroupChainEnds ==
    ASSUME GroupsInv, NEW i \in 1 .. Len(gops), gops' = RemoveAt(gops, i), GroupView(gview'),
           gview'.busy => gview.busy /\ ~Loading(gops[i]),
           gview'.submitting => gview.submitting /\ ~Submitting(gops[i])
    PROVE  GroupsInv'
<1>1. /\ IsSeq(gops')
      /\ \A k \in 1 .. Len(gops') : \E j \in 1 .. Len(gops) : j # i /\ gops'[k] = gops[j]
      /\ \A j \in 1 .. Len(gops) : j # i => \E k \in 1 .. Len(gops') : gops'[k] = gops[j]
  <2> DEFINE r == RemoveAt(gops, i)
  <2>1. IsSeq(gops)
    BY DEF GroupsInv
  <2>2. /\ IsSeq(r)
        /\ \A k \in 1 .. Len(r) : \E j \in 1 .. Len(gops) : j # i /\ r[k] = gops[j]
        /\ \A j \in 1 .. Len(gops) : j # i => \E k \in 1 .. Len(r) : r[k] = gops[j]
    BY <2>1, RemovedFrom, Zenon
  <2>3. gops' = r
    OBVIOUS
  <2> HIDE DEF r
  <2>4. QED BY <2>2, <2>3, ZenonT(60)
<1>2. \A k \in 1 .. Len(gops') : GroupChain(gops'[k])
  BY <1>1, Zenon DEF GroupsInv
<1>3. gview'.busy => \E k \in 1 .. Len(gops') : Loading(gops'[k])
  BY <1>1, Zenon DEF GroupsInv
<1>4. gview'.submitting => \E k \in 1 .. Len(gops') : Submitting(gops'[k])
  BY <1>1, Zenon DEF GroupsInv
<1>5. QED
  BY <1>1, <1>2, <1>3, <1>4, Zenon DEF GroupsInv, GroupChain, GroupView, Loading, Submitting

\* A click starts a chain.
LEMMA GroupChainStarts ==
    ASSUME GroupsInv, NEW e, GroupChain(e), NEW v, Launch(e, v), GroupView(v),
           v.busy => gview.busy \/ Loading(e),
           v.submitting => gview.submitting \/ Submitting(e)
    PROVE  GroupsInv'
<1>0. gops' = Append(gops, e) /\ gview' = v
  BY DEF Launch
<1>1. /\ IsSeq(gops') /\ gops'[Len(gops) + 1] = e
      /\ \A k \in 1 .. Len(gops) : gops'[k] = gops[k]
      /\ 1 .. Len(gops') = (1 .. Len(gops)) \cup {Len(gops) + 1}
  <2> DEFINE r == Append(gops, e)
  <2>1. IsSeq(gops)
    BY DEF GroupsInv
  <2>2. /\ IsSeq(r) /\ r[Len(gops) + 1] = e
        /\ \A k \in 1 .. Len(gops) : r[k] = gops[k]
        /\ 1 .. Len(r) = (1 .. Len(gops)) \cup {Len(gops) + 1}
    BY <2>1, AppendedTo, Zenon
  <2>3. gops' = r
    BY <1>0
  <2> HIDE DEF r
  <2>4. QED BY <2>2, <2>3, Zenon
<1>2. \A k \in 1 .. Len(gops') : GroupChain(gops'[k])
  BY <1>1, Zenon DEF GroupsInv
<1>3. gview'.busy => \E k \in 1 .. Len(gops') : Loading(gops'[k])
  BY <1>0, <1>1, Zenon DEF GroupsInv
<1>4. gview'.submitting => \E k \in 1 .. Len(gops') : Submitting(gops'[k])
  BY <1>0, <1>1, Zenon DEF GroupsInv
<1>5. QED
  BY <1>0, <1>1, <1>2, <1>3, <1>4, Zenon DEF GroupsInv, GroupChain, GroupView, Loading, Submitting

\* A chain whose answer brings it further.
LEMMA ChainMoved ==
    ASSUME NEW op, GroupChain(op), NEW a \in GroupAts, NEW e, op.kind # "created",
           a \notin {"change", "changed"}, e = [op EXCEPT !.at = a]
    PROVE  GroupChain(e) /\ e.kind = op.kind /\ e.at = a
BY DEF GroupChain

LEMMA ChainAsksMembers ==
    ASSUME NEW op, GroupChain(op), NEW g, NEW e, op.kind # "created",
           e = [op EXCEPT !.at = "members", !.of = g]
    PROVE  GroupChain(e) /\ e.kind = op.kind /\ e.at = "members"
BY DEF GroupChain, GroupAts

LEMMA ChainOvertaken ==
    ASSUME NEW op, GroupChain(op), NEW t, NEW e, e = [op EXCEPT !.stale = t]
    PROVE  GroupChain(e) /\ e.kind = op.kind /\ e.at = op.at
BY DEF GroupChain

LEMMA ChainCreated ==
    ASSUME NEW op, GroupChain(op), NEW g, NEW e,
           e = [op EXCEPT !.kind = "created", !.at = "members", !.of = g]
    PROVE  GroupChain(e) /\ e.kind = "created"
BY DEF GroupChain, GroupKinds, GroupAts

\* The same step, written on the sequence of the chains.
LEMMA ChainSteps ==
    ASSUME IsSeq(gops), NEW i \in 1 .. Len(gops), NEW a, NEW x, NEW t, NEW o
    PROVE  /\ [gops EXCEPT ![i].at = a, ![i].ans = x, ![i].stale = t]
                = [gops EXCEPT ![i] = [gops[i] EXCEPT !.at = a, !.ans = x, !.stale = t]]
           /\ [gops EXCEPT ![i].at = a] = [gops EXCEPT ![i] = [gops[i] EXCEPT !.at = a]]
           /\ [gops EXCEPT ![i].at = a, ![i].of = o]
                = [gops EXCEPT ![i] = [gops[i] EXCEPT !.at = a, !.of = o]]
<1>1. DOMAIN gops = 1 .. Len(gops)
  BY SequenceLength
<1>2. QED
  BY <1>1

\* The views that the handlers make.
LEMMA ViewOver ==
    ASSUME NEW v, GroupView(v), NEW op
    PROVE  /\ GroupView(ChainOver(v, op))
           /\ ChainOver(v, op).busy => v.busy /\ op.kind \notin {"load", "create", "drop"}
           /\ ChainOver(v, op).submitting =>
                 v.submitting /\ op.kind \notin {"create", "add"}
BY DEF GroupView, ChainOver

LEMMA ViewOfLoad ==
    ASSUME NEW v, GroupView(v), NEW w, w = [v EXCEPT !.busy = TRUE, !.error = FALSE]
    PROVE  GroupView(w) /\ w.submitting = v.submitting
BY DEF GroupView

LEMMA ViewOfCache ==
    ASSUME NEW v, GroupView(v), NEW x, NEW w, w = [v EXCEPT !.cache = x]
    PROVE  GroupView(w) /\ w.busy = v.busy /\ w.submitting = v.submitting
BY DEF GroupView

\* What follows loadGroups keeps the invariant.
LEMMA AfterGroupsStep ==
    ASSUME GroupsInv, NEW i \in 1 .. Len(gops), NEW v, GroupView(v), v.busy = gview.busy,
           v.submitting = gview.submitting, gops[i].kind # "created", AfterGroups(i, v)
    PROVE  GroupsInv'
<1> DEFINE op == gops[i]
<1>1. GroupChain(op)
  BY DEF GroupsInv
<1>2. CASE op.kind = "create"
  <2> DEFINE e == [op EXCEPT !.kind = "created", !.at = "members", !.of = op.gid]
             w == ChainOver(v, [op EXCEPT !.kind = "load"])
  <2>1. gops' = [gops EXCEPT ![i] = e] /\ gview' = [w EXCEPT !.sel = op.gid, !.error = FALSE]
    BY <1>2 DEF AfterGroups
  <2>2. GroupChain(e) /\ e.kind = "created"
    BY <1>1, ChainCreated, ZenonT(60)
  <2>3. [op EXCEPT !.kind = "load"].kind = "load"
    BY <1>1 DEF GroupChain
  <2>4. GroupView(w) /\ ~w.busy /\ (w.submitting => v.submitting)
    BY <2>3, ViewOver, Zenon
  <2> HIDE DEF e, w, op
  <2>5. GroupView(gview') /\ gview'.busy = w.busy /\ gview'.submitting = w.submitting
    BY <2>1, <2>4 DEF GroupView
  <2>6. Submitting(e)
    BY <2>2 DEF Submitting
  <2>7. QED
    BY <2>1, <2>2, <2>4, <2>5, <2>6, GroupChainGoesOn, Zenon
<1>3. CASE op.kind # "create"
  <2>1. gops' = RemoveAt(gops, i) /\ gview' = ChainOver(v, op)
    BY <1>3 DEF AfterGroups
  <2>2. GroupView(gview')
    BY <2>1, ViewOver, Zenon
  <2>3. gview'.busy => gview.busy /\ op.kind \notin {"load", "create", "drop"}
    BY <2>1, ViewOver, Zenon
  <2>4. gview'.submitting => gview.submitting /\ op.kind \notin {"create", "add"}
    BY <2>1, ViewOver, Zenon
  <2>5. gview'.busy => gview.busy /\ ~Loading(gops[i])
    BY <2>3 DEF Loading
  <2>6. gview'.submitting => gview.submitting /\ ~Submitting(gops[i])
    BY <2>4 DEF Submitting
  <2>7. QED
    BY <2>1, <2>2, <2>5, <2>6, GroupChainEnds, Zenon
<1>4. QED
  BY <1>2, <1>3, Zenon

\* The server's steps leave the page alone.
LEMMA ServeGroupsStep ==
    ASSUME GroupsInv, NEW i \in 1 .. Len(gops), ServeGroups(i) \/ ServeMembers(i)
    PROVE  GroupsInv'
<1> DEFINE op == gops[i]
<1>1. GroupChain(op) /\ IsSeq(gops) /\ GroupView(gview)
  BY DEF GroupsInv
<1>a. PICK a \in {"listed", "membered"} : \E x :
         /\ gops' = [gops EXCEPT ![i].at = a, ![i].ans = x, ![i].stale = FALSE]
         /\ op.at = IF a = "listed" THEN "list" ELSE "members"
  BY DEF ServeGroups, ServeMembers
<1>2. PICK x :
         /\ gops' = [gops EXCEPT ![i].at = a, ![i].ans = x, ![i].stale = FALSE]
         /\ op.at = IF a = "listed" THEN "list" ELSE "members"
  BY <1>a
<1> DEFINE e == [op EXCEPT !.at = a, !.ans = x, !.stale = FALSE]
<1>3. gops' = [gops EXCEPT ![i] = e]
  BY <1>1, <1>2, ChainSteps, ZenonT(60)
<1>4. /\ a \in GroupAts /\ (op.kind = "created" => a \in {"members", "membered"})
      /\ a \notin {"change", "changed"} /\ op.at \notin {"change", "changed"}
  BY <1>1, <1>2 DEF GroupAts, GroupChain
<1>5. GroupChain(e) /\ e.kind = op.kind /\ e.at = a
  <2>1. e = [op EXCEPT !.at = a, !.ans = x, !.stale = FALSE]
    OBVIOUS
  <2> HIDE DEF e, op
  <2>2. QED BY <1>1, <1>4, <2>1 DEF GroupChain
<1>6. gview' = gview
  BY DEF ServeGroups, ServeMembers
<1> HIDE DEF e
<1>7. (Loading(gops[i]) => Loading(e)) /\ (Submitting(gops[i]) => Submitting(e))
  BY <1>4, <1>5 DEF Loading, Submitting
<1> HIDE DEF op
<1>8. QED
  BY <1>1, <1>3, <1>5, <1>6, <1>7, GroupChainGoesOn, Zenon

LEMMA ServeChangeStep ==
    ASSUME GroupsInv, NEW i \in 1 .. Len(gops), ServeChange(i)
    PROVE  GroupsInv'
<1>1. /\ IsSeq(gops) /\ (\A k \in 1 .. Len(gops) : GroupChain(gops[k]))
      /\ GroupView(gview) /\ gview' = gview /\ DOMAIN gops = 1 .. Len(gops)
  BY SequenceLength DEF GroupsInv, ServeChange
<1>2. PICK g, l :
         gops' = [k \in DOMAIN gops |->
                    IF k = i THEN [gops[i] EXCEPT !.at = "changed", !.gid = g, !.of = g]
                    ELSE Overtaken(gops[k], g, l)]
  BY DEF ServeChange
<1>3. gops[i].at = "change"
  BY DEF ServeChange
<1>4. IsSeq(gops') /\ Len(gops') = Len(gops)
  <2>1. gops' = [k \in 1 .. Len(gops) |-> gops'[k]]
    BY <1>1, <1>2
  <2>2. QED BY <1>1, <2>1, MappedSequence
<1>5. ASSUME NEW k \in 1 .. Len(gops)
      PROVE  /\ GroupChain(gops'[k]) /\ gops'[k].kind = gops[k].kind
             /\ gops'[k].at = IF k = i THEN "changed" ELSE gops[k].at
  <2>1. CASE k = i
    <3>1. gops'[k] = [gops[i] EXCEPT !.at = "changed", !.gid = g, !.of = g]
      BY <1>1, <1>2, <2>1
    <3> DEFINE e == gops'[i]
    <3>2. GroupChain(gops[i]) /\ e = [gops[i] EXCEPT !.at = "changed", !.gid = g, !.of = g]
      BY <1>1, <2>1, <3>1
    <3> HIDE DEF e
    <3>3. GroupChain(e) /\ e.kind = gops[i].kind /\ e.at = "changed"
      BY <1>3, <3>2 DEF GroupChain, GroupAts
    <3>4. QED BY <2>1, <3>3 DEF e
  <2>2. CASE k # i
    <3>1. gops'[k] = Overtaken(gops[k], g, l)
      BY <1>1, <1>2, <2>2
    <3>2. PICK t : gops'[k] = [gops[k] EXCEPT !.stale = t]
      BY <3>1 DEF Overtaken
    <3> DEFINE e == gops'[k]
    <3>3. GroupChain(gops[k]) /\ e = [gops[k] EXCEPT !.stale = t]
      BY <1>1, <3>2
    <3> HIDE DEF e
    <3>4. GroupChain(e) /\ e.kind = gops[k].kind /\ e.at = gops[k].at
      BY <3>3, ChainOvertaken, Zenon
    <3>5. QED BY <2>2, <3>4 DEF e
  <2>3. QED BY <2>1, <2>2, Zenon
<1>6. ASSUME NEW k \in 1 .. Len(gops)
      PROVE  (Loading(gops[k]) => Loading(gops'[k]))
             /\ (Submitting(gops[k]) => Submitting(gops'[k]))
  BY <1>3, <1>5, <1>5 DEF Loading, Submitting
<1>7. QED
  BY <1>1, <1>4, <1>5, <1>6, Zenon DEF GroupsInv, GroupChain, GroupView, Loading, Submitting

\* The answers.
LEMMA ChangeArrivesStep ==
    ASSUME GroupsInv, NEW i \in 1 .. Len(gops), ChangeArrives(i)
    PROVE  GroupsInv'
<1> DEFINE op == gops[i]
           v == IF op.kind = "drop"
                THEN [gview EXCEPT !.cache = [g \in DOMAIN @ \ {op.gid} |-> @[g]]]
                ELSE gview
           a == IF op.kind \in {"add", "remove"} THEN "members" ELSE "list"
           e == [op EXCEPT !.at = a]
<1>1. GroupChain(op) /\ IsSeq(gops) /\ GroupView(gview) /\ op.at = "changed"
  BY DEF GroupsInv, ChangeArrives
<1>2. op.kind \in {"create", "add", "remove", "drop"}
  BY <1>1 DEF GroupChain
<1>3. GroupView(v) /\ v.busy = gview.busy /\ v.submitting = gview.submitting
  <2>1. CASE op.kind = "drop"
    <3>1. v = [gview EXCEPT !.cache = [g \in DOMAIN @ \ {op.gid} |-> @[g]]]
      BY <2>1
    <3> HIDE DEF v
    <3>2. QED BY <1>1, <3>1, ViewOfCache, Zenon
  <2>2. QED BY <1>1, <2>1
<1>4. /\ gops' = [gops EXCEPT ![i].at = a]
      /\ gview' = IF op.kind \in {"add", "remove"} THEN v
                  ELSE [v EXCEPT !.busy = TRUE, !.error = FALSE]
  BY DEF ChangeArrives
<1>5. gops' = [gops EXCEPT ![i] = e]
  BY <1>1, <1>4, ChainSteps, Zenon
<1>6. a \in GroupAts /\ a \notin {"change", "changed"} /\ op.kind # "created"
  BY <1>2 DEF GroupAts
<1> HIDE DEF v
<1>7. GroupView(gview') /\ gview'.submitting = gview.submitting
  BY <1>3, <1>4, ViewOfLoad, Zenon
<1>8. gview'.busy => gview.busy \/ op.kind \in {"create", "drop"}
  BY <1>2, <1>3, <1>4
<1>9. GroupChain(e) /\ e.kind = op.kind /\ e.at = a
  <2>1. e = [op EXCEPT !.at = a]
    OBVIOUS
  <2> HIDE DEF a, op, e
  <2>2. QED BY <1>1, <1>6, <2>1, ChainMoved, ZenonT(60)
<1> HIDE DEF e
<1>10. /\ op.kind \in {"create", "drop"} => Loading(e)
       /\ ~Loading(gops[i]) /\ (Submitting(gops[i]) => Submitting(e))
  BY <1>1, <1>6, <1>9 DEF Loading, Submitting
<1> HIDE DEF op, a
<1>11. QED
  BY <1>5, <1>7, <1>8, <1>9, <1>10, GroupChainGoesOn, Zenon

LEMMA GroupsArriveStep ==
    ASSUME GroupsInv, NEW i \in 1 .. Len(gops), GroupsArrive(i)
    PROVE  GroupsInv'
<1> DEFINE op == gops[i]
<1>1. GroupChain(op) /\ IsSeq(gops) /\ GroupView(gview) /\ op.at = "listed"
  BY DEF GroupsInv, GroupsArrive
<1>2. op.kind # "created"
  BY <1>1 DEF GroupChain
<1>3. PICK next :
         IF next # 0
         THEN /\ gops' = [gops EXCEPT ![i].at = "members", ![i].of = next]
              /\ gview' = [gview EXCEPT !.list = op.ans, !.sel = next]
         ELSE AfterGroups(i, [gview EXCEPT !.list = op.ans, !.sel = next])
  BY Zenon DEF GroupsArrive
<1> DEFINE v == [gview EXCEPT !.list = op.ans, !.sel = next]
<1>4. GroupView(v) /\ v.busy = gview.busy /\ v.submitting = gview.submitting
  <2>1. v = [gview EXCEPT !.list = op.ans, !.sel = next]
    OBVIOUS
  <2> HIDE DEF v
  <2>2. QED BY <1>1, <2>1 DEF GroupView
<1>5. CASE next # 0
  <2> DEFINE e == [op EXCEPT !.at = "members", !.of = next]
  <2>1. gops' = [gops EXCEPT ![i] = e] /\ gview' = v
    <3>1. gops' = [gops EXCEPT ![i].at = "members", ![i].of = next] /\ gview' = v
      BY <1>3, <1>5
    <3>2. [gops EXCEPT ![i].at = "members", ![i].of = next] = [gops EXCEPT ![i] = e]
      BY <1>1, ChainSteps, ZenonT(60)
    <3>3. QED BY <3>1, <3>2
  <2>3. GroupChain(e) /\ e.kind = op.kind /\ e.at = "members"
    <3>1. e = [op EXCEPT !.at = "members", !.of = next]
      OBVIOUS
    <3> HIDE DEF op, e
    <3>2. QED BY <1>1, <1>2, <3>1, ChainAsksMembers, Zenon
  <2> HIDE DEF e
  <2>4. (Loading(gops[i]) => Loading(e)) /\ (Submitting(gops[i]) => Submitting(e))
    BY <2>3 DEF Loading, Submitting
  <2> HIDE DEF v
  <2>5. QED
    BY <1>4, <2>1, <2>3, <2>4, GroupChainGoesOn, Zenon
<1>6. CASE next = 0
  BY <1>2, <1>3, <1>4, <1>6, AfterGroupsStep, Zenon
<1>7. QED
  BY <1>5, <1>6, Zenon

\* A chain that is not inside loadGroups ends, with or without its answer.
LEMMA ChainOverStep ==
    ASSUME GroupsInv, NEW i \in 1 .. Len(gops), NEW v, GroupView(v), v.busy = gview.busy,
           v.submitting = gview.submitting, ~Loading(gops[i]), gops' = RemoveAt(gops, i),
           gview' = ChainOver(v, IF gops[i].kind = "created"
                                 THEN [gops[i] EXCEPT !.kind = "create"] ELSE gops[i])
    PROVE  GroupsInv'
<1> DEFINE o == IF gops[i].kind = "created"
                THEN [gops[i] EXCEPT !.kind = "create"] ELSE gops[i]
<1>1. GroupChain(gops[i])
  BY DEF GroupsInv
<1>2. o.kind = IF gops[i].kind = "created" THEN "create" ELSE gops[i].kind
  BY <1>1 DEF GroupChain
<1>3. gview' = ChainOver(v, o)
  OBVIOUS
<1> HIDE DEF o
<1>4. /\ GroupView(gview') /\ (gview'.busy => v.busy)
      /\ gview'.submitting => v.submitting /\ o.kind \notin {"create", "add"}
  <2> DEFINE w == ChainOver(v, o)
  <2>1. /\ GroupView(w) /\ (w.busy => v.busy)
        /\ w.submitting => v.submitting /\ o.kind \notin {"create", "add"}
    BY ViewOver, Zenon
  <2>2. gview' = w
    BY <1>3
  <2> HIDE DEF w
  <2>3. QED BY <2>1, <2>2, Zenon
<1>5. gview'.submitting => gview.submitting /\ ~Submitting(gops[i])
  BY <1>2, <1>4 DEF Submitting
<1>6. QED
  BY <1>4, <1>5, GroupChainEnds, Zenon

LEMMA MembersArriveStep ==
    ASSUME GroupsInv, NEW i \in 1 .. Len(gops), MembersArrive(i)
    PROVE  GroupsInv'
<1> DEFINE op == gops[i]
<1>1. GroupChain(op) /\ GroupView(gview) /\ op.at = "membered"
  BY DEF GroupsInv, MembersArrive
<1>2. PICK x :
         IF op.kind \in {"load", "create", "drop"} THEN AfterGroups(i, [gview EXCEPT !.cache = x])
         ELSE /\ gops' = RemoveAt(gops, i)
              /\ gview' = ChainOver([gview EXCEPT !.cache = x],
                                    IF op.kind = "created"
                                    THEN [op EXCEPT !.kind = "create"] ELSE op)
  BY Zenon DEF MembersArrive
<1> DEFINE v == [gview EXCEPT !.cache = x]
<1>3. GroupView(v) /\ v.busy = gview.busy /\ v.submitting = gview.submitting
  BY <1>1 DEF GroupView
<1>4. CASE op.kind \in {"load", "create", "drop"}
  <2>1. AfterGroups(i, v) /\ op.kind # "created"
    BY <1>2, <1>4
  <2> HIDE DEF v
  <2>2. QED BY <1>3, <2>1, AfterGroupsStep, Zenon
<1>5. CASE op.kind \notin {"load", "create", "drop"}
  <2>1. /\ gops' = RemoveAt(gops, i) /\ ~Loading(op)
        /\ gview' = ChainOver(v, IF op.kind = "created"
                                 THEN [op EXCEPT !.kind = "create"] ELSE op)
    BY <1>2, <1>5 DEF Loading
  <2> HIDE DEF v
  <2>2. QED BY <1>3, <2>1, ChainOverStep, Zenon
<1>6. QED
  BY <1>4, <1>5, Zenon

LEMMA OpFailsStep ==
    ASSUME GroupsInv, NEW i \in 1 .. Len(gops), OpFails(i)
    PROVE  GroupsInv'
<1> DEFINE op == gops[i]
           inLoad == \/ op.at \in {"list", "listed"}
                     \/ /\ op.at \in {"members", "membered"}
                        /\ op.kind \in {"load", "create", "drop"}
           v == [gview EXCEPT !.error = TRUE, !.list = IF inLoad THEN {} ELSE @]
<1>1. GroupChain(op) /\ GroupView(gview)
  BY DEF GroupsInv
<1>2. IF inLoad THEN AfterGroups(i, v)
      ELSE /\ gops' = RemoveAt(gops, i)
           /\ gview' = ChainOver(v, IF op.kind = "created"
                                    THEN [op EXCEPT !.kind = "create"] ELSE op)
  BY Zenon DEF OpFails
<1>3. GroupView(v) /\ v.busy = gview.busy /\ v.submitting = gview.submitting
  BY <1>1 DEF GroupView
<1> HIDE DEF v
<1>4. CASE inLoad
  <2>1. AfterGroups(i, v) /\ op.kind # "created"
    BY <1>1, <1>2, <1>4 DEF GroupChain
  <2>2. QED BY <1>3, <2>1, AfterGroupsStep, Zenon
<1>5. CASE ~inLoad
  <2>1. /\ gops' = RemoveAt(gops, i)
        /\ gview' = ChainOver(v, IF op.kind = "created"
                                 THEN [op EXCEPT !.kind = "create"] ELSE op)
    BY <1>2, <1>5
  <2>2. ~Loading(op)
    BY <1>1, <1>5 DEF Loading, GroupChain, GroupAts
  <2>3. QED BY <1>3, <2>1, <2>2, ChainOverStep, Zenon
<1>6. QED
  BY <1>4, <1>5, Zenon

\* The clicks.
LEMMA NewChain ==
    ASSUME NEW k \in GroupKinds, NEW g, NEW u, NEW a \in GroupAts, k # "created",
           a \in {"change", "changed"} => k \in {"create", "add", "remove", "drop"}
    PROVE  GroupChain(Op(k, g, u, a)) /\ Op(k, g, u, a).kind = k /\ Op(k, g, u, a).at = a
BY DEF Op, GroupChain

LEMMA GroupClickStep ==
    ASSUME GroupsInv, NEW e, GroupChain(e), NEW v, Launch(e, v), GroupView(v),
           \/ v.busy = gview.busy /\ v.submitting = gview.submitting
           \/ Loading(e) /\ v.submitting = gview.submitting
           \/ Submitting(e) /\ v.busy = gview.busy
    PROVE  GroupsInv'
BY GroupChainStarts, Zenon

LEMMA GroupClicksStep ==
    ASSUME GroupsInv, \/ ClickRefresh \/ SubmitGroup \/ RemoveGroup
                      \/ \E g \in Gids : SelectGroup(g)
                      \/ \E u \in Others : SubmitMember(u) \/ RemoveMember(u)
    PROVE  GroupsInv'
<1>1. GroupView(gview)
  BY DEF GroupsInv
<1> DEFINE Shown(v) == GroupView(v) /\ v.busy = gview.busy /\ v.submitting = gview.submitting
           Loads == [gview EXCEPT !.busy = TRUE, !.error = FALSE]
           Sent == [gview EXCEPT !.submitting = TRUE, !.error = FALSE]
           Clean == [gview EXCEPT !.error = FALSE]
           Chosen(g) == [gview EXCEPT !.sel = g, !.error = FALSE]
<1>2. GroupView(Loads) /\ Loads.submitting = gview.submitting
  BY <1>1 DEF GroupView
<1>3. GroupView(Sent) /\ Sent.busy = gview.busy
  BY <1>1 DEF GroupView
<1>4. Shown(Clean)
  BY <1>1 DEF GroupView
<1>5. ASSUME NEW g PROVE Shown(Chosen(g))
  BY <1>1 DEF GroupView
<1>6. CASE ClickRefresh
  <2> DEFINE e == Op("load", 0, "", "list")
  <2>1. Launch(e, Loads)
    BY <1>6 DEF ClickRefresh
  <2>2. GroupChain(e) /\ e.kind = "load" /\ e.at = "list"
    BY DEF Op, GroupChain, GroupKinds, GroupAts
  <2> HIDE DEF e, Loads
  <2>3. Loading(e)
    BY <2>2 DEF Loading
  <2>4. QED BY <1>2, <2>1, <2>2, <2>3, GroupClickStep, Zenon
<1>7. CASE SubmitGroup
  <2> DEFINE e == Op("create", 0, "", "change")
  <2>1. Launch(e, Sent)
    BY <1>7 DEF SubmitGroup
  <2>2. GroupChain(e) /\ e.kind = "create"
    BY DEF Op, GroupChain, GroupKinds, GroupAts
  <2> HIDE DEF e, Sent
  <2>3. Submitting(e)
    BY <2>2 DEF Submitting
  <2>4. QED BY <1>3, <2>1, <2>2, <2>3, GroupClickStep, Zenon
<1>8. CASE RemoveGroup
  <2> DEFINE e == Op("drop", SelectedGroup(gview), "", "change")
  <2>1. Launch(e, Clean)
    BY <1>8 DEF RemoveGroup
  <2>2. GroupChain(e)
    BY NewChain, ZenonT(60) DEF GroupKinds, GroupAts
  <2> HIDE DEF e, Clean
  <2>3. QED BY <1>4, <2>1, <2>2, GroupClickStep, Zenon
<1>9. ASSUME NEW u, SubmitMember(u) PROVE GroupsInv'
  <2> DEFINE e == Op("add", SelectedGroup(gview), u, "change")
  <2>1. Launch(e, Sent)
    BY <1>9 DEF SubmitMember
  <2>2. GroupChain(e) /\ e.kind = "add"
    BY NewChain DEF GroupKinds, GroupAts
  <2> HIDE DEF e, Sent
  <2>3. Submitting(e)
    BY <2>2 DEF Submitting
  <2>4. QED BY <1>3, <2>1, <2>2, <2>3, GroupClickStep, Zenon
<1>10. ASSUME NEW u, RemoveMember(u) PROVE GroupsInv'
  <2> DEFINE e == Op("remove", SelectedGroup(gview), u, "change")
  <2>1. Launch(e, Clean)
    BY <1>10 DEF RemoveMember
  <2>2. GroupChain(e)
    BY NewChain DEF GroupKinds, GroupAts
  <2> HIDE DEF e, Clean
  <2>3. QED BY <1>4, <2>1, <2>2, GroupClickStep, Zenon
<1>11. ASSUME NEW g, SelectGroup(g) PROVE GroupsInv'
  <2> DEFINE e == Op("select", g, "", "members")
  <2>1. CASE g \in DOMAIN gview.cache
    <3>1. gview' = Chosen(g) /\ gops' = gops
      BY <1>11, <2>1 DEF SelectGroup
    <3>2. Shown(gview')
      BY <1>5, <3>1
    <3>3. QED BY <3>1, <3>2, Zenon DEF GroupsInv, GroupView, GroupChain, Loading, Submitting
  <2>2. CASE g \notin DOMAIN gview.cache
    <3>1. Launch(e, Chosen(g))
      BY <1>11, <2>2 DEF SelectGroup
    <3>2. GroupChain(e)
      BY NewChain, ZenonT(60) DEF GroupKinds, GroupAts
    <3>3. Shown(Chosen(g))
      BY <1>5
    <3> HIDE DEF e, Chosen
    <3>4. QED BY <3>1, <3>2, <3>3, GroupClickStep, Zenon
  <2>3. QED BY <2>1, <2>2, Zenon
<1>12. QED
  BY <1>6, <1>7, <1>8, <1>9, <1>10, <1>11, Zenon

\* Every step of the console.
LEMMA NextGroupsInv == GroupsInv /\ [Next]_wvars => GroupsInv'
<1> SUFFICES ASSUME GroupsInv, [Next]_wvars PROVE GroupsInv'
  OBVIOUS
<1>1. CASE GroupsNext
  <2>1. CASE \E i \in 1 .. Len(gops) :
                \/ ServeChange(i) \/ ServeGroups(i) \/ ServeMembers(i)
                \/ ChangeArrives(i) \/ GroupsArrive(i) \/ MembersArrive(i) \/ OpFails(i)
    BY <2>1, ServeChangeStep, ServeGroupsStep, ChangeArrivesStep, GroupsArriveStep,
       MembersArriveStep, OpFailsStep, Zenon
  <2>2. QED
    BY <1>1, <2>1, GroupClicksStep, Zenon DEF GroupsNext
<1>2. CASE UNCHANGED gvars
  BY <1>2 DEF gvars, GroupsInv, GroupView, GroupChain, Loading, Submitting
<1>3. QED
  BY <1>1, <1>2
     DEF Next, wvars, ResultPage, CreationPages, Timeline, FlamePages, SessionOfTab, Groups,
         Lists, Settings

\* A sequence of one element.
LEMMA OneElement ==
    ASSUME NEW e, NEW s, s = <<e>>
    PROVE  IsSeq(s) /\ Len(s) = 1 /\ s[1] = e
<1>1. s \in Seq({e}) /\ Len(s) = 1 /\ s[1] = e
  OBVIOUS
<1>2. QED
  BY <1>1 DEF IsSeq

\* The page of groups when it is opened.
LEMMA GroupsInitInv == Init => GroupsInv
<1> SUFFICES ASSUME GroupsInit PROVE GroupsInv
  BY DEF Init
<1> DEFINE e == [kind |-> "load", gid |-> 0, uid |-> "", sel |-> 0, at |-> "list",
                 of |-> 0, ans |-> {}, stale |-> FALSE]
<1>1. gops = <<e>> /\ gview = EmptyGroups
  BY DEF GroupsInit
<1>2. GroupChain(e) /\ Loading(e)
  BY DEF GroupChain, Loading, GroupKinds, GroupAts
<1>3. GroupView(gview) /\ ~gview.submitting
  BY <1>1 DEF EmptyGroups, GroupView
<1> HIDE DEF e
<1>4. IsSeq(gops) /\ Len(gops) = 1 /\ gops[1] = e
  BY <1>1, OneElement
<1>5. \A k \in 1 .. Len(gops) : k = 1
  BY <1>4
<1>6. 1 \in 1 .. Len(gops)
  BY <1>4
<1>7. QED
  BY <1>2, <1>3, <1>4, <1>5, <1>6, Zenon DEF GroupsInv

\* A set of numbers has a least member, which Min chooses.
LEMMA LeastMember ==
    ASSUME NEW S, S \subseteq Nat, S # {}
    PROVE  Min(S) \in S /\ \A y \in S : Min(S) <= y
<1> DEFINE R == OpToRel(<, Nat)
<1>1. IsWellFoundedOn(R, Nat)
  BY NatLessThanWellFounded, Zenon
<1>2. R = {ss \in Nat \X Nat : ss[1] < ss[2]}
  BY Zenon DEF OpToRel
<1> HIDE DEF R
<1>3. PICK x \in S : \A y \in S : ~(<<y, x>> \in R)
  BY <1>1, WFMin
<1>4. ASSUME NEW y \in S PROVE x <= y
  <2>1. <<y, x>> \in Nat \X Nat /\ <<y, x>>[1] = y /\ <<y, x>>[2] = x
    OBVIOUS
  <2>2. ~(y < x)
    BY <1>2, <1>3, <2>1
  <2>3. x \in Nat /\ y \in Nat
    OBVIOUS
  <2>4. QED BY <2>2, <2>3
<1>5. QED
  BY <1>4 DEF Min

First == Min(Gids)

\* What a chain has from the server about the groups t, of which the gids in f
\* were never used: answers that no change has overtaken are up to date, and the
\* first group, which only a drop removes, is in every list as long as it exists.
Answered(op, t, f) ==
    /\ op.stale \in BOOLEAN
    /\ op.at = "listed" => /\ op.ans \subseteq Gids
                           /\ First \in DOMAIN t => First \in op.ans
                           /\ ~op.stale => op.ans = DOMAIN t
    /\ op.at = "membered" /\ ~op.stale => op.of \in DOMAIN t /\ op.ans = t[op.of]
    /\ op.at = "changed" => op.of = op.gid
    /\ op.at = "changed" /\ op.kind = "drop" => op.gid \notin DOMAIN t /\ op.gid \notin f

\* The chains that will bring the members of group g, and the list.
Brings(op, g) ==
    \/ op.at \in {"members", "membered"} /\ op.of = g
    \/ op.at = "changed" /\ op.gid = g
    \/ op.kind = "create" /\ op.at # "change" /\ op.gid = g
    \/ op.kind = "load" /\ op.at \in {"list", "listed"} /\ op.sel = 0 /\ g = First
BringsList(op) ==
    \/ op.at \in {"list", "listed"}
    \/ op.at = "changed" /\ op.kind \in {"create", "drop"}

Cached(v, g, m) == g \in DOMAIN v.cache /\ v.cache[g] = m

\* As long as nothing fails, the list is right, overtaken or on its way, and so
\* are the members of every group.
TeamShown(v, ops, t, out) ==
    /\ 0 \in out \/ v.list = DOMAIN t \/ \E k \in 1 .. Len(ops) : BringsList(ops[k])
    /\ \A g \in DOMAIN t \ out :
          Cached(v, g, t[g]) \/ \E k \in 1 .. Len(ops) : Brings(ops[k], g)

\* The ids: a gid is a group, was one or is still fresh; the first is never fresh.
GidsInv ==
    /\ DOMAIN team \subseteq Gids /\ fresh \subseteq Gids \ {First}
    /\ DOMAIN team \cap fresh = {}

TeamInv ==
    /\ world \in Worlds /\ gfails \in Nat /\ GidsInv
    /\ gfails = 0 =>
          /\ \A k \in 1 .. Len(gops) : Answered(gops[k], team, fresh)
          /\ TeamShown(gview, gops, team, outdated)

\* The first group is the one chosen from every list that has it.
LEMMA FirstIsLeast ==
    /\ First \in Gids /\ First # 0 /\ 0 \notin Gids
    /\ \A S \in SUBSET Gids : First \in S => S # {} /\ Min(S) = First
<1>1. First \in Gids /\ \A y \in Gids : First <= y
  BY GidsAssumption, LeastMember DEF First
<1>2. ASSUME NEW S \in SUBSET Gids, First \in S PROVE Min(S) = First
  <2>1. Min(S) \in S /\ \A y \in S : Min(S) <= y
    BY <1>2, GidsAssumption, LeastMember
  <2>2. Min(S) \in Nat /\ First \in Nat /\ Min(S) <= First /\ First <= Min(S)
    BY <1>1, <1>2, <2>1, GidsAssumption
  <2>3. QED BY <2>2
<1>3. QED
  BY <1>1, <1>2, GidsAssumption

\* A step that starts no chain but lets one go on as e: what the others bring
\* they still bring.
LEMMA TeamGoesOn ==
    ASSUME TeamInv, UNCHANGED <<world, gfails, team, fresh>>, IsSeq(gops),
           NEW i \in 1 .. Len(gops), NEW e, gops' = [gops EXCEPT ![i] = e],
           gfails = 0 => Answered(e, team, fresh),
           gfails = 0 =>
              \/ 0 \in outdated' \/ gview'.list = DOMAIN team \/ BringsList(e)
              \/ /\ ~BringsList(gops[i]) /\ gview'.list = gview.list
                 /\ 0 \in outdated => 0 \in outdated',
           gfails = 0 =>
              \A g \in DOMAIN team \ outdated' :
                 \/ Cached(gview', g, team[g]) \/ Brings(e, g)
                 \/ /\ g \notin outdated /\ ~Brings(gops[i], g)
                    /\ Cached(gview, g, team[g]) => Cached(gview', g, team[g])
    PROVE  TeamInv'
<1>1. /\ Len(gops') = Len(gops) /\ gops'[i] = e
      /\ \A k \in 1 .. Len(gops) : k # i => gops'[k] = gops[k]
  BY GroupChainReplaced, Zenon
<1>2. SUFFICES ASSUME gfails = 0
               PROVE  /\ \A k \in 1 .. Len(gops') : Answered(gops'[k], team, fresh)
                      /\ TeamShown(gview', gops', team, outdated')
  BY Zenon DEF TeamInv, GidsInv
<1>3. /\ \A k \in 1 .. Len(gops) : Answered(gops[k], team, fresh)
      /\ TeamShown(gview, gops, team, outdated)
  BY <1>2 DEF TeamInv
<1>4. \A k \in 1 .. Len(gops') : Answered(gops'[k], team, fresh)
  BY <1>1, <1>2, <1>3, Zenon
<1>5. \/ 0 \in outdated' \/ gview'.list = DOMAIN team
      \/ \E k \in 1 .. Len(gops') : BringsList(gops'[k])
  <2>1. CASE BringsList(e)
    BY <1>1, <2>1, Zenon
  <2>2. CASE ~BringsList(gops[i]) /\ gview'.list = gview.list /\ (0 \in outdated => 0 \in outdated')
    BY <1>1, <1>3, <2>2, Zenon DEF TeamShown
  <2>3. QED BY <1>2, <2>1, <2>2, Zenon
<1>6. ASSUME NEW g \in DOMAIN team \ outdated'
      PROVE  Cached(gview', g, team[g]) \/ \E k \in 1 .. Len(gops') : Brings(gops'[k], g)
  <2>1. CASE Brings(e, g)
    BY <1>1, <2>1, Zenon
  <2>2. CASE /\ g \notin outdated /\ ~Brings(gops[i], g)
             /\ Cached(gview, g, team[g]) => Cached(gview', g, team[g])
    <3>1. Cached(gview, g, team[g]) \/ \E k \in 1 .. Len(gops) : Brings(gops[k], g)
      BY <1>3, <2>2, Zenon DEF TeamShown
    <3>2. QED BY <1>1, <2>2, <3>1, Zenon
  <2>3. QED BY <1>2, <2>1, <2>2, Zenon
<1>7. QED
  BY <1>4, <1>5, <1>6, Zenon DEF TeamShown

\* A chain ends, and nobody waits for it any more.
LEMMA TeamEnds ==
    ASSUME TeamInv, UNCHANGED <<world, gfails, team, fresh>>, IsSeq(gops),
           NEW i \in 1 .. Len(gops), gops' = RemoveAt(gops, i),
           gfails = 0 =>
              \/ 0 \in outdated' \/ gview'.list = DOMAIN team
              \/ /\ ~BringsList(gops[i]) /\ gview'.list = gview.list
                 /\ 0 \in outdated => 0 \in outdated',
           gfails = 0 =>
              \A g \in DOMAIN team \ outdated' :
                 \/ Cached(gview', g, team[g])
                 \/ /\ g \notin outdated /\ ~Brings(gops[i], g)
                    /\ Cached(gview, g, team[g]) => Cached(gview', g, team[g])
    PROVE  TeamInv'
<1>1. /\ \A k \in 1 .. Len(gops') : \E j \in 1 .. Len(gops) : j # i /\ gops'[k] = gops[j]
      /\ \A j \in 1 .. Len(gops) : j # i => \E k \in 1 .. Len(gops') : gops'[k] = gops[j]
  <2> DEFINE r == RemoveAt(gops, i)
  <2>1. /\ \A k \in 1 .. Len(r) : \E j \in 1 .. Len(gops) : j # i /\ r[k] = gops[j]
        /\ \A j \in 1 .. Len(gops) : j # i => \E k \in 1 .. Len(r) : r[k] = gops[j]
    BY RemovedFrom, Zenon
  <2>2. gops' = r
    OBVIOUS
  <2> HIDE DEF r
  <2>3. QED BY <2>1, <2>2, ZenonT(60)
<1>2. SUFFICES ASSUME gfails = 0
               PROVE  /\ \A k \in 1 .. Len(gops') : Answered(gops'[k], team, fresh)
                      /\ TeamShown(gview', gops', team, outdated')
  BY Zenon DEF TeamInv, GidsInv
<1>3. /\ \A k \in 1 .. Len(gops) : Answered(gops[k], team, fresh)
      /\ TeamShown(gview, gops, team, outdated)
  BY <1>2 DEF TeamInv
<1>4. \A k \in 1 .. Len(gops') : Answered(gops'[k], team, fresh)
  BY <1>1, <1>3, Zenon
<1>5. \/ 0 \in outdated' \/ gview'.list = DOMAIN team
      \/ \E k \in 1 .. Len(gops') : BringsList(gops'[k])
  <2>1. CASE ~BringsList(gops[i]) /\ gview'.list = gview.list /\ (0 \in outdated => 0 \in outdated')
    BY <1>1, <1>3, <2>1, Zenon DEF TeamShown
  <2>2. QED BY <1>2, <2>1, Zenon
<1>6. ASSUME NEW g \in DOMAIN team \ outdated'
      PROVE  Cached(gview', g, team[g]) \/ \E k \in 1 .. Len(gops') : Brings(gops'[k], g)
  <2>1. CASE /\ g \notin outdated /\ ~Brings(gops[i], g)
             /\ Cached(gview, g, team[g]) => Cached(gview', g, team[g])
    <3>1. Cached(gview, g, team[g]) \/ \E k \in 1 .. Len(gops) : Brings(gops[k], g)
      BY <1>3, <2>1, Zenon DEF TeamShown
    <3>2. QED BY <1>1, <2>1, <3>1, Zenon
  <2>2. QED BY <1>2, <2>1, Zenon
<1>7. QED
  BY <1>4, <1>5, <1>6, Zenon DEF TeamShown

\* A click: a chain that has no answer yet comes last; list and cache stay.
LEMMA TeamClick ==
    ASSUME TeamInv, UNCHANGED world, IsSeq(gops), NEW e, NEW v, Launch(e, v),
           e.stale = FALSE, e.at \in {"list", "members", "change"},
           v.list = gview.list, v.cache = gview.cache
    PROVE  TeamInv'
<1>0. gops' = Append(gops, e) /\ gview' = v /\ UNCHANGED <<team, fresh, gfails, outdated>>
  BY DEF Launch
<1>1. /\ gops'[Len(gops) + 1] = e
      /\ \A k \in 1 .. Len(gops) : gops'[k] = gops[k]
      /\ 1 .. Len(gops') = (1 .. Len(gops)) \cup {Len(gops) + 1}
  <2> DEFINE r == Append(gops, e)
  <2>1. /\ IsSeq(r) /\ r[Len(gops) + 1] = e
        /\ \A k \in 1 .. Len(gops) : r[k] = gops[k]
        /\ 1 .. Len(r) = (1 .. Len(gops)) \cup {Len(gops) + 1}
    BY AppendedTo, Zenon
  <2>2. gops' = r
    BY <1>0
  <2> HIDE DEF r
  <2>3. QED BY <2>1, <2>2, Zenon
<1>2. SUFFICES ASSUME gfails = 0
               PROVE  /\ \A k \in 1 .. Len(gops') : Answered(gops'[k], team, fresh)
                      /\ TeamShown(gview', gops', team, outdated)
  BY <1>0, Zenon DEF TeamInv, GidsInv
<1>3. /\ \A k \in 1 .. Len(gops) : Answered(gops[k], team, fresh)
      /\ TeamShown(gview, gops, team, outdated)
  BY <1>2 DEF TeamInv
<1>4. Answered(e, team, fresh)
  BY DEF Answered
<1>5. \A k \in 1 .. Len(gops') : Answered(gops'[k], team, fresh)
  BY <1>1, <1>3, <1>4, Zenon
<1>6. QED
  BY <1>0, <1>1, <1>3, <1>5, Zenon DEF TeamShown, Cached

\* Clicks only start chains: what is shown stays, and what was on its way.
LEMMA TeamClicks ==
    ASSUME GroupsInv, TeamInv, UNCHANGED world,
           \/ ClickRefresh \/ SubmitGroup \/ RemoveGroup
           \/ \E g \in Gids : SelectGroup(g)
           \/ \E u \in Others : SubmitMember(u) \/ RemoveMember(u)
    PROVE  TeamInv'
<1> DEFINE Same(v) == v.list = gview.list /\ v.cache = gview.cache
           Loads == [gview EXCEPT !.busy = TRUE, !.error = FALSE]
           Sent == [gview EXCEPT !.submitting = TRUE, !.error = FALSE]
           Clean == [gview EXCEPT !.error = FALSE]
           Chosen(g) == [gview EXCEPT !.sel = g, !.error = FALSE]
           New(e) == e.stale = FALSE /\ e.at \in {"list", "members", "change"}
<1>1. Same(Loads) /\ Same(Sent) /\ Same(Clean) /\ \A g : Same(Chosen(g))
  BY DEF GroupsInv, GroupView
<1>2. \A k, g, u : \A a \in {"list", "members", "change"} : New(Op(k, g, u, a))
  BY DEF Op
<1>3. \A e, v : New(e) /\ Same(v) /\ Launch(e, v) => TeamInv'
  BY TeamClick, Zenon DEF GroupsInv
<1> HIDE DEF New
<1>4. ASSUME NEW g, SelectGroup(g), g \in DOMAIN gview.cache PROVE TeamInv'
  <2>1. gview' = Chosen(g) /\ UNCHANGED <<team, fresh, gops, gfails, outdated>>
    BY <1>4 DEF SelectGroup
  <2>2. Same(gview')
    BY <1>1, <2>1
  <2>3. TeamShown(gview, gops, team, outdated) => TeamShown(gview', gops, team, outdated)
    BY <2>2 DEF TeamShown, Cached
  <2>4. QED
    BY <2>1, <2>3, Zenon DEF TeamInv, GidsInv
<1>5. ASSUME NEW g, SelectGroup(g), g \notin DOMAIN gview.cache PROVE TeamInv'
  <2>1. Launch(Op("select", g, "", "members"), Chosen(g))
    BY <1>5 DEF SelectGroup
  <2> HIDE DEF Same, Chosen
  <2>2. QED BY <1>1, <1>2, <1>3, <2>1, Zenon
<1>6. CASE ClickRefresh
  <2>1. Launch(Op("load", 0, "", "list"), Loads)
    BY <1>6 DEF ClickRefresh
  <2> HIDE DEF Same, Loads
  <2>2. QED BY <1>1, <1>2, <1>3, <2>1, Zenon
<1>7. CASE SubmitGroup
  <2>1. Launch(Op("create", 0, "", "change"), Sent)
    BY <1>7 DEF SubmitGroup
  <2> HIDE DEF Same, Sent
  <2>2. QED BY <1>1, <1>2, <1>3, <2>1, Zenon
<1>8. CASE RemoveGroup
  <2>1. Launch(Op("drop", SelectedGroup(gview), "", "change"), Clean)
    BY <1>8 DEF RemoveGroup
  <2> HIDE DEF Same, Clean
  <2>2. QED BY <1>1, <1>2, <1>3, <2>1, Zenon
<1>9. ASSUME NEW u, SubmitMember(u) PROVE TeamInv'
  <2>1. Launch(Op("add", SelectedGroup(gview), u, "change"), Sent)
    BY <1>9 DEF SubmitMember
  <2> HIDE DEF Same, Sent
  <2>2. QED BY <1>1, <1>2, <1>3, <2>1, Zenon
<1>10. ASSUME NEW u, RemoveMember(u) PROVE TeamInv'
  <2>1. Launch(Op("remove", SelectedGroup(gview), u, "change"), Clean)
    BY <1>10 DEF RemoveMember
  <2> HIDE DEF Same, Clean
  <2>2. QED BY <1>1, <1>2, <1>3, <2>1, Zenon
<1>11. QED
  BY <1>4, <1>5, <1>6, <1>7, <1>8, <1>9, <1>10, Zenon

\* After a failure nothing is said any more.
LEMMA TeamFails ==
    ASSUME TeamInv, UNCHANGED world, NEW i, OpFails(i)
    PROVE  TeamInv'
<1>1. world.fails \in Nat /\ gfails \in Nat
  BY WorldsAssumption DEF TeamInv
<1>2. /\ gfails' = IF gfails < world.fails + 1 THEN gfails + 1 ELSE gfails
      /\ UNCHANGED <<team, fresh>>
  BY DEF OpFails
<1>3. gfails' \in Nat /\ gfails' # 0
  BY <1>1, <1>2
<1>4. QED
  BY <1>2, <1>3 DEF TeamInv, GidsInv

\* The server lists the groups, or the members of one.
LEMMA TeamAnswers ==
    ASSUME GroupsInv, TeamInv, UNCHANGED world, NEW i \in 1 .. Len(gops),
           ServeGroups(i) \/ ServeMembers(i)
    PROVE  TeamInv'
<1> DEFINE op == gops[i]
<1>1. GroupChain(op) /\ IsSeq(gops)
  BY DEF GroupsInv
<1>2. UNCHANGED <<team, fresh, gview, gfails, outdated>>
  BY DEF ServeGroups, ServeMembers
<1>3. DOMAIN team \subseteq Gids
  BY DEF TeamInv, GidsInv
<1>4. CASE ServeGroups(i)
  <2> DEFINE e == [op EXCEPT !.at = "listed", !.ans = DOMAIN team, !.stale = FALSE]
  <2>1. op.at = "list" /\ gops' = [gops EXCEPT ![i] = e]
    BY <1>1, <1>4, ChainSteps, ZenonT(60) DEF ServeGroups
  <2>2. /\ e.at = "listed" /\ e.ans = DOMAIN team /\ e.stale = FALSE
        /\ e.kind = op.kind /\ e.gid = op.gid /\ e.sel = op.sel
    BY <1>1 DEF GroupChain
  <2> HIDE DEF e
  <2>3. Answered(e, team, fresh) /\ BringsList(e)
    BY <1>3, <2>2 DEF Answered, BringsList
  <2>4. \A g : Brings(op, g) => Brings(e, g)
    BY <2>1, <2>2 DEF Brings
  <2>5. QED
    BY <1>1, <1>2, <2>1, <2>3, <2>4, TeamGoesOn, Zenon
<1>5. CASE ServeMembers(i)
  <2> DEFINE m == team[op.of]
             e == [op EXCEPT !.at = "membered", !.ans = m, !.stale = FALSE]
  <2>1. op.at = "members" /\ op.of \in DOMAIN team /\ gops' = [gops EXCEPT ![i] = e]
    BY <1>1, <1>5, ChainSteps, ZenonT(60) DEF ServeMembers
  <2>2. /\ e.at = "membered" /\ e.ans = team[op.of] /\ e.stale = FALSE /\ e.of = op.of
        /\ e.kind = op.kind /\ e.gid = op.gid /\ e.sel = op.sel
    BY <1>1 DEF GroupChain
  <2> HIDE DEF e
  <2>3. Answered(e, team, fresh) /\ ~BringsList(op)
    BY <2>1, <2>2 DEF Answered, BringsList
  <2>4. \A g : Brings(op, g) => Brings(e, g)
    BY <2>1, <2>2 DEF Brings
  <2>5. QED
    BY <1>1, <1>2, <2>1, <2>3, <2>4, TeamGoesOn, Zenon
<1>6. QED BY <1>4, <1>5

\* A change is done: the chain that asked for it loads again what it changed.
LEMMA TeamChangeArrives ==
    ASSUME GroupsInv, TeamInv, UNCHANGED world, NEW i \in 1 .. Len(gops), ChangeArrives(i)
    PROVE  TeamInv'
<1> DEFINE op == gops[i]
           c == [g \in DOMAIN gview.cache \ {op.gid} |-> gview.cache[g]]
           v == IF op.kind = "drop" THEN [gview EXCEPT !.cache = c] ELSE gview
           a == IF op.kind \in {"add", "remove"} THEN "members" ELSE "list"
           e == [op EXCEPT !.at = a]
<1>1. GroupChain(op) /\ IsSeq(gops) /\ GroupView(gview) /\ op.at = "changed"
  BY DEF GroupsInv, ChangeArrives
<1>2. op.kind \in {"create", "add", "remove", "drop"}
  BY <1>1 DEF GroupChain
<1>3. /\ gops' = [gops EXCEPT ![i].at = a]
      /\ gview' = IF op.kind \in {"add", "remove"} THEN v
                  ELSE [v EXCEPT !.busy = TRUE, !.error = FALSE]
      /\ UNCHANGED <<team, fresh, gfails, outdated>>
  BY DEF ChangeArrives
<1>4. gops' = [gops EXCEPT ![i] = e]
  BY <1>1, <1>3, ChainSteps, Zenon
<1>5. /\ e.at = a /\ e.kind = op.kind /\ e.gid = op.gid /\ e.of = op.of /\ e.sel = op.sel
      /\ e.stale = op.stale
  BY <1>1 DEF GroupChain
<1>6. /\ gview'.list = gview.list
      /\ gview'.cache = IF op.kind = "drop" THEN c ELSE gview.cache
  BY <1>1, <1>2, <1>3 DEF GroupView
<1> HIDE DEF e, v
<1>7. ASSUME gfails = 0 PROVE Answered(op, team, fresh)
  BY <1>7 DEF TeamInv
<1>8. ASSUME gfails = 0 PROVE Answered(e, team, fresh)
  BY <1>5, <1>7, <1>8 DEF Answered
<1>9. BringsList(op) => BringsList(e)
  BY <1>1, <1>5 DEF BringsList
<1>10. ASSUME gfails = 0, NEW g \in DOMAIN team
       PROVE  /\ Brings(op, g) => Brings(e, g)
              /\ Cached(gview, g, team[g]) => Cached(gview', g, team[g])
  <2>1. op.of = op.gid /\ (op.kind = "drop" => g # op.gid)
    BY <1>1, <1>7, <1>10 DEF Answered
  <2>2. Brings(op, g) => op.gid = g
    BY <1>1, <1>2 DEF Brings
  <2>3. op.gid = g => Brings(e, g)
    BY <1>2, <1>5, <2>1 DEF Brings
  <2>4. Cached(gview, g, team[g]) => Cached(gview', g, team[g])
    BY <1>6, <2>1 DEF Cached
  <2>5. QED BY <2>2, <2>3, <2>4
<1>11. QED
  BY <1>1, <1>3, <1>4, <1>6, <1>8, <1>9, <1>10, TeamGoesOn, Zenon

\* A change is served: it overtakes the answers about what it changes, and its
\* own chain will bring that.
Changes(t, f, u, h, g, l) ==
    /\ DOMAIN u \subseteq DOMAIN t \cup f /\ h \subseteq f
    /\ First \in DOMAIN u => First \in DOMAIN t
    /\ l \/ DOMAIN u = DOMAIN t
    /\ \A x \in DOMAIN t : x # g => x \in DOMAIN u /\ u[x] = t[x]

\* A chain under way when a change is served: it is marked where its answer is no longer right.
LEMMA OvertakenAnswer ==
    ASSUME NEW op, GroupChain(op), NEW t, NEW f, Answered(op, t, f), NEW g, NEW l,
           NEW u, NEW h, Changes(t, f, u, h, g, l)
    PROVE  LET e == Overtaken(op, g, l)
           IN  /\ Answered(e, u, h)
               /\ e.kind = op.kind /\ e.at = op.at /\ e.gid = op.gid /\ e.of = op.of
               /\ e.sel = op.sel
<1> DEFINE s == \/ op.stale
                \/ op.at = "membered" /\ op.of = g
                \/ op.at = "listed" /\ l
           e == [op EXCEPT !.stale = s]
<1>1. /\ e.kind = op.kind /\ e.at = op.at /\ e.gid = op.gid /\ e.of = op.of
      /\ e.sel = op.sel /\ e.ans = op.ans /\ e.stale = s
  BY DEF GroupChain
<1>2. Overtaken(op, g, l) = e
  BY DEF Overtaken
<1> HIDE DEF e
<1>3. Answered(e, u, h)
  BY <1>1, ZenonT(60) DEF Answered, Changes
<1>4. QED BY <1>1, <1>2, <1>3

\* A change is served: the page is overtaken, or the chain of the change brings it.
LEMMA TeamChanges ==
    ASSUME GroupsInv, TeamInv, UNCHANGED world, NEW i \in 1 .. Len(gops), ServeChange(i)
    PROVE  TeamInv'
<1> DEFINE op == gops[i]
           g == IF op.kind = "create" THEN Min(fresh) ELSE op.gid
           l == op.kind \in {"create", "drop"}
           e == [op EXCEPT !.at = "changed", !.gid = g, !.of = g]
<1>1. /\ IsSeq(gops) /\ (\A k \in 1 .. Len(gops) : GroupChain(gops[k]))
      /\ DOMAIN gops = 1 .. Len(gops) /\ op.at = "change"
  BY SequenceLength DEF GroupsInv, ServeChange
<1>2. op.kind \in {"create", "add", "remove", "drop"}
  BY <1>1 DEF GroupChain
<1>3. GidsInv
  BY DEF TeamInv
<1>4. UNCHANGED <<gview, gfails, outdated>>
  BY DEF ServeChange
<1>5. gops' = [k \in 1 .. Len(gops) |-> IF k = i THEN e ELSE Overtaken(gops[k], g, l)]
  BY <1>1 DEF ServeChange
<1>6. /\ op.kind = "create" => g \in fresh
      /\ op.kind # "create" => g \in DOMAIN team
  <2>1. op.kind = "create" => fresh # {} /\ fresh \subseteq Nat
    BY <1>3, GidsAssumption DEF ServeChange, GidsInv
  <2>2. op.kind = "create" => Min(fresh) \in fresh
    BY <2>1, LeastMember
  <2>3. op.kind # "create" => g \in DOMAIN team
    BY DEF ServeChange
  <2>4. QED BY <2>2, <2>3
<1>7. /\ DOMAIN team' = CASE op.kind = "create" -> DOMAIN team \cup {g}
                          [] op.kind = "drop" -> DOMAIN team \ {g}
                          [] OTHER -> DOMAIN team
      /\ \A x \in DOMAIN team : x # g => x \in DOMAIN team' /\ team'[x] = team[x]
      /\ fresh' = IF op.kind = "create" THEN fresh \ {g} ELSE fresh
  <2> HIDE DEF g
  <2>1. CASE op.kind = "create"
    <3>1. team' = [h \in DOMAIN team \cup {g} |-> IF h = g THEN {} ELSE team[h]]
      BY <2>1 DEF ServeChange, g
    <3>2. fresh' = fresh \ {g}
      BY <2>1 DEF ServeChange, g
    <3>3. QED BY <2>1, <3>1, <3>2
  <2>2. CASE op.kind = "drop"
    <3>1. team' = [h \in DOMAIN team \ {g} |-> team[h]]
      BY <2>2 DEF ServeChange, g
    <3>2. fresh' = fresh
      BY <2>2 DEF ServeChange, g
    <3>3. QED BY <2>2, <3>1, <3>2
  <2>3. CASE op.kind \in {"add", "remove"}
    <3>1. PICK m : team' = [team EXCEPT ![g] = m]
      BY <2>3 DEF ServeChange, g
    <3>2. fresh' = fresh
      BY <2>3 DEF ServeChange, g
    <3>3. QED BY <1>6, <2>3, <3>1, <3>2
  <2>4. QED BY <1>2, <2>1, <2>2, <2>3
<1> HIDE DEF g
<1>8. /\ DOMAIN team' \subseteq DOMAIN team \cup fresh /\ fresh' \subseteq fresh
      /\ First \in DOMAIN team' => First \in DOMAIN team
      /\ l \/ DOMAIN team' = DOMAIN team
      /\ op.kind = "drop" => g \notin DOMAIN team' /\ g \notin fresh'
      /\ \A x \in DOMAIN team' : x = g \/ x \in DOMAIN team
      /\ DOMAIN team' \cap fresh' = {}
  BY <1>2, <1>3, <1>6, <1>7 DEF GidsInv
<1>9. GidsInv'
  <2>1. DOMAIN team' \subseteq Gids /\ fresh' \subseteq Gids \ {First}
    BY <1>3, <1>8 DEF GidsInv
  <2>2. QED BY <1>8, <2>1 DEF GidsInv, First
<1>10. SUFFICES ASSUME gfails = 0
                PROVE  /\ \A k \in 1 .. Len(gops') : Answered(gops'[k], team', fresh')
                       /\ TeamShown(gview, gops', team', outdated)
  <2>1. world' \in Worlds /\ gfails' \in Nat
    BY <1>4 DEF TeamInv
  <2>2. QED BY <1>4, <1>9, <1>10, <2>1 DEF TeamInv
<1>11. /\ \A k \in 1 .. Len(gops) : Answered(gops[k], team, fresh)
       /\ TeamShown(gview, gops, team, outdated)
  BY <1>10 DEF TeamInv
<1>12. /\ e.at = "changed" /\ e.gid = g /\ e.of = g /\ e.kind = op.kind /\ e.stale = op.stale
  BY <1>1 DEF GroupChain
<1>13. /\ Len(gops') = Len(gops) /\ gops'[i] = e
       /\ \A k \in 1 .. Len(gops) : k # i => gops'[k] = Overtaken(gops[k], g, l)
  <2> HIDE DEF e
  <2>1. /\ gops' = [k \in 1 .. Len(gops) |-> gops'[k]] /\ gops'[i] = e
        /\ \A k \in 1 .. Len(gops) : k # i => gops'[k] = Overtaken(gops[k], g, l)
    BY <1>5
  <2>2. QED BY <1>1, <2>1, MappedSequence
<1> HIDE DEF e
<1>14. Answered(e, team', fresh')
  BY <1>8, <1>11, <1>12, Zenon DEF Answered
<1>15. ASSUME NEW k \in 1 .. Len(gops), k # i
       PROVE  /\ Answered(gops'[k], team', fresh')
              /\ gops'[k].kind = gops[k].kind /\ gops'[k].at = gops[k].at
              /\ gops'[k].gid = gops[k].gid /\ gops'[k].of = gops[k].of
              /\ gops'[k].sel = gops[k].sel
  <2>1. PICK x, y : x = g /\ y = l
    OBVIOUS
  <2>2. /\ GroupChain(gops[k]) /\ Answered(gops[k], team, fresh)
        /\ Changes(team, fresh, team', fresh', x, y)
    BY <1>1, <1>7, <1>8, <1>11, <2>1 DEF Changes
  <2>3. gops'[k] = Overtaken(gops[k], x, y)
    BY <1>13, <1>15, <2>1
  <2>4. QED BY <2>2, <2>3, OvertakenAnswer
<1>16. \A k \in 1 .. Len(gops') : Answered(gops'[k], team', fresh')
  BY <1>13, <1>14, <1>15, Zenon
<1>17. ASSUME NEW k \in 1 .. Len(gops)
       PROVE  /\ BringsList(gops[k]) => BringsList(gops'[k])
              /\ \A x : Brings(gops[k], x) => Brings(gops'[k], x)
  <2>1. CASE k = i
    BY <1>1, <1>2, <2>1 DEF Brings, BringsList
  <2>2. CASE k # i
    BY <1>15, <2>2, Zenon DEF Brings, BringsList
  <2>3. QED BY <2>1, <2>2
<1>18. \/ 0 \in outdated \/ gview.list = DOMAIN team'
       \/ \E k \in 1 .. Len(gops') : BringsList(gops'[k])
  <2>1. CASE l
    <3>1. BringsList(gops'[i]) /\ i \in 1 .. Len(gops')
      BY <1>12, <1>13, <2>1 DEF BringsList
    <3>2. QED BY <3>1
  <2>2. CASE ~l
    <3>1. DOMAIN team' = DOMAIN team
      BY <1>8, <2>2
    <3>2. QED BY <1>11, <1>13, <1>17, <3>1, Zenon DEF TeamShown
  <2>3. QED BY <2>1, <2>2, Zenon
<1>19. ASSUME NEW x \in DOMAIN team' \ outdated
       PROVE  Cached(gview, x, team'[x]) \/ \E k \in 1 .. Len(gops') : Brings(gops'[k], x)
  <2>1. CASE x = g
    <3>1. Brings(gops'[i], x) /\ i \in 1 .. Len(gops')
      BY <1>12, <1>13, <2>1 DEF Brings
    <3>2. QED BY <3>1
  <2>2. CASE x # g
    <3>1. x \in DOMAIN team \ outdated /\ team'[x] = team[x]
      BY <1>7, <1>8, <1>19, <2>2
    <3>2. Cached(gview, x, team[x]) \/ \E k \in 1 .. Len(gops) : Brings(gops[k], x)
      BY <1>11, <3>1, Zenon DEF TeamShown
    <3>3. QED BY <1>13, <1>17, <3>1, <3>2, Zenon
  <2>3. QED BY <2>1, <2>2, Zenon
<1>20. QED
  BY <1>16, <1>18, <1>19, Zenon DEF TeamShown

\* What follows loadGroups.
LEMMA TeamAfterGroups ==
    ASSUME GroupsInv, TeamInv, UNCHANGED <<world, gfails, team, fresh>>,
           NEW i \in 1 .. Len(gops), NEW v, GroupView(v), AfterGroups(i, v),
           gfails = 0 =>
              \/ 0 \in outdated' \/ v.list = DOMAIN team
              \/ /\ ~BringsList(gops[i]) /\ v.list = gview.list
                 /\ 0 \in outdated => 0 \in outdated',
           gfails = 0 =>
              \A g \in DOMAIN team \ outdated' :
                 \/ Cached(v, g, team[g]) \/ (gops[i].kind = "create" /\ gops[i].gid = g)
                 \/ /\ g \notin outdated /\ ~Brings(gops[i], g)
                    /\ Cached(gview, g, team[g]) => Cached(v, g, team[g])
    PROVE  TeamInv'
<1> DEFINE op == gops[i]
<1>1. GroupChain(op) /\ IsSeq(gops)
  BY DEF GroupsInv
<1>2. CASE op.kind = "create"
  <2> DEFINE e == [op EXCEPT !.kind = "created", !.at = "members", !.of = op.gid]
  <2>1. /\ gops' = [gops EXCEPT ![i] = e]
        /\ gview' = [ChainOver(v, [op EXCEPT !.kind = "load"])
                        EXCEPT !.sel = op.gid, !.error = FALSE]
    BY <1>2 DEF AfterGroups
  <2>2. e.kind = "created" /\ e.at = "members" /\ e.of = op.gid /\ e.stale = op.stale
    BY <1>1 DEF GroupChain
  <2>3. gview'.list = v.list /\ gview'.cache = v.cache
    BY <2>1 DEF GroupView, ChainOver
  <2> HIDE DEF e
  <2>4. ASSUME gfails = 0 PROVE Answered(e, team, fresh)
    <3>1. Answered(op, team, fresh)
      BY <2>4 DEF TeamInv
    <3>2. QED BY <2>2, <3>1 DEF Answered
  <2>5. \A g : op.gid = g => Brings(e, g)
    BY <2>2 DEF Brings
  <2>6. \A g, m : Cached(v, g, m) <=> Cached(gview', g, m)
    BY <2>3 DEF Cached
  <2>7. QED
    BY <1>1, <2>1, <2>3, <2>4, <2>5, <2>6, TeamGoesOn, Zenon
<1>3. CASE op.kind # "create"
  <2>1. gops' = RemoveAt(gops, i) /\ gview' = ChainOver(v, op)
    BY <1>3 DEF AfterGroups
  <2>2. gview'.list = v.list /\ gview'.cache = v.cache
    BY <2>1 DEF GroupView, ChainOver
  <2>3. \A g, m : Cached(v, g, m) <=> Cached(gview', g, m)
    BY <2>2 DEF Cached
  <2>4. QED
    BY <1>1, <1>3, <2>1, <2>2, <2>3, TeamEnds, Zenon
<1>4. QED BY <1>2, <1>3, Zenon

\* The list arrives: it is up to date or known to be overtaken; the group that
\* a load without a selection selects is the first one.
LEMMA TeamListArrives ==
    ASSUME GroupsInv, TeamInv, UNCHANGED world, NEW i \in 1 .. Len(gops), GroupsArrive(i)
    PROVE  TeamInv'
<1> DEFINE op == gops[i]
           next == CASE op.sel \in op.ans -> op.sel
                     [] op.sel \notin op.ans /\ op.ans # {} -> Min(op.ans)
                     [] OTHER -> 0
           v == [gview EXCEPT !.list = op.ans, !.sel = next]
<1>1. GroupChain(op) /\ IsSeq(gops) /\ GroupView(gview) /\ op.at = "listed"
  BY DEF GroupsInv, GroupsArrive
<1>2. /\ UNCHANGED <<team, fresh, gfails>>
      /\ outdated' = IF op.stale THEN outdated \cup {0} ELSE outdated \ {0}
      /\ IF next # 0
         THEN /\ gops' = [gops EXCEPT ![i].at = "members", ![i].of = next]
              /\ gview' = v
         ELSE AfterGroups(i, v)
  BY Zenon DEF GroupsArrive
<1>3. ASSUME gfails = 0, op.kind = "load", op.sel = 0, First \in DOMAIN team
      PROVE  next = First /\ next # 0
  <2>1. op.ans \in SUBSET Gids /\ First \in op.ans
    BY <1>1, <1>3 DEF TeamInv, Answered
  <2>2. op.ans # {} /\ Min(op.ans) = First /\ 0 \notin op.ans /\ First # 0
    BY <2>1, FirstIsLeast
  <2>3. QED BY <1>3, <2>2
<1> HIDE DEF next
<1>4. GroupView(v) /\ v.list = op.ans /\ v.cache = gview.cache
  BY <1>1 DEF GroupView
<1>5. ASSUME gfails = 0 PROVE Answered(op, team, fresh)
  BY <1>5 DEF TeamInv
<1>6. ASSUME gfails = 0 PROVE 0 \in outdated' \/ v.list = DOMAIN team
  BY <1>1, <1>2, <1>4, <1>5, <1>6 DEF Answered
<1>7. ASSUME NEW g \in DOMAIN team \ outdated' PROVE g \notin outdated
  <2>1. g # 0
    BY FirstIsLeast DEF TeamInv, GidsInv
  <2>2. QED BY <1>2, <1>7, <2>1
<1>8. \A g, m : Cached(gview, g, m) => Cached(v, g, m)
  BY <1>4 DEF Cached
<1> HIDE DEF v
<1>9. ASSUME NEW g, Brings(op, g)
      PROVE  \/ op.kind = "create" /\ op.gid = g
             \/ op.kind = "load" /\ op.sel = 0 /\ g = First
  BY <1>1, <1>9 DEF Brings
<1>10. CASE next # 0
  <2> DEFINE e == [op EXCEPT !.at = "members", !.of = next]
  <2>1. gops' = [gops EXCEPT ![i].at = "members", ![i].of = next] /\ gview' = v
    BY <1>2, <1>10
  <2>2. gops' = [gops EXCEPT ![i] = e]
    BY <1>1, <2>1, ChainSteps, ZenonT(60)
  <2>3. /\ e.kind = op.kind /\ e.at = "members" /\ e.of = next /\ e.gid = op.gid
        /\ e.stale = op.stale
    BY <1>1 DEF GroupChain
  <2> HIDE DEF e
  <2>4. ASSUME gfails = 0 PROVE Answered(e, team, fresh)
    BY <1>5, <2>3, <2>4 DEF Answered
  <2>5. ASSUME gfails = 0, NEW g \in DOMAIN team, Brings(op, g) PROVE Brings(e, g)
    BY <1>3, <1>9, <2>3, <2>5 DEF Brings
  <2>6. ASSUME gfails = 0, NEW g \in DOMAIN team \ outdated'
        PROVE  \/ Cached(gview', g, team[g]) \/ Brings(e, g)
               \/ /\ g \notin outdated /\ ~Brings(gops[i], g)
                  /\ Cached(gview, g, team[g]) => Cached(gview', g, team[g])
    BY <1>7, <1>8, <2>1, <2>5, <2>6, Zenon
  <2>7. QED
    BY <1>1, <1>2, <1>6, <2>1, <2>2, <2>4, <2>6, TeamGoesOn, Zenon
<1>11. CASE next = 0
  <2>1. AfterGroups(i, v)
    BY <1>2, <1>11
  <2>2. ASSUME gfails = 0, NEW g \in DOMAIN team \ outdated'
        PROVE  \/ op.kind = "create" /\ op.gid = g
               \/ g \notin outdated /\ ~Brings(op, g)
    BY <1>3, <1>7, <1>9, <1>11, <2>2
  <2>3. QED
    BY <1>2, <1>4, <1>6, <1>8, <2>1, <2>2, TeamAfterGroups, Zenon
<1>12. QED BY <1>10, <1>11, Zenon

\* The members arrive.
LEMMA TeamMembersArrive ==
    ASSUME GroupsInv, TeamInv, UNCHANGED world, NEW i \in 1 .. Len(gops), MembersArrive(i)
    PROVE  TeamInv'
<1> DEFINE op == gops[i]
           c == [g \in DOMAIN gview.cache \cup {op.of} |->
                    IF g = op.of THEN op.ans ELSE gview.cache[g]]
           v == [gview EXCEPT !.cache = c]
           last == IF op.kind = "created" THEN [op EXCEPT !.kind = "create"] ELSE op
<1>1. GroupChain(op) /\ IsSeq(gops) /\ GroupView(gview) /\ op.at = "membered"
  BY DEF GroupsInv, MembersArrive
<1>2. /\ UNCHANGED <<team, fresh, gfails>>
      /\ outdated' = IF op.stale THEN outdated \cup {op.of} ELSE outdated \ {op.of}
      /\ IF op.kind \in {"load", "create", "drop"} THEN AfterGroups(i, v)
         ELSE gops' = RemoveAt(gops, i) /\ gview' = ChainOver(v, last)
  BY DEF MembersArrive
<1>3. GroupView(v) /\ v.list = gview.list /\ v.cache = c
  BY <1>1 DEF GroupView
<1>4. ASSUME gfails = 0
      PROVE  /\ Answered(op, team, fresh) /\ op.stale \in BOOLEAN
             /\ ~op.stale => op.of \in DOMAIN team /\ op.of # 0 /\ op.ans = team[op.of]
  <2>1. Answered(op, team, fresh)
    BY <1>4 DEF TeamInv
  <2>2. DOMAIN team \subseteq Gids
    BY DEF TeamInv, GidsInv
  <2>3. QED BY <1>1, <2>1, <2>2, FirstIsLeast DEF Answered
<1>5. ASSUME gfails = 0 PROVE ~BringsList(op) /\ (0 \in outdated => 0 \in outdated')
  BY <1>1, <1>2, <1>4, <1>5 DEF BringsList
<1>6. ASSUME NEW g \in DOMAIN c, NEW m
      PROVE  /\ g = op.of => (Cached(v, g, m) <=> op.ans = m)
             /\ g # op.of => (Cached(gview, g, m) => Cached(v, g, m))
  BY <1>3 DEF Cached
<1>7. DOMAIN c = DOMAIN gview.cache \cup {op.of}
  OBVIOUS
<1> HIDE DEF c, v
<1>8. ASSUME gfails = 0, NEW g \in DOMAIN team \ outdated'
      PROVE  \/ Cached(v, g, team[g]) \/ (op.kind = "create" /\ op.gid = g)
             \/ /\ g \notin outdated /\ ~Brings(op, g)
                /\ Cached(gview, g, team[g]) => Cached(v, g, team[g])
  <2>1. CASE g = op.of
    <3>1. ~op.stale
      BY <1>2, <1>4, <1>8, <2>1
    <3>2. QED BY <1>4, <1>6, <1>7, <1>8, <2>1, <3>1
  <2>2. CASE g # op.of
    <3>1. g \notin outdated
      BY <1>2, <1>8, <2>2
    <3>2. Brings(op, g) => op.kind = "create" /\ op.gid = g
      BY <1>1, <2>2 DEF Brings
    <3>3. Cached(gview, g, team[g]) => Cached(v, g, team[g])
      BY <1>6, <1>7, <2>2 DEF Cached
    <3>4. QED BY <3>1, <3>2, <3>3
  <2>3. QED BY <2>1, <2>2, Zenon
<1>9. CASE op.kind \in {"load", "create", "drop"}
  <2>1. AfterGroups(i, v)
    BY <1>2, <1>9
  <2>2. QED
    BY <1>2, <1>3, <1>5, <1>8, <2>1, TeamAfterGroups, Zenon
<1>10. CASE op.kind \notin {"load", "create", "drop"}
  <2>1. gops' = RemoveAt(gops, i) /\ gview' = ChainOver(v, last) /\ op.kind # "create"
    BY <1>2, <1>10
  <2>2. gview'.list = v.list /\ gview'.cache = v.cache
    BY <1>3, <2>1 DEF GroupView, ChainOver
  <2>3. \A g, m : Cached(v, g, m) <=> Cached(gview', g, m)
    BY <2>2 DEF Cached
  <2>4. QED
    BY <1>1, <1>2, <1>3, <1>5, <1>8, <2>1, <2>2, <2>3, TeamEnds, Zenon
<1>11. QED BY <1>9, <1>10, Zenon

\* Every step of the console.
LEMMA NextTeamInv == GroupsInv /\ TeamInv /\ [Next]_wvars => TeamInv'
<1> SUFFICES ASSUME GroupsInv, TeamInv, [Next]_wvars PROVE TeamInv'
  OBVIOUS
<1>1. CASE GroupsNext
  <2>0. UNCHANGED world
    BY <1>1 DEF GroupsNext
  <2>1. CASE \E i \in 1 .. Len(gops) :
                \/ ServeChange(i) \/ ServeGroups(i) \/ ServeMembers(i)
                \/ ChangeArrives(i) \/ GroupsArrive(i) \/ MembersArrive(i) \/ OpFails(i)
    BY <2>0, <2>1, TeamChanges, TeamAnswers, TeamChangeArrives, TeamListArrives,
       TeamMembersArrive, TeamFails, Zenon
  <2>2. QED
    BY <1>1, <2>0, <2>1, TeamClicks, Zenon DEF GroupsNext
<1>2. CASE UNCHANGED <<world, gvars>>
  BY <1>2 DEF gvars, TeamInv, GidsInv
<1>3. QED
  BY <1>1, <1>2
     DEF Next, wvars, ResultPage, CreationPages, Timeline, FlamePages, SessionOfTab, Groups,
         Lists, Settings, ResultNext, CreationNext, TimelineNext, FlameNext, SessionNext,
         ListNext, SettingsNext

\* The page of groups when it is opened waits for its load.
LEMMA TeamInitInv == Init => TeamInv
<1> SUFFICES ASSUME Init PROVE TeamInv
  OBVIOUS
<1> DEFINE e == [kind |-> "load", gid |-> 0, uid |-> "", sel |-> 0, at |-> "list",
                 of |-> 0, ans |-> {}, stale |-> FALSE]
<1>1. /\ gops = <<e>> /\ gfails = 0 /\ world \in Worlds /\ fresh = Gids \ {First}
      /\ team = [g \in {First} |-> {CHOOSE u \in Others : TRUE}]
  BY DEF Init, GroupsInit, First
<1>2. Answered(e, team, fresh) /\ BringsList(e) /\ Brings(e, First)
  BY DEF Answered, BringsList, Brings
<1> HIDE DEF e
<1>3. Len(gops) = 1 /\ gops[1] = e
  BY <1>1, OneElement
<1>4. (\A k \in 1 .. Len(gops) : k = 1) /\ 1 \in 1 .. Len(gops)
  BY <1>3
<1>5. DOMAIN team = {First} /\ First \in Gids
  BY <1>1, FirstIsLeast
<1>6. GidsInv
  BY <1>1, <1>5 DEF GidsInv
<1>7. TeamShown(gview, gops, team, outdated)
  BY <1>2, <1>3, <1>4, <1>5, Zenon DEF TeamShown
<1>8. QED
  BY <1>1, <1>2, <1>3, <1>4, <1>6, <1>7 DEF TeamInv

\* Without failures, the page of groups at rest shows what the server holds.
LEMMA TeamIsSettled ==
    ASSUME TeamInv PROVE GroupsSettled
<1> SUFFICES ASSUME gops = <<>>, gfails = 0
             PROVE  /\ 0 \notin outdated => gview.list = DOMAIN team
                    /\ SelectedGroup(gview) \in DOMAIN team \ outdated =>
                          CurrentMembers(gview) = team[SelectedGroup(gview)]
  BY DEF GroupsSettled
<1>1. \A k \in 1 .. Len(gops) : FALSE
  OBVIOUS
<1>2. TeamShown(gview, gops, team, outdated)
  BY DEF TeamInv
<1>3. /\ 0 \notin outdated => gview.list = DOMAIN team
      /\ \A g \in DOMAIN team \ outdated : Cached(gview, g, team[g])
  BY <1>1, <1>2, Zenon DEF TeamShown
<1>4. QED
  BY <1>3 DEF Cached, CurrentMembers

-----------------------------------------------------------------------------
(* The pages of lists.                                                     *)

ListChain(op) ==
    op \in [kind : {op.kind}, id : {op.id}, new : {op.new}, page : {op.page}, kw : {op.kw},
            round : Nat, open : {op.open}, rows : {op.rows}, all : {op.all}, up : {op.up},
            stale : {op.stale}]

ListView(v) ==
    v \in [rows : {v.rows}, total : {v.total}, page : {v.page}, all : {v.all}, up : {v.up},
           stats : {v.stats}, search : {v.search}, asked : {v.asked}, busy : BOOLEAN,
           submitting : BOOLEAN, error : BOOLEAN, outdated : {v.outdated}]

\* A page of a list is busy while a load is under way.
ListsInv ==
    /\ IsSeq(lops) /\ (\A k \in 1 .. Len(lops) : ListChain(lops[k])) /\ ListView(lview)
    /\ Rounds(world.page) # <<>> =>
          /\ lview.busy => \E k \in 1 .. Len(lops) : lops[k].round # 0
          /\ lview.submitting => \E k \in 1 .. Len(lops) : lops[k].kind = "create"

LEMMA ListChainReplaced ==
    ASSUME IsSeq(lops), NEW i \in 1 .. Len(lops), NEW e, lops' = [lops EXCEPT ![i] = e]
    PROVE  /\ IsSeq(lops') /\ Len(lops') = Len(lops) /\ lops'[i] = e
           /\ \A k \in 1 .. Len(lops) : k # i => lops'[k] = lops[k]
<1>1. Len(lops) \in Nat /\ DOMAIN lops = 1 .. Len(lops)
  BY SequenceLength
<1>2. /\ lops' = [k \in 1 .. Len(lops) |-> lops'[k]] /\ lops'[i] = e
      /\ \A k \in 1 .. Len(lops) : k # i => lops'[k] = lops[k]
  BY <1>1
<1>3. IsSeq(lops') /\ Len(lops') = Len(lops)
  BY <1>2, MappedSequence
<1>4. QED
  BY <1>2, <1>3

\* The chains go on; no change is forgotten and no load given up.
LEMMA ListChainsGoOn ==
    ASSUME ListsInv, UNCHANGED world, IsSeq(lops'), Len(lops') = Len(lops), ListView(lview'),
           \A k \in 1 .. Len(lops) :
              /\ ListChain(lops'[k]) /\ lops'[k].kind = lops[k].kind
              /\ lops[k].round # 0 => lops'[k].round # 0,
           lview'.busy => lview.busy \/ \E k \in 1 .. Len(lops) : lops'[k].round # 0,
           lview'.submitting => lview.submitting
    PROVE  ListsInv'
BY Zenon DEF ListsInv, ListChain, ListView

LEMMA ListChainGoesOn ==
    ASSUME ListsInv, UNCHANGED world, NEW i \in 1 .. Len(lops), NEW e, ListChain(e),
           lops' = [lops EXCEPT ![i] = e], e.kind = lops[i].kind,
           lops[i].round # 0 => e.round # 0, ListView(lview'),
           lview'.busy => lview.busy \/ e.round # 0, lview'.submitting => lview.submitting
    PROVE  ListsInv'
<1>0. IsSeq(lops) /\ \A k \in 1 .. Len(lops) : ListChain(lops[k])
  BY DEF ListsInv
<1>1. /\ IsSeq(lops') /\ Len(lops') = Len(lops) /\ lops'[i] = e
      /\ \A k \in 1 .. Len(lops) : k # i => lops'[k] = lops[k]
  BY <1>0, ListChainReplaced, Zenon
<1>2. \A k \in 1 .. Len(lops) :
         /\ ListChain(lops'[k]) /\ lops'[k].kind = lops[k].kind
         /\ lops[k].round # 0 => lops'[k].round # 0
  BY <1>0, <1>1, Zenon
<1>3. lview'.busy => lview.busy \/ \E k \in 1 .. Len(lops) : lops'[k].round # 0
  BY <1>1, Zenon
<1>4. QED
  BY <1>1, <1>2, <1>3, ListChainsGoOn, Zenon

LEMMA ListChainRemoved ==
    ASSUME IsSeq(lops), NEW i \in 1 .. Len(lops), lops' = RemoveAt(lops, i)
    PROVE  /\ IsSeq(lops')
           /\ \A k \in 1 .. Len(lops') : \E j \in 1 .. Len(lops) : j # i /\ lops'[k] = lops[j]
           /\ \A j \in 1 .. Len(lops) : j # i => \E k \in 1 .. Len(lops') : lops'[k] = lops[j]
<1> DEFINE r == RemoveAt(lops, i)
<1>1. /\ IsSeq(r)
      /\ \A k \in 1 .. Len(r) : \E j \in 1 .. Len(lops) : j # i /\ r[k] = lops[j]
      /\ \A j \in 1 .. Len(lops) : j # i => \E k \in 1 .. Len(r) : r[k] = lops[j]
  BY RemovedFrom, Zenon
<1>2. lops' = r
  OBVIOUS
<1> HIDE DEF r
<1>3. QED BY <1>1, <1>2, Zenon

LEMMA ListChainEnds ==
    ASSUME ListsInv, UNCHANGED world, NEW i \in 1 .. Len(lops), lops' = RemoveAt(lops, i),
           ListView(lview'), lview'.busy => lview.busy /\ lops[i].round = 0,
           lview'.submitting => lview.submitting /\ lops[i].kind # "create"
    PROVE  ListsInv'
<1>0. IsSeq(lops)
  BY DEF ListsInv
<1>1. /\ IsSeq(lops')
      /\ \A k \in 1 .. Len(lops') : \E j \in 1 .. Len(lops) : j # i /\ lops'[k] = lops[j]
      /\ \A j \in 1 .. Len(lops) : j # i => \E k \in 1 .. Len(lops') : lops'[k] = lops[j]
  BY <1>0, ListChainRemoved, Zenon
<1>2. \A k \in 1 .. Len(lops') : ListChain(lops'[k])
  BY <1>1, Zenon DEF ListsInv
<1>3. ASSUME Rounds(world.page) # <<>>, lview'.busy
      PROVE  \E k \in 1 .. Len(lops') : lops'[k].round # 0
  <2>1. PICK j \in 1 .. Len(lops) : lops[j].round # 0
    BY <1>3 DEF ListsInv
  <2>2. j # i
    BY <1>3, <2>1
  <2>3. PICK k \in 1 .. Len(lops') : lops'[k] = lops[j]
    BY <1>1, <2>2
  <2>4. QED BY <2>1, <2>3
<1>4. ASSUME Rounds(world.page) # <<>>, lview'.submitting
      PROVE  \E k \in 1 .. Len(lops') : lops'[k].kind = "create"
  <2>1. PICK j \in 1 .. Len(lops) : lops[j].kind = "create"
    BY <1>4 DEF ListsInv
  <2>2. j # i
    BY <1>4, <2>1
  <2>3. PICK k \in 1 .. Len(lops') : lops'[k] = lops[j]
    BY <1>1, <2>2
  <2>4. QED BY <2>1, <2>3
<1>5. QED
  BY <1>1, <1>2, <1>3, <1>4, Zenon DEF ListsInv, ListChain, ListView

LEMMA ListChainStarts ==
    ASSUME ListsInv, UNCHANGED world, NEW e, ListChain(e), NEW v, StartChain(e, v), ListView(v),
           v.busy => lview.busy \/ e.round # 0,
           v.submitting => lview.submitting \/ e.kind = "create"
    PROVE  ListsInv'
<1>0. lops' = Append(lops, e) /\ lview' = v
  BY DEF StartChain
<1>1. /\ IsSeq(lops') /\ lops'[Len(lops) + 1] = e
      /\ \A k \in 1 .. Len(lops) : lops'[k] = lops[k]
      /\ 1 .. Len(lops') = (1 .. Len(lops)) \cup {Len(lops) + 1}
  <2> DEFINE r == Append(lops, e)
  <2>1. IsSeq(lops)
    BY DEF ListsInv
  <2>2. /\ IsSeq(r) /\ r[Len(lops) + 1] = e
        /\ \A k \in 1 .. Len(lops) : r[k] = lops[k]
        /\ 1 .. Len(r) = (1 .. Len(lops)) \cup {Len(lops) + 1}
    BY <2>1, AppendedTo, Zenon
  <2>3. lops' = r
    BY <1>0
  <2> HIDE DEF r
  <2>4. QED BY <2>2, <2>3, Zenon
<1>2. \A k \in 1 .. Len(lops') : ListChain(lops'[k])
  BY <1>1, Zenon DEF ListsInv
<1>3. Rounds(world.page) # <<>> /\ lview'.busy => \E k \in 1 .. Len(lops') : lops'[k].round # 0
  BY <1>0, <1>1, ZenonT(60) DEF ListsInv
<1>4. Rounds(world.page) # <<>> /\ lview'.submitting =>
         \E k \in 1 .. Len(lops') : lops'[k].kind = "create"
  BY <1>0, <1>1, Zenon DEF ListsInv
<1>5. QED
  BY <1>0, <1>1, <1>2, <1>3, <1>4, Zenon DEF ListsInv, ListChain, ListView

\* Views that keep the spinner and the submit button.
SameSpinners(v, w) == ListView(w) /\ w.busy = v.busy /\ w.submitting = v.submitting

LEMMA RoundAppliedView ==
    ASSUME NEW v, ListView(v), NEW op
    PROVE  SameSpinners(v, RoundApplied(v, op))
<1>1. ASSUME NEW a, NEW b, NEW c, NEW d, NEW e, NEW f
      PROVE  SameSpinners(v, [v EXCEPT !.rows = a, !.total = b, !.page = c, !.all = d,
                                       !.asked = e, !.outdated = f])
  BY DEF ListView, SameSpinners
<1>2. ASSUME NEW a, NEW b, NEW c, NEW d, NEW e
      PROVE  SameSpinners(v, [v EXCEPT !.rows = a, !.all = b, !.up = c, !.stats = d,
                                       !.outdated = e])
  BY DEF ListView, SameSpinners
<1>3. ASSUME NEW a, NEW b
      PROVE  SameSpinners(v, [v EXCEPT !.stats = a, !.outdated = b])
  BY DEF ListView, SameSpinners
<1>4. SameSpinners(v, v)
  BY DEF SameSpinners
<1>5. QED
  BY <1>1, <1>2, <1>3, <1>4, ZenonT(60) DEF RoundApplied

LEMMA ChainEndsView ==
    ASSUME NEW v, ListView(v), NEW op
    PROVE  /\ ListView(ChainEnds(v, op)) /\ ~ChainEnds(v, op).busy
           /\ ChainEnds(v, op).submitting => v.submitting /\ op.kind # "create"
BY DEF ChainEnds, ListView

LEMMA LoadStartsView ==
    ASSUME NEW v, ListView(v)
    PROVE  ListView(LoadStarts(v)) /\ LoadStarts(v).submitting = v.submitting
BY DEF LoadStarts, ListView

\* The next round of a load; after the change of a chain its first round.
LEMMA RoundToCome ==
    ASSUME NEW op, ListChain(op)
    PROVE  NextRound(op) \in Nat \ {0}
BY DEF NextRound, ListChain

LEMMA RoundArrivesStep ==
    ASSUME ListsInv, UNCHANGED world, NEW i \in 1 .. Len(lops), RoundArrives(i)
    PROVE  ListsInv'
<1> DEFINE op == lops[i]
           next == NextRound(op)
           v == IF op.round = 0 THEN LoadStarts(lview) ELSE RoundApplied(lview, op)
<1>1. ListChain(op) /\ IsSeq(lops) /\ ListView(lview)
  BY DEF ListsInv
<1>2. ListView(v) /\ v.submitting = lview.submitting
  BY <1>1, LoadStartsView, RoundAppliedView, Zenon DEF SameSpinners
<1>3. op.round # 0 => v.busy = lview.busy
  BY <1>1, RoundAppliedView, Zenon DEF SameSpinners
<1>4. IF next <= Len(Rounds(world.page))
      THEN /\ lops' = [lops EXCEPT ![i].round = next, ![i].open = Rounds(world.page)[next]]
           /\ lview' = v
      ELSE lops' = RemoveAt(lops, i) /\ lview' = ChainEnds(v, op)
  BY Zenon DEF RoundArrives
<1> HIDE DEF v
<1>5. CASE next <= Len(Rounds(world.page))
  <2>1. PICK e : /\ lops' = [lops EXCEPT ![i] = e]
                 /\ ListChain(e) /\ e.kind = lops[i].kind /\ e.round # 0
    <3> DEFINE o == Rounds(world.page)[next]
               n == next
               e == [op EXCEPT !.round = n, !.open = o]
    <3>1. /\ lops' = [lops EXCEPT ![i].round = n, ![i].open = o] /\ n \in Nat \ {0}
          /\ DOMAIN lops = 1 .. Len(lops)
      BY <1>1, <1>4, <1>5, RoundToCome, SequenceLength
    <3> HIDE DEF o, n
    <3>2. lops' = [lops EXCEPT ![i] = e]
      BY <3>1
    <3>3. ListChain(e) /\ e.kind = lops[i].kind /\ e.round # 0
      BY <1>1, <3>1 DEF ListChain
    <3> HIDE DEF e
    <3>4. QED BY <3>2, <3>3
  <2>2. lview' = v
    BY <1>4, <1>5
  <2>3. QED
    BY <1>2, <2>1, <2>2, ListChainGoesOn, Zenon
<1>6. CASE ~(next <= Len(Rounds(world.page)))
  <2> DEFINE w == ChainEnds(v, op)
  <2>1. ListView(w) /\ ~w.busy /\ (w.submitting => v.submitting /\ op.kind # "create")
    BY <1>2, ChainEndsView, Zenon
  <2>2. lops' = RemoveAt(lops, i) /\ lview' = w
    BY <1>4, <1>6
  <2> HIDE DEF w
  <2>3. QED
    BY <1>2, <2>1, <2>2, ListChainEnds, Zenon
<1>7. QED
  BY <1>5, <1>6, Zenon

LEMMA RequestLostStep ==
    ASSUME ListsInv, UNCHANGED world, NEW i \in 1 .. Len(lops), RequestLost(i)
    PROVE  ListsInv'
<1> DEFINE op == lops[i]
           next == NextRound(op)
           quiet == world.page = "agents" /\ op.round > 1
           kept == [lview EXCEPT !.stats = op.up \ {CHOOSE a \in op.up : TRUE}]
           refused == [lview EXCEPT !.error = @ \/ world.page = "schedules",
                           !.submitting = IF op.kind = "create" THEN FALSE ELSE @]
           blank == [lview EXCEPT !.error = TRUE,
                        !.rows = IF world.page \in {"tasks", "agents"} THEN <<>> ELSE @,
                        !.total = 0]
<1>1. ListChain(op) /\ IsSeq(lops) /\ ListView(lview)
  BY DEF ListsInv
<1>2. ListView(kept) /\ kept.submitting = lview.submitting /\ kept.busy = lview.busy
  BY <1>1 DEF ListView
<1>3. /\ ListView(refused) /\ refused.busy = lview.busy
      /\ refused.submitting => lview.submitting /\ op.kind # "create"
  BY <1>1 DEF ListView
<1>4. ListView(blank) /\ blank.submitting = lview.submitting
  BY <1>1 DEF ListView
<1>5. op.round \in Nat
  BY <1>1 DEF ListChain
<1>6. IF quiet /\ next <= Len(Rounds(world.page))
      THEN /\ lops' = [lops EXCEPT ![i].round = next, ![i].open = Rounds(world.page)[next]]
           /\ lview' = kept
      ELSE /\ lops' = RemoveAt(lops, i)
           /\ lview' = CASE op.round = 0 -> refused
                         [] op.round > 0 /\ quiet -> ChainEnds(lview, op)
                         [] OTHER -> ChainEnds(blank, op)
  BY Zenon DEF RequestLost
<1> HIDE DEF kept, refused, blank
<1>7. CASE quiet /\ next <= Len(Rounds(world.page))
  <2>1. PICK e : /\ lops' = [lops EXCEPT ![i] = e]
                 /\ ListChain(e) /\ e.kind = lops[i].kind /\ e.round # 0
    <3> DEFINE o == Rounds(world.page)[next]
               n == next
               e == [op EXCEPT !.round = n, !.open = o]
    <3>1. /\ lops' = [lops EXCEPT ![i].round = n, ![i].open = o] /\ n \in Nat \ {0}
          /\ DOMAIN lops = 1 .. Len(lops)
      BY <1>1, <1>6, <1>7, RoundToCome, SequenceLength
    <3> HIDE DEF o, n
    <3>2. lops' = [lops EXCEPT ![i] = e]
      BY <3>1
    <3>3. ListChain(e) /\ e.kind = lops[i].kind /\ e.round # 0
      BY <1>1, <3>1 DEF ListChain
    <3> HIDE DEF e
    <3>4. QED BY <3>2, <3>3
  <2>2. lview' = kept
    BY <1>6, <1>7
  <2>3. QED
    BY <1>2, <2>1, <2>2, ListChainGoesOn, Zenon
<1>8. CASE ~(quiet /\ next <= Len(Rounds(world.page)))
  <2>1. lops' = RemoveAt(lops, i)
    BY <1>6, <1>8
  <2>2. CASE op.round = 0
    <3>1. lview' = refused
      BY <1>6, <1>8, <2>2
    <3>2. QED
      BY <1>3, <2>1, <2>2, <3>1, ListChainEnds, Zenon
  <2>3. CASE op.round # 0
    <3>1. lview' = ChainEnds(lview, op) \/ lview' = ChainEnds(blank, op)
      BY <1>5, <1>6, <1>8, <2>3
    <3>2. /\ ListView(lview') /\ ~lview'.busy
          /\ lview'.submitting => lview.submitting /\ op.kind # "create"
      <4> DEFINE w == IF lview' = ChainEnds(lview, op) THEN lview ELSE blank
      <4>1. ListView(w) /\ w.submitting = lview.submitting /\ lview' = ChainEnds(w, op)
        BY <1>1, <1>4, <3>1
      <4> HIDE DEF w
      <4> DEFINE x == ChainEnds(w, op)
      <4>2. ListView(x) /\ ~x.busy /\ (x.submitting => w.submitting /\ op.kind # "create")
        BY <4>1, ChainEndsView, Zenon
      <4>3. lview' = x
        BY <4>1
      <4> HIDE DEF x
      <4>4. QED BY <4>1, <4>2, <4>3, Zenon
    <3>3. QED
      BY <2>1, <3>2, ListChainEnds, Zenon
  <2>4. QED BY <2>2, <2>3, Zenon
<1>9. QED
  BY <1>7, <1>8, Zenon

\* The server's changes, which overtake what is on its way, and its answers.
LEMMA OvertakenChain ==
    ASSUME NEW op, ListChain(op), NEW t
    PROVE  /\ ListChain([op EXCEPT !.stale = t])
           /\ [op EXCEPT !.stale = t].kind = op.kind
           /\ [op EXCEPT !.stale = t].round = op.round
BY DEF ListChain

LEMMA OvertakeStep ==
    ASSUME ListsInv, UNCHANGED world, lops' = Overtake(lops), SameSpinners(lview, lview')
    PROVE  ListsInv'
<1>1. /\ IsSeq(lops) /\ (\A k \in 1 .. Len(lops) : ListChain(lops[k]))
      /\ DOMAIN lops = 1 .. Len(lops)
  BY SequenceLength DEF ListsInv
<1>2. /\ lops' = [k \in 1 .. Len(lops) |-> lops'[k]]
      /\ \A k \in 1 .. Len(lops) : \E t : lops'[k] = [lops[k] EXCEPT !.stale = t]
  BY <1>1 DEF Overtake
<1>3. IsSeq(lops') /\ Len(lops') = Len(lops)
  BY <1>1, <1>2, MappedSequence
<1>4. ASSUME NEW k \in 1 .. Len(lops)
      PROVE  /\ ListChain(lops'[k]) /\ lops'[k].kind = lops[k].kind
             /\ lops[k].round # 0 => lops'[k].round # 0
  <2>1. PICK t : lops'[k] = [lops[k] EXCEPT !.stale = t]
    BY <1>2
  <2> DEFINE e == [lops[k] EXCEPT !.stale = t]
  <2>2. ListChain(e) /\ e.kind = lops[k].kind /\ e.round = lops[k].round
    BY <1>1, OvertakenChain
  <2>3. lops'[k] = e
    BY <2>1
  <2> HIDE DEF e
  <2>4. QED BY <2>2, <2>3
<1>5. QED
  BY <1>3, <1>4, ListChainsGoOn, Zenon DEF SameSpinners

LEMMA ServeListChangeStep ==
    ASSUME ListsInv, UNCHANGED world, NEW i \in 1 .. Len(lops), ServeListChange(i)
    PROVE  ListsInv'
<1>1. /\ IsSeq(lops) /\ (\A k \in 1 .. Len(lops) : ListChain(lops[k]))
      /\ DOMAIN lops = 1 .. Len(lops) /\ ListView(lview)
  BY SequenceLength DEF ListsInv
<1> DEFINE r == Overtake(lops)
<1>2. /\ DOMAIN r = 1 .. Len(lops)
      /\ \A k \in 1 .. Len(lops) : \E t : r[k] = [lops[k] EXCEPT !.stale = t]
  BY <1>1 DEF Overtake
<1>3. lops' = [r EXCEPT ![i].open = {}] /\ lview' = lview
  BY DEF ServeListChange
<1> HIDE DEF r
<1>4. /\ lops' = [k \in 1 .. Len(lops) |-> lops'[k]]
      /\ lops'[i] = [r[i] EXCEPT !.open = {}]
      /\ \A k \in 1 .. Len(lops) : k # i => lops'[k] = r[k]
  BY <1>2, <1>3
<1>5. IsSeq(lops') /\ Len(lops') = Len(lops)
  BY <1>1, <1>4, MappedSequence
<1>6. ASSUME NEW k \in 1 .. Len(lops)
      PROVE  /\ ListChain(lops'[k]) /\ lops'[k].kind = lops[k].kind
             /\ lops[k].round # 0 => lops'[k].round # 0
  <2>1. PICK t : r[k] = [lops[k] EXCEPT !.stale = t]
    BY <1>2
  <2> DEFINE e == [lops[k] EXCEPT !.stale = t]
             f == [[lops[k] EXCEPT !.stale = t] EXCEPT !.open = {}]
  <2>2. /\ ListChain(e) /\ e.kind = lops[k].kind /\ e.round = lops[k].round
        /\ ListChain(f) /\ f.kind = lops[k].kind /\ f.round = lops[k].round
    <3>1. ListChain(lops[k])
      BY <1>1
    <3>2. QED BY <3>1 DEF ListChain
  <2>3. lops'[k] = IF k = i THEN f ELSE e
    BY <1>4, <2>1
  <2> HIDE DEF e, f
  <2>4. QED BY <2>2, <2>3
<1>7. QED
  BY <1>1, <1>3, <1>5, <1>6, ListChainsGoOn, Zenon

LEMMA ServeRequestStep ==
    ASSUME ListsInv, UNCHANGED world, NEW i \in 1 .. Len(lops), NEW r, ServeRequest(i, r)
    PROVE  ListsInv'
<1> DEFINE op == lops[i]
<1>1. ListChain(op) /\ ListView(lview)
  BY DEF ListsInv
<1>2. PICK a, b, c, d :
         lops' = [lops EXCEPT ![i] = [op EXCEPT !.open = a, !.rows = b, !.all = c, !.up = d]]
  BY Zenon DEF ServeRequest
<1> DEFINE e == [op EXCEPT !.open = a, !.rows = b, !.all = c, !.up = d]
<1>3. ListChain(e) /\ e.kind = op.kind /\ e.round = op.round
  BY <1>1 DEF ListChain
<1>4. lview' = lview /\ lops' = [lops EXCEPT ![i] = e]
  BY <1>2 DEF ServeRequest
<1> HIDE DEF e
<1>5. QED
  BY <1>1, <1>3, <1>4, ListChainGoesOn, Zenon

\* The clicks.
LEMMA ListClickStep ==
    ASSUME ListsInv, UNCHANGED world, NEW k, NEW d, NEW p, NEW n \in {0, 1}, NEW v,
           StartChain(Chain(k, d, p, n), v), ListView(v), v.busy => lview.busy \/ n = 1,
           v.submitting => lview.submitting \/ k = "create"
    PROVE  ListsInv'
<1> DEFINE e == Chain(k, d, p, n)
<1>1. ListChain(e) /\ e.kind = k /\ e.round = n
  BY DEF Chain, ListChain
<1>2. StartChain(e, v)
  OBVIOUS
<1> HIDE DEF e
<1>3. v.busy => lview.busy \/ e.round # 0
  BY <1>1
<1>4. QED
  BY <1>1, <1>2, <1>3, ListChainStarts, Zenon

LEMMA ListClicksStep ==
    ASSUME ListsInv, UNCHANGED world,
           \/ \E p \in 1 .. MaxItems : ClickLoad(p)
           \/ \E id \in 1 .. MaxItems : ClickRemove(id) \/ ClickRetry(id)
           \/ SubmitSchedule
    PROVE  ListsInv'
<1> DEFINE Clean == [lview EXCEPT !.error = FALSE]
           Sent == [lview EXCEPT !.submitting = TRUE, !.error = FALSE]
           Loads == LoadStarts(lview)
<1>1. ListView(lview)
  BY DEF ListsInv
<1>2. ListView(Clean) /\ Clean.busy = lview.busy /\ Clean.submitting = lview.submitting
  BY <1>1 DEF ListView
<1>3. ListView(Sent) /\ Sent.busy = lview.busy
  BY <1>1 DEF ListView
<1>4. ListView(Loads) /\ Loads.submitting = lview.submitting
  BY <1>1, LoadStartsView
<1>5. ASSUME NEW p, ClickLoad(p) PROVE ListsInv'
  <2>1. StartChain(Chain("load", 0, p, 1), Loads)
    BY <1>5 DEF ClickLoad
  <2> HIDE DEF Loads
  <2>2. QED BY <1>4, <2>1, ListClickStep
<1>6. ASSUME NEW id, ClickRemove(id) PROVE ListsInv'
  <2>1. PICK p : StartChain(Chain("remove", id, p, 0),
                            IF world.page = "tasks" THEN lview ELSE Clean)
    BY <1>6 DEF ClickRemove
  <2> DEFINE v == IF world.page = "tasks" THEN lview ELSE Clean
  <2>2. ListView(v) /\ v.busy = lview.busy /\ v.submitting = lview.submitting
    BY <1>1, <1>2
  <2> HIDE DEF v
  <2>3. QED BY <2>1, <2>2, ListClickStep DEF v
<1>7. ASSUME NEW id, ClickRetry(id) PROVE ListsInv'
  <2>1. StartChain(Chain("retry", id, 1, 0), lview)
    BY <1>7 DEF ClickRetry
  <2>2. QED BY <1>1, <2>1, ListClickStep
<1>8. CASE SubmitSchedule
  <2>1. StartChain(Chain("create", 0, 1, 0), Sent)
    BY <1>8 DEF SubmitSchedule
  <2> HIDE DEF Sent
  <2>2. QED BY <1>3, <2>1, ListClickStep
<1>9. QED
  BY <1>5, <1>6, <1>7, <1>8, Zenon

\* Every step of the console.
LEMMA NextListsInv == ListsInv /\ [Next]_wvars => ListsInv'
<1> SUFFICES ASSUME ListsInv, [Next]_wvars PROVE ListsInv'
  OBVIOUS
<1>1. CASE ListNext
  <2>0. UNCHANGED world
    BY <1>1 DEF ListNext
  <2>1. CASE \E i \in 1 .. Len(lops) :
                \/ ServeListChange(i) \/ RoundArrives(i) \/ RequestLost(i)
                \/ \E r \in {"rows", "all", "stats", "audit"} : ServeRequest(i, r)
    BY <2>0, <2>1, ServeListChangeStep, RoundArrivesStep, RequestLostStep, ServeRequestStep,
       Zenon
  <2>2. ASSUME NEW kw, TypeSearch(kw) PROVE ListsInv'
    <3>1. lview' = [lview EXCEPT !.search = kw] /\ lops' = lops /\ ListView(lview)
      BY <2>2 DEF TypeSearch, ListsInv
    <3>2. SameSpinners(lview, lview')
      BY <3>1 DEF ListView, SameSpinners
    <3>3. QED
      BY <2>0, <3>1, <3>2, Zenon DEF SameSpinners, ListsInv, ListView, ListChain
  <2>3. ASSUME NEW a, AgentFlips(a) PROVE ListsInv'
    <3>1. lview' = [lview EXCEPT !.outdated = TRUE] /\ lops' = Overtake(lops) /\ ListView(lview)
      BY <2>3 DEF AgentFlips, ListsInv
    <3>2. SameSpinners(lview, lview')
      BY <3>1 DEF ListView, SameSpinners
    <3>3. QED
      BY <2>0, <3>1, <3>2, OvertakeStep, Zenon
  <2>4. QED
    BY <1>1, <2>0, <2>1, <2>2, <2>3, ListClicksStep, Zenon DEF ListNext
<1>2. CASE UNCHANGED lvars /\ UNCHANGED world
  BY <1>2 DEF lvars, ListsInv, ListView, ListChain
<1>3. QED
  BY <1>1, <1>2
     DEF Next, wvars, ResultPage, CreationPages, Timeline, FlamePages, SessionOfTab, Groups,
         Lists, Settings, ResultNext, CreationNext, TimelineNext, FlameNext, SessionNext,
         GroupsNext, SettingsNext

\* The page of a list when it is opened.
LEMMA ListsInitInv == Init => ListsInv
<1> SUFFICES ASSUME ListInit PROVE ListsInv
  BY DEF Init
<1> DEFINE e == [kind |-> "load", id |-> 0, new |-> 0, page |-> 1, kw |-> "",
                 round |-> 1, open |-> Rounds(world.page)[1], rows |-> <<>>,
                 all |-> <<>>, up |-> {}, stale |-> FALSE]
<1>1. /\ lops = IF Rounds(world.page) = <<>> THEN <<>> ELSE <<e>>
      /\ lview = EmptyList
  BY DEF ListInit
<1>2. ListChain(e) /\ e.round = 1
  BY DEF ListChain
<1>3. ListView(lview) /\ ~lview.submitting
  BY <1>1 DEF EmptyList, ListView
<1> HIDE DEF e
<1>4. CASE Rounds(world.page) = <<>>
  <2>1. lops \in Seq({}) /\ Len(lops) = 0
    BY <1>1, <1>4
  <2>2. IsSeq(lops) /\ \A k \in 1 .. Len(lops) : FALSE
    BY <2>1 DEF IsSeq
  <2>3. QED
    BY <1>3, <1>4, <2>2, Zenon DEF ListsInv
<1>5. CASE Rounds(world.page) # <<>>
  <2>1. IsSeq(lops) /\ Len(lops) = 1 /\ lops[1] = e
    BY <1>1, <1>5, OneElement
  <2>2. (\A k \in 1 .. Len(lops) : k = 1) /\ 1 \in 1 .. Len(lops) /\ lops[1].round # 0
    BY <1>2, <2>1
  <2>3. QED
    BY <1>2, <1>3, <2>1, <2>2, Zenon DEF ListsInv
<1>6. QED
  BY <1>4, <1>5, Zenon

\* A chain whose answers no change has overtaken brings what the server holds.
Fetched(op, rows, up, page) ==
    /\ op.stale \in BOOLEAN
    /\ "change" \in op.open => op.round = 0
    /\ op.round > 1 => "rows" \notin op.open
    /\ op.round > 0 /\ ~op.stale =>
          /\ "rows" \notin op.open => op.rows = rows /\ op.up = up
          /\ "all" \in Rounds(page)[1] /\ "all" \notin op.open => op.all = rows

\* The page shows the list that the server holds.
Listed(v, rows, up, page, match) ==
    CASE page = "tasks" ->
            /\ v.rows = PageOf(Matching(rows, v.asked, match), v.page)
            /\ v.total = Len(Matching(rows, v.asked, match))
            /\ v.all = rows
      [] page = "schedules" -> v.rows = rows
      [] OTHER -> v.rows = rows /\ v.up = up

AgentPages == {"agents", "agent"}

\* As long as nothing fails, a page that no change has overtaken shows the list,
\* and the statistics of the agents online, or waits for a round that brings them.
Fresh(v, ops, rows, up, page, match) ==
    v.outdated = FALSE =>
        /\ \/ Listed(v, rows, up, page, match)
           \/ \E k \in 1 .. Len(ops) : ops[k].round <= 1
        /\ page \in AgentPages =>
              v.stats = up \/ \E k \in 1 .. Len(ops) : ops[k].round <= 2

ShownInv ==
    /\ world \in Worlds /\ lfails \in Nat
    /\ lfails = 0 /\ Rounds(world.page) # <<>> =>
          /\ lview.outdated \in BOOLEAN
          /\ \A k \in 1 .. Len(lops) : Fetched(lops[k], items, online, world.page)
          /\ Fresh(lview, lops, items, online, world.page, world.match)

\* The pages and their rounds.
LEMMA PagesOfLists ==
    ASSUME NEW page, Rounds(page) # <<>>
    PROVE  /\ page \in {"tasks", "schedules", "agents", "agent"}
           /\ "rows" \in Rounds(page)[1] /\ "change" \notin Rounds(page)[1]
           /\ Len(Rounds(page)) = CASE page \in {"tasks", "schedules"} -> 1
                                    [] page = "agents" -> 3
                                    [] page = "agent" -> 2
           /\ \A n \in 2 .. Len(Rounds(page)) :
                 Rounds(page)[n] \cap {"rows", "all", "change"} = {}
<1>1. CASE page \in {"tasks", "schedules"}
  BY <1>1 DEF Rounds
<1>2. CASE page = "agents"
  <2>1. Rounds(page) = <<{"rows"}, {"stats"}, {"audit"}>>
    BY <1>2 DEF Rounds
  <2>2. \A n \in 2 .. 3 : n = 2 \/ n = 3
    OBVIOUS
  <2>3. QED BY <1>2, <2>1, <2>2
<1>3. CASE page = "agent"
  <2>1. Rounds(page) = <<{"rows", "all"}, {"stats"}>>
    BY <1>3 DEF Rounds
  <2>2. \A n \in 2 .. 2 : n = 2
    OBVIOUS
  <2>3. QED BY <1>3, <2>1, <2>2
<1>4. QED
  BY <1>1, <1>2, <1>3 DEF Rounds

\* A chain starts: nothing of it is fetched.
LEMMA StartedChain ==
    ASSUME NEW k, NEW d, NEW p, NEW n \in {0, 1}, Rounds(world.page) # <<>>,
           NEW rows, NEW up
    PROVE  Fetched(Chain(k, d, p, n), rows, up, world.page)
<1> DEFINE e == Chain(k, d, p, n)
           r == Rounds(world.page)[1]
<1>1. "rows" \in r /\ "change" \notin r
  BY PagesOfLists
<1>2. e.stale = FALSE /\ e.round = n /\ e.open = IF n = 0 THEN {"change"} ELSE r
  BY DEF Chain
<1> HIDE DEF e, r
<1>3. /\ "change" \in e.open => e.round = 0
      /\ ~(e.round > 1)
      /\ e.round > 0 => e.open = r
  BY <1>1, <1>2
<1>4. Fetched(e, rows, up, world.page)
  BY <1>1, <1>2, <1>3 DEF Fetched, r
<1>5. QED
  BY <1>4 DEF e

\* Requests that fail: nothing is said any more.
LEMMA ListFailed ==
    ASSUME ShownInv, UNCHANGED world, NEW i, RequestLost(i)
    PROVE  ShownInv'
<1>1. world.fails \in Nat /\ lfails \in Nat
  BY WorldsAssumption DEF ShownInv
<1>2. lfails' = IF lfails < world.fails + 1 THEN lfails + 1 ELSE lfails
  BY DEF RequestLost
<1>3. lfails' \in Nat /\ lfails' # 0
  BY <1>1, <1>2
<1>4. QED
  BY <1>3 DEF ShownInv

\* Views that show the same list.
SameList(v, w) ==
    /\ w.rows = v.rows /\ w.total = v.total /\ w.page = v.page /\ w.all = v.all
    /\ w.up = v.up /\ w.stats = v.stats /\ w.asked = v.asked /\ w.outdated = v.outdated

\* What the page shows stays fresh as long as the chains go on.
LEMMA FreshCarries ==
    ASSUME NEW v, NEW w, NEW ops, NEW next, NEW rows, NEW up, NEW page, NEW match,
           Fresh(v, ops, rows, up, page, match), SameList(v, w),
           \A j \in 1 .. Len(ops) : \E k \in 1 .. Len(next) : next[k].round = ops[j].round
    PROVE  Fresh(w, next, rows, up, page, match)
<1>1. Listed(v, rows, up, page, match) => Listed(w, rows, up, page, match)
  BY DEF Listed, SameList
<1>2. QED
  BY <1>1, Zenon DEF Fresh, SameList

\* A page with a load before its first round waits for everything.
LEMMA FreshWaits ==
    ASSUME NEW w, NEW ops, NEW rows, NEW up, NEW page, NEW match,
           NEW k \in 1 .. Len(ops), ops[k].round \in {0, 1}
    PROVE  Fresh(w, ops, rows, up, page, match)
<1>1. ops[k].round <= 1 /\ ops[k].round <= 2
  OBVIOUS
<1>2. QED
  BY <1>1, Zenon DEF Fresh

\* A click: its chain comes last, the list stays as it is.
LEMMA ListClicked ==
    ASSUME ListsInv, ShownInv, UNCHANGED world, NEW k, NEW d, NEW p, NEW n \in {0, 1}, NEW v,
           StartChain(Chain(k, d, p, n), v), SameList(lview, v)
    PROVE  ShownInv'
<1> DEFINE e == Chain(k, d, p, n)
<1>1. /\ lops' = Append(lops, e) /\ lview' = v /\ UNCHANGED <<items, online, lfails>>
  BY DEF StartChain
<1>2. CASE Rounds(world.page) = <<>>
  BY <1>1, <1>2 DEF ShownInv
<1>3. CASE Rounds(world.page) # <<>>
  <2>1. Fetched(e, items, online, world.page)
    BY <1>3, StartedChain
  <2> HIDE DEF e
  <2>2. /\ lops'[Len(lops) + 1] = e
        /\ \A j \in 1 .. Len(lops) : lops'[j] = lops[j]
        /\ 1 .. Len(lops') = (1 .. Len(lops)) \cup {Len(lops) + 1}
    <3> DEFINE r == Append(lops, e)
    <3>1. IsSeq(lops)
      BY DEF ListsInv
    <3>2. /\ r[Len(lops) + 1] = e
          /\ \A j \in 1 .. Len(lops) : r[j] = lops[j]
          /\ 1 .. Len(r) = (1 .. Len(lops)) \cup {Len(lops) + 1}
      BY <3>1, AppendedTo, ZenonT(60)
    <3>3. lops' = r
      BY <1>1
    <3> HIDE DEF r
    <3>4. QED BY <3>2, <3>3, Zenon
  <2>3. SUFFICES ASSUME lfails = 0
                 PROVE  /\ lview'.outdated \in BOOLEAN
                        /\ \A j \in 1 .. Len(lops') :
                              Fetched(lops'[j], items, online, world.page)
                        /\ Fresh(lview', lops', items, online, world.page, world.match)
    BY <1>1, Zenon DEF ShownInv
  <2>4. /\ lview.outdated \in BOOLEAN
        /\ \A j \in 1 .. Len(lops) : Fetched(lops[j], items, online, world.page)
        /\ Fresh(lview, lops, items, online, world.page, world.match)
    BY <1>3, <2>3 DEF ShownInv
  <2>5. \A j \in 1 .. Len(lops') : Fetched(lops'[j], items, online, world.page)
    BY <2>1, <2>2, <2>4, Zenon
  <2>6. \A j \in 1 .. Len(lops) : \E m \in 1 .. Len(lops') : lops'[m].round = lops[j].round
    BY <2>2, Zenon
  <2>7. lview'.outdated = lview.outdated /\ SameList(lview, lview')
    BY <1>1 DEF SameList
  <2>8. Fresh(lview', lops', items, online, world.page, world.match)
    BY <2>4, <2>6, <2>7, FreshCarries, Zenon
  <2>9. QED
    BY <2>4, <2>5, <2>7, <2>8
<1>4. QED BY <1>2, <1>3

\* Clicks show nothing new, and what they start brings a round.
LEMMA ListClicksShow ==
    ASSUME ListsInv, ShownInv, UNCHANGED world,
           \/ \E p \in 1 .. MaxItems : ClickLoad(p)
           \/ \E id \in 1 .. MaxItems : ClickRemove(id) \/ ClickRetry(id)
           \/ SubmitSchedule
    PROVE  ShownInv'
<1> DEFINE Clean == [lview EXCEPT !.error = FALSE]
           Sent == [lview EXCEPT !.submitting = TRUE, !.error = FALSE]
           Loads == LoadStarts(lview)
<1>1. ListView(lview)
  BY DEF ListsInv
<1>2. SameList(lview, lview) /\ SameList(lview, Clean) /\ SameList(lview, Sent)
  BY <1>1 DEF ListView, SameList
<1>3. SameList(lview, Loads)
  BY <1>1 DEF ListView, SameList, LoadStarts
<1>4. ASSUME NEW p, ClickLoad(p) PROVE ShownInv'
  <2>1. StartChain(Chain("load", 0, p, 1), Loads)
    BY <1>4 DEF ClickLoad
  <2> HIDE DEF Loads
  <2>2. QED BY <1>3, <2>1, ListClicked
<1>5. ASSUME NEW id, ClickRemove(id) PROVE ShownInv'
  <2>1. PICK p : StartChain(Chain("remove", id, p, 0),
                            IF world.page = "tasks" THEN lview ELSE Clean)
    BY <1>5 DEF ClickRemove
  <2> DEFINE v == IF world.page = "tasks" THEN lview ELSE Clean
  <2>2. SameList(lview, v)
    BY <1>2
  <2> HIDE DEF v
  <2>3. QED BY <2>1, <2>2, ListClicked DEF v
<1>6. ASSUME NEW id, ClickRetry(id) PROVE ShownInv'
  <2>1. StartChain(Chain("retry", id, 1, 0), lview)
    BY <1>6 DEF ClickRetry
  <2>2. QED BY <1>2, <2>1, ListClicked
<1>7. CASE SubmitSchedule
  <2>1. StartChain(Chain("create", 0, 1, 0), Sent)
    BY <1>7 DEF SubmitSchedule
  <2> HIDE DEF Sent
  <2>2. QED BY <1>2, <2>1, ListClicked
<1>8. QED
  BY <1>4, <1>5, <1>6, <1>7, Zenon

\* A change of the server: what is on its way is overtaken, and what is not
\* served yet will bring it.
LEMMA OvertakenFetched ==
    ASSUME NEW op, ListChain(op), NEW rows, NEW up, Rounds(world.page) # <<>>,
           Fetched(op, rows, up, world.page), NEW rows2, NEW up2
    PROVE  LET e == [op EXCEPT !.stale = @ \/ (op.round > 0 /\ op.open # Rounds(world.page)[1])]
           IN  /\ Fetched(e, rows2, up2, world.page)
               /\ e.round = op.round /\ e.open = op.open
<1> DEFINE t == op.stale \/ (op.round > 0 /\ op.open # Rounds(world.page)[1])
           e == [op EXCEPT !.stale = t]
<1>1. "rows" \in Rounds(world.page)[1]
  BY PagesOfLists
<1>2. e.stale = t /\ e.round = op.round /\ e.open = op.open
  BY DEF ListChain
<1> HIDE DEF e
<1>3. Fetched(e, rows2, up2, world.page)
  BY <1>1, <1>2, Zenon DEF Fetched
<1>4. QED BY <1>2, <1>3 DEF e

\* The server changes the list: answers on their way are overtaken.
LEMMA ListOvertaken ==
    ASSUME ListsInv, NEW rows, NEW up, Rounds(world.page) # <<>>,
           \A k \in 1 .. Len(lops) : Fetched(lops[k], items, online, world.page)
    PROVE  /\ DOMAIN Overtake(lops) = 1 .. Len(lops)
           /\ \A k \in 1 .. Len(lops) :
                 /\ Fetched(Overtake(lops)[k], rows, up, world.page)
                 /\ ListChain(Overtake(lops)[k])
                 /\ Overtake(lops)[k].round = lops[k].round
<1>1. /\ IsSeq(lops) /\ (\A k \in 1 .. Len(lops) : ListChain(lops[k]))
      /\ DOMAIN lops = 1 .. Len(lops)
  BY SequenceLength DEF ListsInv
<1> DEFINE over(k) == [lops[k] EXCEPT !.stale = @ \/ (lops[k].round > 0
                                               /\ lops[k].open # Rounds(world.page)[1])]
<1>2. Overtake(lops) = [k \in 1 .. Len(lops) |-> over(k)]
  BY <1>1 DEF Overtake
<1>3. ASSUME NEW k \in 1 .. Len(lops)
      PROVE  /\ Fetched(over(k), rows, up, world.page)
             /\ over(k).round = lops[k].round /\ ListChain(over(k))
  <2>1. Fetched(over(k), rows, up, world.page) /\ over(k).round = lops[k].round
    BY <1>1, OvertakenFetched
  <2>2. ListChain(over(k))
    BY <1>1, OvertakenChain
  <2>3. QED BY <2>1, <2>2
<1> HIDE DEF over
<1>4. QED BY <1>2, <1>3

\* A change that the page asked for is served, and its chain goes on to reload.
LEMMA ListChanged ==
    ASSUME ListsInv, ShownInv, UNCHANGED world, NEW i \in 1 .. Len(lops), ServeListChange(i)
    PROVE  ShownInv'
<1> DEFINE r == Overtake(lops)
<1>1. /\ lops' = [r EXCEPT ![i].open = {}] /\ UNCHANGED <<online, lview, lfails>>
      /\ lops[i].open = {"change"}
  BY DEF ServeListChange
<1>2. SUFFICES ASSUME lfails = 0, Rounds(world.page) # <<>>
               PROVE  /\ \A j \in 1 .. Len(lops') :
                            Fetched(lops'[j], items', online, world.page)
                      /\ Fresh(lview, lops', items', online, world.page, world.match)
  BY <1>1, Zenon DEF ShownInv
<1>3. \A k \in 1 .. Len(lops) : Fetched(lops[k], items, online, world.page)
  BY <1>2 DEF ShownInv
<1>4. /\ DOMAIN r = 1 .. Len(lops)
      /\ \A k \in 1 .. Len(lops) : /\ Fetched(r[k], items', online, world.page)
                                   /\ ListChain(r[k]) /\ r[k].round = lops[k].round
  BY <1>2, <1>3, ListOvertaken
<1>5. lops[i].round = 0
  BY <1>1, <1>3 DEF Fetched
<1> HIDE DEF r
<1> DEFINE e == [r[i] EXCEPT !.open = {}]
<1>6. /\ lops' = [k \in 1 .. Len(lops) |-> lops'[k]] /\ lops'[i] = e
      /\ \A k \in 1 .. Len(lops) : k # i => lops'[k] = r[k]
  BY <1>1, <1>4
<1>7. Len(lops') = Len(lops)
  BY <1>6, MappedSequence DEF ListsInv
<1>8. /\ e.round = 0 /\ e.open = {} /\ e.stale = r[i].stale
  BY <1>4, <1>5 DEF ListChain
<1>9. Fetched(e, items', online, world.page)
  <2>1. Fetched(r[i], items', online, world.page) /\ ~(e.round > 0) /\ ~(e.round > 1)
    BY <1>4, <1>8
  <2> HIDE DEF e
  <2>2. QED BY <1>8, <2>1, Zenon DEF Fetched
<1> HIDE DEF e
<1>10. \A j \in 1 .. Len(lops') : Fetched(lops'[j], items', online, world.page)
  BY <1>4, <1>6, <1>7, <1>9, Zenon
<1>11. i \in 1 .. Len(lops') /\ lops'[i].round \in {0, 1}
  BY <1>6, <1>7, <1>8
<1>12. Fresh(lview, lops', items', online, world.page, world.match)
  BY <1>11, FreshWaits, Zenon
<1>13. QED BY <1>10, <1>12

\* An agent goes up or down.
LEMMA ListFlipped ==
    ASSUME ListsInv, ShownInv, UNCHANGED world, NEW a, AgentFlips(a)
    PROVE  ShownInv'
<1> DEFINE r == Overtake(lops)
<1>1. /\ lops' = r /\ UNCHANGED <<items, lfails>> /\ lview' = [lview EXCEPT !.outdated = TRUE]
  BY DEF AgentFlips
<1>2. lview'.outdated = TRUE
  BY <1>1 DEF ListsInv, ListView
<1>3. SUFFICES ASSUME lfails = 0, Rounds(world.page) # <<>>
               PROVE  /\ \A j \in 1 .. Len(lops') :
                            Fetched(lops'[j], items, online', world.page)
                      /\ Fresh(lview', lops', items, online', world.page, world.match)
  BY <1>1, <1>2, Zenon DEF ShownInv
<1>4. \A k \in 1 .. Len(lops) : Fetched(lops[k], items, online, world.page)
  BY <1>3 DEF ShownInv
<1>5. /\ DOMAIN r = 1 .. Len(lops)
      /\ \A k \in 1 .. Len(lops) : Fetched(r[k], items, online', world.page)
  BY <1>3, <1>4, ListOvertaken
<1>6. r = [k \in 1 .. Len(lops) |-> r[k]]
  BY DEF Overtake, ListsInv, IsSeq
<1> HIDE DEF r
<1>7. Len(lops') = Len(lops)
  BY <1>1, <1>6, MappedSequence DEF ListsInv
<1>8. Fresh(lview', lops', items, online', world.page, world.match)
  BY <1>2, Zenon DEF Fresh
<1>9. QED BY <1>1, <1>5, <1>7, <1>8

\* An answer is what the server holds when it serves the request.
LEMMA ServedFetched ==
    ASSUME NEW op, ListChain(op), NEW rows, NEW up, NEW page, Fetched(op, rows, up, page),
           NEW r \in op.open \ {"change"}
    PROVE  LET e == [op EXCEPT !.open = @ \ {r},
                               !.rows = IF r = "rows" THEN rows ELSE @,
                               !.all = IF r = "all" THEN rows ELSE @,
                               !.up = CASE r = "rows" -> up
                                        [] r = "stats" -> @ \cap up
                                        [] OTHER -> @]
           IN  Fetched(e, rows, up, page) /\ e.round = op.round
<1> DEFINE b == IF r = "rows" THEN rows ELSE op.rows
           c == IF r = "all" THEN rows ELSE op.all
           d == CASE r = "rows" -> up [] r = "stats" -> op.up \cap up [] OTHER -> op.up
           e == [op EXCEPT !.open = @ \ {r}, !.rows = b, !.all = c, !.up = d]
<1>1. /\ e.open = op.open \ {r} /\ e.rows = b /\ e.all = c /\ e.up = d
      /\ e.round = op.round /\ e.stale = op.stale
  BY DEF ListChain
<1> HIDE DEF e
<1>2. op.up = up => d = up
  BY DEF d
<1>3. r = "rows" => d = up
  BY DEF d
<1> HIDE DEF d
<1>4. Fetched(e, rows, up, page)
  BY <1>1, <1>2, <1>3, Zenon DEF Fetched
<1>5. QED BY <1>1, <1>4 DEF e, d

\* A request of a round is answered with what the server holds.
LEMMA ListServed ==
    ASSUME ListsInv, ShownInv, UNCHANGED world, NEW i \in 1 .. Len(lops), NEW r,
           ServeRequest(i, r)
    PROVE  ShownInv'
<1> DEFINE op == lops[i]
           e == [op EXCEPT !.open = @ \ {r},
                           !.rows = IF r = "rows" THEN items ELSE @,
                           !.all = IF r = "all" THEN items ELSE @,
                           !.up = CASE r = "rows" -> online
                                    [] r = "stats" -> @ \cap online
                                    [] OTHER -> @]
<1>1. /\ lops' = [lops EXCEPT ![i] = e] /\ r \in op.open \ {"change"}
      /\ UNCHANGED <<items, online, lview, lfails>>
  BY DEF ServeRequest
<1>2. SUFFICES ASSUME lfails = 0, Rounds(world.page) # <<>>
               PROVE  /\ \A j \in 1 .. Len(lops') :
                            Fetched(lops'[j], items, online, world.page)
                      /\ Fresh(lview, lops', items, online, world.page, world.match)
  BY <1>1, Zenon DEF ShownInv
<1>3. /\ \A k \in 1 .. Len(lops) : Fetched(lops[k], items, online, world.page)
      /\ Fresh(lview, lops, items, online, world.page, world.match)
  BY <1>2 DEF ShownInv
<1>4. Fetched(e, items, online, world.page) /\ e.round = op.round
  BY <1>1, <1>3, ServedFetched, ZenonT(60) DEF ListsInv
<1> HIDE DEF e
<1>5. /\ Len(lops') = Len(lops) /\ lops'[i] = e
      /\ \A k \in 1 .. Len(lops) : k # i => lops'[k] = lops[k]
  BY <1>1, ListChainReplaced DEF ListsInv
<1>6. \A j \in 1 .. Len(lops) : \E m \in 1 .. Len(lops') : lops'[m].round = lops[j].round
  BY <1>4, <1>5, Zenon
<1>7. Fresh(lview, lops', items, online, world.page, world.match)
  BY <1>3, <1>6, FreshCarries, Zenon DEF SameList
<1>8. QED BY <1>3, <1>4, <1>5, <1>7, Zenon

\* What a first round that no change has overtaken shows is what is held.
LEMMA FirstRoundShows ==
    ASSUME NEW op, op.round = 1, op.open = {}, Rounds(world.page) # <<>>,
           ListView(lview), Fetched(op, items, online, world.page)
    PROVE  LET v == RoundApplied(lview, op)
           IN  /\ v.outdated = op.stale
               /\ ~op.stale => Listed(v, items, online, world.page, world.match)
               /\ ~op.stale /\ world.page = "agent" /\ op.up = {} => v.stats = online
<1>1. /\ world.page \in {"tasks", "schedules", "agents", "agent"}
      /\ world.page = "tasks" => "all" \in Rounds(world.page)[1]
  BY PagesOfLists DEF Rounds
<1>2. ~op.stale => /\ op.rows = items /\ op.up = online
                   /\ world.page = "tasks" => op.all = items
  BY <1>1 DEF Fetched
<1>3. CASE world.page = "tasks"
  <2> DEFINE m == Matching(op.rows, op.kw, world.match)
             v == [lview EXCEPT !.rows = PageOf(m, op.page), !.total = Len(m),
                                !.page = op.page, !.all = op.all, !.asked = op.kw,
                                !.outdated = op.stale]
  <2>1. RoundApplied(lview, op) = v
    BY <1>3 DEF RoundApplied
  <2>2. /\ v.rows = PageOf(m, op.page) /\ v.total = Len(m) /\ v.page = op.page
        /\ v.all = op.all /\ v.asked = op.kw /\ v.outdated = op.stale
    BY DEF ListView
  <2> HIDE DEF v
  <2>3. ~op.stale => Listed(v, items, online, world.page, world.match)
    BY <1>2, <1>3, <2>2 DEF Listed
  <2>4. QED BY <1>3, <2>1, <2>2, <2>3
<1>4. CASE world.page # "tasks"
  <2> DEFINE s == IF world.page = "agent" THEN lview.stats \cap op.up ELSE lview.stats
             v == [lview EXCEPT !.rows = op.rows, !.all = op.all, !.up = op.up,
                                !.stats = s, !.outdated = op.stale]
  <2>1. RoundApplied(lview, op) = v
    BY <1>4 DEF RoundApplied
  <2>2. /\ v.rows = op.rows /\ v.up = op.up /\ v.stats = s /\ v.outdated = op.stale
    BY DEF ListView
  <2> HIDE DEF v
  <2>3. ~op.stale => Listed(v, items, online, world.page, world.match)
    BY <1>2, <1>4, <2>2 DEF Listed
  <2>4. world.page = "agent" /\ op.up = {} => s = {}
    OBVIOUS
  <2>5. QED BY <1>2, <2>1, <2>2, <2>3, <2>4
<1>5. QED BY <1>3, <1>4

\* A later round brings the statistics, and the list stays as it is.
LEMMA LaterRoundShows ==
    ASSUME NEW op, op.round \in Nat \ {0, 1}, op.open = {}, ListView(lview),
           lview.outdated \in BOOLEAN, Fetched(op, items, online, world.page)
    PROVE  LET v == RoundApplied(lview, op)
           IN  /\ v.outdated \in BOOLEAN /\ (~v.outdated => ~lview.outdated)
               /\ Listed(lview, items, online, world.page, world.match) =>
                     Listed(v, items, online, world.page, world.match)
               /\ ~v.outdated /\ op.round = 2 => v.stats = online
               /\ op.round # 2 => v.stats = lview.stats
<1>1. op.stale \in BOOLEAN /\ (~op.stale => op.up = online)
  BY DEF Fetched
<1>2. CASE op.round = 2
  <2> DEFINE t == lview.outdated \/ op.stale
             v == [lview EXCEPT !.stats = op.up, !.outdated = t]
  <2>1. RoundApplied(lview, op) = v
    BY <1>2 DEF RoundApplied
  <2>2. /\ v.rows = lview.rows /\ v.total = lview.total /\ v.page = lview.page
        /\ v.all = lview.all /\ v.up = lview.up /\ v.asked = lview.asked
        /\ v.stats = op.up /\ v.outdated = t
    BY DEF ListView
  <2> HIDE DEF v
  <2>3. Listed(lview, items, online, world.page, world.match) =>
           Listed(v, items, online, world.page, world.match)
    BY <2>2 DEF Listed
  <2>4. QED BY <1>1, <1>2, <2>1, <2>2, <2>3
<1>3. CASE op.round # 2
  BY <1>3 DEF RoundApplied
<1>4. QED BY <1>2, <1>3

\* The next round of a chain that goes on.
LEMMA GoneOnFetched ==
    ASSUME NEW op, ListChain(op), op.open = {}, Rounds(world.page) # <<>>,
           Fetched(op, items, online, world.page),
           NextRound(op) <= Len(Rounds(world.page))
    PROVE  LET n == NextRound(op)
               e == [op EXCEPT !.round = n, !.open = Rounds(world.page)[n]]
           IN  /\ Fetched(e, items, online, world.page) /\ e.round = n
               /\ op.round = 0 => n = 1
               /\ op.round = 1 => n = 2
<1> DEFINE n == NextRound(op)
           o == Rounds(world.page)[n]
           e == [op EXCEPT !.round = n, !.open = o]
<1>1. op.round \in Nat /\ n \in Nat \ {0} /\ Len(Rounds(world.page)) \in 1 .. 3
  BY RoundToCome, PagesOfLists DEF ListChain
<1>2. /\ op.round = 0 => n = 1
      /\ op.round # 0 => n > 1
      /\ op.round = 1 => n = 2
  <2> DEFINE len == Len(Rounds(world.page))
  <2>1. world.page = "agent" => len = 2
    BY PagesOfLists
  <2>2. \/ n = 3 /\ world.page = "agent" /\ op.round = 1
        \/ n = op.round + 1
    BY DEF NextRound
  <2>3. n <= len
    OBVIOUS
  <2> HIDE DEF n, len
  <2>4. n = op.round + 1
    BY <2>1, <2>2, <2>3
  <2>5. QED BY <1>1, <2>4
<1>3. /\ e.round = n /\ e.open = o /\ e.stale = op.stale /\ e.rows = op.rows
      /\ e.all = op.all /\ e.up = op.up
  BY DEF ListChain
<1> HIDE DEF e
<1>4. /\ n = 1 => "rows" \in o /\ "change" \notin o /\ o = Rounds(world.page)[1]
      /\ n > 1 => "rows" \notin o /\ "change" \notin o
  BY <1>1, PagesOfLists DEF n
<1> HIDE DEF n, o
<1>5. CASE op.round = 0
  <2>1. n = 1 /\ ~(n > 1)
    BY <1>2, <1>5
  <2>2. QED
    BY <1>2, <1>3, <1>4, <1>5, <2>1, Zenon DEF Fetched, e, n, o
<1>6. CASE op.round # 0
  <2>1. n > 1 /\ op.round > 0
    BY <1>1, <1>2, <1>6
  <2>2. Fetched(e, items, online, world.page)
    BY <1>3, <1>4, <2>1, Zenon DEF Fetched
  <2>3. QED
    BY <1>2, <1>3, <1>6, <2>2, Zenon DEF e, n, o
<1>7. QED BY <1>5, <1>6, Zenon

\* A chain ends with its last round, and shows what that has brought.
LEMMA ListEnded ==
    ASSUME ListsInv, UNCHANGED world, Rounds(world.page) # <<>>, lview.outdated \in BOOLEAN,
           \A k \in 1 .. Len(lops) : Fetched(lops[k], items, online, world.page),
           Fresh(lview, lops, items, online, world.page, world.match),
           NEW i \in 1 .. Len(lops), lops[i].open = {},
           ~(NextRound(lops[i]) <= Len(Rounds(world.page))), lops' = RemoveAt(lops, i)
    PROVE  LET v == RoundApplied(lview, lops[i])
           IN  /\ lops[i].round # 0 /\ v.outdated \in BOOLEAN
               /\ \A k \in 1 .. Len(lops') : Fetched(lops'[k], items, online, world.page)
               /\ Fresh(v, lops', items, online, world.page, world.match)
<1> DEFINE op == lops[i]
           v == RoundApplied(lview, op)
<1>1. /\ \A k \in 1 .. Len(lops') : \E j \in 1 .. Len(lops) : j # i /\ lops'[k] = lops[j]
      /\ \A j \in 1 .. Len(lops) : j # i => \E k \in 1 .. Len(lops') : lops'[k] = lops[j]
  BY ListChainRemoved DEF ListsInv
<1>2. \A k \in 1 .. Len(lops') : Fetched(lops'[k], items, online, world.page)
  BY <1>1, Zenon
<1>3. ListView(lview) /\ ListChain(op) /\ op.round \in Nat
  BY DEF ListsInv, ListChain
<1>4. Fetched(op, items, online, world.page) /\ op.stale \in BOOLEAN
  BY DEF Fetched
<1>5. /\ op.round # 0
      /\ op.round = 1 /\ world.page \in AgentPages => world.page = "agent" /\ op.up = {}
  <2> DEFINE n == NextRound(op)
             len == Len(Rounds(world.page))
  <2>1. /\ len \in 1 .. 3 /\ (world.page = "agents" => len = 3)
        /\ world.page = "agent" => len = 2
    BY PagesOfLists
  <2>2. ~(n <= len)
    OBVIOUS
  <2>3. \/ world.page = "agent" /\ op.round = 1 /\ op.up = {}
        \/ n = op.round + 1
    BY DEF NextRound
  <2> HIDE DEF n, len
  <2>4. op.round # 0
    BY <1>3, <2>1, <2>2, <2>3
  <2>5. op.round = 1 /\ world.page \in AgentPages => world.page = "agent" /\ op.up = {}
    BY <2>1, <2>2, <2>3 DEF AgentPages
  <2>6. QED BY <2>4, <2>5
<1>6. CASE op.round = 1
  <2>1. /\ v.outdated = op.stale
        /\ ~op.stale => Listed(v, items, online, world.page, world.match)
        /\ ~op.stale /\ world.page = "agent" /\ op.up = {} => v.stats = online
    BY <1>3, <1>4, <1>6, FirstRoundShows
  <2> HIDE DEF v
  <2>2. Fresh(v, lops', items, online, world.page, world.match)
    BY <1>4, <1>5, <1>6, <2>1, Zenon DEF Fresh
  <2>3. QED BY <1>2, <1>4, <1>5, <2>1, <2>2 DEF v
<1>7. CASE op.round # 1
  <2>1. op.round \in Nat \ {0, 1} /\ ~(op.round <= 1) /\ (op.round # 2 => ~(op.round <= 2))
    BY <1>3, <1>5, <1>7
  <2>2. /\ v.outdated \in BOOLEAN /\ (~v.outdated => ~lview.outdated)
        /\ Listed(lview, items, online, world.page, world.match) =>
              Listed(v, items, online, world.page, world.match)
        /\ ~v.outdated /\ op.round = 2 => v.stats = online
        /\ op.round # 2 => v.stats = lview.stats
    BY <1>3, <1>4, <2>1, LaterRoundShows
  <2> HIDE DEF v
  <2>3. ASSUME v.outdated = FALSE PROVE lview.outdated = FALSE
    BY <2>2, <2>3
  <2>4. ASSUME v.outdated = FALSE
        PROVE  \/ Listed(v, items, online, world.page, world.match)
               \/ \E k \in 1 .. Len(lops') : lops'[k].round <= 1
    BY <1>1, <2>1, <2>2, <2>3, <2>4, Zenon DEF Fresh
  <2>5. ASSUME v.outdated = FALSE, world.page \in AgentPages
        PROVE  v.stats = online \/ \E k \in 1 .. Len(lops') : lops'[k].round <= 2
    <3>1. CASE op.round = 2
      BY <2>2, <2>5, <3>1
    <3>2. CASE op.round # 2
      BY <1>1, <2>1, <2>2, <2>3, <2>5, <3>2, Zenon DEF Fresh
    <3>3. QED BY <3>1, <3>2
  <2>6. Fresh(v, lops', items, online, world.page, world.match)
    BY <2>4, <2>5, Zenon DEF Fresh
  <2>7. QED BY <1>2, <1>5, <2>2, <2>6 DEF v
<1>8. QED BY <1>6, <1>7, Zenon

\* A chain goes on with its next round, and shows what this one has brought.
LEMMA ListGoesOn ==
    ASSUME ListsInv, UNCHANGED world, Rounds(world.page) # <<>>, lview.outdated \in BOOLEAN,
           \A k \in 1 .. Len(lops) : Fetched(lops[k], items, online, world.page),
           Fresh(lview, lops, items, online, world.page, world.match),
           NEW i \in 1 .. Len(lops), lops[i].open = {},
           NextRound(lops[i]) <= Len(Rounds(world.page)),
           lops' = [lops EXCEPT ![i].round = NextRound(lops[i]),
                                ![i].open = Rounds(world.page)[NextRound(lops[i])]]
    PROVE  LET v == IF lops[i].round = 0 THEN LoadStarts(lview)
                    ELSE RoundApplied(lview, lops[i])
           IN  /\ v.outdated \in BOOLEAN
               /\ \A k \in 1 .. Len(lops') : Fetched(lops'[k], items, online, world.page)
               /\ Fresh(v, lops', items, online, world.page, world.match)
<1> DEFINE op == lops[i]
           n == NextRound(op)
           o == Rounds(world.page)[n]
           e == [op EXCEPT !.round = n, !.open = o]
           v == RoundApplied(lview, op)
<1>00. IsSeq(lops)
  BY DEF ListsInv
<1>0. DOMAIN lops = 1 .. Len(lops)
  BY <1>00, SequenceLength
<1>1. ListView(lview) /\ ListChain(op) /\ op.round \in Nat
  BY DEF ListsInv, ListChain
<1>2. Fetched(op, items, online, world.page) /\ op.stale \in BOOLEAN
  BY DEF Fetched
<1>3. /\ Fetched(e, items, online, world.page) /\ e.round = n
      /\ op.round = 0 => n = 1
      /\ op.round = 1 => n = 2
  BY <1>1, <1>2, GoneOnFetched
<1>4. lops' = [lops EXCEPT ![i] = e]
  <2>1. lops' = [lops EXCEPT ![i].round = n, ![i].open = o]
    OBVIOUS
  <2> HIDE DEF n, o
  <2>2. QED BY <1>0, <2>1
<1> HIDE DEF e, n, o
<1>5. /\ Len(lops') = Len(lops) /\ lops'[i] = e
      /\ \A k \in 1 .. Len(lops) : k # i => lops'[k] = lops[k]
  BY <1>00, <1>4, ListChainReplaced, Zenon
<1>6. \A k \in 1 .. Len(lops') : Fetched(lops'[k], items, online, world.page)
  BY <1>3, <1>5, Zenon
<1>7. CASE op.round = 0
  <2> DEFINE w == LoadStarts(lview)
  <2>1. w.outdated = lview.outdated
    BY <1>1 DEF LoadStarts, ListView
  <2>2. i \in 1 .. Len(lops') /\ lops'[i].round \in {0, 1}
    BY <1>3, <1>5, <1>7
  <2> HIDE DEF w
  <2>3. Fresh(w, lops', items, online, world.page, world.match)
    BY <2>2, FreshWaits, Zenon
  <2>4. QED BY <1>6, <1>7, <2>1, <2>3 DEF w
<1>8. CASE op.round = 1
  <2>1. /\ v.outdated = op.stale
        /\ ~op.stale => Listed(v, items, online, world.page, world.match)
    BY <1>1, <1>2, <1>8, FirstRoundShows
  <2>2. i \in 1 .. Len(lops') /\ lops'[i].round <= 2
    <3>1. n = 2 /\ lops'[i].round = n
      BY <1>3, <1>5, <1>8
    <3>2. QED BY <1>5, <3>1
  <2> HIDE DEF v
  <2>3. Fresh(v, lops', items, online, world.page, world.match)
    BY <1>2, <2>1, <2>2, Zenon DEF Fresh
  <2>4. QED BY <1>2, <1>6, <1>8, <2>1, <2>3 DEF v
<1>9. CASE op.round \notin {0, 1}
  <2>1. op.round \in Nat \ {0, 1} /\ ~(op.round <= 1) /\ (op.round # 2 => ~(op.round <= 2))
    BY <1>1, <1>9
  <2>2. /\ v.outdated \in BOOLEAN /\ (~v.outdated => ~lview.outdated)
        /\ Listed(lview, items, online, world.page, world.match) =>
              Listed(v, items, online, world.page, world.match)
        /\ ~v.outdated /\ op.round = 2 => v.stats = online
        /\ op.round # 2 => v.stats = lview.stats
    BY <1>1, <1>2, <2>1, LaterRoundShows
  <2> HIDE DEF v
  <2>3. ASSUME v.outdated = FALSE PROVE lview.outdated = FALSE
    BY <2>2, <2>3
  <2>4. ASSUME v.outdated = FALSE
        PROVE  \/ Listed(v, items, online, world.page, world.match)
               \/ \E k \in 1 .. Len(lops') : lops'[k].round <= 1
    BY <1>5, <2>1, <2>2, <2>3, <2>4, Zenon DEF Fresh
  <2>5. ASSUME v.outdated = FALSE, world.page \in AgentPages
        PROVE  v.stats = online \/ \E k \in 1 .. Len(lops') : lops'[k].round <= 2
    <3>1. CASE op.round = 2
      BY <2>2, <2>5, <3>1
    <3>2. CASE op.round # 2
      BY <1>5, <2>1, <2>2, <2>3, <2>5, <3>2, Zenon DEF Fresh
    <3>3. QED BY <3>1, <3>2
  <2>6. Fresh(v, lops', items, online, world.page, world.match)
    BY <2>4, <2>5, Zenon DEF Fresh
  <2>7. QED BY <1>6, <1>9, <2>2, <2>6 DEF v
<1>10. QED BY <1>7, <1>8, <1>9, Zenon

\* The answers of a round are shown.
LEMMA ListRoundShown ==
    ASSUME ListsInv, ShownInv, UNCHANGED world, NEW i \in 1 .. Len(lops), RoundArrives(i)
    PROVE  ShownInv'
<1> DEFINE op == lops[i]
           n == NextRound(op)
           v == IF op.round = 0 THEN LoadStarts(lview) ELSE RoundApplied(lview, op)
<1>1. /\ op.open = {} /\ UNCHANGED <<items, online, lfails>>
      /\ IF n <= Len(Rounds(world.page))
         THEN /\ lops' = [lops EXCEPT ![i].round = n, ![i].open = Rounds(world.page)[n]]
              /\ lview' = v
         ELSE lops' = RemoveAt(lops, i) /\ lview' = ChainEnds(v, op)
  BY DEF RoundArrives
<1>2. SUFFICES ASSUME lfails = 0, Rounds(world.page) # <<>>
               PROVE  /\ lview'.outdated \in BOOLEAN
                      /\ \A j \in 1 .. Len(lops') :
                            Fetched(lops'[j], items, online, world.page)
                      /\ Fresh(lview', lops', items, online, world.page, world.match)
  BY <1>1, Zenon DEF ShownInv
<1>3. /\ lview.outdated \in BOOLEAN
      /\ \A k \in 1 .. Len(lops) : Fetched(lops[k], items, online, world.page)
      /\ Fresh(lview, lops, items, online, world.page, world.match)
  BY <1>2 DEF ShownInv
<1>4. CASE n <= Len(Rounds(world.page))
  <2>1. /\ v.outdated \in BOOLEAN
        /\ \A k \in 1 .. Len(lops') : Fetched(lops'[k], items, online, world.page)
        /\ Fresh(v, lops', items, online, world.page, world.match)
    BY <1>1, <1>2, <1>3, <1>4, ListGoesOn
  <2>2. lview' = v
    BY <1>1, <1>4
  <2> HIDE DEF v
  <2>3. QED BY <2>1, <2>2
<1>5. CASE ~(n <= Len(Rounds(world.page)))
  <2> DEFINE a == RoundApplied(lview, op)
  <2>1. /\ op.round # 0 /\ a.outdated \in BOOLEAN
        /\ \A k \in 1 .. Len(lops') : Fetched(lops'[k], items, online, world.page)
        /\ Fresh(a, lops', items, online, world.page, world.match)
    BY <1>1, <1>2, <1>3, <1>5, ListEnded
  <2>2. lview' = ChainEnds(a, op)
    BY <1>1, <1>5, <2>1
  <2>3. ListView(a)
    BY RoundAppliedView DEF SameSpinners, ListsInv
  <2> HIDE DEF a
  <2>4. SameList(a, lview')
    BY <2>2, <2>3 DEF ListView, ChainEnds, SameList
  <2>5. Fresh(lview', lops', items, online, world.page, world.match)
    BY <2>1, <2>4, FreshCarries, Zenon
  <2>6. lview'.outdated \in BOOLEAN
    BY <2>1, <2>4 DEF SameList
  <2>7. QED BY <2>1, <2>5, <2>6
<1>6. QED BY <1>4, <1>5, Zenon

\* Every step of the console.
LEMMA NextShownInv == ListsInv /\ ShownInv /\ [Next]_wvars => ShownInv'
<1> SUFFICES ASSUME ListsInv, ShownInv, [Next]_wvars PROVE ShownInv'
  OBVIOUS
<1>1. CASE ListNext
  <2>0. UNCHANGED world
    BY <1>1 DEF ListNext
  <2>1. CASE \E i \in 1 .. Len(lops) :
                \/ ServeListChange(i) \/ RoundArrives(i) \/ RequestLost(i)
                \/ \E r \in {"rows", "all", "stats", "audit"} : ServeRequest(i, r)
    BY <2>0, <2>1, ListChanged, ListRoundShown, ListFailed, ListServed, Zenon
  <2>2. ASSUME NEW kw, TypeSearch(kw) PROVE ShownInv'
    <3>1. /\ lview' = [lview EXCEPT !.search = kw] /\ ListView(lview)
          /\ UNCHANGED <<items, online, lops, lfails>>
      BY <2>2 DEF TypeSearch, ListsInv
    <3>2. SameList(lview, lview')
      BY <3>1 DEF ListView, SameList
    <3>3. /\ lview.outdated \in BOOLEAN => lview'.outdated \in BOOLEAN
          /\ Fresh(lview, lops, items, online, world.page, world.match) =>
                Fresh(lview', lops, items, online, world.page, world.match)
      BY <3>2, FreshCarries, Zenon DEF SameList
    <3>4. QED
      BY <2>0, <3>1, <3>3, Zenon DEF ShownInv
  <2>3. QED
    BY <1>1, <2>0, <2>1, <2>2, ListFlipped, ListClicksShow, Zenon DEF ListNext
<1>2. CASE UNCHANGED lvars /\ UNCHANGED world
  BY <1>2 DEF lvars, ShownInv
<1>3. QED
  BY <1>1, <1>2
     DEF Next, wvars, ResultPage, CreationPages, Timeline, FlamePages, SessionOfTab, Groups,
         Lists, Settings, ResultNext, CreationNext, TimelineNext, FlameNext, SessionNext,
         GroupsNext, SettingsNext

\* The page of a list when it is opened waits for its first round.
LEMMA ShownInitInv == Init => ShownInv
<1> SUFFICES ASSUME Init PROVE ShownInv
  OBVIOUS
<1> DEFINE e == [kind |-> "load", id |-> 0, new |-> 0, page |-> 1, kw |-> "",
                 round |-> 1, open |-> Rounds(world.page)[1], rows |-> <<>>,
                 all |-> <<>>, up |-> {}, stale |-> FALSE]
<1>1. /\ lops = IF Rounds(world.page) = <<>> THEN <<>> ELSE <<e>>
      /\ lview = EmptyList /\ lfails = 0 /\ world \in Worlds
  BY DEF Init, ListInit
<1>2. SUFFICES ASSUME Rounds(world.page) # <<>>
               PROVE  /\ \A k \in 1 .. Len(lops) :
                            Fetched(lops[k], items, online, world.page)
                      /\ Fresh(lview, lops, items, online, world.page, world.match)
                      /\ lview.outdated \in BOOLEAN
  BY <1>1 DEF ShownInv
<1>3. e.round = 1 /\ e.open = Rounds(world.page)[1] /\ e.stale = FALSE
  OBVIOUS
<1> HIDE DEF e
<1>4. Len(lops) = 1 /\ lops[1] = e
  BY <1>1, <1>2, OneElement
<1>5. (\A k \in 1 .. Len(lops) : k = 1) /\ 1 \in 1 .. Len(lops) /\ lops[1].round \in {0, 1}
  BY <1>3, <1>4
<1>6. "rows" \in e.open /\ "change" \notin e.open /\ ~(e.round > 1)
  BY <1>2, <1>3, PagesOfLists
<1>7. Fetched(e, items, online, world.page)
  BY <1>3, <1>6 DEF Fetched
<1>8. Fresh(lview, lops, items, online, world.page, world.match)
  BY <1>5, FreshWaits, Zenon
<1>9. lview.outdated \in BOOLEAN
  BY <1>1 DEF EmptyList
<1>10. QED BY <1>4, <1>5, <1>7, <1>8, <1>9

\* Without failures, a list page at rest shows what the server holds.
LEMMA ShownIsSettled ==
    ASSUME ShownInv PROVE ListsSettled
<1> SUFFICES ASSUME lops = <<>>, lfails = 0, Rounds(world.page) # <<>>, ~lview.outdated
             PROVE  CASE world.page = "tasks" ->
                        /\ lview.rows = PageOf(Matching(items, lview.asked, world.match),
                                               lview.page)
                        /\ lview.total = Len(Matching(items, lview.asked, world.match))
                        /\ lview.all = items
                      [] world.page = "schedules" -> lview.rows = items
                      [] OTHER -> /\ lview.rows = items /\ lview.up = online
                                  /\ lview.stats = online
  BY DEF ListsSettled
<1>1. \A k \in 1 .. Len(lops) : FALSE
  OBVIOUS
<1>2. /\ Fresh(lview, lops, items, online, world.page, world.match)
      /\ lview.outdated = FALSE
  BY DEF ShownInv
<1>3. /\ Listed(lview, items, online, world.page, world.match)
      /\ world.page \in AgentPages => lview.stats = online
  BY <1>1, <1>2, Zenon DEF Fresh
<1>4. world.page \in {"tasks", "schedules"} \cup AgentPages
  BY PagesOfLists DEF AgentPages
<1>5. QED
  BY <1>3, <1>4 DEF Listed

=============================================================================
