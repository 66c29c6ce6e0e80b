------------------------------- MODULE Session -------------------------------
(***************************************************************************)
(* Accounts and sessions: the users and user_sessions tables behind the    *)
(* log-in API (store.go, server.go) and the tabs of one browser that use   *)
(* them (static/app.js).                                                   *)
(*                                                                         *)
(* The tabs share localStorage, where trinet_token and trinet_role live;   *)
(* each has its own screen, menus and log stream.  The server handles a    *)
(* request in the step that sends it; its answer takes any time, and any   *)
(* other step of any tab may come in between.  (A call sees nothing but    *)
(* whether its session is live, so one that takes time on its way there is *)
(* one that was sent later.)  Every call of fetchAPI that meets 401 calls  *)
(* logout(), which ends the session that is stored at that moment.         *)
(*                                                                         *)
(* Left out: passwords (a wrong one is a refused log-in, or a 400 that     *)
(* changes nothing), captchas, the closed registration, and two equal      *)
(* answers on their way to one tab, which are one here.                    *)
(***************************************************************************)
EXTENDS Naturals, FiniteSets

CONSTANTS
    Tab,
    Account,
    Root,       \* the account with id 1, which EnsureAdminUser has made
    MaxLogin,   \* bound: sessions ever issued
    MaxFaults,  \* bound: lost requests and database errors
    MaxEvents,  \* bound: sessions that expire, accounts deleted, roles changed
    NoAccount

ASSUME SessionAssumption ==
    /\ Root \in Account
    /\ MaxLogin \in Nat \ {0}
    /\ MaxFaults \in Nat
    /\ MaxEvents \in Nat
    /\ NoAccount \notin Account

Tok == 1..MaxLogin
NoTok == 0
Role == {"admin", "user"}
NoRole == "none"

VARIABLES
    users,      \* users[a]: role of account a in table users, or NoRole
    owner,      \* owner[k]: whose session k is in user_sessions
    had,        \* history: the roles the user of k has had while k lived
    live,       \* sessions AuthenticateToken accepts
    store,      \* localStorage
    screen,     \* what each tab shows
    net,        \* answers on their way
    faults, events,
    legacy,     \* history: a token was stored by a version without roles
    calm        \* history: nobody asked to log out, nothing ended or failed

accounts == <<users, owner, had>>
vars == <<accounts, live, store, screen, net, faults, events, legacy, calm>>

\* "leave" is an answer that makes its tab call logout: a 401 to any call of
\* fetchAPI, or a changed password.  "logout" is the answer or the failure of
\* /api/logout.  A role in an answer is that of the moment it was sent.
Kind == {"login", "role", "leave", "logout"}
Answer == [tab : Tab, kind : Kind, tok : Tok \cup {NoTok}, role : Role \cup {NoRole}]

TypeOK ==
    /\ users \in [Account -> Role \cup {NoRole}]
    /\ owner \in [Tok -> Account \cup {NoAccount}]
    /\ had \in [Tok -> SUBSET Role]
    /\ live \subseteq {k \in Tok : owner[k] # NoAccount}
    /\ store \in [tok : Tok \cup {NoTok}, role : Role \cup {NoRole}]
    /\ screen \in [Tab -> {"closed", "login", "register", "app"}]
    /\ net \subseteq Answer
    /\ faults \in 0..MaxFaults
    /\ events \in 0..MaxEvents
    /\ legacy \in BOOLEAN
    /\ calm \in BOOLEAN
    /\ store.tok # NoTok => owner[store.tok] # NoAccount

(***************************************************************************)
(* Calls                                                                   *)
(***************************************************************************)
Reply(t, kind, k, r) == [tab |-> t, kind |-> kind, tok |-> k, role |-> r]
Bare(t, kind) == Reply(t, kind, NoTok, NoRole)

AuthenticateQuietly(t, k, answer) ==                           \* mutant
    IF k \in live THEN answer ELSE {}

\* checkAuth: AuthenticateToken knows the token, or fetchAPI will meet 401.
AuthenticateToken(t, k, answer) ==
    IF k \in live THEN answer ELSE {Bare(t, "leave")}

\* A lost request, or a database error, which AuthenticateToken refuses for.
Fault ==
    /\ faults < MaxFaults
    /\ faults' = faults + 1
    /\ calm' = FALSE

(***************************************************************************)
(* The screen                                                              *)
(***************************************************************************)
Empty == [tok |-> NoTok, role |-> NoRole]

\* The overlay shows the form it showed last.
Overlay(t) == IF screen[t] = "register" THEN "register" ELSE "login"

\* The records are loaded, and if no role is stored the one that table users
\* has by now.
FirstCalls(t, s) ==
    AuthenticateToken(t, s.tok,
        IF s.role = NoRole THEN {Reply(t, "role", s.tok, users[owner[s.tok]])} ELSE {})

\* localStorage becomes s and tab t shows it; rest is on its way.
CheckLogin(t, s, rest) ==
    /\ store' = s
    /\ screen' = [screen EXCEPT ![t] = IF s.tok # NoTok THEN "app" ELSE Overlay(t)]
    /\ net' = rest \cup IF s.tok # NoTok THEN FirstCalls(t, s) ELSE {}
    /\ UNCHANGED <<live, faults>>

\* DestroySession ends the session of whoever holds the token.
DestroySession(k) ==
    \/ live' = live \ {k} /\ UNCHANGED faults
    \/ UNCHANGED live /\ faults < MaxFaults /\ faults' = faults + 1

\* logout: without a token it wipes at once, otherwise after /api/logout.
StartLogout(t, rest) ==
    \/ /\ store.tok = NoTok
       /\ CheckLogin(t, Empty, rest)
    \/ /\ store.tok # NoTok
       /\ net' = rest \cup {Bare(t, "logout")}
       /\ DestroySession(store.tok)
       /\ UNCHANGED <<store, screen>>

Init ==
    /\ users = [a \in Account |-> IF a = Root THEN "admin" ELSE NoRole]
    /\ legacy \in BOOLEAN
    /\ owner = [k \in Tok |-> IF legacy /\ k = 1 THEN Root ELSE NoAccount]
    /\ had = [k \in Tok |-> IF legacy /\ k = 1 THEN {"admin"} ELSE {}]
    /\ live = IF legacy THEN {1} ELSE {}
    /\ store = [Empty EXCEPT !.tok = IF legacy THEN 1 ELSE NoTok]
    /\ screen = [t \in Tab |-> "closed"]
    /\ net = {}
    /\ faults = 0
    /\ events = 0
    /\ calm = TRUE

\* DOMContentLoaded
Open(t) ==
    /\ screen[t] = "closed"
    /\ CheckLogin(t, store, net)
    /\ UNCHANGED <<accounts, events, legacy, calm>>

(***************************************************************************)
(* What users do                                                           *)
(***************************************************************************)
InsertNoUser(k, a) ==                                          \* mutant
    /\ had' = [had EXCEPT ![k] = {users[a]}]
    /\ live' = live \cup {k}
    /\ UNCHANGED owner

\* INSERT INTO user_sessions
Insert(k, a) ==
    /\ owner' = [owner EXCEPT ![k] = a]
    /\ had' = [had EXCEPT ![k] = {users[a]}]
    /\ live' = live \cup {k}

\* CreateSession: the next token, with the role the account has now.
CreateSession(t, a) ==
    \E k \in Tok :
        /\ users[a] # NoRole
        /\ owner[k] = NoAccount
        /\ \A j \in 1..(k - 1) : owner[j] # NoAccount
        /\ Insert(k, a)
        /\ net' = net \cup {Reply(t, "login", k, users[a])}

\* The answer may be lost, and leaves a session nobody uses.
handleLoginSubmit(t, a) ==
    /\ screen[t] = "login"
    /\ CreateSession(t, a)
    /\ UNCHANGED <<users, store, screen, faults, events, legacy, calm>>

toggleLoginReg(t) ==
    /\ screen[t] \in {"login", "register"}
    /\ screen' = [screen EXCEPT ![t] = IF @ = "login" THEN "register" ELSE "login"]
    /\ UNCHANGED <<accounts, live, store, net, faults, events, legacy, calm>>

\* RegisterUser takes the names no account has.  The answer only shows the
\* log-in form, which toggleLoginReg does at any time.
handleRegisterSubmit(t, a) ==
    /\ screen[t] = "register"
    /\ users[a] = NoRole
    /\ users' = [users EXCEPT ![a] = "user"]
    /\ UNCHANGED <<owner, had, live, store, screen, net, faults, events, legacy, calm>>

Logout(t) ==
    /\ screen[t] = "app"
    /\ StartLogout(t, net)
    /\ calm' = FALSE
    /\ UNCHANGED <<accounts, events, legacy>>

\* The sessions of the account survive the change.
ChangePassword(t) ==
    /\ screen[t] = "app"
    /\ net' = net \cup
          AuthenticateToken(t, store.tok, {Bare(t, "leave")})
    /\ calm' = FALSE
    /\ UNCHANGED <<accounts, live, store, screen, faults, events, legacy>>

\* The dialog, and the form of the profile page.
handlePasswordSubmit(t) == ChangePassword(t)
handleProfilePasswordSubmit(t) == ChangePassword(t)

\* Any other call of a page, whose answer changes nothing here unless it is a
\* 401: the rest of loadRecords, a poll, a click.
Call(t) ==
    /\ \/ net' = net \cup AuthenticateToken(t, store.tok, {})
          /\ UNCHANGED <<faults, calm>>
       \/ net' = net \cup {Bare(t, "leave")} /\ Fault
    /\ UNCHANGED <<accounts, live, store, screen, events, legacy>>

Act(t) == screen[t] = "app" /\ Call(t)

PollsAlways(t) == screen[t] # "closed"                         \* mutant

\* setInterval: every tab polls while a token is stored, whatever it shows.
Polls(t) == screen[t] # "closed" /\ store.tok # NoTok

Interval(t) == Polls(t) /\ Call(t)

(***************************************************************************)
(* The answers                                                             *)
(***************************************************************************)
KeepingRole(m) ==                                              \* mutant
    [tok |-> m.tok,
     role |-> IF store.role = NoRole THEN m.role ELSE store.role]

\* trinet_token and trinet_role after a log-in.
WithRole(m) == [tok |-> m.tok, role |-> m.role]

LoggedIn(t, m) ==
    /\ CheckLogin(t, WithRole(m), net \ {m})
    /\ UNCHANGED calm

\* The role goes to localStorage, whatever session is there by now.
RoleFetched(t, m) ==
    /\ store' = [store EXCEPT !.role = m.role]
    /\ net' = net \ {m}
    /\ UNCHANGED <<live, screen, faults, calm>>

\* A 401, or a changed password, ends the session stored by now.
Leaves(t, m) ==
    /\ StartLogout(t, net \ {m})
    /\ UNCHANGED calm

LoggedOutKeeping(t, m) ==                                      \* mutant
    /\ net' = net \ {m}
    /\ UNCHANGED <<live, store, screen, faults, calm>>

\* logout goes on, whatever has become of /api/logout.
LoggedOut(t, m) ==
    /\ CheckLogin(t, Empty, net \ {m})
    /\ UNCHANGED calm

Handle(m) ==
    /\ m \in net
    /\ \/ m.kind = "login" /\ LoggedIn(m.tab, m)
       \/ m.kind = "role" /\ RoleFetched(m.tab, m)
       \/ m.kind = "leave" /\ Leaves(m.tab, m)
       \/ m.kind = "logout" /\ LoggedOut(m.tab, m)
    /\ UNCHANGED <<accounts, events, legacy>>

\* The answer of anything but logout is lost: the tab only reports it.
Lose(m) ==
    /\ m \in net
    /\ m.kind # "logout"
    /\ net' = net \ {m}
    /\ Fault
    /\ UNCHANGED <<accounts, live, store, screen, events, legacy>>

(***************************************************************************)
(* What administrators do, in this browser or another                      *)
(***************************************************************************)
\* Their calls are served as long as there is one.
Administered == \E b \in Account : users[b] = "admin"

AdminCreateUser(a, r) ==
    /\ Administered
    /\ users[a] = NoRole
    /\ users' = [users EXCEPT ![a] = r]
    /\ UNCHANGED <<owner, had, live, store, screen, net, faults, events, legacy, calm>>

\* AdminUpdateUser: anyone's role, an administrator's own included.  Sessions
\* go on, and no tab is told.
AdminUpdateUser(a, r) ==
    /\ Administered
    /\ users[a] \notin {NoRole, r}
    /\ events < MaxEvents
    /\ events' = events + 1
    /\ users' = [users EXCEPT ![a] = r]
    /\ had' = [k \in Tok |-> had[k] \cup IF k \in live /\ owner[k] = a THEN {r} ELSE {}]
    /\ UNCHANGED <<owner, live, store, screen, net, faults, legacy, calm>>

(***************************************************************************)
(* Ends of sessions                                                        *)
(***************************************************************************)
End(sessions) ==
    /\ events < MaxEvents
    /\ events' = events + 1
    /\ live' = live \ sessions
    /\ calm' = FALSE
    /\ UNCHANGED <<owner, had, store, screen, net, faults, legacy>>

\* Seven days have passed.
Expire(k) ==
    /\ k \in live
    /\ End({k})
    /\ UNCHANGED users

\* AdminDeleteUser: the sessions stay, but no user joins them any more, a new
\* one of that name included.
DeleteAccount(a) ==
    /\ Administered
    /\ users[a] # NoRole
    /\ a # Root
    /\ End({k \in Tok : owner[k] = a})
    /\ users' = [users EXCEPT ![a] = NoRole]

Next ==
    \/ \E t \in Tab :
         \/ Open(t)
         \/ \E a \in Account : handleLoginSubmit(t, a) \/ handleRegisterSubmit(t, a)
         \/ toggleLoginReg(t)
         \/ Logout(t)
         \/ handlePasswordSubmit(t) \/ handleProfilePasswordSubmit(t)
         \/ Act(t)
         \/ Interval(t)
    \/ \E m \in net : Handle(m) \/ Lose(m)
    \/ \E k \in Tok : Expire(k)
    \/ \E a \in Account :
         \/ \E r \in Role : AdminCreateUser(a, r) \/ AdminUpdateUser(a, r)
         \/ DeleteAccount(a)

\* The interval fires and tabs handle answers; nobody has to do anything.
Fairness ==
    \A t \in Tab :
        /\ WF_vars(Interval(t))
        /\ \A kind \in {"leave", "logout"} :
             WF_vars(\E m \in net : m.tab = t /\ m.kind = kind /\ Handle(m))

Spec == Init /\ [][Next]_vars /\ Fairness

(***************************************************************************)
(* Properties                                                              *)
(***************************************************************************)
\* Nobody is thrown out: while no one has asked to log out, nothing has ended
\* and nothing has failed, a stored session is replaced by a new log-in at
\* most.  Calls sent before it was stored, by any tab, do not end it.
NeverThrownOut ==
    [][calm' /\ store.tok # NoTok => store'.tok # NoTok]_vars

\* The stored role is one that the user of the stored session has had since he
\* logged in, and never somebody else's, also when tabs log in as different
\* users, their answers cross and administrators change roles meanwhile.  It may
\* be out of date: nobody tells the tabs of a change.  A role fetched for a
\* session stored by an old version may arrive after another log-in.
RoleIsOwn ==
    store.tok # NoTok /\ store.role # NoRole =>
        \/ store.role \in had[store.tok]
        \/ legacy /\ \E k \in Tok \ {1} : owner[k] # NoAccount

\* A session that has ended does not stay in the browser while a tab is open:
\* the poll meets 401 and logout wipes it, even if its request is lost.
DeadSessionNoticed ==
    \A k \in Tok :
        (store.tok = k /\ k \notin live /\ \E t \in Tab : screen[t] # "closed")
            ~> store.tok # k

\* Once a tab waits for /api/logout, the session that is stored leaves the
\* browser, even if the server is never reached.
LogoutLeaves ==
    \A k \in Tok :
        (store.tok = k /\ \E m \in net : m.kind = "logout") ~> store.tok # k
=============================================================================
