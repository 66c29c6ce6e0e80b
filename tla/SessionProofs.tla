---------------------------- MODULE SessionProofs ----------------------------
(***************************************************************************)
(* Theorems about Session, for every value of its constants.               *)
(***************************************************************************)
EXTENDS Session, TLAPS

Known(k) == k \in Tok /\ owner[k] # NoAccount

\* The user of a session that is live has a role, which history knows; answers
\* carry sessions that were issued, with a role their user has had; only the
\* session of the old version was ever stored without a role, so only its role is
\* ever fetched.
IssuedInv ==
    /\ \A k \in live : users[owner[k]] \in had[k]
    /\ \A m \in net : m.kind \in {"login", "role"} => Known(m.tok) /\ m.role \in had[m.tok]
    /\ \A m \in net : m.kind = "role" => legacy /\ m.tok = 1
    /\ store.tok # NoTok /\ store.role = NoRole => legacy /\ store.tok = 1

IInv == TypeOK /\ IssuedInv /\ RoleIsOwn

(***************************************************************************)
(* Types and roles                                                         *)
(***************************************************************************)
Storage == [tok : Tok \cup {NoTok}, role : Role \cup {NoRole}]

\* What localStorage may hold.
Fits(s) ==
    /\ s \in Storage
    /\ s.tok # NoTok =>
         /\ Known(s.tok)
         /\ s.role = NoRole => legacy /\ s.tok = 1
         /\ s.role # NoRole => \/ s.role \in had[s.tok]
                               \/ legacy /\ \E k \in Tok \ {1} : owner[k] # NoAccount

LEMMA StoreFits == IInv => Fits(store)
BY DEF IInv, TypeOK, IssuedInv, RoleIsOwn, Fits, Storage, Known

LEMMA EmptyFits == Fits(Empty)
BY DEF Fits, Storage, Empty

\* The accounts and the history are as before.
Quiet ==
    /\ UNCHANGED <<accounts, legacy>>
    /\ events' \in 0..MaxEvents
    /\ calm' \in BOOLEAN

\* A step that brings no answers but these, and stores what may be stored.
LEMMA StepKeeps ==
    ASSUME IInv, Quiet, Fits(store'),
           screen' \in [Tab -> {"closed", "login", "register", "app"}],
           faults' \in 0..MaxFaults,
           live' \subseteq live,
           \A m \in net' : \/ m \in net
                           \/ m \in Answer /\ m.kind \in {"leave", "logout"}
                           \/ m \in Answer /\ m.kind = "role" /\ m.tok = 1 /\ legacy
                                /\ Known(1) /\ m.role \in had[1]
    PROVE  IInv'
<1>1. TypeOK'
  BY DEF IInv, TypeOK, Quiet, accounts, Fits, Storage, Known
<1>2. IssuedInv'
  BY DEF IInv, TypeOK, IssuedInv, Quiet, accounts, Fits, Known, Answer
<1>3. RoleIsOwn'
  BY DEF IInv, RoleIsOwn, Quiet, accounts, Fits
<1>. QED
  BY <1>1, <1>2, <1>3 DEF IInv

LEMMA CheckLoginKeeps ==
    ASSUME IInv, Quiet, NEW t \in Tab, NEW s, Fits(s), NEW rest \in SUBSET net,
           CheckLogin(t, s, rest)
    PROVE  IInv'
<1>1. Fits(store')
  BY DEF CheckLogin
<1>2. screen' \in [Tab -> {"closed", "login", "register", "app"}]
  BY DEF CheckLogin, Overlay, IInv, TypeOK
<1>3. ASSUME NEW m \in net', m \notin net
      PROVE  /\ m \in Answer
             /\ \/ m.kind = "leave"
                \/ m.kind = "role" /\ m.tok = 1 /\ legacy /\ Known(1) /\ m.role \in had[1]
  <2>1. s.tok # NoTok /\ m \in FirstCalls(t, s)
    BY <1>3 DEF CheckLogin
  <2>2. CASE s.tok \notin live
    BY <2>1, <2>2 DEF FirstCalls, AuthenticateToken, Bare, Reply, Answer, Kind
  <2>3. CASE s.tok \in live
    <3>1. s.role = NoRole /\ m = Reply(t, "role", s.tok, users[owner[s.tok]])
      BY <2>1, <2>3 DEF FirstCalls, AuthenticateToken
    <3>2. s.tok = 1 /\ legacy /\ Known(1) /\ users[owner[1]] \in had[1] /\ had[1] \subseteq Role
      BY <2>1, <2>3, <3>1 DEF Fits, IInv, IssuedInv, TypeOK, Known
    <3>. QED
      BY <3>1, <3>2 DEF Reply, Answer, Kind, Known
  <2>. QED
    BY <2>2, <2>3
<1>4. live' = live /\ faults' \in 0..MaxFaults
  BY DEF CheckLogin, IInv, TypeOK
<1>. QED
  BY <1>1, <1>2, <1>3, <1>4, StepKeeps

LEMMA StartLogoutKeeps ==
    ASSUME IInv, Quiet, NEW t \in Tab, NEW rest \in SUBSET net, StartLogout(t, rest)
    PROVE  IInv'
<1>1. CASE CheckLogin(t, Empty, rest)
  BY <1>1, EmptyFits, CheckLoginKeeps
<1>2. CASE /\ net' = rest \cup {Bare(t, "logout")}
           /\ DestroySession(store.tok)
           /\ UNCHANGED <<store, screen>>
  <2>1. Fits(store')
    BY <1>2, StoreFits
  <2>2. live' \subseteq live /\ faults' \in 0..MaxFaults
    BY <1>2, SessionAssumption DEF DestroySession, IInv, TypeOK
  <2>3. Bare(t, "logout") \in Answer /\ Bare(t, "logout").kind = "logout"
    BY DEF Bare, Reply, Answer, Kind
  <2>. QED
    BY <1>2, <2>1, <2>2, <2>3, StepKeeps DEF IInv, TypeOK
<1>. QED
  BY <1>1, <1>2 DEF StartLogout

LEMMA SessionInit == Init => IInv
<1> SUFFICES ASSUME Init PROVE IInv
  OBVIOUS
<1>1. 1 \in Tok /\ NoTok \notin Tok
  BY SessionAssumption DEF Tok, NoTok
<1>2. TypeOK
  BY <1>1, SessionAssumption DEF Init, TypeOK, Role, NoRole, Empty
<1>3. IssuedInv
  <2>1. CASE legacy
    <3>1. live = {1} /\ owner[1] = Root /\ had[1] = {"admin"} /\ users[Root] = "admin"
      BY <1>1, <2>1, SessionAssumption DEF Init
    <3>. QED
      BY <2>1, <3>1 DEF Init, IssuedInv, Empty
  <2>2. CASE ~ legacy
    BY <2>2 DEF Init, IssuedInv, Empty
  <2>. QED
    BY <2>1, <2>2 DEF Init
<1>. QED
  BY <1>2, <1>3 DEF IInv, RoleIsOwn, Init, Empty

\* A log-in issues a session nobody had, with the role of its user.
LEMMA LoginKeeps ==
    ASSUME IInv, NEW t \in Tab, NEW a \in Account, handleLoginSubmit(t, a)
    PROVE  IInv'
<1>1. PICK k \in Tok : /\ users[a] # NoRole
                       /\ owner[k] = NoAccount
                       /\ Insert(k, a)
                       /\ net' = net \cup {Reply(t, "login", k, users[a])}
  BY DEF handleLoginSubmit, CreateSession
<1>2. a # NoAccount /\ users[a] \in Role
  BY <1>1, SessionAssumption DEF IInv, TypeOK
<1>3. /\ owner' = [owner EXCEPT ![k] = a]
      /\ had' = [had EXCEPT ![k] = {users[a]}]
      /\ live' = live \cup {k}
      /\ UNCHANGED <<users, store, screen, faults, events, legacy, calm>>
  BY <1>1 DEF Insert, handleLoginSubmit
<1>4. TypeOK'
  BY <1>1, <1>2, <1>3 DEF IInv, TypeOK, Reply, Answer, Kind
<1>5. \A j \in Tok : Known(j) => owner'[j] = owner[j] /\ owner'[j] # NoAccount /\ had'[j] = had[j]
  BY <1>1, <1>2, <1>3 DEF IInv, TypeOK, Known
<1>6. IssuedInv'
  <2>1. owner'[k] = a /\ had'[k] = {users[a]}
    BY <1>3 DEF IInv, TypeOK
  <2>2. \A j \in live' : users'[owner'[j]] \in had'[j]
    BY <1>3, <1>5, <2>1 DEF IInv, TypeOK, IssuedInv, Known
  <2>3. \A m \in net' : m.kind \in {"login", "role"} =>
           (m.tok \in Tok /\ owner'[m.tok] # NoAccount) /\ m.role \in had'[m.tok]
    BY <1>1, <1>2, <1>5, <2>1 DEF IInv, IssuedInv, Known, Reply
  <2>4. \A m \in net' : m.kind = "role" => legacy' /\ m.tok = 1
    BY <1>1, <1>3 DEF IInv, IssuedInv, Reply
  <2>5. store'.tok # NoTok /\ store'.role = NoRole => legacy' /\ store'.tok = 1
    BY <1>3 DEF IInv, IssuedInv
  <2>. QED
    BY <2>2, <2>3, <2>4, <2>5, Zenon DEF IssuedInv, Known
<1>7. RoleIsOwn'
  BY <1>3, <1>5 DEF IInv, TypeOK, RoleIsOwn, Known
<1>. QED
  BY <1>4, <1>6, <1>7 DEF IInv

\* Answers that log the tab out change nothing that is stored yet.
LEMMA ReplyKeeps ==
    ASSUME IInv, Quiet, faults' \in 0..MaxFaults, NEW t \in Tab,
           net' \subseteq net \cup {Bare(t, "leave")},
           UNCHANGED <<live, store, screen>>
    PROVE  IInv'
<1>1. Bare(t, "leave") \in Answer /\ Bare(t, "leave").kind = "leave"
  BY DEF Bare, Reply, Answer, Kind
<1>2. Fits(store')
  BY StoreFits
<1>. QED
  BY <1>1, <1>2, StepKeeps DEF IInv, TypeOK

\* Users come, go and change their roles, as long as history keeps up with the
\* roles of those who have a session.
LEMMA UsersKeep ==
    ASSUME IInv, users' \in [Account -> Role \cup {NoRole}], live' \subseteq live,
           had' \in [Tok -> SUBSET Role], \A k \in Tok : had[k] \subseteq had'[k],
           \A k \in live' : users'[owner[k]] \in had'[k],
           UNCHANGED <<owner, store, screen, net, faults, legacy>>,
           events' \in 0..MaxEvents, calm' \in BOOLEAN
    PROVE  IInv'
<1>1. TypeOK'
  BY DEF IInv, TypeOK
<1>2. IssuedInv'
  <2>1. \A m \in net : m.kind \in {"login", "role"} => m.role \in had'[m.tok]
    BY DEF IInv, IssuedInv, Known
  <2>. QED
    BY <2>1 DEF IInv, IssuedInv, Known
<1>3. RoleIsOwn'
  BY DEF IInv, TypeOK, RoleIsOwn
<1>. QED
  BY <1>1, <1>2, <1>3 DEF IInv

\* A name that is free has no session that lives, so a new user has none.
LEMMA NewUserKeeps ==
    ASSUME IInv, NEW a \in Account, NEW r \in Role, users[a] = NoRole,
           users' = [users EXCEPT ![a] = r],
           UNCHANGED <<owner, had, live, store, screen, net, faults, events, legacy, calm>>
    PROVE  IInv'
<1>1. users' \in [Account -> Role \cup {NoRole}]
  BY DEF IInv, TypeOK
<1>2. ASSUME NEW k \in live PROVE users'[owner[k]] \in had[k]
  <2>1. owner[k] \in Account /\ users[owner[k]] \in had[k] /\ had[k] \subseteq Role
    BY DEF IInv, TypeOK, IssuedInv
  <2>2. owner[k] # a
    BY <2>1 DEF Role, NoRole
  <2>. QED
    BY <2>1, <2>2 DEF IInv, TypeOK
<1>. QED
  BY <1>1, <1>2, UsersKeep DEF IInv, TypeOK

\* A change of role goes to the history of every session it can be asked by.
LEMMA UpdateUserKeeps ==
    ASSUME IInv, NEW a \in Account, NEW r \in Role, AdminUpdateUser(a, r)
    PROVE  IInv'
<1>1. /\ users' = [users EXCEPT ![a] = r]
      /\ had' = [k \in Tok |-> had[k] \cup IF k \in live /\ owner[k] = a THEN {r} ELSE {}]
      /\ UNCHANGED <<owner, live, store, screen, net, faults, legacy, calm>>
  BY DEF AdminUpdateUser
<1>2. users' \in [Account -> Role \cup {NoRole}]
  BY <1>1 DEF IInv, TypeOK
<1>3. had' \in [Tok -> SUBSET Role] /\ \A k \in Tok : had[k] \subseteq had'[k]
  BY <1>1 DEF IInv, TypeOK
<1>4. ASSUME NEW k \in live PROVE users'[owner[k]] \in had'[k]
  <2>1. k \in Tok /\ owner[k] \in Account /\ users[owner[k]] \in had[k]
    BY DEF IInv, TypeOK, IssuedInv
  <2>2. CASE owner[k] = a
    BY <1>1, <2>1, <2>2 DEF IInv, TypeOK
  <2>3. CASE owner[k] # a
    BY <1>1, <2>1, <2>3 DEF IInv, TypeOK
  <2>. QED
    BY <2>2, <2>3
<1>5. events' \in 0..MaxEvents
  BY SessionAssumption DEF AdminUpdateUser, IInv, TypeOK
<1>. QED
  BY <1>1, <1>2, <1>3, <1>4, <1>5, UsersKeep DEF IInv, TypeOK

\* The sessions of a user who is deleted end with him.
LEMMA EndKeeps ==
    ASSUME IInv, NEW S, End(S), users' \in [Account -> Role \cup {NoRole}],
           \A k \in live \ S : users'[owner[k]] = users[owner[k]]
    PROVE  IInv'
<1>1. events' \in 0..MaxEvents
  BY SessionAssumption DEF End, IInv, TypeOK
<1>2. \A k \in live' : users'[owner[k]] \in had[k]
  BY DEF End, IInv, IssuedInv
<1>. QED
  BY <1>1, <1>2, UsersKeep DEF End, IInv, TypeOK

LEMMA HandleKeeps ==
    ASSUME IInv, NEW m \in net, Handle(m)
    PROVE  IInv'
<1>1. m \in Answer /\ m.tab \in Tab /\ net \ {m} \in SUBSET net
  BY DEF IInv, TypeOK, Answer
<1>2. UNCHANGED calm => Quiet
  BY DEF Handle, Quiet, IInv, TypeOK
<1>3. CASE m.kind = "login" /\ LoggedIn(m.tab, m)
  <2>1. Known(m.tok) /\ m.role \in had[m.tok] /\ m.role \in Role
    BY <1>3 DEF IInv, TypeOK, IssuedInv, Known
  <2>2. Fits(WithRole(m))
    BY <2>1 DEF Fits, WithRole, Storage, Known, Role, NoRole
  <2>. QED
    BY <1>1, <1>2, <1>3, <2>2, CheckLoginKeeps DEF LoggedIn
<1>4. CASE m.kind = "role" /\ RoleFetched(m.tab, m)
  <2>1. Known(1) /\ legacy /\ m.tok = 1 /\ m.role \in had[1] /\ m.role \in Role
    BY <1>4 DEF IInv, TypeOK, IssuedInv, Known
  <2>2. Fits(store')
    <3>1. store' = [tok |-> store.tok, role |-> m.role]
      BY <1>4, <2>1 DEF RoleFetched, IInv, TypeOK
    <3>. QED
      BY <2>1, <3>1, StoreFits DEF Fits, Storage, Known, Role, NoRole
  <2>. QED
    BY <1>2, <1>4, <2>2, StepKeeps DEF RoleFetched, IInv, TypeOK
<1>5. CASE m.kind = "leave" /\ Leaves(m.tab, m)
  BY <1>1, <1>2, <1>5, StartLogoutKeeps DEF Leaves
<1>6. CASE m.kind = "logout" /\ LoggedOut(m.tab, m)
  BY <1>1, <1>2, <1>6, CheckLoginKeeps, EmptyFits DEF LoggedOut
<1>. QED
  BY <1>3, <1>4, <1>5, <1>6 DEF Handle

LEMMA SessionStep == IInv /\ [Next]_vars => IInv'
<1> SUFFICES ASSUME IInv, [Next]_vars PROVE IInv'
  OBVIOUS
<1> USE DEF accounts
<1>1. ASSUME NEW t \in Tab, Open(t) PROVE IInv'
  <2>1. Quiet
    BY <1>1 DEF Open, Quiet, IInv, TypeOK
  <2>. QED
    BY <1>1, <2>1, StoreFits, CheckLoginKeeps DEF Open
<1>2. ASSUME NEW t \in Tab, NEW a \in Account, handleLoginSubmit(t, a) PROVE IInv'
  BY <1>2, LoginKeeps
<1>3. ASSUME NEW t \in Tab, NEW a \in Account, handleRegisterSubmit(t, a) PROVE IInv'
  BY <1>3, NewUserKeeps DEF handleRegisterSubmit, Role
<1>4. ASSUME NEW t \in Tab, toggleLoginReg(t) PROVE IInv'
  <2>1. Quiet
    BY <1>4 DEF toggleLoginReg, Quiet, IInv, TypeOK
  <2>2. screen' \in [Tab -> {"closed", "login", "register", "app"}]
    BY <1>4 DEF toggleLoginReg, IInv, TypeOK
  <2>. QED
    BY <1>4, <2>1, <2>2, StoreFits, StepKeeps DEF toggleLoginReg, IInv, TypeOK
<1>5. ASSUME NEW t \in Tab, Logout(t) PROVE IInv'
  <2>1. Quiet
    BY <1>5 DEF Logout, Quiet, IInv, TypeOK
  <2>. QED
    BY <1>5, <2>1, StartLogoutKeeps DEF Logout
<1>6. ASSUME NEW t \in Tab, ChangePassword(t) PROVE IInv'
  <2>1. Quiet
    BY <1>6 DEF ChangePassword, Quiet, IInv, TypeOK
  <2>2. net' \subseteq net \cup {Bare(t, "leave")}
    BY <1>6 DEF ChangePassword, AuthenticateToken
  <2>. QED
    BY <1>6, <2>1, <2>2, ReplyKeeps DEF ChangePassword, IInv, TypeOK
<1>7. ASSUME NEW t \in Tab, Call(t) PROVE IInv'
  <2>1. Quiet
    BY <1>7 DEF Call, Fault, Quiet, IInv, TypeOK
  <2>3. faults' \in 0..MaxFaults
    BY <1>7, SessionAssumption DEF Call, Fault, IInv, TypeOK
  <2>2. net' \subseteq net \cup {Bare(t, "leave")}
    BY <1>7 DEF Call, AuthenticateToken
  <2>. QED
    BY <1>7, <2>1, <2>2, <2>3, ReplyKeeps DEF Call
<1>8. ASSUME NEW m \in net, Lose(m) PROVE IInv'
  <2>1. Quiet
    BY <1>8 DEF Lose, Fault, Quiet, IInv, TypeOK
  <2>2. faults' \in 0..MaxFaults
    BY <1>8, SessionAssumption DEF Lose, Fault, IInv, TypeOK
  <2>. QED
    BY <1>8, <2>1, <2>2, StoreFits, StepKeeps DEF Lose, IInv, TypeOK
<1>9. ASSUME NEW a \in Account, NEW r \in Role, AdminCreateUser(a, r) \/ AdminUpdateUser(a, r) PROVE IInv'
  BY <1>9, NewUserKeeps, UpdateUserKeeps DEF AdminCreateUser
<1>10. ASSUME NEW k \in Tok, Expire(k) PROVE IInv'
  BY <1>10, EndKeeps DEF Expire, IInv, TypeOK
<1>11. ASSUME NEW a \in Account, DeleteAccount(a) PROVE IInv'
  <2>1. users' \in [Account -> Role \cup {NoRole}]
    BY <1>11 DEF DeleteAccount, IInv, TypeOK
  <2>2. ASSUME NEW k \in live, k \notin {j \in Tok : owner[j] = a}
        PROVE  users'[owner[k]] = users[owner[k]]
    BY <1>11, <2>2 DEF DeleteAccount, IInv, TypeOK
  <2>. QED
    BY <1>11, <2>1, <2>2, EndKeeps DEF DeleteAccount
<1>12. CASE UNCHANGED vars
  BY <1>12 DEF vars, IInv, TypeOK, IssuedInv, RoleIsOwn, Known
<1>. QED
  BY <1>1, <1>2, <1>3, <1>4, <1>5, <1>6, <1>7, <1>8, <1>9, <1>10, <1>11, <1>12, HandleKeeps
     DEF Next, handlePasswordSubmit, handleProfilePasswordSubmit, Act, Interval

LEMMA SessionInductive == Spec => []IInv
BY SessionInit, SessionStep, PTL DEF Spec

\* Tables, localStorage, screens and answers keep their types, and what is
\* stored is a session that was issued, for any number of tabs and sessions.
THEOREM SessionTypes == Spec => []TypeOK
<1>1. IInv => TypeOK
  BY DEF IInv
<1>. QED
  BY <1>1, SessionInductive, PTL

\* The role in localStorage is one that the user of the session next to it has had
\* since he logged in, however many tabs log in and out, whatever order their
\* answers come in and whatever roles administrators give meanwhile, except after a
\* role fetched for a session stored by an old version has met another log-in.
THEOREM SessionRoleIsOwn == Spec => []RoleIsOwn
<1>1. IInv => RoleIsOwn
  BY DEF IInv
<1>. QED
  BY <1>1, SessionInductive, PTL

(***************************************************************************)
(* Nobody is thrown out                                                    *)
(***************************************************************************)
\* The sessions stored and those in answers are live, no tab is about to log out,
\* and a tab that shows the console has a session.
Undisturbed ==
    /\ \A m \in net : m.kind \in {"login", "role"} /\ m.tok \in live
    /\ store.tok # NoTok => store.tok \in live
    /\ (\E t \in Tab : screen[t] = "app") => store.tok # NoTok

\* So it is as long as nothing has happened to a session.
Calm == calm => Undisturbed

\* Showing a live session brings no 401.
LEMMA CheckLoginCalm ==
    ASSUME IInv, Undisturbed, NEW t \in Tab, NEW s, NEW rest \in SUBSET net,
           CheckLogin(t, s, rest),
           s.tok # NoTok => s.tok \in live,
           s = store \/ s.tok # NoTok
    PROVE  Undisturbed' /\ (store.tok # NoTok => store'.tok # NoTok)
<1>1. store' = s /\ live' = live
  BY DEF CheckLogin
<1>2. \A m \in net' : m.kind \in {"login", "role"} /\ m.tok \in live
  BY DEF CheckLogin, FirstCalls, AuthenticateToken, Reply, Undisturbed
<1>3. ASSUME NEW u \in Tab, screen'[u] = "app" PROVE s.tok # NoTok
  BY <1>3 DEF CheckLogin, Overlay, Undisturbed, IInv, TypeOK
<1>. QED
  BY <1>1, <1>2, <1>3 DEF Undisturbed

\* While it is calm, and stays so, no step disturbs a session or drops it.
LEMMA CalmStep ==
    ASSUME IInv, Undisturbed, [Next]_vars, calm, calm'
    PROVE  Undisturbed' /\ (store.tok # NoTok => store'.tok # NoTok)
<1>1. ASSUME NEW t \in Tab, Open(t) PROVE Undisturbed' /\ (store.tok # NoTok => store'.tok # NoTok)
  BY <1>1, CheckLoginCalm DEF Open, Undisturbed
<1>2. ASSUME NEW t \in Tab, NEW a \in Account, handleLoginSubmit(t, a)
      PROVE Undisturbed' /\ (store.tok # NoTok => store'.tok # NoTok)
  <2>1. PICK k \in Tok : live' = live \cup {k} /\ net' = net \cup {Reply(t, "login", k, users[a])}
    BY <1>2 DEF handleLoginSubmit, CreateSession, Insert
  <2>. QED
    BY <1>2, <2>1 DEF handleLoginSubmit, Undisturbed, Reply
<1>3. ASSUME NEW t \in Tab, NEW a \in Account, handleRegisterSubmit(t, a)
      PROVE Undisturbed' /\ (store.tok # NoTok => store'.tok # NoTok)
  BY <1>3 DEF handleRegisterSubmit, Undisturbed
<1>4. ASSUME NEW t \in Tab, toggleLoginReg(t)
      PROVE Undisturbed' /\ (store.tok # NoTok => store'.tok # NoTok)
  BY <1>4 DEF toggleLoginReg, Undisturbed, IInv, TypeOK
<1>5. ASSUME NEW t \in Tab, Call(t), store.tok # NoTok
      PROVE Undisturbed' /\ (store.tok # NoTok => store'.tok # NoTok)
  BY <1>5 DEF Call, Fault, AuthenticateToken, Undisturbed
<1>6. ASSUME NEW m \in net, Handle(m)
      PROVE Undisturbed' /\ (store.tok # NoTok => store'.tok # NoTok)
  <2>1. m.tab \in Tab /\ m.kind \in {"login", "role"} /\ m.tok \in live /\ m.tok # NoTok
    BY DEF IInv, TypeOK, Answer, Undisturbed, Tok, NoTok
  <2>2. CASE LoggedIn(m.tab, m)
    BY <2>1, <2>2, CheckLoginCalm DEF LoggedIn, WithRole
  <2>3. CASE RoleFetched(m.tab, m)
    BY <2>3 DEF RoleFetched, Undisturbed, IInv, TypeOK
  <2>. QED
    BY <1>6, <2>1, <2>2, <2>3 DEF Handle
<1>7. CASE UNCHANGED vars
  BY <1>7 DEF vars, Undisturbed
<1>12. ASSUME NEW a \in Account, NEW r \in Role, AdminCreateUser(a, r) \/ AdminUpdateUser(a, r)
       PROVE Undisturbed' /\ (store.tok # NoTok => store'.tok # NoTok)
  BY <1>12 DEF AdminCreateUser, AdminUpdateUser, Undisturbed
<1>8. \A t \in Tab : ~ Logout(t) /\ ~ ChangePassword(t)
  BY DEF Logout, ChangePassword
<1>9. \A m \in net : ~ Lose(m)
  BY DEF Lose, Fault
<1>10. \A S : ~ End(S)
  BY DEF End
<1>11. ASSUME NEW t \in Tab, Act(t) \/ Interval(t) PROVE Call(t) /\ store.tok # NoTok
  BY <1>11 DEF Act, Interval, Polls, Undisturbed
<1>. QED
  BY <1>1, <1>2, <1>3, <1>4, <1>5, <1>6, <1>7, <1>8, <1>9, <1>10, <1>11, <1>12
     DEF Next, handlePasswordSubmit, handleProfilePasswordSubmit, Expire, DeleteAccount

\* Calm never comes back.
LEMMA CalmEnds == IInv /\ [Next]_vars => (calm' => calm)
<1> SUFFICES ASSUME IInv, [Next]_vars, calm' PROVE calm
  OBVIOUS
<1>1. ASSUME NEW m \in net, Handle(m) PROVE UNCHANGED calm
  BY <1>1 DEF Handle, LoggedIn, RoleFetched, Leaves, LoggedOut
<1>. QED
  BY <1>1 DEF Next, vars, Open, handleLoginSubmit, handleRegisterSubmit, toggleLoginReg, Logout,
     handlePasswordSubmit, handleProfilePasswordSubmit, ChangePassword, Act, Interval, Call,
     Fault, Lose, AdminCreateUser, AdminUpdateUser, Expire, DeleteAccount, End

LEMMA CalmAlways == Spec => []Calm
<1>1. Init => Calm
  <2> SUFFICES ASSUME Init PROVE Undisturbed
    BY DEF Calm
  <2>1. store.tok # NoTok => store.tok \in live
    <3>1. CASE legacy
      BY <3>1 DEF Init, Empty
    <3>2. CASE ~ legacy
      BY <3>2 DEF Init, Empty
    <3>. QED
      BY <3>1, <3>2
  <2>. QED
    BY <2>1 DEF Init, Undisturbed
<1>2. IInv /\ Calm /\ [Next]_vars => Calm'
  BY CalmEnds, CalmStep DEF Calm, Undisturbed
<1>. QED
  BY <1>1, <1>2, SessionInductive, PTL DEF Spec

\* While nobody has asked to log out and nothing has ended or failed, a session
\* that is stored is at most replaced by a newer log-in, for any number of tabs:
\* no call that was sent before it was stored comes back to end it.
THEOREM SessionNeverThrownOut == Spec => NeverThrownOut
<1>1. IInv /\ Calm /\ [Next]_vars => [calm' /\ store.tok # NoTok => store'.tok # NoTok]_vars
  BY CalmEnds, CalmStep DEF Calm, Undisturbed
<1>. QED
  BY <1>1, CalmAlways, SessionInductive, PTL DEF Spec, NeverThrownOut
=============================================================================
