---------------------------- MODULE KVWorkerProofs ----------------------------
(***************************************************************************)
(* Proofs about KVWorker, for any zones, names, credentials and number of  *)
(* concurrent requests.                                                    *)
(*                                                                         *)
(* A token is checked against the zones of a copy that may be old by the   *)
(* time it is put, so that KV is hosted is not inductive by itself: every  *)
(* copy about to be put must be hosted too.                                *)
(***************************************************************************)
EXTENDS KVWorker, TLAPS

BaseHosted == \A r \in Req : base[r] # NoStore => HostedIn(base[r])

\* A request that waits for its put has been allowed to, by its copy.
Staged ==
    \A r \in Req :
        /\ at[r] \in {"auth", "read", "put"} => op[r].kind # "login"
        /\ at[r] = "put" => op[r].kind # "list" /\ Allowed(op[r], base[r])

IInv == TypeOK /\ TokensHosted /\ BaseHosted /\ Staged

(***************************************************************************)
(* The copies                                                              *)
(***************************************************************************)
LEMMA SeedTyped == SeedStore \in Store /\ HostedIn(SeedStore)
BY KVAssumption DEF SeedStore, Store, HostedIn, Slot, Token

LEMMA WrittenTyped ==
    ASSUME NEW s \in Store, NEW slot \in Slot, NEW v \in Vals \cup {NoRec}
    PROVE  /\ Written(s, slot, v) \in Store
           /\ Written(s, slot, v).zones = s.zones \cup {slot[1]}
           /\ Written(s, slot, v).tok = s.tok
BY DEF Store, Written, Slot

LEMMA ErasedTyped ==
    ASSUME NEW s \in Store, NEW slot \in Slot
    PROVE  /\ Erased(s, slot) \in Store
           /\ Erased(s, slot).zones = s.zones
           /\ Erased(s, slot).tok = s.tok
BY DEF Store, Erased

LEMMA TokTyped ==
    ASSUME NEW s \in Store, NEW t \in Token, NEW n \in Name \cup {NoName}
    PROVE  /\ [s EXCEPT !.tok[t] = n] \in Store
           /\ [s EXCEPT !.tok[t] = n].zones = s.zones
           /\ [s EXCEPT !.tok[t] = n].tok = [s.tok EXCEPT ![t] = n]
BY DEF Store

LEMMA CredTyped ==
    ASSUME NEW s \in Store, NEW c \in Cred
    PROVE  /\ Recredited(s, c) \in Store
           /\ Recredited(s, c).zones = s.zones
           /\ Recredited(s, c).tok = s.tok
BY DEF Store, Recredited

\* A put of a hosted copy is a hosted value: zones only grow, and a token is
\* added for a name the copy hosts.
LEMMA ChangedHosted ==
    ASSUME NEW r \in Req, NEW s \in Store, op[r] \in Op, HostedIn(s),
           op[r].kind \notin {"list", "login"}, Allowed(op[r], s)
    PROVE  Changed(r, s) \in Store /\ HostedIn(Changed(r, s))
<1> DEFINE o == op[r]
<1>0. s.tok \in [Token -> Name \cup {NoName}]
  BY DEF Store
<1>1. CASE o.kind = "save"
  <2>1. o.slot \in Slot /\ o.vals \in Vals
    BY <1>1 DEF Op, SaveOp, DeleteOp, PasswordOp, ListOp, LoginOp, DdnsOp, IssueOp, RevokeOp
  <2>2. Changed(r, s) = Written(s, o.slot, o.vals)
    BY <1>1 DEF Changed
  <2> QED BY <2>1, <2>2, WrittenTyped DEF HostedIn
<1>2. CASE o.kind = "ddns"
  <2>1. o.token \in Token /\ o.vals \in Vals
    BY <1>2 DEF Op, SaveOp, DeleteOp, PasswordOp, ListOp, LoginOp, DdnsOp, IssueOp, RevokeOp
  <2>2. s.tok[o.token] \in Name
    BY <1>0, <1>2, <2>1 DEF Allowed
  <2>3. Bound[s.tok[o.token]] \in Slot
    BY <2>2, KVAssumption
  <2>4. Changed(r, s) = Written(s, Bound[s.tok[o.token]], o.vals)
    BY <1>2 DEF Changed, Updated
  <2> DEFINE slot == Bound[s.tok[o.token]]
             t == Written(s, slot, o.vals)
  <2>5. t \in Store /\ t.zones = s.zones \cup {slot[1]} /\ t.tok = s.tok
    BY <2>1, <2>3, WrittenTyped
  <2> QED BY <2>4, <2>5 DEF HostedIn
<1>3. CASE o.kind = "delete"
  <2>1. o.slot \in Slot
    BY <1>3 DEF Op, SaveOp, DeleteOp, PasswordOp, ListOp, LoginOp, DdnsOp, IssueOp, RevokeOp
  <2>2. Changed(r, s) = Erased(s, o.slot)
    BY <1>3 DEF Changed
  <2> QED BY <2>1, <2>2, ErasedTyped DEF HostedIn
<1>4. CASE o.kind = "issue"
  <2>1. o.name \in Name /\ r \in Token
    BY <1>4 DEF Op, SaveOp, DeleteOp, PasswordOp, ListOp, LoginOp, DdnsOp, IssueOp, RevokeOp, Token
  <2>2. Changed(r, s) = [s EXCEPT !.tok[r] = o.name]
    BY <1>4 DEF Changed, Issued
  <2>3. Within[o.name] \cap s.zones # {}
    BY <1>4 DEF Allowed, Hosts
  <2> DEFINE t == [s EXCEPT !.tok[r] = o.name]
  <2>4. /\ t \in Store
        /\ t.zones = s.zones
        /\ t.tok = [s.tok EXCEPT ![r] = o.name]
    BY <2>1, TokTyped
  <2>5. HostedIn(t)
    BY <1>0, <2>1, <2>3, <2>4 DEF HostedIn
  <2> QED BY <2>2, <2>4, <2>5
<1>5. CASE o.kind = "revoke"
  <2>1. o.token \in Token
    BY <1>5 DEF Op, SaveOp, DeleteOp, PasswordOp, ListOp, LoginOp, DdnsOp, IssueOp, RevokeOp
  <2>2. Changed(r, s) = [s EXCEPT !.tok[o.token] = NoName]
    BY <1>5 DEF Changed, Revoked
  <2> DEFINE t == [s EXCEPT !.tok[o.token] = NoName]
  <2>3. /\ t \in Store
        /\ t.zones = s.zones
        /\ t.tok = [s.tok EXCEPT ![o.token] = NoName]
    BY <2>1, TokTyped
  <2>4. HostedIn(t)
    BY <1>0, <2>1, <2>3 DEF HostedIn
  <2> QED BY <2>2, <2>3, <2>4
<1>6. CASE o.kind = "password"
  <2>1. o.new \in Cred
    BY <1>6 DEF Op, SaveOp, DeleteOp, PasswordOp, ListOp, LoginOp, DdnsOp, IssueOp, RevokeOp
  <2>2. Changed(r, s) = Recredited(s, o.new)
    BY <1>6 DEF Changed
  <2> QED BY <2>1, <2>2, CredTyped DEF HostedIn
<1> QED
  BY <1>1, <1>2, <1>3, <1>4, <1>5, <1>6
  DEF Op, SaveOp, DeleteOp, PasswordOp, ListOp, LoginOp, DdnsOp, IssueOp, RevokeOp

(***************************************************************************)
(* Steps                                                                   *)
(***************************************************************************)
\* What After may answer.
LEMMA AfterStages ==
    ASSUME NEW r \in Req, NEW s \in Store, at[r] \in Gets,
           at[r] \in {"auth", "read", "put"} => op[r].kind # "login"
    PROVE  /\ After(r, s) \in {"check", "mint", "read", "put", "done", "refused"}
           /\ After(r, s) = "read" => op[r].kind # "login"
           /\ After(r, s) = "put" => /\ op[r].kind \notin {"list", "login"}
                                   /\ Allowed(op[r], s)
<1>1. CASE at[r] = "auth"
  BY <1>1 DEF After, AfterAuth
<1>2. CASE at[r] = "check"
  BY <1>2 DEF After, AfterCheck
<1>3. CASE at[r] = "mint"
  BY <1>3 DEF After
<1>4. CASE at[r] = "read"
  BY <1>4 DEF After, AfterRead
<1> QED BY <1>1, <1>2, <1>3, <1>4 DEF Gets

\* A get that returns a hosted value keeps the invariant's part about r.
LEMMA GoesKeeps ==
    ASSUME IInv, NEW r \in Req, NEW s \in Store, HostedIn(s), at[r] \in Gets,
           Goes(r, s), UNCHANGED op
    PROVE  /\ at' \in [Req -> Stages \cup Gets]
           /\ base' \in [Req -> Store \cup {NoStore}]
           /\ minted' \in [Req -> Cred \cup {NoCred}]
           /\ \A q \in Req : at'[q] = "put" <=> base'[q] # NoStore
           /\ \A q \in Req : at'[q] # "idle" => op'[q] # NoOp
           /\ BaseHosted' /\ Staged'
<1> DEFINE x == After(r, s)
<1>1. /\ x \in {"check", "mint", "read", "put", "done", "refused"}
      /\ x = "read" => op[r].kind # "login"
      /\ x = "put" => op[r].kind \notin {"list", "login"} /\ Allowed(op[r], s)
  <2>1. at[r] \in {"auth", "read", "put"} => op[r].kind # "login"
    BY DEF IInv, Staged
  <2> QED BY <2>1, AfterStages
<1> HIDE DEF x
<1>2. /\ at' = [at EXCEPT ![r] = x]
      /\ base' = [base EXCEPT ![r] = IF x = "put" THEN s ELSE NoStore]
      /\ minted' = [minted EXCEPT ![r] = IF at[r] = "mint" THEN s.cred ELSE @]
  BY DEF Goes, x
<1>3. s # NoStore /\ s.cred \in Cred
  BY KVAssumption, StoreAssumption DEF Store
<1>4. at' \in [Req -> Stages \cup Gets]
  BY <1>1, <1>2 DEF IInv, TypeOK, Stages, Gets
<1>5. base' \in [Req -> Store \cup {NoStore}]
  BY <1>2 DEF IInv, TypeOK
<1>6. minted' \in [Req -> Cred \cup {NoCred}]
  BY <1>2, <1>3 DEF IInv, TypeOK
<1>7. \A q \in Req : at'[q] = "put" <=> base'[q] # NoStore
  BY <1>2, <1>3 DEF IInv, TypeOK
<1>8. \A q \in Req : at'[q] # "idle" => op'[q] # NoOp
  BY <1>2 DEF IInv, TypeOK, Gets
<1>9. BaseHosted'
  <2> SUFFICES ASSUME NEW q \in Req, base'[q] # NoStore PROVE HostedIn(base'[q])
    BY DEF BaseHosted, HostedIn
  <2>1. CASE q = r
    BY <1>2, <2>1 DEF IInv, TypeOK
  <2>2. CASE q # r
    BY <1>2, <2>2 DEF IInv, TypeOK, BaseHosted
  <2> QED BY <2>1, <2>2
<1>10. Staged'
  <2> SUFFICES ASSUME NEW q \in Req
               PROVE  /\ at'[q] \in {"auth", "read", "put"} => op[q].kind # "login"
                      /\ at'[q] = "put" => /\ op[q].kind # "list"
                                           /\ Allowed(op[q], base'[q])
    BY DEF Staged, Allowed, Hosts
  <2>1. CASE q = r
    BY <1>1, <1>2, <2>1 DEF IInv, TypeOK
  <2>2. CASE q # r
    BY <1>2, <2>2 DEF IInv, TypeOK, Staged
  <2> QED BY <2>1, <2>2
<1> QED BY <1>4, <1>5, <1>6, <1>7, <1>8, <1>9, <1>10

LEMMA InitHosted == Init => IInv
BY DEF Init, IInv, TypeOK, TokensHosted, BaseHosted, Staged, Stages, Gets

LEMMA ArriveKeeps ==
    ASSUME IInv, NEW r \in Req, NEW o \in Op, Arrive(r, o)
    PROVE  IInv'
<1>1. /\ FirstGet(o) \in Gets
      /\ FirstGet(o) \in {"auth", "read", "put"} => o.kind # "login"
  BY DEF FirstGet, Gets
<1>2. o # NoOp
  BY OpAssumption
<1>3. base[r] = NoStore
  BY DEF Arrive, IInv, TypeOK
<1>4. TypeOK'
  BY <1>1, <1>2, <1>3 DEF Arrive, IInv, TypeOK, Stages, Gets
<1>5. TokensHosted' /\ BaseHosted'
  BY DEF Arrive, IInv, TokensHosted, BaseHosted, HostedIn
<1>6. Staged'
  BY <1>1 DEF Arrive, IInv, TypeOK, Staged, Gets, Allowed, Hosts
<1> QED BY <1>4, <1>5, <1>6 DEF IInv

LEMMA GetKeeps ==
    ASSUME IInv, NEW r \in Req, Get(r)
    PROVE  IInv'
<1>1. kv \in Store /\ HostedIn(kv)
  BY DEF Get, IInv, TypeOK, TokensHosted
<1>2. /\ at[r] \in Gets
      /\ Goes(r, kv)
      /\ UNCHANGED <<kv, op, seeding>>
      /\ overtaken' = overtaken \ {r}
  BY DEF Get
<1>3. /\ at' \in [Req -> Stages \cup Gets]
      /\ base' \in [Req -> Store \cup {NoStore}]
      /\ minted' \in [Req -> Cred \cup {NoCred}]
      /\ \A q \in Req : at'[q] = "put" <=> base'[q] # NoStore
      /\ \A q \in Req : at'[q] # "idle" => op'[q] # NoOp
      /\ BaseHosted' /\ Staged'
  BY <1>1, <1>2, GoesKeeps
<1>4. \A q \in seeding' : at'[q] \in Gets
  BY DEF Get, Goes, IInv, TypeOK
<1>5. TypeOK'
  BY <1>2, <1>3, <1>4 DEF IInv, TypeOK
<1>6. TokensHosted'
  BY <1>2 DEF IInv, TokensHosted, HostedIn
<1> QED BY <1>3, <1>5, <1>6 DEF IInv

LEMMA SeedKeeps ==
    ASSUME IInv, NEW r \in Req, Seed(r)
    PROVE  IInv'
<1>1. SeedStore \in Store /\ HostedIn(SeedStore)
  BY SeedTyped
<1>2. at[r] \in Gets
  BY DEF Seed, IInv, TypeOK
<1>3. /\ Goes(r, SeedStore)
      /\ kv' = SeedStore
      /\ UNCHANGED op
      /\ seeding' = seeding \ {r}
      /\ overtaken' = (overtaken \cup Req) \ {r}
  BY DEF Seed
<1>4. /\ at' \in [Req -> Stages \cup Gets]
      /\ base' \in [Req -> Store \cup {NoStore}]
      /\ minted' \in [Req -> Cred \cup {NoCred}]
      /\ \A q \in Req : at'[q] = "put" <=> base'[q] # NoStore
      /\ \A q \in Req : at'[q] # "idle" => op'[q] # NoOp
      /\ BaseHosted' /\ Staged'
  BY <1>1, <1>2, <1>3, GoesKeeps
<1>5. \A q \in seeding' : at'[q] \in Gets
  BY <1>3 DEF Goes, IInv, TypeOK
<1>6. TypeOK'
  BY <1>1, <1>3, <1>4, <1>5 DEF IInv, TypeOK
<1>7. TokensHosted'
  BY <1>1, <1>3 DEF TokensHosted, HostedIn
<1> QED BY <1>4, <1>6, <1>7 DEF IInv

LEMMA PutKeeps ==
    ASSUME IInv, NEW r \in Req, Put(r)
    PROVE  IInv'
<1>1. /\ base[r] \in Store /\ HostedIn(base[r])
      /\ op[r] \in Op /\ op[r].kind \notin {"list", "login"}
      /\ Allowed(op[r], base[r])
  BY DEF Put, IInv, TypeOK, BaseHosted, Staged
<1>2. Changed(r, base[r]) \in Store /\ HostedIn(Changed(r, base[r]))
  BY <1>1, ChangedHosted
<1>3. kv' \in Store /\ HostedIn(kv')
  BY <1>2 DEF Put
<1>4. TypeOK'
  BY <1>3 DEF Put, IInv, TypeOK, Stages, Gets
<1>5. TokensHosted'
  BY <1>3 DEF TokensHosted, HostedIn
<1>6. BaseHosted'
  BY DEF Put, IInv, TypeOK, BaseHosted, HostedIn
<1>7. Staged'
  BY DEF Put, IInv, TypeOK, Staged, Allowed, Hosts
<1> QED BY <1>4, <1>5, <1>6, <1>7 DEF IInv

LEMMA FailKeeps ==
    ASSUME IInv, NEW r \in Req, Fail(r) \/ GetNothing(r)
    PROVE  IInv'
<1>1. CASE Fail(r)
  <2>1. TypeOK'
    BY <1>1 DEF Fail, IInv, TypeOK, Stages, Gets
  <2>2. TokensHosted' /\ BaseHosted'
    BY <1>1 DEF Fail, IInv, TypeOK, TokensHosted, BaseHosted, HostedIn
  <2>3. Staged'
    BY <1>1 DEF Fail, IInv, TypeOK, Staged, Allowed, Hosts
  <2> QED BY <2>1, <2>2, <2>3 DEF IInv
<1>2. CASE GetNothing(r)
  BY <1>2 DEF GetNothing, IInv, TypeOK, TokensHosted, BaseHosted, Staged,
              HostedIn, Allowed, Hosts
<1> QED BY <1>1, <1>2

LEMMA NextKeeps == IInv /\ [Next]_vars => IInv'
<1> SUFFICES ASSUME IInv, [Next]_vars PROVE IInv'
  OBVIOUS
<1>1. CASE UNCHANGED vars
  BY <1>1 DEF vars, IInv, TypeOK, TokensHosted, BaseHosted, Staged, HostedIn,
              Allowed, Hosts
<1>2. ASSUME NEW r \in Req, NEW o \in Op, Arrive(r, o) PROVE IInv'
  BY <1>2, ArriveKeeps
<1>3. ASSUME NEW r \in Req, Get(r) \/ GetNothing(r) \/ Seed(r) \/ Put(r) \/ Fail(r)
      PROVE  IInv'
  BY <1>3, GetKeeps, SeedKeeps, PutKeeps, FailKeeps
<1> QED BY <1>1, <1>2, <1>3 DEF Next

LEMMA Inductive == Spec => []IInv
BY InitHosted, NextKeeps, PTL DEF Spec

(***************************************************************************)
(* Theorems                                                                *)
(***************************************************************************)
\* The value in KV and the copies of all requests keep their types.
THEOREM WorkerTypes == Spec => []TypeOK
<1>1. IInv => TypeOK
  BY DEF IInv
<1> QED BY <1>1, Inductive, PTL

\* However many requests read and put at once, no token in KV is bound to a
\* name whose zone got lost: hosting is checked in the copy that is put.
THEOREM WorkerTokensHosted == Spec => []TokensHosted
<1>1. IInv => TokensHosted
  BY DEF IInv
<1> QED BY <1>1, Inductive, PTL

(***************************************************************************)
(* What a put may undo                                                     *)
(***************************************************************************)
\* The copy of a request that nobody has overtaken is the value in KV.
Fresh ==
    \A r \in Req \ overtaken :
        /\ base[r] # NoStore => base[r] = kv
        /\ r \in seeding => kv = NoStore

LEMMA FreshKept == IInv /\ Fresh /\ [Next]_vars => Fresh'
<1> SUFFICES ASSUME IInv, Fresh, [Next]_vars PROVE Fresh'
  OBVIOUS
<1>1. CASE UNCHANGED vars
  BY <1>1 DEF vars, Fresh
<1>2. ASSUME NEW r \in Req, NEW o \in Op, Arrive(r, o) PROVE Fresh'
  BY <1>2 DEF Arrive, Fresh
<1>3. ASSUME NEW r \in Req, Get(r) PROVE Fresh'
  BY <1>3 DEF Get, Goes, Fresh, IInv, TypeOK
<1>4. ASSUME NEW r \in Req, GetNothing(r) PROVE Fresh'
  BY <1>4 DEF GetNothing, Fresh, IInv, TypeOK, Gets
<1>5. ASSUME NEW r \in Req, Seed(r) PROVE Fresh'
  BY <1>5 DEF Seed, Goes, Fresh, IInv, TypeOK
<1>6. ASSUME NEW r \in Req, Put(r) PROVE Fresh'
  BY <1>6 DEF Put, Fresh, IInv, TypeOK, Gets
<1>7. ASSUME NEW r \in Req, Fail(r) PROVE Fresh'
  BY <1>7 DEF Fail, Fresh, IInv, TypeOK
<1> QED BY <1>1, <1>2, <1>3, <1>4, <1>5, <1>6, <1>7 DEF Next

LEMMA FreshAlways == Spec => []Fresh
<1>1. Init => Fresh
  BY DEF Init, Fresh
<1> QED BY <1>1, FreshKept, Inductive, PTL DEF Spec

\* A handler changes of its copy only what the request is about.
LEMMA ChangesOwn ==
    ASSUME NEW r \in Req, base[r] \in Store, op[r] \in Op,
           op[r].kind \notin {"list", "login"}
    PROVE  OnlyOwn(r, base[r], Changed(r, base[r]))
<1> DEFINE o == op[r]
           s == base[r]
<1>1. CASE o.kind \in {"save", "ddns"}
  <2>1. /\ Changed(r, s).tok = s.tok
        /\ Changed(r, s).cred = s.cred
        /\ s.zones \subseteq Changed(r, s).zones
        /\ \A x \in Slot \ OwnSlots(r) : Changed(r, s).rec[x] = s.rec[x]
    BY <1>1 DEF Changed, Written, Updated, OwnSlots, Store
  <2> QED BY <1>1, <2>1 DEF OnlyOwn
<1>2. CASE o.kind = "delete"
  <2>1. /\ Changed(r, s).tok = s.tok
        /\ Changed(r, s).cred = s.cred
        /\ s.zones = Changed(r, s).zones
        /\ \A x \in Slot \ OwnSlots(r) : Changed(r, s).rec[x] = s.rec[x]
    BY <1>2 DEF Changed, Erased, OwnSlots, Store
  <2> QED BY <1>2, <2>1 DEF OnlyOwn
<1>3. CASE o.kind \in {"issue", "revoke"}
  <2>1. /\ Changed(r, s).rec = s.rec
        /\ Changed(r, s).cred = s.cred
        /\ s.zones = Changed(r, s).zones
        /\ \A k \in Token \ OwnTokens(r) : Changed(r, s).tok[k] = s.tok[k]
    BY <1>3 DEF Changed, Issued, Revoked, OwnTokens, Store
  <2> QED BY <1>3, <2>1 DEF OnlyOwn
<1>4. CASE o.kind = "password"
  <2>1. /\ Changed(r, s).rec = s.rec
        /\ Changed(r, s).tok = s.tok
        /\ s.zones = Changed(r, s).zones
    BY <1>4 DEF Changed, Recredited, Store
  <2> QED BY <1>4, <2>1 DEF OnlyOwn
<1> QED
  BY <1>1, <1>2, <1>3, <1>4
  DEF Op, SaveOp, DeleteOp, PasswordOp, ListOp, LoginOp, DdnsOp,
        IssueOp, RevokeOp

\* The body of LossNeedsOverlap.
NoLoss ==
    kv # NoStore /\ kv' # kv =>
        \E r \in Req : /\ at'[r] # at[r]
                       /\ r \in overtaken \/ OnlyOwn(r, kv, kv')

LEMMA StepNoLoss == IInv /\ Fresh /\ [Next]_vars => NoLoss
<1> SUFFICES ASSUME IInv, Fresh, [Next]_vars, kv # NoStore, kv' # kv
             PROVE  \E r \in Req : /\ at'[r] # at[r]
                                   /\ r \in overtaken \/ OnlyOwn(r, kv, kv')
  BY DEF NoLoss
<1>1. PICK r \in Req : Put(r) \/ Seed(r)
  BY DEF Next, vars, Arrive, Get, GetNothing, Fail
<1>2. CASE Put(r)
  <2>1. /\ base[r] \in Store /\ op[r] \in Op
        /\ op[r].kind \notin {"list", "login"}
    BY <1>2 DEF Put, IInv, TypeOK, Staged
  <2>2. OnlyOwn(r, base[r], kv')
    BY <1>2, <2>1, ChangesOwn DEF Put
  <2>3. r \in overtaken \/ base[r] = kv
    BY <1>1, <2>1, StoreAssumption DEF Fresh
  <2>4. at'[r] # at[r]
    BY <1>2 DEF Put, IInv, TypeOK
  <2> QED BY <2>2, <2>3, <2>4
<1>3. CASE Seed(r)
  <2>1. r \in overtaken
    BY <1>1, <1>3 DEF Seed, Fresh
  <2>2. at[r] \in Gets /\ at'[r] = After(r, SeedStore)
    BY <1>3 DEF Seed, Goes, IInv, TypeOK
  <2>3. After(r, SeedStore) # at[r]
    BY <2>2 DEF Gets, After, AfterAuth, AfterCheck, AfterRead
  <2> QED BY <2>1, <2>2, <2>3
<1> QED BY <1>1, <1>2, <1>3

\* Whatever the number of requests, a put undoes what others have put only if
\* one of them put after the writer's last get.
THEOREM WorkerLossNeedsOverlap == Spec => LossNeedsOverlap
<1>1. IInv /\ Fresh /\ [Next]_vars => [NoLoss]_vars
  BY StepNoLoss
<1> QED BY <1>1, Inductive, FreshAlways, PTL DEF Spec, LossNeedsOverlap, NoLoss

(***************************************************************************)
(* The two reads of a log-in                                               *)
(***************************************************************************)
\* A log-in whose password was right, and which nobody has overtaken, gave the
\* credentials in KV.  It has read a value, so that its second read finds one.
Minting ==
    \A r \in Req : at[r] = "mint" =>
        /\ kv # NoStore
        /\ r \notin seeding
        /\ r \in overtaken \/ op[r].given = kv.cred

\* A step into "mint" is a check that succeeded on the value just read.
LEMMA OnlyCheckMints ==
    ASSUME NEW r \in Req, NEW s, at[r] \in Gets, After(r, s) = "mint"
    PROVE  op[r].given = s.cred
BY DEF Gets, After, AfterAuth, AfterCheck, AfterRead, LoginMatches

LEMMA MintingKept == IInv /\ Minting /\ [Next]_vars => Minting'
<1> SUFFICES ASSUME IInv, Minting, [Next]_vars, NEW q \in Req, at'[q] = "mint"
             PROVE  /\ kv' # NoStore
                    /\ q \notin seeding'
                    /\ q \in overtaken' \/ op'[q].given = kv'.cred
  BY DEF Minting
<1>0. at \in [Req -> Stages \cup Gets] /\ op \in [Req -> Op \cup {NoOp}]
  BY DEF IInv, TypeOK
<1>1. CASE UNCHANGED vars
  BY <1>1 DEF vars, Minting
<1>2. ASSUME NEW r \in Req, NEW o \in Op, Arrive(r, o)
      PROVE  /\ kv' # NoStore
             /\ q \notin seeding'
             /\ q \in overtaken' \/ op'[q].given = kv'.cred
  <2>1. at[q] = "mint" /\ q # r
    BY <1>0, <1>2 DEF Arrive, FirstGet
  <2>2. op'[q] = op[q] /\ UNCHANGED <<kv, seeding, overtaken>>
    BY <1>0, <1>2, <2>1 DEF Arrive
  <2>. QED  BY <2>1, <2>2 DEF Minting
<1>3. ASSUME NEW r \in Req, NEW s \in {kv, SeedStore}, Goes(r, s), at[r] \in Gets,
             kv' = s, s # NoStore, op' = op, r \notin seeding',
             q # r => overtaken \subseteq overtaken' \cup {r} /\ seeding' \subseteq seeding,
             q # r => kv' = kv \/ q \in overtaken'
      PROVE  /\ kv' # NoStore
             /\ q \notin seeding'
             /\ q \in overtaken' \/ op'[q].given = kv'.cred
  <2>1. CASE q = r
    <3>1. After(r, s) = "mint"
      BY <1>0, <1>3, <2>1 DEF Goes
    <3>. QED  BY <1>3, <2>1, <3>1, OnlyCheckMints
  <2>2. CASE q # r
    <3>1. at[q] = "mint"
      BY <1>0, <1>3, <2>2 DEF Goes
    <3>. QED  BY <1>3, <2>2, <3>1 DEF Minting
  <2>. QED  BY <2>1, <2>2
<1>4. ASSUME NEW r \in Req, Get(r)
      PROVE  /\ kv' # NoStore
             /\ q \notin seeding'
             /\ q \in overtaken' \/ op'[q].given = kv'.cred
  BY <1>3, <1>4 DEF Get
<1>5. ASSUME NEW r \in Req, Seed(r)
      PROVE  /\ kv' # NoStore
             /\ q \notin seeding'
             /\ q \in overtaken' \/ op'[q].given = kv'.cred
  <2>1. at[r] \in Gets /\ SeedStore # NoStore
    BY <1>5, SeedTyped, StoreAssumption DEF Seed, IInv, TypeOK
  <2>2. /\ Goes(r, SeedStore) /\ kv' = SeedStore /\ op' = op /\ seeding' = seeding \ {r}
        /\ overtaken' = (overtaken \cup Req) \ {r}
    BY <1>5 DEF Seed
  <2>. QED  BY <1>3, <2>1, <2>2
<1>6. ASSUME NEW r \in Req, GetNothing(r)
      PROVE  FALSE
  BY <1>6 DEF GetNothing, Minting
<1>7. ASSUME NEW r \in Req, Put(r)
      PROVE  /\ kv' # NoStore
             /\ q \notin seeding'
             /\ q \in overtaken' \/ op'[q].given = kv'.cred
  <2>1. at[q] = "mint" /\ q # r
    BY <1>0, <1>7 DEF Put
  <2>2. kv' # NoStore
    <3>1. /\ base[r] \in Store /\ HostedIn(base[r])
          /\ op[r] \in Op /\ op[r].kind \notin {"list", "login"}
          /\ Allowed(op[r], base[r])
      BY <1>7 DEF Put, IInv, TypeOK, BaseHosted, Staged
    <3>2. Changed(r, base[r]) \in Store
      BY <3>1, ChangedHosted
    <3>. QED  BY <1>7, <3>2, StoreAssumption DEF Put
  <2>. QED  BY <1>7, <2>1, <2>2 DEF Put, Minting
<1>8. ASSUME NEW r \in Req, Fail(r)
      PROVE  /\ kv' # NoStore
             /\ q \notin seeding'
             /\ q \in overtaken' \/ op'[q].given = kv'.cred
  <2>1. at[q] = "mint" /\ q # r
    BY <1>0, <1>8 DEF Fail
  <2>. QED  BY <1>8, <2>1 DEF Fail, Minting
<1> QED BY <1>1, <1>2, <1>4, <1>5, <1>6, <1>7, <1>8 DEF Next

LEMMA MintingAlways == Spec => []Minting
<1>1. Init => Minting
  BY DEF Init, Minting
<1> QED BY <1>1, MintingKept, Inductive, PTL DEF Spec

\* The body of LoginMintsItsOwn.
MintsOwn ==
    \A r \in Req : at[r] = "mint" /\ minted'[r] # minted[r] =>
        minted'[r] = op[r].given \/ r \in overtaken

LEMMA StepMintsOwn == IInv /\ Minting /\ [Next]_vars => MintsOwn
<1> SUFFICES ASSUME IInv, Minting, [Next]_vars, NEW r \in Req,
                    at[r] = "mint", minted'[r] # minted[r]
             PROVE  minted'[r] = op[r].given \/ r \in overtaken
  BY DEF MintsOwn
<1>1. PICK q \in Req : Get(q) \/ Seed(q)
  BY DEF Next, vars, Arrive, GetNothing, Put, Fail
<1>2. minted \in [Req -> Cred \cup {NoCred}]
  BY DEF IInv, TypeOK
<1>3. q = r
  BY <1>1, <1>2 DEF Get, Seed, Goes
<1>4. ~ Seed(r)
  BY DEF Seed, Minting
<1>5. minted'[r] = kv.cred
  BY <1>1, <1>2, <1>3, <1>4 DEF Get, Goes
<1> QED BY <1>5 DEF Minting

\* However many requests change the credentials while others log in, a log-in
\* gets a token that is not its own only if another request has put in between.
THEOREM WorkerLoginMintsItsOwn == Spec => LoginMintsItsOwn
<1>1. IInv /\ Minting /\ [Next]_vars => [MintsOwn]_vars
  BY StepMintsOwn
<1> QED BY <1>1, Inductive, MintingAlways, PTL DEF Spec, LoginMintsItsOwn, MintsOwn
=============================================================================
