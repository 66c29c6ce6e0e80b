------------------------------- MODULE KVWorker -------------------------------
(***************************************************************************)
(* The Cloudflare worker (cloudflare-worker/src/index.js): the API of the  *)
(* control centre over one value in a KV store.                            *)
(*                                                                         *)
(* There is no lock.  A request that writes reads the whole value, changes *)
(* its copy and puts the copy back; every get and every put is an await,   *)
(* so each is a step here and other requests run in between.  A get that   *)
(* finds nothing puts the default data first.  Before that a request of    *)
(* the administrator has read the value once for the credentials, a change *)
(* of the password twice, and a log-in reads it twice altogether.          *)
(*                                                                         *)
(* KV is taken at its best: a get sees the last put.  Left out: TTLs,      *)
(* static pages, and which of the ways to answer 4xx or 500 is taken when  *)
(* nothing is put.                                                         *)
(***************************************************************************)
EXTENDS FiniteSets

CONSTANTS
    Zone, Key, Line,
    Vals,
    Name,       \* bindings of tokens: fqdn_isp
    Within,     \* Within[n]: the zones n's fqdn is, or is below
    Bound,      \* Bound[n]: the slot of n's last two labels, where updates go
    Pass,
    Cred,       \* pairs of user name and password
    Req,        \* requests, each made once
    SeedZone, SeedRec, SeedTok, SeedCred,   \* default data and env.WEB_*
    DemoToken,
    NoName, NoRec, NoStore, NoOp, NoCred

Slot == Zone \X Key \X Line
Token == Req \cup {DemoToken}    \* request r issues token r: they are random

ASSUME KVAssumption ==
    /\ Within \in [Name -> SUBSET Zone]
    /\ Bound \in [Name -> Slot]
    /\ NoName \notin Name
    /\ NoRec \notin Vals
    /\ SeedZone \subseteq Zone
    /\ SeedRec \in [Slot -> Vals \cup {NoRec}]
    /\ SeedTok \in [Token -> Name \cup {NoName}]
    /\ SeedCred \in Cred
    /\ \A c \in Cred : c[2] \in Pass
    /\ \A t \in Token : SeedTok[t] # NoName => Within[SeedTok[t]] \cap SeedZone # {}

\* The JSON value under trinet_store.
Store == [zones : SUBSET Zone,
          rec : [Slot -> Vals \cup {NoRec}],
          tok : [Token -> Name \cup {NoName}],
          cred : Cred]

ASSUME StoreAssumption == NoStore \notin Store

SeedStore == [zones |-> SeedZone, rec |-> SeedRec, tok |-> SeedTok, cred |-> SeedCred]

\* The routes.  auth is the bearer token: the hash of a name and a password.
SaveOp == [kind : {"save"}, auth : Cred, slot : Slot, vals : Vals]
DeleteOp == [kind : {"delete"}, auth : Cred, slot : Slot]
PasswordOp == [kind : {"password"}, auth : Cred, old : Pass, new : Cred]
ListOp == [kind : {"list"}, auth : Cred]
LoginOp == [kind : {"login"}, given : Cred]
DdnsOp == [kind : {"ddns"}, token : Token, vals : Vals]
IssueOp == [kind : {"issue"}, auth : Cred, name : Name]
RevokeOp == [kind : {"revoke"}, auth : Cred, token : Token]

Op == SaveOp \cup DeleteOp \cup PasswordOp \cup ListOp \cup LoginOp
          \cup DdnsOp \cup IssueOp \cup RevokeOp

ASSUME OpAssumption == NoOp \notin Op

VARIABLES
    kv,         \* the value in KV, or NoStore
    op,         \* op[r]: what request r asks for
    at,         \* at[r]: the get or put it waits for
    seeding,    \* the requests whose get found nothing
    base,       \* base[r]: the copy r is about to put back
    minted,     \* minted[r]: the credentials whose token a log-in answered
    overtaken   \* history: requests since whose last get another one has put

vars == <<kv, op, at, seeding, base, minted, overtaken>>

Stages == {"auth", "check", "read", "put", "idle", "done", "refused"}
Gets == {"auth", "check", "mint", "read"}

TypeOK ==
    /\ kv \in Store \cup {NoStore}
    /\ op \in [Req -> Op \cup {NoOp}]
    /\ at \in [Req -> Stages \cup Gets]
    /\ seeding \subseteq Req
    /\ base \in [Req -> Store \cup {NoStore}]
    /\ minted \in [Req -> Cred \cup {NoCred}]
    /\ overtaken \subseteq Req
    /\ \A r \in Req : at[r] = "put" <=> base[r] # NoStore
    /\ \A r \in seeding : at[r] \in Gets
    /\ \A r \in Req : at[r] # "idle" => op[r] # NoOp

Init ==
    /\ kv = NoStore
    /\ op = [r \in Req |-> NoOp]
    /\ at = [r \in Req |-> "idle"]
    /\ seeding = {}
    /\ base = [r \in Req |-> NoStore]
    /\ minted = [r \in Req |-> NoCred]
    /\ overtaken = {}

(***************************************************************************)
(* What each handler does to its copy                                      *)
(***************************************************************************)
\* A record goes into its zone, which is created when it is missing.
Written(s, slot, v) ==
    [s EXCEPT !.zones = @ \cup {slot[1]}, !.rec[slot] = v]

\* The list loses the line's record; the zone stays, even when it is empty.
Erased(s, slot) == [s EXCEPT !.rec[slot] = NoRec]

AloneIssued(s, t, n) ==                                        \* mutant
    [s EXCEPT !.tok = [k \in Token |-> IF k = t THEN n ELSE NoName]]

\* store.tokens is created when it is missing and kept when it is not.
Issued(s, t, n) == [s EXCEPT !.tok[t] = n]

AnyHost(s, n) == TRUE                                          \* mutant

\* A token may be issued for a name in one of the zones.
Hosts(s, n) == Within[n] \cap s.zones # {}

\* What the request may do with what it read: 4xx otherwise.
Allowed(o, s) ==
    CASE o.kind = "ddns"  -> s.tok[o.token] # NoName
      [] o.kind = "issue" -> Hosts(s, o.name)
      [] OTHER            -> TRUE

\* The address goes to the slot of the last two labels, in whatever zone.
Updated(s, t, v) == Written(s, Bound[s.tok[t]], v)

Revoked(s, t) == [s EXCEPT !.tok[t] = NoName]

Recredited(s, c) == [s EXCEPT !.cred = c]

Changed(r, s) ==
    LET o == op[r] IN
    CASE o.kind = "save"     -> Written(s, o.slot, o.vals)
      [] o.kind = "ddns"     -> Updated(s, o.token, o.vals)
      [] o.kind = "delete"   -> Erased(s, o.slot)
      [] o.kind = "issue"    -> Issued(s, r, o.name)
      [] o.kind = "revoke"   -> Revoked(s, o.token)
      [] o.kind = "password" -> Recredited(s, o.new)

(***************************************************************************)
(* A request                                                               *)
(***************************************************************************)
FirstGet(o) ==
    CASE o.kind = "login" -> "check"
      [] o.kind = "ddns"  -> "read"
      [] OTHER            -> "auth"

Arrive(r, o) ==
    /\ at[r] = "idle"
    /\ op' = [op EXCEPT ![r] = o]
    /\ at' = [at EXCEPT ![r] = FirstGet(o)]
    /\ UNCHANGED <<kv, seeding, base, minted, overtaken>>

PassMatches(given, c) == given[2] = c[2]                       \* mutant

\* body.username === user && body.password === pass
LoginMatches(given, c) == given = c

\* checkAdminAuth
AfterAuth(o, s) ==
    IF o.auth # s.cred THEN "refused"
    ELSE IF o.kind = "password" THEN "check" ELSE "read"

AfterCheck(o, s) ==
    IF o.kind = "login"
    THEN IF LoginMatches(o.given, s.cred) THEN "mint" ELSE "refused"
    ELSE IF o.old = s.cred[2] THEN "read" ELSE "refused"

AfterRead(o, s) ==
    IF o.kind = "list" THEN "done"
    ELSE IF Allowed(o, s) THEN "put" ELSE "refused"

\* Where r goes with the value s its get returned.
After(r, s) ==
    CASE at[r] = "auth"  -> AfterAuth(op[r], s)
      [] at[r] = "check" -> AfterCheck(op[r], s)
      [] at[r] = "read"  -> AfterRead(op[r], s)
      [] at[r] = "mint"  -> "done"

GoesUnread(r, s) ==                                            \* mutant
    /\ at' = [at EXCEPT ![r] = After(r, s)]
    /\ minted' = [minted EXCEPT ![r] = IF at[r] = "mint" THEN s.cred ELSE @]
    /\ UNCHANGED base

\* The copy is kept until it is put.
Goes(r, s) ==
    /\ at' = [at EXCEPT ![r] = After(r, s)]
    /\ base' = [base EXCEPT ![r] = IF After(r, s) = "put" THEN s ELSE NoStore]
    /\ minted' = [minted EXCEPT ![r] = IF at[r] = "mint" THEN s.cred ELSE @]

\* getStore when there is a value.
Get(r) ==
    /\ at[r] \in Gets
    /\ r \notin seeding
    /\ kv # NoStore
    /\ Goes(r, kv)
    /\ overtaken' = overtaken \ {r}
    /\ UNCHANGED <<kv, op, seeding>>

\* getStore finds nothing, ...
GetNothing(r) ==
    /\ at[r] \in Gets
    /\ r \notin seeding
    /\ kv = NoStore
    /\ seeding' = seeding \cup {r}
    /\ overtaken' = overtaken \ {r}
    /\ UNCHANGED <<kv, op, at, base, minted>>

\* ... puts the default data, whatever is there by now, and returns it.
Seed(r) ==
    /\ r \in seeding
    /\ kv' = SeedStore
    /\ seeding' = seeding \ {r}
    /\ Goes(r, SeedStore)
    /\ overtaken' = (overtaken \cup Req) \ {r}
    /\ UNCHANGED op

\* saveStore, then the answer.
Put(r) ==
    /\ at[r] = "put"
    /\ kv' = Changed(r, base[r])
    /\ at' = [at EXCEPT ![r] = "done"]
    /\ base' = [base EXCEPT ![r] = NoStore]
    /\ overtaken' = Req \ {r}
    /\ UNCHANGED <<op, seeding, minted>>

\* KV throws, or the body is not the JSON the handler wants: 500 or 400, and
\* nothing is put.
Fail(r) ==
    /\ at[r] \in Gets \cup {"put"}
    /\ at' = [at EXCEPT ![r] = "refused"]
    /\ base' = [base EXCEPT ![r] = NoStore]
    /\ seeding' = seeding \ {r}
    /\ UNCHANGED <<kv, op, minted, overtaken>>

Next ==
    \E r \in Req :
        \/ \E o \in Op : Arrive(r, o)
        \/ Get(r)
        \/ GetNothing(r)
        \/ Seed(r)
        \/ Put(r)
        \/ Fail(r)

Spec == Init /\ [][Next]_vars

(***************************************************************************)
(* Properties                                                              *)
(***************************************************************************)
HostedIn(s) ==
    \A t \in Token : s.tok[t] # NoName => Within[s.tok[t]] \cap s.zones # {}

\* Every token in KV is bound to a name of a zone in the same value, however
\* reads and puts of zones and tokens mix: an update never meets a token
\* whose zone was only in somebody's overwritten copy.
TokensHosted == kv # NoStore => HostedIn(kv)

\* The slots, tokens and credentials request r is entitled to change.
OwnSlots(r) ==
    CASE op[r].kind \in {"save", "delete"} -> {op[r].slot}
      [] op[r].kind = "ddns" -> {Bound[base[r].tok[op[r].token]]}
      [] OTHER -> {}

OwnTokens(r) ==
    CASE op[r].kind = "issue" -> {r}
      [] op[r].kind = "revoke" -> {op[r].token}
      [] OTHER -> {}

OnlyOwn(r, s, t) ==
    /\ s.zones \subseteq t.zones
    /\ \A x \in Slot \ OwnSlots(r) : t.rec[x] = s.rec[x]
    /\ \A k \in Token \ OwnTokens(r) : t.tok[k] = s.tok[k]
    /\ op[r].kind # "password" => t.cred = s.cred

\* A put undoes what others have put, a record, a zone, a token issued or
\* revoked, a password, only if one of them put since the writer's last get;
\* the same for the default data.  Requests one after the other lose nothing.
LossNeedsOverlap ==
    [][kv # NoStore /\ kv' # kv =>
           \E r \in Req : /\ at'[r] # at[r]
                          /\ r \in overtaken \/ OnlyOwn(r, kv, kv')]_vars

\* A log-in reads the value twice: it is answered with the token of other
\* credentials than it gave only if another request put in between.
LoginMintsItsOwn ==
    [][\A r \in Req : at[r] = "mint" /\ minted'[r] # minted[r] =>
           minted'[r] = op[r].given \/ r \in overtaken]_vars
=============================================================================
