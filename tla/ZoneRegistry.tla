----------------------------- MODULE ZoneRegistry -----------------------------
(***************************************************************************)
(* What the record store promises its clients: one durable registry of     *)
(* zones, records and tokens.  There is no memory, no disk and no restart; *)
(* a value list is what a reload would show of it.                         *)
(***************************************************************************)
EXTENDS Naturals, FiniteSets

CONSTANTS
    Zone, Key, Line, Province, CFLine, Name, KeyIn,
    Vals, DynVals, Stored, Token, User, Admin, Root, Limit,
    Seed, SeedRec, SeedTok,
    NoUser, NoRec, NoKey, NoTarget

Slot == Zone \X Key \X Line

VARIABLES
    owner,  \* the user who hosts a zone
    rec,    \* the value list of a slot
    tok     \* the name and line a token may update

vars == <<owner, rec, tok>>

Owned(u) == {z \in Zone : owner[z] = u}
Above(n) == {z \in Zone : owner[z] # NoUser /\ KeyIn[<<n, z>>] # NoKey}
MayEdit(u, z) == u \in Admin \/ owner[z] = u

Init ==
    /\ owner = [z \in Zone |-> IF z \in {s[1] : s \in Seed} THEN Root ELSE NoUser]
    /\ rec = [s \in Slot |-> IF s \in Seed THEN SeedRec.vals ELSE NoRec]
    /\ tok = SeedTok

\* The first record of a zone hosts it, if the user has room for one more.
Host(u, s, v) ==
    /\ owner[s[1]] = NoUser
    /\ Cardinality(Owned(u)) < Limit[u]
    /\ owner' = [owner EXCEPT ![s[1]] = u]
    /\ rec' = [rec EXCEPT ![s] = Stored[v]]
    /\ UNCHANGED tok

\* Later ones are for its owner and the administrators.
Write(u, s, v) ==
    /\ owner[s[1]] # NoUser
    /\ MayEdit(u, s[1])
    /\ rec' = [rec EXCEPT ![s] = Stored[v]]
    /\ UNCHANGED <<owner, tok>>

\* A zone ends with its last record.
Erase(u, s) ==
    LET left == [rec EXCEPT ![s] = NoRec]
    IN  /\ owner[s[1]] # NoUser
        /\ MayEdit(u, s[1])
        /\ rec' = left
        /\ owner' = IF \A x \in Slot : x[1] = s[1] => left[x] = NoRec
                      THEN [owner EXCEPT ![s[1]] = NoUser]
                      ELSE owner
        /\ UNCHANGED tok

\* A token writes one address to the record it names.
Dynamic(t, z, v) ==
    /\ tok[t] # NoTarget
    /\ tok[t][2] \notin Province
    /\ z \in Above(tok[t][1])
    /\ rec' = [rec EXCEPT ![<<z, KeyIn[<<tok[t][1], z>>], tok[t][2]>>] = v]
    /\ UNCHANGED <<owner, tok>>

\* All the lines of a name change together.
Sync(n, z, best) ==
    /\ z \in Above(n)
    /\ rec' = [s \in Slot |-> IF s[1] = z /\ s[2] = KeyIn[<<n, z>>] /\ s[3] \in CFLine
                                THEN best[s[3]] ELSE rec[s]]
    /\ UNCHANGED <<owner, tok>>

Issue(u, n, l, t) ==
    /\ tok[t] = NoTarget
    /\ \E z \in Above(n) : MayEdit(u, z)
    /\ tok' = [tok EXCEPT ![t] = <<n, l>>]
    /\ UNCHANGED <<owner, rec>>

Revoke(u, t) ==
    /\ tok[t] # NoTarget
    /\ \/ Above(tok[t][1]) = {}
       \/ \E z \in Above(tok[t][1]) : MayEdit(u, z)
    /\ tok' = [tok EXCEPT ![t] = NoTarget]
    /\ UNCHANGED <<owner, rec>>

Next ==
    \/ \E u \in User, s \in Slot, v \in Vals : Host(u, s, v) \/ Write(u, s, v)
    \/ \E u \in User, s \in Slot : Erase(u, s)
    \/ \E t \in Token, z \in Zone, v \in DynVals : Dynamic(t, z, v)
    \/ \E n \in Name, z \in Zone, best \in [CFLine -> DynVals] : Sync(n, z, best)
    \/ \E u \in User, n \in Name, l \in Line, t \in Token : Issue(u, n, l, t)
    \/ \E u \in User, t \in Token : Revoke(u, t)

Spec == Init /\ [][Next]_vars
=============================================================================
