------------------------------ MODULE RecordStore ------------------------------
(***************************************************************************)
(* The zones, DNS records and DDNS tokens of pkg/store.MemoryStore.        *)
(*                                                                         *)
(* Every operation holds s.mu from beginning to end, so one operation is   *)
(* one action.  It changes the maps in memory first and repeats the change *)
(* in a SQLite transaction afterwards; nothing undoes the change in memory *)
(* when the transaction fails.  Both copies are variables here, and a      *)
(* failing transaction is an alternative of each operation, and so is an   *)
(* ignored error of a statement that the transaction commits without.      *)
(*                                                                         *)
(* Left out: the order of the records of a key (Failover has it), wording, *)
(* and names with '_' in them.  A record list's key is the code's          *)
(* subdomain + "_" + type.                                                 *)
(***************************************************************************)
EXTENDS Naturals, FiniteSets

CONSTANTS
    Zone,       \* domain names a user may host
    Key,        \* subdomain_type, the keys of DomainRecords.Records
    Line,       \* ISP lines: ct, cu, cm, def, and ct_gd and the like
    Province,   \* the lines whose code holds a '_'
    CFLine,     \* the lines SyncCloudflareBestIPs rewrites
    Name,       \* fully qualified names that tokens and CF targets carry
    KeyIn,      \* KeyIn[<<n, z>>]: key of n's A record in z, NoKey if n is not below z
    Vals,       \* value lists
    DynVals,    \* the lists holding one address
    Stored,     \* Stored[v]: Split(Join(v, ","), ","), what Load makes of v
    TTLs,
    Token,
    User,
    Admin,      \* the users whose role is admin
    Root,       \* user 1, owner of the default data
    Limit,      \* Limit[u]: the largest domain limit u's plan ever has
    Seed,       \* slots of the default data
    SeedRec,
    SeedTok,    \* tokens of the default data
    MaxFaults,  \* bound: failing transactions and loads of a behaviour
    NoUser, NoRec, NoKey, NoTarget

Slot == Zone \X Key \X Line
Rec == [vals : Vals, ttl : TTLs]
Target == Name \X Line
SeedZones == {s[1] : s \in Seed}

ASSUME ZonesAssumption ==
    /\ Province \subseteq Line
    /\ CFLine \subseteq Line
    /\ KeyIn \in [Name \X Zone -> Key \cup {NoKey}]
    /\ NoKey \notin Key

\* Split after Join is stable, and leaves a list of one address alone.
ASSUME ValuesAssumption ==
    /\ 60 \in TTLs
    /\ DynVals \subseteq Vals
    /\ Stored \in [Vals -> Vals]
    /\ \A v \in Vals : Stored[Stored[v]] = Stored[v]
    /\ \A v \in DynVals : Stored[v] = v
    /\ NoRec \notin Rec \cup Vals

ASSUME UsersAssumption ==
    /\ IsFiniteSet(Zone)
    /\ Admin \subseteq User
    /\ Root \in User
    /\ NoUser \notin User
    /\ Limit \in [User -> Nat]
    /\ MaxFaults \in Nat

ASSUME SeedAssumption ==
    /\ Seed \subseteq Slot
    /\ SeedRec \in Rec
    /\ Stored[SeedRec.vals] = SeedRec.vals
    /\ Cardinality(SeedZones) <= Limit[Root]
    /\ NoTarget \notin Target
    /\ SeedTok \in [Token -> Target \cup {NoTarget}]

VARIABLES
    memOwner,   \* s.Domains[z].OwnerID
    memRec,     \* s.Domains[z].Records[key], by line
    memTok,     \* s.Tokens
    dbOwner,    \* table domains
    dbRec,      \* table dns_records, values as Load will split them
    dbTok,      \* table ddns_tokens
    faults,     \* failing transactions and loads so far
    staleZone,  \* history: rows a failed transaction or load left different
    staleSlot,  \* from memory, until a committed one writes them again
    staleTok

mem == <<memOwner, memRec, memTok>>
db == <<dbOwner, dbRec, dbTok>>
stale == <<staleZone, staleSlot, staleTok>>
vars == <<mem, db, faults, stale>>

TypeOK ==
    /\ memOwner \in [Zone -> User \cup {NoUser}]
    /\ memRec \in [Slot -> Rec \cup {NoRec}]
    /\ memTok \in [Token -> Target \cup {NoTarget}]
    /\ dbOwner \in [Zone -> User \cup {NoUser}]
    /\ dbRec \in [Slot -> Rec \cup {NoRec}]
    /\ dbTok \in [Token -> Target \cup {NoTarget}]
    /\ faults \in 0..MaxFaults
    /\ staleZone \subseteq Zone
    /\ staleSlot \subseteq Slot
    /\ staleTok \subseteq Token

(***************************************************************************)
(* Helpers                                                                 *)
(***************************************************************************)
Hosted == {z \in Zone : memOwner[z] # NoUser}
DiskZones == {z \in Zone : dbOwner[z] # NoUser}
DiskSlots == {s \in Slot : dbRec[s] # NoRec}
DiskToks == {t \in Token : dbTok[t] # NoTarget}
SlotsOf(z) == {s \in Slot : s[1] = z}
IsSomeEmpty(rec, z) == \E s \in SlotsOf(z) : rec[s] = NoRec    \* mutant
IsNeverEmpty(rec, z) == FALSE                                  \* mutant
IsEmpty(rec, z) == \A s \in SlotsOf(z) : rec[s] = NoRec

RowWithoutTTL(r) == [vals |-> Stored[r.vals], ttl |-> 0]       \* mutant

\* The row written for record r: its values go through strings.Join.
Row(r) == [vals |-> Stored[r.vals], ttl |-> r.ttl]

\* The hosted zones a scan of s.Domains may stop at for name n.
Matches(n) == {z \in Hosted : KeyIn[<<n, z>>] # NoKey}

\* role == "admin" or the owner of the zone in memory.
MayEdit(u, z) == u \in Admin \/ memOwner[z] = u

\* SELECT COUNT(*) FROM domains WHERE owner_id = u.
CountOnDisk(u) == Cardinality({z \in Zone : dbOwner[z] = u})

MayAddOneMore(u, z) ==                                        \* mutant
    IF z \in Hosted THEN MayEdit(u, z) ELSE CountOnDisk(u) <= Limit[u]

\* An existing zone needs its owner; a new one needs room in the plan.
MayAdd(u, z) ==
    IF z \in Hosted THEN MayEdit(u, z) ELSE CountOnDisk(u) < Limit[u]

OwnerIsWriter(u, z) == u                                      \* mutant

\* A new zone belongs to the user who adds its first record.
OwnerAfter(u, z) == IF z \in Hosted THEN memOwner[z] ELSE u

InsertNoZone(z, owner) == UNCHANGED <<dbOwner, staleZone>>     \* mutant

\* INSERT OR IGNORE INTO domains: a row that is there keeps its owner.
InsertZone(z, owner) ==
    IF dbOwner[z] = NoUser
      THEN /\ dbOwner' = [dbOwner EXCEPT ![z] = owner]
           /\ staleZone' = staleZone \ {z}
      ELSE UNCHANGED <<dbOwner, staleZone>>

TxFails == faults < MaxFaults /\ faults' = faults + 1
TxCommits == faults' = faults

Init ==
    /\ memOwner = [z \in Zone |-> IF z \in SeedZones THEN Root ELSE NoUser]
    /\ memRec = [s \in Slot |-> IF s \in Seed THEN SeedRec ELSE NoRec]
    /\ memTok = SeedTok
    /\ dbOwner = memOwner
    /\ dbRec = memRec
    /\ dbTok = memTok
    /\ faults = 0
    /\ staleZone = {}
    /\ staleSlot = {}
    /\ staleTok = {}

(***************************************************************************)
(* Records                                                                 *)
(***************************************************************************)
\* AddRecordWithAuth.  Without a commit the record, and the zone if it is new,
\* stay in memory alone.
AddRecord(u, s, r) ==
    LET z == s[1]
    IN  /\ MayAdd(u, z)
        /\ memOwner' = [memOwner EXCEPT ![z] = OwnerAfter(u, z)]
        /\ memRec' = [memRec EXCEPT ![s] = r]
        /\ \/ /\ TxCommits
              /\ dbRec' = [dbRec EXCEPT ![s] = Row(r)]
              /\ staleSlot' = staleSlot \ {s}
              /\ InsertZone(z, OwnerAfter(u, z))
           \/ /\ TxFails
              /\ staleSlot' = staleSlot \cup {s}
              /\ staleZone' = IF z \in Hosted THEN staleZone ELSE staleZone \cup {z}
              /\ UNCHANGED <<dbOwner, dbRec>>
        /\ UNCHANGED <<memTok, dbTok, staleTok>>

\* DeleteRecordWithAuth.  The zone goes, from memory and from the table, only
\* after the transaction has begun and found the zone's row.
DeleteRecord(u, s) ==
    LET z == s[1]
        rec == [memRec EXCEPT ![s] = NoRec]
        last == IsEmpty(rec, z)
    IN  /\ z \in Hosted
        /\ MayEdit(u, z)
        /\ \E l \in Line : memRec[<<z, s[2], l>>] # NoRec
        /\ memRec' = rec
        /\ \/ /\ TxCommits
              /\ dbOwner[z] # NoUser
              /\ IF last
                   THEN /\ memOwner' = [memOwner EXCEPT ![z] = NoUser]
                        /\ dbOwner' = [dbOwner EXCEPT ![z] = NoUser]
                        /\ dbRec' = [t \in Slot |-> IF t[1] = z THEN NoRec ELSE dbRec[t]]
                        /\ staleZone' = staleZone \ {z}
                        /\ staleSlot' = staleSlot \ SlotsOf(z)
                   ELSE /\ dbRec' = [dbRec EXCEPT ![s] = NoRec]
                        /\ staleSlot' = staleSlot \ {s}
                        /\ UNCHANGED <<memOwner, dbOwner, staleZone>>
           \/ /\ TxCommits          \* no row of that name: nothing to delete
              /\ dbOwner[z] = NoUser
              /\ staleSlot' = staleSlot \ {s}
              /\ UNCHANGED <<memOwner, dbOwner, dbRec, staleZone>>
           \/ /\ TxFails            \* Begin or SELECT: before the zone is removed
              /\ staleSlot' = staleSlot \cup {s}
              /\ UNCHANGED <<memOwner, dbOwner, dbRec, staleZone>>
           \/ /\ TxFails            \* Commit, or the DELETE of the zone alone: after it
              /\ dbOwner[z] # NoUser
              /\ last
              /\ memOwner' = [memOwner EXCEPT ![z] = NoUser]
              /\ staleZone' = staleZone \cup {z}
              /\ \/ staleSlot' = staleSlot \cup {s} /\ UNCHANGED dbRec
                 \/ staleSlot' = staleSlot \ {s} /\ dbRec' = [dbRec EXCEPT ![s] = NoRec]
              /\ UNCHANGED dbOwner
        /\ UNCHANGED <<memTok, dbTok, staleTok>>

\* The records S of zone z become W[s] in memory and D[s] on disk, in one
\* transaction that writes no zone row: UpdateDDNS and SyncCloudflareBestIPs.
\* Without a zone row the transaction stops at its SELECT.  It commits without
\* the rows of Loose that it could not insert.
WriteBoth(z, S, W, D, Loose) ==
    /\ memRec' = [s \in Slot |-> IF s \in S THEN W[s] ELSE memRec[s]]
    /\ \/ /\ TxCommits
          /\ dbOwner[z] # NoUser
          /\ dbRec' = [s \in Slot |-> IF s \in S THEN D[s] ELSE dbRec[s]]
          /\ staleSlot' = staleSlot \ S
       \/ /\ (TxCommits /\ dbOwner[z] = NoUser) \/ TxFails
          /\ staleSlot' = staleSlot \cup S
          /\ UNCHANGED dbRec
       \/ /\ TxFails
          /\ dbOwner[z] # NoUser
          /\ \E lost \in SUBSET Loose \ {{}} :
               /\ dbRec' = [s \in Slot |-> IF s \in lost THEN NoRec
                                          ELSE IF s \in S THEN D[s] ELSE dbRec[s]]
               /\ staleSlot' = (staleSlot \ S) \cup lost
    /\ UNCHANGED <<memOwner, memTok, dbOwner, dbTok, staleZone, staleTok>>

\* UpdateDDNS.  The record keeps its TTL in memory; the row gets 60.  The
\* target is cut at its last '_', so a province line leaves a name that no
\* zone matches.  The owner of the zone is not asked.
UpdateDDNS(t, v) ==
    /\ memTok[t] # NoTarget
    /\ memTok[t][2] \notin Province
    /\ \E z \in Matches(memTok[t][1]) :
         LET s == <<z, KeyIn[<<memTok[t][1], z>>], memTok[t][2]>>
             ttl == IF memRec[s] = NoRec THEN 60 ELSE memRec[s].ttl
         IN  WriteBoth(z, {s}, [x \in {s} |-> [vals |-> v, ttl |-> ttl]],
                               [x \in {s} |-> [vals |-> v, ttl |-> 60]], {})

\* The closure of SyncCloudflareBestIPs for target n, with the addresses best.
\* The errors of its INSERTs are ignored.
SyncCloudflareBestIPs(n, best) ==
    \E z \in Matches(n) :
        LET S == {<<z, KeyIn[<<n, z>>], l>> : l \in CFLine}
            W == [s \in S |-> [vals |-> best[s[3]], ttl |-> 60]]
        IN  WriteBoth(z, S, W, W, S)

(***************************************************************************)
(* DDNS tokens                                                             *)
(***************************************************************************)
\* GenerateDDNSToken: any hosted zone above the name may be the one found.
GenerateDDNSToken(u, n, l, t) ==
    /\ memTok[t] = NoTarget
    /\ dbTok[t] = NoTarget
    /\ \E z \in Matches(n) : MayEdit(u, z)
    /\ memTok' = [memTok EXCEPT ![t] = <<n, l>>]
    /\ \/ /\ TxCommits
          /\ dbTok' = [dbTok EXCEPT ![t] = <<n, l>>]
          /\ staleTok' = staleTok \ {t}
       \/ /\ TxFails
          /\ staleTok' = staleTok \cup {t}
          /\ UNCHANGED dbTok
    /\ UNCHANGED <<memOwner, memRec, dbOwner, dbRec, staleZone, staleSlot>>

\* DeleteDDNSToken: without a hosted zone above the name anybody may delete.
DeleteDDNSToken(u, t) ==
    /\ memTok[t] # NoTarget
    /\ LET M == Matches(memTok[t][1])
       IN  M = {} \/ \E z \in M : MayEdit(u, z)
    /\ memTok' = [memTok EXCEPT ![t] = NoTarget]
    /\ \/ /\ TxCommits
          /\ dbTok' = [dbTok EXCEPT ![t] = NoTarget]
          /\ staleTok' = staleTok \ {t}
       \/ /\ TxFails
          /\ staleTok' = staleTok \cup {t}
          /\ UNCHANGED dbTok
    /\ UNCHANGED <<memOwner, memRec, dbOwner, dbRec, staleZone, staleSlot>>

SaveNoTokens ==                                               \* mutant
    /\ dbTok' = [t \in Token |-> NoTarget]
    /\ staleTok' = {}
    /\ UNCHANGED <<mem, dbOwner, dbRec, faults, staleZone, staleSlot>>

\* saveUnlocked, which a backup runs: the token table is written anew from
\* memory.  A failing one is rolled back and changes nothing.  If only its
\* DELETE fails, the rows that are there stay, and refuse it if they hold one of
\* the tokens in memory.
SaveTokens ==
    /\ \/ /\ TxCommits
          /\ dbTok' = memTok
          /\ staleTok' = {}
       \/ /\ TxFails
          /\ \A t \in DiskToks : memTok[t] = NoTarget
          /\ dbTok' = [t \in Token |-> IF t \in DiskToks THEN dbTok[t] ELSE memTok[t]]
          /\ staleTok' = DiskToks
    /\ UNCHANGED <<mem, dbOwner, dbRec, staleZone, staleSlot>>

(***************************************************************************)
(* Restart                                                                 *)
(***************************************************************************)
\* The process ends, at any time, and Load reads the tables.
Restart ==
    /\ memOwner' = dbOwner
    /\ memRec' = dbRec
    /\ memTok' = dbTok
    /\ staleZone' = {}
    /\ staleSlot' = {}
    /\ staleTok' = {}
    /\ UNCHANGED <<db, faults>>

\* Load fails half way and NewMemoryStore drops its error, or a scan of rows
\* ends early, which Load does not notice: of the tables it has read zones Z,
\* records S of theirs and tokens T.
RestartCut(Z, S, T) ==
    /\ TxFails
    /\ \A s \in S : s[1] \in Z
    /\ memOwner' = [z \in Zone |-> IF z \in Z THEN dbOwner[z] ELSE NoUser]
    /\ memRec' = [s \in Slot |-> IF s \in S THEN dbRec[s] ELSE NoRec]
    /\ memTok' = [t \in Token |-> IF t \in T THEN dbTok[t] ELSE NoTarget]
    /\ staleZone' = DiskZones \ Z
    /\ staleSlot' = DiskSlots \ S
    /\ staleTok' = DiskToks \ T
    /\ UNCHANGED db

Next ==
    \/ \E u \in User, s \in Slot, r \in Rec : AddRecord(u, s, r)
    \/ \E u \in User, s \in Slot : DeleteRecord(u, s)
    \/ \E t \in Token, v \in DynVals : UpdateDDNS(t, v)
    \/ \E n \in Name, best \in [CFLine -> DynVals] : SyncCloudflareBestIPs(n, best)
    \/ \E u \in User, n \in Name, l \in Line, t \in Token : GenerateDDNSToken(u, n, l, t)
    \/ \E u \in User, t \in Token : DeleteDDNSToken(u, t)
    \/ SaveTokens
    \/ Restart
    \/ \E Z \in SUBSET DiskZones, S \in SUBSET DiskSlots, T \in SUBSET DiskToks :
         RestartCut(Z, S, T)

Spec == Init /\ [][Next]_vars

(***************************************************************************)
(* Properties                                                              *)
(***************************************************************************)
\* A record no failed transaction touched is on disk as a reload needs it: the
\* row exists exactly when the record does, holds the joined values, and its
\* TTL is the record's or the 60 that UpdateDDNS always writes.
SlotsAgree ==
    \A s \in Slot \ staleSlot :
        /\ memRec[s] = NoRec <=> dbRec[s] = NoRec
        /\ memRec[s] # NoRec => /\ dbRec[s].vals = Stored[memRec[s].vals]
                                /\ dbRec[s].ttl \in {memRec[s].ttl, 60}

\* A zone no failed transaction touched has the same owner on disk, although
\* INSERT OR IGNORE never corrects a row and deletions drop it late.
ZonesAgree == \A z \in Zone \ staleZone : memOwner[z] = dbOwner[z]

\* A token no failed transaction touched is on disk with its target, whatever
\* becomes of the zone it was issued for.
TokensAgree == \A t \in Token \ staleTok : memTok[t] = dbTok[t]

\* The zones that count for u: those with a row, and those that only memory
\* has.  The quota is checked against the rows alone, so each lost transaction
\* lets an owner exceed the plan's limit by at most one zone; without one the
\* limit of AddRecordWithAuth holds.
Charged(u) ==
    {z \in Zone : dbOwner[z] = u \/ (dbOwner[z] = NoUser /\ memOwner[z] = u)}

QuotaHolds == \A u \in User : Cardinality(Charged(u)) <= Limit[u] + faults

\* A hosted zone passes from one user to another only by being released first,
\* or by a restart that finds the row a lost transaction left behind.
OwnersAreStable ==
    [][\A z \in Zone \ staleZone :
         memOwner[z] # NoUser => memOwner'[z] \in {memOwner[z], NoUser}]_vars

\* A zone row without records holds quota, and no request can delete it, for
\* DeleteRecordWithAuth drops a zone with its last record only.  Without failures
\* there is none; a lost addition whose record is then deleted, or a zone whose
\* DELETE was ignored, leaves one, and no failure leaves more than one, whatever
\* restarts and loads that are cut short make of it afterwards.
Bare == {z \in DiskZones : \A s \in SlotsOf(z) : dbRec[s] = NoRec}

ZonesServed == Cardinality(Bare) <= faults

\* What the comment on UpdateDDNS says, that the database is updated with the
\* memory: a record with its row in step would survive a restart unchanged.
TTLKept ==
    \A s \in Slot \ staleSlot :
        memRec[s] # NoRec /\ dbRec[s] # NoRec => dbRec[s].ttl = memRec[s].ttl

(***************************************************************************)
(* With no failure the store keeps the promise of ZoneRegistry: memory as a *)
(* reload would show it, and restarts nobody notices.                      *)
(***************************************************************************)
Shown(r) == IF r = NoRec THEN NoRec ELSE Stored[r.vals]
ShownRec == [s \in Slot |-> Shown(memRec[s])]

Registry == INSTANCE ZoneRegistry WITH
    owner <- memOwner, rec <- ShownRec, tok <- memTok

Implements == Registry!Spec
=============================================================================
