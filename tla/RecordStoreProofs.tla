-------------------------- MODULE RecordStoreProofs --------------------------
(***************************************************************************)
(* Theorems about RecordStore, for every value of its constants.           *)
(***************************************************************************)
EXTENDS RecordStore, FiniteSetTheorems, TLAPS

(***************************************************************************)
(* Types                                                                   *)
(***************************************************************************)
\* The row of a record is a record.
LEMMA RowType ==
    ASSUME NEW r \in Rec
    PROVE  Row(r) \in Rec /\ Row(r) # NoRec /\ r # NoRec
BY ValuesAssumption DEF Row, Rec

\* A name's record in a zone above it, with a line, is a slot.
LEMMA NamedSlot ==
    ASSUME NEW n \in Name, NEW z \in Matches(n), NEW l \in Line
    PROVE  <<z, KeyIn[<<n, z>>], l>> \in Slot
BY ZonesAssumption DEF Matches, Hosted, Slot

\* A record of one address with TTL 60, and one that keeps a record's TTL.
LEMMA DynamicRecord ==
    ASSUME NEW v \in DynVals, NEW ttl \in TTLs
    PROVE  [vals |-> v, ttl |-> ttl] \in Rec
BY ValuesAssumption DEF Rec

\* The records W and rows D of S agree as a reload needs.
Matching(S, W, D) ==
    \A s \in S : /\ W[s] \in Rec /\ D[s] \in Rec
                 /\ D[s].vals = W[s].vals /\ Stored[W[s].vals] = D[s].vals
                 /\ D[s].ttl \in {W[s].ttl, 60}

\* WriteBoth keeps the types when its new records are records.
LEMMA WriteBothType ==
    ASSUME TypeOK, NEW z \in Zone, NEW S \in SUBSET Slot,
           NEW W, NEW D, Matching(S, W, D),
           NEW Loose \in SUBSET S, WriteBoth(z, S, W, D, Loose)
    PROVE  TypeOK'
<1>1. memRec' \in [Slot -> Rec \cup {NoRec}]
  BY DEF WriteBoth, TypeOK, Matching
<1>2. dbRec' \in [Slot -> Rec \cup {NoRec}]
  BY DEF WriteBoth, TypeOK, Matching
<1>3. faults' \in 0..MaxFaults
  BY UsersAssumption DEF WriteBoth, TypeOK, TxFails, TxCommits
<1>4. staleSlot' \subseteq Slot
  BY DEF WriteBoth, TypeOK
<1>5. QED
  BY <1>1, <1>2, <1>3, <1>4 DEF WriteBoth, TypeOK

\* What UpdateDDNS and a sync of the best addresses hand to WriteBoth.
LEMMA UpdateDDNSWrites ==
    ASSUME TypeOK, NEW t \in Token, NEW v \in DynVals, UpdateDDNS(t, v)
    PROVE  \E z \in Hosted : \E S \in SUBSET SlotsOf(z) : \E W, D :
           \E Loose \in SUBSET S : Matching(S, W, D) /\ WriteBoth(z, S, W, D, Loose)
<1>1. PICK z \in Matches(memTok[t][1]) :
         LET s == <<z, KeyIn[<<memTok[t][1], z>>], memTok[t][2]>>
             ttl == IF memRec[s] = NoRec THEN 60 ELSE memRec[s].ttl
         IN  WriteBoth(z, {s}, [x \in {s} |-> [vals |-> v, ttl |-> ttl]],
                               [x \in {s} |-> [vals |-> v, ttl |-> 60]], {})
  BY DEF UpdateDDNS
<1> DEFINE s == <<z, KeyIn[<<memTok[t][1], z>>], memTok[t][2]>>
           ttl == IF memRec[s] = NoRec THEN 60 ELSE memRec[s].ttl
           W == [x \in {s} |-> [vals |-> v, ttl |-> ttl]]
           D == [x \in {s} |-> [vals |-> v, ttl |-> 60]]
<1>2. memTok[t] \in Target
  BY DEF UpdateDDNS, TypeOK
<1>3. s \in SlotsOf(z)
  BY <1>2, NamedSlot DEF Target, SlotsOf
<1>4. ttl \in TTLs
  BY <1>3, ValuesAssumption DEF TypeOK, Rec, SlotsOf
<1>5. W[s] \in Rec /\ D[s] \in Rec
  BY <1>4, DynamicRecord, ValuesAssumption
<1>6. D[s].vals = W[s].vals /\ Stored[W[s].vals] = D[s].vals /\ D[s].ttl = 60
  BY ValuesAssumption
<1>7. z \in Hosted /\ z \in Zone
  BY DEF Matches, Hosted
<1>8. WriteBoth(z, {s}, W, D, {})
  BY <1>1
<1>9. {s} \in SUBSET SlotsOf(z)
  BY <1>3
<1> HIDE DEF s, W, D
<1>10. QED
  BY <1>5, <1>6, <1>7, <1>8, <1>9 DEF Matching

LEMMA SyncWrites ==
    ASSUME TypeOK, NEW n \in Name, NEW best \in [CFLine -> DynVals],
           SyncCloudflareBestIPs(n, best)
    PROVE  \E z \in Hosted : \E S \in SUBSET SlotsOf(z) : \E W, D :
           \E Loose \in SUBSET S : Matching(S, W, D) /\ WriteBoth(z, S, W, D, Loose)
<1>1. PICK z \in Matches(n) :
         LET S == {<<z, KeyIn[<<n, z>>], l>> : l \in CFLine}
             W == [s \in S |-> [vals |-> best[s[3]], ttl |-> 60]]
         IN  WriteBoth(z, S, W, W, S)
  BY DEF SyncCloudflareBestIPs
<1> DEFINE S == {<<z, KeyIn[<<n, z>>], l>> : l \in CFLine}
           W == [s \in S |-> [vals |-> best[s[3]], ttl |-> 60]]
<1>2. S \in SUBSET SlotsOf(z)
  BY NamedSlot, ZonesAssumption DEF SlotsOf
<1>3. \A s \in S : best[s[3]] \in DynVals
  OBVIOUS
<1>4. \A s \in S : W[s] \in Rec /\ Stored[W[s].vals] = W[s].vals
  BY <1>3, DynamicRecord, ValuesAssumption
<1>5. z \in Hosted /\ z \in Zone
  BY DEF Matches, Hosted
<1>6. WriteBoth(z, S, W, W, S)
  BY <1>1
<1> HIDE DEF S, W
<1>7. QED
  BY <1>2, <1>4, <1>5, <1>6 DEF Matching

\* Every operation keeps every variable in its type.
LEMMA TypeStep ==
    ASSUME TypeOK, [Next]_vars
    PROVE  TypeOK'
<1> USE DEF TypeOK, TxFails, TxCommits
<1>1. ASSUME NEW u \in User, NEW s \in Slot, NEW r \in Rec, AddRecord(u, s, r)
      PROVE  TypeOK'
  <2>1. s[1] \in Zone
    BY DEF Slot
  <2>2. memOwner' \in [Zone -> User \cup {NoUser}]
    BY <1>1, <2>1 DEF AddRecord, OwnerAfter, InsertZone, Hosted
  <2>3. dbOwner' \in [Zone -> User \cup {NoUser}]
    BY <1>1, <2>1 DEF AddRecord, OwnerAfter, InsertZone, Hosted
  <2>4. memRec' \in [Slot -> Rec \cup {NoRec}] /\ dbRec' \in [Slot -> Rec \cup {NoRec}]
    BY <1>1, RowType DEF AddRecord, OwnerAfter, InsertZone
  <2>5. faults' \in 0..MaxFaults
    BY <1>1, UsersAssumption DEF AddRecord, OwnerAfter, InsertZone
  <2>6. staleZone' \subseteq Zone /\ staleSlot' \subseteq Slot
    BY <1>1, <2>1 DEF AddRecord, OwnerAfter, InsertZone
  <2>7. QED
    BY <1>1, <2>2, <2>3, <2>4, <2>5, <2>6 DEF AddRecord, OwnerAfter, InsertZone
<1>2. ASSUME NEW u \in User, NEW s \in Slot, DeleteRecord(u, s)
      PROVE  TypeOK'
  <2>1. memOwner' \in [Zone -> User \cup {NoUser}] /\ dbOwner' \in [Zone -> User \cup {NoUser}]
    BY <1>2 DEF DeleteRecord
  <2>2. memRec' \in [Slot -> Rec \cup {NoRec}] /\ dbRec' \in [Slot -> Rec \cup {NoRec}]
    BY <1>2 DEF DeleteRecord
  <2>3. faults' \in 0..MaxFaults
    BY <1>2, UsersAssumption DEF DeleteRecord
  <2>4. staleZone' \subseteq Zone /\ staleSlot' \subseteq Slot
    BY <1>2 DEF DeleteRecord, Slot
  <2>5. QED
    BY <1>2, <2>1, <2>2, <2>3, <2>4 DEF DeleteRecord
<1>3. ASSUME NEW t \in Token, NEW v \in DynVals, UpdateDDNS(t, v)
      PROVE  TypeOK'
  BY <1>3, UpdateDDNSWrites, WriteBothType DEF SlotsOf, Hosted
<1>4. ASSUME NEW n \in Name, NEW best \in [CFLine -> DynVals], SyncCloudflareBestIPs(n, best)
      PROVE  TypeOK'
  BY <1>4, SyncWrites, WriteBothType DEF SlotsOf, Hosted
<1>5. ASSUME NEW u \in User, NEW n \in Name, NEW l \in Line, NEW t \in Token,
             GenerateDDNSToken(u, n, l, t)
      PROVE  TypeOK'
  BY <1>5, UsersAssumption DEF GenerateDDNSToken, Target
<1>6. ASSUME NEW u \in User, NEW t \in Token, DeleteDDNSToken(u, t)
      PROVE  TypeOK'
  BY <1>6, UsersAssumption DEF DeleteDDNSToken
<1>7. CASE SaveTokens
  BY <1>7, UsersAssumption DEF SaveTokens, mem, DiskToks
<1>8. CASE Restart
  BY <1>8 DEF Restart, db
<1>9. ASSUME NEW Z \in SUBSET DiskZones, NEW S \in SUBSET DiskSlots,
             NEW T \in SUBSET DiskToks, RestartCut(Z, S, T)
      PROVE  TypeOK'
  BY <1>9, UsersAssumption DEF RestartCut, DiskZones, DiskSlots, DiskToks, db
<1>10. CASE UNCHANGED vars
  BY <1>10 DEF vars, mem, db, stale
<1>11. QED
  BY <1>1, <1>2, <1>3, <1>4, <1>5, <1>6, <1>7, <1>8, <1>9, <1>10 DEF Next

LEMMA TypeInit == Init => TypeOK
BY SeedAssumption, UsersAssumption DEF Init, TypeOK, SeedZones, Slot

\* Every reachable state gives every variable a value of its type.
THEOREM TypeCorrect == Spec => []TypeOK
<1>1. Init => TypeOK
  BY TypeInit
<1>2. TypeOK /\ [Next]_vars => TypeOK'
  BY TypeStep
<1>3. QED
  BY <1>1, <1>2, PTL DEF Spec

(***************************************************************************)
(* Memory and disk agree wherever nothing was lost                         *)
(***************************************************************************)
\* Rows hold values in the form a reload gives them, and hang on a zone row.
RowsSound ==
    \A s \in Slot : dbRec[s] # NoRec =>
        /\ Stored[dbRec[s].vals] = dbRec[s].vals
        /\ dbOwner[s[1]] # NoUser

Agreement == TypeOK /\ RowsSound /\ SlotsAgree /\ ZonesAgree /\ TokensAgree

LEMMA WriteBothAgrees ==
    ASSUME Agreement, NEW z \in Zone, NEW S \in SUBSET SlotsOf(z),
           NEW W, NEW D, Matching(S, W, D),
           NEW Loose \in SUBSET S, WriteBoth(z, S, W, D, Loose)
    PROVE  Agreement'
<1>1. TypeOK'
  BY WriteBothType DEF Agreement, SlotsOf
<1>2. \A s \in S : /\ s \in Slot /\ s[1] = z
                   /\ W[s] # NoRec /\ D[s] # NoRec
                   /\ D[s].vals = W[s].vals /\ Stored[W[s].vals] = D[s].vals
                   /\ D[s].ttl \in {W[s].ttl, 60}
  BY ValuesAssumption DEF Matching, SlotsOf
<1>3. RowsSound'
  BY <1>2 DEF RowsSound, WriteBoth, Agreement
<1>4. SlotsAgree'
  BY <1>2 DEF SlotsAgree, WriteBoth, Agreement
<1>5. ZonesAgree' /\ TokensAgree'
  BY DEF ZonesAgree, TokensAgree, WriteBoth, Agreement
<1>6. QED
  BY <1>1, <1>3, <1>4, <1>5 DEF Agreement

LEMMA AgreementInit == Init => Agreement
<1> SUFFICES ASSUME Init PROVE Agreement
  OBVIOUS
<1>1. TypeOK
  BY TypeInit
<1>2. RowsSound
  BY SeedAssumption, UsersAssumption DEF Init, RowsSound, SeedZones, Slot
<1>3. SlotsAgree
  BY SeedAssumption, ValuesAssumption DEF Init, SlotsAgree
<1>4. ZonesAgree /\ TokensAgree
  BY DEF Init, ZonesAgree, TokensAgree
<1>5. QED
  BY <1>1, <1>2, <1>3, <1>4 DEF Agreement

LEMMA AgreementStep ==
    ASSUME Agreement, [Next]_vars
    PROVE  Agreement'
<1>t. TypeOK /\ TypeOK'
  BY TypeStep DEF Agreement
<1> USE DEF Agreement
<1>1. ASSUME NEW u \in User, NEW s \in Slot, NEW r \in Rec, AddRecord(u, s, r)
      PROVE  Agreement'
  <2> DEFINE z == s[1]
             owner == OwnerAfter(u, z)
  <2>1. z \in Zone /\ owner # NoUser
    BY UsersAssumption DEF Slot, Hosted, OwnerAfter
  <2>2. Row(r) # NoRec /\ r # NoRec /\ Row(r).vals = Stored[r.vals] /\ Row(r).ttl = r.ttl
        /\ Stored[Stored[r.vals]] = Stored[r.vals]
    BY RowType, ValuesAssumption DEF Row, Rec
  <2>3. \A x \in Zone : dbOwner[x] # NoUser => dbOwner'[x] # NoUser
    BY <1>1, <2>1, <1>t DEF AddRecord, OwnerAfter, InsertZone, TypeOK
  <2>4. RowsSound'
    <3>1. CASE dbRec' = dbRec
      BY <3>1, <2>3, <1>t DEF RowsSound, Slot
    <3>2. CASE dbRec' = [dbRec EXCEPT ![s] = Row(r)] /\ dbOwner'[z] # NoUser
      BY <3>2, <2>2, <2>3, <1>t DEF RowsSound, Slot, TypeOK
    <3>3. QED
      BY <1>1, <3>1, <3>2, <2>1, <1>t DEF AddRecord, OwnerAfter, InsertZone, TypeOK
  <2>5. SlotsAgree'
    <3>1. memRec' = [memRec EXCEPT ![s] = r]
      BY <1>1 DEF AddRecord, OwnerAfter, InsertZone
    <3>2. \/ staleSlot' = staleSlot \ {s} /\ dbRec' = [dbRec EXCEPT ![s] = Row(r)]
          \/ staleSlot' = staleSlot \cup {s} /\ dbRec' = dbRec
      BY <1>1 DEF AddRecord, OwnerAfter, InsertZone
    <3>3. QED
      BY <3>1, <3>2, <2>2, <1>t DEF SlotsAgree, TypeOK
  <2>6. ZonesAgree'
    BY <1>1, <2>1, <1>t DEF AddRecord, OwnerAfter, InsertZone, ZonesAgree, TypeOK, Hosted
  <2>7. TokensAgree'
    BY <1>1 DEF AddRecord, OwnerAfter, InsertZone, TokensAgree
  <2>8. QED
    BY <1>t, <2>4, <2>5, <2>6, <2>7
<1>2. ASSUME NEW u \in User, NEW s \in Slot, DeleteRecord(u, s)
      PROVE  Agreement'
  <2> DEFINE z == s[1]
             rec == [memRec EXCEPT ![s] = NoRec]
             last == IsEmpty(rec, z)
  <2>1. z \in Zone
    BY DEF Slot
  <2>2. memRec' = rec /\ memTok' = memTok /\ dbTok' = dbTok /\ staleTok' = staleTok
    BY <1>2 DEF DeleteRecord
  <2>3. TokensAgree'
    BY <2>2 DEF TokensAgree
  <2>4. \A x \in SlotsOf(z) : last => rec[x] = NoRec
    BY DEF IsEmpty
  <2>5. CASE /\ last
             /\ memOwner' = [memOwner EXCEPT ![z] = NoUser]
             /\ dbOwner' = [dbOwner EXCEPT ![z] = NoUser]
             /\ dbRec' = [t \in Slot |-> IF t[1] = z THEN NoRec ELSE dbRec[t]]
             /\ staleZone' = staleZone \ {z}
             /\ staleSlot' = staleSlot \ SlotsOf(z)
    <3>1. RowsSound'
      BY <2>5, <2>1, <1>t DEF RowsSound, TypeOK, Slot
    <3>2. SlotsAgree'
      BY <2>5, <2>2, <2>4, <1>t DEF SlotsAgree, SlotsOf, TypeOK
    <3>3. ZonesAgree'
      BY <2>5, <2>1, <1>t DEF ZonesAgree, TypeOK
    <3>4. QED
      BY <1>t, <2>3, <3>1, <3>2, <3>3
  <2>6. CASE /\ dbRec' = [dbRec EXCEPT ![s] = NoRec]
             /\ staleSlot' = staleSlot \ {s}
             /\ UNCHANGED <<memOwner, dbOwner, staleZone>>
    BY <2>6, <2>2, <2>3, <1>t DEF RowsSound, SlotsAgree, ZonesAgree, TypeOK
  <2>7. CASE /\ dbOwner[z] = NoUser
             /\ staleSlot' = staleSlot \ {s}
             /\ UNCHANGED <<memOwner, dbOwner, dbRec, staleZone>>
    BY <2>7, <2>2, <2>3, <1>t DEF RowsSound, SlotsAgree, ZonesAgree, TypeOK
  <2>8. CASE /\ staleSlot' = staleSlot \cup {s}
             /\ UNCHANGED <<memOwner, dbOwner, dbRec, staleZone>>
    BY <2>8, <2>2, <2>3, <1>t DEF RowsSound, SlotsAgree, ZonesAgree, TypeOK
  <2>9. CASE /\ memOwner' = [memOwner EXCEPT ![z] = NoUser]
             /\ staleZone' = staleZone \cup {z}
             /\ \/ staleSlot' = staleSlot \cup {s} /\ UNCHANGED dbRec
                \/ staleSlot' = staleSlot \ {s} /\ dbRec' = [dbRec EXCEPT ![s] = NoRec]
             /\ UNCHANGED dbOwner
    BY <2>9, <2>1, <2>2, <2>3, <1>t DEF RowsSound, SlotsAgree, ZonesAgree, TypeOK
  <2>10. QED
    BY <1>2, <2>5, <2>6, <2>7, <2>8, <2>9 DEF DeleteRecord
<1>3. ASSUME NEW t \in Token, NEW v \in DynVals, UpdateDDNS(t, v)
      PROVE  Agreement'
  BY <1>3, UpdateDDNSWrites, WriteBothAgrees DEF Hosted
<1>4. ASSUME NEW n \in Name, NEW best \in [CFLine -> DynVals], SyncCloudflareBestIPs(n, best)
      PROVE  Agreement'
  BY <1>4, SyncWrites, WriteBothAgrees DEF Hosted
<1>5. ASSUME NEW u \in User, NEW n \in Name, NEW l \in Line, NEW t \in Token,
             GenerateDDNSToken(u, n, l, t)
      PROVE  Agreement'
  BY <1>5, <1>t DEF GenerateDDNSToken, RowsSound, SlotsAgree, ZonesAgree, TokensAgree, TypeOK
<1>6. ASSUME NEW u \in User, NEW t \in Token, DeleteDDNSToken(u, t)
      PROVE  Agreement'
  BY <1>6, <1>t DEF DeleteDDNSToken, RowsSound, SlotsAgree, ZonesAgree, TokensAgree, TypeOK
<1>7. CASE SaveTokens
  <2>1. TokensAgree'
    BY <1>7, <1>t DEF SaveTokens, mem, TokensAgree, DiskToks, TypeOK
  <2>2. QED
    BY <1>7, <1>t, <2>1 DEF SaveTokens, mem, RowsSound, SlotsAgree, ZonesAgree
<1>8. CASE Restart
  BY <1>8, <1>t DEF Restart, db, RowsSound, SlotsAgree, ZonesAgree, TokensAgree
<1>9. ASSUME NEW Z \in SUBSET DiskZones, NEW S \in SUBSET DiskSlots,
             NEW T \in SUBSET DiskToks, RestartCut(Z, S, T)
      PROVE  Agreement'
  <2>1. RowsSound'
    BY <1>9 DEF RestartCut, db, RowsSound
  <2>2. SlotsAgree'
    BY <1>9, <2>1 DEF RestartCut, db, SlotsAgree, DiskSlots, RowsSound
  <2>3. ZonesAgree'
    BY <1>9 DEF RestartCut, db, ZonesAgree, DiskZones
  <2>4. TokensAgree'
    BY <1>9 DEF RestartCut, db, TokensAgree, DiskToks
  <2>5. QED
    BY <1>t, <2>1, <2>2, <2>3, <2>4
<1>10. CASE UNCHANGED vars
  BY <1>10, <1>t DEF vars, mem, db, stale, RowsSound, SlotsAgree, ZonesAgree, TokensAgree
<1>11. QED
  BY <1>1, <1>2, <1>3, <1>4, <1>5, <1>6, <1>7, <1>8, <1>9, <1>10 DEF Next

\* Records, owners and tokens that no failed transaction or load touched are
\* the same in memory and on disk, after any operations and restarts.
THEOREM DiskAgrees == Spec => [](SlotsAgree /\ ZonesAgree /\ TokensAgree)
<1>1. Init => Agreement
  BY AgreementInit
<1>2. Agreement /\ [Next]_vars => Agreement'
  BY AgreementStep
<1>3. Agreement => SlotsAgree /\ ZonesAgree /\ TokensAgree
  BY DEF Agreement
<1>4. QED
  BY <1>1, <1>2, <1>3, PTL DEF Spec

\* The owner of a zone in memory is the one in table domains, unless a failed
\* transaction or load has touched the zone since.
THEOREM DiskZonesAgree == Spec => []ZonesAgree
BY DiskAgrees, PTL

\* A DDNS token in memory is the one in table ddns_tokens, unless a failure has
\* touched it since.
THEOREM DiskTokensAgree == Spec => []TokensAgree
BY DiskAgrees, PTL

\* A hosted zone nothing was lost for never changes hands in one step.
THEOREM OwnersStable == Spec => OwnersAreStable
<1> DEFINE Stable ==
      \A z \in Zone \ staleZone : memOwner[z] # NoUser => memOwner'[z] \in {memOwner[z], NoUser}
<1>1. Init => Agreement
  BY AgreementInit
<1>2. Agreement /\ [Next]_vars => Agreement'
  BY AgreementStep
<1>3. ASSUME Agreement, [Next]_vars PROVE Stable
  <2> USE DEF Agreement
  <2>1. ASSUME NEW u \in User, NEW s \in Slot, NEW r \in Rec, AddRecord(u, s, r)
        PROVE  Stable
    BY <1>3, <2>1 DEF AddRecord, OwnerAfter, InsertZone, TypeOK, Hosted, Slot
  <2>2. ASSUME NEW u \in User, NEW s \in Slot, DeleteRecord(u, s)
        PROVE  Stable
    BY <1>3, <2>2 DEF DeleteRecord, TypeOK
  <2>3. ASSUME UNCHANGED memOwner
        PROVE  Stable
    BY <2>3
  <2>4. CASE Restart
    BY <1>3, <2>4 DEF Restart, ZonesAgree
  <2>5. ASSUME NEW Z \in SUBSET DiskZones, NEW S \in SUBSET DiskSlots,
               NEW T \in SUBSET DiskToks, RestartCut(Z, S, T)
        PROVE  Stable
    BY <1>3, <2>5 DEF RestartCut, ZonesAgree
  <2>6. CASE SaveTokens \/ UNCHANGED vars
    BY <2>3, <2>6 DEF SaveTokens, mem, vars
  <2>7. ASSUME NEW t \in Token, NEW v \in DynVals, UpdateDDNS(t, v)
        PROVE  Stable
    BY <2>3, <2>7 DEF UpdateDDNS, WriteBoth
  <2>8. ASSUME NEW n \in Name, NEW best \in [CFLine -> DynVals], SyncCloudflareBestIPs(n, best)
        PROVE  Stable
    BY <2>3, <2>8 DEF SyncCloudflareBestIPs, WriteBoth
  <2>9. ASSUME NEW u \in User, NEW n \in Name, NEW l \in Line, NEW t \in Token,
               GenerateDDNSToken(u, n, l, t)
        PROVE  Stable
    BY <2>3, <2>9 DEF GenerateDDNSToken
  <2>10. ASSUME NEW u \in User, NEW t \in Token, DeleteDDNSToken(u, t)
        PROVE  Stable
    BY <2>3, <2>10 DEF DeleteDDNSToken
  <2>11. QED
    BY <1>3, <2>1, <2>2, <2>4, <2>5, <2>6, <2>7, <2>8, <2>9, <2>10 DEF Next
<1>4. Agreement /\ [Next]_vars => [Stable]_vars
  BY <1>3
<1>5. QED
  BY <1>1, <1>2, <1>4, PTL DEF Spec, OwnersAreStable

(***************************************************************************)
(* Without failures: what the promise of ZoneRegistry needs                *)
(***************************************************************************)
\* Nothing is stale as long as nothing failed.
NothingLost == faults = 0 => staleZone = {} /\ staleSlot = {} /\ staleTok = {}

Sound == Agreement /\ NothingLost

LEMMA SoundInit == Init => Sound
BY AgreementInit DEF Sound, NothingLost, Init

LEMMA SoundStep ==
    ASSUME Sound, [Next]_vars
    PROVE  Sound'
<1>a. Agreement /\ Agreement' /\ TypeOK
  BY AgreementStep DEF Sound, Agreement
<1>f. faults \in Nat /\ faults' \in Nat
  BY <1>a, UsersAssumption DEF Agreement, TypeOK
<1> SUFFICES NothingLost'
  BY <1>a DEF Sound
<1> USE DEF Sound, NothingLost, TxFails, TxCommits
<1>1. ASSUME NEW u \in User, NEW s \in Slot, NEW r \in Rec, AddRecord(u, s, r)
      PROVE  NothingLost'
  BY <1>1, <1>f DEF AddRecord, OwnerAfter, InsertZone
<1>2. ASSUME NEW u \in User, NEW s \in Slot, DeleteRecord(u, s)
      PROVE  NothingLost'
  BY <1>2, <1>f DEF DeleteRecord
<1>3. ASSUME NEW z \in Hosted, NEW S \in SUBSET SlotsOf(z), NEW W, NEW D,
             NEW Loose, WriteBoth(z, S, W, D, Loose)
      PROVE  NothingLost'
  <2>1. faults = 0 => dbOwner[z] # NoUser
    BY <1>a DEF Agreement, ZonesAgree, Hosted
  <2>2. QED
    BY <1>3, <1>f, <2>1 DEF WriteBoth
<1>4. ASSUME NEW t \in Token, NEW v \in DynVals, UpdateDDNS(t, v)
      PROVE  NothingLost'
  BY <1>4, <1>a, <1>3, UpdateDDNSWrites
<1>5. ASSUME NEW n \in Name, NEW best \in [CFLine -> DynVals], SyncCloudflareBestIPs(n, best)
      PROVE  NothingLost'
  BY <1>5, <1>a, <1>3, SyncWrites
<1>6. ASSUME NEW u \in User, NEW n \in Name, NEW l \in Line, NEW t \in Token,
             GenerateDDNSToken(u, n, l, t)
      PROVE  NothingLost'
  BY <1>6, <1>f DEF GenerateDDNSToken
<1>7. ASSUME NEW u \in User, NEW t \in Token, DeleteDDNSToken(u, t)
      PROVE  NothingLost'
  BY <1>7, <1>f DEF DeleteDDNSToken
<1>8. CASE SaveTokens
  BY <1>8, <1>f DEF SaveTokens
<1>9. CASE Restart
  BY <1>9 DEF Restart
<1>10. ASSUME NEW Z \in SUBSET DiskZones, NEW S \in SUBSET DiskSlots,
              NEW T \in SUBSET DiskToks, RestartCut(Z, S, T)
       PROVE  NothingLost'
  BY <1>10, <1>f DEF RestartCut
<1>11. CASE UNCHANGED vars
  BY <1>11 DEF vars, stale
<1>12. QED
  BY <1>1, <1>2, <1>4, <1>5, <1>6, <1>7, <1>8, <1>9, <1>10, <1>11 DEF Next

(***************************************************************************)
(* The quota                                                               *)
(***************************************************************************)
\* Zones hosted in memory only.  The quota check does not count them; every
\* one of them costs a failure.
MemoryOnly(u) == {z \in Zone : dbOwner[z] = NoUser /\ memOwner[z] = u}

Quota ==
    /\ TypeOK
    /\ \A u \in User : /\ Cardinality(MemoryOnly(u)) <= faults
                       /\ Cardinality(Charged(u)) <= Limit[u] + faults

LEMMA ZoneSets ==
    ASSUME NEW S \in SUBSET Zone
    PROVE  IsFiniteSet(S) /\ Cardinality(S) \in Nat
BY UsersAssumption, FS_Subset, FS_CardinalityType

\* Fewer zones, or the same, never break the bounds.
LEMMA QuotaShrinks ==
    ASSUME Quota, TypeOK', faults' \in {faults, faults + 1},
           \A u \in User : /\ MemoryOnly(u)' \subseteq MemoryOnly(u)
                          /\ Charged(u)' \subseteq Charged(u)
    PROVE  Quota'
<1> SUFFICES ASSUME NEW u \in User
             PROVE  /\ Cardinality(MemoryOnly(u)') <= faults'
                    /\ Cardinality(Charged(u)') <= Limit[u] + faults'
  BY DEF Quota
<1>1. faults \in Nat /\ Limit[u] \in Nat
  BY UsersAssumption DEF Quota, TypeOK
<1>2. /\ MemoryOnly(u) \in SUBSET Zone /\ MemoryOnly(u)' \in SUBSET Zone
      /\ Charged(u) \in SUBSET Zone /\ Charged(u)' \in SUBSET Zone
  BY DEF MemoryOnly, Charged
<1>3. /\ Cardinality(MemoryOnly(u)') <= Cardinality(MemoryOnly(u))
      /\ Cardinality(Charged(u)') <= Cardinality(Charged(u))
  BY <1>2, ZoneSets, FS_Subset
<1>4. /\ Cardinality(MemoryOnly(u)') \in Nat /\ Cardinality(MemoryOnly(u)) \in Nat
      /\ Cardinality(Charged(u)') \in Nat /\ Cardinality(Charged(u)) \in Nat
  BY <1>2, ZoneSets
<1>5. Cardinality(MemoryOnly(u)) <= faults /\ Cardinality(Charged(u)) <= Limit[u] + faults
  BY DEF Quota
<1>6. QED
  BY <1>1, <1>3, <1>4, <1>5

LEMMA QuotaInit == Init => Quota
<1> SUFFICES ASSUME Init PROVE Quota
  OBVIOUS
<1>1. TypeOK
  BY TypeInit
<1> SUFFICES ASSUME NEW u \in User
             PROVE  /\ Cardinality(MemoryOnly(u)) <= faults
                    /\ Cardinality(Charged(u)) <= Limit[u] + faults
  BY <1>1 DEF Quota
<1>2. MemoryOnly(u) = {}
  BY UsersAssumption DEF Init, MemoryOnly
<1>3. Charged(u) = IF u = Root THEN SeedZones ELSE {}
  BY UsersAssumption, SeedAssumption DEF Init, Charged, SeedZones, Slot
<1>4. Limit[u] \in Nat /\ faults = 0
  BY UsersAssumption DEF Init
<1>5. Cardinality({}) = 0
  BY FS_EmptySet
<1>6. SeedZones \subseteq Zone
  BY SeedAssumption DEF SeedZones, Slot
<1>7. Cardinality(SeedZones) \in Nat
  BY <1>6, ZoneSets
<1>8. QED
  BY <1>2, <1>3, <1>4, <1>5, <1>7, SeedAssumption

LEMMA QuotaAdd ==
    ASSUME Quota, NEW v \in User, NEW s \in Slot, NEW r \in Rec, AddRecord(v, s, r), TypeOK'
    PROVE  Quota'
<1> DEFINE z == s[1]
           owner == OwnerAfter(v, z)
<1>1. z \in Zone /\ TypeOK /\ faults \in Nat /\ NoUser \notin User /\ owner \in User
  BY UsersAssumption DEF Slot, Quota, TypeOK, Hosted, OwnerAfter
<1>2. memOwner' = [memOwner EXCEPT ![z] = owner]
  BY DEF AddRecord, OwnerAfter, InsertZone
<1>3. CASE z \in Hosted
  <2>1. memOwner' = memOwner
    BY <1>1, <1>2, <1>3 DEF TypeOK, OwnerAfter
  <2>2. \/ dbOwner' = dbOwner
        \/ dbOwner[z] = NoUser /\ dbOwner' = [dbOwner EXCEPT ![z] = memOwner[z]]
    BY <1>3 DEF AddRecord, OwnerAfter, InsertZone
  <2>3. \A u \in User : /\ MemoryOnly(u)' \subseteq MemoryOnly(u)
                        /\ Charged(u)' \subseteq Charged(u)
    BY <1>1, <1>3, <2>1, <2>2 DEF MemoryOnly, Charged, TypeOK, Hosted
  <2>4. faults' \in {faults, faults + 1}
    BY DEF AddRecord, OwnerAfter, InsertZone, TxFails, TxCommits
  <2>5. QED
    BY <2>3, <2>4, QuotaShrinks
<1>4. CASE z \notin Hosted
  <2>1. memOwner[z] = NoUser /\ owner = v /\ CountOnDisk(v) < Limit[v]
    BY <1>1, <1>4 DEF AddRecord, OwnerAfter, InsertZone, MayAdd, Hosted
  <2> SUFFICES ASSUME NEW u \in User
               PROVE  /\ Cardinality(MemoryOnly(u)') <= faults'
                      /\ Cardinality(Charged(u)') <= Limit[u] + faults'
    BY DEF Quota
  <2> DEFINE onDisk == {x \in Zone : dbOwner[x] = u}
  <2>2. /\ MemoryOnly(u) \in SUBSET Zone /\ MemoryOnly(u)' \in SUBSET Zone
        /\ Charged(u) \in SUBSET Zone /\ Charged(u)' \in SUBSET Zone
        /\ onDisk \in SUBSET Zone
    BY DEF MemoryOnly, Charged
  <2>3. /\ Cardinality(MemoryOnly(u)) \in Nat /\ Cardinality(MemoryOnly(u)') \in Nat
        /\ Cardinality(Charged(u)) \in Nat /\ Cardinality(Charged(u)') \in Nat
        /\ Cardinality(onDisk) \in Nat /\ Limit[u] \in Nat
    BY <2>2, ZoneSets, UsersAssumption
  <2>4. Cardinality(MemoryOnly(u)) <= faults /\ Cardinality(Charged(u)) <= Limit[u] + faults
    BY DEF Quota
  <2>5. CASE u # v \/ dbOwner[z] # NoUser
    <3>1. MemoryOnly(u)' = MemoryOnly(u) /\ Charged(u)' = Charged(u)
      BY <1>1, <1>2, <1>4, <2>1, <2>5 DEF MemoryOnly, Charged, TypeOK, AddRecord, OwnerAfter, InsertZone, Hosted
    <3>2. faults' \in {faults, faults + 1}
      BY DEF AddRecord, OwnerAfter, InsertZone, TxFails, TxCommits
    <3>3. QED
      BY <1>1, <2>3, <2>4, <3>1, <3>2
  <2>6. CASE u = v /\ dbOwner[z] = NoUser
    <3>1. Charged(u)' = Charged(u) \cup {z}
      BY <1>1, <1>2, <1>4, <2>1, <2>6 DEF Charged, TypeOK, AddRecord, OwnerAfter, InsertZone, Hosted
    <3>2. Charged(u) = onDisk \cup MemoryOnly(u)
      BY <1>1, <2>6 DEF Charged, MemoryOnly
    <3>3. Cardinality(Charged(u)') <= Cardinality(Charged(u)) + 1
      <4> HIDE DEF z
      <4>1. IsFiniteSet(Charged(u))
        BY <2>2, ZoneSets
      <4>2. Cardinality(Charged(u) \cup {z}) \in {Cardinality(Charged(u)), Cardinality(Charged(u)) + 1}
        BY <4>1, FS_AddElement
      <4>3. QED
        BY <3>1, <4>2, <2>3
    <3>4. CASE TxCommits
      <4>1. MemoryOnly(u)' \subseteq MemoryOnly(u)
        BY <1>1, <1>2, <1>4, <2>1, <2>6, <3>4
           DEF MemoryOnly, TypeOK, AddRecord, OwnerAfter, InsertZone, TxFails, TxCommits
      <4>2. Cardinality(MemoryOnly(u)') <= Cardinality(MemoryOnly(u))
        BY <4>1, <2>2, ZoneSets, FS_Subset
      <4>3. Cardinality(onDisk) < Limit[u]
        BY <2>1, <2>6 DEF CountOnDisk
      <4>4. Cardinality(Charged(u)) <= Cardinality(onDisk) + Cardinality(MemoryOnly(u))
        <5> HIDE DEF onDisk
        <5>1. /\ IsFiniteSet(onDisk) /\ IsFiniteSet(MemoryOnly(u))
              /\ onDisk \cap MemoryOnly(u) \in SUBSET Zone
          BY <2>2, ZoneSets
        <5>2. Cardinality(onDisk \cap MemoryOnly(u)) \in Nat
          BY <5>1, ZoneSets
        <5>3. Cardinality(onDisk \cup MemoryOnly(u)) =
                Cardinality(onDisk) + Cardinality(MemoryOnly(u))
                  - Cardinality(onDisk \cap MemoryOnly(u))
          BY <5>1, FS_Union
        <5>4. QED
          BY <3>2, <5>2, <5>3, <2>3
      <4>5. QED
        BY <1>1, <2>3, <2>4, <3>3, <3>4, <4>2, <4>3, <4>4 DEF TxCommits
    <3>5. CASE TxFails
      <4>1. MemoryOnly(u)' \subseteq MemoryOnly(u) \cup {z}
        BY <1>1, <1>2, <1>4, <2>1, <2>6 DEF MemoryOnly, TypeOK, AddRecord, OwnerAfter, InsertZone
      <4>2. /\ IsFiniteSet(MemoryOnly(u) \cup {z})
            /\ Cardinality(MemoryOnly(u) \cup {z}) <= Cardinality(MemoryOnly(u)) + 1
        <5> HIDE DEF z
        <5>1. IsFiniteSet(MemoryOnly(u))
          BY <2>2, ZoneSets
        <5>2. Cardinality(MemoryOnly(u) \cup {z}) \in
                {Cardinality(MemoryOnly(u)), Cardinality(MemoryOnly(u)) + 1}
          BY <5>1, FS_AddElement
        <5>3. IsFiniteSet(MemoryOnly(u) \cup {z})
          BY <5>1, FS_AddElement
        <5>4. QED
          BY <5>2, <5>3, <2>3
      <4>3. Cardinality(MemoryOnly(u)') <= Cardinality(MemoryOnly(u) \cup {z})
        BY <4>1, <4>2, FS_Subset
      <4>4. Cardinality(MemoryOnly(u) \cup {z}) \in Nat
        BY <4>2, FS_CardinalityType
      <4>5. QED
        BY <1>1, <2>3, <2>4, <3>3, <3>5, <4>2, <4>3, <4>4 DEF TxFails
    <3>6. QED
      BY <3>4, <3>5 DEF AddRecord, OwnerAfter, InsertZone
  <2>7. QED
    BY <2>5, <2>6
<1>5. QED
  BY <1>3, <1>4

LEMMA QuotaStep ==
    ASSUME Quota, [Next]_vars
    PROVE  Quota'
<1>t. TypeOK /\ TypeOK'
  BY TypeStep DEF Quota
<1>1. ASSUME NEW u \in User, NEW s \in Slot, NEW r \in Rec, AddRecord(u, s, r)
      PROVE  Quota'
  BY <1>1, <1>t, QuotaAdd
<1>2. ASSUME NEW u \in User, NEW s \in Slot, DeleteRecord(u, s)
      PROVE  Quota'
  <2>1. s[1] \in Zone
    BY DEF Slot
  <2>2. \/ UNCHANGED <<memOwner, dbOwner>>
        \/ /\ memOwner' = [memOwner EXCEPT ![s[1]] = NoUser]
           /\ dbOwner' = [dbOwner EXCEPT ![s[1]] = NoUser]
        \/ /\ dbOwner[s[1]] # NoUser
           /\ memOwner' = [memOwner EXCEPT ![s[1]] = NoUser]
           /\ dbOwner' = dbOwner
    BY <1>2 DEF DeleteRecord
  <2>3. \A u1 \in User : /\ MemoryOnly(u1)' \subseteq MemoryOnly(u1)
                         /\ Charged(u1)' \subseteq Charged(u1)
    BY <2>1, <2>2, <1>t, UsersAssumption DEF MemoryOnly, Charged, TypeOK
  <2>4. faults' \in {faults, faults + 1}
    BY <1>2 DEF DeleteRecord, TxFails, TxCommits
  <2>5. QED
    BY <2>3, <2>4, <1>t, QuotaShrinks
<1>3. ASSUME UNCHANGED <<memOwner, dbOwner>>, faults' \in {faults, faults + 1}
      PROVE  Quota'
  <2>1. \A u \in User : MemoryOnly(u)' = MemoryOnly(u) /\ Charged(u)' = Charged(u)
    BY <1>3 DEF MemoryOnly, Charged
  <2>2. QED
    BY <2>1, <1>3, <1>t, QuotaShrinks
<1>4. ASSUME NEW t \in Token, NEW v \in DynVals, UpdateDDNS(t, v)
      PROVE  Quota'
  BY <1>4, <1>3 DEF UpdateDDNS, WriteBoth, TxFails, TxCommits
<1>5. ASSUME NEW n \in Name, NEW best \in [CFLine -> DynVals], SyncCloudflareBestIPs(n, best)
      PROVE  Quota'
  BY <1>5, <1>3 DEF SyncCloudflareBestIPs, WriteBoth, TxFails, TxCommits
<1>6. ASSUME NEW u \in User, NEW n \in Name, NEW l \in Line, NEW t \in Token,
             GenerateDDNSToken(u, n, l, t)
      PROVE  Quota'
  BY <1>6, <1>3 DEF GenerateDDNSToken, TxFails, TxCommits
<1>7. ASSUME NEW u \in User, NEW t \in Token, DeleteDDNSToken(u, t)
      PROVE  Quota'
  BY <1>7, <1>3 DEF DeleteDDNSToken, TxFails, TxCommits
<1>8. CASE SaveTokens
  BY <1>8, <1>3 DEF SaveTokens, mem, TxFails, TxCommits
<1>9. CASE Restart
  <2>1. \A u \in User : /\ MemoryOnly(u)' \subseteq MemoryOnly(u)
                        /\ Charged(u)' \subseteq Charged(u)
    BY <1>9, UsersAssumption DEF Restart, db, MemoryOnly, Charged
  <2>2. QED
    BY <1>9, <2>1, <1>t, QuotaShrinks DEF Restart
<1>10. ASSUME NEW Z \in SUBSET DiskZones, NEW S \in SUBSET DiskSlots,
              NEW T \in SUBSET DiskToks, RestartCut(Z, S, T)
       PROVE  Quota'
  <2>1. \A u \in User : /\ MemoryOnly(u)' \subseteq MemoryOnly(u)
                        /\ Charged(u)' \subseteq Charged(u)
    BY <1>10, UsersAssumption DEF RestartCut, db, MemoryOnly, Charged, DiskZones
  <2>2. QED
    BY <1>10, <2>1, <1>t, QuotaShrinks DEF RestartCut, TxFails
<1>11. CASE UNCHANGED vars
  BY <1>11, <1>3 DEF vars, mem, db
<1>12. QED
  BY <1>1, <1>2, <1>4, <1>5, <1>6, <1>7, <1>8, <1>9, <1>10, <1>11 DEF Next

\* No owner has more zones than the plan's limit and the failures so far.
THEOREM QuotaTheorem == Spec => []QuotaHolds
<1>1. Init => Quota
  BY QuotaInit
<1>2. Quota /\ [Next]_vars => Quota'
  BY QuotaStep
<1>3. Quota => QuotaHolds
  BY DEF Quota, QuotaHolds
<1>4. QED
  BY <1>1, <1>2, <1>3, PTL DEF Spec

(***************************************************************************)
(* Zone rows without records                                               *)
(***************************************************************************)
\* The zones whose row has no record, or will have none once memory deletes
\* what the tables lack, or is missing itself.  Every one of them costs a failure.
IsFrail(z) ==
    \/ dbOwner[z] # NoUser /\ \A s \in SlotsOf(z) : dbRec[s] = NoRec
    \/ memOwner[z] # NoUser /\ dbOwner[z] = NoUser
    \/ \E s \in SlotsOf(z) : memRec[s] # NoRec /\ dbRec[s] = NoRec

Frail == {z \in Zone : IsFrail(z)}

Served == TypeOK /\ Cardinality(Frail) <= faults

\* A step makes no zone frail, or one and spends a failure.
FrailMoves ==
    \/ faults' \in {faults, faults + 1} /\ Frail' \subseteq Frail
    \/ faults' = faults + 1 /\ \E z \in Zone : Frail' \subseteq Frail \cup {z}

LEMMA ServedMoves ==
    ASSUME Served, TypeOK', FrailMoves
    PROVE  Served'
<1>1. faults \in Nat /\ Cardinality(Frail) <= faults
  BY UsersAssumption DEF Served, TypeOK
<1>2. /\ IsFiniteSet(Frail) /\ Cardinality(Frail) \in Nat
      /\ IsFiniteSet(Frail') /\ Cardinality(Frail') \in Nat
  <2>1. Frail \in SUBSET Zone /\ Frail' \in SUBSET Zone
    BY DEF Frail
  <2>2. QED
    BY <2>1, ZoneSets
<1>3. CASE faults' \in {faults, faults + 1} /\ Frail' \subseteq Frail
  <2>1. Cardinality(Frail') <= Cardinality(Frail)
    BY <1>2, <1>3, FS_Subset
  <2>2. QED
    BY <1>1, <1>2, <1>3, <2>1 DEF Served
<1>4. ASSUME faults' = faults + 1, NEW z \in Zone, Frail' \subseteq Frail \cup {z}
      PROVE  Served'
  <2>1. /\ IsFiniteSet(Frail \cup {z})
        /\ Cardinality(Frail \cup {z}) \in {Cardinality(Frail), Cardinality(Frail) + 1}
    BY <1>2, FS_AddElement
  <2>2. Cardinality(Frail') <= Cardinality(Frail \cup {z})
    BY <1>4, <2>1, FS_Subset
  <2>3. QED
    BY <1>1, <1>2, <1>4, <2>1, <2>2 DEF Served
<1>5. QED
  BY <1>3, <1>4 DEF FrailMoves

\* A step that touches one zone can make no other one frail.
LEMMA OtherZones ==
    ASSUME TypeOK, NEW z \in Zone,
           \A x \in Zone \ {z} : memOwner'[x] = memOwner[x] /\ dbOwner'[x] = dbOwner[x],
           \A s \in Slot \ SlotsOf(z) : memRec'[s] = memRec[s] /\ dbRec'[s] = dbRec[s]
    PROVE  Frail' \subseteq Frail \cup {z}
<1> SUFFICES ASSUME NEW x \in Zone, x # z, IsFrail(x)'
             PROVE  IsFrail(x)
  BY DEF Frail
<1>1. \A s \in SlotsOf(x) : memRec'[s] = memRec[s] /\ dbRec'[s] = dbRec[s]
  BY DEF SlotsOf
<1>2. memOwner'[x] = memOwner[x] /\ dbOwner'[x] = dbOwner[x]
  OBVIOUS
<1>3. SlotsOf(x)' = SlotsOf(x)
  BY DEF SlotsOf
<1>4. QED
  BY <1>1, <1>2, <1>3 DEF IsFrail

LEMMA ServedInit == Init => Served
<1> SUFFICES ASSUME Init PROVE Served
  OBVIOUS
<1>1. Frail = {}
  BY SeedAssumption, ValuesAssumption, UsersAssumption
     DEF Init, Frail, IsFrail, SlotsOf, SeedZones, Slot
<1>2. QED
  BY <1>1, TypeInit, FS_EmptySet DEF Served, Init

LEMMA ServedStep ==
    ASSUME Served, [Next]_vars
    PROVE  Served'
<1>t. TypeOK /\ TypeOK'
  BY TypeStep DEF Served
<1> SUFFICES FrailMoves
  BY <1>t, ServedMoves
<1>1. ASSUME NEW u \in User, NEW s \in Slot, NEW r \in Rec, AddRecord(u, s, r)
      PROVE  FrailMoves
  <2> DEFINE z == s[1]
             owner == OwnerAfter(u, z)
  <2>1. z \in Zone /\ owner # NoUser
    BY UsersAssumption DEF Slot, Hosted, OwnerAfter
  <2>2. /\ memOwner' = [memOwner EXCEPT ![z] = owner]
        /\ memRec' = [memRec EXCEPT ![s] = r]
        /\ dbOwner' \in {dbOwner, [dbOwner EXCEPT ![z] = owner]}
        /\ dbRec' \in {dbRec, [dbRec EXCEPT ![s] = Row(r)]}
    BY <1>1, <2>1, <1>t DEF AddRecord, InsertZone
  <2>3. Frail' \subseteq Frail \cup {z}
    <3>1. \A x \in Zone \ {z} : memOwner'[x] = memOwner[x] /\ dbOwner'[x] = dbOwner[x]
      BY <2>2, <1>t DEF TypeOK
    <3>2. \A x \in Slot \ SlotsOf(z) : memRec'[x] = memRec[x] /\ dbRec'[x] = dbRec[x]
      BY <2>2, <1>t DEF TypeOK, SlotsOf
    <3>3. QED
      BY <2>1, <3>1, <3>2, <1>t, OtherZones
  <2>4. CASE TxCommits /\ dbRec' = [dbRec EXCEPT ![s] = Row(r)] /\ InsertZone(z, owner)
    <3>1. dbOwner'[z] # NoUser /\ dbRec'[s] # NoRec
      BY <2>1, <2>4, <1>t, RowType DEF InsertZone, TypeOK
    <3>2. ASSUME IsFrail(z)' PROVE IsFrail(z)
      <4>1. s \in SlotsOf(z)
        BY DEF SlotsOf
      <4>2. PICK x \in SlotsOf(z) : memRec'[x] # NoRec /\ dbRec'[x] = NoRec
        BY <3>1, <3>2, <4>1 DEF IsFrail, SlotsOf
      <4>3. memRec[x] # NoRec /\ dbRec[x] = NoRec
        BY <2>2, <2>4, <3>1, <4>2, <1>t DEF TypeOK, SlotsOf
      <4>4. QED
        BY <4>2, <4>3 DEF IsFrail
    <3>3. Frail' \subseteq Frail
      BY <2>1, <2>3, <3>2 DEF Frail
    <3>4. QED
      BY <2>4, <3>3 DEF FrailMoves, TxCommits
  <2>5. CASE TxFails
    BY <2>1, <2>3, <2>5 DEF FrailMoves, TxFails
  <2>6. QED
    BY <1>1, <2>4, <2>5 DEF AddRecord
<1>2. ASSUME NEW u \in User, NEW s \in Slot, DeleteRecord(u, s)
      PROVE  FrailMoves
  <2> DEFINE z == s[1]
             rec == [memRec EXCEPT ![s] = NoRec]
             last == IsEmpty(rec, z)
  <2>1. z \in Zone /\ s \in SlotsOf(z) /\ memOwner[z] # NoUser
    BY <1>2 DEF Slot, SlotsOf, DeleteRecord, Hosted
  <2>2. memRec' = rec
    BY <1>2 DEF DeleteRecord
  <2>3. Frail' \subseteq Frail \cup {z}
    <3>1. \A x \in Zone \ {z} : memOwner'[x] = memOwner[x] /\ dbOwner'[x] = dbOwner[x]
      BY <1>2, <1>t DEF DeleteRecord, TypeOK
    <3>2. \A x \in Slot \ SlotsOf(z) : memRec'[x] = memRec[x] /\ dbRec'[x] = dbRec[x]
      BY <1>2, <2>1, <1>t DEF DeleteRecord, TypeOK, SlotsOf
    <3>3. QED
      BY <2>1, <3>1, <3>2, <1>t, OtherZones
  <2>4. ASSUME faults' \in {faults, faults + 1}, IsFrail(z)' => IsFrail(z)
        PROVE  FrailMoves
    BY <2>1, <2>3, <2>4 DEF Frail, FrailMoves
  <2>5. CASE /\ TxCommits
             /\ last
             /\ memOwner' = [memOwner EXCEPT ![z] = NoUser]
             /\ dbOwner' = [dbOwner EXCEPT ![z] = NoUser]
    <3>1. memOwner'[z] = NoUser /\ dbOwner'[z] = NoUser
      BY <2>1, <2>5, <1>t DEF TypeOK
    <3>2. \A x \in SlotsOf(z) : memRec'[x] = NoRec
      BY <2>2, <2>5 DEF IsEmpty
    <3>3. ~ IsFrail(z)'
      BY <3>1, <3>2 DEF IsFrail, SlotsOf
    <3>4. QED
      BY <2>4, <2>5, <3>3 DEF TxCommits
  <2>6. CASE /\ TxCommits
             /\ ~ last
             /\ dbRec' = [dbRec EXCEPT ![s] = NoRec]
             /\ UNCHANGED <<memOwner, dbOwner>>
    <3>1. PICK y \in SlotsOf(z) : rec[y] # NoRec
      BY <2>6 DEF IsEmpty
    <3>2. y # s /\ memRec[y] # NoRec
      BY <3>1, <1>t DEF TypeOK, SlotsOf
    <3>3. ASSUME IsFrail(z)' PROVE IsFrail(z)
      <4>1. CASE \A x \in SlotsOf(z) : dbRec'[x] = NoRec
        <5>1. dbRec[y] = NoRec
          BY <2>6, <3>1, <3>2, <4>1, <1>t DEF TypeOK, SlotsOf
        <5>2. QED
          BY <3>1, <3>2, <5>1 DEF IsFrail
      <4>2. CASE memOwner'[z] # NoUser /\ dbOwner'[z] = NoUser
        BY <2>6, <4>2 DEF IsFrail
      <4>3. ASSUME NEW x \in SlotsOf(z), memRec'[x] # NoRec, dbRec'[x] = NoRec
            PROVE  IsFrail(z)
        <5>1. x # s
          BY <2>2, <4>3, <1>t DEF TypeOK, SlotsOf
        <5>2. memRec[x] # NoRec /\ dbRec[x] = NoRec
          BY <2>2, <2>6, <4>3, <5>1, <1>t DEF TypeOK, SlotsOf
        <5>3. QED
          BY <4>3, <5>2 DEF IsFrail
      <4>4. QED
        BY <3>3, <4>1, <4>2, <4>3 DEF IsFrail, SlotsOf
    <3>4. QED
      BY <2>4, <2>6, <3>3 DEF TxCommits
  <2>7. CASE /\ faults' \in {faults, faults + 1}
             /\ UNCHANGED <<memOwner, dbOwner, dbRec>>
    <3>1. \A x \in SlotsOf(z) : memRec'[x] # NoRec => memRec[x] # NoRec
      BY <2>2, <1>t DEF TypeOK, SlotsOf
    <3>2. IsFrail(z)' => IsFrail(z)
      BY <2>7, <3>1 DEF IsFrail, SlotsOf
    <3>3. QED
      BY <2>4, <2>7, <3>2
  <2>8. CASE TxFails
    BY <2>1, <2>3, <2>8 DEF FrailMoves, TxFails
  <2>9. QED
    BY <1>2, <2>5, <2>6, <2>7, <2>8 DEF DeleteRecord, TxCommits
<1>3. ASSUME NEW z \in Hosted, NEW S \in SUBSET SlotsOf(z), NEW W, NEW D,
             NEW Loose \in SUBSET S, Matching(S, W, D), WriteBoth(z, S, W, D, Loose)
      PROVE  FrailMoves
  <2>1. z \in Zone /\ memOwner[z] # NoUser
    BY DEF Hosted
  <2>2. UNCHANGED <<memOwner, dbOwner>>
    BY <1>3 DEF WriteBoth
  <2>3. Frail' \subseteq Frail \cup {z}
    <3>1. \A x \in Slot \ SlotsOf(z) : memRec'[x] = memRec[x] /\ dbRec'[x] = dbRec[x]
      BY <1>3, <1>t DEF WriteBoth, TypeOK
    <3>2. QED
      BY <2>1, <2>2, <3>1, <1>t, OtherZones
  <2>4. CASE dbOwner[z] = NoUser
    <3>1. IsFrail(z)
      BY <2>1, <2>4 DEF IsFrail
    <3>2. Frail' \subseteq Frail
      BY <2>1, <2>3, <3>1 DEF Frail
    <3>3. QED
      BY <1>3, <3>2 DEF FrailMoves, WriteBoth, TxFails, TxCommits
  <2>5. CASE TxFails
    BY <2>1, <2>3, <2>5 DEF FrailMoves, TxFails
  <2>6. CASE /\ TxCommits
             /\ dbOwner[z] # NoUser
             /\ dbRec' = [s \in Slot |-> IF s \in S THEN D[s] ELSE dbRec[s]]
    <3>1. \A x \in SlotsOf(z) : dbRec'[x] = NoRec => x \notin S /\ dbRec[x] = NoRec
      BY <2>6, ValuesAssumption, <1>3 DEF SlotsOf, Matching
    <3>2. \A x \in SlotsOf(z) : x \notin S => memRec'[x] = memRec[x]
      BY <1>3 DEF WriteBoth, SlotsOf
    <3>3. IsFrail(z)' => IsFrail(z)
      BY <2>2, <2>6, <3>1, <3>2 DEF IsFrail, SlotsOf
    <3>4. QED
      BY <2>1, <2>3, <2>6, <3>3 DEF Frail, FrailMoves, TxCommits
  <2>7. QED
    BY <1>3, <2>4, <2>5, <2>6 DEF WriteBoth
<1>4. ASSUME NEW t \in Token, NEW v \in DynVals, UpdateDDNS(t, v)
      PROVE  FrailMoves
  BY <1>4, <1>t, <1>3, UpdateDDNSWrites
<1>5. ASSUME NEW n \in Name, NEW best \in [CFLine -> DynVals], SyncCloudflareBestIPs(n, best)
      PROVE  FrailMoves
  BY <1>5, <1>t, <1>3, SyncWrites
<1>6. ASSUME faults' \in {faults, faults + 1}, UNCHANGED <<memOwner, memRec, dbOwner, dbRec>>
      PROVE  FrailMoves
  BY <1>6 DEF FrailMoves, Frail, IsFrail, SlotsOf
<1>7. ASSUME NEW u \in User, NEW n \in Name, NEW l \in Line, NEW t \in Token,
             GenerateDDNSToken(u, n, l, t)
      PROVE  FrailMoves
  BY <1>6, <1>7 DEF GenerateDDNSToken, TxFails, TxCommits
<1>8. ASSUME NEW u \in User, NEW t \in Token, DeleteDDNSToken(u, t)
      PROVE  FrailMoves
  BY <1>6, <1>8 DEF DeleteDDNSToken, TxFails, TxCommits
<1>9. CASE SaveTokens
  BY <1>6, <1>9 DEF SaveTokens, mem, TxFails, TxCommits
<1>10. ASSUME faults' \in {faults, faults + 1}, UNCHANGED <<dbOwner, dbRec>>,
              \A z \in Zone : memOwner'[z] \in {dbOwner[z], NoUser},
              \A s \in Slot : memRec'[s] \in {dbRec[s], NoRec}
       PROVE  FrailMoves
  <2>1. \A z \in Zone : IsFrail(z)' => IsFrail(z)
    BY <1>10 DEF IsFrail, SlotsOf
  <2>2. QED
    BY <1>10, <2>1 DEF FrailMoves, Frail
<1>11. CASE Restart
  BY <1>10, <1>11 DEF Restart, db
<1>12. ASSUME NEW Z \in SUBSET DiskZones, NEW S \in SUBSET DiskSlots,
              NEW T \in SUBSET DiskToks, RestartCut(Z, S, T)
       PROVE  FrailMoves
  BY <1>10, <1>12 DEF RestartCut, db, TxFails
<1>13. CASE UNCHANGED vars
  BY <1>6, <1>13 DEF vars, mem, db
<1>14. QED
  BY <1>1, <1>2, <1>4, <1>5, <1>7, <1>8, <1>9, <1>11, <1>12, <1>13 DEF Next

\* No more zone rows are without a record than there were failures.
THEOREM EveryZoneServed == Spec => []ZonesServed
<1>1. Init => Served
  BY ServedInit
<1>2. Served /\ [Next]_vars => Served'
  BY ServedStep
<1>3. Served => ZonesServed
  <2> SUFFICES ASSUME Served PROVE ZonesServed
    OBVIOUS
  <2>1. Bare \subseteq Frail /\ Frail \in SUBSET Zone /\ Bare \in SUBSET Zone
    BY DEF Bare, DiskZones, Frail, IsFrail
  <2>2. /\ Cardinality(Bare) <= Cardinality(Frail)
        /\ Cardinality(Bare) \in Nat /\ Cardinality(Frail) \in Nat
    BY <2>1, ZoneSets, FS_Subset
  <2>3. faults \in Nat
    BY UsersAssumption DEF Served, TypeOK
  <2>4. QED
    BY <2>2, <2>3 DEF Served, ZonesServed
<1>4. QED
  BY <1>1, <1>2, <1>3, PTL DEF Spec
=============================================================================
