------------------------ MODULE RecordStoreRefinement ------------------------
(***************************************************************************)
(* RecordStore keeps the promise of ZoneRegistry when nothing fails.       *)
(***************************************************************************)
EXTENDS RecordStoreProofs

\* The code's scan for a zone above a name, and its owner check, are the
\* registry's.
LEMMA SameNames ==
    ASSUME TypeOK
    PROVE  /\ \A n : Registry!Above(n) = Matches(n)
           /\ \A u, z : Registry!MayEdit(u, z) = MayEdit(u, z)
           /\ Registry!Slot = Slot
BY DEF Registry!Above, Matches, Hosted, Registry!MayEdit, MayEdit, Registry!Slot, Slot

\* The registry counts with the same operator.
LEMMA SameCardinality == \A S : Registry!Cardinality(S) = Cardinality(S)
BY DEF Registry!Cardinality, Registry!IsFiniteSet, Cardinality, IsFiniteSet

LEMMA RefineInit == Init => Registry!Init
<1> SUFFICES ASSUME Init PROVE Registry!Init
  OBVIOUS
<1>1. memOwner = [z \in Zone |-> IF z \in {s[1] : s \in Seed} THEN Root ELSE NoUser]
  BY DEF Init, SeedZones
<1>2. ShownRec = [s \in Slot |-> IF s \in Seed THEN SeedRec.vals ELSE NoRec]
  BY SeedAssumption, ValuesAssumption DEF Init, ShownRec, Shown
<1>3. QED
  BY <1>1, <1>2 DEF Registry!Init, Registry!Slot, Slot, Init

\* Every step of the store is a step of the registry or leaves it unchanged.
LEMMA RefineStep ==
    ASSUME MaxFaults = 0, Sound, [Next]_vars
    PROVE  [Registry!Next]_(Registry!vars)
<1>a. TypeOK /\ Agreement
  BY DEF Sound, Agreement
<1>b. faults = 0 /\ ~ TxFails
  BY <1>a DEF TypeOK, TxFails
<1>c. /\ memOwner = dbOwner
      /\ memTok = dbTok
      /\ \A s \in Slot : /\ memRec[s] = NoRec <=> dbRec[s] = NoRec
                         /\ memRec[s] # NoRec => dbRec[s].vals = Stored[memRec[s].vals]
  <2>1. staleZone = {} /\ staleSlot = {} /\ staleTok = {}
    BY <1>b DEF Sound, NothingLost
  <2>2. QED
    BY <2>1, <1>a DEF Agreement, SlotsAgree, ZonesAgree, TokensAgree, TypeOK
<1>1. ASSUME NEW u \in User, NEW s \in Slot, NEW r \in Rec, AddRecord(u, s, r)
      PROVE  Registry!Next
  <2>1. s[1] \in Zone /\ r.vals \in Vals /\ r # NoRec
    BY RowType DEF Slot, Rec
  <2>2. memRec' = [memRec EXCEPT ![s] = r] /\ memTok' = memTok /\ MayAdd(u, s[1])
    BY <1>1 DEF AddRecord, OwnerAfter, InsertZone
  <2>3. ShownRec' = [ShownRec EXCEPT ![s] = Stored[r.vals]]
    BY <2>1, <2>2, <1>a DEF ShownRec, Shown, TypeOK
  <2>4. CASE s[1] \in Hosted
    <3>1. memOwner' = memOwner
      BY <1>1, <2>4, <1>a DEF AddRecord, OwnerAfter, InsertZone, TypeOK
    <3>2. Registry!Write(u, s, r.vals)
      BY <3>1, <2>2, <2>3, <2>4, SameNames, <1>a
         DEF Registry!Write, MayAdd, Hosted
    <3>3. QED
      BY <3>2, <2>1, SameNames, <1>a DEF Registry!Next
  <2>5. CASE s[1] \notin Hosted
    <3>1. memOwner' = [memOwner EXCEPT ![s[1]] = u] /\ memOwner[s[1]] = NoUser
      BY <1>1, <2>1, <2>5 DEF AddRecord, OwnerAfter, InsertZone, Hosted
    <3>2. Registry!Cardinality(Registry!Owned(u)) < Limit[u]
      BY <2>2, <2>5, <1>c, SameCardinality DEF MayAdd, CountOnDisk, Registry!Owned
    <3>3. Registry!Host(u, s, r.vals)
      BY <3>1, <3>2, <2>2, <2>3 DEF Registry!Host
    <3>4. QED
      BY <3>3, <2>1, SameNames, <1>a DEF Registry!Next
  <2>6. QED
    BY <2>4, <2>5
<1>2. ASSUME NEW u \in User, NEW s \in Slot, DeleteRecord(u, s)
      PROVE  Registry!Next
  <2> DEFINE rec == [memRec EXCEPT ![s] = NoRec]
             left == [ShownRec EXCEPT ![s] = NoRec]
  <2>1. s[1] \in Zone
    BY DEF Slot
  <2>2. memRec' = rec /\ memTok' = memTok /\ s[1] \in Hosted /\ MayEdit(u, s[1])
    BY <1>2 DEF DeleteRecord
  <2>3. ShownRec' = left
    BY <2>2, <1>a DEF ShownRec, Shown, TypeOK
  <2>4. \A x \in Slot : left[x] = NoRec <=> rec[x] = NoRec
    <3>1. \A v \in Vals : Stored[v] \in Vals
      BY ValuesAssumption
    <3>2. \A x \in Slot : memRec[x] # NoRec => Stored[memRec[x].vals] # NoRec
      BY <1>c, <1>a, <3>1, ValuesAssumption DEF TypeOK, Rec
    <3>3. QED
      BY <3>2, <1>a DEF ShownRec, Shown, TypeOK
  <2>5. IsEmpty(rec, s[1]) <=> \A x \in Slot : x[1] = s[1] => left[x] = NoRec
    BY <2>4 DEF IsEmpty, SlotsOf
  <2>6. memOwner' = IF IsEmpty(rec, s[1]) THEN [memOwner EXCEPT ![s[1]] = NoUser] ELSE memOwner
    BY <1>2, <1>b, <1>c, <2>2 DEF DeleteRecord, Hosted
  <2>7. Registry!Erase(u, s)
    BY <2>2, <2>3, <2>5, <2>6, SameNames, <1>a DEF Registry!Erase, Hosted
  <2>8. QED
    BY <2>7, SameNames, <1>a DEF Registry!Next
<1>3. ASSUME NEW t \in Token, NEW v \in DynVals, UpdateDDNS(t, v)
      PROVE  Registry!Next
  <2>1. PICK z \in Matches(memTok[t][1]) :
          LET s == <<z, KeyIn[<<memTok[t][1], z>>], memTok[t][2]>>
              ttl == IF memRec[s] = NoRec THEN 60 ELSE memRec[s].ttl
          IN  WriteBoth(z, {s}, [x \in {s} |-> [vals |-> v, ttl |-> ttl]],
                                [x \in {s} |-> [vals |-> v, ttl |-> 60]], {})
    BY <1>3 DEF UpdateDDNS
  <2> DEFINE s == <<z, KeyIn[<<memTok[t][1], z>>], memTok[t][2]>>
             ttl == IF memRec[s] = NoRec THEN 60 ELSE memRec[s].ttl
             new == [vals |-> v, ttl |-> ttl]
  <2>2. memTok[t] # NoTarget /\ memTok[t][2] \notin Province /\ memTok[t] \in Target
    BY <1>3, <1>a DEF UpdateDDNS, TypeOK
  <2>3. s \in Slot /\ z \in Zone
    BY <2>2, NamedSlot DEF Target, Matches, Hosted
  <2>4. ttl \in TTLs
    BY <2>3, <1>a, ValuesAssumption DEF TypeOK, Rec
  <2>5. new \in Rec /\ new # NoRec
    BY <2>4, DynamicRecord, RowType
  <2>6. /\ memRec' = [x \in Slot |-> IF x \in {s} THEN new ELSE memRec[x]]
        /\ UNCHANGED <<memOwner, memTok>>
    BY <2>1 DEF WriteBoth
  <2>7. ShownRec' = [ShownRec EXCEPT ![s] = v]
    BY <2>3, <2>5, <2>6, ValuesAssumption DEF ShownRec, Shown
  <2>8. Registry!Dynamic(t, z, v)
    BY <2>2, <2>6, <2>7, SameNames, <1>a DEF Registry!Dynamic
  <2>9. QED
    BY <2>8, <2>3 DEF Registry!Next
<1>4. ASSUME NEW n \in Name, NEW best \in [CFLine -> DynVals], SyncCloudflareBestIPs(n, best)
      PROVE  Registry!Next
  <2>1. PICK z \in Matches(n) :
          LET S == {<<z, KeyIn[<<n, z>>], l>> : l \in CFLine}
              W == [s \in S |-> [vals |-> best[s[3]], ttl |-> 60]]
          IN  WriteBoth(z, S, W, W, S)
    BY <1>4 DEF SyncCloudflareBestIPs
  <2> DEFINE S == {<<z, KeyIn[<<n, z>>], l>> : l \in CFLine}
             W == [s \in S |-> [vals |-> best[s[3]], ttl |-> 60]]
  <2>2. z \in Zone
    BY DEF Matches, Hosted
  <2>3. \A s \in Slot : s \in S <=> s[1] = z /\ s[2] = KeyIn[<<n, z>>] /\ s[3] \in CFLine
    BY DEF Slot
  <2>4. \A s \in S : /\ W[s].vals = best[s[3]] /\ W[s] # NoRec
                     /\ Stored[W[s].vals] = best[s[3]]
    <3>1. \A s \in S : best[s[3]] \in DynVals
      OBVIOUS
    <3>2. QED
      BY <3>1, DynamicRecord, ValuesAssumption
  <2>5. memRec' = [s \in Slot |-> IF s \in S THEN W[s] ELSE memRec[s]]
        /\ UNCHANGED <<memOwner, memTok>>
    BY <2>1 DEF WriteBoth
  <2> HIDE DEF W
  <2>6. ShownRec' = [s \in Slot |-> IF s \in S THEN best[s[3]] ELSE ShownRec[s]]
    BY <2>4, <2>5 DEF ShownRec, Shown
  <2>7. ShownRec' = [s \in Slot |-> IF s[1] = z /\ s[2] = KeyIn[<<n, z>>] /\ s[3] \in CFLine
                                      THEN best[s[3]] ELSE ShownRec[s]]
    BY <2>3, <2>6
  <2>8. Registry!Sync(n, z, best)
    BY <2>5, <2>7, SameNames, <1>a DEF Registry!Sync
  <2>9. QED
    BY <2>8, <2>2 DEF Registry!Next
<1>5. ASSUME NEW u \in User, NEW n \in Name, NEW l \in Line, NEW t \in Token,
             GenerateDDNSToken(u, n, l, t)
      PROVE  Registry!Next
  <2>1. Registry!Issue(u, n, l, t)
    BY <1>5, SameNames, <1>a DEF GenerateDDNSToken, Registry!Issue, ShownRec
  <2>2. QED
    BY <2>1 DEF Registry!Next
<1>6. ASSUME NEW u \in User, NEW t \in Token, DeleteDDNSToken(u, t)
      PROVE  Registry!Next
  <2>1. Registry!Revoke(u, t)
    BY <1>6, SameNames, <1>a DEF DeleteDDNSToken, Registry!Revoke, ShownRec
  <2>2. QED
    BY <2>1 DEF Registry!Next
<1>7. CASE SaveTokens
  BY <1>7, <1>b DEF SaveTokens, mem, ShownRec, Registry!vars
<1>8. CASE Restart
  <2>1. ShownRec' = ShownRec
    BY <1>8, <1>a, <1>c DEF Restart, ShownRec, Shown, Agreement, RowsSound
  <2>2. memOwner' = memOwner /\ memTok' = memTok
    BY <1>8, <1>c DEF Restart
  <2>3. QED
    BY <2>1, <2>2 DEF Registry!vars
<1>9. ASSUME NEW Z \in SUBSET DiskZones, NEW S \in SUBSET DiskSlots,
             NEW T \in SUBSET DiskToks, RestartCut(Z, S, T)
      PROVE  FALSE
  BY <1>9, <1>b DEF RestartCut
<1>10. CASE UNCHANGED vars
  BY <1>10 DEF vars, mem, ShownRec, Registry!vars
<1>11. QED
  BY <1>1, <1>2, <1>3, <1>4, <1>5, <1>6, <1>7, <1>8, <1>9, <1>10 DEF Next

\* A store whose transactions and loads succeed is the durable registry of
\* ZoneRegistry: its restarts and its reloaded lists show no difference.
THEOREM StoreImplementsRegistry ==
    ASSUME MaxFaults = 0
    PROVE  Spec => Implements
<1>1. Init => Registry!Init /\ Sound
  BY RefineInit, SoundInit
<1>2. Sound /\ [Next]_vars => Sound'
  BY SoundStep
<1>3. Sound /\ [Next]_vars => [Registry!Next]_(Registry!vars)
  BY RefineStep
<1>4. QED
  BY <1>1, <1>2, <1>3, PTL DEF Spec, Implements, Registry!Spec
=============================================================================
