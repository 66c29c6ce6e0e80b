--------------------------- MODULE FailoverProofs ---------------------------
(***************************************************************************)
(* Theorems about Failover, for every value of its constants.              *)
(***************************************************************************)
EXTENDS Failover, FiniteSetTheorems, SequenceTheorems, TLAPS

Rec == [line : Line, vals : SUBSET IP]

OnePerLine(s) == \A i, j \in DOMAIN s : s[i].line = s[j].line => i = j

\* A record put into the list replaces the one of its line, or is the last.
LEMMA MergedIsList ==
    ASSUME recs \in Seq(Rec), OnePerLine(recs), NEW r \in Rec
    PROVE  Merged(r) \in Seq(Rec) /\ OnePerLine(Merged(r))
<1>1. CASE \E i \in DOMAIN recs : recs[i].line = r.line
  <2>1. Merged(r) = [i \in DOMAIN recs |-> IF recs[i].line = r.line THEN r ELSE recs[i]]
    BY <1>1 DEF Merged
  <2>. QED
    BY <2>1 DEF OnePerLine, Rec
<1>2. CASE ~ \E i \in DOMAIN recs : recs[i].line = r.line
  <2>1. Merged(r) = Append(recs, r)
    BY <1>2 DEF Merged
  <2>. QED
    BY <1>2, <2>1 DEF OnePerLine, Rec
<1>. QED
  BY <1>1, <1>2

\* A list without one of its records.
LEMMA RemovedIsList ==
    ASSUME recs \in Seq(Rec), OnePerLine(recs), NEW i \in DOMAIN recs
    PROVE  RemoveAt(recs, i) \in Seq(Rec) /\ OnePerLine(RemoveAt(recs, i))
<1> DEFINE n == Len(recs)
           front == SubSeq(recs, 1, i - 1)
           back == SubSeq(recs, i + 1, n)
           t == front \o back
<1>1. n \in Nat /\ i \in 1..n /\ \A j \in 1..n : recs[j] \in Rec
  OBVIOUS
<1>2. /\ front \in Seq(Rec) /\ Len(front) = i - 1
      /\ \A j \in 1..(i - 1) : front[j] = recs[j]
  BY <1>1, SubSeqProperties
<1>3. /\ back \in Seq(Rec) /\ Len(back) = n - i
      /\ \A j \in 1..(n - i) : back[j] = recs[i + j]
  BY <1>1, SubSeqProperties
<1> HIDE DEF front, back
<1>4. t \in Seq(Rec) /\ Len(t) = n - 1
  BY <1>1, <1>2, <1>3
<1>5. \A j \in 1..(n - 1) : t[j] = IF j < i THEN recs[j] ELSE recs[j + 1]
  BY <1>1, <1>2, <1>3
<1>6. DOMAIN t = 1..(n - 1)
  BY <1>4
<1>7. RemoveAt(recs, i) = t
  BY DEF RemoveAt, front, back
<1> HIDE DEF t
<1>8. OnePerLine(t)
  <2> SUFFICES ASSUME NEW j \in 1..(n - 1), NEW k \in 1..(n - 1), t[j].line = t[k].line
               PROVE  j = k
    BY <1>6 DEF OnePerLine
  <2>. QED
    BY <1>1, <1>5 DEF OnePerLine
<1>. QED
  BY <1>4, <1>7, <1>8

\* A reload finds the records in any order, each of them once: there are as many
\* places as records.
LEMMA ReorderedIsList ==
    ASSUME recs \in Seq(Rec), OnePerLine(recs),
           NEW new \in [DOMAIN recs -> {recs[i] : i \in DOMAIN recs}],
           \A i \in DOMAIN recs : \E j \in DOMAIN recs : new[j] = recs[i]
    PROVE  new \in Seq(Rec) /\ OnePerLine(new)
<1> DEFINE S == DOMAIN recs
           T == {recs[i] : i \in DOMAIN recs}
<1>1. S = 1..Len(recs) /\ Len(recs) \in Nat /\ T \subseteq Rec
  OBVIOUS
<1>2. new \in Seq(Rec)
  <2>1. new \in [1..Len(recs) -> Rec]
    BY <1>1
  <2>. QED
    BY <1>1, <2>1
<1>3. IsFiniteSet(S)
  BY <1>1, FS_Interval
<1>4. [i \in S |-> recs[i]] \in Bijection(S, T)
  BY DEF Bijection, Injection, Surjection, IsInjective, OnePerLine
<1>5. IsFiniteSet(T) /\ Cardinality(T) = Cardinality(S)
  BY <1>3, <1>4, FS_Bijection DEF ExistsBijection
<1>6. new \in Surjection(S, T)
  BY DEF Surjection
<1>7. new \in Injection(S, T)
  BY <1>3, <1>5, <1>6, FS_SurjSameCardinalityImpliesInj
<1>8. ASSUME NEW x \in T, NEW y \in T, x.line = y.line
      PROVE  x = y
  <2>1. PICK i, j \in S : x = recs[i] /\ y = recs[j]
    OBVIOUS
  <2>. QED
    BY <1>8, <2>1 DEF OnePerLine
<1>9. \A i, j \in S : new[i] = new[j] => i = j
  BY <1>7 DEF Injection, IsInjective
<1>10. DOMAIN new = S /\ \A i \in S : new[i] \in T
  OBVIOUS
<1> HIDE DEF S, T
<1>. QED
  BY <1>2, <1>8, <1>9, <1>10 DEF OnePerLine

(***************************************************************************)
(* Types                                                                   *)
(***************************************************************************)
LEMMA TypeInit == Init => TypeOK
BY DEF Init, TypeOK, Stage

\* Every step keeps the types, and one record a line.
LEMMA TypeStep == TypeOK /\ [Next]_vars => TypeOK'
<1> SUFFICES ASSUME TypeOK, [Next]_vars PROVE TypeOK'
  OBVIOUS
<1>1. recs \in Seq(Rec) /\ OnePerLine(recs)
  BY DEF TypeOK, Rec, OnePerLine
<1>2. SUFFICES /\ recs' \in Seq(Rec) /\ OnePerLine(recs')
               /\ unhealthy' \subseteq IP
               /\ probe' \in [IP -> Stage]
               /\ first' \in BOOLEAN /\ enabled' \in BOOLEAN
               /\ up' \in [IP -> BOOLEAN]
  BY DEF TypeOK, Rec, OnePerLine
<1>3. ASSUME NEW l \in Line, NEW vals \in SUBSET IP, Put(l, vals) PROVE <1>2!1
  <2>1. [line |-> l, vals |-> vals] \in Rec
    BY DEF Rec
  <2>. QED
    BY <1>1, <1>3, <2>1, MergedIsList DEF Put, TypeOK
<1>4. ASSUME NEW l \in Line, Drop(l) PROVE <1>2!1
  BY <1>1, <1>4, RemovedIsList DEF Drop, TypeOK
<1>5. CASE StartRound
  BY <1>1, <1>5 DEF StartRound, TypeOK, Stage
<1>6. CASE Restart
  BY <1>1, <1>6, ReorderedIsList DEF Restart, TypeOK, Stage
<1>7. ASSUME NEW ip \in IP, FirstPass(ip) PROVE <1>2!1
  BY <1>1, <1>7 DEF FirstPass, TypeOK, Stage
<1>8. ASSUME NEW ip \in IP, SecondPass(ip) PROVE <1>2!1
  BY <1>1, <1>8 DEF SecondPass, TypeOK, Stage
<1>9. ASSUME NEW ip \in IP, Verdict(ip) PROVE <1>2!1
  BY <1>1, <1>9 DEF Verdict, Mark, TypeOK, Stage
<1>10. ASSUME NEW ip \in IP, Flip(ip) PROVE <1>2!1
  BY <1>1, <1>10 DEF Flip, TypeOK
<1>11. CASE Toggle
  BY <1>1, <1>11 DEF Toggle, TypeOK
<1>12. CASE UNCHANGED vars
  BY <1>1, <1>12 DEF vars, TypeOK
<1>. QED
  BY <1>3, <1>4, <1>5, <1>6, <1>7, <1>8, <1>9, <1>10, <1>11, <1>12 DEF Next

\* The state of the checker and the list of records keep their types for any
\* number of addresses, lines and records, whatever a reload finds.
THEOREM FailoverTypes == Spec => []TypeOK
<1>. QED
  BY TypeInit, TypeStep, PTL DEF Spec

(***************************************************************************)
(* Answers                                                                 *)
(***************************************************************************)
\* A client's preferences are its line, the operator's if it names one, and the
\* default one.
LEMMA Preferences ==
    ASSUME NEW c \in Client
    PROVE  /\ DOMAIN Prefs(c) \subseteq 1..3
           /\ \A k \in DOMAIN Prefs(c) : Prefs(c)[k] \in {c, Base[c], Def}
           /\ \A l \in {c, Base[c], Def} \ {NoLine} : \E k \in DOMAIN Prefs(c) : Prefs(c)[k] = l
BY FailoverAssumption DEF Prefs

\* The least of up to three numbers is one of them.
LEMMA LeastOfThree ==
    ASSUME NEW S \in SUBSET (1..3), S # {}
    PROVE  Min(S) \in S
<1>1. \E x \in S : \A y \in S : x <= y
  <2>1. CASE 1 \in S
    BY <2>1
  <2>2. CASE 1 \notin S /\ 2 \in S
    BY <2>2
  <2>3. CASE 1 \notin S /\ 2 \notin S
    <3>1. \A y \in S : y = 3
      BY <2>3
    <3>2. PICK x \in S : TRUE
      OBVIOUS
    <3>. QED
      BY <3>1, <3>2
  <2>. QED
    BY <2>1, <2>2, <2>3
<1>. QED
  BY <1>1 DEF Min

\* A line has one record at most, so one is usable at most.
LEMMA UsableRecord ==
    ASSUME TypeOK, NEW l, Usable(l) # {}
    PROVE  Min(Usable(l)) \in Usable(l)
<1>1. PICK i \in Usable(l) : TRUE
  OBVIOUS
<1>2. Usable(l) = {i}
  BY DEF Usable, TypeOK
<1>3. i \in Nat
  BY DEF Usable, TypeOK
<1>. QED
  BY <1>2, <1>3 DEF Min

\* With a usable record on one of the client's lines, the answer is what is
\* healthy of such a record; without one it is the first record.
LEMMA LookupAnswers ==
    ASSUME TypeOK, NEW c \in Client
    PROVE  \/ \E l \in {c, Base[c], Def} : \E i \in Usable(l) :
                Lookup(c) = FilterHealthyIPs(recs[i].vals)
           \/ /\ \A l \in {c, Base[c], Def} : Usable(l) = {}
              /\ Lookup(c) = Fallback
<1> DEFINE hits == {k \in DOMAIN Prefs(c) : Usable(Prefs(c)[k]) # {}}
           l0 == Prefs(c)[Min(hits)]
<1>1. Lookup(c) = IF hits = {} THEN Fallback
                  ELSE FilterHealthyIPs(recs[Min(Usable(l0))].vals)
  BY DEF Lookup
<1>2. CASE hits # {}
  <2>1. Min(hits) \in hits
    BY <1>2, Preferences, LeastOfThree
  <2>2. l0 \in {c, Base[c], Def} /\ Usable(l0) # {}
    BY <2>1, Preferences
  <2>3. Min(Usable(l0)) \in Usable(l0)
    BY <2>2, UsableRecord
  <2>4. Lookup(c) = FilterHealthyIPs(recs[Min(Usable(l0))].vals)
    BY <1>1, <1>2
  <2> HIDE DEF l0
  <2>. QED
    BY <2>2, <2>3, <2>4
<1>3. CASE hits = {}
  <2>1. Usable(NoLine) = {}
    <3>1. recs \in Seq(Rec)
      BY DEF TypeOK, Rec
    <3>2. \A i \in DOMAIN recs : recs[i] \in Rec
      BY <3>1
    <3>. QED
      BY <3>2, FailoverAssumption DEF Usable, Rec
  <2>2. \A l \in {c, Base[c], Def} : Usable(l) = {}
    BY <1>3, <2>1, Preferences
  <2>. QED
    BY <1>1, <1>3, <2>2
<1>. QED
  BY <1>2, <1>3

\* In a state with sound types the answers are healthy ones of the client's
\* lines while there are any.
LEMMA Healthy == TypeOK => AnswersHealthy
<1> SUFFICES ASSUME TypeOK, NEW c \in Client,
                    UNION {recs[i].vals \ unhealthy :
                             i \in {j \in DOMAIN recs : recs[j].line \in {c, Base[c], Def}}} # {}
             PROVE  /\ Lookup(c) # {}
                    /\ Lookup(c) \subseteq
                         UNION {recs[i].vals \ unhealthy :
                             i \in {j \in DOMAIN recs : recs[j].line \in {c, Base[c], Def}}}
  BY DEF AnswersHealthy
<1>1. PICK i \in DOMAIN recs : /\ recs[i].line \in {c, Base[c], Def}
                               /\ recs[i].vals \ unhealthy # {}
  OBVIOUS
<1>2. i \in Usable(recs[i].line)
  BY <1>1 DEF Usable, FilterHealthyIPs
<1>3. PICK l \in {c, Base[c], Def} : \E j \in Usable(l) :
        Lookup(c) = FilterHealthyIPs(recs[j].vals)
  BY <1>1, <1>2, LookupAnswers
<1>4. PICK j \in Usable(l) : Lookup(c) = FilterHealthyIPs(recs[j].vals)
  BY <1>3
<1>. QED
  BY <1>4 DEF Usable, FilterHealthyIPs

\* An answer holds configured addresses only, and there is one while the first
\* record has any.
LEMMA Configures == TypeOK => AnswersConfigured
<1> SUFFICES ASSUME TypeOK, NEW c \in Client
             PROVE  /\ Lookup(c) \subseteq Configured
                    /\ recs # <<>> /\ recs[1].vals # {} => Lookup(c) # {}
  BY DEF AnswersConfigured
<1>1. CASE \E l \in {c, Base[c], Def} : \E i \in Usable(l) :
             Lookup(c) = FilterHealthyIPs(recs[i].vals)
  BY <1>1 DEF Usable, FilterHealthyIPs, Configured
<1>2. CASE Lookup(c) = Fallback
  <2>1. recs # <<>> => 1 \in DOMAIN recs
    BY DEF TypeOK
  <2>. QED
    BY <1>2, <2>1 DEF Fallback, Configured
<1>. QED
  BY <1>1, <1>2, LookupAnswers

\* While a client's lines have a healthy address, Lookup gives no dead one and
\* none of another operator, for any table of lines, list of records and verdicts.
THEOREM FailoverAnswersHealthy == Spec => []AnswersHealthy
BY FailoverTypes, Healthy, PTL

\* Answers are configured addresses, and verdicts alone never silence a name
\* whose first record has one.
THEOREM FailoverAnswersConfigured == Spec => []AnswersConfigured
BY FailoverTypes, Configures, PTL
=============================================================================
