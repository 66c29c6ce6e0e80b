---------------------------- MODULE BillingProofs ----------------------------
(***************************************************************************)
(* Theorems about Billing, for every value of its constants.               *)
(***************************************************************************)
EXTENDS Billing, FiniteSetTheorems, WellFoundedInduction, TLAPS

(***************************************************************************)
(* Sums over finite sets                                                   *)
(***************************************************************************)
\* Numbers and finite sets are well founded, so that a least counterexample can
\* take the place of an induction.
LEMMA LeastNumber ==
    ASSUME NEW C \in SUBSET Nat, C # {}
    PROVE  \E n \in C : \A m \in C : n <= m
<1> DEFINE R == OpToRel(<, Nat)
<1>1. \E n \in C : \A m \in C : ~ (<<m, n>> \in R)
  BY NatLessThanWellFounded, WFMin, Zenon
<1>2. \A m, n \in Nat : <<m, n>> \in R <=> m < n
  BY DEF OpToRel
<1> HIDE DEF R
<1>3. PICK n \in C : \A m \in C : ~ (<<m, n>> \in R)
  BY <1>1
<1>4. \A m \in C : ~ (m < n)
  BY <1>2, <1>3, Zenon
<1>. QED
  BY <1>4


LEMMA LeastSet ==
    ASSUME NEW S, IsFiniteSet(S), NEW B \in SUBSET SUBSET S, B # {}
    PROVE  \E T \in B : \A U \in B : U \subseteq T => U = T
<1> DEFINE R == StrictSubsetOrdering(S)
           F == FiniteSubsetsOf(S)
<1>1. B \subseteq F
  BY FS_Subset DEF FiniteSubsetsOf
<1>2. IsWellFoundedOn(R, F)
  BY FS_StrictSubsetOrderingWellFounded
<1>3. \A T, U \in SUBSET S : U \subseteq T /\ U # T => <<U, T>> \in R
  BY DEF StrictSubsetOrdering
<1> HIDE DEF R, F
<1>4. PICK T \in B : \A U \in B : ~ (<<U, T>> \in R)
  BY <1>1, <1>2, WFMin, Zenon
<1>. QED
  BY <1>3, <1>4, Zenon

\* The element a fold takes next.
Some(s) == CHOOSE x \in s : TRUE

\* g adds up f over each set of D, one element at a time.
Adds(g, f, D) ==
    g = [s \in D |-> IF s = {} THEN 0 ELSE f[Some(s)] + g[s \ {Some(s)}]]

LEMMA SomeIn == \A s : s # {} => Some(s) \in s
BY DEF Some

\* The sum of the library is defined by such a function.
LEMMA SumIs ==
    ASSUME NEW f, NEW S
    PROVE  SumFunctionOnSet(f, S) = (CHOOSE g : Adds(g, f, SUBSET S))[S]
BY DEF SumFunctionOnSet, FoldFunctionOnSet, MapThenFoldSet, Adds, Some

\* There is one: it is built up by the number of elements.
LEMMA AddsExists ==
    ASSUME NEW f, NEW S, IsFiniteSet(S)
    PROVE  \E g : Adds(g, f, SUBSET S)
<1> DEFINE Upto(n) == {s \in SUBSET S : Cardinality(s) <= n}
           Bad == {n \in Nat : ~ \E g : Adds(g, f, Upto(n))}
<1>1. \A s \in SUBSET S : IsFiniteSet(s) /\ Cardinality(s) \in Nat /\ Cardinality(s) <= Cardinality(S)
  BY FS_Subset, FS_CardinalityType
<1>2. Cardinality(S) \in Nat
  BY FS_CardinalityType
<1>3. \A s \in SUBSET S : s # {} =>
         /\ s \ {Some(s)} \in SUBSET S
         /\ Cardinality(s \ {Some(s)}) = Cardinality(s) - 1
  BY <1>1, SomeIn, FS_RemoveElement
<1>4. \A s \in SUBSET S : Cardinality(s) = 0 <=> s = {}
  BY <1>1, FS_EmptySet
<1>5. 0 \notin Bad
  <2> DEFINE g == [s \in Upto(0) |-> 0]
  <2>1. Upto(0) = {{}}
    BY <1>1, <1>4
  <2>2. Adds(g, f, Upto(0))
    BY <2>1 DEF Adds
  <2>. QED  BY <2>2
<1>6. ASSUME NEW n \in Nat, n \in Bad, n - 1 \in Nat
      PROVE  n - 1 \in Bad
  <2>1. SUFFICES ASSUME NEW g, Adds(g, f, Upto(n - 1)) PROVE FALSE
    BY <1>6
  <2> DEFINE h == [s \in Upto(n) |-> IF s = {} THEN 0 ELSE f[Some(s)] + g[s \ {Some(s)}]]
  <2>2. \A s \in Upto(n - 1) : s \in Upto(n) /\ h[s] = g[s]
    <3>1. \A s \in Upto(n - 1) : s \in Upto(n)
      BY <1>1
    <3>2. \A s \in Upto(n - 1) : g[s] = IF s = {} THEN 0 ELSE f[Some(s)] + g[s \ {Some(s)}]
      BY <2>1, Zenon DEF Adds
    <3> HIDE DEF Upto
    <3>. QED  BY <3>1, <3>2, Zenon
  <2>3. \A s \in Upto(n) : s # {} => s \ {Some(s)} \in Upto(n - 1)
    BY <1>1, <1>3
  <2>4. \A s \in Upto(n) : s # {} => h[s \ {Some(s)}] = g[s \ {Some(s)}]
    BY <2>2, <2>3
  <2>5. Adds(h, f, Upto(n))
    BY <2>4 DEF Adds
  <2>. QED  BY <2>5, <1>6
<1>7. Bad = {}
  <2> SUFFICES ASSUME Bad # {} PROVE FALSE
    OBVIOUS
  <2> HIDE DEF Bad
  <2>1. Bad \in SUBSET Nat
    BY DEF Bad
  <2>2. PICK n \in Bad : \A m \in Bad : n <= m
    BY <2>1, LeastNumber
  <2>3. n - 1 \in Nat
    BY <2>1, <2>2, <1>5
  <2>. QED
    BY <2>1, <2>2, <2>3, <1>6
<1>8. Upto(Cardinality(S)) = SUBSET S
  BY <1>1
<1>. QED
  BY <1>2, <1>7, <1>8

\* Two of them agree where their summands do.
LEMMA AddsAgree ==
    ASSUME NEW S, IsFiniteSet(S), NEW D, NEW f, NEW g, NEW a, NEW b,
           Adds(a, f, SUBSET S), Adds(b, g, D),
           SUBSET S \subseteq D, \A x \in S : f[x] = g[x]
    PROVE  a[S] = b[S]
<1> DEFINE Bad == {U \in SUBSET S : a[U] # b[U]}
<1>1. SUFFICES ASSUME Bad # {} PROVE FALSE
  OBVIOUS
<1>2. PICK U \in Bad : \A V \in Bad : V \subseteq U => V = U
  <2> HIDE DEF Bad
  <2>1. Bad \in SUBSET SUBSET S
    BY DEF Bad
  <2>. QED  BY <1>1, <2>1, LeastSet
<1>3. U \in SUBSET S /\ U \in D
  OBVIOUS
<1>4. CASE U = {}
  BY <1>2, <1>3, <1>4 DEF Adds
<1>5. CASE U # {}
  <2> DEFINE V == U \ {Some(U)}
  <2>1. Some(U) \in U
    BY <1>5, SomeIn
  <2>2. a[V] = b[V]
    BY <1>2, <1>3, <2>1
  <2>3. a[U] = f[Some(U)] + a[V]
    BY <1>3, <1>5 DEF Adds
  <2>4. b[U] = g[Some(U)] + b[V]
    BY <1>3, <1>5 DEF Adds
  <2>. QED
    BY <1>2, <1>3, <2>1, <2>2, <2>3, <2>4
<1>. QED  BY <1>4, <1>5

\* So the sum satisfies its equation.
LEMMA SumEquation ==
    ASSUME NEW f, NEW S, IsFiniteSet(S)
    PROVE  SumFunctionOnSet(f, S) =
             IF S = {} THEN 0 ELSE f[Some(S)] + SumFunctionOnSet(f, S \ {Some(S)})
<1> DEFINE T == S \ {Some(S)}
           a == CHOOSE g : Adds(g, f, SUBSET S)
           b == CHOOSE g : Adds(g, f, SUBSET T)
<1>1. IsFiniteSet(T)
  BY FS_Subset
<1>2. Adds(a, f, SUBSET S)
  BY AddsExists
<1>3. Adds(b, f, SUBSET T)
  BY <1>1, AddsExists
<1>4. SumFunctionOnSet(f, S) = a[S] /\ SumFunctionOnSet(f, T) = b[T]
  BY SumIs, Zenon
<1> HIDE DEF a, b
<1>5. b[T] = a[T]
  <2>1. SUBSET T \subseteq SUBSET S
    OBVIOUS
  <2>2. \A x \in T : f[x] = f[x]
    OBVIOUS
  <2> HIDE DEF T
  <2>3. ASSUME NEW h, NEW k, Adds(h, f, SUBSET S), Adds(k, f, SUBSET T)
        PROVE  k[T] = h[T]
    BY <1>1, <2>1, <2>2, <2>3, AddsAgree
  <2>. QED  BY <1>2, <1>3, <2>3
<1>. QED
  BY <1>2, <1>4, <1>5 DEF Adds

\* Equal summands, equal sums.
LEMMA SumAgree ==
    ASSUME NEW S, IsFiniteSet(S), NEW f, NEW g, \A x \in S : f[x] = g[x]
    PROVE  SumFunctionOnSet(f, S) = SumFunctionOnSet(g, S)
<1> DEFINE a == CHOOSE h : Adds(h, f, SUBSET S)
           b == CHOOSE h : Adds(h, g, SUBSET S)
<1>1. Adds(a, f, SUBSET S) /\ Adds(b, g, SUBSET S)
  BY AddsExists
<1>2. SumFunctionOnSet(f, S) = a[S] /\ SumFunctionOnSet(g, S) = b[S]
  BY SumIs, Zenon
<1> HIDE DEF a, b
<1>. QED
  BY <1>1, <1>2, AddsAgree

\* A sum of naturals is one, and so for integers.
LEMMA SumType ==
    ASSUME NEW S, IsFiniteSet(S), NEW f, NEW N \in {Nat, Int}, \A x \in S : f[x] \in N
    PROVE  SumFunctionOnSet(f, S) \in N
<1> DEFINE Bad == {U \in SUBSET S : SumFunctionOnSet(f, U) \notin N}
<1>1. SUFFICES ASSUME Bad # {} PROVE FALSE
  BY Zenon
<1>2. PICK U \in Bad : \A V \in Bad : V \subseteq U => V = U
  <2> HIDE DEF Bad
  <2>1. Bad \in SUBSET SUBSET S
    BY DEF Bad
  <2>. QED  BY <1>1, <2>1, LeastSet
<1>3. IsFiniteSet(U)
  BY FS_Subset
<1>4. U # {}
  <2>1. SumFunctionOnSet(f, {}) = 0
    BY FS_EmptySet, SumEquation, Zenon
  <2>2. SumFunctionOnSet(f, U) \notin N
    BY <1>2
  <2>. QED  BY <2>1, <2>2
<1>5. SumFunctionOnSet(f, U) = f[Some(U)] + SumFunctionOnSet(f, U \ {Some(U)})
  BY <1>3, <1>4, SumEquation, Zenon
<1>6. Some(U) \in U
  BY <1>4, SomeIn
<1>7. SumFunctionOnSet(f, U \ {Some(U)}) \in N
  BY <1>2, <1>6
<1>. QED
  BY <1>5, <1>6, <1>7

\* Any element may be the first.
LEMMA SumRemove ==
    ASSUME NEW S, IsFiniteSet(S), NEW f, \A x \in S : f[x] \in Int, NEW x \in S
    PROVE  SumFunctionOnSet(f, S) = f[x] + SumFunctionOnSet(f, S \ {x})
<1> DEFINE Sum(U) == SumFunctionOnSet(f, U)
           Bad == {U \in SUBSET S : \E y \in U : Sum(U) # f[y] + Sum(U \ {y})}
<1>1. \A U \in SUBSET S : Sum(U) \in Int /\ (U # {} => Sum(U) = f[Some(U)] + Sum(U \ {Some(U)}))
  <2> SUFFICES ASSUME NEW U \in SUBSET S
               PROVE Sum(U) \in Int /\ (U # {} => Sum(U) = f[Some(U)] + Sum(U \ {Some(U)}))
    OBVIOUS
  <2>1. IsFiniteSet(U)
    BY FS_Subset
  <2>2. Sum(U) \in Int
    BY <2>1, SumType
  <2>3. U # {} => Sum(U) = f[Some(U)] + Sum(U \ {Some(U)})
    BY <2>1, SumEquation, Zenon
  <2>. QED  BY <2>2, <2>3
<1> HIDE DEF Sum
<1>2. SUFFICES ASSUME Bad # {} PROVE FALSE
  BY DEF Sum
<1>3. PICK U \in Bad : \A V \in Bad : V \subseteq U => V = U
  <2> HIDE DEF Bad
  <2>1. Bad \in SUBSET SUBSET S
    BY DEF Bad
  <2>. QED  BY <1>2, <2>1, LeastSet
<1>4. PICK y \in U : Sum(U) # f[y] + Sum(U \ {y})
  BY <1>3
<1> DEFINE z == Some(U)
<1>5. z \in U
  BY <1>4, SomeIn
<1>6. Sum(U) = f[z] + Sum(U \ {z})
  BY <1>1, <1>4
<1> HIDE DEF z
<1>7. y # z
  BY <1>4, <1>6
<1>8. \A v \in U : U \ {v} \notin Bad /\ U \ {v} \in SUBSET S
  BY <1>3
<1>9. Sum(U \ {z}) = f[y] + Sum((U \ {z}) \ {y})
  BY <1>8, <1>5, <1>7, Zenon
<1>10. Sum(U \ {y}) = f[z] + Sum((U \ {y}) \ {z})
  BY <1>8, <1>5, <1>7, Zenon
<1>11. Sum((U \ {z}) \ {y}) = Sum((U \ {y}) \ {z})
  <2>1. (U \ {z}) \ {y} = (U \ {y}) \ {z}
    OBVIOUS
  <2>. QED  BY <2>1, Zenon
<1>12. f[y] \in Int /\ f[z] \in Int /\ Sum((U \ {y}) \ {z}) \in Int
  BY <1>1, <1>5
<1>. QED
  BY <1>4, <1>6, <1>9, <1>10, <1>11, <1>12

\* A sum over one more element.
LEMMA SumExtends ==
    ASSUME NEW f, NEW g, NEW x, IsFiniteSet(DOMAIN g),
           x \notin DOMAIN g, DOMAIN f = DOMAIN g \cup {x},
           \A y \in DOMAIN f : f[y] \in Int,
           \A y \in DOMAIN g : g[y] = f[y]
    PROVE  SumFunction(f) = f[x] + SumFunction(g)
<1> DEFINE D == DOMAIN f
           E == DOMAIN g
<1>1. IsFiniteSet(D) /\ x \in D /\ D \ {x} = E
  BY FS_AddElement
<1>2. SumFunctionOnSet(f, D) = f[x] + SumFunctionOnSet(f, D \ {x})
  BY <1>1, SumRemove
<1>3. SumFunctionOnSet(f, E) = SumFunctionOnSet(g, E)
  BY SumAgree
<1>. QED
  BY <1>1, <1>2, <1>3, Zenon DEF SumFunction

(***************************************************************************)
(* Types                                                                   *)
(***************************************************************************)
LEMMA TypeInit == Init => TypeOK
<1> SUFFICES ASSUME Init PROVE TypeOK
  OBVIOUS
<1>1. {[balance |-> 0, plan |-> Free, expires |-> 0, autoRenew |-> b] : b \in BOOLEAN}
        \subseteq Account
  BY BillingAssumption DEF Account
<1>2. acct \in [User -> Account \cup {Gone}]
  BY <1>1 DEF Init
<1>3. now \in 1..MaxNow /\ 0 \in 0..MaxNow /\ 0 \in 0..MaxGrants
  BY BillingAssumption DEF Init
<1>. QED
  BY <1>2, <1>3, BillingAssumption DEF Init, TypeOK

\* What a payment makes of an account.
LEMMA DeliveredType ==
    ASSUME TypeOK, NEW a \in Account, NEW g \in Goods
    PROVE  Delivered(a, g) \in Account
<1>1. g.plan \in Plan \cup {Recharge} /\ g.price \in Nat /\ g.days \in Nat /\ now \in Nat
  BY BillingAssumption DEF TypeOK
<1>2. NewExpiry(a, g) \in Nat
  BY <1>1 DEF NewExpiry, Account
<1>3. CASE g.plan = Recharge
  <2>1. Delivered(a, g) = [a EXCEPT !.balance = a.balance + g.price]
    BY <1>3 DEF Delivered
  <2>. QED
    BY <1>1, <2>1 DEF Account
<1>4. CASE g.plan # Recharge
  <2>1. Delivered(a, g) = [a EXCEPT !.plan = g.plan, !.expires = NewExpiry(a, g)]
    BY <1>4 DEF Delivered
  <2>. QED
    BY <1>1, <1>2, <1>4, <2>1 DEF Account
<1>. QED
  BY <1>3, <1>4

\* What a purchase of positive length makes of an account.
LEMMA ChargedType ==
    ASSUME TypeOK, NEW a \in Account, NEW price \in Nat, NEW days \in Nat
    PROVE  /\ Charged(a, price, days) \in Account
           /\ Charged(a, price, days).plan = a.plan
           /\ Charged(a, price, days).balance = a.balance - price
           /\ Charged(a, price, days).expires = Extended(a.expires, days)
<1>1. now \in Nat
  BY BillingAssumption DEF TypeOK
<1>2. Extended(a.expires, days) \in Nat
  BY <1>1 DEF Extended, Account
<1>3. Charged(a, price, days) =
        [a EXCEPT !.balance = a.balance - price, !.expires = Extended(a.expires, days)]
  BY DEF Charged
<1>4. a.balance - price \in Int
  BY DEF Account
<1>. QED
  BY <1>2, <1>3, <1>4 DEF Account

\* The order of a payment is paid at most once more, its buyer is served if
\* there is one, and nothing else of the books changes.
LEMMA PaysType ==
    ASSUME TypeOK, NEW o \in Order, orders[o] # NoOrder, NEW t \in Tx \cup {NoTx},
           MarkOrderPaid(o, t)
    PROVE  /\ acct' \in [User -> Account \cup {Gone}]
           /\ orders' \in [Order -> Bill \cup {NoOrder}]
           /\ \A p \in Order : orders'[p] = NoOrder <=> orders[p] = NoOrder
<1>1. orders[o] \in Bill
  BY DEF TypeOK
<1>2. CASE IsPaid(o)
  BY <1>2 DEF MarkOrderPaid, books, TypeOK
<1>3. CASE ~ IsPaid(o)
  <2> DEFINE u == orders[o].user
             b == [orders[o] EXCEPT !.status = "paid", !.tx = t]
  <2>1. b \in Bill /\ b # NoOrder
    BY <1>1, BillingAssumption DEF Bill
  <2>2. orders' = [orders EXCEPT ![o] = b]
    BY <1>3 DEF MarkOrderPaid
  <2>3. acct' = IF acct[u] = Gone
                  THEN acct
                  ELSE [acct EXCEPT ![u] = Delivered(acct[u], orders[o].item)]
    BY <1>3 DEF MarkOrderPaid
  <2>4. acct[u] # Gone => Delivered(acct[u], orders[o].item) \in Account
    BY <1>1, DeliveredType DEF TypeOK, Bill
  <2> HIDE DEF b
  <2>. QED
    BY <1>1, <2>1, <2>2, <2>3, <2>4 DEF TypeOK, Bill
<1>. QED
  BY <1>2, <1>3

\* A renewal of accounts that exist.
LEMMA RenewsType ==
    ASSUME TypeOK, NEW U \in SUBSET {u \in User : acct[u] # Gone}, RenewAll(U)
    PROVE  TypeOK'
<1>1. \A u \in U : /\ acct[u] \in Account
                   /\ Monthly[acct[u].plan] \in Nat
                   /\ Charged(acct[u], Monthly[acct[u].plan], RenewDays) \in Account
  <2> SUFFICES ASSUME NEW u \in U
               PROVE  /\ acct[u] \in Account
                      /\ Monthly[acct[u].plan] \in Nat
                      /\ Charged(acct[u], Monthly[acct[u].plan], RenewDays) \in Account
    OBVIOUS
  <2>1. acct[u] \in Account
    BY DEF TypeOK
  <2>2. Monthly[acct[u].plan] \in Nat
    BY <2>1, BillingAssumption DEF Account
  <2>. QED
    BY <2>1, <2>2, BillingAssumption, ChargedType
<1>2. acct' \in [User -> Account \cup {Gone}]
  BY <1>1 DEF RenewAll, TypeOK
<1>3. spent' \in [User -> Nat] /\ bought' \in [User -> Nat]
  BY <1>1, BillingAssumption DEF RenewAll, TypeOK
<1>. QED
  BY <1>2, <1>3 DEF RenewAll, TypeOK

LEMMA TypeStep == TypeOK /\ [Next]_vars => TypeOK'
<1> SUFFICES ASSUME TypeOK, [Next]_vars PROVE TypeOK'
  OBVIOUS
<1> USE DEF books, history
<1>1. ASSUME NEW o \in Order, NEW u \in User, NEW g \in Goods, CreateOrder(o, u, g) PROVE TypeOK'
  <2> DEFINE b == [user |-> u, item |-> g, status |-> "pending", tx |-> NoTx]
  <2>1. b \in Bill /\ b # NoOrder
    BY BillingAssumption DEF Bill
  <2>2. orders' = [orders EXCEPT ![o] = b]
    BY <1>1 DEF CreateOrder
  <2> HIDE DEF b
  <2>3. orders' \in [Order -> Bill \cup {NoOrder}] /\ \A p \in Order : orders[p] # NoOrder => orders'[p] # NoOrder
    BY <2>1, <2>2 DEF TypeOK
  <2>. QED
    BY <1>1, <2>3 DEF CreateOrder, TypeOK, Verification, Idle
<1>2. ASSUME NEW o \in Order, Settle(o) PROVE TypeOK'
  BY <1>2 DEF Settle, TypeOK
<1>3. ASSUME NEW o \in Order, Notify(o) PROVE TypeOK'
  <2>1. orders[o] # NoOrder /\ MarkOrderPaid(o, NoTx)
    BY <1>3 DEF Notify, TypeOK
  <2>. QED
    BY <1>3, <2>1, PaysType DEF Notify, TypeOK, Verification, Idle
<1>4. ASSUME NEW t \in Tx, Transfer(t) PROVE TypeOK'
  <2>1. now \in 0..MaxNow
    BY BillingAssumption DEF TypeOK
  <2>. QED
    BY <1>4, <2>1 DEF Transfer, TypeOK
<1>5. ASSUME NEW r \in Request, NEW o \in Order, NEW t \in Tx, Verify(r, o, t) PROVE TypeOK'
  <2> DEFINE v == [at |-> "found", order |-> o, tx |-> t]
  <2>1. v \in Verification /\ v.order = o
    BY DEF Verification, Stage
  <2>2. req' = [req EXCEPT ![r] = v]
    BY <1>5 DEF Verify, Proceed
  <2> HIDE DEF v
  <2>. QED
    BY <1>5, <2>1, <2>2 DEF Verify, TypeOK
<1>6. ASSUME NEW r \in Request, CheckUnused(r) \/ Match(r) PROVE TypeOK'
  <2>1. req[r] \in Verification /\ req[r] # Idle
    BY <1>6 DEF CheckUnused, Match, TypeOK, Idle
  <2>2. PICK v \in {Idle, [req[r] EXCEPT !.at = "unused"], [req[r] EXCEPT !.at = "matched"]} :
          req' = [req EXCEPT ![r] = v]
    BY <1>6, Zenon DEF CheckUnused, Match, Proceed, Ends
  <2>3. v \in Verification \cup {Idle} /\ (v # Idle => v.order = req[r].order)
    BY <2>1, <2>2 DEF Verification, Stage
  <2>4. UNCHANGED <<acct, orders, now, settled, sentAt, grants, added, spent, bought>>
    BY <1>6 DEF CheckUnused, Match
  <2>. QED
    BY <2>1, <2>2, <2>3, <2>4 DEF TypeOK
<1>7. ASSUME NEW r \in Request, Activate(r) PROVE TypeOK'
  <2>1. req[r] \in Verification /\ req[r] # Idle
    BY <1>7 DEF Activate, TypeOK, Idle
  <2>2. MarkOrderPaid(req[r].order, req[r].tx) /\ req[r].order \in Order /\ req[r].tx \in Tx
    BY <1>7, <2>1 DEF Activate, Verification
  <2>3. orders[req[r].order] # NoOrder
    BY <2>1 DEF TypeOK
  <2>4. req' = [req EXCEPT ![r] = Idle]
    BY <1>7 DEF Activate, Ends, Proceed
  <2>. QED
    BY <1>7, <2>2, <2>3, <2>4, PaysType DEF Activate, TypeOK, Verification
<1>8. ASSUME NEW r \in Request, GiveUp(r) PROVE TypeOK'
  BY <1>8 DEF GiveUp, Ends, Proceed, TypeOK
<1>9. ASSUME NEW u \in User, NEW g \in WalletGoods, PayPlanWithBalance(u, g) PROVE TypeOK'
  <2>1. acct[u] \in Account /\ g.price \in Nat /\ g.days \in Nat /\ g.plan \in Plan
    BY <1>9, BillingAssumption DEF PayPlanWithBalance, TypeOK
  <2> DEFINE c == Charged(acct[u], g.price, g.days)
  <2>2. c \in Account
    BY <2>1, ChargedType
  <2>3. acct' = [acct EXCEPT ![u] = [c EXCEPT !.plan = g.plan]]
    BY <1>9 DEF PayPlanWithBalance
  <2> HIDE DEF c
  <2>4. [c EXCEPT !.plan = g.plan] \in Account
    BY <2>1, <2>2 DEF Account
  <2>5. acct' \in [User -> Account \cup {Gone}]
    BY <2>3, <2>4 DEF TypeOK
  <2>. QED
    BY <1>9, <2>1, <2>5 DEF PayPlanWithBalance, TypeOK
<1>10. ASSUME NEW u \in User, RenewProfileWithBalance(u) PROVE TypeOK'
  BY <1>10, RenewsType DEF RenewProfileWithBalance
<1>11. CASE AutoRenew \/ AutoRenewInPart
  BY <1>11, RenewsType DEF AutoRenew, AutoRenewInPart, Renewable
<1>12. ASSUME NEW u \in User, NEW b \in BOOLEAN, UpdateAutoRenew(u, b) PROVE TypeOK'
  <2>1. acct[u] \in Account /\ [acct[u] EXCEPT !.autoRenew = b] \in Account
    BY <1>12 DEF UpdateAutoRenew, TypeOK, Account
  <2>2. acct' = [acct EXCEPT ![u] = [acct[u] EXCEPT !.autoRenew = b]]
    BY <1>12 DEF UpdateAutoRenew
  <2>. QED
    BY <1>12, <2>1, <2>2 DEF UpdateAutoRenew, TypeOK
<1>13. ASSUME NEW u \in User, NEW p \in Plan \cup {Keep}, NEW e \in GrantDays \cup {-1, 0},
              NEW m \in Grants \cup {0}, AdminUpdateUser(u, p, e, m)
       PROVE TypeOK'
  <2>1. acct[u] \in Account /\ now \in Nat /\ m \in Int /\ (e = -1 \/ e \in Nat)
    BY <1>13, BillingAssumption DEF AdminUpdateUser, TypeOK
  <2> DEFINE p2 == IF p = Keep THEN acct[u].plan ELSE p
             e2 == Dated(acct[u], e)
             b2 == acct[u].balance + m
  <2>2. p2 \in Plan /\ e2 \in Nat /\ b2 \in Int
    BY <2>1 DEF Dated, Account
  <2>3. acct' = [acct EXCEPT ![u] = [acct[u] EXCEPT !.plan = p2, !.expires = e2, !.balance = b2]]
    BY <1>13 DEF AdminUpdateUser
  <2> HIDE DEF p2, e2, b2
  <2>4. [acct[u] EXCEPT !.plan = p2, !.expires = e2, !.balance = b2] \in Account
    BY <2>1, <2>2 DEF Account
  <2>5. acct' \in [User -> Account \cup {Gone}]
    BY <2>3, <2>4 DEF TypeOK
  <2>6. grants' \in 0..MaxGrants /\ added' \in [User -> Int] /\ bought' \in [User -> Nat]
    BY <1>13, <2>1, BillingAssumption DEF AdminUpdateUser, TypeOK
  <2>. QED
    BY <1>13, <2>5, <2>6 DEF AdminUpdateUser, TypeOK
<1>14. ASSUME NEW u \in User, AdminDeleteUser(u) PROVE TypeOK'
  BY <1>14 DEF AdminDeleteUser, TypeOK
<1>15. CASE Tick
  <2>1. now' \in 1..MaxNow
    BY <1>15, BillingAssumption DEF Tick, TypeOK
  <2>. QED
    BY <1>15, <2>1 DEF Tick, TypeOK
<1>16. CASE UNCHANGED vars
  BY <1>16 DEF vars, TypeOK
<1>. QED
  BY <1>1, <1>2, <1>3, <1>4, <1>5, <1>6, <1>7, <1>8, <1>9, <1>10, <1>11, <1>12, <1>13,
     <1>14, <1>15, <1>16 DEF Next

\* Accounts, orders and verifications keep their types for any users, orders,
\* goods and transfers; no end of a plan becomes negative.
THEOREM BillingTypes == Spec => []TypeOK
BY TypeInit, TypeStep, PTL DEF Spec

(***************************************************************************)
(* What a step does to plans                                               *)
(***************************************************************************)
\* A purchase goes on from the later of now and the end of the plan.
LEMMA ExtendedFrom ==
    ASSUME TypeOK, NEW e \in Nat, NEW days \in Nat
    PROVE  /\ Extended(e, days) >= now + days
           /\ Extended(e, days) >= e
           /\ Extended(e, days) = now + days \/ Extended(e, days) = e + days
<1>1. now \in Nat
  BY BillingAssumption DEF TypeOK
<1>. QED
  BY <1>1 DEF Extended

\* Whoever a renewal charges, and what it leaves of the others.
LEMMA RenewsEach ==
    ASSUME TypeOK, NEW U \in SUBSET {u \in User : acct[u] # Gone}, RenewAll(U), NEW u \in User
    PROVE  \/ /\ u \in U
              /\ acct[u] \in Account
              /\ Monthly[acct[u].plan] \in Nat \ {0}
              /\ acct'[u] \in Account
              /\ acct'[u].plan = acct[u].plan
              /\ acct'[u].balance = acct[u].balance - Monthly[acct[u].plan]
              /\ acct'[u].expires = Extended(acct[u].expires, RenewDays)
              /\ spent'[u] = spent[u] + Monthly[acct[u].plan]
              /\ bought'[u] = bought[u] + RenewDays
           \/ acct'[u] = acct[u] /\ spent'[u] = spent[u] /\ bought'[u] = bought[u]
<1>1. CASE u \notin U
  BY <1>1 DEF RenewAll
<1>2. CASE u \in U
  <2>1. acct[u] \in Account
    BY <1>2 DEF TypeOK
  <2>2. Monthly[acct[u].plan] \in Nat \ {0}
    BY <2>1, BillingAssumption DEF Account
  <2>3. /\ acct'[u] = Charged(acct[u], Monthly[acct[u].plan], RenewDays)
        /\ spent'[u] = spent[u] + Monthly[acct[u].plan]
        /\ bought'[u] = bought[u] + RenewDays
    BY <1>2 DEF RenewAll
  <2> DEFINE c == Charged(acct[u], Monthly[acct[u].plan], RenewDays)
  <2>4. /\ c \in Account
        /\ c.plan = acct[u].plan
        /\ c.balance = acct[u].balance - Monthly[acct[u].plan]
        /\ c.expires = Extended(acct[u].expires, RenewDays)
    BY <2>1, <2>2, BillingAssumption, ChargedType
  <2> HIDE DEF c
  <2>. QED
    BY <1>2, <2>1, <2>2, <2>3, <2>4, Zenon DEF c
<1>. QED
  BY <1>1, <1>2

\* A purchase from the wallet, of the one who pays.
LEMMA PurchaseOf ==
    ASSUME TypeOK, NEW u \in User, NEW g \in WalletGoods, PayPlanWithBalance(u, g)
    PROVE  /\ acct[u] \in Account
           /\ g.price \in Nat \ {0} /\ g.days \in Nat
           /\ acct' = [acct EXCEPT ![u] = acct'[u]]
           /\ acct'[u] \in Account
           /\ acct'[u].balance = acct[u].balance - g.price
           /\ acct'[u].expires = Extended(acct[u].expires, g.days)
           /\ spent' = [spent EXCEPT ![u] = spent[u] + g.price]
           /\ bought' = [bought EXCEPT ![u] = bought[u] + g.days]
<1>1. acct[u] \in Account /\ g.price \in Nat \ {0} /\ g.days \in Nat /\ g.plan \in Plan
  BY BillingAssumption DEF PayPlanWithBalance, TypeOK
<1> DEFINE c == Charged(acct[u], g.price, g.days)
           d == [c EXCEPT !.plan = g.plan]
<1>2. /\ c \in Account
      /\ c.balance = acct[u].balance - g.price
      /\ c.expires = Extended(acct[u].expires, g.days)
  BY <1>1, ChargedType
<1>3. acct' = [acct EXCEPT ![u] = d]
  BY DEF PayPlanWithBalance
<1> HIDE DEF c
<1>4. d \in Account /\ d.balance = c.balance /\ d.expires = c.expires
  BY <1>1, <1>2 DEF Account
<1> HIDE DEF d
<1>5. acct'[u] = d
  BY <1>3 DEF TypeOK
<1>. QED
  BY <1>1, <1>2, <1>3, <1>4, <1>5 DEF PayPlanWithBalance

\* A payment changes nothing or serves the buyer of a pending order.
LEMMA PaysOnce ==
    ASSUME TypeOK, NEW o \in Order, orders[o] # NoOrder, NEW t \in Tx \cup {NoTx},
           MarkOrderPaid(o, t)
    PROVE  \/ UNCHANGED books
           \/ \E b \in Bill, c \in Account \cup {Gone} :
                /\ orders[o] \in Bill /\ orders[o].status # "paid"
                /\ b.user = orders[o].user /\ b.item = orders[o].item
                /\ b.status = "paid" /\ b.tx = t
                /\ orders' = [orders EXCEPT ![o] = b]
                /\ acct' = [acct EXCEPT ![b.user] = c]
                /\ c = Gone <=> acct[b.user] = Gone
                /\ c # Gone => c = Delivered(acct[b.user], b.item)
<1>1. orders[o] \in Bill
  BY DEF TypeOK
<1>2. CASE IsPaid(o)
  BY <1>2 DEF MarkOrderPaid
<1>3. CASE ~ IsPaid(o)
  <2> DEFINE u == orders[o].user
             b == [orders[o] EXCEPT !.status = "paid", !.tx = t]
             c == IF acct[u] = Gone THEN Gone ELSE Delivered(acct[u], orders[o].item)
  <2>1. b \in Bill /\ b.user = u /\ b.item = orders[o].item /\ b.status = "paid" /\ b.tx = t
    BY <1>1 DEF Bill
  <2>2. orders' = [orders EXCEPT ![o] = b]
    BY <1>3 DEF MarkOrderPaid
  <2>3. acct' = IF acct[u] = Gone
                  THEN acct
                  ELSE [acct EXCEPT ![u] = Delivered(acct[u], orders[o].item)]
    BY <1>3 DEF MarkOrderPaid
  <2>4. u \in User /\ orders[o].item \in Goods
    BY <1>1 DEF Bill
  <2>5. acct[u] # Gone => Delivered(acct[u], orders[o].item) \in Account
    BY <2>4, DeliveredType DEF TypeOK
  <2>6. c \in Account \cup {Gone} /\ (c = Gone <=> acct[u] = Gone)
    BY <2>5, BillingAssumption
  <2>7. acct' = [acct EXCEPT ![u] = c]
    BY <2>3, <2>4 DEF TypeOK
  <2>8. orders[o].status # "paid"
    BY <1>3 DEF IsPaid
  <2>9. c # Gone => c = Delivered(acct[u], orders[o].item)
    OBVIOUS
  <2> HIDE DEF b, c
  <2>. QED
    BY <1>1, <2>1, <2>2, <2>6, <2>7, <2>8, <2>9
<1>. QED
  BY <1>2, <1>3

\* What an order gives is no time lost, but by an order for another plan.
LEMMA DeliveredExpiry ==
    ASSUME TypeOK, NEW a \in Account, NEW g \in Goods
    PROVE  \/ Delivered(a, g).expires >= a.expires
           \/ g.plan # Recharge /\ Delivered(a, g).plan # a.plan
<1>1. g.days \in Nat /\ g.price \in Nat /\ now \in Nat
  BY BillingAssumption DEF TypeOK
<1>2. a.expires \in Nat /\ NewExpiry(a, g) \in Nat
  BY <1>1 DEF NewExpiry, Account
<1>3. CASE g.plan = Recharge
  <2>1. Delivered(a, g) = [a EXCEPT !.balance = a.balance + g.price]
    BY <1>3 DEF Delivered
  <2>. QED  BY <2>1, <1>2 DEF Account
<1>4. CASE g.plan # Recharge
  <2>1. Delivered(a, g) = [a EXCEPT !.plan = g.plan, !.expires = NewExpiry(a, g)]
    BY <1>4 DEF Delivered
  <2>2. Delivered(a, g).plan = g.plan /\ Delivered(a, g).expires = NewExpiry(a, g)
    BY <2>1 DEF Account
  <2>3. g.plan = a.plan => NewExpiry(a, g) >= a.expires
    BY <1>1, <1>2 DEF NewExpiry
  <2>. QED  BY <1>4, <2>2, <2>3
<1>. QED
  BY <1>3, <1>4

\* The payment of an order adds it to the paid ones.
LEMMA PaymentKeepsTime ==
    ASSUME TypeOK, NEW o \in Order, orders[o] # NoOrder, NEW t \in Tx \cup {NoTx},
           MarkOrderPaid(o, t),
           NEW u \in User, acct[u] # Gone, acct'[u] # Gone
    PROVE  \/ acct'[u].expires >= acct[u].expires
           \/ acct'[u].plan # acct[u].plan /\ PaidBy(u)' # PaidBy(u)
<1>0. acct[u] \in Account /\ acct[u].expires \in Nat
  BY DEF TypeOK, Account
<1>1. CASE UNCHANGED books
  BY <1>0, <1>1 DEF books
<1>2. ASSUME NEW b \in Bill, NEW c \in Account \cup {Gone},
             orders[o] \in Bill, orders[o].status # "paid",
             b.user = orders[o].user, b.item = orders[o].item, b.status = "paid",
             orders' = [orders EXCEPT ![o] = b],
             acct' = [acct EXCEPT ![b.user] = c],
             c # Gone => c = Delivered(acct[b.user], b.item)
      PROVE  \/ acct'[u].expires >= acct[u].expires
             \/ acct'[u].plan # acct[u].plan /\ PaidBy(u)' # PaidBy(u)
  <2>1. b.user \in User /\ b.item \in Goods
    BY DEF Bill
  <2>2. CASE u # b.user
    <3>1. acct'[u] = acct[u]
      BY <1>2, <2>1, <2>2 DEF TypeOK
    <3>. QED  BY <1>0, <3>1
  <2>3. CASE u = b.user
    <3>1. acct'[u] = c /\ c = Delivered(acct[u], b.item)
      BY <1>2, <2>1, <2>3 DEF TypeOK
    <3>2. o \notin PaidBy(u)
      BY <1>2 DEF PaidBy
    <3>3. o \in PaidBy(u)'
      <4>1. orders'[o] = b /\ b # NoOrder
        BY <1>2, BillingAssumption DEF TypeOK
      <4>. QED  BY <4>1, <1>2, <2>3 DEF PaidBy
    <3>. QED
      BY <1>0, <2>1, <3>1, <3>2, <3>3, DeliveredExpiry
  <2>. QED  BY <2>2, <2>3
<1>. QED
  BY <1>1, <1>2, PaysOnce

\* The formulas under the boxes of PaidTimeKept and ChargesSettle.
TimeKept ==
    \A u \in User :
      acct[u] # Gone /\ acct'[u] # Gone /\ grants' = grants
        => \/ acct'[u].expires >= acct[u].expires
           \/ /\ acct'[u].plan # acct[u].plan
              /\ PaidBy(u)' # PaidBy(u)

Settles ==
    \A u \in User :
      spent'[u] > spent[u] => /\ acct'[u].balance >= 0
                              /\ acct'[u].expires > now + Window

LEMMA TimeKeptStep == TypeOK /\ Next => TimeKept
<1> SUFFICES ASSUME TypeOK, Next, NEW u \in User,
                    acct[u] # Gone, acct'[u] # Gone, grants' = grants
             PROVE  \/ acct'[u].expires >= acct[u].expires
                    \/ acct'[u].plan # acct[u].plan /\ PaidBy(u)' # PaidBy(u)
  BY DEF TimeKept
<1>0. acct[u] \in Account /\ acct[u].expires \in Nat /\ now \in Nat
  BY BillingAssumption DEF TypeOK, Account
<1>1. CASE acct' = acct
  BY <1>0, <1>1
<1>2. ASSUME NEW o \in Order, Notify(o)
      PROVE  \/ acct'[u].expires >= acct[u].expires
             \/ acct'[u].plan # acct[u].plan /\ PaidBy(u)' # PaidBy(u)
  <2>1. orders[o] # NoOrder /\ MarkOrderPaid(o, NoTx)
    BY <1>2 DEF Notify, TypeOK
  <2>. QED  BY <2>1, PaymentKeepsTime
<1>3. ASSUME NEW r \in Request, Activate(r)
      PROVE  \/ acct'[u].expires >= acct[u].expires
             \/ acct'[u].plan # acct[u].plan /\ PaidBy(u)' # PaidBy(u)
  <2>1. req[r] \in Verification /\ req[r] # Idle
    BY <1>3 DEF Activate, TypeOK, Idle
  <2>2. /\ req[r].order \in Order /\ req[r].tx \in Tx \cup {NoTx}
        /\ MarkOrderPaid(req[r].order, req[r].tx)
        /\ orders[req[r].order] # NoOrder
    BY <1>3, <2>1 DEF Activate, Verification, TypeOK
  <2>. QED  BY <2>2, PaymentKeepsTime
<1>4. ASSUME NEW v \in User, NEW g \in WalletGoods, PayPlanWithBalance(v, g)
      PROVE  acct'[u].expires >= acct[u].expires
  <2>1. acct' = [acct EXCEPT ![v] = acct'[v]] /\ g.days \in Nat
        /\ acct'[v].expires = Extended(acct[v].expires, g.days)
    BY <1>4, PurchaseOf
  <2>2. CASE u = v
    BY <1>0, <2>1, <2>2, ExtendedFrom
  <2>3. CASE u # v
    <3>1. acct'[u] = acct[u]
      BY <2>1, <2>3 DEF TypeOK
    <3>. QED  BY <1>0, <3>1
  <2>. QED  BY <2>2, <2>3
<1>5. ASSUME NEW U \in SUBSET {v \in User : acct[v] # Gone}, RenewAll(U)
      PROVE  acct'[u].expires >= acct[u].expires
  <2>1. RenewDays \in Nat
    BY BillingAssumption
  <2>2. acct'[u].expires = Extended(acct[u].expires, RenewDays) \/ acct'[u] = acct[u]
    BY <1>5, RenewsEach
  <2>. QED  BY <1>0, <2>1, <2>2, ExtendedFrom
<1>6. ASSUME NEW v \in User, NEW b \in BOOLEAN, UpdateAutoRenew(v, b)
      PROVE  acct'[u].expires >= acct[u].expires
  <2>1. acct' = [acct EXCEPT ![v] = [acct[v] EXCEPT !.autoRenew = b]]
    BY <1>6 DEF UpdateAutoRenew
  <2>2. acct'[u].expires = acct[u].expires
    BY <1>0, <2>1 DEF TypeOK, Account
  <2>. QED  BY <1>0, <2>2
<1>7. ASSUME NEW v \in User, NEW p \in Plan \cup {Keep}, NEW e \in GrantDays \cup {-1, 0},
             NEW m \in Grants \cup {0}, AdminUpdateUser(v, p, e, m)
      PROVE  FALSE
  BY <1>7, BillingAssumption DEF AdminUpdateUser, TypeOK
<1>8. ASSUME NEW v \in User, AdminDeleteUser(v)
      PROVE  acct'[u] = acct[u]
  <2>1. acct' = [acct EXCEPT ![v] = Gone]
    BY <1>8 DEF AdminDeleteUser
  <2>. QED  BY <2>1 DEF TypeOK
<1>9. CASE AutoRenew \/ AutoRenewInPart
  BY <1>9, <1>5 DEF AutoRenew, AutoRenewInPart, Renewable
<1>10. ASSUME NEW v \in User, RenewProfileWithBalance(v)
       PROVE  acct'[u].expires >= acct[u].expires
  BY <1>10, <1>5 DEF RenewProfileWithBalance
<1>11. \/ acct' = acct
       \/ \E o \in Order : Notify(o)
       \/ \E r \in Request : Activate(r)
       \/ \E v \in User, g \in WalletGoods : PayPlanWithBalance(v, g)
       \/ \E v \in User : RenewProfileWithBalance(v)
       \/ AutoRenew \/ AutoRenewInPart
       \/ \E v \in User, b \in BOOLEAN : UpdateAutoRenew(v, b)
       \/ \E v \in User, p \in Plan \cup {Keep}, e \in GrantDays \cup {-1, 0}, m \in Grants \cup {0} :
            AdminUpdateUser(v, p, e, m)
       \/ \E v \in User : AdminDeleteUser(v)
  BY Zenon DEF Next, books, CreateOrder, Settle, Transfer, Verify, CheckUnused, Match, GiveUp, Tick
<1>. QED
  BY <1>0, <1>1, <1>2, <1>3, <1>4, <1>6, <1>7, <1>8, <1>9, <1>10, <1>11

LEMMA SettlesStep == TypeOK /\ Next => Settles
<1> SUFFICES ASSUME TypeOK, Next, NEW u \in User, spent'[u] > spent[u]
             PROVE  acct'[u].balance >= 0 /\ acct'[u].expires > now + Window
  BY DEF Settles
<1>0. /\ now \in Nat /\ spent[u] \in Nat /\ Window \in Nat /\ RenewDays \in Nat
      /\ Window < RenewDays
  BY BillingAssumption DEF TypeOK
<1>1. CASE spent' = spent
  BY <1>0, <1>1
<1>2. ASSUME NEW v \in User, NEW g \in WalletGoods, PayPlanWithBalance(v, g)
      PROVE  acct'[u].balance >= 0 /\ acct'[u].expires > now + Window
  <2>1. /\ acct[v] \in Account
        /\ g.price \in Nat \ {0} /\ g.days \in Nat
        /\ acct'[v] \in Account
        /\ acct'[v].balance = acct[v].balance - g.price
        /\ acct'[v].expires = Extended(acct[v].expires, g.days)
        /\ spent' = [spent EXCEPT ![v] = spent[v] + g.price]
    BY <1>2, PurchaseOf
  <2>2. u = v
    BY <1>0, <2>1 DEF TypeOK
  <2>3. acct[v].balance >= g.price /\ Window < g.days
    BY <1>2, BillingAssumption DEF PayPlanWithBalance, CanPay
  <2>4. acct'[v].expires >= now + g.days
    BY <2>1, ExtendedFrom DEF Account
  <2>5. acct[v].balance \in Int /\ acct'[v].expires \in Nat
    BY <2>1 DEF Account
  <2>. QED  BY <1>0, <2>1, <2>2, <2>3, <2>4, <2>5
<1>3. ASSUME NEW U \in SUBSET {v \in User : acct[v] # Gone}, RenewAll(U),
             \A v \in U : CanPay(acct[v], Monthly[acct[v].plan])
      PROVE  acct'[u].balance >= 0 /\ acct'[u].expires > now + Window
  <2>1. /\ u \in U
        /\ acct[u] \in Account
        /\ acct'[u] \in Account
        /\ acct'[u].balance = acct[u].balance - Monthly[acct[u].plan]
        /\ acct'[u].expires = Extended(acct[u].expires, RenewDays)
        /\ Monthly[acct[u].plan] \in Nat \ {0}
    BY <1>0, <1>3, RenewsEach
  <2>2. acct[u].balance >= Monthly[acct[u].plan]
    BY <1>3, <2>1 DEF CanPay
  <2>3. acct'[u].expires >= now + RenewDays
    BY <1>0, <2>1, ExtendedFrom DEF Account
  <2>4. acct[u].balance \in Int /\ acct'[u].expires \in Nat
    BY <2>1 DEF Account
  <2>. QED  BY <1>0, <2>1, <2>2, <2>3, <2>4
<1>4. CASE AutoRenew \/ AutoRenewInPart
  BY <1>4, <1>3 DEF AutoRenew, AutoRenewInPart, Renewable
<1>5. ASSUME NEW v \in User, RenewProfileWithBalance(v)
      PROVE  acct'[u].balance >= 0 /\ acct'[u].expires > now + Window
  BY <1>5, <1>3 DEF RenewProfileWithBalance
<1>6. \/ spent' = spent
      \/ \E v \in User, g \in WalletGoods : PayPlanWithBalance(v, g)
      \/ \E v \in User : RenewProfileWithBalance(v)
      \/ AutoRenew \/ AutoRenewInPart
  BY Zenon DEF Next, history, CreateOrder, Settle, Notify, Transfer, Verify, CheckUnused, Match,
     Activate, GiveUp, UpdateAutoRenew, AdminUpdateUser, AdminDeleteUser, Tick
<1>. QED
  BY <1>1, <1>2, <1>4, <1>5, <1>6

\* Paid time is lost only to an order for another plan, an administrator or the
\* deletion of the account, whatever the interleaving of gateway, verifications,
\* wallet and renewals.
THEOREM BillingKeepsTime == Spec => PaidTimeKept
<1>1. TypeOK /\ [Next]_vars => [TimeKept]_vars
  BY TimeKeptStep
<1>2. [][TimeKept]_vars => PaidTimeKept
  BY PTL DEF PaidTimeKept, TimeKept
<1>. QED
  BY <1>1, <1>2, BillingTypes, PTL DEF Spec

\* A wallet that pays has the money and is not charged again in the next round.
THEOREM BillingSettles == Spec => ChargesSettle
<1>1. TypeOK /\ [Next]_vars => [Settles]_vars
  BY SettlesStep
<1>2. [][Settles]_vars => ChargesSettle
  BY PTL DEF ChargesSettle, Settles
<1>. QED
  BY <1>1, <1>2, BillingTypes, PTL DEF Spec

(***************************************************************************)
(* The ledger: wallets and plans against the orders paid                   *)
(***************************************************************************)
\* The two sums of the properties, as one operator of the table orders: what
\* the paid orders of u are worth in money, or in days.
Worth(g, k) == IF k = "money" THEN g.price ELSE g.days
Kind(g) == IF g.plan = Recharge THEN "money" ELSE "days"
Paid(os, o) == os[o] # NoOrder /\ os[o].status = "paid"
PaidFor(os, u, k) == {o \in Order : Paid(os, o) /\ os[o].user = u /\ Kind(os[o].item) = k}
Worths(os, u, k) == [o \in PaidFor(os, u, k) |-> Worth(os[o].item, k)]
Total(os, u, k) == SumFunction(Worths(os, u, k))

Ordered(os) == {o \in Order : os[o] # NoOrder}
Books == [Order -> Bill \cup {NoOrder}]

\* Order o of os becomes the paid bill b in ns.
Pays(os, ns, o, b) ==
    /\ ~ Paid(os, o) /\ os[o] # NoOrder
    /\ b.status = "paid"
    /\ ns = [os EXCEPT ![o] = b]

LEMMA Totals ==
    ASSUME NEW u
    PROVE  Refilled(u) = Total(orders, u, "money") /\ DaysOrdered(u) = Total(orders, u, "days")
<1>1. {p \in PaidBy(u) : orders[p].item.plan = Recharge} = PaidFor(orders, u, "money")
  BY DEF PaidBy, PaidFor, Paid, Kind
<1>2. {p \in PaidBy(u) : orders[p].item.plan # Recharge} = PaidFor(orders, u, "days")
  BY DEF PaidBy, PaidFor, Paid, Kind
<1>3. Worths(orders, u, "money") = [o \in PaidFor(orders, u, "money") |-> orders[o].item.price]
  BY DEF Worths, Worth
<1>4. Worths(orders, u, "days") = [o \in PaidFor(orders, u, "days") |-> orders[o].item.days]
  BY DEF Worths, Worth
<1>. QED
  BY <1>1, <1>2, <1>3, <1>4, Zenon DEF Refilled, DaysOrdered, Total

LEMMA TotalsNext ==
    ASSUME NEW u
    PROVE  Refilled(u)' = Total(orders', u, "money") /\ DaysOrdered(u)' = Total(orders', u, "days")
<1>1. {p \in PaidBy(u)' : orders'[p].item.plan = Recharge} = PaidFor(orders', u, "money")
  BY DEF PaidBy, PaidFor, Paid, Kind
<1>2. {p \in PaidBy(u)' : orders'[p].item.plan # Recharge} = PaidFor(orders', u, "days")
  BY DEF PaidBy, PaidFor, Paid, Kind
<1>3. Worths(orders', u, "money") = [o \in PaidFor(orders', u, "money") |-> orders'[o].item.price]
  BY DEF Worths, Worth
<1>4. Worths(orders', u, "days") = [o \in PaidFor(orders', u, "days") |-> orders'[o].item.days]
  BY DEF Worths, Worth
<1>. QED
  BY <1>1, <1>2, <1>3, <1>4, Zenon DEF Refilled, DaysOrdered, Total

\* What a paid order is worth is a natural, and so are its totals.
LEMMA TotalType ==
    ASSUME NEW os \in Books, IsFiniteSet(Ordered(os)), NEW u, NEW k
    PROVE  /\ IsFiniteSet(PaidFor(os, u, k))
           /\ \A o \in PaidFor(os, u, k) : Worths(os, u, k)[o] \in Nat
           /\ Total(os, u, k) \in Nat
<1> DEFINE S == PaidFor(os, u, k)
           f == Worths(os, u, k)
<1>1. IsFiniteSet(S)
  <2>1. S \subseteq Ordered(os)
    BY DEF PaidFor, Paid, Ordered
  <2>. QED  BY <2>1, FS_Subset
<1>2. DOMAIN f = S /\ \A o \in S : f[o] = Worth(os[o].item, k)
  BY DEF Worths
<1>3. \A o \in S : f[o] \in Nat
  <2>1. \A o \in S : os[o] \in Bill
    BY DEF PaidFor, Paid, Books
  <2>2. \A o \in S : os[o].item \in Goods
    BY <2>1 DEF Bill
  <2>3. \A g \in Goods : Worth(g, k) \in Nat
    BY BillingAssumption DEF Worth
  <2> HIDE DEF S, f
  <2>. QED  BY <1>2, <2>2, <2>3, Zenon
<1>4. SumFunctionOnSet(f, S) \in Nat
  <2> HIDE DEF S, f
  <2>. QED  BY <1>1, <1>3, SumType
<1>5. Total(os, u, k) = SumFunctionOnSet(f, S)
  BY <1>2, Zenon DEF Total, SumFunction
<1>. QED
  BY <1>1, <1>3, <1>4, <1>5, Zenon

\* Orders that are not paid count for nothing.
LEMMA TotalKept ==
    ASSUME NEW os \in Books, NEW ns \in Books, NEW u, NEW k,
           \A o \in Order : ns[o] = os[o] \/ (~ Paid(os, o) /\ ~ Paid(ns, o))
    PROVE  Total(ns, u, k) = Total(os, u, k)
<1>1. PaidFor(ns, u, k) = PaidFor(os, u, k) /\ \A o \in PaidFor(os, u, k) : ns[o] = os[o]
  BY DEF PaidFor, Paid
<1>2. Worths(ns, u, k) = Worths(os, u, k)
  BY <1>1 DEF Worths
<1>. QED
  BY <1>2, Zenon DEF Total

\* A payment adds the worth of its order to one total of its buyer.
LEMMA TotalGrows ==
    ASSUME NEW os \in Books, IsFiniteSet(Ordered(os)), NEW o \in Order, NEW b \in Bill,
           NEW ns, Pays(os, ns, o, b), NEW u, NEW k
    PROVE  /\ u = b.user /\ k = Kind(b.item) => Total(ns, u, k) = Worth(b.item, k) + Total(os, u, k)
           /\ u # b.user \/ k # Kind(b.item) => Total(ns, u, k) = Total(os, u, k)
<1>1. ns \in Books /\ ns[o] = b /\ b # NoOrder /\ \A p \in Order : p # o => ns[p] = os[p]
  BY BillingAssumption DEF Books, Pays
<1>2. IsFiniteSet(Ordered(ns))
  <2>1. Ordered(ns) = Ordered(os)
    BY <1>1 DEF Ordered, Pays
  <2>. QED  BY <2>1
<1>3. Total(os, u, k) \in Nat
  BY TotalType
<1>4. o \notin PaidFor(os, u, k)
  BY DEF PaidFor, Pays
<1>5. CASE u = b.user /\ k = Kind(b.item)
  <2>1. PaidFor(ns, u, k) = PaidFor(os, u, k) \cup {o}
    BY <1>1, <1>5 DEF PaidFor, Paid, Pays
  <2> DEFINE f == Worths(ns, u, k)
             g == Worths(os, u, k)
  <2>2. DOMAIN f = PaidFor(ns, u, k) /\ DOMAIN g = PaidFor(os, u, k)
    BY DEF Worths
  <2>3. f[o] = Worth(b.item, k)
    BY <1>1, <2>1 DEF Worths
  <2>4. \A p \in DOMAIN g : g[p] = f[p]
    <3>0. \A p \in PaidFor(os, u, k) : p \in Order /\ p # o
      BY <1>4 DEF PaidFor
    <3>1. \A p \in PaidFor(os, u, k) : ns[p] = os[p] /\ p \in PaidFor(ns, u, k)
      BY <1>1, <3>0, <2>1, Zenon
    <3>. QED  BY <2>2, <3>1 DEF Worths
  <2>5. IsFiniteSet(DOMAIN g)
    BY <2>2, TotalType
  <2>6. \A p \in DOMAIN f : f[p] \in Int
    BY <1>1, <1>2, <2>2, TotalType
  <2> HIDE DEF f, g
  <2>7. SumFunction(f) = f[o] + SumFunction(g)
    BY <1>4, <2>1, <2>2, <2>4, <2>5, <2>6, SumExtends
  <2>8. f[o] \in Int
    BY <2>1, <2>2, <2>6
  <2>9. Total(ns, u, k) = SumFunction(f) /\ Total(os, u, k) = SumFunction(g)
    BY Zenon DEF Total, f, g
  <2>. QED
    BY <1>5, <2>3, <2>7, <2>9
<1>6. CASE ~ (u = b.user /\ k = Kind(b.item))
  <2>1. PaidFor(ns, u, k) = PaidFor(os, u, k) /\ \A p \in PaidFor(os, u, k) : ns[p] = os[p]
    BY <1>1, <1>4, <1>6 DEF PaidFor, Paid
  <2>2. Worths(ns, u, k) = Worths(os, u, k)
    BY <2>1 DEF Worths
  <2>3. Total(ns, u, k) = Total(os, u, k)
    BY <2>2, Zenon DEF Total
  <2>. QED
    BY <1>6, <2>3
<1>. QED
  BY <1>5, <1>6

\* The entries of one account: its money and the days to its end are those of
\* its paid orders, its administrators and its own purchases.
Entries(a, u) ==
    /\ a[u].balance + spent[u] = added[u] + Total(orders, u, "money")
    /\ a[u].expires - now <= bought[u] + Total(orders, u, "days")

Ledger ==
    /\ IsFiniteSet(Ordered(orders))
    /\ \A u \in User : acct[u] # Gone => Entries(acct, u)

LEMMA LedgerInit == Init => Ledger
<1> SUFFICES ASSUME Init PROVE Ledger
  OBVIOUS
<1>1. Ordered(orders) = {}
  BY DEF Init, Ordered
<1>2. IsFiniteSet(Ordered(orders))
  BY <1>1, FS_EmptySet
<1>3. orders \in Books
  BY DEF Init, Books
<1>4. ASSUME NEW u \in User PROVE Entries(acct, u)
  <2>1. \A k : PaidFor(orders, u, k) = {}
    BY DEF Init, PaidFor, Paid
  <2>2. \A k : DOMAIN Worths(orders, u, k) = {}
    BY <2>1 DEF Worths
  <2>3. ASSUME NEW k PROVE Total(orders, u, k) = 0
    <3>1. SumFunctionOnSet(Worths(orders, u, k), {}) = 0
      BY FS_EmptySet, SumEquation, Zenon
    <3>. QED  BY <2>2, <3>1, Zenon DEF Total, SumFunction
  <2>4. /\ acct[u].balance = 0 /\ acct[u].expires = 0 /\ now = 1
        /\ spent[u] = 0 /\ added[u] = 0 /\ bought[u] = 0
    BY DEF Init
  <2>. QED
    BY <2>3, <2>4 DEF Entries
<1>. QED
  BY <1>2, <1>4 DEF Ledger

\* The numbers in an entry.
LEMMA EntryTypes ==
    ASSUME TypeOK, Ledger, NEW u \in User, acct[u] # Gone
    PROVE  /\ acct[u] \in Account
           /\ acct[u].balance \in Int /\ acct[u].expires \in Nat /\ now \in Nat
           /\ spent[u] \in Nat /\ added[u] \in Int /\ bought[u] \in Nat
           /\ Total(orders, u, "money") \in Nat /\ Total(orders, u, "days") \in Nat
           /\ acct[u].balance + spent[u] = added[u] + Total(orders, u, "money")
           /\ acct[u].expires - now <= bought[u] + Total(orders, u, "days")
<1>1. orders \in Books
  BY DEF TypeOK, Books
<1>2. Total(orders, u, "money") \in Nat /\ Total(orders, u, "days") \in Nat
  BY <1>1, TotalType DEF Ledger
<1>3. now \in Nat
  BY BillingAssumption DEF TypeOK
<1>. QED
  BY <1>2, <1>3 DEF TypeOK, Ledger, Entries, Account

\* What a delivery does to the entry of the buyer.
LEMMA DeliveredEntry ==
    ASSUME TypeOK, NEW a \in Account, NEW g \in Goods, NEW n \in Nat,
           a.expires - now <= n
    PROVE  /\ Delivered(a, g).balance =
                a.balance + IF "money" = Kind(g) THEN Worth(g, "money") ELSE 0
           /\ Delivered(a, g).expires - now <=
                n + IF "days" = Kind(g) THEN Worth(g, "days") ELSE 0
<1>1. g.days \in Nat /\ g.price \in Nat /\ now \in Nat
  BY BillingAssumption DEF TypeOK
<1>2. a.expires \in Nat /\ a.balance \in Int /\ NewExpiry(a, g) \in Nat
  BY <1>1 DEF NewExpiry, Account
<1>3. CASE g.plan = Recharge
  <2>1. Delivered(a, g) = [a EXCEPT !.balance = a.balance + g.price]
    BY <1>3 DEF Delivered
  <2>2. Delivered(a, g).balance = a.balance + g.price /\ Delivered(a, g).expires = a.expires
    BY <2>1 DEF Account
  <2>. QED  BY <1>1, <1>2, <1>3, <2>2 DEF Kind, Worth
<1>4. CASE g.plan # Recharge
  <2>1. Delivered(a, g) = [a EXCEPT !.plan = g.plan, !.expires = NewExpiry(a, g)]
    BY <1>4 DEF Delivered
  <2>2. Delivered(a, g).balance = a.balance /\ Delivered(a, g).expires = NewExpiry(a, g)
    BY <2>1 DEF Account
  <2>3. NewExpiry(a, g) - now <= n + g.days
    BY <1>1, <1>2 DEF NewExpiry
  <2>. QED  BY <1>1, <1>2, <1>4, <2>2, <2>3 DEF Kind, Worth
<1>. QED
  BY <1>3, <1>4

\* Every payment is entered once.
LEMMA PaymentEntered ==
    ASSUME TypeOK, Ledger, NEW o \in Order, orders[o] # NoOrder, NEW t \in Tx \cup {NoTx},
           MarkOrderPaid(o, t), UNCHANGED <<now, history>>
    PROVE  Ledger'
<1> USE DEF history
<1>0. orders \in Books
  BY DEF TypeOK, Books
<1>1. CASE UNCHANGED books
  BY <1>1 DEF books, Ledger, Entries
<1>2. ASSUME NEW b \in Bill, NEW c \in Account \cup {Gone},
             orders[o] \in Bill, orders[o].status # "paid", b.status = "paid",
             orders' = [orders EXCEPT ![o] = b],
             acct' = [acct EXCEPT ![b.user] = c],
             c = Gone <=> acct[b.user] = Gone,
             c # Gone => c = Delivered(acct[b.user], b.item)
      PROVE  Ledger'
  <2>1. b.user \in User /\ b.item \in Goods /\ b # NoOrder
    BY BillingAssumption DEF Bill
  <2>2. IsFiniteSet(Ordered(orders'))
    <3>1. Ordered(orders') = Ordered(orders)
      BY <1>2, <2>1 DEF Ordered, TypeOK
    <3>. QED  BY <3>1 DEF Ledger
  <2>3. ASSUME NEW u \in User, acct'[u] # Gone
        PROVE  Entries(acct, u)'
    <3> DEFINE M == Total(orders, u, "money")
               D == Total(orders, u, "days")
               M1 == Total(orders', u, "money")
               D1 == Total(orders', u, "days")
    <3>1. acct[u] # Gone
      BY <1>2, <2>1, <2>3 DEF TypeOK
    <3>2. /\ acct[u] \in Account
          /\ acct[u].balance \in Int /\ acct[u].expires \in Nat /\ now \in Nat
          /\ spent[u] \in Nat /\ added[u] \in Int /\ bought[u] \in Nat
          /\ M \in Nat /\ D \in Nat
          /\ acct[u].balance + spent[u] = added[u] + M
          /\ acct[u].expires - now <= bought[u] + D
      BY <3>1, EntryTypes
    <3>3. ASSUME NEW k
          PROVE  /\ u = b.user /\ k = Kind(b.item)
                      => Total(orders', u, k) = Worth(b.item, k) + Total(orders, u, k)
                 /\ u # b.user \/ k # Kind(b.item) => Total(orders', u, k) = Total(orders, u, k)
      <4>1. IsFiniteSet(Ordered(orders))
        BY DEF Ledger
      <4>2. Pays(orders, orders', o, b)
        BY <1>2 DEF Pays, Paid
      <4>. QED  BY <1>0, <4>1, <4>2, TotalGrows
    <3>4. /\ M1 = (IF u = b.user /\ "money" = Kind(b.item) THEN Worth(b.item, "money") ELSE 0) + M
          /\ D1 = (IF u = b.user /\ "days" = Kind(b.item) THEN Worth(b.item, "days") ELSE 0) + D
      BY <3>2, <3>3
    <3> HIDE DEF M, D, M1, D1
    <3>5. CASE u # b.user
      <4>1. acct'[u] = acct[u]
        BY <1>2, <2>1, <3>5 DEF TypeOK
      <4>2. M1 = M /\ D1 = D
        BY <3>2, <3>4, <3>5
      <4>3. /\ acct'[u].balance + spent'[u] = added'[u] + M1
            /\ acct'[u].expires - now' <= bought'[u] + D1
        BY <3>2, <4>1, <4>2
      <4>. QED  BY <4>3 DEF Entries, M1, D1
    <3>6. CASE u = b.user
      <4>1. acct'[u] = Delivered(acct[u], b.item)
        BY <1>2, <2>1, <2>3, <3>6 DEF TypeOK
      <4>2. bought[u] + D \in Nat
        BY <3>2
      <4>3. /\ Delivered(acct[u], b.item).balance =
                 acct[u].balance + IF "money" = Kind(b.item) THEN Worth(b.item, "money") ELSE 0
            /\ Delivered(acct[u], b.item).expires - now <=
                 (bought[u] + D) + IF "days" = Kind(b.item) THEN Worth(b.item, "days") ELSE 0
        BY <2>1, <3>2, <4>2, DeliveredEntry
      <4>4. Worth(b.item, "money") \in Nat /\ Worth(b.item, "days") \in Nat
        BY <2>1, BillingAssumption DEF Worth
      <4> DEFINE m == IF "money" = Kind(b.item) THEN Worth(b.item, "money") ELSE 0
                 d == IF "days" = Kind(b.item) THEN Worth(b.item, "days") ELSE 0
      <4>5. m \in Nat /\ d \in Nat
        BY <4>4
      <4>6. acct'[u].balance = acct[u].balance + m /\ acct'[u].expires - now <= (bought[u] + D) + d
        BY <4>1, <4>3
      <4>7. M1 = m + M /\ D1 = d + D
        BY <3>4, <3>6
      <4> HIDE DEF m, d
      <4>8. /\ acct'[u].balance + spent'[u] = added'[u] + M1
            /\ acct'[u].expires - now' <= bought'[u] + D1
        BY <3>2, <4>5, <4>6, <4>7
      <4>. QED  BY <4>8 DEF Entries, M1, D1
    <3>. QED  BY <3>5, <3>6
  <2>. QED
    BY <2>2, <2>3 DEF Ledger
<1>. QED
  BY <1>1, <1>2, PaysOnce

LEMMA LedgerStep == TypeOK /\ Ledger /\ [Next]_vars => Ledger'
<1> SUFFICES ASSUME TypeOK, Ledger, [Next]_vars PROVE Ledger'
  OBVIOUS
<1> USE DEF books, history
<1>1. ASSUME NEW o \in Order, NEW u \in User, NEW g \in Goods, CreateOrder(o, u, g) PROVE Ledger'
  <2> DEFINE b == [user |-> u, item |-> g, status |-> "pending", tx |-> NoTx]
  <2>1. b \in Bill /\ b # NoOrder /\ b.status # "paid"
    BY BillingAssumption DEF Bill
  <2>2. orders' = [orders EXCEPT ![o] = b] /\ orders[o] = NoOrder
    BY <1>1 DEF CreateOrder
  <2> HIDE DEF b
  <2>3. orders \in Books /\ orders' \in Books
    BY <2>1, <2>2 DEF TypeOK, Books
  <2>4. IsFiniteSet(Ordered(orders'))
    <3>1. Ordered(orders') = Ordered(orders) \cup {o}
      BY <2>1, <2>2, <2>3 DEF Ordered, Books
    <3>. QED  BY <3>1, FS_AddElement DEF Ledger
  <2>5. \A p \in Order : orders'[p] = orders[p] \/ (~ Paid(orders, p) /\ ~ Paid(orders', p))
    BY <2>1, <2>2, <2>3 DEF Paid, Books
  <2>6. \A v, k : Total(orders', v, k) = Total(orders, v, k)
    BY <2>3, <2>5, TotalKept
  <2>7. UNCHANGED <<acct, now, spent, added, bought>>
    BY <1>1 DEF CreateOrder
  <2>. QED
    BY <2>4, <2>6, <2>7 DEF Ledger, Entries
<1>2. ASSUME NEW o \in Order, Notify(o) PROVE Ledger'
  <2>1. orders[o] # NoOrder /\ MarkOrderPaid(o, NoTx) /\ UNCHANGED <<now, history>>
    BY <1>2 DEF Notify, TypeOK
  <2>. QED  BY <2>1, PaymentEntered
<1>3. ASSUME NEW r \in Request, Activate(r) PROVE Ledger'
  <2>1. req[r] \in Verification /\ req[r] # Idle
    BY <1>3 DEF Activate, TypeOK, Idle
  <2>2. /\ req[r].order \in Order /\ req[r].tx \in Tx \cup {NoTx}
        /\ MarkOrderPaid(req[r].order, req[r].tx)
        /\ orders[req[r].order] # NoOrder
        /\ UNCHANGED <<now, history>>
    BY <1>3, <2>1 DEF Activate, Verification, TypeOK
  <2>. QED  BY <2>2, PaymentEntered
\* The other actions leave the orders alone.
<1> DEFINE Other ==
       \/ UNCHANGED <<acct, now, spent, added, bought>>
       \/ \E v \in User, g \in WalletGoods : PayPlanWithBalance(v, g)
       \/ \E v \in User : RenewProfileWithBalance(v)
       \/ AutoRenew \/ AutoRenewInPart
       \/ \E v \in User, b \in BOOLEAN : UpdateAutoRenew(v, b)
       \/ \E v \in User, p \in Plan \cup {Keep}, e \in GrantDays \cup {-1, 0}, m \in Grants \cup {0} :
            AdminUpdateUser(v, p, e, m)
       \/ \E v \in User : AdminDeleteUser(v)
       \/ Tick
<1>4. SUFFICES ASSUME orders' = orders, Other, NEW u \in User, acct'[u] # Gone
               PROVE  acct[u] # Gone /\ Entries(acct, u)'
  <2>1. \/ orders' = orders /\ Other
        \/ \E o \in Order, u \in User, g \in Goods : CreateOrder(o, u, g)
        \/ \E o \in Order : Notify(o)
        \/ \E r \in Request : Activate(r)
    BY Zenon DEF Next, vars, Settle, Transfer, Verify, CheckUnused, Match, GiveUp,
       PayPlanWithBalance, RenewProfileWithBalance, AutoRenew, AutoRenewInPart, RenewAll, UpdateAutoRenew,
       AdminUpdateUser, AdminDeleteUser, Tick
  <2> HIDE DEF Other
  <2>2. orders' = orders /\ Other => Ledger'
    BY <1>4 DEF Ledger
  <2>. QED  BY <1>1, <1>2, <1>3, <2>1, <2>2
<1> DEFINE M == Total(orders, u, "money")
           D == Total(orders, u, "days")
<1>5. M' = M /\ D' = D
  BY <1>4
<1>6. ASSUME acct[u] # Gone
      PROVE  /\ acct[u] \in Account
             /\ acct[u].balance \in Int /\ acct[u].expires \in Nat /\ now \in Nat
             /\ spent[u] \in Nat /\ added[u] \in Int /\ bought[u] \in Nat
             /\ M \in Nat /\ D \in Nat
             /\ acct[u].balance + spent[u] = added[u] + M
             /\ acct[u].expires - now <= bought[u] + D
  BY <1>6, EntryTypes
<1> DEFINE Holds == /\ acct'[u].balance + spent'[u] = added'[u] + M
                    /\ acct'[u].expires - now' <= bought'[u] + D
<1>7. SUFFICES acct[u] # Gone /\ Holds
  BY <1>5 DEF Entries
<1> HIDE DEF M, D
<1>8. CASE acct'[u] = acct[u] /\ now' \in {now, now + 1} /\ UNCHANGED <<spent[u], added[u], bought[u]>>
  BY <1>4, <1>6, <1>8
<1>9. ASSUME NEW v \in User, NEW g \in WalletGoods, PayPlanWithBalance(v, g)
      PROVE  acct[u] # Gone /\ Holds
  <2>1. /\ acct[v] \in Account
        /\ g.price \in Nat \ {0} /\ g.days \in Nat
        /\ acct' = [acct EXCEPT ![v] = acct'[v]]
        /\ acct'[v] \in Account
        /\ acct'[v].balance = acct[v].balance - g.price
        /\ acct'[v].expires = Extended(acct[v].expires, g.days)
        /\ spent' = [spent EXCEPT ![v] = spent[v] + g.price]
        /\ bought' = [bought EXCEPT ![v] = bought[v] + g.days]
        /\ UNCHANGED <<now, added>>
    BY <1>9, PurchaseOf DEF PayPlanWithBalance
  <2>2. CASE u # v
    <3>1. acct'[u] = acct[u] /\ spent'[u] = spent[u] /\ bought'[u] = bought[u]
      BY <2>1, <2>2 DEF TypeOK
    <3>. QED  BY <1>8, <2>1, <3>1
  <2>3. CASE u = v
    <3>1. acct[u] # Gone
      BY <1>9, <2>3 DEF PayPlanWithBalance
    <3>2. /\ Extended(acct[u].expires, g.days) = now + g.days
             \/ Extended(acct[u].expires, g.days) = acct[u].expires + g.days
      BY <1>6, <2>1, <3>1, ExtendedFrom
    <3>3. spent'[u] = spent[u] + g.price /\ bought'[u] = bought[u] + g.days
      BY <2>1, <2>3 DEF TypeOK
    <3>4. /\ acct'[u].balance = acct[u].balance - g.price
          /\ acct'[u].expires = now + g.days \/ acct'[u].expires = acct[u].expires + g.days
          /\ added'[u] = added[u] /\ now' = now
      BY <2>1, <2>3, <3>2
    <3>. QED  BY <1>6, <2>1, <3>1, <3>3, <3>4
  <2>. QED  BY <2>2, <2>3
<1>10. ASSUME NEW U \in SUBSET {v \in User : acct[v] # Gone}, RenewAll(U)
       PROVE  acct[u] # Gone /\ Holds
  <2>1. UNCHANGED <<now, added>>
    BY <1>10 DEF RenewAll
  <2>2. CASE acct'[u] = acct[u] /\ spent'[u] = spent[u] /\ bought'[u] = bought[u]
    BY <1>8, <2>1, <2>2
  <2>3. CASE /\ u \in U
             /\ Monthly[acct[u].plan] \in Nat \ {0}
             /\ acct'[u].balance = acct[u].balance - Monthly[acct[u].plan]
             /\ acct'[u].expires = Extended(acct[u].expires, RenewDays)
             /\ spent'[u] = spent[u] + Monthly[acct[u].plan]
             /\ bought'[u] = bought[u] + RenewDays
    <3>1. acct[u] # Gone /\ RenewDays \in Nat
      BY <2>3, BillingAssumption
    <3>2. \/ acct'[u].expires = now + RenewDays
          \/ acct'[u].expires = acct[u].expires + RenewDays
      BY <1>6, <2>3, <3>1, ExtendedFrom
    <3> DEFINE price == Monthly[acct[u].plan]
    <3>3. price \in Nat /\ acct'[u].balance = acct[u].balance - price /\ spent'[u] = spent[u] + price
      BY <2>3
    <3> HIDE DEF price
    <3>. QED  BY <1>6, <2>1, <2>3, <3>1, <3>2, <3>3
  <2>. QED  BY <1>10, <2>2, <2>3, RenewsEach
<1>11. ASSUME NEW v \in User, NEW b \in BOOLEAN, UpdateAutoRenew(v, b)
       PROVE  acct[u] # Gone /\ Holds
  <2>1. acct' = [acct EXCEPT ![v] = [acct[v] EXCEPT !.autoRenew = b]] /\ acct[v] # Gone
    BY <1>11 DEF UpdateAutoRenew
  <2>2. acct[u] # Gone
    BY <1>4, <2>1 DEF TypeOK
  <2>3. acct'[u].balance = acct[u].balance /\ acct'[u].expires = acct[u].expires
    BY <1>6, <2>1, <2>2 DEF TypeOK, Account
  <2>4. UNCHANGED <<now, spent, added, bought>>
    BY <1>11 DEF UpdateAutoRenew
  <2>. QED  BY <1>6, <2>2, <2>3, <2>4
<1>12. ASSUME NEW v \in User, NEW p \in Plan \cup {Keep}, NEW e \in GrantDays \cup {-1, 0},
              NEW m \in Grants \cup {0}, AdminUpdateUser(v, p, e, m)
       PROVE  acct[u] # Gone /\ Holds
  <2>0. m \in Int /\ (e = -1 \/ e \in Nat)
    BY BillingAssumption
  <2> DEFINE p2 == IF p = Keep THEN acct[v].plan ELSE p
             e2 == Dated(acct[v], e)
             b2 == acct[v].balance + m
             c == [acct[v] EXCEPT !.plan = p2, !.expires = e2, !.balance = b2]
  <2>1. /\ acct[v] # Gone
        /\ acct' = [acct EXCEPT ![v] = c]
        /\ added' = [added EXCEPT ![v] = added[v] + m]
        /\ bought' = [bought EXCEPT ![v] = IF e = -1 THEN bought[v] ELSE bought[v] + e]
        /\ UNCHANGED <<now, spent>>
    BY <1>12 DEF AdminUpdateUser
  <2>2. CASE u # v
    <3> HIDE DEF c
    <3>1. acct'[u] = acct[u] /\ added'[u] = added[u] /\ bought'[u] = bought[u]
      BY <2>1, <2>2 DEF TypeOK
    <3>. QED  BY <1>8, <2>1, <3>1
  <2>3. CASE u = v
    <3> HIDE DEF p2, e2, b2
    <3>1. acct[u] # Gone
      BY <2>1, <2>3
    <3>2. c.balance = b2 /\ c.expires = e2
      BY <1>6, <2>3, <3>1 DEF Account
    <3> HIDE DEF c
    <3>3. /\ acct'[u] = c /\ added'[u] = added[u] + m
          /\ bought'[u] = IF e = -1 THEN bought[u] ELSE bought[u] + e
      BY <2>1, <2>3 DEF TypeOK
    <3>4. b2 = acct[u].balance + m /\ e2 = Dated(acct[u], e)
      BY <2>3 DEF b2, e2
    <3>5. /\ e = -1 => e2 = acct[u].expires
          /\ e = 0 => e2 = 0
          /\ e # -1 /\ e # 0 => e2 = now + e
      BY <3>4 DEF Dated
    <3>6. acct'[u].balance = acct[u].balance + m /\ acct'[u].expires = e2
      BY <3>2, <3>3, <3>4
    <3>7. acct'[u].balance + spent'[u] = added'[u] + M
      BY <1>6, <2>0, <2>1, <3>1, <3>3, <3>6
    <3>8. acct'[u].expires - now' <= bought'[u] + D
      BY <1>6, <2>0, <2>1, <3>1, <3>3, <3>5, <3>6
    <3>. QED  BY <3>1, <3>7, <3>8
  <2>. QED  BY <2>2, <2>3
<1>13. ASSUME NEW v \in User, AdminDeleteUser(v)
       PROVE  acct[u] # Gone /\ Holds
  <2>1. acct' = [acct EXCEPT ![v] = Gone] /\ UNCHANGED <<now, spent, added, bought>>
    BY <1>13 DEF AdminDeleteUser
  <2>2. acct'[u] = acct[u]
    BY <1>4, <2>1 DEF TypeOK
  <2>. QED  BY <1>8, <2>1, <2>2
<1>14. CASE Tick
  BY <1>8, <1>14 DEF Tick
<1>15. CASE AutoRenew \/ AutoRenewInPart
  BY <1>10, <1>15 DEF AutoRenew, AutoRenewInPart, Renewable
<1>16. ASSUME NEW v \in User, RenewProfileWithBalance(v)
       PROVE  acct[u] # Gone /\ Holds
  BY <1>10, <1>16 DEF RenewProfileWithBalance
<1>17. CASE UNCHANGED <<acct, now, spent, added, bought>>
  BY <1>8, <1>17
<1>. QED
  BY <1>4, <1>9, <1>11, <1>12, <1>13, <1>14, <1>15, <1>16, <1>17

\* Every wallet holds its paid recharges and what administrators added, less what
\* it paid, for any users and orders, whoever reports a payment and how often.
THEOREM BillingAccountsBalance == Spec => []BalanceAccounted
<1>1. TypeOK /\ Ledger => BalanceAccounted
  BY Totals DEF Ledger, Entries, BalanceAccounted
<1>. QED
  BY <1>1, LedgerInit, LedgerStep, BillingTypes, PTL DEF Spec

\* No plan outlasts the days its user, his orders and his administrators paid.
THEOREM BillingAccountsTime == Spec => []TimeAccounted
<1>1. TypeOK /\ Ledger => TimeAccounted
  BY Totals DEF Ledger, Entries, TimeAccounted
<1>. QED
  BY <1>1, LedgerInit, LedgerStep, BillingTypes, PTL DEF Spec

(***************************************************************************)
(* Transfers and the orders they pay                                       *)
(***************************************************************************)
\* The orders a transfer has paid, and the verifications that have found it
\* unused and may still pay another with it.
Using(t) == {o \in Order : orders[o] # NoOrder /\ orders[o].tx = t}
Looked(t) == {r \in Request : req[r].at \in {"unused", "matched"} /\ req[r].tx = t}

\* Verifications look only while no order is paid with the transfer, so that the
\* two together never exceed the verifications there may be.
FewUses ==
    /\ \A o \in Order : orders[o] # NoOrder /\ orders[o].tx # NoTx => orders[o].status = "paid"
    /\ \A t \in Tx : /\ IsFiniteSet(Using(t))
                     /\ Cardinality(Using(t)) + Cardinality(Looked(t)) <= Cardinality(Request)

LEMMA LookedFinite ==
    ASSUME NEW R \in SUBSET Request
    PROVE  IsFiniteSet(R) /\ Cardinality(R) \in Nat /\ Cardinality(R) <= Cardinality(Request)
BY BillingAssumption, FS_Subset, FS_CardinalityType

LEMMA FewInit == Init => FewUses
<1> SUFFICES ASSUME Init PROVE FewUses
  OBVIOUS
<1>1. ASSUME NEW t \in Tx
      PROVE  /\ IsFiniteSet(Using(t))
             /\ Cardinality(Using(t)) + Cardinality(Looked(t)) <= Cardinality(Request)
  <2>1. Using(t) = {} /\ Looked(t) = {}
    BY DEF Init, Using, Looked, Idle
  <2>2. Cardinality(Request) \in Nat
    BY BillingAssumption, FS_CardinalityType
  <2>. QED  BY <2>1, <2>2, FS_EmptySet
<1>. QED
  BY <1>1 DEF Init, FewUses

\* Fewer verifications that have looked, the same orders.
LEMMA FewerLook ==
    ASSUME FewUses, NEW t \in Tx, Using(t)' = Using(t), Looked(t)' \subseteq Looked(t)
    PROVE  /\ IsFiniteSet(Using(t)')
           /\ Cardinality(Using(t)') + Cardinality(Looked(t)') <= Cardinality(Request)
<1>1. IsFiniteSet(Using(t)) /\ Cardinality(Using(t)) \in Nat
  BY FS_CardinalityType DEF FewUses
<1>2. Looked(t) \in SUBSET Request
  BY DEF Looked
<1>3. /\ IsFiniteSet(Looked(t)) /\ Cardinality(Looked(t)) \in Nat
      /\ Cardinality(Looked(t)') \in Nat /\ Cardinality(Looked(t)') <= Cardinality(Looked(t))
  BY <1>2, LookedFinite, FS_Subset, FS_CardinalityType
<1>4. Cardinality(Request) \in Nat
  BY BillingAssumption, FS_CardinalityType
<1>. QED
  BY <1>1, <1>3, <1>4 DEF FewUses

\* A payment with the transfer of a verification that has looked, or with none.
LEMMA FewPayment ==
    ASSUME TypeOK, FewUses, NEW o \in Order, orders[o] # NoOrder, NEW t \in Tx \cup {NoTx},
           MarkOrderPaid(o, t)
    PROVE  /\ \A p \in Order : orders'[p] # NoOrder /\ orders'[p].tx # NoTx
                                 => orders'[p].status = "paid"
           /\ \A s \in Tx : s # t => Using(s)' = Using(s)
           /\ t \in Tx => Using(t)' = Using(t)
                            \/ (Using(t)' = Using(t) \cup {o} /\ o \notin Using(t))
<1>1. CASE UNCHANGED books
  BY <1>1 DEF books, FewUses, Using
<1>2. ASSUME NEW b \in Bill, orders[o] \in Bill, orders[o].status # "paid",
             b.status = "paid", b.tx = t, orders' = [orders EXCEPT ![o] = b]
      PROVE  /\ \A p \in Order : orders'[p] # NoOrder /\ orders'[p].tx # NoTx
                                   => orders'[p].status = "paid"
             /\ \A s \in Tx : s # t => Using(s)' = Using(s)
             /\ t \in Tx => Using(t)' = Using(t) \cup {o} /\ o \notin Using(t)
  <2>1. orders[o].tx = NoTx /\ b # NoOrder
    BY <1>2, BillingAssumption DEF FewUses
  <2>2. orders'[o] = b /\ \A p \in Order : p # o => orders'[p] = orders[p]
    BY <1>2 DEF TypeOK
  <2>3. \A s \in Tx : o \notin Using(s)
    BY <2>1, BillingAssumption DEF Using
  <2>4. \A s \in Tx : s # t => Using(s)' = Using(s)
    BY <1>2, <2>1, <2>2, <2>3 DEF Using
  <2>5. t \in Tx => Using(t)' = Using(t) \cup {o}
    BY <1>2, <2>1, <2>2 DEF Using
  <2>6. \A p \in Order : orders'[p] # NoOrder /\ orders'[p].tx # NoTx
                           => orders'[p].status = "paid"
    BY <1>2, <2>2 DEF FewUses
  <2>. QED
    BY <2>3, <2>4, <2>5, <2>6
<1>. QED
  BY <1>1, <1>2, PaysOnce

LEMMA FewStep == TypeOK /\ FewUses /\ [Next]_vars => FewUses'
<1> SUFFICES ASSUME TypeOK, FewUses, [Next]_vars PROVE FewUses'
  OBVIOUS
<1> USE DEF books
<1> DEFINE Few(t) == /\ IsFiniteSet(Using(t)')
                     /\ Cardinality(Using(t)') + Cardinality(Looked(t)') <= Cardinality(Request)
<1>1. ASSUME NEW o \in Order, NEW u \in User, NEW g \in Goods, CreateOrder(o, u, g)
      PROVE  FewUses'
  <2> DEFINE b == [user |-> u, item |-> g, status |-> "pending", tx |-> NoTx]
  <2>1. b # NoOrder /\ b.tx = NoTx
    <3>1. b \in Bill
      BY DEF Bill
    <3>. QED  BY <3>1, BillingAssumption
  <2>2. orders' = [orders EXCEPT ![o] = b] /\ orders[o] = NoOrder /\ req' = req
    BY <1>1 DEF CreateOrder
  <2> HIDE DEF b
  <2>3. orders'[o] = b /\ \A p \in Order : p # o => orders'[p] = orders[p]
    BY <2>2 DEF TypeOK
  <2>4. \A t \in Tx : Using(t)' = Using(t) /\ Looked(t)' = Looked(t)
    BY <2>1, <2>2, <2>3, BillingAssumption DEF Using, Looked
  <2>5. \A p \in Order : orders'[p] # NoOrder /\ orders'[p].tx # NoTx => orders'[p].status = "paid"
    BY <2>1, <2>2, <2>3 DEF FewUses
  <2>6. \A t \in Tx : Few(t)
    BY <2>4, FewerLook
  <2>. QED
    BY <2>5, <2>6 DEF FewUses
<1>2. ASSUME NEW o \in Order, Notify(o) PROVE FewUses'
  <2>1. orders[o] # NoOrder /\ MarkOrderPaid(o, NoTx) /\ req' = req
    BY <1>2 DEF Notify, TypeOK
  <2>2. /\ \A p \in Order : orders'[p] # NoOrder /\ orders'[p].tx # NoTx => orders'[p].status = "paid"
        /\ \A s \in Tx : Using(s)' = Using(s)
    BY <2>1, FewPayment, BillingAssumption
  <2>3. \A s \in Tx : Looked(s)' = Looked(s)
    BY <2>1 DEF Looked
  <2>4. \A t \in Tx : Few(t)
    BY <2>2, <2>3, FewerLook
  <2>. QED
    BY <2>2, <2>4 DEF FewUses
<1>3. ASSUME NEW r \in Request, Activate(r) PROVE FewUses'
  <2>1. req[r] \in Verification /\ req[r] # Idle
    BY <1>3 DEF Activate, TypeOK, Idle
  <2>0. PICK o \in Order, t \in Tx : o = req[r].order /\ t = req[r].tx
    BY <2>1 DEF Verification
  <2>2. orders[o] # NoOrder /\ MarkOrderPaid(o, t)
    BY <1>3, <2>0, <2>1 DEF Activate, TypeOK
  <2>3. req' = [req EXCEPT ![r] = Idle] /\ req[r].at = "matched"
    BY <1>3 DEF Activate, Ends, Proceed
  <2>4. /\ \A p \in Order : orders'[p] # NoOrder /\ orders'[p].tx # NoTx => orders'[p].status = "paid"
        /\ \A s \in Tx : s # t => Using(s)' = Using(s)
        /\ Using(t)' = Using(t) \/ (Using(t)' = Using(t) \cup {o} /\ o \notin Using(t))
    BY <2>2, FewPayment
  <2>5. \A s \in Tx : Looked(s)' \subseteq Looked(s)
    BY <2>3 DEF Looked, Idle, TypeOK
  <2>6. \A s \in Tx : s # t => Few(s)
    BY <2>4, <2>5, FewerLook
  <2>7. r \in Looked(t) /\ Looked(t)' = Looked(t) \ {r}
    BY <2>0, <2>3 DEF Looked, Idle, TypeOK
  <2>8. CASE Using(t)' = Using(t)
    BY <2>2, <2>4, <2>5, <2>6, <2>8, FewerLook DEF FewUses
  <2>9. CASE Using(t)' = Using(t) \cup {o} /\ o \notin Using(t)
    <3>1. /\ IsFiniteSet(Using(t)) /\ Cardinality(Using(t)) \in Nat
          /\ Cardinality(Using(t)) + Cardinality(Looked(t)) <= Cardinality(Request)
      BY <2>2, FS_CardinalityType DEF FewUses
    <3>2. IsFiniteSet(Using(t)') /\ Cardinality(Using(t)') = Cardinality(Using(t)) + 1
      BY <2>9, <3>1, FS_AddElement
    <3>3. Looked(t) \in SUBSET Request
      BY DEF Looked
    <3>4. Cardinality(Looked(t)) \in Nat /\ Cardinality(Looked(t)') = Cardinality(Looked(t)) - 1
      BY <2>7, <3>3, LookedFinite, FS_RemoveElement
    <3>5. Cardinality(Request) \in Nat
      BY BillingAssumption, FS_CardinalityType
    <3>6. Few(t)
      BY <3>1, <3>2, <3>4, <3>5
    <3>. QED
      BY <2>4, <2>6, <3>6 DEF FewUses
  <2>. QED
    BY <2>4, <2>8, <2>9
\* The other actions leave the orders alone.
<1>4. ASSUME orders' = orders, \A t \in Tx : Looked(t)' \subseteq Looked(t)
      PROVE  FewUses'
  <2>1. \A t \in Tx : Using(t)' = Using(t)
    BY <1>4 DEF Using
  <2>2. \A t \in Tx : Few(t)
    BY <1>4, <2>1, FewerLook
  <2>. QED
    BY <1>4, <2>2 DEF FewUses
<1>5. ASSUME NEW r \in Request, CheckUnused(r) PROVE FewUses'
  <2>1. req[r] \in Verification /\ req[r].at = "found" /\ orders' = orders
    BY <1>5 DEF CheckUnused, TypeOK, Idle
  <2>0. PICK t \in Tx : t = req[r].tx
    BY <2>1 DEF Verification
  <2>2. CASE IsTxIDUsed(t)
    <3>1. req' = [req EXCEPT ![r] = Idle]
      BY <1>5, <2>0, <2>2 DEF CheckUnused, Ends, Proceed
    <3>2. \A s \in Tx : Looked(s)' \subseteq Looked(s)
      BY <3>1 DEF Looked, Idle, TypeOK
    <3>. QED  BY <1>4, <2>1, <3>2
  <2>3. CASE ~ IsTxIDUsed(t)
    <3> DEFINE v == [req[r] EXCEPT !.at = "unused"]
    <3>1. req' = [req EXCEPT ![r] = v]
      BY <1>5, <2>0, <2>3 DEF CheckUnused, Proceed
    <3>2. v.tx = t
      BY <2>0, <2>1 DEF Verification
    <3> HIDE DEF v
    <3>3. \A s \in Tx : s # t => Looked(s)' \subseteq Looked(s)
      BY <3>1, <3>2 DEF Looked, TypeOK
    <3>4. Using(t) = {}
      BY <2>3, BillingAssumption DEF IsTxIDUsed, IsPaid, Using, FewUses
    <3>5. \A s \in Tx : Using(s)' = Using(s)
      BY <2>1 DEF Using
    <3>6. \A s \in Tx : s # t => Few(s)
      BY <3>3, <3>5, FewerLook
    <3>7. Looked(t)' \in SUBSET Request
      BY DEF Looked
    <3>8. Few(t)
      BY <3>2, <3>4, <3>5, <3>7, LookedFinite, FS_EmptySet
    <3>. QED
      BY <2>1, <3>6, <3>8 DEF FewUses
  <2>. QED  BY <2>2, <2>3
<1>6. ASSUME NEW r \in Request, Match(r) PROVE FewUses'
  <2>1. /\ req[r] \in Verification /\ req[r].at = "unused" /\ orders' = orders
        /\ req' = [req EXCEPT ![r] = [req[r] EXCEPT !.at = "matched"]]
    BY <1>6 DEF Match, Proceed, TypeOK, Idle
  <2>2. [req[r] EXCEPT !.at = "matched"].tx = req[r].tx
    BY <2>1 DEF Verification
  <2>3. \A s \in Tx : Looked(s)' \subseteq Looked(s)
    BY <2>1, <2>2 DEF Looked, TypeOK
  <2>. QED  BY <1>4, <2>1, <2>3
<1>7. ASSUME NEW r \in Request, GiveUp(r) PROVE FewUses'
  <2>1. orders' = orders /\ req' = [req EXCEPT ![r] = Idle]
    BY <1>7 DEF GiveUp, Ends, Proceed
  <2>2. \A s \in Tx : Looked(s)' \subseteq Looked(s)
    BY <2>1 DEF Looked, Idle, TypeOK
  <2>. QED  BY <1>4, <2>1, <2>2
<1>8. ASSUME NEW r \in Request, NEW o \in Order, NEW t \in Tx, Verify(r, o, t) PROVE FewUses'
  <2> DEFINE v == [at |-> "found", order |-> o, tx |-> t]
  <2>1. orders' = orders /\ req' = [req EXCEPT ![r] = v]
    BY <1>8 DEF Verify, Proceed
  <2>2. v.at = "found"
    OBVIOUS
  <2> HIDE DEF v
  <2>3. \A s \in Tx : Looked(s)' \subseteq Looked(s)
    BY <2>1, <2>2 DEF Looked, TypeOK
  <2>. QED  BY <1>4, <2>1, <2>3
<1>9. CASE orders' = orders /\ req' = req
  BY <1>4, <1>9 DEF Looked
<1>10. \/ orders' = orders /\ req' = req
       \/ \E o \in Order, u \in User, g \in Goods : CreateOrder(o, u, g)
       \/ \E o \in Order : Notify(o)
       \/ \E r \in Request, o \in Order, t \in Tx : Verify(r, o, t)
       \/ \E r \in Request : CheckUnused(r) \/ Match(r) \/ Activate(r) \/ GiveUp(r)
  BY Zenon DEF Next, vars, Settle, Transfer, PayPlanWithBalance, RenewProfileWithBalance,
     AutoRenew, AutoRenewInPart, RenewAll, UpdateAutoRenew, AdminUpdateUser, AdminDeleteUser, Tick
<1>. QED
  BY <1>1, <1>2, <1>3, <1>5, <1>6, <1>7, <1>8, <1>9, <1>10

\* However verifications and notifications interleave, a transfer pays no more
\* orders than there may be verifications at once.
THEOREM BillingTxPaysFew == Spec => []TxPaysFew
<1>1. ASSUME FewUses, NEW t \in Tx
      PROVE  Cardinality(Using(t)) <= Cardinality(Request)
  <2>1. Looked(t) \in SUBSET Request
    BY DEF Looked
  <2>2. Cardinality(Looked(t)) \in Nat /\ Cardinality(Using(t)) \in Nat /\ Cardinality(Request) \in Nat
    BY <1>1, <2>1, LookedFinite, BillingAssumption, FS_CardinalityType DEF FewUses
  <2>. QED  BY <1>1, <2>2 DEF FewUses
<1>2. FewUses => TxPaysFew
  BY <1>1 DEF TxPaysFew, Using
<1>. QED
  BY <1>2, FewInit, FewStep, BillingTypes, PTL DEF Spec
=============================================================================
