-------------------------------- MODULE Billing --------------------------------
(***************************************************************************)
(* Plans, wallets and orders: tables users and orders, the operations of   *)
(* MemoryStore on them, and the handlers of pkg/web that settle an order.  *)
(*                                                                         *)
(* Each store operation holds s.mu throughout and is one action; both      *)
(* tables are on disk, so a restart only loses requests in flight.  A USDT *)
(* verification takes and releases the lock three times and waits for the  *)
(* chain in between: it is a process with a step for each.  A transaction  *)
(* or statement that fails changes nothing and is a step not taken.        *)
(*                                                                         *)
(* Time is in days.  Prices are fixed; an order keeps the price it had.    *)
(***************************************************************************)
EXTENDS Integers, FiniteSets, Functions

CONSTANTS
    User,
    Order,          \* order identifiers
    Tx,             \* transfers to the wallet of the site, as tx hashes
    Request,        \* verifications that may be in flight at once
    Goods,          \* what an order may buy: [plan, price, days]
    WalletGoods,    \* the same, at the prices and days of the wallet
    Covers,         \* Covers[t]: the prices that transfer t pays, within 0.1 USDT
    Plan,
    Free,           \* the plan "free"
    Recharge,       \* the plan of an order that fills the wallet
    Monthly,        \* Monthly[p]: CalculatePlanPrice(p, "monthly")
    RenewDays,      \* 30
    Window,         \* 3: how long before its end a plan is renewed
    TxAge,          \* 1: how old an accepted transfer may be
    Grants,         \* balances an administrator may add
    GrantDays,      \* days of the administrator's form: +30d, +365d
    MaxNow,         \* bound: the clock
    MaxGrants,      \* bound: changes by administrators
    Gone, NoOrder, NoTx, Keep

Account == [balance : Int, plan : Plan, expires : Nat, autoRenew : BOOLEAN]
Bill == [user : User, item : Goods, status : {"pending", "paid"}, tx : Tx \cup {NoTx}]

ASSUME BillingAssumption ==
    /\ Free \in Plan
    /\ Recharge \notin Plan
    /\ Goods \subseteq [plan : Plan \cup {Recharge}, price : Nat, days : Nat]
    /\ \A g \in Goods : g.plan # Recharge => g.days > 0
    /\ WalletGoods \subseteq [plan : Plan, price : Nat \ {0}, days : Nat]
    /\ Monthly \in [Plan -> Nat \ {0}]
    /\ Covers \in [Tx -> SUBSET Nat]
    /\ Grants \subseteq Int
    /\ GrantDays \subseteq Nat
    /\ {RenewDays, Window, TxAge, MaxGrants} \subseteq Nat
    /\ MaxNow \in Nat \ {0}
    /\ Window < RenewDays
    /\ \A g \in WalletGoods : Window < g.days
    /\ IsFiniteSet(Request)
    /\ NoTx \notin Tx
    /\ Gone \notin Account
    /\ NoOrder \notin Bill
    /\ Keep \notin Plan

VARIABLES
    acct,       \* table users; Gone after AdminDeleteUser, whose ids stay unused
    orders,     \* table orders
    now,
    settled,    \* orders whose buyer has paid at the payment gateway
    sentAt,     \* the day a transfer was made, 0 if it was not
    req,        \* verifications in flight: [at, order, tx]
    grants,     \* changes by administrators so far
    added,      \* history: what administrators have put into a wallet
    spent,      \* history: what wallets have paid
    bought      \* history: days wallets have paid, and those administrators gave

books == <<acct, orders>>
history == <<grants, added, spent, bought>>
vars == <<books, now, settled, sentAt, req, history>>

Idle == [at |-> "idle"]
Stage == {"found", "unused", "matched"}
Verification == [at : Stage, order : Order, tx : Tx]

TypeOK ==
    /\ acct \in [User -> Account \cup {Gone}]
    /\ orders \in [Order -> Bill \cup {NoOrder}]
    /\ now \in 1..MaxNow
    /\ settled \subseteq {o \in Order : orders[o] # NoOrder}
    /\ sentAt \in [Tx -> 0..MaxNow]
    /\ req \in [Request -> Verification \cup {Idle}]
    /\ \A r \in Request : req[r] # Idle => orders[req[r].order] # NoOrder
    /\ grants \in 0..MaxGrants
    /\ added \in [User -> Int]
    /\ spent \in [User -> Nat]
    /\ bought \in [User -> Nat]

Init ==
    /\ acct \in [User -> {[balance |-> 0, plan |-> Free, expires |-> 0, autoRenew |-> b] :
                            b \in BOOLEAN}]
    /\ orders = [o \in Order |-> NoOrder]
    /\ now = 1
    /\ settled = {}
    /\ sentAt = [t \in Tx |-> 0]
    /\ req = [r \in Request |-> Idle]
    /\ grants = 0
    /\ added = [u \in User |-> 0]
    /\ spent = [u \in User |-> 0]
    /\ bought = [u \in User |-> 0]

(***************************************************************************)
(* Orders                                                                  *)
(***************************************************************************)
\* CreateOrder, from handleCreateOrder.
CreateOrder(o, u, g) ==
    /\ acct[u] # Gone
    /\ orders[o] = NoOrder
    /\ orders' = [orders EXCEPT ![o] =
                    [user |-> u, item |-> g, status |-> "pending", tx |-> NoTx]]
    /\ UNCHANGED <<acct, now, settled, sentAt, req, history>>

\* A plan of the same name goes on from its end, another begins today.
StartsToday(a, g) == now + g.days                                     \* mutant
NewExpiry(a, g) ==
    IF a.plan = g.plan /\ a.expires > now THEN a.expires + g.days ELSE now + g.days

\* What an order does to its buyer's account.
Delivered(a, g) ==
    IF g.plan = Recharge
      THEN [a EXCEPT !.balance = @ + g.price]
      ELSE [a EXCEPT !.plan = g.plan, !.expires = NewExpiry(a, g)]

NeverPaid(o) == FALSE                                                 \* mutant
IsPaid(o) == orders[o].status = "paid"

\* MarkOrderPaid: once per order, whoever reports the payment and how often.
\* The order of a deleted user is paid as well; the users table has no row.
MarkOrderPaid(o, t) ==
    IF IsPaid(o)
      THEN UNCHANGED books
      ELSE LET u == orders[o].user
           IN  /\ orders' = [orders EXCEPT ![o].status = "paid", ![o].tx = t]
               /\ acct' = IF acct[u] = Gone
                            THEN acct
                            ELSE [acct EXCEPT ![u] = Delivered(@, orders[o].item)]

\* The buyer pays at the gateway, at any time after the order.  A USDT order has
\* no page there, but a verification takes the orders of every method.
Settle(o) ==
    /\ orders[o] # NoOrder
    /\ settled' = settled \cup {o}
    /\ UNCHANGED <<books, now, sentAt, req, history>>

\* handleEpayNotify, handleMGateNotify: the gateway calls late, again, or never.
\* Its trade number is no transfer's hash.
Notify(o) ==
    /\ o \in settled
    /\ MarkOrderPaid(o, NoTx)
    /\ UNCHANGED <<now, settled, sentAt, req, history>>

(***************************************************************************)
(* handleVerifyUSDT                                                        *)
(***************************************************************************)
Transfer(t) ==
    /\ sentAt[t] = 0
    /\ sentAt' = [sentAt EXCEPT ![t] = now]
    /\ UNCHANGED <<books, now, settled, req, history>>

Proceed(r, next) == req' = [req EXCEPT ![r] = next]
Ends(r) == Proceed(r, Idle)

\* GetOrder: a paid order is answered at once, a foreign one is refused.
Verify(r, o, t) ==
    /\ req[r] = Idle
    /\ orders[o] # NoOrder
    /\ acct[orders[o].user] # Gone
    /\ ~ IsPaid(o)
    /\ Proceed(r, [at |-> "found", order |-> o, tx |-> t])
    /\ UNCHANGED <<books, now, settled, sentAt, history>>

NeverUsed(t) == FALSE                                                 \* mutant
IsTxIDUsed(t) ==
    \E o \in Order : orders[o] # NoOrder /\ IsPaid(o) /\ orders[o].tx = t

CheckUnused(r) ==
    /\ req[r].at = "found"
    /\ IF IsTxIDUsed(req[r].tx) THEN Ends(r) ELSE Proceed(r, [req[r] EXCEPT !.at = "unused"])
    /\ UNCHANGED <<books, now, settled, sentAt, history>>

\* The answer of TronGrid holds the transfer, young enough, of the order's price.
Match(r) ==
    LET t == req[r].tx
    IN  /\ req[r].at = "unused"
        /\ sentAt[t] # 0
        /\ now - sentAt[t] <= TxAge
        /\ orders[req[r].order].item.price \in Covers[t]
        /\ Proceed(r, [req[r] EXCEPT !.at = "matched"])
        /\ UNCHANGED <<books, now, settled, sentAt, history>>

Activate(r) ==
    /\ req[r].at = "matched"
    /\ MarkOrderPaid(req[r].order, req[r].tx)
    /\ Ends(r)
    /\ UNCHANGED <<now, settled, sentAt, history>>

\* No answer, no such transfer, a failing transaction, or a restart.
GiveUp(r) ==
    /\ req[r] # Idle
    /\ Ends(r)
    /\ UNCHANGED <<books, now, settled, sentAt, history>>

(***************************************************************************)
(* The wallet                                                              *)
(***************************************************************************)
NotExtended(e, days) == e + days                                      \* mutant
\* A plan that has ended starts again today, another goes on from its end.
Extended(e, days) == IF e < now THEN now + days ELSE e + days

CanPay(a, price) == a.balance >= price

Charged(a, price, days) ==
    [a EXCEPT !.balance = @ - price, !.expires = Extended(@, days)]

\* PayPlanWithBalance keeps the remaining time, whatever plan it was for.
PayPlanWithBalance(u, g) ==
    /\ acct[u] # Gone
    /\ CanPay(acct[u], g.price)
    /\ acct' = [acct EXCEPT ![u] = [Charged(@, g.price, g.days) EXCEPT !.plan = g.plan]]
    /\ spent' = [spent EXCEPT ![u] = @ + g.price]
    /\ bought' = [bought EXCEPT ![u] = @ + g.days]
    /\ UNCHANGED <<orders, now, settled, sentAt, req, grants, added>>

\* What one renewal does to the accounts of U.
RenewAll(U) ==
    /\ acct' = [u \in User |-> IF u \in U
                                 THEN Charged(acct[u], Monthly[acct[u].plan], RenewDays)
                                 ELSE acct[u]]
    /\ spent' = [u \in User |-> IF u \in U THEN spent[u] + Monthly[acct[u].plan] ELSE spent[u]]
    /\ bought' = [u \in User |-> IF u \in U THEN bought[u] + RenewDays ELSE bought[u]]
    /\ UNCHANGED <<orders, now, settled, sentAt, req, grants, added>>

RenewProfileWithBalance(u) ==
    /\ acct[u] # Gone
    /\ acct[u].plan # Free
    /\ CanPay(acct[u], Monthly[acct[u].plan])
    /\ RenewAll({u})

ActiveDue(a) == a.autoRenew /\ a.plan # Free /\ a.expires > now /\ a.expires <= now + Window  \* mutant
\* The rows checkAndAutoRenewUsers selects.
Due(a) == a.autoRenew /\ a.plan # Free /\ a.expires > 0 /\ a.expires <= now + Window

Renewable == {u \in User : /\ acct[u] # Gone
                           /\ Due(acct[u])
                           /\ CanPay(acct[u], Monthly[acct[u].plan])}

\* At start-up and every hour, under the lock from the query to the last row.
AutoRenew == RenewAll(Renewable)

\* The statement of some of them fails; its error is dropped, the pass goes on.
AutoRenewInPart == \E U \in SUBSET Renewable : U # Renewable /\ RenewAll(U)

UpdateAutoRenew(u, b) ==
    /\ acct[u] # Gone
    /\ acct' = [acct EXCEPT ![u].autoRenew = b]
    /\ UNCHANGED <<orders, now, settled, sentAt, req, history>>

(***************************************************************************)
(* Administrators and time                                                 *)
(***************************************************************************)
DatedWithoutKeep(a, e) == IF e > 0 THEN now + e ELSE e                 \* mutant
\* The form sends a date counted from today, 0 for none, or -1 to keep the old.
Dated(a, e) == IF e = -1 THEN a.expires ELSE IF e = 0 THEN 0 ELSE now + e

\* AdminUpdateUser: a statement for each field the form fills, none checked, so
\* the fields it keeps are also those whose statement failed.
AdminUpdateUser(u, p, e, m) ==
    LET a == acct[u]
    IN  /\ a # Gone
        /\ grants < MaxGrants
        /\ grants' = grants + 1
        /\ acct' = [acct EXCEPT ![u] = [a EXCEPT
                      !.plan = IF p = Keep THEN @ ELSE p,
                      !.expires = Dated(a, e),
                      !.balance = @ + m]]
        /\ added' = [added EXCEPT ![u] = @ + m]
        /\ bought' = [bought EXCEPT ![u] = IF e = -1 THEN @ ELSE @ + e]
        /\ UNCHANGED <<orders, now, settled, sentAt, req, spent>>

\* The row goes; sessions and orders stay, for foreign keys are off.
AdminDeleteUser(u) ==
    /\ acct[u] # Gone
    /\ acct' = [acct EXCEPT ![u] = Gone]
    /\ UNCHANGED <<orders, now, settled, sentAt, req, history>>

Tick ==
    /\ now < MaxNow
    /\ now' = now + 1
    /\ UNCHANGED <<books, settled, sentAt, req, history>>

Next ==
    \/ \E o \in Order, u \in User, g \in Goods : CreateOrder(o, u, g)
    \/ \E o \in Order : Settle(o) \/ Notify(o)
    \/ \E t \in Tx : Transfer(t)
    \/ \E r \in Request, o \in Order, t \in Tx : Verify(r, o, t)
    \/ \E r \in Request : CheckUnused(r) \/ Match(r) \/ Activate(r) \/ GiveUp(r)
    \/ \E u \in User, g \in WalletGoods : PayPlanWithBalance(u, g)
    \/ \E u \in User : RenewProfileWithBalance(u)
    \/ AutoRenew \/ AutoRenewInPart
    \/ \E u \in User, b \in BOOLEAN : UpdateAutoRenew(u, b)
    \/ \E u \in User, p \in Plan \cup {Keep}, e \in GrantDays \cup {-1, 0}, m \in Grants \cup {0} :
         AdminUpdateUser(u, p, e, m)
    \/ \E u \in User : AdminDeleteUser(u)
    \/ Tick

\* The ticker of StartAutoRenewCron fires for ever, and some day every statement
\* of a pass succeeds.
Spec == Init /\ [][Next]_vars /\ WF_vars(AutoRenew)

(***************************************************************************)
(* Properties                                                              *)
(***************************************************************************)
PaidBy(u) == {o \in Order : orders[o] # NoOrder /\ orders[o].user = u /\ orders[o].status = "paid"}

\* What the paid orders of u put into the wallet, and the days they bought.
Refilled(u) ==
    SumFunction([o \in {p \in PaidBy(u) : orders[p].item.plan = Recharge} |-> orders[o].item.price])
DaysOrdered(u) ==
    SumFunction([o \in {p \in PaidBy(u) : orders[p].item.plan # Recharge} |-> orders[o].item.days])

\* No money appears or is lost: a wallet holds its paid recharges and what
\* administrators added, less what it paid, however often an order's payment is
\* reported, by the gateway, by verifications, or by both.
BalanceAccounted ==
    \A u \in User : acct[u] # Gone => acct[u].balance + spent[u] = added[u] + Refilled(u)

\* No plan outlasts the days paid for it.
TimeAccounted ==
    \A u \in User : acct[u] # Gone => acct[u].expires - now <= bought[u] + DaysOrdered(u)

\* Paid time is lost only to an order for another plan, an administrator or the
\* deletion of the account.
PaidTimeKept ==
    [][\A u \in User :
         acct[u] # Gone /\ acct'[u] # Gone /\ grants' = grants
           => \/ acct'[u].expires >= acct[u].expires
              \/ /\ acct'[u].plan # acct[u].plan
                 /\ PaidBy(u)' # PaidBy(u)]_vars

\* A wallet that pays has the money, and leaves a plan so far from its end that
\* the next round does not charge it again.
ChargesSettle ==
    [][\A u \in User :
         spent'[u] > spent[u] => /\ acct'[u].balance >= 0
                                 /\ acct'[u].expires > now + Window]_vars

\* A transfer pays no more orders than verifications were under way at once: the
\* first to be recorded stops every one that has not looked yet.
TxPaysFew ==
    \A t \in Tx : Cardinality({o \in Order : orders[o] # NoOrder /\ orders[o].tx = t})
                    <= Cardinality(Request)

\* What the comment on IsTxIDUsed is about: a hash another order has used is not
\* accepted again.
TxPaysOnce ==
    \A t \in Tx : Cardinality({o \in Order : orders[o] # NoOrder /\ orders[o].tx = t}) <= 1

\* An ended plan whose user wants it renewed, and has the money, is renewed.
Lapsed(u) ==
    /\ acct[u] # Gone
    /\ acct[u].autoRenew
    /\ acct[u].plan # Free
    /\ acct[u].expires \in 1..(now - 1)
    /\ acct[u].balance >= Monthly[acct[u].plan]

LapsedPlansRenew == \A u \in User : Lapsed(u) ~> ~ Lapsed(u)
=============================================================================
