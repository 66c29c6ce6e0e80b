------------------------------ MODULE Backoffice ------------------------------
(***************************************************************************)
(* What administrators set and what a buyer gets: the settings page of     *)
(* module Settings together with the billing page, which sells at prices   *)
(* that are settings, and the users page, whose form writes the plan that  *)
(* the buyer may just have bought (static/app.js; store.go, server.go).    *)
(*                                                                         *)
(* There is one account that buys, and one plan, senior, on sale.  Its     *)
(* calls are handled in the step that sends them and answered at any later *)
(* time; the administrator's form is posted as it was filled in.  Wallets, *)
(* days and the checks on a transfer are module Billing's: here they       *)
(* always pass, and an answer may be lost.                                 *)
(***************************************************************************)
EXTENDS Settings, Sequences

CONSTANTS
    MaxOrders       \* bound: USDT orders

Cycle == {"monthly", "quarterly"}
PriceKey == [monthly |-> "price_monthly", quarterly |-> "price_quarterly"]
Plan == {"free", "junior", "senior"}     \* and "gone" after AdminDeleteUser
Item == {"senior", "recharge"}
Kind == {"billing", "order", "recharge", "users", "wallet", "verified", "saved"}

\* (A price of 0 is refused by one purchase and replaced by the other.)
ASSUME BackofficeAssumption ==
    /\ \A c \in Cycle : PriceKey[c] \in Key
    /\ Value \subseteq Nat \ {0}
    /\ \A c \in Cycle : Stored[PriceKey[c]] \in Value
    /\ MaxOrders \in Nat

VARIABLES
    plan,       \* column users.plan of the buyer
    orders,     \* the buyer's orders, oldest first: what, and whether paid
    offer,      \* the prices on the billing page, by cycle
    cycle,      \* the selected cycle
    display,    \* the price in large digits
    card,       \* the order on the USDT card, 0 if the card is hidden
    row,        \* the buyer's plan in the table of users
    form,       \* the administrator's form
    post,       \* forms on their way to the server
    answers,    \* answers on their way to the buyer and the administrator
    due,        \* history: the plan last bought, or chosen by an administrator
    bill        \* history: the last purchase and what the page said of it

shop == <<offer, cycle, display, card>>
desk == <<row, form, post>>
officeVars == <<plan, orders, shop, desk, answers, due, bill>>
vars == <<settingsVars, counters, officeVars>>

\* The form is for the buyer or for a new account; its select shows a plan,
\* which somebody may have chosen in it, and it was opened from a row.
Forms == [shown : BOOLEAN, new : BOOLEAN, plan : Plan, chosen : BOOLEAN,
          row : Plan \cup {NoValue}]

\* What an answer of each kind tells: prices, an order, a plan, or nothing.
Told(kind) ==
    CASE kind = "billing" -> [Cycle -> Value]
      [] kind \in {"order", "recharge"} -> 1..Len(orders)
      [] kind = "users" -> Plan \cup {"gone"}
      [] kind \in {"wallet", "verified", "saved"} -> {0}

OfficeTypeOK ==
    /\ plan \in Plan \cup {"gone"}
    /\ orders \in Seq([item : Item, paid : BOOLEAN]) /\ Len(orders) <= MaxOrders
    /\ offer \in [Cycle -> Value]
    /\ cycle \in Cycle /\ display \in Value
    /\ card \in 0..Len(orders)
    /\ row \in Plan \cup {"gone"}
    /\ form \in Forms /\ post \subseteq Forms
    /\ \A a \in answers :
         /\ a.kind \in Kind
         /\ a \in [kind : {a.kind}, tells : Told(a.kind)]
    /\ due \in Plan \cup {"gone"}

TypeOK == SettingsTypeOK /\ OfficeTypeOK

(***************************************************************************)
(* The billing page                                                        *)
(***************************************************************************)
Answer(kind, what) == [kind |-> kind, tells |-> what]
Offered == [c \in Cycle |-> settings[PriceKey[c]]]

handleBilling == Answer("billing", Offered)

BuyerClicks == plan # "gone" /\ clicks < MaxClicks /\ clicks' = clicks + 1

OpenBilling ==
    /\ BuyerClicks
    /\ answers' = answers \cup {handleBilling}
    /\ UNCHANGED <<settingsVars, faults, plan, orders, shop, desk, due, bill>>

KeepsDisplay(c) == display                                      \* mutant

updatePriceDisplay(c) == offer[c]

SelectCycle ==
    /\ BuyerClicks
    /\ cycle' \in Cycle \ {cycle}
    /\ display' = updatePriceDisplay(cycle')
    /\ UNCHANGED <<settingsVars, faults, plan, orders, offer, card, desk, answers, due, bill>>

\* A wallet pays the monthly price, times the months, less ten per cent for
\* a quarter, whatever the settings say of quarters.
CalculatePlanPrice(c) ==
    IF c = "monthly" THEN settings["price_monthly"]
                     ELSE (27 * settings["price_monthly"]) \div 10

Billed(cost, wallet) ==
    bill' = {[cost |-> cost, display |-> display, offered |-> offer[cycle],
              listed |-> Offered[cycle], wallet |-> wallet, cycle |-> cycle]}

\* placeOrder with the balance; the wallet may be too small (module Billing).
PayPlanWithBalance ==
    /\ BuyerClicks
    /\ plan' = "senior" /\ due' = "senior"
    /\ Billed(CalculatePlanPrice(cycle), TRUE)
    /\ answers' = answers \cup {Answer("wallet", 0)}
    /\ UNCHANGED <<settingsVars, faults, orders, shop, desk>>

\* The order is stored before the address is looked for: without one the call
\* is refused and the order stays.
CreateOrder(item, kind) ==
    /\ BuyerClicks
    /\ Len(orders) < MaxOrders
    /\ orders' = Append(orders, [item |-> item, paid |-> FALSE])
    /\ answers' = IF settings["usdt_trc20_address"] = NoValue THEN answers
                  ELSE answers \cup {Answer(kind, Len(orders) + 1)}
    /\ UNCHANGED <<settingsVars, faults, plan, shop, desk, due>>

placeOrder == CreateOrder("senior", "order") /\ Billed(Offered[cycle], FALSE)
submitRecharge == CreateOrder("recharge", "recharge") /\ UNCHANGED bill

\* The order on the card, with a transfer the server accepts.  An order that
\* is paid already is confirmed once more.
verifyUsdtOrder ==
    /\ card # 0
    /\ BuyerClicks
    /\ orders' = [orders EXCEPT ![card].paid = TRUE]
    /\ IF orders[card].paid \/ orders[card].item = "recharge"
         THEN UNCHANGED <<plan, due>>
         ELSE plan' = orders[card].item /\ due' = orders[card].item
    /\ answers' = answers \cup {Answer("verified", 0)}
    /\ UNCHANGED <<settingsVars, faults, shop, desk, bill>>

\* loadBillingPage draws the cards anew, with the first cycle selected.
BillingLoaded(a) ==
    /\ a.kind = "billing"
    /\ offer' = a.tells
    /\ cycle' = "monthly"
    /\ display' = a.tells["monthly"]
    /\ answers' = answers \ {a}
    /\ UNCHANGED card

\* A new order takes the card; a verified one hides it, whichever it shows.
ShopAnswer(a) ==
    /\ a.kind \in {"wallet", "order", "recharge", "verified"}
    /\ answers' = (answers \ {a}) \cup IF a.kind = "order" THEN {} ELSE {handleBilling}
    /\ card' = IF a.kind = "wallet" THEN card ELSE IF a.kind = "verified" THEN 0 ELSE a.tells
    /\ UNCHANGED <<offer, cycle, display>>

(***************************************************************************)
(* The users page                                                          *)
(***************************************************************************)
ManagerClicks == clicks < MaxClicks /\ clicks' = clicks + 1

OpenUsers ==
    /\ ManagerClicks
    /\ answers' = answers \cup {Answer("users", plan)}
    /\ UNCHANGED <<settingsVars, faults, plan, orders, shop, desk, due, bill>>

Fills(f) ==
    /\ ~form.shown
    /\ ManagerClicks
    /\ form' = f
    /\ UNCHANGED <<settingsVars, faults, plan, orders, shop, row, post, answers, due, bill>>

openAdminCreateUserModal ==
    Fills([shown |-> TRUE, new |-> TRUE, plan |-> "free", chosen |-> FALSE, row |-> NoValue])

KeepsPlan(p) ==                                                 \* mutant
    [shown |-> TRUE, new |-> FALSE, plan |-> form.plan, chosen |-> FALSE, row |-> p]

\* The dialog is filled from the row, not from the server.
EditForm(p) ==
    [shown |-> TRUE, new |-> FALSE, plan |-> p, chosen |-> FALSE, row |-> p]

openAdminEditUserModal == row \in Plan /\ Fills(EditForm(row))

\* The select is changed; closing the dialog leaves it as it is.
ChoosePlan ==
    /\ form.shown
    /\ \E p \in Plan \ {form.plan} : form' = [form EXCEPT !.plan = p, !.chosen = TRUE]
    /\ ManagerClicks
    /\ UNCHANGED <<settingsVars, faults, plan, orders, shop, row, post, answers, due, bill>>

closeAdminUserModal ==
    /\ form.shown
    /\ form' = [form EXCEPT !.shown = FALSE]
    /\ UNCHANGED <<settingsVars, counters, plan, orders, shop, row, post, answers, due, bill>>

\* The dialog stays open until the answer.
saveAdminUser ==
    /\ form.shown
    /\ ManagerClicks
    /\ post' = post \cup {form}
    /\ UNCHANGED <<settingsVars, faults, plan, orders, shop, row, form, answers, due, bill>>

\* No row is changed for an account that is gone.  due follows a choice, and
\* a form opened from a row that no longer told the buyer's plan.
AdminUpdateUser(f) ==
    /\ ~f.new
    /\ plan' = IF plan = "gone" THEN plan ELSE f.plan
    /\ due' = IF plan # "gone" /\ (f.chosen \/ f.row # due) THEN f.plan ELSE due

AdminCreateUser(f) == f.new /\ UNCHANGED <<plan, due>>

ServeForm(f) ==
    /\ AdminUpdateUser(f) \/ AdminCreateUser(f)
    /\ post' = post \ {f}
    /\ answers' = answers \cup {Answer("saved", 0)}
    /\ UNCHANGED <<settingsVars, counters, orders, shop, row, form, bill>>

\* The request is lost, or UPDATE fails, which the handler does not notice.
UpdateFails(f) ==
    /\ faults < MaxFaults
    /\ faults' = faults + 1
    /\ post' = post \ {f}
    /\ answers' \in {answers, answers \cup {Answer("saved", 0)}}
    /\ UNCHANGED <<settingsVars, clicks, plan, orders, shop, row, form, due, bill>>

deleteAdminUser ==
    /\ row \in Plan /\ ~form.shown
    /\ ManagerClicks
    /\ plan' = "gone" /\ due' = "gone"
    /\ answers' = answers \cup {Answer("users", "gone")}
    /\ UNCHANGED <<settingsVars, faults, orders, shop, desk, bill>>

\* loadUsersTable
UsersLoaded(a) ==
    /\ a.kind = "users"
    /\ row' = a.tells
    /\ answers' = answers \ {a}
    /\ UNCHANGED form

FormAnswered(a) ==
    /\ a.kind = "saved"
    /\ form' = [form EXCEPT !.shown = FALSE]
    /\ answers' = (answers \ {a}) \cup {Answer("users", plan)}
    /\ UNCHANGED row

-----------------------------------------------------------------------------
OfficeInit ==
    /\ plan = "junior" /\ due = "junior"
    /\ orders = <<>>
    /\ offer = Offered
    /\ cycle = "monthly"
    /\ display = offer[cycle]
    /\ card = 0
    /\ row = plan
    /\ form = [shown |-> FALSE, new |-> TRUE, plan |-> "free", chosen |-> FALSE, row |-> NoValue]
    /\ post = {} /\ answers = {}
    /\ bill = {}

Buys ==
    \/ OpenBilling \/ SelectCycle \/ PayPlanWithBalance
    \/ placeOrder \/ submitRecharge \/ verifyUsdtOrder

Administers ==
    \/ OpenUsers \/ openAdminCreateUserModal \/ openAdminEditUserModal
    \/ ChoosePlan \/ closeAdminUserModal \/ saveAdminUser \/ deleteAdminUser
    \/ \E f \in post : ServeForm(f) \/ UpdateFails(f)

OfficeAnswer(a) ==
    /\ \/ (BillingLoaded(a) \/ ShopAnswer(a)) /\ UNCHANGED desk
       \/ (UsersLoaded(a) \/ FormAnswered(a)) /\ UNCHANGED <<shop, post>>
    /\ UNCHANGED <<settingsVars, counters, plan, orders, due, bill>>

LoseAnswer(a) ==
    /\ faults < MaxFaults
    /\ faults' = faults + 1
    /\ answers' = answers \ {a}
    /\ UNCHANGED <<settingsVars, clicks, plan, orders, shop, desk, due, bill>>

Init == SettingsInit /\ OfficeInit

Next ==
    \/ SettingsNext /\ UNCHANGED officeVars
    \/ Buys
    \/ Administers
    \/ \E a \in answers : OfficeAnswer(a) \/ LoseAnswer(a)

Spec == Init /\ [][Next]_vars

(***************************************************************************)
(* Properties                                                              *)
(***************************************************************************)
\* What an order or a purchase from the wallet costs is the price in large
\* digits above its button, through changes of the selected cycle, reloads of
\* the page and changes of the settings.  It differs in two cases only: the
\* settings changed after the page was loaded, and the wallet is asked to pay
\* for more than a month.
ChargedAsShown ==
    \A b \in bill :
        \/ b.cost = b.display
        \/ b.offered # b.listed
        \/ b.wallet /\ b.cycle # "monthly"

\* The buyer has the plan last bought, or last chosen by an administrator: a
\* form that is saved for another of its fields writes the plan back, and
\* takes nothing away unless the row it was opened from was out of date.
BuyerKeepsPlan == plan = due
=============================================================================
