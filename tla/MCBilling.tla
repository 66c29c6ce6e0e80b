------------------------------- MODULE MCBilling -------------------------------
(***************************************************************************)
(* One user, two plans; months, renewals and the window before the end of  *)
(* a plan scaled down to 3, 2 and 1 days.                                  *)
(***************************************************************************)
EXTENDS Billing

CONSTANTS junior, senior, t1

MCRecharge == [plan |-> Recharge, price |-> 2, days |-> 0]
MCJunior == [plan |-> junior, price |-> 1, days |-> 3]
MCSenior == [plan |-> senior, price |-> 2, days |-> 3]

MCGoods == {MCRecharge, MCJunior, MCSenior}
MCTxGoods == {MCRecharge}
MCWalletGoods == {[plan |-> senior, price |-> 2, days |-> 2]}
MCMonthly == [p \in Plan |-> IF p = senior THEN 2 ELSE 1]

\* The transfer pays a recharge and, within the tolerance, a junior plan.
MCCovers == [t \in Tx |-> {1, 2}]
MCGrants == {1}
=============================================================================
