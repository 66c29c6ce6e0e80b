\* Orders, gateway notifications, the wallet, renewals, administrators.
SPECIFICATION Spec
CONSTANTS
    junior = junior  senior = senior  t1 = t1
    Free = Free  Recharge = Recharge
    Gone = Gone  NoOrder = NoOrder  NoTx = NoTx  Keep = Keep
    User = {u1}
    Order = {o1, o2}
    Tx = {t1}
    Request = {r1}
    Goods <- MCGoods
    WalletGoods <- MCWalletGoods
    Covers <- MCCovers
    Plan = {Free, junior, senior}
    Monthly <- MCMonthly
    RenewDays = 2
    Window = 1
    TxAge = 1
    Grants <- MCGrants
    GrantDays = {2}
    MaxNow = 4
    MaxGrants = 1
INVARIANTS
    TypeOK
    BalanceAccounted
    TimeAccounted
PROPERTIES
    PaidTimeKept
    ChargesSettle
    LapsedPlansRenew
\* The clock is bounded and a deleted user ends everything.
CHECK_DEADLOCK FALSE
