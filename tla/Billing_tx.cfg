\* One transfer, three orders, two verifications at a time.
SPECIFICATION Spec
CONSTANTS
    junior = junior  senior = senior  t1 = t1
    Free = Free  Recharge = Recharge
    Gone = Gone  NoOrder = NoOrder  NoTx = NoTx  Keep = Keep
    User = {u1}
    Order = {o1, o2, o3}
    Tx = {t1}
    Request = {r1, r2}
    Goods <- MCTxGoods
    WalletGoods = {}
    Covers <- MCCovers
    Plan = {Free}
    Monthly <- MCMonthly
    RenewDays = 2
    Window = 1
    TxAge = 1
    Grants = {}
    GrantDays = {}
    MaxNow = 3
    MaxGrants = 0
INVARIANTS
    TxPaysFew
    BalanceAccounted
\* The clock is bounded and a deleted user ends everything.
CHECK_DEADLOCK FALSE
