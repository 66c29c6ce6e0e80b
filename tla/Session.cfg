\* Two tabs, two sessions, one fault, and one session that ends or role that changes.
SPECIFICATION Spec
CONSTANTS
    tab1 = tab1  tab2 = tab2  root = root  guest = guest
    Tab = {tab1, tab2}
    Account = {root, guest}
    Root = root
    MaxLogin = 2
    MaxFaults = 1
    MaxEvents = 1
    NoAccount = NoAccount
CHECK_DEADLOCK FALSE
INVARIANTS
    TypeOK
    RoleIsOwn
PROPERTIES
    NeverThrownOut
    DeadSessionNoticed
    LogoutLeaves
