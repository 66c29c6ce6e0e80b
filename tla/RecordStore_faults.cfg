\* One lost transaction or load.
SPECIFICATION Spec
CONSTANTS
    z1 = z1  z2 = z2  z3 = z3  k1 = k1  ct = ct  cm = cm  gd = gd  n1 = n1
    ip = ip  empty = empty  blank = blank
    alice = alice  admin = admin
    Zone = {z1, z2, z3}
    Key = {k1}
    Line = {ct, gd}
    Province = {gd}
    CFLine = {ct}
    Name = {n1}
    KeyIn <- MCKeyIn
    Vals = {ip}
    DynVals = {ip}
    Stored <- MCStored
    TTLs = {60, 600}
    Token = {t1}
    User = {alice, admin}
    Admin = {admin}
    Root = admin
    Limit <- MCLimit
    Seed <- MCSeed
    SeedRec <- MCSeedRec
    SeedTok <- MCSeedTok
    MaxFaults = 1
    NoUser = NoUser  NoRec = NoRec  NoKey = NoKey  NoTarget = NoTarget
INVARIANTS
    TypeOK
    SlotsAgree
    ZonesAgree
    TokensAgree
    QuotaHolds
    ZonesServed
PROPERTY
    OwnersAreStable
