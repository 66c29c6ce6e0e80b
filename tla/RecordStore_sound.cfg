\* No failures: the store implements ZoneRegistry.
SPECIFICATION Spec
CONSTANTS
    z1 = z1  z2 = z2  z3 = z3  k1 = k1  ct = ct  cm = cm  gd = gd  n1 = n1
    ip = ip  empty = empty  blank = blank
    alice = alice  admin = admin
    Zone = {z1, z2}
    Key = {k1}
    Line = {ct, cm, gd}
    Province = {gd}
    CFLine = {ct, cm}
    Name = {n1}
    KeyIn <- MCKeyIn
    Vals = {ip, empty, blank}
    DynVals = {ip}
    Stored <- MCStored
    TTLs = {60}
    Token = {t1}
    User = {alice, admin}
    Admin = {admin}
    Root = admin
    Limit <- MCLimit
    Seed <- MCSeed
    SeedRec <- MCSeedRec
    SeedTok <- MCSeedTok
    MaxFaults = 0
    NoUser = NoUser  NoRec = NoRec  NoKey = NoKey  NoTarget = NoTarget
PROPERTY
    Implements
