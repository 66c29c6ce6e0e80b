\* Three concurrent requests over one KV value, from an empty namespace.
SPECIFICATION Spec
CONSTANTS
    za = za  zb = zb  zc = zc  k1 = k1  ct = ct  ip = ip  na = na  nb = nb
    u1 = u1  u2 = u2  p1 = p1  p2 = p2  demo = demo  r1 = r1  r2 = r2  r3 = r3
    Zone = {za, zb, zc}
    Key = {k1}
    Line = {ct}
    Vals = {ip}
    Name = {na, nb}
    Within <- MCWithin
    Bound <- MCBound
    Pass = {p1, p2}
    Cred <- MCCred
    Req = {r1, r2, r3}
    SeedZone <- MCSeedZone
    SeedRec <- MCSeedRec
    SeedTok <- MCSeedTok
    SeedCred <- MCSeedCred
    DemoToken = demo
    NoName = NoName  NoRec = NoRec  NoStore = NoStore  NoOp = NoOp  NoCred = NoCred
SYMMETRY Requests
CHECK_DEADLOCK FALSE
INVARIANTS
    TypeOK
    TokensHosted
PROPERTIES
    LossNeedsOverlap
    LoginMintsItsOwn
