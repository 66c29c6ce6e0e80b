\* The comment on the last resort of Lookup.
SPECIFICATION Spec
CONSTANTS
    ct = ct  ctgd = ctgd  cu = cu  Def = Def  NoLine = NoLine
    IP = {ip1, ip2}
    Line = {ct, ctgd, Def}
    Client = {ctgd, cu, Def}
    Base <- MCBase
    MaxRecs = 3
INVARIANTS
    LastResortOnly
