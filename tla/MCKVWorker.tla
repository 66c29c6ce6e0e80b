----------------------------- MODULE MCKVWorker -----------------------------
(***************************************************************************)
(* Zone za is example.com of the default data, with name na.  Zone zb has  *)
(* three labels and zone zc is its last two: a token for name nb is issued *)
(* when either is hosted, and its updates go to zc.                        *)
(***************************************************************************)
EXTENDS KVWorker, TLC

CONSTANTS za, zb, zc, k1, ct, ip, na, nb, u1, u2, p1, p2, demo, r1, r2, r3

MCWithin == na :> {za} @@ nb :> {zb, zc}
MCBound == na :> <<za, k1, ct>> @@ nb :> <<zc, k1, ct>>
MCCred == {<<u1, p1>>, <<u2, p1>>}
MCSeedZone == {za}
MCSeedRec == [x \in Slot |-> IF x = <<za, k1, ct>> THEN ip ELSE NoRec]
MCSeedTok == [t \in Token |-> IF t = DemoToken THEN na ELSE NoName]
MCSeedCred == <<u1, p1>>

Requests == Permutations(Req)
=============================================================================
