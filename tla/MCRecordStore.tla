---------------------------- MODULE MCRecordStore ----------------------------
(***************************************************************************)
(* Zone z2 is nested in z1: name n1 is a record of both, and of no other   *)
(* zone.  Value lists: one address, and the empty list, which reloads as   *)
(* the list of one empty string.                                           *)
(***************************************************************************)
EXTENDS RecordStore, TLC

CONSTANTS z1, z2, z3, k1, ct, cm, gd, n1, ip, empty, blank, alice, admin

MCKeyIn == [p \in Name \X Zone |-> IF p[2] = z3 THEN NoKey ELSE k1]
MCStored == [v \in Vals |-> IF v = empty THEN blank ELSE v]
MCLimit == [u \in User |-> 1]
MCSeed == {<<z1, k1, ct>>}
MCSeedRec == [vals |-> ip, ttl |-> 60]
MCSeedTok == [t \in Token |-> NoTarget]
=============================================================================
