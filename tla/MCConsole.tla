------------------------------ MODULE MCConsole ------------------------------
(***************************************************************************)
(* One host with the default line and a provincial one, and two addresses, *)
(* one of which is searched for.                                           *)
(***************************************************************************)
EXTENDS Console, TLC

CONSTANTS www, v1, v2

MCLine == {<<"def">>, <<"ct", "bj">>}
MCSeed == [k \in {www} \X MCLine |-> IF k[2] = <<"def">> THEN v1 ELSE NoVal]
=============================================================================
