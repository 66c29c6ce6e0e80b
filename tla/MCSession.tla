------------------------------ MODULE MCSession ------------------------------
(***************************************************************************)
(* Two tabs of one browser; the first administrator and a name to register.       *)
(***************************************************************************)
EXTENDS Session

CONSTANTS tab1, tab2, root, guest
=============================================================================
