--------------------------- MODULE MCDirectInvoke ---------------------------
(***************************************************************************)
(* A small instance of DirectInvoke: two concurrent calls, one of them     *)
(* with a deadline, two attempts, one tolerated route miss.                *)
(***************************************************************************)
EXTENDS DirectInvoke

CONSTANTS c1, c2
=============================================================================
