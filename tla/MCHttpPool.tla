----------------------------- MODULE MCHttpPool -----------------------------
(***************************************************************************)
(* A small instance of HttpPool: two leases that share the client of one   *)
(* target, in a process and its child.                                     *)
(***************************************************************************)
EXTENDS HttpPool

CONSTANTS p1, p2, l1, l2, t1

MCOneTarget == [l \in Leases |-> t1]
=============================================================================
