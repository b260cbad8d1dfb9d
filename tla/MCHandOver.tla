----------------------------- MODULE MCHandOver -----------------------------
(* HandOver for TLC: one account, one trade; two invocations only where the lease is
   the question. *)
EXTENDS HandOver, TLC

CONSTANTS u1, t1, w1, w2

OwnersOfOne == (t1 :> u1)
AgesOfOne == (t1 :> 1)
=============================================================================
