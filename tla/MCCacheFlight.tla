---------------------------- MODULE MCCacheFlight ----------------------------
(* Instances of CacheFlight for TLC: three callers in one process and one in
   another. *)
EXTENDS CacheFlight, TLC

CONSTANTS c1, c2, c3, d, p1, p2

MCHome == c1 :> p1 @@ c2 :> p1 @@ c3 :> p1 @@ d :> p2
=============================================================================
