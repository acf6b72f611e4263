-------------------------- MODULE MCJobDispatcher --------------------------
(* Small instances of JobDispatcher for TLC.                               *)
EXTENDS JobDispatcher, TLC

CONSTANTS g1, g2, g3, t1, t2

MCTenantOf == g1 :> t1 @@ g2 :> t1 @@ g3 :> t2
=============================================================================
