-------------------------- MODULE MCHorizonAccess --------------------------
(* Every elevation profile of fifteen ticks sampled every three: passes    *)
(* and gaps shorter than, as long as and longer than a step, up to three   *)
(* crossings between two samples, passes at the start and at the end.      *)
EXTENDS HorizonAccess
=============================================================================
