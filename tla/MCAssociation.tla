--------------------------- MODULE MCAssociation ---------------------------
(* Three observations, of which the middle one names a satellite: two high *)
(* residuals, one medium and one low, so that candidates of one level are  *)
(* ranked and those of one residual tie.                                   *)
EXTENDS Association, TLC

CONSTANTS s1, s2
MCSatellites == {s1, s2}
MCObserved   == <<None, s2, None>>
Symmetry     == Permutations(Ids)
=============================================================================
