-------------------------- MODULE MCEphemerisGrid --------------------------
(* Epochs of a grid, given exactly or, but the last, a tick late (steps    *)
(* may differ by the tolerance in one direction, equal epochs are rounded  *)
(* in two ways), one in the middle of a step, and two at the end that are  *)
(* just the tolerance apart: a grid of them drifts by more than a step.    *)
EXTENDS EphemerisGrid

MCEpochs == {0, 1} \cup {20, 21} \cup {30} \cup {40, 41} \cup {60, 62}
=============================================================================
