------------------------ MODULE MCBatchLeastSquares ------------------------
(* A small instance of the solver: observations at two epochs, one of them *)
(* or both or none passed by the caller, one a priori of each kind that    *)
(* reset() treats differently, and limits below, at and above the two      *)
(* iterations convergence takes.                                           *)
EXTENDS SolverPartials

At(t) == [epoch |-> t, anchor |-> FALSE]

MCObservationSets == {{}, {At(2)}, {At(2), At(3)}}
MCAPrioris == {[type |-> "MeanKozaiGP", epoch |-> 0],
               [type |-> "MeanBrouwerXP", epoch |-> 1]}
MCIterationLimits == {0, 1, 3}
=============================================================================
