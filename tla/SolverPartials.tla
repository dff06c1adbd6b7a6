--------------------------- MODULE SolverPartials ---------------------------
(***************************************************************************)
(* Which parameter each column of the solver's linear problem belongs to.  *)
(*                                                                         *)
(* Four functions enumerate the parameters solved for, each with index     *)
(* arithmetic of its own: TLE::build_perturbed_satellites (the columns of  *)
(* BatchLeastSquares::get_jacobians), TLE::get_jacobian, TLE::get_stm and  *)
(* TLE::new_with_delta_x. What a perturbed parameter can change is decided *)
(* by a fifth, TLE::get_xa_tle, which loads different force terms for      *)
(* different element types. A finite difference is abstracted to the       *)
(* parameter that was perturbed, a matrix to the sequence of its columns.  *)
(***************************************************************************)
EXTENDS BatchLeastSquares, Sequences

EquinoctialElements == <<"af", "ag", "chi", "psi", "L", "n">>
Elements == {EquinoctialElements[i] : i \in 1..6}

(* The terms of ForceProperties.                                           *)
ForceTerms == {"drag_coefficient", "srp_coefficient", "mean_motion_dot",
               "mean_motion_dot_dot"}

When(flag, parameter) == IF flag THEN <<parameter>> ELSE <<>>

(* build_perturbed_satellites: the parameter perturbed in each satellite.  *)
PerturbedParameters(drag, srp) ==
  EquinoctialElements \o When(drag, "drag_coefficient") \o When(srp, "srp_coefficient")

(* get_jacobian, which counts the next free column.                        *)
JacobianParameters(drag, srp) ==
  LET next_column == IF drag THEN 8 ELSE 7
  IN  [j \in 1..Columns(drag, srp) |->
         IF j <= 6 THEN EquinoctialElements[j]
         ELSE IF srp /\ j = next_column THEN "srp_coefficient" ELSE "drag_coefficient"]

(* get_stm, where the last column depends on the element type.             *)
StmParameters(type, drag, srp) ==
  LET current_column == IF drag THEN 8 ELSE 7
      srp_or_dot == IF type \in {"MeanBrouwerXP", "Osculating"}
                    THEN "srp_coefficient" ELSE "mean_motion_dot"
  IN  [j \in 1..Columns(drag, srp) |->
         IF j <= 6 THEN EquinoctialElements[j]
         ELSE IF srp /\ j = current_column THEN srp_or_dot ELSE "drag_coefficient"]

(* new_with_delta_x: the entry of delta_x added to each parameter. The     *)
(* radiation pressure takes the last entry, wherever that is.              *)
Corrected(drag, srp) ==
  Elements \union (IF drag THEN {"drag_coefficient"} ELSE {})
           \union (IF srp THEN {"srp_coefficient"} ELSE {})

CorrectionEntry(parameter, len) ==
  IF parameter = "drag_coefficient" THEN 7
  ELSE IF parameter = "srp_coefficient" THEN len
  ELSE CHOOSE i \in 1..6 : EquinoctialElements[i] = parameter

(* get_xa_tle: what the propagator is given. The GP types never see the    *)
(* radiation pressure, the others never the derivatives of the mean motion.*)
LoadedParameters(type) ==
  Elements \union {"drag_coefficient"} \union
    (IF type \in GPTypes THEN {"mean_motion_dot", "mean_motion_dot_dot"}
                         ELSE {"srp_coefficient"})

-----------------------------------------------------------------------------
(* The components of one observation. get_measurement_and_weight_vector    *)
(* takes a value when its sensor also has the noise to weigh it with,      *)
(* fill_predicted_from_state whenever there is a value.                    *)
Optional == {"range", "range_rate", "ra_rate", "dec_rate"}
Noises   == {"range_noise", "range_rate_noise", "angular_rate_noise"}
NoiseOf(component) ==
  IF component \in {"ra_rate", "dec_rate"} THEN "angular_rate_noise"
  ELSE IF component = "range" THEN "range_noise" ELSE "range_rate_noise"

Shape == [values : SUBSET Optional, noises : SUBSET Noises]

MeasuredComponents(shape) ==
  {"ra", "dec"} \union {c \in shape.values : NoiseOf(c) \in shape.noises}

PredictedComponents(shape) == {"ra", "dec"} \union shape.values

-----------------------------------------------------------------------------
(* The parameters the running solve estimates, one per column.             *)
Solved == PerturbedParameters(use_drag, use_srp)

(* Every column of a running solve is that of a parameter the propagator   *)
(* of the estimate is given: the column of one it never sees would be zero *)
(* and the normal matrix singular. new_with_delta_x does not look at the   *)
(* type; only the order of the setters and reset() keep the radiation      *)
(* pressure away from the GP types.                                        *)
ColumnsObservable ==
  Looping => \A j \in 1..Len(Solved) : Solved[j] \in LoadedParameters(current_estimate.type)

(* The correction of a column goes to the parameter that was perturbed in  *)
(* it, although the two functions count columns differently.               *)
CorrectionsAligned ==
  delta_x # 0 =>
    /\ Corrected(use_drag, use_srp) = {Solved[j] : j \in 1..Len(Solved)}
    /\ \A j \in 1..Len(Solved) : CorrectionEntry(Solved[j], delta_x) = j

(* The linear problem a solve sets up is one it can solve and apply.       *)
ColumnsEstimable == ColumnsObservable /\ CorrectionsAligned
=============================================================================
