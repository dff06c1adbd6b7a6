------------------------- MODULE BatchLeastSquares -------------------------
(***************************************************************************)
(* The solver object of src/src/estimation/batch_least_squares.rs: its     *)
(* inputs, the setters that reset it, the Gauss-Newton loop of solve and   *)
(* of solve_with_maneuver with every early return (`?`) and panic, and the *)
(* caches and results that survive a call.                                 *)
(*                                                                         *)
(* A call holds &mut self, so calls do not interleave; a solve is several  *)
(* steps here because an error can end it after each of them.              *)
(*                                                                         *)
(* Numbers are abstracted to what they were computed from: the weighted    *)
(* RMS is the record of the observations, the model and the revision of    *)
(* the estimate whose residuals it summarises, delta_x is its length, and  *)
(* the measurement, weight and size vectors (always set together) are the  *)
(* observations they were built from.                                      *)
(***************************************************************************)
EXTENDS Integers

CONSTANTS
  ObservationSets,    (* the observation lists a caller passes             *)
  APrioris,           (* the a priori satellites: records [type, epoch]    *)
  IterationLimits,    (* the values of max_iterations                      *)
  SearchWindow,       (* 3/4 of the orbital period, in units of the epochs *)
  EarliestEpoch,      (* bound: no maneuver is searched before this epoch  *)
  None                (* Option::None                                      *)

KeplerianType == {"MeanKozaiGP", "MeanBrouwerGP", "MeanBrouwerXP", "Osculating"}

(* The element types that carry no solar radiation pressure term.          *)
GPTypes == {"MeanKozaiGP", "MeanBrouwerGP"}

(* An observation is its epoch and whether solve_with_maneuver made it up  *)
(* from the a priori orbit to pin the state before the maneuver.           *)
Observation == [epoch : Int, anchor : BOOLEAN]

(* The number of solved-for parameters, the columns of the Jacobian.       *)
Columns(drag, srp) == 6 + (IF drag THEN 1 ELSE 0) + (IF srp THEN 1 ELSE 0)

(* A satellite being estimated: the a priori it came from, its element     *)
(* type and epoch, whether it has an inertial propagator, and how many     *)
(* corrections it received since the loop started.                         *)
Estimate == [a_priori : APrioris, type : KeplerianType, epoch : Int,
             ready : BOOLEAN, revision : Nat]

(* What a weighted RMS summarises.                                         *)
Rms == [obs : SUBSET Observation, a_priori : APrioris,
        columns : 6..8, revision : Nat]

ASSUME BLSAssumption ==
  /\ ObservationSets \subseteq {O \in SUBSET Observation : \A o \in O : ~o.anchor}
  /\ \A a \in APrioris : a.type \in KeplerianType /\ a.epoch \in Int
  /\ IterationLimits \subseteq Nat
  /\ SearchWindow \in Nat
  /\ EarliestEpoch \in Int

ASSUME NoneAssumption ==
  None \notin Int /\ None \notin Rms

VARIABLES
  obs, a_priori, output_keplerian_type, use_drag, use_srp, max_iterations,
  estimate_maneuver,               \* inputs of the solver
  eccentricity_constraint_weight,  \* TRUE: Some(w) with w > 0
  allow_radial_delta_v,            \* FALSE: the search penalises radial delta-V
  current_estimate, iteration_count, weighted_rms, converged,
  delta_x,                         \* 0: None, otherwise its length
  measurements,                    \* cached vectors, or None
  maneuver_epoch, delta_v,         \* delta_v: TRUE for Some
  phase,                           \* where the running call is
  original_obs,                    \* local of solve_with_maneuver
  searched_epoch,                  \* local of solve_with_maneuver
  outcome                          \* how the last reset or solve ended

options == <<max_iterations, eccentricity_constraint_weight, allow_radial_delta_v>>
inputs  == <<a_priori, output_keplerian_type, use_drag, use_srp, estimate_maneuver>>
fit     == <<current_estimate, iteration_count, weighted_rms, converged, delta_x,
             measurements>>
found   == <<maneuver_epoch, delta_v>>
locals  == <<original_obs, searched_epoch>>
vars    == <<obs, options, inputs, fit, found, phase, locals, outcome>>

-----------------------------------------------------------------------------
(* A satellite whose elements are osculating has no propagator:            *)
(* set_keplerian_state refuses to build one.                               *)
Propagates(type) == type # "Osculating"

Init ==
  /\ obs \in ObservationSets
  /\ a_priori \in APrioris
  /\ output_keplerian_type = a_priori.type
  /\ current_estimate = [a_priori |-> a_priori, type |-> a_priori.type,
                         epoch |-> a_priori.epoch,
                         ready |-> Propagates(a_priori.type), revision |-> 0]
  /\ use_drag = FALSE /\ use_srp = FALSE
  /\ max_iterations \in IterationLimits
  /\ estimate_maneuver = FALSE
  /\ eccentricity_constraint_weight = FALSE
  /\ allow_radial_delta_v = TRUE
  /\ iteration_count = 0 /\ converged = FALSE /\ weighted_rms = None
  /\ delta_x = 0 /\ measurements = None
  /\ maneuver_epoch = None /\ delta_v = FALSE
  /\ phase = "idle" /\ original_obs = {} /\ searched_epoch = None
  /\ outcome = "none"

(* Mistakes: one field forgotten among those that are cleared.             *)
ClearFitKeepsMeasurements ==
  /\ iteration_count' = 0 /\ converged' = FALSE /\ weighted_rms' = None
  /\ delta_x' = 0 /\ UNCHANGED measurements

(* What reset, solve and solve_with_maneuver all clear.                    *)
ClearFit ==
  /\ iteration_count' = 0
  /\ converged' = FALSE
  /\ weighted_rms' = None
  /\ delta_x' = 0
  /\ measurements' = None

(* Mistake: a reset that leaves the radiation pressure to the GP types.    *)
ResetKeepsSrp(apriori, type, srp) ==
  /\ ClearFit /\ maneuver_epoch' = None /\ delta_v' = FALSE
  /\ current_estimate' = [a_priori |-> apriori, type |-> type, epoch |-> apriori.epoch,
                          ready |-> TRUE, revision |-> 0]
  /\ use_srp' = srp /\ outcome' = "ok"

(* reset() run on the already updated inputs. Building the TLE of the      *)
(* seeded state can fail, always for osculating elements, and the unwrap   *)
(* then panics before use_srp is looked at.                                *)
Reset(apriori, type, srp) ==
  LET seeded == [a_priori |-> apriori, type |-> type, epoch |-> apriori.epoch,
                 ready |-> TRUE, revision |-> 0]
  IN  /\ ClearFit
      /\ maneuver_epoch' = None
      /\ delta_v' = FALSE
      /\ \/ /\ Propagates(type)
            /\ current_estimate' = seeded
            /\ use_srp' = (srp /\ type \notin GPTypes)
            /\ outcome' = "ok"
         \/ /\ current_estimate' = [seeded EXCEPT !.ready = FALSE]
            /\ use_srp' = srp
            /\ outcome' = "panic"

-----------------------------------------------------------------------------
(* Mistakes: setters without the call of reset().                          *)
SetAPrioriOnly(apriori) ==
  /\ phase = "idle"
  /\ a_priori' = apriori
  /\ UNCHANGED <<obs, options, output_keplerian_type, use_drag, use_srp,
                 estimate_maneuver, fit, found, phase, locals, outcome>>

SetObservationsOnly(new_obs) ==
  /\ phase = "idle"
  /\ obs' = new_obs
  /\ UNCHANGED <<options, inputs, fit, found, phase, locals, outcome>>

SetEstimateManeuverOnly(estimate) ==
  /\ phase = "idle"
  /\ estimate_maneuver' = estimate
  /\ UNCHANGED <<obs, options, a_priori, output_keplerian_type, use_drag, use_srp,
                 fit, found, phase, locals, outcome>>

(* The setters. Those that change the problem end with reset(); those that *)
(* only change how it is solved do not.                                    *)

SetOutputType(type) ==
  /\ phase = "idle"
  /\ output_keplerian_type' = type
  /\ Reset(a_priori, type, use_srp)
  /\ UNCHANGED <<obs, options, a_priori, use_drag, estimate_maneuver, phase, locals>>

SetAPriori(apriori) ==
  /\ phase = "idle"
  /\ a_priori' = apriori
  /\ Reset(apriori, output_keplerian_type, use_srp)
  /\ UNCHANGED <<obs, options, output_keplerian_type, use_drag, estimate_maneuver,
                 phase, locals>>

SetObservations(new_obs) ==
  /\ phase = "idle"
  /\ obs' = new_obs
  /\ Reset(a_priori, output_keplerian_type, use_srp)
  /\ UNCHANGED <<options, a_priori, output_keplerian_type, use_drag,
                 estimate_maneuver, phase, locals>>

SetEstimateDrag(drag) ==
  /\ phase = "idle"
  /\ use_drag' = drag
  /\ Reset(a_priori, output_keplerian_type, use_srp)
  /\ UNCHANGED <<obs, options, a_priori, output_keplerian_type, estimate_maneuver,
                 phase, locals>>

SetEstimateSrp(srp) ==
  /\ phase = "idle"
  /\ Reset(a_priori, output_keplerian_type, srp)
  /\ UNCHANGED <<obs, options, a_priori, output_keplerian_type, use_drag,
                 estimate_maneuver, phase, locals>>

SetEstimateManeuver(estimate) ==
  /\ phase = "idle"
  /\ estimate_maneuver' = estimate
  /\ use_drag' = (use_drag /\ ~estimate)
  /\ Reset(a_priori, output_keplerian_type, use_srp /\ ~estimate)
  /\ UNCHANGED <<obs, options, a_priori, output_keplerian_type, phase, locals>>

SetMaxIterations(limit) ==
  /\ phase = "idle"
  /\ max_iterations' = limit
  /\ UNCHANGED <<obs, eccentricity_constraint_weight, allow_radial_delta_v, inputs,
                 fit, found, phase, locals, outcome>>

SetEccentricityConstraintWeight(weight) ==
  /\ phase = "idle"
  /\ eccentricity_constraint_weight' = weight
  /\ UNCHANGED <<obs, max_iterations, allow_radial_delta_v, inputs, fit, found,
                 phase, locals, outcome>>

SetAllowRadialDeltaV(allow) ==
  /\ phase = "idle"
  /\ allow_radial_delta_v' = allow
  /\ UNCHANGED <<obs, max_iterations, eccentricity_constraint_weight, inputs, fit,
                 found, phase, locals, outcome>>

-----------------------------------------------------------------------------
IsLastEpoch(O, t) == (\E o \in O : o.epoch = t) /\ (\A o \in O : o.epoch <= t)

(* The state solve leaves the fields in before the loop: results and       *)
(* caches cleared, the estimate, warm from the last call, moved to the     *)
(* last observation. An empty list panics in max().unwrap(), a failing     *)
(* propagation returns with everything cleared.                            *)
StartLoop(O, loop) ==
  /\ ClearFit
  /\ \/ /\ current_estimate.ready
        /\ \E t \in {o.epoch : o \in O} :
             /\ IsLastEpoch(O, t)
             /\ current_estimate' = [current_estimate EXCEPT !.epoch = t, !.revision = 0]
        /\ phase' = loop
        /\ UNCHANGED outcome
     \/ /\ O # {}
        /\ phase' = "idle" /\ outcome' = "err"
        /\ UNCHANGED current_estimate
     \/ /\ O = {}
        /\ phase' = "idle" /\ outcome' = "panic"
        /\ UNCHANGED current_estimate

Solve ==
  /\ phase = "idle" /\ ~estimate_maneuver
  /\ StartLoop(obs, "plain")
  /\ UNCHANGED <<obs, options, inputs, found, locals>>

(* solve_with_maneuver up to the swap of the observations: the golden      *)
(* section search and the anchors read self only, and when they fail       *)
(* nothing of self has changed.                                            *)
SearchFails ==
  /\ phase = "idle" /\ estimate_maneuver
  /\ outcome' = "err"
  /\ UNCHANGED <<obs, options, inputs, fit, found, phase, locals>>

(* Mistake: a search interval closed at the first observation.             *)
InSearchWindowClosed(e) ==
  /\ e >= EarliestEpoch
  /\ \A o \in obs : e <= o.epoch
  /\ \E o \in obs : e >= o.epoch - SearchWindow

(* The search ends in the 3/4 period before the first observation.         *)
InSearchWindow(e) ==
  /\ e >= EarliestEpoch
  /\ \A o \in obs : e < o.epoch
  /\ \E o \in obs : e >= o.epoch - SearchWindow

Combined(e) ==
  {[epoch |-> e, anchor |-> TRUE]} \union {o \in obs : o.epoch > e}

SolveWithManeuver(e) ==
  /\ phase = "idle" /\ estimate_maneuver
  /\ InSearchWindow(e)
  /\ obs' = Combined(e)
  /\ StartLoop(Combined(e), "maneuver")
  /\ original_obs' = IF phase' = "idle" THEN {} ELSE obs
  /\ searched_epoch' = IF phase' = "idle" THEN None ELSE e
  /\ UNCHANGED <<options, inputs, found>>

-----------------------------------------------------------------------------
(* One turn of the loop: iterate() and get_delta_x().                      *)

(* get_measurements_and_weights: cached vectors are kept if present.       *)
Measured == IF measurements = None THEN obs ELSE measurements

ReturnErr ==
  /\ phase' = "idle" /\ outcome' = "err"
  /\ original_obs' = {} /\ searched_epoch' = None

(* A prediction, a Jacobian column, or the propagation of the a priori for *)
(* the eccentricity constraint fails: no residual was looked at yet.       *)
PredictionFails ==
  /\ ReturnErr
  /\ UNCHANGED <<current_estimate, weighted_rms, converged, delta_x>>

(* The residuals of the estimate as it is before the correction, compared  *)
(* with the previous weighted RMS.                                         *)
TestConvergence ==
  /\ weighted_rms' = [obs |-> Measured, a_priori |-> a_priori,
                      columns |-> Columns(use_drag, use_srp),
                      revision |-> current_estimate.revision]
  /\ \/ weighted_rms # None /\ converged' = TRUE
     \/ UNCHANGED converged

(* The normal matrix has no Cholesky factor.                               *)
CorrectionFails ==
  /\ TestConvergence
  /\ delta_x' = 0
  /\ ReturnErr
  /\ UNCHANGED current_estimate

(* No TLE can be built from the corrected elements.                        *)
UpdateFails ==
  /\ TestConvergence
  /\ delta_x' = Columns(use_drag, use_srp)
  /\ ReturnErr
  /\ UNCHANGED current_estimate

Updated ==
  /\ TestConvergence
  /\ delta_x' = Columns(use_drag, use_srp)
  /\ current_estimate' = [current_estimate EXCEPT !.revision = @ + 1]
  /\ UNCHANGED <<phase, locals, outcome>>

LoopDone == converged \/ iteration_count >= max_iterations

Iterate ==
  /\ phase \in {"plain", "maneuver"}
  /\ ~LoopDone
  /\ iteration_count' = iteration_count + 1
  /\ measurements' = Measured
  /\ PredictionFails \/ CorrectionFails \/ UpdateFails \/ Updated
  /\ UNCHANGED <<obs, options, inputs, found>>

SolveReturns ==
  /\ phase = "plain" /\ LoopDone
  /\ phase' = "idle" /\ outcome' = "ok"
  /\ UNCHANGED <<obs, options, inputs, fit, found, locals>>

(* Step 5 of solve_with_maneuver: only the normal end of the loop gets     *)
(* here.                                                                   *)
RestoreObservations ==
  /\ phase = "maneuver" /\ LoopDone
  /\ obs' = original_obs
  /\ phase' = "delta_v"
  /\ UNCHANGED <<options, inputs, fit, found, locals, outcome>>

(* Steps 6 and 7: no relative state, an insignificant or a significant     *)
(* delta-V.                                                                *)
ComputeDeltaV ==
  /\ phase = "delta_v"
  /\ \/ ReturnErr /\ UNCHANGED found
     \/ /\ \/ maneuver_epoch' = None /\ delta_v' = FALSE
           \/ maneuver_epoch' = searched_epoch /\ delta_v' = TRUE
        /\ phase' = "idle" /\ outcome' = "ok"
        /\ original_obs' = {} /\ searched_epoch' = None
  /\ UNCHANGED <<obs, options, inputs, fit>>

-----------------------------------------------------------------------------
Setter ==
  \/ \E type \in KeplerianType : SetOutputType(type)
  \/ \E apriori \in APrioris : SetAPriori(apriori)
  \/ \E new_obs \in ObservationSets : SetObservations(new_obs)
  \/ \E drag \in BOOLEAN : SetEstimateDrag(drag)
  \/ \E srp \in BOOLEAN : SetEstimateSrp(srp)
  \/ \E estimate \in BOOLEAN : SetEstimateManeuver(estimate)
  \/ \E limit \in IterationLimits : SetMaxIterations(limit)
  \/ \E weight \in BOOLEAN : SetEccentricityConstraintWeight(weight)
  \/ \E allow \in BOOLEAN : SetAllowRadialDeltaV(allow)

(* The epochs a maneuver search can end at.                                *)
SearchEpochs == UNION {(o.epoch - SearchWindow)..o.epoch : o \in obs}

(* The steps a solve in progress takes by itself.                          *)
Running == Iterate \/ SolveReturns \/ RestoreObservations \/ ComputeDeltaV

Next ==
  \/ Setter
  \/ Solve
  \/ SearchFails
  \/ \E e \in SearchEpochs : SolveWithManeuver(e)
  \/ Running

Spec == Init /\ [][Next]_vars

-----------------------------------------------------------------------------
(* Type invariant of the solver's fields and of the locals of a call.      *)
TypeOK ==
  /\ obs \in SUBSET Observation
  /\ a_priori \in APrioris
  /\ output_keplerian_type \in KeplerianType
  /\ use_drag \in BOOLEAN /\ use_srp \in BOOLEAN
  /\ max_iterations \in IterationLimits
  /\ estimate_maneuver \in BOOLEAN
  /\ eccentricity_constraint_weight \in BOOLEAN
  /\ allow_radial_delta_v \in BOOLEAN
  /\ current_estimate \in Estimate
  /\ iteration_count \in Nat
  /\ weighted_rms \in Rms \union {None}
  /\ converged \in BOOLEAN
  /\ delta_x \in {0, 6, 7, 8}
  /\ measurements \in (SUBSET Observation) \union {None}
  /\ maneuver_epoch \in Int \union {None}
  /\ delta_v \in BOOLEAN
  /\ phase \in {"idle", "plain", "maneuver", "delta_v"}
  /\ original_obs \in SUBSET Observation
  /\ searched_epoch \in Int \union {None}
  /\ outcome \in {"none", "ok", "err", "panic"}

Looping == phase \in {"plain", "maneuver"}
UserPart(O) == {o \in O : ~o.anchor}

(* The inputs a weighted RMS was computed from are still the solver's:     *)
(* every setter that changes them clears the result, and no solve, whether *)
(* it returns or fails half way, swaps a caller's observation away.        *)
FitDescribesInputs ==
  weighted_rms # None =>
    /\ weighted_rms.a_priori = a_priori
    /\ weighted_rms.columns = Columns(use_drag, use_srp)
    /\ UserPart(weighted_rms.obs) = UserPart(obs)

(* The cached measurement vectors the loop indexes with the observations   *)
(* were built from these observations, also in the solve that follows one  *)
(* that swapped the observations.                                          *)
MeasurementsOfObs == Looping => measurements \in {None, obs}

(* A correction left over from an earlier iteration or solve has one entry *)
(* per parameter now solved for: new_with_delta_x indexes it by the flags. *)
CorrectionFitsModel == delta_x # 0 => delta_x = Columns(use_drag, use_srp)

(* Convergence was decided between two iterations of the same solve: a     *)
(* weighted RMS of an earlier one is never compared with.                  *)
ConvergedComparedTwo == converged => weighted_rms # None /\ iteration_count >= 2

(* A maneuver is reported only by a solver still in maneuver mode, and     *)
(* its epoch and its delta-V are reported together.                        *)
ManeuverOnlyIfEstimated ==
  /\ delta_v <=> maneuver_epoch # None
  /\ delta_v => estimate_maneuver

(* A reported maneuver precedes every observation the caller passed, also  *)
(* when a later solve failed and left the older maneuver in place.         *)
ManeuverPrecedesObservations ==
  maneuver_epoch # None => \A o \in UserPart(obs) : maneuver_epoch < o.epoch

(* What is reported of a maneuver is complete, belongs to maneuver mode    *)
(* and fits the observations of the caller.                                *)
ManeuverFitsInputs == ManeuverOnlyIfEstimated /\ ManeuverPrecedesObservations

(* An estimate with a weighted RMS is an estimate at the last observation. *)
EstimateAtLastObservation ==
  weighted_rms # None => IsLastEpoch(obs, current_estimate.epoch)

(* A returned solve has converged or used all its iterations, and applied  *)
(* a correction in each: no iteration of a successful solve is skipped.    *)
SolvedMeansIterated ==
  \/ phase = "delta_v"
  \/ phase = "idle" /\ outcome = "ok" /\ weighted_rms # None
  => current_estimate.revision = iteration_count

(* What a solve leaves behind describes that solve: the correction has the *)
(* parameters of the model, convergence was decided between two of its     *)
(* iterations, the estimate is at the last observation, and no iteration   *)
(* of a successful solve was skipped.                                      *)
ResultsFitLoop ==
  /\ CorrectionFitsModel
  /\ ConvergedComparedTwo
  /\ EstimateAtLastObservation
  /\ SolvedMeansIterated

(* No solve loses an observation of the caller: outside the setters obs    *)
(* only gains or loses made-up anchors.                                    *)
UserObservationsKept ==
  [][UserPart(obs') # UserPart(obs) => phase' = "idle" /\ weighted_rms' = None /\ ~delta_v']_vars

(* Violated. The comment of step 5 of solve_with_maneuver: the original    *)
(* observations are back when a solve has returned.                        *)
ObservationsRestored == phase = "idle" => obs = UserPart(obs)
=============================================================================
