---------------------- MODULE BatchLeastSquaresProofs ----------------------
(* Proofs that the solver keeps its results, its caches and its inputs in  *)
(* step, for all observations, a priori satellites and iteration limits,   *)
(* and that the columns of its linear problem, the parameters they perturb *)
(* and the entries of the correction belong together, for every model a    *)
(* solver can be set to.                                                   *)
EXTENDS SolverPartials, SequenceTheorems, TLAPS

(* A freshly seeded satellite is a satellite, with a propagator or not.    *)
LEMMA SeededType ==
  ASSUME NEW a \in APrioris, NEW t \in KeplerianType, NEW r \in BOOLEAN
  PROVE  [a_priori |-> a, type |-> t, epoch |-> a.epoch, ready |-> r, revision |-> 0]
           \in Estimate
BY BLSAssumption DEF Estimate

(* Every field and local of the solver keeps its type.                     *)
THEOREM TypeCorrect == Spec => []TypeOK
<1> USE BLSAssumption, NoneAssumption
<1>1. Init => TypeOK
  <2> SUFFICES ASSUME Init PROVE TypeOK
    OBVIOUS
  <2>1. a_priori \in APrioris /\ a_priori.type \in KeplerianType
    BY DEF Init
  <2>2. Propagates(a_priori.type) \in BOOLEAN
    BY DEF Propagates
  <2>3. current_estimate \in Estimate
    BY <2>1, <2>2, SeededType DEF Init
  <2>4. obs \in SUBSET Observation
    BY DEF Init
  <2>5. QED BY <2>1, <2>3, <2>4 DEF Init, TypeOK
<1>2. TypeOK /\ [Next]_vars => TypeOK'
  <2> SUFFICES ASSUME TypeOK, [Next]_vars PROVE TypeOK'
    OBVIOUS
  <2> USE DEF TypeOK
  <2>0. ASSUME NEW a \in APrioris, NEW t \in KeplerianType, NEW s \in BOOLEAN,
               Reset(a, t, s)
        PROVE  /\ current_estimate' \in Estimate /\ iteration_count' \in Nat
               /\ weighted_rms' \in Rms \union {None} /\ converged' \in BOOLEAN
               /\ delta_x' \in {0, 6, 7, 8}
               /\ measurements' \in (SUBSET Observation) \union {None}
               /\ maneuver_epoch' \in Int \union {None} /\ delta_v' \in BOOLEAN
               /\ use_srp' \in BOOLEAN /\ outcome' \in {"none", "ok", "err", "panic"}
    <3>1. [[a_priori |-> a, type |-> t, epoch |-> a.epoch, ready |-> TRUE, revision |-> 0]
             EXCEPT !.ready = FALSE] \in Estimate
      BY SeededType DEF Estimate
    <3>2. current_estimate' \in Estimate
      BY <2>0, <3>1, SeededType DEF Reset
    <3>3. use_srp' \in BOOLEAN
      BY <2>0 DEF Reset
    <3>4. QED BY <2>0, <3>2, <3>3 DEF Reset, ClearFit
  <2>1. ASSUME NEW type \in KeplerianType, SetOutputType(type) PROVE TypeOK'
    BY <2>0, <2>1 DEF SetOutputType, options, locals
  <2>2. ASSUME NEW apriori \in APrioris, SetAPriori(apriori) PROVE TypeOK'
    BY <2>0, <2>2 DEF SetAPriori, options, locals
  <2>3. ASSUME NEW new_obs \in ObservationSets, SetObservations(new_obs) PROVE TypeOK'
    BY <2>0, <2>3 DEF SetObservations, options, locals
  <2>4. ASSUME NEW drag \in BOOLEAN, SetEstimateDrag(drag) PROVE TypeOK'
    BY <2>0, <2>4 DEF SetEstimateDrag, options, locals
  <2>5. ASSUME NEW srp \in BOOLEAN, SetEstimateSrp(srp) PROVE TypeOK'
    BY <2>0, <2>5 DEF SetEstimateSrp, options, locals
  <2>6. ASSUME NEW estimate \in BOOLEAN, SetEstimateManeuver(estimate) PROVE TypeOK'
    <3>1. (use_srp /\ ~estimate) \in BOOLEAN
      OBVIOUS
    <3>2. use_drag' \in BOOLEAN
      BY <2>6 DEF SetEstimateManeuver
    <3>3. QED BY <2>0, <2>6, <3>1, <3>2 DEF SetEstimateManeuver, options, locals
  <2>7. ASSUME NEW limit \in IterationLimits, SetMaxIterations(limit) PROVE TypeOK'
    BY <2>7 DEF SetMaxIterations, inputs, fit, found, locals
  <2>8. ASSUME NEW weight \in BOOLEAN, SetEccentricityConstraintWeight(weight)
        PROVE  TypeOK'
    BY <2>8 DEF SetEccentricityConstraintWeight, inputs, fit, found, locals
  <2>9. ASSUME NEW allow \in BOOLEAN, SetAllowRadialDeltaV(allow) PROVE TypeOK'
    BY <2>9 DEF SetAllowRadialDeltaV, inputs, fit, found, locals
  <2>10. ASSUME NEW O \in SUBSET Observation, NEW loop \in {"plain", "maneuver"},
                StartLoop(O, loop)
         PROVE  /\ current_estimate' \in Estimate /\ iteration_count' \in Nat
                /\ weighted_rms' \in Rms \union {None} /\ converged' \in BOOLEAN
                /\ delta_x' \in {0, 6, 7, 8}
                /\ measurements' \in (SUBSET Observation) \union {None}
                /\ phase' \in {"idle", "plain", "maneuver", "delta_v"}
                /\ outcome' \in {"none", "ok", "err", "panic"}
    <3>1. ASSUME NEW t \in Int
          PROVE  [current_estimate EXCEPT !.epoch = t, !.revision = 0] \in Estimate
      BY DEF Estimate
    <3>2. {o.epoch : o \in O} \subseteq Int
      BY DEF Observation
    <3>3. current_estimate' \in Estimate
      <4>1. CASE UNCHANGED current_estimate
        BY <4>1
      <4>2. CASE \E t \in {o.epoch : o \in O} :
                   current_estimate' = [current_estimate EXCEPT !.epoch = t, !.revision = 0]
        BY <3>1, <3>2, <4>2
      <4>3. QED BY <2>10, <4>1, <4>2 DEF StartLoop
    <3>4. QED BY <2>10, <3>3 DEF StartLoop, ClearFit
  <2>11. CASE Solve
    BY <2>10, <2>11 DEF Solve, options, inputs, found, locals
  <2>12. CASE SearchFails
    BY <2>12 DEF SearchFails, options, inputs, fit, found, locals
  <2>13. ASSUME NEW e \in SearchEpochs, SolveWithManeuver(e) PROVE TypeOK'
    <3>1. e \in Int
      BY DEF SearchEpochs, Observation
    <3>2. Combined(e) \in SUBSET Observation
      <4>1. [epoch |-> e, anchor |-> TRUE] \in Observation
        BY <3>1 DEF Observation
      <4>2. QED BY <4>1 DEF Combined
    <3>3. QED BY <2>10, <2>13, <3>1, <3>2 DEF SolveWithManeuver, options, inputs, found
  <2>14. CASE Iterate
    <3>1. Measured \in SUBSET Observation
      BY DEF Measured
    <3>2. Columns(use_drag, use_srp) \in {6, 7, 8}
      BY DEF Columns
    <3>3. ASSUME TestConvergence
          PROVE  weighted_rms' \in Rms /\ converged' \in BOOLEAN
      <4>1. current_estimate.revision \in Nat
        BY DEF Estimate
      <4>2. [obs |-> Measured, a_priori |-> a_priori,
             columns |-> Columns(use_drag, use_srp),
             revision |-> current_estimate.revision] \in Rms
        BY <3>1, <3>2, <4>1 DEF Rms
      <4>3. QED BY <3>3, <4>2 DEF TestConvergence
    <3>4. /\ iteration_count' \in Nat /\ measurements' \in SUBSET Observation
          /\ UNCHANGED <<obs, options, inputs, found>>
      BY <2>14, <3>1 DEF Iterate
    <3>5. CASE PredictionFails
      BY <3>4, <3>5 DEF PredictionFails, ReturnErr, options, inputs, found
    <3>6. CASE CorrectionFails
      BY <3>3, <3>4, <3>6 DEF CorrectionFails, ReturnErr, options, inputs, found
    <3>7. CASE UpdateFails
      BY <3>2, <3>3, <3>4, <3>7 DEF UpdateFails, ReturnErr, options, inputs, found
    <3>8. CASE Updated
      <4>1. current_estimate' \in Estimate
        BY <3>8 DEF Updated, Estimate
      <4>2. QED BY <3>2, <3>3, <3>4, <3>8, <4>1 DEF Updated, options, inputs, found, locals
    <3>9. QED BY <2>14, <3>5, <3>6, <3>7, <3>8 DEF Iterate
  <2>15. CASE SolveReturns
    BY <2>15 DEF SolveReturns, options, inputs, fit, found, locals
  <2>16. CASE RestoreObservations
    BY <2>16 DEF RestoreObservations, options, inputs, fit, found, locals
  <2>17. CASE ComputeDeltaV
    BY <2>17 DEF ComputeDeltaV, ReturnErr, options, inputs, fit, found
  <2>18. CASE UNCHANGED vars
    BY <2>18 DEF vars, options, inputs, fit, found, locals
  <2>19. QED
    BY <2>1, <2>2, <2>3, <2>4, <2>5, <2>6, <2>7, <2>8, <2>9, <2>11, <2>12, <2>13,
       <2>14, <2>15, <2>16, <2>17, <2>18 DEF Next, Setter, Running
<1>3. QED BY <1>1, <1>2, PTL DEF Spec

-----------------------------------------------------------------------------
(* The strengthening: what the locals of a running call say about obs, and *)
(* where the loop is.                                                      *)
Anchor(e) == [epoch |-> e, anchor |-> TRUE]

CallOK ==
  /\ phase \in {"maneuver", "delta_v"} =>
       /\ estimate_maneuver
       /\ original_obs # {}
       /\ searched_epoch \in Int
       /\ \A o \in original_obs : searched_epoch < o.epoch
  /\ phase = "maneuver" => obs = {Anchor(searched_epoch)} \union original_obs
  /\ phase = "delta_v" => obs = original_obs
  /\ phase # "idle" => IsLastEpoch(obs, current_estimate.epoch)
  /\ Looping => current_estimate.revision = iteration_count
  /\ weighted_rms # None => iteration_count >= 1

FitOK ==
  /\ FitDescribesInputs
  /\ MeasurementsOfObs
  /\ CorrectionFitsModel
  /\ ConvergedComparedTwo
  /\ EstimateAtLastObservation
  /\ SolvedMeansIterated

(* The set solve_with_maneuver swaps in, when the search kept its promise. *)
LEMMA CombinedOfWindow ==
  ASSUME NEW e \in Int, InSearchWindow(e)
  PROVE  /\ Combined(e) = {Anchor(e)} \union obs
         /\ obs # {}
         /\ \A o \in obs : e < o.epoch
BY DEF Combined, InSearchWindow, Anchor, IsLastEpoch

(* Anchors do not change the caller's part of the observations.            *)
LEMMA AnchorNotUser ==
  ASSUME NEW e \in Int, NEW O \in SUBSET Observation
  PROVE  UserPart({Anchor(e)} \union O) = UserPart(O)
BY DEF UserPart, Anchor

(* Nor the last epoch, as the anchor precedes every observation.           *)
LEMMA AnchorNotLast ==
  ASSUME NEW e \in Int, NEW O \in SUBSET Observation, NEW t \in Int, O # {},
         \A o \in O : e < o.epoch, IsLastEpoch({Anchor(e)} \union O, t)
  PROVE  IsLastEpoch(O, t)
<1>1. Anchor(e).epoch = e
  BY DEF Anchor
<1>2. \A o \in O : o.epoch \in Int /\ o.epoch <= t
  BY DEF IsLastEpoch, Observation
<1>3. t # e
  BY <1>2 
<1>4. QED BY <1>1, <1>2, <1>3 DEF IsLastEpoch

(* reset() and the start of a solve leave no result behind.                *)
LEMMA ClearedFit ==
  ASSUME ClearFit, phase' = "idle" \/ IsLastEpoch(obs', current_estimate'.epoch),
         Looping' => current_estimate'.revision = 0,
         phase' # "delta_v"
  PROVE  /\ FitOK'
         /\ phase' # "idle" => IsLastEpoch(obs', current_estimate'.epoch)
         /\ Looping' => current_estimate'.revision = iteration_count'
         /\ weighted_rms' # None => iteration_count' >= 1
BY DEF ClearFit, FitOK, FitDescribesInputs, MeasurementsOfObs, CorrectionFitsModel,
       ConvergedComparedTwo, EstimateAtLastObservation, SolvedMeansIterated, Looping

-----------------------------------------------------------------------------
CallFit == CallOK /\ FitOK

(* The steps that keep the inputs, the fit and the call's place.           *)
LEMMA FitUntouched ==
  ASSUME TypeOK, CallFit, UNCHANGED <<obs, inputs, fit, phase, locals>>,
         outcome' = outcome \/ outcome' = "err"
  PROVE  CallFit'
BY DEF CallFit, CallOK, FitOK, FitDescribesInputs, MeasurementsOfObs, Looping,
       CorrectionFitsModel, ConvergedComparedTwo, EstimateAtLastObservation,
       SolvedMeansIterated, inputs, fit, locals

(* Every setter that calls reset() ends outside any loop, all cleared.     *)
LEMMA ResetFit ==
  ASSUME NEW a, NEW t, NEW s, Reset(a, t, s), phase = "idle", UNCHANGED phase
  PROVE  CallFit'
<1>1. ClearFit /\ phase' = "idle"
  BY DEF Reset
<1>2. ~Looping' /\ phase' # "delta_v"
  BY <1>1 DEF Looping
<1>3. QED BY <1>1, <1>2, ClearedFit DEF CallFit, CallOK

(* The start of a solve clears the fit and moves the estimate.             *)
LEMMA StartFit ==
  ASSUME TypeOK, NEW O \in SUBSET Observation, NEW loop \in {"plain", "maneuver"},
         StartLoop(O, loop), obs' = O
  PROVE  /\ FitOK'
         /\ phase' \in {"idle", loop}
         /\ phase' # "idle" => IsLastEpoch(obs', current_estimate'.epoch)
         /\ Looping' => current_estimate'.revision = iteration_count'
         /\ weighted_rms' # None => iteration_count' >= 1
<1>1. ClearFit
  BY DEF StartLoop
<1>2. ASSUME NEW t \in Int
      PROVE  /\ [current_estimate EXCEPT !.epoch = t, !.revision = 0].epoch = t
             /\ [current_estimate EXCEPT !.epoch = t, !.revision = 0].revision = 0
  BY DEF TypeOK, Estimate
<1>3. CASE phase' = "idle"
  <2>1. ~Looping' /\ phase' # "delta_v"
    BY <1>3 DEF Looping
  <2>2. QED BY <1>1, <1>3, <2>1, ClearedFit
<1>4. CASE phase' # "idle"
  <2>1. PICK t \in {o.epoch : o \in O} :
          /\ IsLastEpoch(O, t)
          /\ current_estimate' = [current_estimate EXCEPT !.epoch = t, !.revision = 0]
          /\ phase' = loop
    BY <1>4 DEF StartLoop
  <2>2. t \in Int
    BY DEF Observation
  <2>3. IsLastEpoch(obs', current_estimate'.epoch) /\ current_estimate'.revision = 0
    BY <1>2, <2>1, <2>2
  <2>4. QED BY <1>1, <2>1, <2>3, ClearedFit
<1>5. QED BY <1>3, <1>4

(* One turn of the loop, whichever way it ends.                            *)
LEMMA IterateFit ==
  ASSUME TypeOK, CallFit, Iterate
  PROVE  CallFit'
<1>1. /\ Looping /\ iteration_count \in Nat
      /\ IsLastEpoch(obs, current_estimate.epoch)
      /\ current_estimate.revision = iteration_count
      /\ UNCHANGED <<obs, inputs, found>>
      /\ iteration_count' = iteration_count + 1
  BY DEF Iterate, CallFit, CallOK, Looping, TypeOK
<1>2. Measured = obs /\ measurements' = obs
  BY <1>1 DEF Measured, CallFit, FitOK, MeasurementsOfObs, Iterate
<1>3. Columns(use_drag, use_srp)' = Columns(use_drag, use_srp)
  BY <1>1 DEF inputs
<1>4. ASSUME TestConvergence
      PROVE  /\ FitDescribesInputs' /\ ConvergedComparedTwo'
             /\ weighted_rms' # None
  <2>1. Columns(use_drag, use_srp) \in 6..8 /\ current_estimate.revision \in Nat
    BY DEF Columns, TypeOK, Estimate
  <2>2. [obs |-> Measured, a_priori |-> a_priori,
         columns |-> Columns(use_drag, use_srp),
         revision |-> current_estimate.revision] \in Rms
    BY <1>2, <2>1 DEF Rms, TypeOK
  <2>3. weighted_rms' # None
    BY <1>4, <2>2, NoneAssumption DEF TestConvergence
  <2>4. FitDescribesInputs'
    BY <1>1, <1>2, <1>3, <1>4 DEF TestConvergence, FitDescribesInputs, inputs, UserPart
  <2>5. ConvergedComparedTwo'
    <3>1. weighted_rms # None => iteration_count' >= 2
      BY <1>1 DEF CallFit, CallOK
    <3>2. converged => iteration_count' >= 2
      BY <1>1 DEF CallFit, FitOK, ConvergedComparedTwo
    <3>3. converged' => weighted_rms # None \/ converged
      BY <1>4 DEF TestConvergence
    <3>4. QED BY <2>3, <3>1, <3>2, <3>3 DEF ConvergedComparedTwo
  <2>6. QED BY <2>3, <2>4, <2>5
<1>5. MeasurementsOfObs' /\ iteration_count' >= 1
  BY <1>1, <1>2 DEF MeasurementsOfObs
<1>6. CASE PredictionFails
  <2>1. phase' = "idle" /\ outcome' = "err"
        /\ UNCHANGED <<current_estimate, weighted_rms, converged, delta_x>>
    BY <1>6 DEF PredictionFails, ReturnErr
  <2>2. FitOK'
    BY <1>1, <1>3, <1>5, <2>1 DEF CallFit, FitOK, FitDescribesInputs, CorrectionFitsModel,
       ConvergedComparedTwo, EstimateAtLastObservation, SolvedMeansIterated, inputs, UserPart
  <2>3. QED BY <1>5, <2>1, <2>2 DEF CallFit, CallOK, Looping
<1>7. CASE CorrectionFails \/ UpdateFails
  <2>1. /\ phase' = "idle" /\ outcome' = "err" /\ TestConvergence
        /\ UNCHANGED current_estimate
        /\ delta_x' \in {0, Columns(use_drag, use_srp)}
    BY <1>7 DEF CorrectionFails, UpdateFails, ReturnErr
  <2>2. FitOK'
    BY <1>1, <1>3, <1>4, <1>5, <2>1 DEF FitOK, CorrectionFitsModel,
       EstimateAtLastObservation, SolvedMeansIterated
  <2>3. QED BY <1>5, <2>1, <2>2 DEF CallFit, CallOK, Looping
<1>8. CASE Updated
  <2>1. /\ TestConvergence /\ UNCHANGED <<phase, locals, outcome>>
        /\ delta_x' = Columns(use_drag, use_srp)
        /\ current_estimate'.epoch = current_estimate.epoch
        /\ current_estimate'.revision = current_estimate.revision + 1
    BY <1>8 DEF Updated, TypeOK, Estimate
  <2>2. Looping' /\ phase' # "idle" /\ phase' # "delta_v"
    BY <1>1, <2>1 DEF Looping
  <2>3. FitOK'
    BY <1>1, <1>3, <1>4, <1>5, <2>1, <2>2 DEF FitOK, CorrectionFitsModel,
       EstimateAtLastObservation, SolvedMeansIterated
  <2>4. CallOK'
    BY <1>1, <1>5, <2>1, <2>2 DEF CallFit, CallOK, inputs, locals
  <2>5. QED BY <2>3, <2>4 DEF CallFit
<1>9. QED BY <1>6, <1>7, <1>8 DEF Iterate

(* The inductive invariant holds of the solver.                            *)
THEOREM CallFitCorrect == Spec => []CallFit
<1>1. Init => CallFit
  BY DEF Init, CallFit, CallOK, FitOK, FitDescribesInputs, MeasurementsOfObs,
     CorrectionFitsModel, ConvergedComparedTwo, EstimateAtLastObservation,
     SolvedMeansIterated, Looping
<1>2. TypeOK /\ CallFit /\ [Next]_vars => CallFit'
  <2> SUFFICES ASSUME TypeOK, CallFit, [Next]_vars PROVE CallFit'
    OBVIOUS
  <2>1. ASSUME NEW type \in KeplerianType, SetOutputType(type) PROVE CallFit'
    BY <2>1, ResetFit DEF SetOutputType
  <2>2. ASSUME NEW apriori \in APrioris, SetAPriori(apriori) PROVE CallFit'
    BY <2>2, ResetFit DEF SetAPriori
  <2>3. ASSUME NEW new_obs \in ObservationSets, SetObservations(new_obs) PROVE CallFit'
    BY <2>3, ResetFit DEF SetObservations
  <2>4. ASSUME NEW drag \in BOOLEAN, SetEstimateDrag(drag) PROVE CallFit'
    BY <2>4, ResetFit DEF SetEstimateDrag
  <2>5. ASSUME NEW srp \in BOOLEAN, SetEstimateSrp(srp) PROVE CallFit'
    BY <2>5, ResetFit DEF SetEstimateSrp
  <2>6. ASSUME NEW estimate \in BOOLEAN, SetEstimateManeuver(estimate) PROVE CallFit'
    BY <2>6, ResetFit DEF SetEstimateManeuver
  <2>7. ASSUME NEW limit \in IterationLimits, SetMaxIterations(limit) PROVE CallFit'
    BY <2>7, FitUntouched DEF SetMaxIterations
  <2>8. ASSUME NEW weight \in BOOLEAN, SetEccentricityConstraintWeight(weight)
        PROVE  CallFit'
    BY <2>8, FitUntouched DEF SetEccentricityConstraintWeight
  <2>9. ASSUME NEW allow \in BOOLEAN, SetAllowRadialDeltaV(allow) PROVE CallFit'
    BY <2>9, FitUntouched DEF SetAllowRadialDeltaV
  <2>10. CASE Solve
    <3>1. StartLoop(obs, "plain") /\ obs' = obs /\ obs \in SUBSET Observation
      BY <2>10 DEF Solve, TypeOK
    <3>2. QED BY <3>1, StartFit DEF CallFit, CallOK, Looping
  <2>11. CASE SearchFails
    BY <2>11, FitUntouched DEF SearchFails
  <2>12. ASSUME NEW e \in SearchEpochs, SolveWithManeuver(e) PROVE CallFit'
    <3>1. e \in Int /\ obs \in SUBSET Observation
      BY BLSAssumption DEF SearchEpochs, Observation, TypeOK
    <3>2. /\ obs' = {Anchor(e)} \union obs /\ obs # {}
          /\ \A o \in obs : e < o.epoch
          /\ StartLoop({Anchor(e)} \union obs, "maneuver")
      BY <2>12, <3>1, CombinedOfWindow DEF SolveWithManeuver
    <3>3. {Anchor(e)} \union obs \in SUBSET Observation
      <4>1. Anchor(e) \in Observation
        BY <3>1 DEF Anchor, Observation
      <4>2. QED BY <3>1, <4>1
    <3>4. /\ FitOK' /\ phase' \in {"idle", "maneuver"}
          /\ phase' # "idle" => IsLastEpoch(obs', current_estimate'.epoch)
          /\ Looping' => current_estimate'.revision = iteration_count'
          /\ weighted_rms' # None => iteration_count' >= 1
      BY <3>2, <3>3, StartFit
    <3>5. /\ phase' = "maneuver" => original_obs' = obs /\ searched_epoch' = e
          /\ estimate_maneuver'
      BY <2>12 DEF SolveWithManeuver, inputs
    <3>6. QED BY <3>1, <3>2, <3>4, <3>5 DEF CallFit, CallOK
  <2>13. CASE Iterate
    BY <2>13, IterateFit
  <2>14. CASE SolveReturns
    <3>1. /\ phase = "plain" /\ phase' = "idle" /\ outcome' = "ok"
          /\ UNCHANGED <<obs, inputs, fit>>
      BY <2>14 DEF SolveReturns
    <3>2. QED BY <3>1 DEF CallFit, CallOK, FitOK, FitDescribesInputs, Looping,
          MeasurementsOfObs, CorrectionFitsModel, ConvergedComparedTwo,
          EstimateAtLastObservation, SolvedMeansIterated, inputs, fit
  <2>15. CASE RestoreObservations
    <3>1. /\ phase = "maneuver" /\ phase' = "delta_v" /\ obs' = original_obs
          /\ UNCHANGED <<inputs, fit, locals>>
      BY <2>15 DEF RestoreObservations
    <3>2. /\ obs = {Anchor(searched_epoch)} \union original_obs /\ original_obs # {}
          /\ searched_epoch \in Int /\ \A o \in original_obs : searched_epoch < o.epoch
          /\ IsLastEpoch(obs, current_estimate.epoch)
          /\ current_estimate.revision = iteration_count
      BY <3>1 DEF CallFit, CallOK, Looping
    <3>3. /\ original_obs \in SUBSET Observation /\ current_estimate.epoch \in Int
      BY DEF TypeOK, Estimate
    <3>4. UserPart(obs) = UserPart(original_obs)
      BY <3>2, <3>3, AnchorNotUser
    <3>5. IsLastEpoch(original_obs, current_estimate.epoch)
      BY <3>2, <3>3, AnchorNotLast
    <3>6. FitDescribesInputs'
      BY <3>1, <3>4 DEF CallFit, FitOK, FitDescribesInputs, inputs, fit
    <3>7. EstimateAtLastObservation' /\ SolvedMeansIterated' /\ MeasurementsOfObs'
      BY <3>1, <3>2, <3>5 DEF EstimateAtLastObservation, SolvedMeansIterated,
         MeasurementsOfObs, Looping, fit
    <3>8. CorrectionFitsModel' /\ ConvergedComparedTwo'
      BY <3>1 DEF CallFit, FitOK, CorrectionFitsModel, ConvergedComparedTwo, inputs, fit
    <3>9. CallOK'
      BY <3>1, <3>2, <3>5 DEF CallFit, CallOK, Looping, inputs, fit, locals
    <3>10. QED BY <3>6, <3>7, <3>8, <3>9 DEF CallFit, FitOK
  <2>16. CASE ComputeDeltaV
    <3>1. /\ phase = "delta_v" /\ phase' = "idle" /\ UNCHANGED <<obs, inputs, fit>>
      BY <2>16 DEF ComputeDeltaV, ReturnErr
    <3>2. QED BY <3>1 DEF CallFit, CallOK, FitOK, FitDescribesInputs, Looping,
          MeasurementsOfObs, CorrectionFitsModel, ConvergedComparedTwo,
          EstimateAtLastObservation, SolvedMeansIterated, inputs, fit
  <2>17. CASE UNCHANGED vars
    BY <2>17, FitUntouched DEF vars
  <2>18. QED
    BY <2>1, <2>2, <2>3, <2>4, <2>5, <2>6, <2>7, <2>8, <2>9, <2>10, <2>11, <2>12,
       <2>13, <2>14, <2>15, <2>16, <2>17 DEF Next, Setter, Running
<1>3. QED BY <1>1, <1>2, TypeCorrect, PTL DEF Spec

(* The results of the solver always describe its current inputs.           *)
THEOREM FitCorrect == Spec => []FitDescribesInputs
<1>1. CallFit => FitDescribesInputs
  BY DEF CallFit, FitOK
<1>2. QED BY <1>1, CallFitCorrect, PTL

(* The correction, the convergence flag and the estimate are those of the  *)
(* solve that wrote the weighted RMS, also after one that failed half way. *)
THEOREM ResultsCorrect == Spec => []ResultsFitLoop
<1>1. CallFit => ResultsFitLoop
  BY DEF CallFit, FitOK, ResultsFitLoop
<1>2. QED BY <1>1, CallFitCorrect, PTL

(* The loop never reads measurement vectors of other observations.         *)
THEOREM MeasurementsCorrect == Spec => []MeasurementsOfObs
<1>1. CallFit => MeasurementsOfObs
  BY DEF CallFit, FitOK
<1>2. QED BY <1>1, CallFitCorrect, PTL

-----------------------------------------------------------------------------
(* What the maneuver fields say, with the locals they are set from.        *)
ManeuverOK ==
  /\ ManeuverOnlyIfEstimated
  /\ ManeuverPrecedesObservations

LEMMA ManeuverUntouched ==
  ASSUME ManeuverOK, UNCHANGED <<found, estimate_maneuver>>,
         UserPart(obs') = UserPart(obs)
  PROVE  ManeuverOK'
BY DEF ManeuverOK, ManeuverOnlyIfEstimated, ManeuverPrecedesObservations, found

LEMMA ResetManeuver ==
  ASSUME NEW a, NEW t, NEW s, Reset(a, t, s)
  PROVE  ManeuverOK'
BY DEF Reset, ManeuverOK, ManeuverOnlyIfEstimated, ManeuverPrecedesObservations

(* The maneuver fields are right after every step.                         *)
THEOREM ManeuverCorrect == Spec => []ManeuverOK
<1>1. Init => ManeuverOK
  BY DEF Init, ManeuverOK, ManeuverOnlyIfEstimated, ManeuverPrecedesObservations
<1>2. TypeOK /\ CallFit /\ ManeuverOK /\ [Next]_vars => ManeuverOK'
  <2> SUFFICES ASSUME TypeOK, CallFit, ManeuverOK, [Next]_vars PROVE ManeuverOK'
    OBVIOUS
  <2>1. ASSUME NEW a, NEW t, NEW s, Reset(a, t, s) PROVE ManeuverOK'
    BY <2>1, ResetManeuver
  <2>2. CASE Setter
    <3>1. CASE \E a, t, s : Reset(a, t, s)
      BY <2>1, <3>1
    <3>2. CASE UNCHANGED <<found, estimate_maneuver, obs>>
      <4>1. UserPart(obs') = UserPart(obs)
        BY <3>2
      <4>2. QED BY <3>2, <4>1, ManeuverUntouched
    <3>3. QED
      BY <2>2, <3>1, <3>2 DEF Setter, SetOutputType, SetAPriori, SetObservations,
         SetEstimateDrag, SetEstimateSrp, SetEstimateManeuver, SetMaxIterations,
         SetEccentricityConstraintWeight, SetAllowRadialDeltaV, inputs
  <2>3. CASE Solve \/ SearchFails \/ Iterate \/ SolveReturns \/ UNCHANGED vars
    <3>1. UNCHANGED <<found, estimate_maneuver, obs>>
      BY <2>3 DEF Solve, SearchFails, Iterate, SolveReturns, vars, inputs
    <3>2. UserPart(obs') = UserPart(obs)
      BY <3>1
    <3>3. QED BY <3>1, <3>2, ManeuverUntouched
  <2>4. ASSUME NEW e \in SearchEpochs, SolveWithManeuver(e) PROVE ManeuverOK'
    <3>1. e \in Int /\ obs \in SUBSET Observation
      BY BLSAssumption DEF SearchEpochs, Observation, TypeOK
    <3>2. obs' = {Anchor(e)} \union obs
      BY <2>4, <3>1, CombinedOfWindow DEF SolveWithManeuver
    <3>3. UserPart(obs') = UserPart(obs)
      BY <3>1, <3>2, AnchorNotUser
    <3>4. QED BY <2>4, <3>3, ManeuverUntouched DEF SolveWithManeuver, inputs
  <2>5. CASE RestoreObservations
    <3>1. obs = {Anchor(searched_epoch)} \union obs' /\ searched_epoch \in Int
          /\ obs' \in SUBSET Observation
      BY <2>5 DEF RestoreObservations, CallFit, CallOK, TypeOK
    <3>2. UserPart(obs') = UserPart(obs)
      BY <3>1, AnchorNotUser
    <3>3. QED BY <2>5, <3>2, ManeuverUntouched DEF RestoreObservations, inputs
  <2>6. CASE ComputeDeltaV
    <3>1. UNCHANGED <<obs, inputs>> /\ estimate_maneuver /\ searched_epoch \in Int
          /\ \A o \in obs : searched_epoch < o.epoch
      BY <2>6 DEF ComputeDeltaV, CallFit, CallOK
    <3>2. CASE UNCHANGED found
      BY <3>1, <3>2, ManeuverUntouched DEF inputs
    <3>3. CASE maneuver_epoch' = None /\ delta_v' = FALSE
      BY <3>3 DEF ManeuverOK, ManeuverOnlyIfEstimated, ManeuverPrecedesObservations
    <3>4. CASE maneuver_epoch' = searched_epoch /\ delta_v' = TRUE
      <4>1. searched_epoch # None
        BY <3>1, NoneAssumption
      <4>2. QED BY <3>1, <3>4, <4>1 DEF ManeuverOK, ManeuverOnlyIfEstimated,
            ManeuverPrecedesObservations, UserPart, inputs
    <3>5. QED BY <2>6, <3>2, <3>3, <3>4 DEF ComputeDeltaV
  <2>7. QED BY <2>2, <2>3, <2>4, <2>5, <2>6 DEF Next, Running
<1>3. QED BY <1>1, <1>2, TypeCorrect, CallFitCorrect, PTL DEF Spec

(* A maneuver is reported only in maneuver mode, with its delta-V, and     *)
(* before every observation of the caller.                                 *)
THEOREM ManeuverReported == Spec => []ManeuverFitsInputs
<1>1. ManeuverOK => ManeuverFitsInputs
  BY DEF ManeuverOK, ManeuverFitsInputs
<1>2. QED BY <1>1, ManeuverCorrect, PTL

-----------------------------------------------------------------------------
(* No step of a solve, successful or not, loses an observation of the      *)
(* caller: only the setters change them, and they clear the results.       *)
THEOREM ObservationsKept == Spec => UserObservationsKept
<1> DEFINE Kept == UserPart(obs') # UserPart(obs)
                     => phase' = "idle" /\ weighted_rms' = None /\ ~delta_v'
<1>1. TypeOK /\ CallFit /\ [Next]_vars => [Kept]_vars
  <2> SUFFICES ASSUME TypeOK, CallFit, Next PROVE Kept
    OBVIOUS
  <2>1. ASSUME UNCHANGED obs PROVE Kept
    BY <2>1
  <2>2. CASE Setter
    <3>1. CASE \E a, t, s : Reset(a, t, s) /\ phase' = "idle"
      BY <3>1 DEF Reset, ClearFit
    <3>2. QED
      BY <2>1, <2>2, <3>1 DEF Setter, SetOutputType, SetAPriori, SetObservations,
         SetEstimateDrag, SetEstimateSrp, SetEstimateManeuver, SetMaxIterations,
         SetEccentricityConstraintWeight, SetAllowRadialDeltaV
  <2>3. CASE Solve \/ SearchFails \/ Iterate \/ SolveReturns \/ ComputeDeltaV
    BY <2>1, <2>3 DEF Solve, SearchFails, Iterate, SolveReturns, ComputeDeltaV
  <2>4. ASSUME NEW e \in SearchEpochs, SolveWithManeuver(e) PROVE Kept
    <3>1. e \in Int /\ obs \in SUBSET Observation
      BY BLSAssumption DEF SearchEpochs, Observation, TypeOK
    <3>2. obs' = {Anchor(e)} \union obs
      BY <2>4, <3>1, CombinedOfWindow DEF SolveWithManeuver
    <3>3. QED BY <3>1, <3>2, AnchorNotUser
  <2>5. CASE RestoreObservations
    <3>1. obs = {Anchor(searched_epoch)} \union obs' /\ searched_epoch \in Int
          /\ obs' \in SUBSET Observation
      BY <2>5 DEF RestoreObservations, CallFit, CallOK, TypeOK
    <3>2. QED BY <3>1, AnchorNotUser
  <2>6. QED BY <2>2, <2>3, <2>4, <2>5 DEF Next, Running
<1>2. QED BY <1>1, TypeCorrect, CallFitCorrect, PTL DEF Spec, UserObservationsKept

-----------------------------------------------------------------------------
(* A parameter that may be left out.                                       *)
LEMMA WhenColumn ==
  ASSUME NEW Names, NEW parameter \in Names, NEW flag \in BOOLEAN
  PROVE  /\ When(flag, parameter) \in Seq(Names)
         /\ Len(When(flag, parameter)) = IF flag THEN 1 ELSE 0
         /\ flag => When(flag, parameter)[1] = parameter
<1>1. CASE flag
  BY <1>1 DEF When
<1>2. CASE ~flag
  BY <1>2 DEF When
<1>3. QED BY <1>1, <1>2

(* The columns one by one.                                                 *)
LEMMA PerturbedColumns ==
  ASSUME NEW drag \in BOOLEAN, NEW srp \in BOOLEAN
  PROVE  /\ Len(PerturbedParameters(drag, srp)) = Columns(drag, srp)
         /\ \A j \in 1..6 : PerturbedParameters(drag, srp)[j] = EquinoctialElements[j]
         /\ drag => PerturbedParameters(drag, srp)[7] = "drag_coefficient"
         /\ srp => PerturbedParameters(drag, srp)[Columns(drag, srp)] = "srp_coefficient"
<1> DEFINE Names == {"af", "ag", "chi", "psi", "L", "n",
                     "drag_coefficient", "srp_coefficient"}
           D == When(drag, "drag_coefficient")
           S == When(srp, "srp_coefficient")
           ED == EquinoctialElements \o D
<1>1. EquinoctialElements \in Seq(Names) /\ Len(EquinoctialElements) = 6
  BY DEF EquinoctialElements
<1>2. "drag_coefficient" \in Names /\ "srp_coefficient" \in Names
  OBVIOUS
<1> HIDE DEF Names
<1>3. /\ D \in Seq(Names) /\ Len(D) = (IF drag THEN 1 ELSE 0)
      /\ drag => D[1] = "drag_coefficient"
  BY <1>2, WhenColumn
<1>4. /\ S \in Seq(Names) /\ Len(S) = (IF srp THEN 1 ELSE 0)
      /\ srp => S[1] = "srp_coefficient"
  BY <1>2, WhenColumn
<1>5. PerturbedParameters(drag, srp) = ED \o S
  BY DEF PerturbedParameters
<1> HIDE DEF D, S
<1>6. /\ ED \in Seq(Names) /\ Len(ED) = 6 + Len(D)
      /\ \A i \in 1..6 + Len(D) :
           ED[i] = IF i <= 6 THEN EquinoctialElements[i] ELSE D[i - 6]
  <2> DEFINE E == EquinoctialElements
  <2>1. E \in Seq(Names) /\ D \in Seq(Names) /\ Len(E) = 6
    BY <1>1, <1>3
  <2> HIDE DEF E
  <2>2. /\ E \o D \in Seq(Names) /\ Len(E \o D) = Len(E) + Len(D)
        /\ \A i \in 1..Len(E) + Len(D) :
             (E \o D)[i] = IF i <= Len(E) THEN E[i] ELSE D[i - Len(E)]
    BY <2>1, ConcatProperties
  <2>3. QED BY <2>1, <2>2 DEF E
<1> HIDE DEF ED
<1>7. /\ Len(ED \o S) = 6 + Len(D) + Len(S)
      /\ \A i \in 1..6 + Len(D) + Len(S) :
           (ED \o S)[i] = IF i <= 6 + Len(D) THEN ED[i] ELSE S[i - (6 + Len(D))]
  <2>1. /\ Len(ED \o S) = Len(ED) + Len(S)
        /\ \A i \in 1..Len(ED) + Len(S) :
             (ED \o S)[i] = IF i <= Len(ED) THEN ED[i] ELSE S[i - Len(ED)]
    BY <1>4, <1>6, ConcatProperties
  <2>2. QED BY <1>6, <2>1
<1>8. Len(D) \in 0..1 /\ Len(S) \in 0..1 /\ Columns(drag, srp) = 6 + Len(D) + Len(S)
  BY <1>3, <1>4 DEF Columns
<1>9. \A j \in 1..6 : (ED \o S)[j] = EquinoctialElements[j]
  BY <1>6, <1>7, <1>8
<1>10. ASSUME drag PROVE (ED \o S)[7] = "drag_coefficient"
  BY <1>3, <1>6, <1>7, <1>8, <1>10
<1>11. ASSUME srp PROVE (ED \o S)[Columns(drag, srp)] = "srp_coefficient"
  BY <1>4, <1>7, <1>8, <1>11
<1>12. QED BY <1>5, <1>7, <1>8, <1>9, <1>10, <1>11

(* A column is an element, the drag or the last one.                       *)
LEMMA ColumnCases ==
  ASSUME NEW drag \in BOOLEAN, NEW srp \in BOOLEAN, NEW j \in 1..Columns(drag, srp)
  PROVE  \/ j \in 1..6
         \/ drag /\ j = 7
         \/ srp /\ j = Columns(drag, srp) /\ j \notin 1..6
BY DEF Columns

(* An element is found again at its own index.                             *)
LEMMA ElementEntry ==
  ASSUME NEW i \in 1..6, NEW len
  PROVE  CorrectionEntry(EquinoctialElements[i], len) = i
<1>1. EquinoctialElements[i] \notin {"drag_coefficient", "srp_coefficient"}
  BY DEF EquinoctialElements
<1>2. \A k \in 1..6 : EquinoctialElements[k] = EquinoctialElements[i] => k = i
  BY DEF EquinoctialElements
<1>3. QED BY <1>1, <1>2 DEF CorrectionEntry

(* build_perturbed_satellites and get_jacobian, two enumerations written   *)
(* apart, agree on every column for every choice of the flags.             *)
THEOREM JacobiansAgree ==
  ASSUME NEW drag \in BOOLEAN, NEW srp \in BOOLEAN
  PROVE  /\ Len(PerturbedParameters(drag, srp)) = Columns(drag, srp)
         /\ \A j \in 1..Columns(drag, srp) :
              PerturbedParameters(drag, srp)[j] = JacobianParameters(drag, srp)[j]
<1> DEFINE P == PerturbedParameters(drag, srp)
<1>1. Len(P) = Columns(drag, srp)
  BY PerturbedColumns
<1>2. ASSUME NEW j \in 1..Columns(drag, srp)
      PROVE  P[j] = JacobianParameters(drag, srp)[j]
  <2>1. CASE j \in 1..6
    BY <2>1, PerturbedColumns DEF JacobianParameters
  <2>2. CASE drag /\ j = 7
    <3>1. P[j] = "drag_coefficient"
      BY <2>2, PerturbedColumns
    <3>2. JacobianParameters(drag, srp)[j] = "drag_coefficient"
      BY <2>2 DEF JacobianParameters
    <3>3. QED BY <3>1, <3>2
  <2>3. CASE srp /\ j = Columns(drag, srp) /\ j \notin 1..6
    <3>1. P[j] = "srp_coefficient"
      BY <2>3, PerturbedColumns
    <3>2. JacobianParameters(drag, srp)[j] = "srp_coefficient"
      BY <2>3 DEF JacobianParameters, Columns
    <3>3. QED BY <3>1, <3>2
  <2>4. QED BY <2>1, <2>2, <2>3, ColumnCases
<1>3. QED BY <1>1, <1>2

(* Whatever the type of the elements, get_stm perturbs only parameters     *)
(* that its propagator is given; it differs from get_jacobian exactly for  *)
(* the last column of the GP types.                                        *)
THEOREM StmObservable ==
  ASSUME NEW type \in KeplerianType, NEW drag \in BOOLEAN, NEW srp \in BOOLEAN,
         NEW j \in 1..Columns(drag, srp)
  PROVE  /\ StmParameters(type, drag, srp)[j] \in LoadedParameters(type)
         /\ StmParameters(type, drag, srp)[j] # JacobianParameters(drag, srp)[j]
              <=> srp /\ type \in GPTypes /\ j = Columns(drag, srp)
<1>1. CASE j \in 1..6
  <2>1. EquinoctialElements[j] \in Elements
    BY <1>1 DEF Elements
  <2>2. j # Columns(drag, srp) \/ ~srp
    BY <1>1 DEF Columns
  <2>3. QED BY <1>1, <2>1, <2>2 DEF StmParameters, JacobianParameters, LoadedParameters
<1>2. CASE drag /\ j = 7
  BY <1>2 DEF StmParameters, JacobianParameters, LoadedParameters, Columns
<1>3. CASE srp /\ j = Columns(drag, srp) /\ j \notin 1..6
  BY <1>3 DEF StmParameters, JacobianParameters, LoadedParameters, Columns,
     KeplerianType, GPTypes
<1>4. QED BY <1>1, <1>2, <1>3, ColumnCases

(* A prediction has every component of the measurement, and only those     *)
(* exactly when the sensor has a noise for every value: one value without  *)
(* noise makes the predictions longer than the measurements, which         *)
(* get_predicted_measurements refuses.                                     *)
THEOREM PredictionCoversMeasurement ==
  ASSUME NEW shape \in Shape
  PROVE  /\ MeasuredComponents(shape) \subseteq PredictedComponents(shape)
         /\ MeasuredComponents(shape) = PredictedComponents(shape)
              <=> \A c \in shape.values : NoiseOf(c) \in shape.noises
<1>1. MeasuredComponents(shape) \subseteq PredictedComponents(shape)
  BY DEF MeasuredComponents, PredictedComponents
<1>2. ASSUME MeasuredComponents(shape) = PredictedComponents(shape),
             NEW c \in shape.values
      PROVE  NoiseOf(c) \in shape.noises
  <2>1. c \in Optional /\ c \notin {"ra", "dec"}
    BY DEF Shape, Optional
  <2>2. c \in MeasuredComponents(shape)
    BY <1>2 DEF PredictedComponents
  <2>3. QED BY <2>1, <2>2 DEF MeasuredComponents
<1>3. ASSUME \A c \in shape.values : NoiseOf(c) \in shape.noises
      PROVE  MeasuredComponents(shape) = PredictedComponents(shape)
  BY <1>3 DEF MeasuredComponents, PredictedComponents
<1>4. QED BY <1>1, <1>2, <1>3

-----------------------------------------------------------------------------
(* The strengthening: only an estimate with a propagator is iterated, and  *)
(* one of a GP type never has a radiation pressure to solve for.           *)
SrpOK ==
  /\ Looping => current_estimate.ready
  /\ current_estimate.ready /\ use_srp => current_estimate.type \notin GPTypes

(* A step that leaves the estimate's type and propagator, the flag and the *)
(* loop alone, or leaves the loop, keeps the strengthening.                *)
LEMMA SrpUntouched ==
  ASSUME SrpOK, UNCHANGED use_srp, Looping' => Looping,
         current_estimate'.ready = current_estimate.ready,
         current_estimate'.type = current_estimate.type
  PROVE  SrpOK'
BY DEF SrpOK

THEOREM SrpCorrect == Spec => []SrpOK
<1>1. Init => SrpOK
  BY DEF Init, SrpOK, Looping
<1>2. TypeOK /\ SrpOK /\ [Next]_vars => SrpOK'
  <2> SUFFICES ASSUME TypeOK, SrpOK, [Next]_vars PROVE SrpOK'
    OBVIOUS
  <2>1. ASSUME NEW a, NEW t, NEW s, Reset(a, t, s), phase = "idle", phase' = "idle"
        PROVE  SrpOK'
    <3>1. ~Looping'
      BY <2>1 DEF Looping
    <3>2. CASE /\ Propagates(t)
               /\ current_estimate' = [a_priori |-> a, type |-> t, epoch |-> a.epoch,
                                       ready |-> TRUE, revision |-> 0]
               /\ use_srp' = (s /\ t \notin GPTypes)
      BY <3>1, <3>2 DEF SrpOK
    <3>3. CASE ~current_estimate'.ready
      BY <3>1, <3>3 DEF SrpOK
    <3>4. QED BY <2>1, <3>2, <3>3 DEF Reset
  <2>2. CASE Setter
    <3>1. ASSUME UNCHANGED <<fit, phase, use_srp>> PROVE SrpOK'
      BY <3>1, SrpUntouched DEF fit, Looping
    <3>2. QED
      BY <2>1, <2>2, <3>1 DEF Setter, SetOutputType, SetAPriori, SetObservations,
         SetEstimateDrag, SetEstimateSrp, SetEstimateManeuver, SetMaxIterations,
         SetEccentricityConstraintWeight, SetAllowRadialDeltaV, inputs, locals
  <2>3. ASSUME NEW O, NEW loop, StartLoop(O, loop), UNCHANGED use_srp PROVE SrpOK'
    <3>1. CASE UNCHANGED current_estimate /\ phase' = "idle"
      BY <2>3, <3>1 DEF SrpOK, Looping
    <3>2. CASE /\ current_estimate.ready
               /\ \E e : current_estimate' =
                           [current_estimate EXCEPT !.epoch = e, !.revision = 0]
      <4>1. current_estimate'.ready /\ current_estimate'.type = current_estimate.type
        BY <3>2 DEF TypeOK, Estimate
      <4>2. QED BY <2>3, <3>2, <4>1 DEF SrpOK
    <3>3. QED BY <2>3, <3>1, <3>2 DEF StartLoop
  <2>4. CASE Solve
    BY <2>3, <2>4 DEF Solve, inputs
  <2>5. CASE SearchFails
    BY <2>5, SrpUntouched DEF SearchFails, inputs, fit, Looping
  <2>6. ASSUME NEW e \in SearchEpochs, SolveWithManeuver(e) PROVE SrpOK'
    BY <2>3, <2>6 DEF SolveWithManeuver, inputs
  <2>7. CASE Iterate
    <3>1. CASE Updated
      <4>1. /\ current_estimate'.ready = current_estimate.ready
            /\ current_estimate'.type = current_estimate.type
        BY <3>1 DEF Updated, TypeOK, Estimate
      <4>2. QED BY <2>7, <3>1, <4>1, SrpUntouched DEF Iterate, Updated, inputs, Looping
    <3>2. CASE PredictionFails \/ CorrectionFails \/ UpdateFails
      BY <2>7, <3>2, SrpUntouched DEF Iterate, PredictionFails, CorrectionFails,
         UpdateFails, ReturnErr, inputs, Looping
    <3>3. QED BY <2>7, <3>1, <3>2 DEF Iterate
  <2>8. CASE SolveReturns \/ RestoreObservations \/ ComputeDeltaV
    BY <2>8, SrpUntouched DEF SolveReturns, RestoreObservations, ComputeDeltaV, ReturnErr,
       inputs, fit, Looping
  <2>9. CASE UNCHANGED vars
    BY <2>9, SrpUntouched DEF vars, inputs, fit, Looping
  <2>10. QED BY <2>2, <2>4, <2>5, <2>6, <2>7, <2>8, <2>9 DEF Next, Running
<1>3. QED BY <1>1, <1>2, TypeCorrect, PTL DEF Spec

(* No solve sets up a column its propagator cannot see, and no correction  *)
(* goes to another parameter than the one whose column it solves.          *)
THEOREM ColumnsCorrect == Spec => []ColumnsEstimable
<1>1. TypeOK /\ SrpOK => ColumnsObservable
  <2> SUFFICES ASSUME TypeOK, SrpOK, Looping, NEW j \in 1..Len(Solved)
               PROVE  Solved[j] \in LoadedParameters(current_estimate.type)
    BY DEF ColumnsObservable
  <2>1. use_drag \in BOOLEAN /\ use_srp \in BOOLEAN
    BY DEF TypeOK
  <2>2. j \in 1..Columns(use_drag, use_srp)
    BY <2>1, PerturbedColumns DEF Solved
  <2>3. CASE j \in 1..6
    BY <2>1, <2>3, PerturbedColumns DEF Solved, LoadedParameters, Elements
  <2>4. CASE use_drag /\ j = 7
    BY <2>1, <2>4, PerturbedColumns DEF Solved, LoadedParameters
  <2>5. CASE use_srp /\ j = Columns(use_drag, use_srp)
    <3>1. current_estimate.type \notin GPTypes
      BY <2>5 DEF SrpOK
    <3>2. QED BY <2>1, <2>5, <3>1, PerturbedColumns DEF Solved, LoadedParameters
  <2>6. QED BY <2>1, <2>2, <2>3, <2>4, <2>5, ColumnCases
<1>2. TypeOK /\ ResultsFitLoop => CorrectionsAligned
  <2> SUFFICES ASSUME TypeOK, ResultsFitLoop, delta_x # 0 PROVE
                 /\ Corrected(use_drag, use_srp) = {Solved[j] : j \in 1..Len(Solved)}
                 /\ \A j \in 1..Len(Solved) : CorrectionEntry(Solved[j], delta_x) = j
    BY DEF CorrectionsAligned
  <2>1. use_drag \in BOOLEAN /\ use_srp \in BOOLEAN
    BY DEF TypeOK
  <2>2. delta_x = Columns(use_drag, use_srp)
    BY DEF ResultsFitLoop, CorrectionFitsModel
  <2>3. Len(Solved) = Columns(use_drag, use_srp)
    BY <2>1, PerturbedColumns DEF Solved
  <2>4. ASSUME NEW j \in 1..Len(Solved)
        PROVE  /\ CorrectionEntry(Solved[j], delta_x) = j
               /\ Solved[j] \in Corrected(use_drag, use_srp)
    <3>1. CASE j \in 1..6
      BY <2>1, <3>1, PerturbedColumns, ElementEntry DEF Solved, Corrected, Elements
    <3>2. CASE use_drag /\ j = 7
      BY <2>1, <3>2, PerturbedColumns DEF Solved, Corrected, CorrectionEntry
    <3>3. CASE use_srp /\ j = Columns(use_drag, use_srp)
      BY <2>1, <2>2, <3>3, PerturbedColumns DEF Solved, Corrected, CorrectionEntry
    <3>4. QED BY <2>1, <2>3, <3>1, <3>2, <3>3, ColumnCases
  <2>5. ASSUME NEW p \in Corrected(use_drag, use_srp)
        PROVE  \E j \in 1..Len(Solved) : Solved[j] = p
    <3>1. CASE p \in Elements
      <4>1. PICK j \in 1..6 : p = EquinoctialElements[j]
        BY <3>1 DEF Elements
      <4>2. j \in 1..Len(Solved)
        BY <2>1, <2>3 DEF Columns
      <4>3. QED BY <2>1, <4>1, <4>2, PerturbedColumns DEF Solved
    <3>2. CASE use_drag /\ p = "drag_coefficient"
      <4>1. 7 \in 1..Len(Solved)
        BY <2>1, <2>3, <3>2 DEF Columns
      <4>2. QED BY <2>1, <3>2, <4>1, PerturbedColumns DEF Solved
    <3>3. CASE use_srp /\ p = "srp_coefficient"
      <4>1. Columns(use_drag, use_srp) \in 1..Len(Solved)
        BY <2>1, <2>3 DEF Columns
      <4>2. QED BY <2>1, <3>3, <4>1, PerturbedColumns DEF Solved
    <3>4. QED BY <2>1, <3>1, <3>2, <3>3 DEF Corrected
  <2>6. QED BY <2>4, <2>5
<1>3. QED BY <1>1, <1>2, TypeCorrect, SrpCorrect, ResultsCorrect, PTL DEF ColumnsEstimable
=============================================================================
