--------------------------- MODULE BatchPropagator --------------------------
(***************************************************************************)
(* The batch propagations of src/src/propagation/batch_propagator.rs and   *)
(* src/src/elements/tle.rs, and the constellation that asks for them       *)
(* (src/src/bodies/constellation.rs). A satellite keeps its orbit twice:   *)
(* in its fields, which the GPU is given, and in the TLE of its            *)
(* inertial_propagator, which the CPU propagates. A TLE is the elements    *)
(* and forces it was loaded with; the state it has at an epoch is kept as  *)
(* the TLE, the epoch and the type its elements were read as. What the     *)
(* GPU does with its buffers is in CudaSgp4Propagator.                     *)
(***************************************************************************)
EXTENDS Naturals, Sequences, FiniteSets

CONSTANTS
  Ids,              (* satellite ids, also the keys of the constellation   *)
  Orbits,
  Forces,           (* force properties                                    *)
  Times,            (* bound: epochs, natural numbers                      *)
  Settable,         (* bound: the elements set_keplerian_state is given    *)
  Catalog,          (* bound: the TLEs satellites are made from            *)
  TleLists,         (* bound: the lists of TLEs a caller propagates        *)
  EpochLists,       (* bound: the lists of epochs a caller asks for        *)
  Thresholds,       (* bound: the values set_gpu_threshold is given        *)
  DefaultThreshold, (* 1000 in the code                                    *)
  ManyEpochs,       (* 100 in the code                                     *)
  UsizeMax,         (* usize::MAX                                          *)
  CpuFails,         (* pairs of an orbit and an epoch SAAL cannot reach    *)
  GpuFails,         (* those with an error code from the kernel            *)
  SaalMayRefuse,    (* pairs of an orbit and forces SAAL may not load      *)
  None              (* Option::None                                        *)

XpToo == {"MeanKozaiGP", "MeanBrouwerGP", "MeanBrouwerXP"}

GpTypes == {"MeanKozaiGP", "MeanBrouwerGP"}

MeanTypes == GpTypes \cup {"MeanBrouwerXP"}

KeplerianStates ==
  [orbit : Orbits, epoch : Times, keplerian_type : MeanTypes \cup {"Osculating"}]

(* SAAL loads mean elements only.                                          *)
Loads(state) == state.keplerian_type \in MeanTypes

TLEs == [keplerian_state : {s \in KeplerianStates : Loads(s)}, force_properties : Forces]

ASSUME BatchAssumption ==
  /\ IsFiniteSet(Ids)
  /\ Times \subseteq Nat
  /\ Settable \subseteq KeplerianStates
  /\ Catalog \subseteq TLEs
  /\ TleLists \subseteq Seq(TLEs)
  /\ EpochLists \subseteq Seq(Times)
  /\ Thresholds \subseteq Nat /\ DefaultThreshold \in Nat /\ ManyEpochs \in Nat \ {0}
  /\ UsizeMax \in Nat
  /\ CpuFails \subseteq Orbits \X Times /\ GpuFails \subseteq Orbits \X Times
  /\ SaalMayRefuse \subseteq Orbits \X Forces
  /\ None \notin KeplerianStates \cup
       [keplerian_state : KeplerianStates, force_properties : Forces] \cup
       [tle : TLEs, read_as : MeanTypes, time : Nat]

VARIABLES
  satellites,   (* a function from some ids to satellites                  *)
  refused,      (* history: the satellites whose last setter stored a      *)
                (* field but loaded no TLE of the fields: elements that    *)
                (* are osculating, or a load SAAL refused                  *)
  reply         (* what a call returned, None once the caller has seen it  *)

vars == <<satellites, refused, reply>>

Satellite ==
  [keplerian_state : KeplerianStates \cup {None}, force_properties : Forces,
   inertial_propagator : TLEs \cup {None}]

Keys == DOMAIN satellites

Tle(state, forces) == [keplerian_state |-> state, force_properties |-> forces]

FromTle(tle) ==
  [keplerian_state |-> tle.keplerian_state, force_properties |-> tle.force_properties,
   inertial_propagator |-> tle]

(* The outcomes of a load: SAAL may refuse what it accepted before, when   *)
(* its memory is full. load_to_memory returns that as an error.            *)
LoadOutcomes(tle) ==
  {TRUE} \cup IF <<tle.keplerian_state.orbit, tle.force_properties>> \in SaalMayRefuse
               THEN {FALSE} ELSE {}

NewSatellites ==
  {FromTle(tle) : tle \in Catalog} \cup
  [keplerian_state : {None}, force_properties : Forces, inertial_propagator : {None}]

Init ==
  /\ \E keys \in SUBSET Ids : \E tles \in [keys -> Catalog] :
       satellites = [id \in keys |-> FromTle(tles[id])]
  /\ refused = {}
  /\ reply = None

-----------------------------------------------------------------------------
(* States. The CPU reads the elements of a TLE as its type says; the init  *)
(* kernel takes every mean motion for Kozai's.                             *)
CpuState(tle, t) == [tle |-> tle, read_as |-> tle.keplerian_state.keplerian_type, time |-> t]
GpuState(tle, t) == [tle |-> tle, read_as |-> "MeanKozaiGP", time |-> t]

CpuReaches(tle, t) == <<tle.keplerian_state.orbit, t>> \notin CpuFails
GpuReaches(tle, t) == <<tle.keplerian_state.orbit, t>> \notin GpuFails

(* BatchPropagator, built anew for each use, set_backend and               *)
(* set_gpu_threshold included. Without the cuda feature or a device,       *)
(* gpu_available is false.                                                 *)
Backends == {"Auto", "Cpu", "Gpu"}

New(available) ==
  [backend |-> "Auto", gpu_threshold |-> DefaultThreshold, gpu_available |-> available]

SetBackend(p, backend) == [p EXCEPT !.backend = backend]
SetGpuThreshold(p, threshold) == [p EXCEPT !.gpu_threshold = threshold]

SelectBackend(p, n_satellites, n_times) ==
  IF /\ p.gpu_available
     /\ \/ p.backend = "Gpu"
        \/ p.backend = "Auto" /\ n_satellites * n_times >= p.gpu_threshold
    THEN "Gpu" ELSE "Cpu"

Ok(rows) == [is |-> "Ok", rows |-> rows]
Err      == [is |-> "Err", rows |-> <<>>]
Panic    == [is |-> "Panic", rows |-> <<>>]

PropagateBatchCpu(tles, epochs) ==
  IF \A i \in DOMAIN tles, t \in DOMAIN epochs : CpuReaches(tles[i], epochs[t])
    THEN Ok([i \in DOMAIN tles |-> [t \in DOMAIN epochs |-> CpuState(tles[i], epochs[t])]])
    ELSE Err

(* CudaSgp4Propagator::propagate lists all times of a satellite together.  *)
GpuStates(tles, epochs) ==
  [k \in 1..Len(tles) * Len(epochs) |->
     GpuState(tles[((k - 1) \div Len(epochs)) + 1], epochs[((k - 1) % Len(epochs)) + 1])]

StateIdx(i, t, n_epochs) == (i - 1) * n_epochs + t

(* Any call of the device may fail; one error code fails the whole batch.  *)
GpuRows(tles, epochs) ==
  LET gpu_states == GpuStates(tles, epochs)
  IN  [i \in DOMAIN tles |->
         [t \in DOMAIN epochs |-> gpu_states[StateIdx(i, t, Len(epochs))]]]

PropagateBatchGpu(tles, epochs) ==
  {Err} \cup IF \A i \in DOMAIN tles, t \in DOMAIN epochs : GpuReaches(tles[i], epochs[t])
               THEN {Ok(GpuRows(tles, epochs))} ELSE {}

(* Without epochs each TLE still has its row.                              *)
NoRows(tles) == <<>>

EmptyRows(tles) == [i \in DOMAIN tles |-> <<>>]

(* The outcomes of BatchPropagator::propagate_batch.                       *)
PropagateBatch(p, tles, epochs) ==
  IF tles = <<>> THEN {Ok(<<>>)}
  ELSE IF epochs = <<>> THEN {Ok(EmptyRows(tles))}
  ELSE IF SelectBackend(p, Len(tles), Len(epochs)) = "Gpu"
    THEN PropagateBatchGpu(tles, epochs)
    ELSE {PropagateBatchCpu(tles, epochs)}

(* Its outcomes when the answer stays on the device.                       *)
PropagateBatchGpuResident(p, tles, epochs) ==
  {Err} \cup
  IF tles # <<>> /\ epochs # <<>> /\ SelectBackend(p, Len(tles), Len(epochs)) = "Gpu"
    THEN {[is |-> "Resident", rows |-> <<>>]} ELSE {}

-----------------------------------------------------------------------------
(* The calls that propagate TLEs of the caller.                            *)
Reply(op, asked, epochs, p, outcome) ==
  /\ reply = None
  /\ reply' = [op |-> op, asked |-> asked, epochs |-> epochs, propagator |-> p,
               result |-> outcome]
  /\ UNCHANGED <<satellites, refused>>

CallersPropagators ==
  {SetGpuThreshold(SetBackend(New(available), backend), threshold) :
     available \in BOOLEAN, backend \in Backends, threshold \in Thresholds}

CallBatch ==
  \E p \in CallersPropagators, tles \in TleLists, epochs \in EpochLists :
    \E outcome \in PropagateBatch(p, tles, epochs) :
      Reply("batch", tles, epochs, p, outcome)

CallBatchGpuResident ==
  \E p \in CallersPropagators, tles \in TleLists, epochs \in EpochLists :
    \E outcome \in PropagateBatchGpuResident(p, tles, epochs) :
      Reply("resident", tles, epochs, p, outcome)

TlePropagateBatch ==
  \E available \in BOOLEAN, tles \in TleLists, epochs \in EpochLists :
    \E outcome \in PropagateBatch(New(available), tles, epochs) :
      Reply("batch", tles, epochs, New(available), outcome)

(* TLE::propagate_to_epochs: few epochs are left to the CPU.               *)
ForEpochs(available, epochs) ==
  SetGpuThreshold(New(available), IF Len(epochs) >= ManyEpochs THEN ManyEpochs ELSE UsizeMax)

TlePropagateToEpochs ==
  \E available \in BOOLEAN, tle \in Catalog, epochs \in EpochLists :
    LET p == ForEpochs(available, epochs)
    IN  \E outcome \in IF epochs = <<>> THEN {Ok(<<<<>>>>)} ELSE PropagateBatch(p, <<tle>>, epochs) :
          Reply("batch", <<tle>>, epochs, p, outcome)

-----------------------------------------------------------------------------
(* The calls of the constellation. Its map is iterated in some order, the  *)
(* same for keys() and values().                                           *)
Orders == {order \in [1..Cardinality(Keys) -> Keys] :
             \A id \in Keys : \E i \in DOMAIN order : order[i] = id}

GetStateAtEpoch(sat, t) ==
  IF sat.inertial_propagator # None /\ CpuReaches(sat.inertial_propagator, t)
    THEN CpuState(sat.inertial_propagator, t) ELSE None

EachAlone(epochs) ==
  Ok([id \in Keys |-> [t \in DOMAIN epochs |-> GetStateAtEpoch(satellites[id], epochs[t])]])

(* TLE::from(satellite) unwraps the elements and the load of its own TLE.  *)
LoadsFields(sat) == sat.keplerian_state # None /\ Loads(sat.keplerian_state)

TleOfFields(sat) == Tle(sat.keplerian_state, sat.force_properties)

(* The rows of a batch belong to the keys in the same order.               *)
ByKey(order, rows) == [id \in Keys |-> rows[CHOOSE i \in DOMAIN order : order[i] = id]]

MayPanic(sat) == LoadsFields(sat) => FALSE \in LoadOutcomes(TleOfFields(sat))

OnGpu(p, epochs) ==
  (IF \E id \in Keys : MayPanic(satellites[id]) THEN {Panic} ELSE {}) \cup
  IF \E id \in Keys : ~LoadsFields(satellites[id]) THEN {}
  ELSE IF \E id \in Keys : satellites[id].keplerian_state.keplerian_type \notin GpTypes
    THEN {EachAlone(epochs)}
    ELSE UNION {
      LET tles == [i \in DOMAIN order |-> TleOfFields(satellites[order[i]])]
      IN  {IF outcome = Err THEN EachAlone(epochs) ELSE Ok(ByKey(order, outcome.rows)) :
             outcome \in PropagateBatch(p, tles, epochs)} : order \in Orders}

GetStatesAtEpochs(p, epochs) ==
  IF SelectBackend(p, Cardinality(Keys), Len(epochs)) = "Gpu"
    THEN OnGpu(p, epochs) ELSE {EachAlone(epochs)}

AskStatesAtEpochs ==
  \E available \in BOOLEAN, backend \in Backends, epochs \in EpochLists :
    LET p == SetBackend(New(available), backend)
    IN  \E outcome \in GetStatesAtEpochs(p, epochs) :
          Reply("constellation", Keys, epochs, p, outcome)

(* The first epoch is there even if the range is empty. No step is zero:   *)
(* that list would never end.                                              *)
EpochsOf(start, end, step) ==
  [k \in 1..((IF end < start THEN 0 ELSE (end - start) \div step) + 1) |->
     start + (k - 1) * step]

AskBatchEphemeris ==
  \E available \in BOOLEAN, backend \in Backends, start, end \in Times, step \in Times \ {0} :
    LET p      == SetBackend(New(available), backend)
        epochs == EpochsOf(start, end, step)
    IN  \E outcome \in GetStatesAtEpochs(p, epochs) :
          Reply("constellation", Keys, epochs, p, outcome)

AskStatesAtEpoch ==
  \E t \in Times : Reply("constellation", Keys, <<t>>, New(FALSE), EachAlone(<<t>>))

-----------------------------------------------------------------------------
(* What changes satellites: each of the constellation's own is got, set    *)
(* and added again by the caller.                                          *)
Put(id, sat) ==
  /\ reply = None
  /\ satellites' = [i \in Keys \cup {id} |-> IF i = id THEN sat ELSE satellites[i]]
  /\ UNCHANGED reply

Add(id) ==
  /\ \E sat \in NewSatellites : Put(id, sat)
  /\ refused' = refused \ {id}

Remove(id) ==
  /\ reply = None
  /\ satellites' = [i \in Keys \ {id} |-> satellites[i]]
  /\ refused' = refused \ {id}
  /\ UNCHANGED reply

(* A setter stores its field before SAAL is asked: a refused load panics   *)
(* (the caller may catch that) and leaves the propagator as it was.        *)
Reloaded(sat, accepted) ==
  [sat EXCEPT !.inertial_propagator =
     IF LoadsFields(sat) /\ accepted THEN TleOfFields(sat) ELSE @]

WithState(sat, state) == [sat EXCEPT !.keplerian_state = state]

SetKeplerianState(id, state) ==
  /\ id \in Keys
  /\ LET sat == WithState(satellites[id], state)
     IN  IF Loads(state)
           THEN \E accepted \in LoadOutcomes(TleOfFields(sat)) :
                  /\ Put(id, Reloaded(sat, accepted))
                  /\ refused' = IF accepted THEN refused \ {id} ELSE refused \cup {id}
           ELSE Put(id, sat) /\ refused' = refused \cup {id}

WithForces(sat, forces) == [sat EXCEPT !.force_properties = forces]

SetForceProperties(id, forces) ==
  /\ id \in Keys
  /\ LET sat == WithForces(satellites[id], forces)
     IN  IF LoadsFields(sat)
           THEN \E accepted \in LoadOutcomes(TleOfFields(sat)) :
                  /\ Put(id, Reloaded(sat, accepted))
                  /\ refused' = IF accepted THEN refused \ {id} ELSE refused \cup {id}
           ELSE Put(id, sat) /\ UNCHANGED refused

(* Satellite::step_to_epoch loads the re-epoched lines; they carry the     *)
(* forces of the propagator. Rounding to their digits is left out.         *)
CanStep(sat, t) == sat.inertial_propagator # None /\ CpuReaches(sat.inertial_propagator, t)

ReEpoched(tle, t) == [tle EXCEPT !.keplerian_state.epoch = t]

SteppedPropagatorOnly(sat, t) == [sat EXCEPT !.inertial_propagator = ReEpoched(@, t)]

Stepped(sat, t) ==
  [sat EXCEPT !.keplerian_state = ReEpoched(sat.inertial_propagator, t).keplerian_state,
              !.inertial_propagator = ReEpoched(@, t)]

(* A satellite whose load is refused stays where it is.                    *)
Moved(sat, t) ==
  IF CanStep(sat, t)
    THEN {IF accepted THEN Stepped(sat, t) ELSE sat :
            accepted \in LoadOutcomes(ReEpoched(sat.inertial_propagator, t))}
    ELSE {sat}

StepToEpoch(t) ==
  /\ reply = None
  /\ satellites' \in {f \in [Keys -> UNION {Moved(satellites[id], t) : id \in Keys}] :
                         \A id \in Keys : f[id] \in Moved(satellites[id], t)}
  /\ UNCHANGED <<refused, reply>>

Change ==
  \/ \E id \in Ids : Add(id) \/ Remove(id)
  \/ \E id \in Ids, state \in Settable : SetKeplerianState(id, state)
  \/ \E id \in Ids, forces \in Forces : SetForceProperties(id, forces)
  \/ \E t \in Times : StepToEpoch(t)

Call ==
  \/ CallBatch
  \/ CallBatchGpuResident
  \/ TlePropagateBatch
  \/ TlePropagateToEpochs
  \/ AskStatesAtEpochs
  \/ AskBatchEphemeris
  \/ AskStatesAtEpoch

Seen == reply # None /\ reply' = None /\ UNCHANGED <<satellites, refused>>

Next == Change \/ Call \/ Seen

Spec == Init /\ [][Next]_vars

-----------------------------------------------------------------------------
(* What the module is about.                                               *)

TypeOK ==
  /\ Keys \subseteq Ids
  /\ \A id \in Keys : satellites[id] \in Satellite
  /\ refused \subseteq Keys

Agrees(sat) ==
  IF sat.keplerian_state = None THEN sat.inertial_propagator = None
  ELSE sat.inertial_propagator = TleOfFields(sat)

(* The two copies of an orbit, the fields of a satellite and the TLE of    *)
(* its propagator, stay the same through every sequence of setters, steps, *)
(* additions and removals, whichever satellites SAAL refuses to load, but  *)
(* for a satellite whose last setter stored a field and loaded nothing: it *)
(* is whole again after the next load.                                     *)
FieldsFollowPropagator == \A id \in Keys \ refused : Agrees(satellites[id])

(* The elements of the TLE are read as what they are.                      *)
Faithful(tle) == tle.keplerian_state.keplerian_type # "MeanBrouwerGP"

Tells(cell, sat, t) ==
  IF cell = None
    THEN sat.inertial_propagator # None => ~CpuReaches(sat.inertial_propagator, t)
    ELSE /\ cell.time = t
         /\ cell.tle \in {sat.inertial_propagator, TleOfFields(sat)}

TellsPropagator(cell, sat, t) ==
  cell # None => /\ cell.tle = sat.inertial_propagator
                 /\ Faithful(cell.tle) => cell = CpuState(sat.inertial_propagator, t)

(* What get_states_at_epochs and get_batch_ephemeris answer does not       *)
(* depend on the backend, the threshold, a failure of the device, the      *)
(* other satellites or the order of the map: one state for each satellite  *)
(* and epoch, that of the satellite's own propagator unless a setter was   *)
(* refused (and read as its type says, unless that is MeanBrouwerGP), or   *)
(* None where SAAL cannot reach the epoch. They panic only on the way to   *)
(* the GPU, over a satellite without elements, whose setter was refused,   *)
(* or which SAAL may not load a second time.                               *)
ConstellationAnswersTrue ==
  reply # None /\ reply.op = "constellation" =>
    IF reply.result.is = "Panic"
      THEN /\ SelectBackend(reply.propagator, Cardinality(Keys), Len(reply.epochs)) = "Gpu"
           /\ \E id \in Keys : \/ id \in refused
                              \/ satellites[id].keplerian_state = None
                              \/ FALSE \in LoadOutcomes(TleOfFields(satellites[id]))
      ELSE /\ DOMAIN reply.result.rows = Keys
           /\ \A id \in Keys :
                LET row == reply.result.rows[id]
                IN  /\ DOMAIN row = DOMAIN reply.epochs
                    /\ \A t \in DOMAIN row :
                         /\ Tells(row[t], satellites[id], reply.epochs[t])
                         /\ id \notin refused =>
                              TellsPropagator(row[t], satellites[id], reply.epochs[t])

MayFail(tles, epochs, p) ==
  \/ p.gpu_available /\ p.backend # "Cpu"
  \/ \E i \in DOMAIN tles, t \in DOMAIN epochs : ~CpuReaches(tles[i], epochs[t])

(* A batch answers with one row for each TLE and one state in it for each  *)
(* epoch, in their order, whichever backend; elements are read as what     *)
(* they are if they are Kozai's. It fails only if the device may have or   *)
(* SAAL did.                                                               *)
BatchAnswersTrue ==
  reply # None /\ reply.op = "batch" =>
    LET result == reply.result
    IN  /\ result.is = "Err" => MayFail(reply.asked, reply.epochs, reply.propagator)
        /\ result.is = "Ok" =>
             /\ DOMAIN result.rows = DOMAIN reply.asked
             /\ \A i \in DOMAIN reply.asked :
                  /\ DOMAIN result.rows[i] = DOMAIN reply.epochs
                  /\ \A t \in DOMAIN reply.epochs :
                       LET cell == result.rows[i][t]
                       IN  /\ cell.tle = reply.asked[i]
                           /\ cell.time = reply.epochs[t]
                           /\ cell.tle.keplerian_state.keplerian_type = "MeanKozaiGP" =>
                                cell.read_as = "MeanKozaiGP"
=============================================================================
