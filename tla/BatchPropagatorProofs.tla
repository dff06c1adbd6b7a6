------------------------ MODULE BatchPropagatorProofs -----------------------
(***************************************************************************)
(* The fields of a satellite follow its propagator, and so every answer of *)
(* a constellation is that of its propagators, for any number of           *)
(* satellites, thresholds, failures and orders of the map.                 *)
(***************************************************************************)
EXTENDS BatchPropagator, FiniteSetTheorems, TLAPS

LEMMA NoneIsNoTle == None \notin TLEs
  BY BatchAssumption DEF TLEs

(* What an addition or a setter puts into the constellation.               *)
LEMMA MadeOfTle ==
  ASSUME NEW tle \in TLEs
  PROVE  FromTle(tle) \in Satellite /\ Agrees(FromTle(tle))
  BY NoneIsNoTle, BatchAssumption DEF FromTle, Satellite, Agrees, TleOfFields, Tle, TLEs

LEMMA MadeNew ==
  ASSUME NEW sat \in NewSatellites
  PROVE  sat \in Satellite /\ Agrees(sat)
<1>1. CASE \E tle \in Catalog : sat = FromTle(tle)
  BY <1>1, MadeOfTle, BatchAssumption
<1>2. CASE sat \in [keplerian_state : {None}, force_properties : Forces,
                    inertial_propagator : {None}]
  BY <1>2 DEF Satellite, Agrees
<1> QED BY <1>1, <1>2 DEF NewSatellites

(* What a setter that loaded leaves: the TLE of the fields.                *)
LEMMA Loaded ==
  ASSUME NEW sat \in Satellite, LoadsFields(sat)
  PROVE  /\ TleOfFields(sat) \in TLEs
         /\ Reloaded(sat, TRUE) \in Satellite /\ Agrees(Reloaded(sat, TRUE))
<1>1. TleOfFields(sat) \in TLEs
  BY DEF LoadsFields, Satellite, TleOfFields, Tle, TLEs
<1>2. Reloaded(sat, TRUE) = [sat EXCEPT !.inertial_propagator = TleOfFields(sat)]
  BY DEF Reloaded
<1> QED BY <1>1, <1>2 DEF LoadsFields, Satellite, Agrees, TleOfFields

LEMMA NotLoaded ==
  ASSUME NEW sat \in Satellite
  PROVE  Reloaded(sat, FALSE) = sat
  BY DEF Reloaded, Satellite

(* A satellite whose fields do not load agrees with its propagator only    *)
(* if it has neither.                                                      *)
LEMMA AgreesUnloaded ==
  ASSUME NEW sat \in Satellite, ~LoadsFields(sat), Agrees(sat)
  PROVE  sat.keplerian_state = None
<1> SUFFICES ASSUME sat.keplerian_state # None PROVE FALSE
  OBVIOUS
<1>1. ~Loads(sat.keplerian_state) /\ sat.inertial_propagator = TleOfFields(sat)
  BY DEF LoadsFields, Agrees
<1>2. sat.keplerian_state \in KeplerianStates /\ sat.force_properties \in Forces
  BY DEF Satellite
<1>3. sat.inertial_propagator # None
  BY <1>1, <1>2, BatchAssumption DEF TleOfFields, Tle
<1> QED BY <1>1, <1>3 DEF Satellite, TLEs, TleOfFields, Tle

LEMMA SetForces ==
  ASSUME NEW sat \in Satellite, NEW forces \in Forces
  PROVE  /\ WithForces(sat, forces) \in Satellite
         /\ LoadsFields(WithForces(sat, forces)) <=> LoadsFields(sat)
         /\ ~LoadsFields(sat) /\ Agrees(sat) => Agrees(WithForces(sat, forces))
<1>1. /\ WithForces(sat, forces) \in Satellite
      /\ WithForces(sat, forces).keplerian_state = sat.keplerian_state
      /\ WithForces(sat, forces).inertial_propagator = sat.inertial_propagator
  BY DEF WithForces, Satellite
<1> QED BY <1>1, AgreesUnloaded DEF LoadsFields, Agrees

LEMMA Step ==
  ASSUME NEW sat \in Satellite, NEW t \in Times, NEW moved \in Moved(sat, t)
  PROVE  /\ moved \in Satellite
         /\ Agrees(sat) => Agrees(moved)
<1>1. CASE moved = sat
  BY <1>1
<1>2. CASE moved # sat
  <2> DEFINE tle == sat.inertial_propagator
             state == [tle.keplerian_state EXCEPT !.epoch = t]
  <2>0. CanStep(sat, t) /\ moved = Stepped(sat, t)
    BY <1>2 DEF Moved
  <2>1. tle \in TLEs
    BY <2>0 DEF Satellite, CanStep
  <2>2. state \in KeplerianStates /\ Loads(state)
    BY <2>1 DEF TLEs, KeplerianStates, Loads
  <2>3. ReEpoched(tle, t) = Tle(state, tle.force_properties)
    BY <2>1 DEF TLEs, Tle, ReEpoched
  <2>4. Tle(state, tle.force_properties) \in TLEs
    BY <2>1, <2>2 DEF TLEs, Tle
  <2> HIDE DEF state
  <2>5. moved = [sat EXCEPT !.keplerian_state = state,
                            !.inertial_propagator = Tle(state, tle.force_properties)]
    BY <2>0, <2>3 DEF Stepped, Satellite, Tle
  <2>6. moved \in Satellite
    BY <2>5, <2>4, <2>2 DEF Satellite
  <2>7. state # None
    BY <2>2, BatchAssumption
  <2>8. ASSUME Agrees(sat) PROVE sat.force_properties = tle.force_properties
    BY <2>8, <2>0 DEF Agrees, TleOfFields, Tle, CanStep
  <2>9. Agrees(sat) => Agrees(moved)
    BY <2>5, <2>7, <2>8 DEF Agrees, TleOfFields, Satellite
  <2> QED BY <2>6, <2>9
<1> QED BY <1>1, <1>2

-----------------------------------------------------------------------------
FieldsInv == TypeOK /\ FieldsFollowPropagator

LEMMA PutKeeps ==
  ASSUME TypeOK, FieldsFollowPropagator,
         NEW id \in Ids, NEW sat \in Satellite, Put(id, sat),
         \/ refused' = refused \cup {id}
         \/ refused' = refused \ {id} /\ Agrees(sat)
         \/ refused' = refused /\ id \in Keys /\ (id \notin refused => Agrees(sat))
  PROVE  FieldsInv'
<1>1. Keys' = Keys \cup {id} /\ satellites'[id] = sat
  BY DEF Put, Keys
<1>2. \A i \in Keys \ {id} : satellites'[i] = satellites[i]
  BY DEF Put, Keys
<1>3. TypeOK'
  BY <1>1, <1>2 DEF TypeOK
<1>4. ASSUME NEW i \in Keys' \ refused' PROVE Agrees(satellites'[i])
  BY <1>1, <1>2 DEF FieldsFollowPropagator
<1> QED BY <1>3, <1>4 DEF FieldsInv, FieldsFollowPropagator

LEMMA FieldsInit == Init => FieldsInv
<1> SUFFICES ASSUME Init PROVE FieldsInv
  OBVIOUS
<1>1. PICK keys \in SUBSET Ids : \E tles \in [keys -> Catalog] :
        satellites = [id \in keys |-> FromTle(tles[id])]
  BY DEF Init
<1>2. PICK tles \in [keys -> Catalog] : satellites = [id \in keys |-> FromTle(tles[id])]
  BY <1>1
<1>3. Keys = keys /\ \A id \in keys : satellites[id] = FromTle(tles[id]) /\ tles[id] \in TLEs
  BY <1>2, BatchAssumption DEF Keys
<1>4. \A id \in keys : satellites[id] \in Satellite /\ Agrees(satellites[id])
  BY <1>3, MadeOfTle
<1> QED BY <1>3, <1>4 DEF FieldsInv, TypeOK, FieldsFollowPropagator, Init

LEMMA FieldsChange == FieldsInv /\ Change => FieldsInv'
<1> SUFFICES ASSUME FieldsInv, Change PROVE FieldsInv'
  OBVIOUS
<1>0. TypeOK /\ FieldsFollowPropagator
  BY DEF FieldsInv
<1>1. ASSUME NEW id \in Ids, Add(id) PROVE FieldsInv'
  BY <1>0, <1>1, MadeNew, PutKeeps DEF Add
<1>2. ASSUME NEW id \in Ids, Remove(id) PROVE FieldsInv'
  BY <1>0, <1>2 DEF Remove, FieldsInv, TypeOK, FieldsFollowPropagator, Keys
<1>3. ASSUME NEW id \in Ids, NEW state \in Settable, SetKeplerianState(id, state)
      PROVE  FieldsInv'
  <2> DEFINE sat == WithState(satellites[id], state)
  <2>1. state \in KeplerianStates /\ satellites[id] \in Satellite
    BY <1>0, <1>3, BatchAssumption DEF SetKeplerianState, TypeOK
  <2>2. /\ sat \in Satellite
        /\ LoadsFields(sat) <=> Loads(state)
    <3>1. sat \in Satellite /\ sat.keplerian_state = state /\ state # None
      BY <2>1, BatchAssumption DEF WithState, Satellite
    <3> QED BY <3>1 DEF LoadsFields
  <2> HIDE DEF sat
  <2>3. CASE Loads(state)
    <3>1. PICK accepted \in BOOLEAN :
            /\ Put(id, Reloaded(sat, accepted))
            /\ refused' = IF accepted THEN refused \ {id} ELSE refused \cup {id}
      BY <1>3, <2>3 DEF SetKeplerianState, sat, LoadOutcomes
    <3> QED BY <1>0, <2>2, <2>3, <3>1, Loaded, NotLoaded, PutKeeps
  <2>4. CASE ~Loads(state)
    <3>1. Put(id, sat) /\ refused' = refused \cup {id}
      BY <1>3, <2>4 DEF SetKeplerianState, sat
    <3> QED BY <1>0, <2>2, <3>1, PutKeeps
  <2> QED BY <2>3, <2>4
<1>4. ASSUME NEW id \in Ids, NEW forces \in Forces, SetForceProperties(id, forces)
      PROVE  FieldsInv'
  <2> DEFINE sat == WithForces(satellites[id], forces)
  <2>1. id \in Keys /\ satellites[id] \in Satellite
    BY <1>0, <1>4 DEF SetForceProperties, TypeOK
  <2>2. /\ sat \in Satellite
        /\ LoadsFields(sat) <=> LoadsFields(satellites[id])
        /\ ~LoadsFields(sat) /\ id \notin refused => Agrees(sat)
    BY <1>0, <2>1, SetForces DEF FieldsFollowPropagator
  <2> HIDE DEF sat
  <2>3. CASE LoadsFields(sat)
    <3>1. PICK accepted \in BOOLEAN :
            /\ Put(id, Reloaded(sat, accepted))
            /\ refused' = IF accepted THEN refused \ {id} ELSE refused \cup {id}
      BY <1>4, <2>3 DEF SetForceProperties, sat, LoadOutcomes
    <3> QED BY <1>0, <2>2, <2>3, <3>1, Loaded, NotLoaded, PutKeeps
  <2>4. CASE ~LoadsFields(sat)
    <3>1. Put(id, sat) /\ refused' = refused
      BY <1>4, <2>4 DEF SetForceProperties, sat
    <3> QED BY <1>0, <2>1, <2>2, <2>4, <3>1, PutKeeps
  <2> QED BY <2>3, <2>4
<1>5. ASSUME NEW t \in Times, StepToEpoch(t) PROVE FieldsInv'
  <2>1. Keys' = Keys /\ refused' = refused /\
        \A id \in Keys : satellites'[id] \in Moved(satellites[id], t)
    BY <1>5 DEF StepToEpoch, Keys
  <2>2. \A id \in Keys : satellites'[id] \in Satellite /\
          (Agrees(satellites[id]) => Agrees(satellites'[id]))
    BY <1>0, <2>1, Step DEF TypeOK
  <2> QED BY <1>0, <2>1, <2>2 DEF FieldsInv, TypeOK, FieldsFollowPropagator
<1> QED BY <1>1, <1>2, <1>3, <1>4, <1>5 DEF Change

(* A call changes no satellite.                                            *)
LEMMA CallKeeps == Call \/ Seen => UNCHANGED <<satellites, refused>>
  BY DEF Call, Seen, Reply, CallBatch, CallBatchGpuResident, TlePropagateBatch,
         TlePropagateToEpochs, AskStatesAtEpochs, AskBatchEphemeris, AskStatesAtEpoch

LEMMA FieldsUnchanged == FieldsInv /\ UNCHANGED <<satellites, refused>> => FieldsInv'
  BY DEF FieldsInv, TypeOK, FieldsFollowPropagator, Keys

LEMMA FieldsNext == FieldsInv /\ [Next]_vars => FieldsInv'
  BY FieldsChange, CallKeeps, FieldsUnchanged DEF Next, vars

-----------------------------------------------------------------------------
(* The flat array of the GPU holds the state of TLE i at epoch t where     *)
(* propagate_batch_gpu looks for it.                                       *)
LEMMA Quotient ==
  ASSUME NEW n \in Nat \ {0}, NEW i \in Nat, NEW r \in 0..(n - 1)
  PROVE  (i * n + r) \div n = i /\ ((i * n + r) % n) = r
<1> DEFINE a == i * n + r
           q == a \div n
<1>1. i * n \in Nat /\ a \in Nat
  OBVIOUS
<1>2. q \in Int /\ a = (n * q) + (a % n) /\ (a % n) \in 0..(n - 1)
  BY <1>1
<1>3. q = i
  <2>1. n * (q - i) = r - (a % n)
    BY <1>2
  <2>2. CASE q - i >= 1
    <3>1. n * (q - i) >= n
      BY <2>2, <1>2
    <3> QED BY <3>1, <2>1, <1>2
  <2>3. CASE q - i <= -1
    <3>1. n * (q - i) <= -n
      BY <2>3, <1>2
    <3> QED BY <3>1, <2>1, <1>2
  <2> QED BY <2>2, <2>3, <1>2
<1> QED BY <1>2, <1>3

LEMMA IndexInArray ==
  ASSUME NEW n \in Nat, NEW m \in Nat, NEW i \in 1..m, NEW t \in 1..n
  PROVE  StateIdx(i, t, n) \in 1..(m * n)
<1>1. (i - 1) * n >= 0 /\ (i - 1) * n + n <= m * n
  <2>1. i - 1 \in Nat /\ m - i \in Nat
    OBVIOUS
  <2>2. (i - 1) * n \in Nat /\ (m - i) * n \in Nat
    BY <2>1
  <2>3. m * n = (i - 1) * n + n + (m - i) * n
    OBVIOUS
  <2> QED BY <2>2, <2>3
<1> QED BY <1>1 DEF StateIdx

LEMMA ArrayHoldsStates ==
  ASSUME NEW tles \in Seq(TLEs), NEW epochs \in Seq(Nat),
         NEW i \in DOMAIN tles, NEW t \in DOMAIN epochs
  PROVE  GpuStates(tles, epochs)[StateIdx(i, t, Len(epochs))] = GpuState(tles[i], epochs[t])
<1> DEFINE n == Len(epochs)
           k == StateIdx(i, t, n)
<1>1. n \in Nat \ {0} /\ Len(tles) \in Nat /\ i \in 1..Len(tles) /\ t \in 1..n
  OBVIOUS
<1>2. k \in 1..(Len(tles) * n)
  BY <1>1, IndexInArray
<1>3. k - 1 = (i - 1) * n + (t - 1)
  BY <1>1 DEF StateIdx
<1>4. (k - 1) \div n = i - 1 /\ ((k - 1) % n) = t - 1
  <2>1. i - 1 \in Nat /\ t - 1 \in 0..(n - 1)
    BY <1>1
  <2> HIDE DEF n, k
  <2>2. \A i0 \in Nat, r \in 0..(n - 1) :
          (i0 * n + r) \div n = i0 /\ ((i0 * n + r) % n) = r
    BY <1>1, Quotient
  <2>3. /\ ((i - 1) * n + (t - 1)) \div n = i - 1
        /\ (((i - 1) * n + (t - 1)) % n) = t - 1
    BY <2>1, <2>2
  <2> QED BY <1>3, <2>3
<1>5. ((k - 1) \div n) + 1 = i /\ ((k - 1) % n) + 1 = t
  BY <1>1, <1>4
<1> HIDE DEF k
<1> QED BY <1>2, <1>5 DEF GpuStates, k

-----------------------------------------------------------------------------
(* What every outcome of propagate_batch is, on whichever backend.         *)
RowsOf(rows, tles, epochs) ==
  /\ DOMAIN rows = DOMAIN tles
  /\ \A i \in DOMAIN tles :
       /\ DOMAIN rows[i] = DOMAIN epochs
       /\ \A t \in DOMAIN epochs :
            rows[i][t] \in {CpuState(tles[i], epochs[t]), GpuState(tles[i], epochs[t])}

LEMMA BatchRows ==
  ASSUME NEW tles \in Seq(TLEs), NEW epochs \in Seq(Nat), NEW p,
         NEW outcome \in PropagateBatch(p, tles, epochs)
  PROVE  /\ outcome = Err => MayFail(tles, epochs, p)
         /\ outcome # Err => outcome.is = "Ok" /\ RowsOf(outcome.rows, tles, epochs)
<1>1. CASE tles = <<>>
  BY <1>1 DEF PropagateBatch, Ok, Err, RowsOf
<1>2. CASE tles # <<>> /\ epochs = <<>>
  BY <1>2 DEF PropagateBatch, EmptyRows, Ok, Err, RowsOf
<1>3. CASE /\ tles # <<>> /\ epochs # <<>>
           /\ SelectBackend(p, Len(tles), Len(epochs)) = "Gpu"
  <2>1. p.gpu_available /\ p.backend # "Cpu"
    BY <1>3 DEF SelectBackend
  <2>2. outcome \in {Err, Ok(GpuRows(tles, epochs))}
    BY <1>3 DEF PropagateBatch, PropagateBatchGpu
  <2>3. RowsOf(GpuRows(tles, epochs), tles, epochs)
    BY ArrayHoldsStates DEF GpuRows, RowsOf
  <2> QED BY <2>1, <2>2, <2>3 DEF Ok, Err, MayFail
<1>4. CASE /\ tles # <<>> /\ epochs # <<>>
           /\ SelectBackend(p, Len(tles), Len(epochs)) # "Gpu"
  <2>1. outcome = PropagateBatchCpu(tles, epochs)
    BY <1>4 DEF PropagateBatch
  <2> QED BY <2>1 DEF PropagateBatchCpu, Ok, Err, RowsOf, MayFail
<1> QED BY <1>1, <1>2, <1>3, <1>4

LEMMA BatchReply ==
  ASSUME NEW tles \in Seq(TLEs), NEW epochs \in Seq(Nat), NEW p,
         NEW outcome \in PropagateBatch(p, tles, epochs),
         Reply("batch", tles, epochs, p, outcome)
  PROVE  BatchAnswersTrue'
<1> DEFINE r == [op |-> "batch", asked |-> tles, epochs |-> epochs, propagator |-> p,
                 result |-> outcome]
<1>1. reply' = r
  BY DEF Reply
<1>2. outcome.is = "Err" => MayFail(tles, epochs, p)
  BY BatchRows DEF Err
<1>3. outcome.is = "Ok" => RowsOf(outcome.rows, tles, epochs)
  BY BatchRows DEF Err
<1>4. ASSUME NEW i \in DOMAIN tles, NEW t \in DOMAIN epochs,
             NEW cell \in {CpuState(tles[i], epochs[t]), GpuState(tles[i], epochs[t])}
      PROVE  /\ cell.tle = tles[i] /\ cell.time = epochs[t]
             /\ cell.tle.keplerian_state.keplerian_type = "MeanKozaiGP" =>
                  cell.read_as = "MeanKozaiGP"
  BY <1>4 DEF CpuState, GpuState
<1> QED BY <1>1, <1>2, <1>3, <1>4 DEF BatchAnswersTrue, RowsOf

(* The caller's lists are sequences.                                       *)
LEMMA Lists ==
  /\ \A tles \in TleLists : tles \in Seq(TLEs)
  /\ \A epochs \in EpochLists : epochs \in Seq(Nat)
  /\ \A tle \in Catalog : tle \in TLEs /\ <<tle>> \in Seq(TLEs)
  BY BatchAssumption

LEMMA BatchCalls ==
  ASSUME CallBatch \/ CallBatchGpuResident \/ TlePropagateBatch \/ TlePropagateToEpochs
  PROVE  BatchAnswersTrue' /\ ConstellationAnswersTrue'
<1>1. ASSUME NEW op \in {"batch", "resident"}, NEW tles, NEW epochs, NEW p, NEW outcome,
             Reply(op, tles, epochs, p, outcome)
      PROVE  /\ ConstellationAnswersTrue'
             /\ op = "resident" => BatchAnswersTrue'
  BY <1>1 DEF Reply, ConstellationAnswersTrue, BatchAnswersTrue
<1>2. CASE CallBatch
  BY <1>2, <1>1, BatchReply, Lists DEF CallBatch
<1>3. CASE CallBatchGpuResident
  BY <1>3, <1>1 DEF CallBatchGpuResident
<1>4. CASE TlePropagateBatch
  BY <1>4, <1>1, BatchReply, Lists DEF TlePropagateBatch
<1>5. CASE TlePropagateToEpochs
  <2>1. PICK available \in BOOLEAN, tle \in Catalog, epochs \in EpochLists :
          \E outcome \in IF epochs = <<>> THEN {Ok(<<<<>>>>)}
                         ELSE PropagateBatch(ForEpochs(available, epochs), <<tle>>, epochs) :
            Reply("batch", <<tle>>, epochs, ForEpochs(available, epochs), outcome)
    BY <1>5 DEF TlePropagateToEpochs
  <2>2. CASE epochs = <<>>
    <3>1. Reply("batch", <<tle>>, epochs, ForEpochs(available, epochs), Ok(<<<<>>>>))
      BY <2>1, <2>2
    <3>2. BatchAnswersTrue'
      BY <3>1, <2>2 DEF Reply, BatchAnswersTrue, Ok
    <3> QED BY <3>1, <3>2, <1>1
  <2>3. CASE epochs # <<>>
    BY <2>1, <2>3, <1>1, BatchReply, Lists
  <2> QED BY <2>2, <2>3
<1> QED BY <1>2, <1>3, <1>4, <1>5

-----------------------------------------------------------------------------
(* An answer that is true of every satellite.                              *)
TrueTable(rows, epochs) ==
  /\ DOMAIN rows = Keys
  /\ \A id \in Keys :
       /\ DOMAIN rows[id] = DOMAIN epochs
       /\ \A t \in DOMAIN epochs :
            /\ Tells(rows[id][t], satellites[id], epochs[t])
            /\ id \notin refused => TellsPropagator(rows[id][t], satellites[id], epochs[t])

TrueOutcome(outcome, epochs, p) ==
  IF outcome.is = "Panic"
    THEN /\ SelectBackend(p, Cardinality(Keys), Len(epochs)) = "Gpu"
         /\ \E id \in Keys : \/ id \in refused
                            \/ satellites[id].keplerian_state = None
                            \/ FALSE \in LoadOutcomes(TleOfFields(satellites[id]))
    ELSE TrueTable(outcome.rows, epochs)

LEMMA StatesAreSome ==
  ASSUME NEW tle \in TLEs, NEW t \in Nat
  PROVE  CpuState(tle, t) # None /\ GpuState(tle, t) # None
<1>1. tle.keplerian_state.keplerian_type \in MeanTypes
  BY DEF TLEs, Loads
<1>2. /\ CpuState(tle, t) \in [tle : TLEs, read_as : MeanTypes, time : Nat]
      /\ GpuState(tle, t) \in [tle : TLEs, read_as : MeanTypes, time : Nat]
  BY <1>1 DEF CpuState, GpuState, MeanTypes, GpTypes
<1> QED BY <1>2, BatchAssumption

LEMMA EachAloneTrue ==
  ASSUME FieldsInv, NEW epochs \in Seq(Nat), NEW p
  PROVE  TrueOutcome(EachAlone(epochs), epochs, p)
<1>1. ASSUME NEW id \in Keys, NEW t \in DOMAIN epochs
      PROVE  /\ Tells(GetStateAtEpoch(satellites[id], epochs[t]), satellites[id], epochs[t])
             /\ TellsPropagator(GetStateAtEpoch(satellites[id], epochs[t]), satellites[id], epochs[t])
  <2> DEFINE sat == satellites[id]
             cell == GetStateAtEpoch(sat, epochs[t])
  <2>1. sat \in Satellite /\ epochs[t] \in Nat
    BY <1>1 DEF FieldsInv, TypeOK
  <2>2. CASE sat.inertial_propagator # None /\ CpuReaches(sat.inertial_propagator, epochs[t])
    <3>1. sat.inertial_propagator \in TLEs /\ cell = CpuState(sat.inertial_propagator, epochs[t])
      BY <2>1, <2>2 DEF Satellite, GetStateAtEpoch
    <3>2. cell # None
      BY <3>1, <2>1, StatesAreSome
    <3> QED BY <3>1, <3>2 DEF Tells, TellsPropagator, CpuState
  <2>3. CASE ~(sat.inertial_propagator # None /\ CpuReaches(sat.inertial_propagator, epochs[t]))
    BY <2>3 DEF GetStateAtEpoch, Tells, TellsPropagator
  <2> QED BY <2>2, <2>3
<1> QED BY <1>1 DEF TrueOutcome, TrueTable, EachAlone, Ok

(* The rows of a batch of the fields, given to the keys in their order.    *)
LEMMA ByKeyTrue ==
  ASSUME FieldsInv, NEW epochs \in Seq(Nat), NEW order \in Orders, NEW rows,
         \A id \in Keys : LoadsFields(satellites[id]) /\
                          satellites[id].keplerian_state.keplerian_type \in GpTypes,
         RowsOf(rows, [i \in DOMAIN order |-> TleOfFields(satellites[order[i]])], epochs)
  PROVE  TrueTable(ByKey(order, rows), epochs)
<1>0. ASSUME NEW id \in Keys PROVE DOMAIN ByKey(order, rows)[id] = DOMAIN epochs
  BY <1>0 DEF ByKey, Orders, RowsOf
<1>1. ASSUME NEW id \in Keys, NEW t \in DOMAIN epochs
      PROVE  LET row == ByKey(order, rows)[id]
             IN  /\ Tells(row[t], satellites[id], epochs[t])
                 /\ id \notin refused => TellsPropagator(row[t], satellites[id], epochs[t])
  <2> DEFINE i == CHOOSE j \in DOMAIN order : order[j] = id
             sat == satellites[id]
             tle == TleOfFields(sat)
             cell == rows[i][t]
  <2>1. i \in DOMAIN order /\ order[i] = id
    BY <1>1 DEF Orders
  <2>2. ByKey(order, rows)[id] = rows[i]
    BY <1>1 DEF ByKey
  <2> HIDE DEF i
  <2>3. DOMAIN rows[i] = DOMAIN epochs /\ cell \in {CpuState(tle, epochs[t]), GpuState(tle, epochs[t])}
    BY <2>1, <1>1 DEF RowsOf
  <2>4. sat \in Satellite /\ LoadsFields(sat) /\ epochs[t] \in Nat
    BY <1>1 DEF FieldsInv, TypeOK
  <2>5. tle \in TLEs
    BY <2>4 DEF LoadsFields, Satellite, TleOfFields, Tle, TLEs
  <2>6. cell # None /\ cell.tle = tle /\ cell.time = epochs[t]
    BY <2>3, <2>4, <2>5, StatesAreSome DEF CpuState, GpuState
  <2>7. Tells(cell, sat, epochs[t])
    BY <2>6 DEF Tells
  <2>8. ASSUME id \notin refused PROVE TellsPropagator(cell, sat, epochs[t])
    <3>1. sat.inertial_propagator = tle
      BY <1>1, <2>4, <2>8 DEF FieldsInv, FieldsFollowPropagator, Agrees, LoadsFields
    <3>2. tle.keplerian_state.keplerian_type \in GpTypes
      BY <1>1 DEF TleOfFields, Tle
    <3>3. Faithful(tle) => GpuState(tle, epochs[t]) = CpuState(tle, epochs[t])
      BY <3>2 DEF Faithful, GpTypes, GpuState, CpuState
    <3> QED BY <2>3, <2>6, <3>1, <3>3 DEF TellsPropagator
  <2> QED BY <2>2, <2>7, <2>8
<1>2. DOMAIN ByKey(order, rows) = Keys
  BY DEF ByKey
<1> QED BY <1>0, <1>1, <1>2 DEF TrueTable

LEMMA OnGpuTrue ==
  ASSUME FieldsInv, NEW epochs \in Seq(Nat), NEW p, NEW outcome \in OnGpu(p, epochs),
         SelectBackend(p, Cardinality(Keys), Len(epochs)) = "Gpu"
  PROVE  TrueOutcome(outcome, epochs, p)
<1>1. CASE outcome = Panic /\ \E id \in Keys : MayPanic(satellites[id])
  <2>1. PICK id \in Keys : MayPanic(satellites[id])
    BY <1>1
  <2>2. CASE LoadsFields(satellites[id])
    BY <1>1, <2>1, <2>2 DEF TrueOutcome, Panic, MayPanic
  <2>3. CASE ~LoadsFields(satellites[id])
    <3>1. satellites[id] \in Satellite /\ (id \notin refused => Agrees(satellites[id]))
      BY DEF FieldsInv, TypeOK, FieldsFollowPropagator
    <3>2. id \in refused \/ satellites[id].keplerian_state = None
      BY <2>3, <3>1, AgreesUnloaded
    <3> QED BY <1>1, <3>2 DEF TrueOutcome, Panic
  <2> QED BY <2>2, <2>3
<1>0. ASSUME ~(outcome = Panic /\ \E id \in Keys : MayPanic(satellites[id]))
      PROVE  \A id \in Keys : LoadsFields(satellites[id])
  BY <1>0 DEF OnGpu
<1>2. CASE /\ ~(outcome = Panic /\ \E id \in Keys : MayPanic(satellites[id]))
           /\ \E id \in Keys : satellites[id].keplerian_state.keplerian_type \notin GpTypes
  <2>1. outcome = EachAlone(epochs)
    BY <1>0, <1>2 DEF OnGpu
  <2> QED BY <2>1, EachAloneTrue
<1>3. CASE /\ ~(outcome = Panic /\ \E id \in Keys : MayPanic(satellites[id]))
           /\ \A id \in Keys : satellites[id].keplerian_state.keplerian_type \in GpTypes
  <2> DEFINE tles(order) == [i \in DOMAIN order |-> TleOfFields(satellites[order[i]])]
  <2>0. \A id \in Keys : LoadsFields(satellites[id]) /\
                         satellites[id].keplerian_state.keplerian_type \in GpTypes
    BY <1>0, <1>3
  <2>1. PICK order \in Orders : \E o \in PropagateBatch(p, tles(order), epochs) :
          outcome = IF o = Err THEN EachAlone(epochs) ELSE Ok(ByKey(order, o.rows))
    BY <2>0, <1>3 DEF OnGpu
  <2>2. PICK o \in PropagateBatch(p, tles(order), epochs) :
          outcome = IF o = Err THEN EachAlone(epochs) ELSE Ok(ByKey(order, o.rows))
    BY <2>1
  <2>3. tles(order) \in Seq(TLEs)
    <3>1. Keys \subseteq Ids
      BY DEF FieldsInv, TypeOK
    <3>2. Cardinality(Keys) \in Nat
      BY <3>1, BatchAssumption, FS_Subset, FS_CardinalityType
    <3>3. ASSUME NEW i \in 1..Cardinality(Keys)
          PROVE  TleOfFields(satellites[order[i]]) \in TLEs
      <4>1. order[i] \in Keys
        BY <3>3 DEF Orders
      <4>2. satellites[order[i]] \in Satellite /\ LoadsFields(satellites[order[i]])
        BY <4>1, <2>0 DEF FieldsInv, TypeOK
      <4> QED BY <4>2 DEF LoadsFields, Satellite, TleOfFields, Tle, TLEs
    <3>4. DOMAIN order = 1..Cardinality(Keys)
      BY DEF Orders
    <3> QED BY <3>2, <3>3, <3>4
  <2>4. CASE o = Err
    BY <2>2, <2>4, EachAloneTrue
  <2>5. CASE o # Err
    <3>1. RowsOf(o.rows, tles(order), epochs)
      BY <2>2, <2>3, <2>5, BatchRows
    <3>2. TrueTable(ByKey(order, o.rows), epochs)
      BY <2>0, <3>1, ByKeyTrue
    <3> QED BY <2>2, <2>5, <3>2 DEF TrueOutcome, Ok
  <2> QED BY <2>4, <2>5
<1> QED BY <1>1, <1>2, <1>3

LEMMA ConstellationReply ==
  ASSUME FieldsInv, NEW epochs, NEW p, NEW outcome,
         TrueOutcome(outcome, epochs, p), Reply("constellation", Keys, epochs, p, outcome)
  PROVE  BatchAnswersTrue' /\ ConstellationAnswersTrue'
<1> DEFINE r == [op |-> "constellation", asked |-> Keys, epochs |-> epochs,
                 propagator |-> p, result |-> outcome]
<1>1. reply' = r /\ Keys' = Keys /\ UNCHANGED <<satellites, refused>>
  BY DEF Reply, Keys
<1>2. BatchAnswersTrue'
  BY <1>1 DEF BatchAnswersTrue
<1>3. CASE outcome.is = "Panic"
  BY <1>1, <1>2, <1>3 DEF TrueOutcome, ConstellationAnswersTrue
<1>4. CASE outcome.is # "Panic"
  BY <1>1, <1>2, <1>4 DEF TrueOutcome, TrueTable, ConstellationAnswersTrue
<1> QED BY <1>3, <1>4

LEMMA StatesTrue ==
  ASSUME FieldsInv, NEW epochs \in Seq(Nat), NEW p, NEW outcome \in GetStatesAtEpochs(p, epochs)
  PROVE  TrueOutcome(outcome, epochs, p)
  BY OnGpuTrue, EachAloneTrue DEF GetStatesAtEpochs

LEMMA EpochsOfType ==
  ASSUME NEW start \in Times, NEW end \in Times, NEW step \in Times \ {0}
  PROVE  EpochsOf(start, end, step) \in Seq(Nat)
<1> DEFINE n == (IF end < start THEN 0 ELSE (end - start) \div step) + 1
<1>1. start \in Nat /\ end \in Nat /\ step \in Nat \ {0}
  BY BatchAssumption
<1>2. n \in Nat
  BY <1>1
<1>3. \A k \in 1..n : start + (k - 1) * step \in Nat
  <2>1. ASSUME NEW k \in 1..n PROVE (k - 1) * step \in Nat
    <3>1. k - 1 \in Nat
      BY <1>2
    <3> QED BY <3>1, <1>1
  <2> QED BY <2>1, <1>1
<1> HIDE DEF n
<1>4. [k \in 1..n |-> start + (k - 1) * step] \in Seq(Nat)
  BY <1>2, <1>3
<1> QED BY <1>4 DEF EpochsOf, n

LEMMA ConstellationCalls ==
  ASSUME FieldsInv, AskStatesAtEpochs \/ AskBatchEphemeris \/ AskStatesAtEpoch
  PROVE  BatchAnswersTrue' /\ ConstellationAnswersTrue'
<1>1. CASE AskStatesAtEpochs
  BY <1>1, StatesTrue, ConstellationReply, Lists DEF AskStatesAtEpochs
<1>2. CASE AskBatchEphemeris
  BY <1>2, StatesTrue, ConstellationReply, EpochsOfType DEF AskBatchEphemeris
<1>3. CASE AskStatesAtEpoch
  <2>1. \A t \in Times : <<t>> \in Seq(Nat)
    BY BatchAssumption
  <2> QED BY <1>3, <2>1, EachAloneTrue, ConstellationReply DEF AskStatesAtEpoch
<1> QED BY <1>1, <1>2, <1>3

AnswersInv == FieldsInv /\ ConstellationAnswersTrue /\ BatchAnswersTrue

LEMMA AnswersInit == Init => AnswersInv
  BY FieldsInit DEF AnswersInv, Init, ConstellationAnswersTrue, BatchAnswersTrue

LEMMA AnswersNext == AnswersInv /\ [Next]_vars => AnswersInv'
<1> SUFFICES ASSUME AnswersInv, [Next]_vars PROVE AnswersInv'
  OBVIOUS
<1>1. FieldsInv /\ FieldsInv'
  BY FieldsNext DEF AnswersInv
<1>2. CASE Change \/ Seen
  <2>1. reply' = None
    BY <1>2 DEF Change, Seen, Add, Remove, SetKeplerianState, SetForceProperties, StepToEpoch, Put
  <2> QED BY <1>1, <2>1 DEF AnswersInv, ConstellationAnswersTrue, BatchAnswersTrue
<1>3. CASE Call
  BY <1>1, <1>3, BatchCalls, ConstellationCalls DEF AnswersInv, Call
<1>4. CASE UNCHANGED vars
  BY <1>1, <1>4 DEF vars, AnswersInv, ConstellationAnswersTrue, BatchAnswersTrue, Keys
<1> QED BY <1>2, <1>3, <1>4 DEF Next

(* Every satellite, propagator and set of refused ones is what the Rust    *)
(* types say, through every call.                                          *)
THEOREM TypeCorrect == Spec => []TypeOK
<1>1. FieldsInv => TypeOK
  BY DEF FieldsInv
<1> QED BY FieldsInit, FieldsNext, <1>1, PTL DEF Spec

(* No sequence of setters, steps, additions and removals lets the fields   *)
(* of a satellite and its propagator differ, but a refused state.          *)
THEOREM FieldsCorrect == Spec => []FieldsFollowPropagator
<1>1. FieldsInv => FieldsFollowPropagator
  BY DEF FieldsInv
<1> QED BY FieldsInit, FieldsNext, <1>1, PTL DEF Spec

(* The states of a constellation are those of its propagators, whatever    *)
(* the backend, threshold, failures of the device and order of the map.    *)
THEOREM ConstellationCorrect == Spec => []ConstellationAnswersTrue
<1>1. AnswersInv => ConstellationAnswersTrue
  BY DEF AnswersInv
<1> QED BY AnswersInit, AnswersNext, <1>1, PTL DEF Spec

(* A batch answers each TLE with its states, in order, on every backend.   *)
THEOREM BatchCorrect == Spec => []BatchAnswersTrue
<1>1. AnswersInv => BatchAnswersTrue
  BY DEF AnswersInv
<1> QED BY AnswersInit, AnswersNext, <1>1, PTL DEF Spec
=============================================================================
