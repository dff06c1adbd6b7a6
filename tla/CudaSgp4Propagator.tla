------------------------- MODULE CudaSgp4Propagator -------------------------
(***************************************************************************)
(* The device-side propagator of src/src/gpu/cuda_sgp4.rs with its kernels *)
(* of src/kernels: the satellites are loaded three times, into a near-earth*)
(* and a deep-space partition with their index maps and into one unified   *)
(* buffer, and every propagation writes into buffers kept from earlier     *)
(* calls. Any call of the driver can fail, and the method then returns     *)
(* through `?` with what it has already stored.                            *)
(*                                                                         *)
(* A method holds &mut self, so methods do not interleave; each is several *)
(* steps so that it can fail between them. Kernels of one stream run in    *)
(* the order of their launches. Elements and state vectors are abstracted  *)
(* to the satellite, date and propagation model they belong to; a kernel   *)
(* that cannot compute one returns with the error code alone written.      *)
(***************************************************************************)
EXTENDS Naturals, Sequences

CONSTANTS
  Satellites,
  Deep,        (* those the init kernel marks: period >= 225 minutes       *)
  Slow,        (* those with a mean motion of at most 6.4 rev/day          *)
  Times,
  TleLists,    (* the lists of satellites a caller loads                   *)
  TimeLists,   (* the lists of dates a caller passes                       *)
  Overrides,   (* the overrides a caller loads with                        *)
  Undefined,   (* the states the model has no result for: decayed, or a    *)
               (* negative semi-latus rectum                               *)
  MaxFailures, (* bound: the driver calls that fail in one behaviour       *)
  NoState,     (* coordinates that are no satellite's state: zeroes of the *)
               (* allocation, or what no thread determines                 *)
  None         (* Option::None                                             *)

PropagatorOverride == {"Auto", "ForceSgp4", "ForceSdp4"}

Models == {"SGP4", "SDP4"}
States == [sat : Satellites, time : Times, model : Models]

ASSUME DataAssumption ==
  /\ Deep \subseteq Satellites /\ Slow \subseteq Satellites
  /\ TleLists \subseteq Seq(Satellites)
  /\ TimeLists \subseteq Seq(Times) \ {<<>>}
  /\ Overrides \subseteq PropagatorOverride
  /\ Undefined \subseteq States
  /\ MaxFailures \in Nat

Sgp4ParamsGpu == [sat : Satellites, deep : BOOLEAN, forced : BOOLEAN]

(* The coordinates, and whether error_code is set.                         *)
Sgp4StateGpu == [state : States \cup {NoState}, error : BOOLEAN]

Zeroes == [state |-> NoState, error |-> FALSE]

(* None is no buffer.                                                      *)
ASSUME NoneAssumption == None \notin Seq(Sgp4ParamsGpu) \cup Seq(Nat \ {0})

SoaOps    == {"propagate_soa", "propagate_soa_arrays", "propagate_soa_gpu_resident"}
UnifiedOps == {"propagate", "propagate_soa_into"}
Ops       == SoaOps \cup UnifiedOps

VARIABLES
  n_satellites,
  partition,           \* of each model: indices, and params and map on the device
  params_gpu,          \* the unified parameters
  cached_times_gpu,
  cached_states_gpu,   \* output of the array-of-structs kernel
  cached_soa_buffers,  \* output of the other kernels
  pc, op, tles, times, forcing,  \* the running method and its arguments
  loaded, forced,      \* what the completed calls put in place
  mode,                \* the override of the last load
  answer,              \* what the last call returned
  failures             \* driver calls that failed so far

device  == <<n_satellites, partition, params_gpu>>
outputs == <<cached_states_gpu, cached_soa_buffers>>
args    == <<op, tles, times, forcing>>
vars    == <<device, cached_times_gpu, outputs, pc, args, loaded, forced, mode, answer,
             failures>>

(* The abstract table: what is loaded, what is forced and the last answer  *)
(* are all a caller sees of the propagator.                                *)
Promise == INSTANCE StateTable WITH
  Deep <- Deep, TleLists <- TleLists, TimeLists <- TimeLists,
  Undefined <- Undefined, None <- None,
  loaded <- loaded, forced <- forced, answer <- answer

-----------------------------------------------------------------------------
(* sgp4_init_kernel and the kernels that read its parameters.              *)
InitKernel(sat) == [sat |-> sat, deep |-> sat \in Deep, forced |-> FALSE]

State(params, time) ==
  [sat |-> params.sat, time |-> time,
   model |-> Promise!ModelOf(params.deep, params.forced)]

(* sgp4_propagate_single, which returns early with an error. In the kernel *)
(* of propagate the thread's state is the element of the buffer and keeps  *)
(* its coordinates; in the others it is a local that has none.             *)
Propagated(old, params, time, layout) ==
  IF State(params, time) \in Undefined
    THEN [state |-> IF layout = "aos" THEN old.state ELSE NoState, error |-> TRUE]
    ELSE [state |-> State(params, time), error |-> FALSE]

(* Mistake: the rows of the output as long as the partition.               *)
IndexedSlotsOfPartition(map, n_partition, n_total, n_times) ==
  [thread \in ((1..n_partition) \cap DOMAIN map) \X (1..n_times) |->
     Promise!TimeMajor(map[thread[1]], thread[2], n_partition)]

(* The element each thread (satellite, time) of a launch writes.           *)
IndexedSlots(map, n_partition, n_total, n_times) ==
  [thread \in ((1..n_partition) \cap DOMAIN map) \X (1..n_times) |->
     Promise!TimeMajor(map[thread[1]], thread[2], n_total)]

SoaSlots(n_sats, n_times) ==
  [thread \in (1..n_sats) \X (1..n_times) |->
     Promise!TimeMajor(thread[1], thread[2], n_sats)]

AosSlots(n_sats, n_times) ==
  [thread \in (1..n_sats) \X (1..n_times) |->
     Promise!SatMajor(thread[1], thread[2], n_times)]

(* One launch. An element written by a thread without parameters, or by    *)
(* two threads, ends with a content nothing determines.                    *)
Kernel(buffer, params, jd, slots, layout) ==
  [k \in DOMAIN buffer |->
     LET writers == {thread \in DOMAIN slots : slots[thread] = k}
     IN  IF writers = {} THEN buffer[k]
         ELSE LET thread == CHOOSE w \in writers : TRUE
              IN  IF writers = {thread} /\ thread[1] \in DOMAIN params
                    THEN Propagated(buffer[k], params[thread[1]], jd[thread[2]], layout)
                    ELSE Zeroes]

(* From the order of the kernels to that of propagate.                     *)
ToAos(cells, n_sats, n_times) ==
  [k \in 1..(n_sats * n_times) |->
     cells[Promise!TimeMajor(((k - 1) \div n_times) + 1, ((k - 1) % n_times) + 1, n_sats)]]

-----------------------------------------------------------------------------
Init ==
  /\ n_satellites = 0
  /\ partition = [m \in Models |-> [indices |-> <<>>, params |-> None, map |-> None]]
  /\ params_gpu = None
  /\ cached_times_gpu = None
  /\ cached_states_gpu = None /\ cached_soa_buffers = None
  /\ pc = "idle" /\ op = "none" /\ tles = <<>> /\ times = <<>> /\ forcing = FALSE
  /\ loaded = <<>> /\ forced = FALSE /\ mode = "Auto"
  /\ answer = None /\ failures = 0

(* A method returns: its locals are gone.                                  *)
ReturnWith(result) ==
  /\ pc' = "idle" /\ answer' = result
  /\ op' = "none" /\ tles' = <<>> /\ times' = <<>> /\ forcing' = FALSE

Return == ReturnWith(None) /\ UNCHANGED failures

(* A call of the driver fails and `?` ends the method.                     *)
Fail == /\ failures < MaxFailures /\ failures' = failures + 1
        /\ ReturnWith(None)

Goto(label) == pc' = label /\ UNCHANGED <<args, answer, failures>>

(* Loading.                                                                *)
UsesSgp4(sat, override) ==
  \/ override = "Auto" /\ sat \notin Slow
  \/ override = "ForceSgp4"

(* The ways to list, in ascending order, the positions of ts that a model  *)
(* gets: there is exactly one.                                             *)
Indices(ts, override, m) ==
  LET chosen == {i \in DOMAIN ts : UsesSgp4(ts[i], override) <=> m = "SGP4"}
  IN  {list \in UNION {[1..k -> chosen] : k \in 0..Len(ts)} :
         /\ \A p, q \in DOMAIN list : p < q => list[p] < list[q]
         /\ \A i \in chosen : \E p \in DOMAIN list : list[p] = i}

InitSatellites(ts, override) ==
  /\ pc = "idle"
  /\ n_satellites' = Len(ts)
  /\ \E sgp4 \in Indices(ts, override, "SGP4"), sdp4 \in Indices(ts, override, "SDP4") :
       partition' = [m \in Models |->
         [partition[m] EXCEPT !.indices = IF m = "SGP4" THEN sgp4 ELSE sdp4]]
  /\ tles' = ts
  /\ mode' = override
  /\ forced' = FALSE
  /\ answer' = None
  /\ IF ts = <<>> THEN pc' = "idle" /\ loaded' = <<>>
                  ELSE pc' = "load_sgp4" /\ loaded' = None
  /\ UNCHANGED <<params_gpu, cached_times_gpu, outputs, op, times, forcing, failures>>

(* One partition: its parameters are stored before the index map is sent.  *)
LoadPartition(m, here, next) ==
  LET indices == partition[m].indices
      params  == [p \in DOMAIN indices |-> InitKernel(tles[indices[p]])]
  IN  /\ pc = here
      /\ \/ /\ indices = <<>>
            /\ partition' = [partition EXCEPT ![m].params = None, ![m].map = None]
            /\ Goto(next)
         \/ /\ indices # <<>>
            /\ partition' = [partition EXCEPT ![m].params = params, ![m].map = indices]
            /\ Goto(next)
         \/ /\ indices # <<>>
            /\ partition' = [partition EXCEPT ![m].params = params]
            /\ Fail
         \/ /\ indices # <<>>
            /\ UNCHANGED partition
            /\ Fail
      /\ UNCHANGED <<n_satellites, params_gpu, cached_times_gpu, outputs, loaded, forced, mode>>

LoadUnified ==
  /\ pc = "load_unified"
  /\ \/ /\ params_gpu' = [i \in DOMAIN tles |-> InitKernel(tles[i])]
        /\ loaded' = tles
        /\ Return
     \/ UNCHANGED <<params_gpu, loaded>> /\ Fail
  /\ UNCHANGED <<n_satellites, partition, cached_times_gpu, outputs, forced, mode>>

-----------------------------------------------------------------------------
(* set_force_near_earth_override: three buffers read, changed and sent     *)
(* back one after the other.                                               *)
SetForceNearEarthOverride(force) ==
  /\ pc = "idle"
  /\ answer' = None
  /\ IF n_satellites = 0
       THEN UNCHANGED <<pc, forcing, forced>>
       ELSE pc' = "force_unified" /\ forcing' = force /\ forced' = None
  /\ UNCHANGED <<device, cached_times_gpu, outputs, op, tles, times, loaded, mode,
                 failures>>

WithForce(params, force) ==
  IF params = None THEN None
  ELSE [p \in DOMAIN params |-> [params[p] EXCEPT !.forced = force]]

ForceUnified ==
  /\ pc = "force_unified"
  /\ \/ params_gpu' = WithForce(params_gpu, forcing) /\ Goto("force_sgp4")
     \/ params_gpu # None /\ UNCHANGED params_gpu /\ Fail
  /\ UNCHANGED <<n_satellites, partition, cached_times_gpu, outputs, loaded, forced, mode>>

(* Mistake: the partition is left as it is.                                *)
ForcePartitionSkipped(m, here, next) ==
  /\ pc = here
  /\ UNCHANGED partition /\ Goto(next)
  /\ UNCHANGED <<n_satellites, params_gpu, cached_times_gpu, outputs, loaded, forced, mode>>

ForcePartition(m, here, next) ==
  /\ pc = here
  /\ \/ /\ partition' = [partition EXCEPT ![m].params = WithForce(@, forcing)]
        /\ Goto(next)
     \/ partition[m].params # None /\ UNCHANGED partition /\ Fail
  /\ UNCHANGED <<n_satellites, params_gpu, cached_times_gpu, outputs, loaded, forced, mode>>

ForceSync ==
  /\ pc = "force_sync"
  /\ \/ forced' = forcing /\ Return
     \/ UNCHANGED forced /\ Fail
  /\ UNCHANGED <<device, cached_times_gpu, outputs, loaded, mode>>

-----------------------------------------------------------------------------
(* The caches of dates and of output buffers.                              *)
CacheTimes(ts) ==
  /\ pc = "idle"
  /\ cached_times_gpu' = ts
  /\ answer' = None
  /\ UNCHANGED <<device, outputs, pc, args, loaded, forced, mode, failures>>

(* Mistake: an empty buffer kept in place of none.                         *)
ClearTimeCacheKept ==
  /\ pc = "idle"
  /\ cached_times_gpu' = <<>>
  /\ answer' = None
  /\ UNCHANGED <<device, outputs, pc, args, loaded, forced, mode, failures>>

ClearTimeCache ==
  /\ pc = "idle"
  /\ cached_times_gpu' = None
  /\ answer' = None
  /\ UNCHANGED <<device, outputs, pc, args, loaded, forced, mode, failures>>

ClearSoaCache ==
  /\ pc = "idle"
  /\ cached_soa_buffers' = None
  /\ answer' = None
  /\ UNCHANGED <<device, cached_times_gpu, cached_states_gpu, pc, args,
                 loaded, forced, mode, failures>>

-----------------------------------------------------------------------------
(* The five propagation methods. short: the arrays given to                *)
(* propagate_soa_into are too short.                                       *)
Propagate(method, ts, short) ==
  /\ pc = "idle"
  /\ short => method = "propagate_soa_into"
  /\ answer' = None
  /\ IF n_satellites = 0 \/ short \/ (method \in UnifiedOps /\ params_gpu = None)
       THEN UNCHANGED <<pc, op, times>>
       ELSE pc' = "upload" /\ op' = method /\ times' = ts
  /\ UNCHANGED <<device, cached_times_gpu, outputs, tles, forcing, loaded, forced, mode,
                 failures>>

(* Only the resident method keeps the dates, and only their number tells   *)
(* it whether the ones it kept will do.                                    *)
UploadTimes ==
  /\ pc = "upload"
  /\ \/ /\ cached_times_gpu' =
             IF /\ op = "propagate_soa_gpu_resident"
                /\ cached_times_gpu = None \/ Len(cached_times_gpu) # Len(times)
               THEN times ELSE cached_times_gpu
        /\ Goto("allocate")
     \/ UNCHANGED cached_times_gpu /\ Fail
  /\ UNCHANGED <<device, outputs, loaded, forced, mode>>

(* Mistake: a buffer once allocated is kept whatever its size.             *)
AllocatedOnce(buffer, size) ==
  IF buffer = None THEN [k \in 1..size |-> Zeroes] ELSE buffer

Allocated(buffer, size) ==
  IF buffer = None \/ Len(buffer) # size THEN [k \in 1..size |-> Zeroes] ELSE buffer

Allocate ==
  /\ pc = "allocate"
  /\ LET n_results == n_satellites * Len(times)
     IN  \/ /\ op = "propagate"
            /\ cached_states_gpu' = Allocated(cached_states_gpu, n_results)
            /\ UNCHANGED cached_soa_buffers
            /\ Goto("run_aos")
         \/ /\ op # "propagate"
            /\ cached_soa_buffers' = Allocated(cached_soa_buffers, n_results)
            /\ UNCHANGED cached_states_gpu
            /\ Goto(IF op \in SoaOps THEN "run_sgp4" ELSE "run_unified")
         \/ UNCHANGED outputs /\ Fail
  /\ UNCHANGED <<device, cached_times_gpu, loaded, forced, mode>>

(* The dates the kernels read.                                             *)
DeviceTimes == IF op = "propagate_soa_gpu_resident" THEN cached_times_gpu ELSE times

RunAos ==
  /\ pc = "run_aos"
  /\ \/ /\ cached_states_gpu' = Kernel(cached_states_gpu, params_gpu, DeviceTimes,
                                       AosSlots(n_satellites, Len(times)), "aos")
        /\ Goto("download")
     \/ UNCHANGED cached_states_gpu /\ Fail
  /\ UNCHANGED <<device, cached_times_gpu, cached_soa_buffers, loaded, forced, mode>>

RunUnified ==
  /\ pc = "run_unified"
  /\ \/ /\ cached_soa_buffers' = Kernel(cached_soa_buffers, params_gpu, DeviceTimes,
                                        SoaSlots(n_satellites, Len(times)), "soa")
        /\ Goto("download")
     \/ UNCHANGED cached_soa_buffers /\ Fail
  /\ UNCHANGED <<device, cached_times_gpu, cached_states_gpu, loaded, forced, mode>>

PartitionSlots(m) ==
  IndexedSlots(partition[m].map, Len(partition[m].indices), n_satellites, Len(times))

RunPartition(m, here, next) ==
  LET part == partition[m]
  IN  /\ pc = here
      /\ \/ /\ part.params = None \/ part.map = None
            /\ UNCHANGED cached_soa_buffers
            /\ Goto(next)
         \/ /\ part.params # None /\ part.map # None
            /\ cached_soa_buffers' = Kernel(cached_soa_buffers, part.params,
                                            DeviceTimes, PartitionSlots(m), "soa")
            /\ Goto(next)
         \/ /\ part.params # None /\ part.map # None
            /\ UNCHANGED cached_soa_buffers
            /\ Fail
      /\ UNCHANGED <<device, cached_times_gpu, cached_states_gpu, loaded, forced, mode>>

Download ==
  /\ pc = "download"
  /\ LET cells == IF op = "propagate" THEN cached_states_gpu
                  ELSE IF op = "propagate_soa"
                    THEN ToAos(cached_soa_buffers, n_satellites, Len(times))
                    ELSE cached_soa_buffers
     IN  \/ /\ ReturnWith([op |-> op, times |-> times, cells |-> cells])
            /\ UNCHANGED failures
         \/ Fail
  /\ UNCHANGED <<device, cached_times_gpu, outputs, loaded, forced, mode>>

-----------------------------------------------------------------------------
Loading ==
  \/ \E ts \in TleLists, override \in Overrides : InitSatellites(ts, override)
  \/ LoadPartition("SGP4", "load_sgp4", "load_sdp4")
  \/ LoadPartition("SDP4", "load_sdp4", "load_unified")
  \/ LoadUnified

Forcing ==
  \/ \E force \in BOOLEAN : SetForceNearEarthOverride(force)
  \/ ForceUnified
  \/ ForcePartition("SGP4", "force_sgp4", "force_sdp4")
  \/ ForcePartition("SDP4", "force_sdp4", "force_sync")
  \/ ForceSync

Propagating ==
  \/ \E method \in Ops, ts \in TimeLists, short \in BOOLEAN : Propagate(method, ts, short)
  \/ UploadTimes
  \/ Allocate
  \/ RunAos
  \/ RunUnified
  \/ RunPartition("SGP4", "run_sgp4", "run_sdp4")
  \/ RunPartition("SDP4", "run_sdp4", "download")
  \/ Download

Next ==
  \/ Loading
  \/ Forcing
  \/ Propagating
  \/ \E ts \in TimeLists : CacheTimes(ts)
  \/ ClearTimeCache
  \/ ClearSoaCache

Spec == Init /\ [][Next]_vars
-----------------------------------------------------------------------------
Buffers == {None} \cup Seq(Sgp4StateGpu)
Answers == {None} \cup [op : Ops, times : TimeLists, cells : Seq(Sgp4StateGpu)]

Labels == {"idle", "load_sgp4", "load_sdp4", "load_unified", "force_unified",
           "force_sgp4", "force_sdp4", "force_sync", "upload", "allocate",
           "run_aos", "run_unified", "run_sgp4", "run_sdp4", "download"}

(* Every field of the propagator holds a value of its type.                *)
TypeOK ==
  /\ n_satellites \in Nat
  /\ partition \in [Models -> [indices : Seq(Nat \ {0}),
                               params : {None} \cup Seq(Sgp4ParamsGpu),
                               map : {None} \cup Seq(Nat \ {0})]]
  /\ params_gpu \in {None} \cup Seq(Sgp4ParamsGpu)
  /\ cached_times_gpu \in {None} \cup TimeLists
  /\ cached_states_gpu \in Buffers /\ cached_soa_buffers \in Buffers
  /\ pc \in Labels
  /\ op \in Ops \cup {"none"}
  /\ tles \in TleLists \cup {<<>>} /\ times \in TimeLists \cup {<<>>}
  /\ forcing \in BOOLEAN
  /\ loaded \in {None} \cup TleLists \cup {<<>>}
  /\ forced \in {None} \cup BOOLEAN
  /\ mode \in PropagatorOverride
  /\ answer \in Answers
  /\ failures \in 0..MaxFailures

(* Once a load and an override have completed, the three copies of the     *)
(* parameters say the same of every satellite: the partitions together     *)
(* hold each satellite once, with the parameters the unified buffer has.   *)
(* init_satellites_with_override and set_force_near_earth_override write   *)
(* the copies one after the other.                                         *)
CopiesAgree ==
  loaded \notin {None, <<>>} /\ forced # None =>
    /\ params_gpu = [i \in DOMAIN loaded |->
                       [InitKernel(loaded[i]) EXCEPT !.forced = forced]]
    /\ \A i \in DOMAIN loaded : \E m \in Models :
         /\ partition[m].params # None /\ partition[m].map # None
         /\ \E p \in DOMAIN partition[m].map :
              partition[m].map[p] = i /\ partition[m].params[p] = params_gpu[i]
         /\ \A other \in Models \ {m} :
              partition[other].map # None =>
                \A p \in DOMAIN partition[other].map : partition[other].map[p] # i

(* While a load is in place, each thread of a launch has parameters to     *)
(* read, writes inside the output buffer, and no two write one element.    *)
LaunchInBounds(buffer, params, slots) ==
  /\ \A thread \in DOMAIN slots :
       thread[1] \in DOMAIN params /\ slots[thread] \in DOMAIN buffer
  /\ \A a, b \in DOMAIN slots : slots[a] = slots[b] => a = b

(* The launches of the methods, which reuse buffers of earlier calls and   *)
(* index them with the counts of this one, keep within their buffers.      *)
LaunchesInBounds ==
  loaded # None =>
    /\ pc = "run_aos" =>
         LaunchInBounds(cached_states_gpu, params_gpu,
                        AosSlots(n_satellites, Len(times)))
    /\ pc = "run_unified" =>
         LaunchInBounds(cached_soa_buffers, params_gpu,
                        SoaSlots(n_satellites, Len(times)))
    /\ \A m \in Models :
         /\ pc = (IF m = "SGP4" THEN "run_sgp4" ELSE "run_sdp4")
         /\ partition[m].params # None /\ partition[m].map # None
         => LaunchInBounds(cached_soa_buffers, partition[m].params, PartitionSlots(m))

(* The propagator keeps the promise of StateTable: every method that       *)
(* answers gives one state for each loaded satellite and each date, in the *)
(* documented order, from the right model, whatever failed before; and     *)
(* coordinates an earlier call left in a buffer come with an error code.   *)
PromiseKept == Promise!Spec

(* The resident method is documented to propagate to the dates it is       *)
(* given ("jd_times - Array of Julian dates to propagate to").             *)
ResidentDatesAsGiven ==
  answer # None /\ loaded # None =>
    \A i \in DOMAIN loaded, t \in DOMAIN answer.times :
      LET k == Promise!Position(answer.op, i, t, Len(loaded), Len(answer.times))
      IN  ~answer.cells[k].error => answer.cells[k].state.time = answer.times[t]

=============================================================================
