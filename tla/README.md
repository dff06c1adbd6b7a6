# Verification of keplemon in TLA+

keplemon is a Rust library (with Python bindings) for orbit propagation,
conjunction and access screening, association of observations and orbit
determination. Most of its lines are floating-point astrodynamics, many of them
calls of the external library SAAL; those are out of the reach of a model
checker. What is not numerical is state: a solver with some thirty fields that
setters invalidate, a GPU propagator with cached device buffers and two
partitions of its satellites, keys of a global library that clones share across
threads, caches of ephemerides, locks, and searches that must not lose an event.
These modules model that state machinery and treat numbers as values that can
only be told apart as far as a property needs.

Paths below are relative to the repository; `src/src/x.rs` in PROJECT.json is
`src/x.rs` of the crate.

## 1. Inventory

| Component | State | Operations | Interacts with |
|---|---|---|---|
| Batch least squares (`estimation/batch_least_squares.rs`) | observations, a priori, estimate, flags, limits, cached measurement vectors, weighted RMS, delta X, maneuver, covariance | constructor, setters, `solve`, `solve_with_maneuver` | Satellite (propagation), TLE constructors (perturbed copies), `SAAL_BLS_LOCK`, rayon |
| CUDA propagator, host side (`gpu/cuda_sgp4.rs`) | device buffers of parameters, dates and outputs, index lists of two partitions, override, host copies | `init_from_tles`, `set_override`, `cache_times`, five `propagate_*` methods | CUDA driver, kernels |
| CUDA kernels (`kernels/*.cu`, `*.cuh`) | none between launches | init, propagate (SoA and scatter) | the buffers of the host side |
| TLE and SAAL keys (`elements/tle.rs`) | shared handle with a key, type, elements | constructors, clone, drop, `reload`, `load_to_memory`, reads | SAAL's TLE and SGP4 tables (process-wide) |
| Satellite (`bodies/satellite.rs`) | propagator, keplerian state, force properties, ephemeris cache | get_ephemeris, step_to_epoch, setters, reports | TLE, Ephemeris |
| Constellation (`bodies/constellation.rs`) | map of satellites, cached range | add/remove, cache_ephemeris, reports over rayon, UCT validity | Satellite, Ephemeris, BatchPropagator |
| Batch propagator (`propagation/batch_propagator.rs`) | threshold, backend preference | `propagate_batch`, the resident variant, the choice of a backend; called by TLE and Constellation | CUDA propagator or CPU |
| Ephemeris (`elements/ephemeris.rs`) | shared handle: ordered states and a uniform-grid record, a reader-writer lock on each | add_state, lookups, horizon accesses, close approach, proximity, maneuver event | other ephemerides (their locks) |
| Time (`time/*`) | none | tolerant order of `Epoch`, conversions | all |
| Observations (`estimation/observation*.rs`) | records; collections grouped by epoch and sensor | association thresholds, greedy one-to-one assignment | Constellation |
| UCT validity (`events/uct_validity_report.rs`), TLE catalog (`catalogs/tle_catalog.rs`), Observatory and Sensor | small | decision table; two- and three-line reader; filters | |
| Element types, enumerations, reports | plain records | coordinate conversions | SAAL |
| Python bindings (`bindings/*`) | borrow flags of PyO3, the interpreter lock | about 200 methods, 23 of which release the interpreter while they run; log records that need it | all |

Which behaviours are hard:

* failures half way: a maneuver solve swaps the observations and may fail before
  it swaps them back; a GPU load writes fourteen buffers, any of which may fail;
  a reload of a TLE removes the key before it loads it again;
* staleness: results of a solve after a setter, device buffers reused by size,
  a cached ephemeris or a cached range after a change of the satellites;
* sharing between threads: clones of a TLE share a key of a process-wide
  library; ephemerides share two locks, taken recursively by the horizon search;
  workers of the pool log, and a log record needs the Python interpreter;
* one orbit in two places: a satellite's fields, which a GPU is given, and its
  propagator, which the CPU uses;
* searches at their edges: crossings and minima on a step boundary, accesses at
  the end of the ephemeris, the tolerant order of epochs.

PROJECT.json lists them line by line under `hazards`, with the properties that
cover each. Section 5 names those no property covers.

What makes each component correct:

* solver: what it reports (convergence, RMS, estimate, correction, maneuver)
  describes the observations and the options it now has; a call leaves the
  user's observations in place;
* GPU: a call returns, for every satellite and date, the state of the satellite
  last loaded at that date, or an error; launches stay in bounds and no two
  threads write one element;
* keys: no use after removal, no key loaded twice, no key lost, every call returns;
* ephemeris: states strictly ordered, a lookup through the uniform grid equals
  one by search, no access or approach lost, a search sees one version of it;
* threads: no two calls wait for each other in a circle;
* caches of Satellite and Constellation: an answer describes the current orbit;
* association: one-to-one, stable (what is left out was taken by something as
  near), and every observation either associated or an orphan;
* backends: the answer for a satellite is that of its propagator, whichever
  backend gave it and whatever failed.

## 2. Modules and plan

| Module | Models | State |
|---|---|---|
| `BatchLeastSquares`, `BatchLeastSquaresProofs` | the solver | done |
| `SolverPartials` | extends it: the parameter of each column of the linear problem; proofs in `BatchLeastSquaresProofs` | done |
| `StateTable` | what a batch propagation promises (abstract) | done |
| `CudaSgp4Propagator`, `CudaSgp4PropagatorProofs` | host side and kernels' indexing, implements `StateTable` | done |
| `SaalKeys`, `SaalKeysProofs` | keys, handles and threads | done |
| `EphemerisGrid` | ordered states and the uniform grid of an ephemeris | done |
| `HorizonAccess` | the search for passes over a sensor | done |
| `EphemerisProofs` | proofs about `EphemerisGrid` and `HorizonAccess` | done |
| `Constellation`, `ConstellationProofs` | satellites, caches and the reports that compare them | done |
| `Association`, `AssociationProofs` | the association report of a collection of observations | done |
| `BatchPropagator`, `BatchPropagatorProofs` | choice of backend, batches, a constellation's states | done |
| `PyBodies`, `PyMethods`, `PyThreads`, `PyThreadsProofs` | what the Python methods wait for, borrow and hold | done |

`MC*` modules give the constants their values. The order was: the solver, since
most state and most of the published API meet there; the GPU propagator, whose
answer can be silently wrong; the keys, which all else shares; then what is
built on them, and last the Python methods that call it all.

How they compose: `SolverPartials` extends `BatchLeastSquares`;
`CudaSgp4Propagator` instantiates `StateTable` and implements it;
`PyThreads` extends `PyMethods`, which extends `PyBodies`. The others meet at
their borders: `BatchPropagator` has a device that answers or fails, which is
what `StateTable` promises; `Constellation` has ephemerides that are an orbit
over a range, `EphemerisGrid` has one ephemeris in detail.

Planned next, most important first:

1. `CloseApproach`: the scan for a close approach and for proximity against a
   reference definition over bounded distance profiles, with the minimum on the
   boundary of two steps.
2. `Constellation`, second part: two satellites compared by the methods of
   `satellite.rs`; an abstract satellite without a cache, which the cached one
   implements as long as no setter is called (proof).
3. `ObservationGroups` (get_list and what a collection demands of a group),
   `UctValidity`, `TleCatalog`: pure algorithms against reference definitions over
   bounded inputs.

## 3. What each module says and what its runs show

### BatchLeastSquares

State: the fields of `BatchLeastSquares` that outlive a call (`obs`,
`a_priori`, `estimate`, the flags, limits, `delta_x`, `weighted_rms`,
`converged`, `iteration_count`, `maneuver`, `measurements`), and the locals of
the running call (`phase` is where it stands; `call` of a maneuver solve holds the
original observations and the candidate epoch). Every setter is an action; a
solve is `Solve` or `SolveWithManeuver`, then one action per fallible step of an
iteration (`PredictionFails`, `TestConvergence`, `CorrectionFails`,
`UpdateFails`, `Updated`), then the return and, for a maneuver, the restoring of
the observations and the computation of the delta-v. Numbers are tags: an
estimate says which a priori, how many corrections and which epoch it has; an
RMS says which observations and which estimate it was computed from.

Abstractions: the predicted buffers and Jacobians are rebuilt in every iteration
and so are not state; the three measurement vectors are set together and are one
variable; the seeding of the force properties is left out; the option setters of
the solver that no property tells apart keep the result of the last call.

Run `solver` (113 496 states). Observations at two epochs, a GP a priori before
them and an XP a priori that `reset` treats differently, iteration limits 0, 1
and 3: below, at and above the two iterations that a convergence test needs.
The window in which a maneuver is searched has one epoch. What it shows, in all
orders of setters and solves with a failure anywhere:

* `FitDescribesInputs`: an RMS or corrected estimate kept between calls was
  computed from the current a priori, type and flags (and observations);
* `MeasurementsOfObs`: the measurement vectors a loop compares with are those of
  the observations it runs on, across the swap of a maneuver solve;
* `ResultsFitLoop`: the last correction has the dimension of the model that is
  solved for, convergence is only claimed after two RMS were compared, a solved
  result had an iteration, and the estimate stands at the last observation;
* `ManeuverFitsInputs`: a maneuver is there only if one was asked for, and its
  epoch precedes every observation of the user;
* `UserObservationsKept`: whatever fails, no observation of the caller is lost.

Run `obs_not_restored` states what the repository says and the code does not do:
an error inside a maneuver solve leaves the artificial anchor observations in
the solver. Seen while modelling and without a run: the weighted RMS a solve
leaves is that of the estimate before the last correction, although
`estimation.pyi` speaks of the residuals of the current one;
`set_estimate_maneuver` turns drag and radiation pressure off, and their
setters, called after it, turn them on again.

Proved (`BatchLeastSquaresProofs`), for all observations, a prioris, limits and
windows: `TypeCorrect`, `FitCorrect`, `MeasurementsCorrect`, `ManeuverCorrect`,
`ManeuverReported`, `ResultsCorrect`, `ObservationsKept`. The heart is the
invariant `CallFit`: `FitDescribesInputs` is not inductive, since inside a call
the RMS is that of the previous iteration and the observations may be the
combined ones. `CallOK` relates the locals of the running maneuver call with
`obs` (the set before the swap is kept, the combined set is the original plus
anchors) and, while looping, the revision of the estimate with
`iteration_count`, and an RMS with at least one iteration.

### SolverPartials

Four functions of `tle.rs` enumerate the parameters solved for, each with index
arithmetic of its own, and a fifth decides which of them the propagator is given
for which element type. A matrix is the sequence of the parameters of its
columns, an observation the set of its components. The module adds no state: it
extends the solver, whose flags and element type choose the columns, and the run
`solver` checks `ColumnsEstimable` with the solver's other invariants: every
column is that of a parameter the propagator sees (a GP type never sees the
radiation pressure: its column would be zero, the normal matrix singular), and
each entry of the correction goes to the parameter of its column.

Proved (also in `BatchLeastSquaresProofs`), with the solver's invariant: `ColumnsCorrect`;
`JacobiansAgree` and `StmObservable` compare the functions with each other for
all flags and types; `PredictionCoversMeasurement` says when the prediction of
an observation has the rows of its measurement: exactly when the sensor has a
noise for every value, which no check in the code ensures.

### StateTable and CudaSgp4Propagator

`StateTable` is the promise of a batch propagation: a table is asked for, and the
answer has, for each satellite and date, that satellite's state at that date
under the model in force, or the call fails. `CudaSgp4Propagator` models the
host object: the counts and index lists of the near-earth and deep-space
partitions, the parameter buffers, the override on the host and the three copies
on the device, cached dates, cached output buffers, and a call that runs as the
code runs, upload by upload and launch by launch. Each driver call may fail.
A kernel's write of element `i` goes through the index arithmetic of the kernels;
a write outside the buffer is dropped, an element two threads write in a race
gets `NoState`. The refinement maps the host object's returned arrays to the
abstract answers; the promise is `PromiseKept`.

Not state: `cached_soa_sgp4/sdp4` and `tle_data_gpu`, which no method reads;
copies of resident device buffers the caller takes are external. Empty lists of
dates are excluded (the caller, BatchPropagator, returns before). The `into`
methods get arrays of the exact size or too short ones.

A thread that cannot compute a state returns early with the error code alone
written. `Undefined` is the set of states for which that happens, of one
satellite, date and model each. In the kernel of `propagate` the thread writes
into the buffer itself, so the cell keeps the coordinates of an earlier call
beside its new error code; in the others it writes a local that has no
coordinates. `PromiseKept` therefore asks for the state in every cell without an
error code, and for an error code exactly where there is no state; stale
coordinates occur in the run and the error code always marks them.

Run `gpu` (about 6 million states): three satellites, among them one at the
boundary of the two partitions, loads of none, one and two satellites, date
lists of lengths one and two, two of them of one length, so that cached dates of
the same count differ; one failing driver call. `CopiesAgree` (host and device
agree on counts, indices and override), `LaunchesInBounds`, and `PromiseKept`,
the refinement. Bounds: output buffers are reused when 2 x 1 = 1 x 2 elements,
which these lists reach; one failure suffices since a second finds the object in
a state that one failure or none can leave. After the failure the two lists of one
length do not meet again (`MCOneListAfterFailure`); before it they do.

Proved (`CudaSgp4PropagatorProofs`), for every set of satellites and dates, any
number of failures and loads of any length: `TypeCorrect`, `CopiesAlwaysAgree`,
`LaunchesStayInBounds`, `KeepsPromise`, from one invariant (`Invariant`), which
TLC checked on the instance of the run first. Beyond the types it says

* `CopiesInv`: how far a running load has written the index lists and the
  parameters of each partition (`LoadInv`); that a completed load leaves three
  copies of every satellite, each under one force (`KeptInv`); and how far an
  override has got (`ForceInv`);
* `RunInv`: a running call has buffers of the number of elements it computed
  from the counts and dates it launches with, whether it made or found them;
* `WrittenInv`: after the launch of a partition, the cells of its satellites
  hold their states, and the second launch writes none of them.

The arithmetic is `Division`: a number has one quotient and one remainder, so
`(i - 1) * n + t` and its transpose give no two threads one element (`RowsApart`,
`ColumnsApart`) and each element its thread. `KernelWrites` and `KernelKeeps`
say from that what a launch leaves in its buffer, and `StepMaps` that each step
is one of `StateTable` or a stutter: a call asks when it starts, answers when it
returns, and all between is hidden. `NoneAssumption` (`None` is neither a buffer of
parameters nor an index list) is the one assumption besides the types.

`gpu_resident_dates`: the resident methods upload dates only when the count
differs, against the documentation of their argument. Seen while modelling and
without a run: after a load that failed half way the object still answers; the
override `ForceSgp4` chooses the partition and not the kernel's model;
`cache_times` says `propagate` reuses the cached times while it always uploads,
which costs time and no correctness.

### SaalKeys

State: the tables of SAAL, which key each place (variable, slot, temporary)
holds, the solver's lock, and per thread the label, place and key of the
running method. A thread is at any label
but `idle` and `wait` while SAAL executes a call.
The Rust borrow checker is the guard of the methods: `MayMutate` for
`&mut self`, `MayShare` for `&self`. SAAL is external: `load_arrays` returns a
fresh key or fails, `sgp4::load` needs the key in the TLE table and may fail,
propagation needs it in the SGP4 table. Lock poisoning is left out: nothing known
panics in a guarded closure. The early return of `get_ephemeris` on a cached
ephemeris is not in this module.

Run `saal_keys` (143 750 states): two threads, three places (a key cloned while
it is replaced elsewhere), three keys, one failing load. `NoUseAfterRemove`,
`NoDoubleLoad`, `MissingOnlyIfReloading`, `KeysAccountedFor` and the liveness
property `CallsReturn`. Fairness: weak fairness of each thread's `Continue`, the
steps of a method it has begun: the operating system runs every thread and SAAL
returns. Starting a method is not fair. The mutex of Rust is not fair, so the
step that takes the lock has no stronger assumption either; with two threads
weak fairness is enough, as the holder always releases.

The lock of the solver is the solver's alone: its comment says SAAL is not
thread-safe under rayon, and in a constellation's parallel iterators two threads
are inside SAAL at once.

Proved (`SaalKeysProofs`), for all sets of threads, places and keys:
`TypeCorrect`, `UseCorrect`, `LoadCorrect`, `MissingCorrect`, `AccountsCorrect`. The invariant adds
`BorrowsOK` (a place of a running mutating method belongs to no other method)
and `RemovedFirst` (a key being removed is out of the SGP4 table between the two
removals). `AccountsCorrect` counts the keys without an owner: the set `Leaked`
stays finite although nothing bounds the tables, loses nothing an action gives an
owner, and gains one key only in a step in which a load of SAAL fails.
`CallsReturn` is liveness and stays with TLC.

### EphemerisGrid

State: the vector of `CartesianState` (an epoch and which addition gave it), the
`UniformGrid` record, and the last state added. `AddState` is `add_state` whole:
the binary search by the tolerant order of `Epoch`, the replacement or
insertion, and the update of the grid, one step because the handle holds both
write locks for all of it. Epochs are ticks, and the two tolerances of the code
(equal epochs, even steps) are numbers of ticks; f64 rounding is represented by
epochs that lie a tick beside the grid. Time systems, which the order of
`Epoch` ignores, and the interpolated numbers are left out; a lookup is the pair
of states it interpolates between.

The assumption `EpochAssumption` says that tolerant equality is transitive on
the epochs that are added. The code does not check it, and without it no binary
search is meaningful; epochs that come from steps far longer than the tolerance
satisfy it.

Run `ephemeris` (133 698 states): epochs on the grid, a tick beside it, where
equal ones replace each other, and exactly the tolerance apart, in any order, appended, inserted in the middle
and added again. `Ordered`, `AddedIsFound` and `CoverageGrows` are about the
vector; `DriftBounded` and `LookupNear` about the grid: an index computed from
the first step is off by no more than the accumulated tolerance, so a lookup is
at most one interval beside the right one, though `update_uniform_grid` looks at
the neighbours of one index only. `GridAgreesWithSearch`: when no epoch is
rounded, a lookup by index is the lookup by search.

Two of the properties have a premise that the code's tolerances make harmless.
`GridAgreesWithSearch` leaves out an epoch that is exactly the tolerance from a
state, since the order of `Epoch` compares with `<` and the grid with `<=`.
`AddedIsFound` asks that the drift of the whole vector is less than a step: with
a tolerance of nine microseconds and steps of a minute that is any ephemeris of
fewer than several million states; without it, a lookup at the epoch of a state
may take an interval beside it.

Proved (`EphemerisProofs`), for every set of epochs and every length:
`TypeCorrect`, `OrderCorrect`, `DriftCorrect`, `CoverageCorrect`, `LookupCorrect`,
`GridCorrect`, `AdditionCorrect`. The flag is set
step by step, but `DriftBounded` speaks of any stretch of `n` steps, and cannot
be derived from single steps without induction over the index. The invariant
therefore carries `EvenVector`, for all pairs of indices, and the proof shows
each branch of `AddState` keeps it: an append adds one step to every stretch
that ends there (`DriftAdds`), an insertion before the end or a replacement of a
state clears the flag or changes nothing that the flag speaks of.
`InsertAtProperties` is the lemma on sequences all of it rests on.

The lookups are proved from it. A search ends between two neighbours
(`SearchFinds`, by the least index whose state is after the epoch: `LeastIndex`);
a computed index is a quotient, so it is one off at most by the drift that
`EvenVector` allows (`GridFinds`, `NearOnGrid`); on an exact grid the quotient is
the index itself (`GridAgrees`). `AddedKept` says the state added last is in
the vector, also when it replaced another, and `StateIsFound` that every state is
found at its own epoch.

### HorizonAccess

`get_horizon_accesses` and the two searches it calls. State: the elevation
profile (`above`, chosen at the start and constant), and the locals of the call.
`Sample` is one step of `get_next_horizon_crossing`; `First` and `Later` are a
bracket with a change of sign and the crossing `refine_horizon_crossing` ends at,
any crossing in the bracket, since a bracket may hold three. A profile is every
function from fifteen ticks to Boolean; the step is three ticks (or half the
minimum duration when that is less, as in the code), so that passes and gaps
shorter and longer than a step occur, up to three of them.

Run `horizon_access` (421 256 states): `AccessesDisjoint`, `AccessesArePasses`,
`LongPassesReported`, and `Terminates`. The two about passes
assume `Resolved`, gaps between passes longer than a step: sampling cannot promise
more. `Terminates` is under weak fairness of the next step, which for a
sequential program only says it goes on running.

Seen without a run: a pass whose exit lies within a step of the end of the
ephemeris is found and not reported, since accesses are saved at the top of the
loop (`LongPassesReported` asks for more room than that); a satellite that is above
the horizon all the time is reported before the minimum duration is looked at, so
an ephemeris shorter than it gives an access shorter than it; a minimum duration of
zero makes the step zero and the search endless.

Proved (`EphemerisProofs`), for every profile, step and duration:
`SearchTyped`, `AccessesApart`, `AccessesReal`, `LongPassesFound`.
`AccessesDisjoint` needs
`AccessesBehind`: no access reaches beyond the start of the next search or to a
pending entry, and a search never samples before its start. 
The two about passes rest on the ticks where the profile changes: of a satellite
that is down at one tick and up at a later one, the first tick up is a rise
between them (`RiseBetween`; `SetBetween` and `AboveBetween` likewise). `PassInv`
says what an entry is on the way: it begins a pass, and while its exit is searched
a sample above the horizon is of the same pass (`OpenEntry`), so that the exit
found next is that of its pass. `LongInv`
follows one long pass (`Located`): it lies ahead of the search, or its entry is
open, or it waits to be saved, or it is among the accesses; a sample falls into it
and into the gap before it, since both are longer than a step, so no step of the
search passes it by. TLC checked both invariants on the instance of the run.
`Terminates` is liveness and stays with TLC.

### Constellation

State: the satellites under their keys, each with the orbit of its
`keplerian_state`, the orbit its propagator was built from and the ephemeris it
has cached; the cached range of the constellation; and one satellite the caller
holds, which is how a satellite is changed (`Get`, a setter, `Add`). Reports are
operators of that state (`CaReportVsOne` and the like); what a report changes,
the caches, is an action. An orbit is a position and a velocity at every epoch, on
one axis, and the two altitudes of its mean elements, `Perigee` and `Apogee`,
which are what the screening compares; they are constants of their own, and an
orbit may leave the band between them. A position stands for one step of the
search, with the least distance in it. SAAL may refuse a load at any call that
makes one: the setters then leave the new elements beside the old propagator (and
panic), `step_to_epoch` leaves the satellite where it was. An ephemeris is an orbit over a
range, and a lookup outside it is clamped as in the code, so that the code's
comparison of two ephemerides of different ranges is modelled: the search of
`get_close_approach` runs over the first and stops where their epochs differ.
The order in which a HashMap gives its values is arbitrary.

Left out: the size of the step, which a cached ephemeris ignores; the keys a
`reload` exchanges (in `SaalKeys`); the batch calls (in `BatchPropagator`); the
associations and observability of a UCT; the reports of two single satellites in
`satellite.rs`, which are those of two members. The epoch of a `keplerian_state`
is any epoch.

Run `constellation` (98 321 states, up to the exchange of the two ids): three
orbits; two come near each other though their altitudes never meet, which only
the margin of the comparison keeps in the report; the third cannot be propagated
to the first epoch and dives at the last, far below its perigee, to where it is
near the second and too slow for a maneuver; satellites without an orbit;
windows of three and two epochs, one inside the other, which is what a cache
wider than the request takes. `MCDifferAlike` and `MCCachesOfOwnId` bound how many
satellites are in an odd state at once: those whose elements are not those of their
propagators are clones of one, and no satellite in the constellation has a cache
from before its id was set, which the premise of `ReportsComplete` leaves out
anyway. The proofs need neither bound.

* `ApproachesReal`: an approach is reported only at an epoch both ephemerides
  cover;
* `ReportsComplete`: when the ephemerides have one range, be they of the present
  elements or of earlier ones, a report of approaches is the same in every order
  of the HashMap, holds only approaches of its pairs, no satellite with itself,
  and all of those whose satellites keep to the altitudes that are compared;
  proximities are exactly those of the pairs, and maneuvers exactly the
  approaches that are not slower than the threshold;
* `CachedReportsPure`: within the cached range, a report propagates no satellite
  of the constellation again, and the window of `get_uct_validity` is within.

`approach_reported`: without the premise of one range an approach is lost. A
satellite with a cache from epoch 0 is compared, as the first of a pair, with one
asked from epoch 1 on, and the search stops at epoch 0. The short trace is the
ordinary use: `cache_ephemeris`, `add`, a report on the later part.

Proved (`ConstellationProofs`), for every set of ids, orbits, windows and
distances: `TypeCorrect`, `CachedReportsCorrect`, `ApproachesCorrect`,
`ReportsCorrect`. Nothing is assumed of positions, velocities and altitudes. The
invariant is `TypeOK` with `satellites` a function; what
the reports hold then follows from the types alone. The least distance of a
search exists (`LeastElement`), and of two ephemerides of one range the search
finds exactly the `Approach` (`MatchedApproaches`), whichever comes first
(`MatchedSymmetric`). Where the altitudes bound both ephemerides, a pair that the
screening leaves out is never nearer than the threshold (`ScreenedAreApart`);
where they do not, an approach may be lost, and `ReportsCorrect` claims no more
than that what is reported is one (`ComparedBetween`). An order of the HashMap is an injection of `1..n` into the
`n` satellites that answer, hence onto them (`OrderIsOnto`), and the pairs `i < j`
of a list are the pairs of satellites once each (`ListedPairs`). The assumptions
besides the types: the ids and the epochs are finite sets, and the epochs are
consecutive.

### Association

`ObservationCollection::get_association_report`, a state machine of its two
nested loops: `NextLevel` is the filter at the start of a level of confidence,
`Assign` and `Skip` one turn of the greedy loop, `Return` the collection of
orphans. The queue of a level is kept as a set, and `Before` is the order of the
stable sort, open where the order comes from a HashMap. A residual is its range;
those from `LOW_ASSOCIATION_CLOS_RANGE` on never become candidates and are one
value. A NaN range, for which the sort has `unwrap_or(Equal)`, is below no
threshold and never gets there. Observations are positions in the vector and
have ids, which a caller can set (`set_id`) to the same for several; a
satellite may be out of the field of view and near in residual.

Run `association` (2 076 492 states, up to the names of the ids): three
observations, two satellites, thresholds of 2, 3 and 4, so that two residuals
are of high confidence and can be ranked; every residual, visibility and
repetition of ids. More observations than satellites and a level with several
candidates of one observation and of one satellite are what the greedy loop can
get wrong; both occur.

* `OneToOne`: also when a level was filtered before its candidates were assigned;
* `NoBetterPair`: the assignment is stable: each candidate left out has lost its
  observation or its satellite to an association at least as near, possibly of an
  earlier level;
* `ReportConsistent`: every observation id is associated or orphaned and never
  both, and the moving satellites are those of medium and low associations.

Proved (`AssociationProofs`), for every number of observations, all satellites,
residuals and thresholds in the order of `configs.rs` (`RangeAssumption`):
`TypeCorrect`, `AssignmentOneToOne`, `AssignmentStable`, `ReportCorrect`.
`NoBetterPair` speaks of the end only. The invariant `IInv` says what holds on
the way: everything associated is at least as near as everything still queued
and nearer than the reach of the level (`NearestFirst`), and every candidate
below that reach is queued or settled (`SeenIsSettled`). A candidate that a
filter or the loop drops is dropped because of an association made before it,
which by `NearestFirst` is as near.

Seen while modelling and without a run: the stub calls the report "optimal" and
"the best combination". Stable it is, but neither as many associations as
possible nor the least sum of residuals: if `o1` is near `s1` and a little
farther from `s2`, and `o2` is near `s1` alone, `o1` takes `s1` and `o2` is an
orphan. Since orphans are told by id, an observation that shares its id with an
associated one is in neither list.

### BatchPropagator

The CPU and the GPU as two backends of one promise, seen from their callers. A
satellite keeps its orbit twice: `keplerian_state` and `force_properties`, from
which `TLE::from` makes what the GPU is given, and the TLE in
`inertial_propagator`, which the CPU propagates. State: the satellites of a
constellation with both, the reply of a call until the caller has seen it, and
the history variable `refused`: the satellites whose last setter stored its field
and loaded no TLE of it. Both setters store before they load: osculating elements
are stored and answered with an error, and a load that SAAL refuses
(`tle.rs:517`) panics in the `unwrap` with the field new and the propagator old,
a state the caller of the Python bindings can go on with. `SaalMayRefuse` names the
elements and forces for which any load may be refused; all the theorems hold for
every such set, the one of all pairs included. A state is the TLE it came from, how
its elements were read, and its epoch. The device is `GpuStates`, which is what `StateTable`
promises of `CudaSgp4Propagator`, or an error, at any call. The index arithmetic
of `propagate_batch_gpu` and the mapping of rows back to the ids of the HashMap,
in any order, are as in the code.

Run `batch` (86 432 states): two satellites, elements of every type, forces of
two kinds, lists of TLEs and epochs that are empty, on and beside the default
threshold, an orbit that SAAL cannot take to one epoch; thresholds are 3 and
2 for 1000 and 100, which keeps the comparison and its boundary. Calls with the
caller's own TLEs neither read nor change satellites and are made while there are
none (`MCBatchesAlone`).

* `FieldsFollowPropagator`: after every sequence of setters, steps, additions and
  removals, and every refused load, the two copies of an orbit are one, unless the
  last setter loaded nothing;
* `ConstellationAnswersTrue`: so the answer does not depend on the backend, on a
  failure of the device, on the other satellites or on the order of the map, and a
  panic comes only on the way to the GPU, over a satellite without elements, with a
  refused setter or with a TLE that SAAL may not load again;
* `BatchAnswersTrue`: one row for each TLE, one state for each epoch, in order,
  and an error only where the device may have failed or SAAL did.

Proved (`BatchPropagatorProofs`), for all satellites, lists, thresholds and
failures: the three properties and `TypeOK`. The lemmas `Quotient` and
`IndexInArray` say that position `(i - 1) * n + t` of the flat array is state `t`
of satellite `i`.

Seen while modelling and without a run: the comment and the message at
`constellation.rs:501` and `527` mean to fall back to serial propagation when not all
satellites have TLEs, a branch that is never reached: `TLE::from` unwraps, so one
satellite without elements makes the whole call panic on the GPU backend. The init
kernel turns every mean motion
into Brouwer's (`sgp4_init.cu:35`), while `TleDataGpu` passes the mean motion as
it is, so the GPU reads MeanBrouwerGP elements as Kozai's, although the comment
at `constellation.rs:504` counts both GP types as supported; the properties
exclude that type by name (`Faithful`). After refused elements, new forces and a
step, fields and propagator differ in forces.
`TLE::propagate_batch` and `BatchPropagator` do not check for XP types, whose
lines the GPU would take for GP. Without the cuda feature no GPU is available.

### PyBodies, PyMethods and PyThreads

`PyBodies` reduces each Rust function behind a Python method to what it waits
for: guards of ephemerides (`Read`, `Peek`, `Write`, `Drop`), the lock of the
solver, parallel iterators (`Fork`, `Join`) and log records, with `Either` where
the code branches; everything else these functions do is in the modules above.
`PyMethods` is the table of methods: the objects a call borrows and how, whether
it runs without the interpreter (`py.detach`), and its body. `PyThreads` runs
them: Python threads that hold the interpreter, give it up or get it back;
borrows, where a conflict raises an error; reader-writer locks, where a waiting
writer goes before new readers; rayon workers, which take items, fork again in
an item, and steal others while they wait for their own; and log records, which
`pyo3_log` hands to Python from any thread.

The states and the grid of an ephemeris are one lock here (no guard of the second
outlives one of the first). Debug logging is on, the worst case. Ephemerides are
shared as in the code: a cache, the clones of a satellite, and the objects Python
has got from it have one handle.

Run `python` (437 682 states): two Python threads, two workers, two ephemerides
that a body may meet in any role, two objects of each class, up to two satellites
in a constellation. Reductions, all in `MCPyThreads`: methods with the same body
and the same `detached` are one, that with the borrows `CHOOSE` picks
(`MCCalled`); threads, workers, ephemerides and objects are symmetric; a step
that neither waits nor makes others wait is taken at once (`MCEager`), since it
commutes with all the others; and one of the two threads is always in a short
body (`MCOneAtLength`): plain, a log record, an addition or a solve. Two long
bodies meet only in the interpreter, the pool and guards of readers, which block
no reader. That a writer makes two readers block each other is reached with
one reader, its workers and the writer. `CHECK_DEADLOCK` is off since threads
stop after their calls.

* `HangsOnlyOnWriter`: if calls hang, one of them is `Ephemeris.add_state`,
  holding the interpreter and waiting for an ephemeris a search has open, and
  the search wants to log or to open that ephemeris again. Otherwise nothing
  waits in a circle: neither two comparisons in opposite orders, since the
  interpreter admits one writer; nor the pool, since no method that holds the
  interpreter forks, and no guard is held across a join.
* `SearchSeesOneVersion`: between the first and the last crossing of a search
  nobody adds a state, because the outer guards stay although the inner ones are
  taken anew.

The hang of the first property is real: a search over an ephemeris that logs at
debug level gives Python a chance to run another thread, whose `add_state` on that
ephemeris waits with the interpreter, which the search needs for its next record.
Seen without a run: the range is read before the guards, so it may be that of an
older version, and the search covers the older range; `get_maneuver_event` looks
its states up after the guards of the search and may combine two versions.
`Hangs` says that some call is running and no step of `Step` has its guard:
`CanGoOn`, `ThreadCanGoOn` and `WorkerCanGoOn` collect those guards, so no
`ENABLED` is needed.

Proved (`PyThreadsProofs`), for any threads, workers, ephemerides, satellites,
copies, called methods and calls: `SearchesSeeOneVersion` and
`HangsOnlyForWriter`. There is no symmetry, no `MCEager` and no `MCOneAtLength`
in the theorems: they cover what the run's reductions leave out. The argument:

1. A program is `Safe` in a mode (with or without the interpreter) if, however it
   goes on, it opens an ephemeris again only under a guard of an earlier opening,
   uses the pool, the solver's lock and `add_state` without a guard, the first
   two never with the interpreter and the last only with it, and ends without
   guards. Every body of `PyBodies` is: a lemma for each function, from lemmas on
   sequences, branches, loops and parallel items.
2. Each method of `PyMethods` has a body that suits its `detached`
   (`MethodOk`, by cases on the table).
3. `ThreadsInv` is inductive (TLC checked its parts but `Safe` and the numbers of
   `Ranked` on the instance of the run). `Frames`: what is left of each frame is safe with the
   guards it has and the ephemerides it has opened, and the versions it has seen
   of ephemerides it guards are the present ones, since a state is added only
   when nobody has a guard. `Nesting`: a frame below the top, and one that an item
   comes from, is at a join. `Interpreter`: a thread that needs the interpreter
   and has lost it is in the logger. `Ranked`: frames can be numbered so that each
   comes after those below it and after the one its item comes from.
4. A frame has seen an ephemeris twice only under a guard it still had, so both
   times the same version.
5. If nobody goes on and a thread has the interpreter, that thread waits to add a
   state to an ephemeris (the only wait with the interpreter but that of a
   reader for such a writer), and whoever has that ephemeris open wants to log
   or to open it again. If nobody has the interpreter, every running frame is at
   a join with items pending; each pending item is in a frame of a higher number,
   or in `jobs` where a free worker would take it: the frame with the highest
   number cannot exist.
## 4. What the proofs assume

The named assumptions of the modules only: that the constants are of their sets,
`None` is none of them and bounds are naturals. Beyond that, of the observations:
the ranges of confidence are in order; of an ephemeris: tolerant equality is
transitive on its epochs (no property speaks of others), and half the minimum duration is a whole number of ticks;
of a constellation: windows end after they start; of the Python threads: the pool
has a worker. TLC evaluates them in every run. Each safety theorem
goes one way: an invariant stronger than the property, proved to hold initially
and to be kept by every action, with a lemma for each action or operator that
needs one, and the property from the invariant. Where an argument is an induction
over ticks, indices or distances, it is made from a least counterexample: every
nonempty set of naturals has a least element (`WFMin` of the library, with the
order of the naturals).

The programs of `PyBodies` are nested and of any length, and what a program does
is not an induction over it either: a program is `Safe` if some set of program
states closed under execution contains it, so each lemma names such a set, and
loops and parallel items need a least counterexample at most.

Every safety invariant and action property that a passing run checks is proved.
Out of the prover's reach, and so only model-checked, is liveness under fairness:
`Terminates` and `CallsReturn`.

## 5. What is not modelled

The arithmetic of SGP4, coordinate conversions, Cholesky factorisation and
Newton iterations: floating point. Parsing of files and formatting. Element
types, enumerations and reports: records with getters. Of the Python wrappers
the conversion of values and the classes of plain data. Components marked
`not_modelled` in PROJECT.json give their reason in a note.

Hazards that no property covers yet: a satellite added under a key that is not
its id, or whose id was set later, makes `get_ca_report_vs_many` panic or compare
the altitudes of another one (constellation.rs, modelled, and nothing in the
repository says that keys must be ids); a reload whose
load fails leaves its satellite and all clones without a key in the SGP4 table, and a
construction whose load fails leaves its key in the TLE table for good (tle.rs,
both modelled: `MissingOnlyIfReloading` excuses the first, `KeysAccountedFor`
bounds the second by the failed loads); an ephemeris from an epoch to itself has
a step of zero and never ends (satellite.rs), and so does `get_batch_ephemeris`
with a step of zero; `get_ephemeris` fills the cache before the reload, so that a
reload that fails gives `None` once and the ephemeris afterwards; a minimum on the
boundary of two search steps must be found by exactly one of them
(ephemeris.rs); `get_list` groups by epoch and sensor while a collection also
demands one position, and a group that fails is dropped with its observations;
`set_thread_count` panics once the pool has started (lib.rs).
