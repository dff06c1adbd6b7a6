--------------------------- MODULE EphemerisGrid ---------------------------
(***************************************************************************)
(* The states of an Ephemeris (src/src/elements/ephemeris.rs): a vector    *)
(* that add_state keeps in the order of Epoch, and beside it a record that *)
(* says whether the epochs are evenly spaced, so that a lookup computes    *)
(* the index in place of searching it.                                     *)
(*                                                                         *)
(* An epoch is a count of ticks. The order of Epoch is tolerant: epochs    *)
(* less than Tolerance apart are equal. The same tolerance (in seconds)    *)
(* is allowed on each step of an even grid, so the error of an index that  *)
(* is computed from the step adds up along the vector.                     *)
(***************************************************************************)
EXTENDS Integers, SequencesExt

CONSTANTS
  Epochs,     (* bound: the epochs of the states and of the lookups, ticks *)
  Vectors,    (* positions and velocities                                  *)
  Tolerance,  (* ZERO_TOLERANCE, in ticks                                  *)
  MaxStates,  (* bound: the length of the vector                           *)
  None

Abs(n) == IF n < 0 THEN -n ELSE n

(* Ordering::Equal, Less and the comparisons derived from them.            *)
Same(a, b)   == Abs(a - b) < Tolerance
Before(a, b) == ~Same(a, b) /\ a < b

AtMost(a, b) == Same(a, b) \/ a < b

(* No code enforces that equality is transitive. It is when the caller's   *)
(* epochs are repetitions, up to rounding, of epochs that are well apart.  *)
ASSUME EpochAssumption ==
  /\ Epochs \subseteq Int
  /\ Tolerance \in Nat \ {0}
  /\ None \notin Int
  /\ \A a, b, c \in Epochs : Same(a, b) /\ Same(b, c) => Same(a, c)

CartesianState == [epoch : Epochs, vector : Vectors]

VARIABLES
  states, uniform_grid,
  added        (* the state that new or add_state was given last           *)

vars == <<states, uniform_grid, added>>

UniformGrid == [start_epoch : Epochs, step_seconds : {None} \cup Int,
                is_uniform : BOOLEAN]

Init ==
  \E s \in CartesianState :
    /\ states = <<s>>
    /\ uniform_grid = [start_epoch |-> s.epoch, step_seconds |-> None,
                       is_uniform |-> TRUE]
    /\ added = s

-----------------------------------------------------------------------------
(* update_uniform_grid, after a state was put at index i of vs.            *)
OnStep(a, b, step) == Abs((b.epoch - a.epoch) - step) <= Tolerance

EvenAtLeft(vs, i, step) == i > 1 => OnStep(vs[i - 1], vs[i], step)

EvenAt(vs, i, step) ==
  /\ i > 1 => OnStep(vs[i - 1], vs[i], step)
  /\ i < Len(vs) => OnStep(vs[i], vs[i + 1], step)

StepOf(grid, vs) == IF grid.step_seconds = None THEN vs[2].epoch - vs[1].epoch
                    ELSE grid.step_seconds

UpdatedGridKeepsStart(grid, vs, i) ==
  IF ~grid.is_uniform THEN grid
  ELSE IF Len(vs) = 1 THEN [grid EXCEPT !.step_seconds = None]
  ELSE IF StepOf(grid, vs) <= 0 THEN [grid EXCEPT !.is_uniform = FALSE]
  ELSE [grid EXCEPT !.step_seconds = StepOf(grid, vs),
                    !.is_uniform = EvenAt(vs, i, StepOf(grid, vs))]

UpdatedGrid(grid, vs, i) ==
  LET Moved(step, uniform) == [start_epoch  |-> vs[1].epoch,
                               step_seconds |-> step,
                               is_uniform   |-> uniform]
  IN  IF ~grid.is_uniform THEN grid
      ELSE IF Len(vs) = 1 THEN Moved(None, TRUE)
      ELSE IF StepOf(grid, vs) <= 0 THEN Moved(grid.step_seconds, FALSE)
      ELSE Moved(StepOf(grid, vs), EvenAt(vs, i, StepOf(grid, vs)))

(* insert_state: binary_search_by returns any index that compares equal,   *)
(* or the one where the state belongs.                                     *)
BelongsAt(i, epoch) ==
  /\ \A j \in 1..(i - 1) : Before(states[j].epoch, epoch)
  /\ \A j \in i..Len(states) : Before(epoch, states[j].epoch)

ReplaceStateIgnored(s, i) ==
  Same(states[i].epoch, s.epoch) /\ UNCHANGED <<states, uniform_grid>>

ReplaceState(s, i) ==
  /\ Same(states[i].epoch, s.epoch)
  /\ states' = [states EXCEPT ![i] = s]
  /\ uniform_grid' = UpdatedGrid(uniform_grid, states', i)

InsertStateLast(s, i) ==
  /\ Len(states) < MaxStates
  /\ i = Len(states) + 1
  /\ states' = Append(states, s)
  /\ uniform_grid' = UpdatedGrid(uniform_grid, states', i)

InsertStateExact(s, i) ==
  /\ Len(states) < MaxStates
  /\ \A j \in 1..(i - 1) : states[j].epoch < s.epoch
  /\ \A j \in i..Len(states) : s.epoch < states[j].epoch
  /\ states' = InsertAt(states, i, s)
  /\ uniform_grid' = UpdatedGrid(uniform_grid, states', i)

InsertState(s, i) ==
  /\ Len(states) < MaxStates
  /\ BelongsAt(i, s.epoch)
  /\ states' = InsertAt(states, i, s)
  /\ uniform_grid' = UpdatedGrid(uniform_grid, states', i)

(* Both locks are held for writing until the end.                          *)
AddState(s) ==
  /\ \/ \E i \in 1..Len(states) : ReplaceState(s, i)
     \/ \E i \in 1..(Len(states) + 1) : InsertState(s, i)
  /\ added' = s

Next == \E s \in CartesianState : AddState(s)

Spec == Init /\ [][Next]_vars

-----------------------------------------------------------------------------
(* interpolate_state_with_grid: the indices between which a lookup         *)
(* interpolates. Equal indices are the state itself.                       *)
Size == Len(states)
EpochOf(i) == states[i].epoch

Clamped(q) == Size = 1 \/ AtMost(q, EpochOf(1)) \/ AtMost(EpochOf(Size), q)

ClampedTo(q) == IF Size = 1 \/ AtMost(q, EpochOf(1)) THEN 1 ELSE Size

FoundBySearch(q) ==
  IF \E i \in 1..Size : Same(EpochOf(i), q)
  THEN LET i == CHOOSE i \in 1..Size : Same(EpochOf(i), q) IN <<i, i>>
  ELSE LET i == CHOOSE i \in 1..(Size + 1) : BelongsAt(i, q) IN <<i - 1, i>>

UsesGrid ==
  /\ uniform_grid.is_uniform
  /\ uniform_grid.step_seconds # None
  /\ uniform_grid.step_seconds > 0

(* round() takes halves away from zero; offsets here are positive.         *)
FoundByGrid(q) ==
  LET step    == uniform_grid.step_seconds
      offset  == q - uniform_grid.start_epoch
      rounded == (2 * offset + step) \div (2 * step)
      lower   == offset \div step + 1
  IN  IF Abs(offset - rounded * step) <= Tolerance /\ rounded + 1 \in 1..Size
      THEN <<rounded + 1, rounded + 1>>
      ELSE IF lower < 1 THEN <<1, 1>>
      ELSE IF lower + 1 > Size THEN <<Size, Size>>
      ELSE <<lower, lower + 1>>

Found(q) == IF Clamped(q) THEN <<ClampedTo(q), ClampedTo(q)>>
            ELSE IF UsesGrid THEN FoundByGrid(q) ELSE FoundBySearch(q)

(* hermite_interpolate returns an end of the interval at its own epoch.    *)
ReturnsState(q, s) ==
  \E i \in 1..Size :
    /\ states[i] = s
    /\ \/ Found(q) = <<i, i>>
       \/ i \in {Found(q)[1], Found(q)[2]} /\ EpochOf(i) = q

(* covers_epoch.                                                           *)
CoversEpoch(q) == AtMost(EpochOf(1), q) /\ AtMost(q, EpochOf(Size))

-----------------------------------------------------------------------------
(* The vector and the record have their types.                             *)
TypeOK ==
  /\ states \in Seq(CartesianState)
  /\ states # <<>>
  /\ uniform_grid \in UniformGrid
  /\ added \in CartesianState

(* insert_state keeps the vector strictly ordered for the tolerant order,  *)
(* which binary_search_by needs of every later insertion and lookup.       *)
Ordered ==
  \A i, j \in 1..Size : i < j => Before(EpochOf(i), EpochOf(j))

(* The errors of the steps add up to at most a tolerance per step, so that *)
(* an index computed by interpolate_state_with_grid is that far off.       *)
DriftBounded ==
  uniform_grid.is_uniform /\ Size > 1 =>
    \A i, j \in 1..Size : i < j =>
      Abs((EpochOf(j) - EpochOf(i)) - (j - i) * uniform_grid.step_seconds)
        <= (j - i) * Tolerance

(* A lookup by the grid interpolates between states whose interval is no   *)
(* further from the epoch asked for than the drift of the grid.            *)
LookupNear ==
  \A q \in EpochOf(1)..EpochOf(Size) :
    LET drift == Size * Tolerance
    IN  /\ EpochOf(Found(q)[1]) <= q + drift
        /\ q <= EpochOf(Found(q)[2]) + drift

ExactlyEven ==
  \A i \in 1..Size :
    EpochOf(i) = EpochOf(1) + (i - 1) * uniform_grid.step_seconds

(* When the steps of the vector are exact, the index computed from the     *)
(* step is the one a binary search finds. The order of Epoch takes epochs  *)
(* less than the tolerance apart for equal, the grid those at most the     *)
(* tolerance apart, so the two differ on an epoch at just that distance.   *)
GridAgreesWithSearch ==
  UsesGrid /\ ExactlyEven =>
    \A q \in Epochs :
      ~Clamped(q) /\ (\A i \in 1..Size : Abs(EpochOf(i) - q) # Tolerance) =>
        FoundByGrid(q) = FoundBySearch(q)

(* The errors of all the steps together are less than a step: with the     *)
(* tolerance of nine microseconds and steps of a minute, any vector of     *)
(* fewer than several million states.                                      *)
DriftWithinStep == UsesGrid => Size * Tolerance < uniform_grid.step_seconds

(* get_state_at_epoch at the epoch of the state just added returns it, as  *)
(* long as the drift of the grid cannot reach the next state.              *)
AddedIsFound == DriftWithinStep => ReturnsState(added.epoch, added)

(* No addition takes an epoch out of the range of the ephemeris, which     *)
(* covers_range promises the users of a cached one.                        *)
CoverageGrows ==
  [][\A q \in Epochs : CoversEpoch(q) => CoversEpoch(q)']_vars
=============================================================================
