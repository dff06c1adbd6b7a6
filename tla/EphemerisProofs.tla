--------------------------- MODULE EphemerisProofs ---------------------------
(***************************************************************************)
(* Proofs about src/src/elements/ephemeris.rs. EphemerisGrid: the vector   *)
(* of an ephemeris stays ordered, and while the flag of the grid is set,   *)
(* its steps are even and their errors add up to no more than a tolerance  *)
(* each, whatever the epochs, the tolerance and the order in which states  *)
(* are added. HorizonAccess: the accesses of a search are disjoint and     *)
(* long enough, for every elevation profile, step and duration, sampled    *)
(* well or badly.                                                          *)
(***************************************************************************)
EXTENDS EphemerisGrid, HorizonAccess, WellFoundedInduction, TLAPS

(* The epochs that a method compares are those of the assumption.          *)
LEMMA EpochIsInt == \A s \in CartesianState : s.epoch \in Epochs /\ s.epoch \in Int
  BY EpochAssumption DEF CartesianState

(* InsertAt puts an element at an index and moves the later ones by one.   *)
LEMMA InsertAtProperties ==
  ASSUME NEW S, NEW vs \in Seq(S), NEW i \in 1..(Len(vs) + 1), NEW e \in S
  PROVE  /\ InsertAt(vs, i, e) \in Seq(S)
         /\ Len(InsertAt(vs, i, e)) = Len(vs) + 1
         /\ \A j \in 1..(i - 1) : InsertAt(vs, i, e)[j] = vs[j]
         /\ InsertAt(vs, i, e)[i] = e
         /\ \A j \in (i + 1)..(Len(vs) + 1) : InsertAt(vs, i, e)[j] = vs[j - 1]
  <1> DEFINE front == SubSeq(vs, 1, i - 1)
             back  == SubSeq(vs, i, Len(vs))
  <1>1. /\ front \in Seq(S) /\ Len(front) = i - 1
        /\ \A j \in 1..(i - 1) : front[j] = vs[j]
    OBVIOUS
  <1>2. /\ back \in Seq(S) /\ Len(back) = Len(vs) - i + 1
        /\ \A j \in 1..(Len(vs) - i + 1) : back[j] = vs[i + j - 1]
    OBVIOUS
  <1>3. InsertAt(vs, i, e) = (front \o <<e>>) \o back
    BY DEF InsertAt
  <1> DEFINE left == front \o <<e>>
  <1>4. /\ left \in Seq(S) /\ Len(left) = i
        /\ \A j \in 1..(i - 1) : left[j] = vs[j]
        /\ left[i] = e
    <2> HIDE DEF front
    <2> QED  BY <1>1
  <1> HIDE DEF front, back, left
  <1>5. /\ left \o back \in Seq(S)
        /\ Len(left \o back) = Len(vs) + 1
        /\ \A j \in 1..i : (left \o back)[j] = left[j]
        /\ \A j \in (i + 1)..(Len(vs) + 1) : (left \o back)[j] = back[j - i]
    BY <1>2, <1>4
  <1>6. InsertAt(vs, i, e) = left \o back
    BY <1>3 DEF left
  <1>7. \A j \in (i + 1)..(Len(vs) + 1) : back[j - i] = vs[j - 1]
    BY <1>2
  <1> QED  BY <1>4, <1>5, <1>6, <1>7

(* The errors of two stretches of a grid add up.                           *)
Drift(a, b, n, step) == Abs((b - a) - n * step) <= n * Tolerance

LEMMA DriftAdds ==
  ASSUME NEW a \in Int, NEW b \in Int, NEW c \in Int, NEW step \in Int,
         NEW m \in Int, NEW n \in Int,
         Drift(a, b, m, step), Drift(b, c, n, step)
  PROVE  Drift(a, c, m + n, step)
  <1>1. (m + n) * step = m * step + n * step
    OBVIOUS
  <1>2. (m + n) * Tolerance = m * Tolerance + n * Tolerance
    BY EpochAssumption
  <1> DEFINE ms == m * step  ns == n * step
             mt == m * Tolerance  nt == n * Tolerance
  <1>3. ms \in Int /\ ns \in Int /\ mt \in Int /\ nt \in Int
    BY EpochAssumption
  <1>4. Abs((b - a) - ms) <= mt /\ Abs((c - b) - ns) <= nt
    BY DEF Drift
  <1> HIDE DEF ms, ns, mt, nt
  <1>5. Abs((c - a) - (ms + ns)) <= mt + nt
    BY <1>3, <1>4 DEF Abs
  <1> QED  BY <1>1, <1>2, <1>5 DEF Drift, ms, ns, mt, nt

LEMMA DriftOfStep ==
  ASSUME NEW a \in CartesianState, NEW b \in CartesianState, NEW step \in Int
  PROVE  OnStep(a, b, step) <=> Drift(a.epoch, b.epoch, 1, step)
  BY EpochIsInt, EpochAssumption DEF OnStep, Drift

-----------------------------------------------------------------------------
(* The parts of the invariant, about any vector and record.                *)
OrderedVector(vs) ==
  \A i, j \in 1..Len(vs) : i < j => Before(vs[i].epoch, vs[j].epoch)

EvenVector(vs, step) ==
  \A i, j \in 1..Len(vs) : i < j => Drift(vs[i].epoch, vs[j].epoch, j - i, step)

GridOf(grid, vs) ==
  grid.is_uniform =>
    /\ grid.start_epoch = vs[1].epoch
    /\ grid.step_seconds = None <=> Len(vs) = 1
    /\ Len(vs) > 1 => EvenVector(vs, grid.step_seconds)

IInv == TypeOK /\ OrderedVector(states) /\ GridOf(uniform_grid, states)

(* A change of one state of a vector, or an insertion, spoils no pair that *)
(* does not meet it, and any other pair goes through its neighbours.       *)
LEMMA EvenThroughNeighbours ==
  ASSUME NEW vs \in Seq(CartesianState), NEW k \in 1..Len(vs), NEW step \in Int,
         EvenAt(vs, k, step),
         \A i, j \in 1..Len(vs) : i < j /\ (j < k \/ k < i) =>
            Drift(vs[i].epoch, vs[j].epoch, j - i, step)
  PROVE  EvenVector(vs, step)
  <1>0. \A i \in 1..Len(vs) : vs[i] \in CartesianState /\ vs[i].epoch \in Int
    BY EpochIsInt
  <1>1. ASSUME NEW i \in 1..Len(vs), i < k
        PROVE  Drift(vs[i].epoch, vs[k].epoch, k - i, step)
    <2>1. Drift(vs[k - 1].epoch, vs[k].epoch, 1, step)
      BY <1>0, <1>1, DriftOfStep DEF EvenAt
    <2>2. CASE i = k - 1
      <3>1. k - i = 1
        BY <2>2
      <3> QED  BY <2>1, <2>2, <3>1
    <2>3. CASE i < k - 1
      <3>1. Drift(vs[i].epoch, vs[k - 1].epoch, (k - 1) - i, step)
        BY <2>3
      <3>2. Drift(vs[i].epoch, vs[k].epoch, ((k - 1) - i) + 1, step)
        BY <1>0, <1>1, <2>1, <3>1, DriftAdds
      <3>3. ((k - 1) - i) + 1 = k - i
        OBVIOUS
      <3> QED  BY <3>2, <3>3
    <2> QED  BY <1>1, <2>2, <2>3
  <1>2. ASSUME NEW j \in 1..Len(vs), k < j
        PROVE  Drift(vs[k].epoch, vs[j].epoch, j - k, step)
    <2>1. Drift(vs[k].epoch, vs[k + 1].epoch, 1, step)
      BY <1>0, <1>2, DriftOfStep DEF EvenAt
    <2>2. CASE j = k + 1
      <3>1. j - k = 1
        BY <2>2
      <3> QED  BY <2>1, <2>2, <3>1
    <2>3. CASE j > k + 1
      <3>1. Drift(vs[k + 1].epoch, vs[j].epoch, j - (k + 1), step)
        BY <2>3
      <3>2. Drift(vs[k].epoch, vs[j].epoch, 1 + (j - (k + 1)), step)
        BY <1>0, <1>2, <2>1, <3>1, DriftAdds
      <3>3. 1 + (j - (k + 1)) = j - k
        OBVIOUS
      <3> QED  BY <3>2, <3>3
    <2> QED  BY <1>2, <2>2, <2>3
  <1>3. ASSUME NEW i \in 1..Len(vs), NEW j \in 1..Len(vs), i < k, k < j
        PROVE  Drift(vs[i].epoch, vs[j].epoch, j - i, step)
    <2>0. /\ Drift(vs[i].epoch, vs[k].epoch, k - i, step)
          /\ Drift(vs[k].epoch, vs[j].epoch, j - k, step)
      BY <1>1, <1>2, <1>3
    <2>1. Drift(vs[i].epoch, vs[j].epoch, (k - i) + (j - k), step)
      BY <1>0, <2>0, DriftAdds
    <2>2. (k - i) + (j - k) = j - i
      OBVIOUS
    <2> QED  BY <2>1, <2>2
  <1> QED  BY <1>1, <1>2, <1>3 DEF EvenVector

(* update_uniform_grid looks at two neighbours only; that is enough when   *)
(* the pairs that do not meet the changed index were even before.          *)
LEMMA GridUpdated ==
  ASSUME NEW vs \in Seq(CartesianState), NEW k \in 1..Len(vs),
         NEW grid \in UniformGrid,
         grid.is_uniform /\ grid.step_seconds = None => Len(vs) <= 2,
         grid.is_uniform /\ grid.step_seconds # None =>
           /\ Len(vs) > 1
           /\ \A i, j \in 1..Len(vs) : i < j /\ (j < k \/ k < i) =>
                Drift(vs[i].epoch, vs[j].epoch, j - i, grid.step_seconds)
  PROVE  /\ UpdatedGrid(grid, vs, k) \in UniformGrid
         /\ GridOf(UpdatedGrid(grid, vs, k), vs)
  <1> DEFINE new == UpdatedGrid(grid, vs, k)
             step == StepOf(grid, vs)
  <1>0. /\ \A i \in 1..Len(vs) : vs[i].epoch \in Epochs /\ vs[i].epoch \in Int
        /\ Len(vs) \in Nat /\ Len(vs) >= 1
    BY EpochIsInt
  <1>1. CASE ~grid.is_uniform
    <2>1. new = grid
      BY <1>1 DEF UpdatedGrid
    <2> QED  BY <1>1, <2>1 DEF GridOf
  <1>2. CASE grid.is_uniform
    <2>1. CASE Len(vs) = 1
      <3>1. new = [start_epoch |-> vs[1].epoch, step_seconds |-> None,
                   is_uniform |-> TRUE]
        BY <1>2, <2>1, Zenon DEF UpdatedGrid
      <3>2. ~(Len(vs) > 1)
        BY <2>1
      <3> QED  BY <1>0, <2>1, <3>1, <3>2 DEF UniformGrid, GridOf
    <2>2. CASE Len(vs) # 1
      <3>0. Len(vs) > 1
        <4>1. \A n \in Nat : n >= 1 /\ n # 1 => n > 1
          OBVIOUS
        <4> QED  BY <1>0, <2>2, <4>1, Zenon
      <3>1. vs[1].epoch \in Epochs
        BY <1>0
      <3>2. step \in Int
        <4>1. vs[2].epoch - vs[1].epoch \in Int
          BY <1>0, <3>0
        <4>2. grid.step_seconds \in {None} \cup Int
          BY DEF UniformGrid
        <4> QED  BY <4>1, <4>2 DEF StepOf
      <3>3. CASE step <= 0
        <4>1. new = [start_epoch |-> vs[1].epoch, step_seconds |-> grid.step_seconds,
                     is_uniform |-> FALSE]
          BY <1>2, <2>2, <3>3, Zenon DEF UpdatedGrid
        <4> QED  BY <3>1, <4>1 DEF UniformGrid, GridOf
      <3>4. CASE ~(step <= 0)
        <4> DEFINE even == EvenAt(vs, k, step)
        <4>0. even \in BOOLEAN
          BY DEF EvenAt
        <4>1. new = [start_epoch |-> vs[1].epoch, step_seconds |-> step,
                     is_uniform |-> even]
          BY <1>2, <2>2, <3>4, Zenon DEF UpdatedGrid
        <4>2. ASSUME even
              PROVE  EvenVector(vs, step)
          <5>1. \A i, j \in 1..Len(vs) : i < j /\ (j < k \/ k < i) =>
                  Drift(vs[i].epoch, vs[j].epoch, j - i, step)
            <6>1. CASE grid.step_seconds = None
              <7>1. Len(vs) <= 2
                BY <1>2, <6>1, Zenon
              <7> QED  BY <1>0, <7>1
            <6>2. CASE grid.step_seconds # None
              <7>1. step = grid.step_seconds
                BY <6>2 DEF StepOf
              <7> QED  BY <1>2, <6>2, <7>1, Zenon
            <6> QED  BY <6>1, <6>2
          <5> QED  BY <3>2, <4>2, <5>1, EvenThroughNeighbours
        <4>3. step # None
          BY <3>2, EpochAssumption
        <4> HIDE DEF even, step, new
        <4>4. new \in UniformGrid
          BY <3>1, <3>2, <4>0, <4>1 DEF UniformGrid
        <4>5. /\ new.start_epoch = vs[1].epoch
              /\ new.step_seconds = step
              /\ new.is_uniform = even
          BY <4>1
        <4>6. GridOf(new, vs)
          BY <2>2, <4>2, <4>3, <4>5, Zenon DEF GridOf
        <4> QED  BY <4>4, <4>6 DEF new
      <3> QED  BY <3>3, <3>4
    <2> QED  BY <2>1, <2>2
  <1>3. grid.is_uniform \in BOOLEAN
    BY DEF UniformGrid
  <1> QED  BY <1>1, <1>2, <1>3

(* The transitive equality of the caller's epochs makes the order one of   *)
(* classes of equal epochs.                                                *)
LEMMA SameIsSymmetric ==
  ASSUME NEW a \in Epochs, NEW b \in Epochs, Same(a, b)
  PROVE  Same(b, a)
  BY EpochAssumption DEF Same, Abs

(* Equal epochs stand in the same place of the order, which is transitive. *)
LEMMA BeforeAndSame ==
  ASSUME NEW a \in Epochs, NEW b \in Epochs, NEW c \in Epochs
  PROVE  /\ Before(a, b) /\ Same(b, c) => Before(a, c)
         /\ Same(a, b) /\ Before(b, c) => Before(a, c)
         /\ Before(a, b) /\ Before(b, c) => Before(a, c)
  <1>1. /\ a \in Int /\ b \in Int /\ c \in Int
        /\ Same(a, b) <=> Same(b, a)
        /\ Same(b, c) <=> Same(c, b)
    BY EpochAssumption DEF Same, Abs
  <1>2. /\ Same(a, c) /\ Same(c, b) => Same(a, b)
        /\ Same(b, a) /\ Same(a, c) => Same(b, c)
    BY EpochAssumption
  <1>3. a < b /\ ~Same(a, b) /\ Same(b, c) => a < c
    BY <1>1, EpochAssumption DEF Same, Abs
  <1>4. b < c /\ ~Same(b, c) /\ Same(a, b) => a < c
    BY <1>1, EpochAssumption DEF Same, Abs
  <1>5. Before(a, b) /\ Before(b, c) => Before(a, c)
    BY <1>1, EpochAssumption DEF Before, Same, Abs
  <1> QED  BY <1>1, <1>2, <1>3, <1>4, <1>5 DEF Before

-----------------------------------------------------------------------------
(* The steps. Every state of the program before and after a step satisfies *)
(* the three parts of the invariant.                                       *)
LEMMA InitEstablishesIInv == Init => IInv
  <1> SUFFICES ASSUME NEW s \in CartesianState,
                      states = <<s>>,
                      uniform_grid = [start_epoch |-> s.epoch, step_seconds |-> None,
                                      is_uniform |-> TRUE],
                      added = s
               PROVE  IInv
    BY DEF Init
  <1>1. TypeOK
    BY EpochIsInt DEF TypeOK, UniformGrid
  <1>2. Len(states) = 1 /\ states[1] = s
    OBVIOUS
  <1>3. OrderedVector(states)
    BY <1>2 DEF OrderedVector
  <1>4. GridOf(uniform_grid, states)
    BY <1>2 DEF GridOf
  <1> QED  BY <1>1, <1>3, <1>4 DEF IInv

LEMMA ReplaceKeepsIInv ==
  ASSUME IInv, NEW s \in CartesianState, NEW k \in 1..Len(states),
         ReplaceState(s, k), added' = s
  PROVE  IInv'
  <1>1. /\ states \in Seq(CartesianState) /\ uniform_grid \in UniformGrid
        /\ states' \in Seq(CartesianState) /\ Len(states') = Len(states)
        /\ states'[k] = s
        /\ \A i \in 1..Len(states) : i # k => states'[i] = states[i]
    BY DEF IInv, TypeOK, ReplaceState
  <1>2. /\ \A i \in 1..Len(states) : states[i].epoch \in Epochs
        /\ s.epoch \in Epochs
    BY <1>1, EpochIsInt
  <1>3. OrderedVector(states')
    <2> SUFFICES ASSUME NEW i \in 1..Len(states), NEW j \in 1..Len(states), i < j
                 PROVE  Before(states'[i].epoch, states'[j].epoch)
      BY <1>1 DEF OrderedVector
    <2>1. Before(states[i].epoch, states[j].epoch)
      BY DEF IInv, OrderedVector
    <2>2. Same(states[k].epoch, s.epoch) /\ Same(s.epoch, states[k].epoch)
      BY <1>2, SameIsSymmetric DEF ReplaceState
    <2>3. CASE i = k
      BY <1>1, <1>2, <2>1, <2>2, <2>3, BeforeAndSame
    <2>4. CASE j = k
      BY <1>1, <1>2, <2>1, <2>2, <2>4, BeforeAndSame
    <2>5. CASE i # k /\ j # k
      BY <1>1, <2>1, <2>5
    <2> QED  BY <2>3, <2>4, <2>5
  <1>4. uniform_grid' = UpdatedGrid(uniform_grid, states', k)
    BY DEF ReplaceState
  <1>5. /\ uniform_grid.is_uniform /\ uniform_grid.step_seconds = None =>
             Len(states) = 1
        /\ uniform_grid.is_uniform /\ uniform_grid.step_seconds # None =>
             /\ Len(states) # 1
             /\ Len(states) > 1 => EvenVector(states, uniform_grid.step_seconds)
    BY Zenon DEF IInv, GridOf
  <1>6. Len(states) \in Nat /\ Len(states) >= 1
    BY <1>1 DEF IInv, TypeOK
  <1>7. \A n \in Nat : n >= 1 /\ n # 1 => n > 1
    OBVIOUS
  <1>8. uniform_grid.is_uniform /\ uniform_grid.step_seconds # None =>
          /\ Len(states) > 1
          /\ EvenVector(states, uniform_grid.step_seconds)
    BY <1>5, <1>6, <1>7, Zenon
  <1>9. ASSUME EvenVector(states, uniform_grid.step_seconds),
               NEW i \in 1..Len(states), NEW j \in 1..Len(states),
               i < j, j < k \/ k < i
        PROVE  Drift(states'[i].epoch, states'[j].epoch, j - i, uniform_grid.step_seconds)
    <2>1. states'[i] = states[i] /\ states'[j] = states[j]
      BY <1>1, <1>9
    <2> QED  BY <1>9, <2>1 DEF EvenVector
  <1>10. uniform_grid.is_uniform /\ uniform_grid.step_seconds = None =>
           Len(states') <= 2
    <2>1. Len(states) = 1 => Len(states') <= 2
      BY <1>1
    <2> QED  BY <1>5, <2>1, Zenon
  <1>11. uniform_grid.is_uniform /\ uniform_grid.step_seconds # None =>
           /\ Len(states') > 1
           /\ \A i, j \in 1..Len(states') : i < j /\ (j < k \/ k < i) =>
                Drift(states'[i].epoch, states'[j].epoch, j - i,
                      uniform_grid.step_seconds)
    BY <1>1, <1>8, <1>9, Zenon
  <1>12. uniform_grid' \in UniformGrid /\ GridOf(uniform_grid', states')
    BY <1>1, <1>4, <1>10, <1>11, GridUpdated
  <1>13. TypeOK'
    BY <1>1, <1>6, <1>12 DEF TypeOK
  <1> QED  BY <1>3, <1>12, <1>13 DEF IInv

(* The vector after an insertion.                                         *)
LEMMA StatesInserted ==
  ASSUME states \in Seq(CartesianState), NEW s \in CartesianState,
         NEW k \in 1..(Len(states) + 1), states' = InsertAt(states, k, s)
  PROVE  /\ states' \in Seq(CartesianState) /\ Len(states') = Len(states) + 1
         /\ states'[k] = s
         /\ \A i \in 1..(k - 1) : states'[i] = states[i]
         /\ \A i \in (k + 1)..(Len(states) + 1) : states'[i] = states[i - 1]
  <1>1. InsertAt(states, k, s) \in Seq(CartesianState)
    BY InsertAtProperties
  <1>2. /\ Len(states') = Len(states) + 1
        /\ states'[k] = s
    BY InsertAtProperties
  <1>3. /\ \A i \in 1..(k - 1) : states'[i] = states[i]
        /\ \A i \in (k + 1)..(Len(states) + 1) : states'[i] = states[i - 1]
    BY InsertAtProperties
  <1> QED  BY <1>1, <1>2, <1>3

LEMMA InsertKeepsIInv ==
  ASSUME IInv, NEW s \in CartesianState, NEW k \in 1..(Len(states) + 1),
         InsertState(s, k), added' = s
  PROVE  IInv'
  <1>1. /\ states \in Seq(CartesianState) /\ uniform_grid \in UniformGrid
        /\ states' \in Seq(CartesianState) /\ Len(states') = Len(states) + 1
        /\ states'[k] = s
        /\ \A i \in 1..(k - 1) : states'[i] = states[i]
        /\ \A i \in (k + 1)..(Len(states) + 1) : states'[i] = states[i - 1]
    <2>1. states \in Seq(CartesianState) /\ uniform_grid \in UniformGrid
      BY DEF IInv, TypeOK
    <2>2. states' = InsertAt(states, k, s)
      BY DEF InsertState
    <2> QED  BY <2>1, <2>2, StatesInserted
  <1>2. /\ \A i \in 1..Len(states) : states[i].epoch \in Epochs
        /\ s.epoch \in Epochs
        /\ Len(states) \in Nat /\ Len(states) >= 1
    BY <1>1, EpochIsInt DEF IInv, TypeOK
  <1>3. OrderedVector(states')
    <2> SUFFICES ASSUME NEW i \in 1..(Len(states) + 1), NEW j \in 1..(Len(states) + 1),
                        i < j
                 PROVE  Before(states'[i].epoch, states'[j].epoch)
      BY <1>1 DEF OrderedVector
    <2>1. CASE j < k
      BY <1>1, <2>1 DEF IInv, OrderedVector
    <2>2. CASE j = k
      BY <1>1, <2>2 DEF InsertState, BelongsAt
    <2>3. CASE i < k /\ k < j
      <3>1. i \in 1..Len(states) /\ j - 1 \in 1..Len(states)
        BY <2>3
      <3>2. states'[i] = states[i] /\ states'[j] = states[j - 1]
        BY <1>1, <2>3
      <3>3. /\ Before(states[i].epoch, s.epoch)
            /\ Before(s.epoch, states[j - 1].epoch)
        BY <2>3 DEF InsertState, BelongsAt
      <3> QED  BY <1>2, <3>1, <3>2, <3>3, BeforeAndSame
    <2>4. CASE i = k
      BY <1>1, <2>4 DEF InsertState, BelongsAt
    <2>5. CASE k < i
      <3>1. i - 1 \in 1..Len(states) /\ j - 1 \in 1..Len(states) /\ i - 1 < j - 1
        BY <2>5
      <3>2. states'[i] = states[i - 1] /\ states'[j] = states[j - 1]
        BY <1>1, <2>5
      <3> QED  BY <3>1, <3>2 DEF IInv, OrderedVector
    <2> QED  BY <2>1, <2>2, <2>3, <2>4, <2>5
  <1>4. uniform_grid' = UpdatedGrid(uniform_grid, states', k)
    BY DEF InsertState
  <1>5. /\ uniform_grid.is_uniform /\ uniform_grid.step_seconds = None =>
             Len(states) = 1
        /\ uniform_grid.is_uniform /\ uniform_grid.step_seconds # None =>
             /\ Len(states) # 1
             /\ Len(states) > 1 => EvenVector(states, uniform_grid.step_seconds)
    BY Zenon DEF IInv, GridOf
  <1>6. \A n \in Nat : n >= 1 /\ n # 1 => n > 1
    OBVIOUS
  <1>7. uniform_grid.is_uniform /\ uniform_grid.step_seconds # None =>
          /\ Len(states) > 1
          /\ EvenVector(states, uniform_grid.step_seconds)
    BY <1>2, <1>5, <1>6, Zenon
  <1>8. ASSUME EvenVector(states, uniform_grid.step_seconds),
               NEW i \in 1..Len(states'), NEW j \in 1..Len(states'),
               i < j, j < k \/ k < i
        PROVE  Drift(states'[i].epoch, states'[j].epoch, j - i, uniform_grid.step_seconds)
    <2>1. CASE j < k
      <3>1. /\ i \in 1..Len(states) /\ j \in 1..Len(states)
            /\ states'[i] = states[i] /\ states'[j] = states[j]
        BY <1>1, <1>8, <2>1
      <3> QED  BY <1>8, <3>1 DEF EvenVector
    <2>2. CASE k < i
      <3>1. /\ i - 1 \in 1..Len(states) /\ j - 1 \in 1..Len(states)
            /\ i - 1 < j - 1 /\ (j - 1) - (i - 1) = j - i
            /\ states'[i] = states[i - 1] /\ states'[j] = states[j - 1]
        BY <1>1, <1>8, <2>2
      <3>2. Drift(states[i - 1].epoch, states[j - 1].epoch, (j - 1) - (i - 1),
                  uniform_grid.step_seconds)
        BY <1>8, <3>1 DEF EvenVector
      <3> QED  BY <3>1, <3>2
    <2> QED  BY <1>8, <2>1, <2>2
  <1>9. uniform_grid.is_uniform /\ uniform_grid.step_seconds = None =>
          Len(states') <= 2
    <2>1. Len(states) = 1 => Len(states') <= 2
      BY <1>1
    <2> QED  BY <1>5, <2>1, Zenon
  <1>10. uniform_grid.is_uniform /\ uniform_grid.step_seconds # None =>
           /\ Len(states') > 1
           /\ \A i, j \in 1..Len(states') : i < j /\ (j < k \/ k < i) =>
                Drift(states'[i].epoch, states'[j].epoch, j - i,
                      uniform_grid.step_seconds)
    <2>1. Len(states) > 1 => Len(states') > 1
      BY <1>1, <1>2
    <2> QED  BY <1>7, <1>8, <2>1, Zenon
  <1>11. k \in 1..Len(states')
    BY <1>1
  <1>12. uniform_grid' \in UniformGrid /\ GridOf(uniform_grid', states')
    BY <1>1, <1>4, <1>9, <1>10, <1>11, GridUpdated
  <1>13. TypeOK'
    BY <1>1, <1>2, <1>12 DEF TypeOK
  <1> QED  BY <1>3, <1>12, <1>13 DEF IInv

(* Every addition keeps the invariant.                                     *)
LEMMA NextKeepsIInv == IInv /\ [Next]_vars => IInv'
  <1> SUFFICES ASSUME IInv, [Next]_vars
               PROVE  IInv'
    OBVIOUS
  <1>1. CASE Next
    <2>1. PICK s \in CartesianState : AddState(s)
      BY <1>1 DEF Next
    <2>2. CASE \E i \in 1..Len(states) : ReplaceState(s, i)
      BY <2>1, <2>2, ReplaceKeepsIInv DEF AddState
    <2>3. CASE \E i \in 1..(Len(states) + 1) : InsertState(s, i)
      BY <2>1, <2>3, InsertKeepsIInv DEF AddState
    <2> QED  BY <2>1, <2>2, <2>3 DEF AddState
  <1>2. CASE UNCHANGED vars
    BY <1>2 DEF IInv, TypeOK, OrderedVector, GridOf, EvenVector, vars
  <1> QED  BY <1>1, <1>2

(* The invariant of the additions holds in every state.                    *)
THEOREM InvariantCorrect == Spec => []IInv
  BY InitEstablishesIInv, NextKeepsIInv, PTL DEF Spec

-----------------------------------------------------------------------------
(* The vector and the record always have their types.                      *)
THEOREM TypeCorrect == Spec => []TypeOK
  <1>1. IInv => TypeOK
    BY DEF IInv
  <1> QED  BY InvariantCorrect, <1>1, PTL

(* insert_state keeps the vector strictly ordered, as binary_search_by     *)
(* requires, whatever is added and in whatever order.                      *)
THEOREM OrderCorrect == Spec => []Ordered
  <1>1. IInv => Ordered
    BY DEF IInv, OrderedVector, Ordered, Size, EpochOf
  <1> QED  BY InvariantCorrect, <1>1, PTL

(* The drift of an index computed by interpolate_state_with_grid is at     *)
(* most a tolerance per step of the vector.                                *)
THEOREM DriftCorrect == Spec => []DriftBounded
  <1>1. IInv => DriftBounded
    <2> SUFFICES ASSUME IInv, uniform_grid.is_uniform, Len(states) > 1
                 PROVE  EvenVector(states, uniform_grid.step_seconds)
      BY DEF DriftBounded, EvenVector, Drift, Size, EpochOf
    <2> QED  BY Zenon DEF IInv, GridOf
  <1> QED  BY InvariantCorrect, <1>1, PTL

(* An epoch at or after another is at or after all that are not later.     *)
LEMMA AtMostThrough ==
  ASSUME NEW a \in Epochs, NEW b \in Epochs, NEW c \in Epochs
  PROVE  /\ Same(a, b) /\ AtMost(b, c) => AtMost(a, c)
         /\ Before(a, b) /\ AtMost(b, c) => AtMost(a, c)
         /\ AtMost(a, b) /\ Same(b, c) => AtMost(a, c)
         /\ AtMost(a, b) /\ Before(b, c) => AtMost(a, c)
  <1>1. \A x, y \in Epochs : AtMost(x, y) <=> Same(x, y) \/ Before(x, y)
    BY DEF AtMost, Before
  <1>2. Same(a, b) /\ Same(b, c) => Same(a, c)
    BY EpochAssumption
  <1> QED  BY <1>1, <1>2, BeforeAndSame

(* No addition takes an epoch out of the range of the ephemeris.           *)
THEOREM CoverageCorrect == Spec => CoverageGrows
  <1>1. ASSUME IInv, NEW s \in CartesianState, AddState(s), NEW q \in Epochs,
               AtMost(states[1].epoch, q), AtMost(q, states[Len(states)].epoch)
        PROVE  AtMost(states'[1].epoch, q) /\ AtMost(q, states'[Len(states')].epoch)
    <2>1. /\ states \in Seq(CartesianState)
          /\ Len(states) \in Nat /\ Len(states) >= 1
          /\ \A i \in 1..Len(states) : states[i].epoch \in Epochs
          /\ s.epoch \in Epochs
      BY <1>1, EpochIsInt DEF IInv, TypeOK
    <2>2. ASSUME NEW k \in 1..Len(states), ReplaceState(s, k)
          PROVE  AtMost(states'[1].epoch, q) /\ AtMost(q, states'[Len(states')].epoch)
      <3>1. /\ Len(states') = Len(states)
            /\ states'[k] = s
            /\ \A i \in 1..Len(states) : i # k => states'[i] = states[i]
            /\ Same(states[k].epoch, s.epoch)
        BY <2>1, <2>2 DEF ReplaceState
      <3>2. Same(s.epoch, states[k].epoch)
        BY <2>1, <3>1, SameIsSymmetric
      <3>3. AtMost(states'[1].epoch, q)
        BY <1>1, <2>1, <3>1, <3>2, AtMostThrough
      <3>4. AtMost(q, states'[Len(states)].epoch)
        BY <1>1, <2>1, <3>1, <3>2, AtMostThrough
      <3> QED  BY <3>1, <3>3, <3>4
    <2>3. ASSUME NEW k \in 1..(Len(states) + 1), InsertState(s, k)
          PROVE  AtMost(states'[1].epoch, q) /\ AtMost(q, states'[Len(states')].epoch)
      <3>1. states' = InsertAt(states, k, s)
        BY <2>3 DEF InsertState
      <3>2. /\ Len(states') = Len(states) + 1
            /\ states'[k] = s
            /\ \A i \in 1..(k - 1) : states'[i] = states[i]
            /\ \A i \in (k + 1)..(Len(states) + 1) : states'[i] = states[i - 1]
        <4>1. states \in Seq(CartesianState)
          BY <2>1
        <4> QED  BY <4>1, <3>1, InsertAtProperties
      <3>3. AtMost(states'[1].epoch, q)
        <4>1. CASE k = 1
          <5>1. Before(s.epoch, states[1].epoch)
            BY <2>1, <2>3, <4>1 DEF InsertState, BelongsAt
          <5> QED  BY <1>1, <2>1, <3>2, <4>1, <5>1, AtMostThrough
        <4>2. CASE k # 1
          BY <1>1, <3>2, <4>2
        <4> QED  BY <4>1, <4>2
      <3>4. AtMost(q, states'[Len(states) + 1].epoch)
        <4>1. CASE k = Len(states) + 1
          <5>1. Before(states[Len(states)].epoch, s.epoch)
            BY <2>1, <2>3, <4>1 DEF InsertState, BelongsAt
          <5> QED  BY <1>1, <2>1, <3>2, <4>1, <5>1, AtMostThrough
        <4>2. CASE k # Len(states) + 1
          <5>1. states'[Len(states) + 1] = states[Len(states)]
            BY <2>1, <3>2, <4>2
          <5> QED  BY <1>1, <5>1
        <4> QED  BY <4>1, <4>2
      <3> QED  BY <3>2, <3>3, <3>4
    <2> QED  BY <1>1, <2>2, <2>3 DEF AddState
  <1>2. IInv /\ [Next]_vars => [\A q \in Epochs : CoversEpoch(q) => CoversEpoch(q)']_vars
    BY <1>1 DEF Next, CoversEpoch, EpochOf, Size
  <1> QED  BY InvariantCorrect, <1>2, PTL DEF Spec, CoverageGrows

-----------------------------------------------------------------------------
(* Lookups. A set of indices has a least element.                          *)
LEMMA LeastIndex ==
  ASSUME NEW T, T \subseteq Nat, T # {}
  PROVE  \E x \in T : \A y \in T : x <= y
  <1>1. \E x \in T : \A y \in T : ~ (<<y, x>> \in OpToRel(<, Nat))
    BY WFMin, NatLessThanWellFounded, Zenon
  <1>2. \A x, y \in Nat : <<y, x>> \notin OpToRel(<, Nat) => x <= y
    BY DEF OpToRel
  <1> QED  BY <1>1, <1>2

(* What a lookup may assume of the vector and of the record.               *)
LEMMA LookupFacts ==
  ASSUME IInv
  PROVE  /\ states \in Seq(CartesianState)
         /\ Size \in Nat /\ Size >= 1 /\ Size = Len(states)
         /\ \A i \in 1..Size : EpochOf(i) \in Epochs /\ EpochOf(i) \in Int
         /\ \A i, j \in 1..Size : i < j =>
              EpochOf(i) < EpochOf(j) /\ EpochOf(j) - EpochOf(i) >= Tolerance
  <1>1. /\ states \in Seq(CartesianState)
        /\ Size \in Nat /\ Size >= 1 /\ Size = Len(states)
    BY DEF IInv, TypeOK, Size
  <1>2. \A i \in 1..Size : EpochOf(i) \in Epochs /\ EpochOf(i) \in Int
    BY <1>1, EpochIsInt DEF EpochOf
  <1>3. \A i, j \in 1..Size : i < j => Before(EpochOf(i), EpochOf(j))
    BY <1>1 DEF IInv, OrderedVector, EpochOf
  <1>4. \A a, b \in Int : Before(a, b) => a < b /\ b - a >= Tolerance
    BY EpochAssumption DEF Before, Same, Abs
  <1> QED  BY <1>1, <1>2, <1>3, <1>4

(* A record in use describes the vector from its first state on.           *)
LEMMA GridFacts ==
  ASSUME IInv, UsesGrid, Size # 1
  PROVE  /\ uniform_grid.step_seconds \in Int /\ uniform_grid.step_seconds > 0
         /\ uniform_grid.start_epoch = EpochOf(1)
         /\ \A i \in 1..Size :
              Abs((EpochOf(i) - EpochOf(1)) - (i - 1) * uniform_grid.step_seconds)
                <= (i - 1) * Tolerance
  <1> DEFINE step == uniform_grid.step_seconds
  <1>1. step \in Int /\ step > 0
    BY DEF UsesGrid, IInv, TypeOK, UniformGrid
  <1>2. uniform_grid.is_uniform
    BY DEF UsesGrid
  <1>3. /\ uniform_grid.start_epoch = states[1].epoch
        /\ Len(states) > 1 => EvenVector(states, step)
    BY <1>2, Zenon DEF IInv, GridOf
  <1>4. EvenVector(states, step)
    BY <1>3, LookupFacts
  <1>5. ASSUME NEW i \in 1..Size
        PROVE  Abs((EpochOf(i) - EpochOf(1)) - (i - 1) * step) <= (i - 1) * Tolerance
    <2>1. CASE i = 1
      <3>1. (i - 1) * step = 0 /\ (i - 1) * Tolerance = 0 /\ EpochOf(i) - EpochOf(1) = 0
        BY <1>1, <2>1, LookupFacts, EpochAssumption
      <3> QED  BY <3>1 DEF Abs
    <2>2. CASE i # 1
      <3>1. 1 \in 1..Len(states) /\ i \in 1..Len(states) /\ 1 < i
        BY <2>2, LookupFacts
      <3> QED  BY <1>4, <3>1 DEF EvenVector, Drift, EpochOf
    <2> QED  BY <2>1, <2>2
  <1> QED  BY <1>1, <1>3, <1>5 DEF EpochOf

LEMMA Products ==
  ASSUME NEW t \in Nat
  PROVE  /\ \A m \in Int : m * t \in Int
         /\ \A m \in Int : (m - 1) * t = m * t - t /\ (m + 1) * t = m * t + t
         /\ \A m, n \in Int : m <= n => m * t <= n * t
         /\ \A m, n \in Int : m * t - n * t = (m - n) * t
         /\ \A m, n \in Int : t > 0 /\ m * t < n * t => m < n
  <1>1. \A m \in Int : m * t \in Int
    OBVIOUS
  <1>2. \A m \in Int : (m - 1) * t = m * t - t /\ (m + 1) * t = m * t + t
    OBVIOUS
  <1>3. \A m, n \in Int : m * t - n * t = (m - n) * t
    OBVIOUS
  <1>4. \A k \in Nat : k * t \in Nat
    OBVIOUS
  <1>5. ASSUME NEW m \in Int, NEW n \in Int, m <= n
        PROVE  m * t <= n * t
    <2>1. n - m \in Nat
      BY <1>5
    <2>2. (n - m) * t \in Nat
      BY <2>1, <1>4
    <2> QED  BY <1>1, <1>3, <2>2
  <1>6. ASSUME NEW m \in Int, NEW n \in Int, m * t < n * t
        PROVE  m < n
    BY <1>1, <1>5, <1>6
  <1> QED  BY <1>1, <1>2, <1>3, <1>5, <1>6

(* The division that computes an index.                                    *)
LEMMA Quotient ==
  ASSUME NEW a \in Int, NEW b \in Nat \ {0}
  PROVE  /\ a \div b \in Int
         /\ (a \div b) * b <= a
         /\ a < (a \div b) * b + b
  OBVIOUS

(* An epoch that lies within the vector and equals no state belongs        *)
(* somewhere between two of them, though its own equality need not be      *)
(* transitive.                                                             *)
LEMMA PlaceExists ==
  ASSUME IInv, NEW q \in Int, EpochOf(1) < q, q < EpochOf(Size),
         ~ \E i \in 1..Size : Same(EpochOf(i), q)
  PROVE  \E i \in 2..Size : BelongsAt(i, q)
  <1> DEFINE T == {i \in 1..Size : q < EpochOf(i)}
  <1>0. /\ Size \in Nat /\ Size >= 1 /\ Size = Len(states)
        /\ \A i \in 1..Size : EpochOf(i) \in Int
        /\ \A i, j \in 1..Size : i < j => EpochOf(i) < EpochOf(j)
    BY LookupFacts
  <1>1. PICK k \in T : \A j \in T : k <= j
    <2>1. T \subseteq Nat
      OBVIOUS
    <2>2. Size \in T
      BY <1>0
    <2> HIDE DEF T
    <2> QED  BY <2>1, <2>2, LeastIndex
  <1>2. k \in 1..Size /\ q < EpochOf(k) /\ k # 1
    BY <1>0, <1>1
  <1>3. \A i \in 1..Size : EpochOf(i) # q
    BY <1>0, EpochAssumption DEF Same, Abs
  <1>4. ASSUME NEW j \in 1..(k - 1)
        PROVE  EpochOf(j) < q
    BY <1>0, <1>1, <1>2, <1>3
  <1>5. ASSUME NEW j \in k..Size
        PROVE  q < EpochOf(j)
    <2>1. j \in 1..Size /\ (j = k \/ k < j)
      BY <1>2
    <2> QED  BY <1>0, <1>2, <2>1
  <1>6. \A j \in 1..Size : ~Same(EpochOf(j), q) /\ ~Same(q, EpochOf(j))
    BY <1>0 DEF Same, Abs
  <1>7. \A j \in 1..(k - 1) : Before(states[j].epoch, q)
    <2>1. \A j \in 1..(k - 1) : j \in 1..Size
      BY <1>0, <1>2
    <2>2. \A j \in 1..(k - 1) : Before(EpochOf(j), q)
      BY <1>4, <1>6, <2>1 DEF Before
    <2> QED  BY <2>2 DEF EpochOf
  <1>8. \A j \in k..Len(states) : Before(q, states[j].epoch)
    <2>1. \A j \in k..Size : j \in 1..Size
      BY <1>0, <1>2
    <2>2. \A j \in k..Size : Before(q, EpochOf(j))
      BY <1>5, <1>6, <2>1 DEF Before
    <2> QED  BY <1>0, <2>2 DEF EpochOf
  <1>9. BelongsAt(k, q)
    BY <1>7, <1>8 DEF BelongsAt
  <1> QED  BY <1>2, <1>9

(* What a search returns: a state equal to the epoch asked for, or the two *)
(* states around it.                                                       *)
LEMMA SearchFinds ==
  ASSUME IInv, NEW q \in Int, EpochOf(1) < q, q < EpochOf(Size)
  PROVE  \/ \E i \in 1..Size : FoundBySearch(q) = <<i, i>> /\ Same(EpochOf(i), q)
         \/ /\ ~ \E i \in 1..Size : Same(EpochOf(i), q)
            /\ \E i \in 2..Size : FoundBySearch(q) = <<i - 1, i>> /\ BelongsAt(i, q)
  <1>0. Size \in Nat /\ Size >= 1 /\ Size = Len(states)
    BY LookupFacts
  <1>1. CASE \E i \in 1..Size : Same(EpochOf(i), q)
    <2> DEFINE k == CHOOSE i \in 1..Size : Same(EpochOf(i), q)
    <2>1. k \in 1..Size /\ Same(EpochOf(k), q)
      BY <1>1, Zenon
    <2>2. FoundBySearch(q) = <<k, k>>
      BY <1>1, Zenon DEF FoundBySearch
    <2> QED  BY <2>1, <2>2, Zenon
  <1>2. CASE ~ \E i \in 1..Size : Same(EpochOf(i), q)
    <2> DEFINE k == CHOOSE i \in 1..(Size + 1) : BelongsAt(i, q)
    <2>1. \E i \in 1..(Size + 1) : BelongsAt(i, q)
      <3>1. PICK i \in 2..Size : BelongsAt(i, q)
        BY <1>2, PlaceExists
      <3>2. i \in 1..(Size + 1)
        BY <1>0
      <3> QED  BY <3>1, <3>2, Zenon
    <2>2. k \in 1..(Size + 1) /\ BelongsAt(k, q)
      BY <2>1, Zenon
    <2>3. FoundBySearch(q) = <<k - 1, k>>
      BY <1>2, Zenon DEF FoundBySearch
    <2> HIDE DEF k
    <2>4. k # 1
      <3>1. ASSUME k = 1
            PROVE  Before(q, states[1].epoch)
        BY <1>0, <2>2, <3>1 DEF BelongsAt
      <3>2. EpochOf(1) \in Int
        BY <1>0, LookupFacts
      <3> QED  BY <3>1, <3>2 DEF Before, EpochOf
    <2>5. k # Size + 1
      <3>1. ASSUME k = Size + 1
            PROVE  Before(states[Size].epoch, q)
        BY <1>0, <2>2, <3>1 DEF BelongsAt
      <3>2. EpochOf(Size) \in Int
        BY <1>0, LookupFacts
      <3> QED  BY <3>1, <3>2 DEF Before, EpochOf
    <2>6. k \in 2..Size
      BY <1>0, <2>2, <2>4, <2>5
    <2> QED  BY <1>2, <2>2, <2>3, <2>6, Zenon
  <1> QED  BY <1>1, <1>2

(* An epoch that is not clamped lies strictly within the vector.           *)
LEMMA WithinVector ==
  ASSUME IInv, NEW q \in Int, ~Clamped(q)
  PROVE  Size > 1 /\ EpochOf(1) < q /\ q < EpochOf(Size)
  <1>1. Size \in Nat /\ Size >= 1 /\ EpochOf(1) \in Int /\ EpochOf(Size) \in Int
    BY LookupFacts
  <1> QED  BY <1>1, EpochAssumption DEF Clamped, AtMost, Same, Abs

(* The index before an epoch within the vector lies within it as well.     *)
LEMMA GridFinds ==
  ASSUME IInv, UsesGrid, NEW q \in Int, ~Clamped(q)
  PROVE  \E rounded \in Int, lower \in Nat \ {0} :
           LET step   == uniform_grid.step_seconds
               offset == q - EpochOf(1)
               hit    == Abs(offset - rounded * step) <= Tolerance
                           /\ rounded + 1 \in 1..Size
           IN  /\ 2 * rounded * step <= 2 * offset + step
               /\ 2 * offset < 2 * rounded * step + step
               /\ (lower - 1) * step <= offset
               /\ offset < lower * step
               /\ hit => FoundByGrid(q) = <<rounded + 1, rounded + 1>>
               /\ ~hit /\ lower + 1 > Size => FoundByGrid(q) = <<Size, Size>>
               /\ ~hit /\ ~(lower + 1 > Size) => FoundByGrid(q) = <<lower, lower + 1>>
  <1> DEFINE step == uniform_grid.step_seconds
             offset == q - EpochOf(1)
             rounded == (2 * offset + step) \div (2 * step)
             lower == offset \div step + 1
             hit == Abs(offset - rounded * step) <= Tolerance
                      /\ rounded + 1 \in 1..Size
  <1>0. Size > 1 /\ EpochOf(1) < q
    BY WithinVector
  <1>1. /\ step \in Int /\ step > 0 /\ uniform_grid.start_epoch = EpochOf(1)
        /\ EpochOf(1) \in Int /\ Size \in Nat
    BY <1>0, GridFacts, LookupFacts
  <1>2. offset \in Int /\ offset > 0
    BY <1>0, <1>1
  <1>3. FoundByGrid(q) =
          IF hit THEN <<rounded + 1, rounded + 1>>
          ELSE IF lower < 1 THEN <<1, 1>>
          ELSE IF lower + 1 > Size THEN <<Size, Size>>
          ELSE <<lower, lower + 1>>
    BY <1>1, Zenon DEF FoundByGrid
  <1> HIDE DEF offset, step
  <1>4. /\ rounded \in Int
        /\ rounded * (2 * step) <= 2 * offset + step
        /\ 2 * offset + step < rounded * (2 * step) + 2 * step
    <2>1. 2 * offset + step \in Int /\ 2 * step \in Nat \ {0}
      BY <1>1, <1>2
    <2> QED  BY <2>1, Quotient
  <1>5. /\ lower \in Int
        /\ (lower - 1) * step <= offset
        /\ offset < (lower - 1) * step + step
    <2> DEFINE quotient == offset \div step
    <2>1. /\ quotient \in Int /\ quotient * step <= offset
          /\ offset < quotient * step + step
      BY <1>1, <1>2, Quotient
    <2>2. lower = quotient + 1
      OBVIOUS
    <2> HIDE DEF quotient, lower
    <2>3. lower - 1 = quotient
      BY <2>1, <2>2
    <2> QED  BY <2>1, <2>2, <2>3
  <1>6. hit \in BOOLEAN
    OBVIOUS
  <1> HIDE DEF rounded, lower
  <1>7. lower * step = (lower - 1) * step + step /\ lower > 0
    <2>1. \A m \in Int : (m - 1) * step = m * step - step /\ m * step \in Int
      BY <1>1, Products
    <2>2. lower * step = (lower - 1) * step + step
      BY <1>1, <1>5, <2>1
    <2>3. 0 * step < lower * step
      BY <1>1, <1>2, <1>5, <2>1, <2>2
    <2> QED  BY <1>1, <1>5, <2>2, <2>3, Products
  <1>8. rounded * (2 * step) = 2 * rounded * step /\ 2 * rounded * step \in Int
    BY <1>1, <1>4
  <1>9. /\ 2 * rounded * step <= 2 * offset + step
        /\ 2 * offset < 2 * rounded * step + step
    BY <1>1, <1>2, <1>4, <1>8
  <1>10. lower \in Nat \ {0} /\ ~(lower < 1)
    BY <1>5, <1>7
  <1>11. /\ hit => FoundByGrid(q) = <<rounded + 1, rounded + 1>>
         /\ ~hit /\ lower + 1 > Size => FoundByGrid(q) = <<Size, Size>>
         /\ ~hit /\ ~(lower + 1 > Size) => FoundByGrid(q) = <<lower, lower + 1>>
    <2> HIDE DEF hit
    <2> QED  BY <1>3, <1>10, Zenon
  <1>12. (lower - 1) * step <= offset /\ offset < lower * step
    BY <1>5, <1>7
  <1> QED  BY <1>4, <1>9, <1>10, <1>11, <1>12, Zenon DEF step, offset

(* The states at the indices that a lookup by the grid computes are as far *)
(* from the epoch asked for as their errors add up to.                     *)
LEMMA NearOnGrid ==
  ASSUME IInv, UsesGrid, NEW q \in Int, ~Clamped(q)
  PROVE  /\ EpochOf(FoundByGrid(q)[1]) <= q + Size * Tolerance
         /\ q <= EpochOf(FoundByGrid(q)[2]) + Size * Tolerance
  <1> DEFINE step == uniform_grid.step_seconds
             offset == q - EpochOf(1)
  <1>0. /\ Size \in Nat /\ Size > 1 /\ EpochOf(1) < q /\ q < EpochOf(Size)
        /\ \A i \in 1..Size : EpochOf(i) \in Int
    BY WithinVector, LookupFacts
  <1>1. /\ step \in Int /\ step > 0
        /\ \A i \in 1..Size :
             Abs((EpochOf(i) - EpochOf(1)) - (i - 1) * step) <= (i - 1) * Tolerance
    BY <1>0, GridFacts
  <1>2. PICK rounded \in Int, lower \in Nat \ {0} :
          /\ (lower - 1) * step <= offset
          /\ offset < lower * step
          /\ \/ /\ Abs(offset - rounded * step) <= Tolerance
                /\ rounded + 1 \in 1..Size
                /\ FoundByGrid(q) = <<rounded + 1, rounded + 1>>
             \/ lower + 1 > Size /\ FoundByGrid(q) = <<Size, Size>>
             \/ ~(lower + 1 > Size) /\ FoundByGrid(q) = <<lower, lower + 1>>
    <2>1. PICK rounded \in Int, lower \in Nat \ {0} :
            LET hit == Abs(offset - rounded * step) <= Tolerance
                         /\ rounded + 1 \in 1..Size
            IN  /\ (lower - 1) * step <= offset
                /\ offset < lower * step
                /\ hit => FoundByGrid(q) = <<rounded + 1, rounded + 1>>
                /\ ~hit /\ lower + 1 > Size => FoundByGrid(q) = <<Size, Size>>
                /\ ~hit /\ ~(lower + 1 > Size) => FoundByGrid(q) = <<lower, lower + 1>>
      BY GridFinds, Zenon
    <2> QED  BY <2>1, Zenon
  <1>3. offset \in Int /\ EpochOf(1) \in Int /\ q = EpochOf(1) + offset
    BY <1>0
  <1>4. \A m \in Int : m * step \in Int /\ m * Tolerance \in Int
    BY <1>1, EpochAssumption
  <1>5. ASSUME NEW i \in 1..Size
        PROVE  /\ i * Tolerance = (i - 1) * Tolerance + Tolerance
               /\ i * Tolerance <= Size * Tolerance
               /\ Tolerance <= Size * Tolerance
    <2>1. i \in Int /\ 1 \in Int /\ i <= Size /\ 1 <= Size /\ 1 * Tolerance = Tolerance
      BY <1>0, EpochAssumption
    <2>2. (i - 1) * Tolerance = i * Tolerance - Tolerance
      BY <2>1, Products, EpochAssumption
    <2>3. i * Tolerance <= Size * Tolerance /\ 1 * Tolerance <= Size * Tolerance
      BY <1>0, <2>1, Products, EpochAssumption
    <2> QED  BY <1>4, <2>1, <2>2, <2>3, EpochAssumption
  <1> HIDE DEF offset, step
  <1>6. ASSUME NEW i \in 1..Size
        PROVE  /\ EpochOf(i) - EpochOf(1) <= (i - 1) * step + (i - 1) * Tolerance
               /\ (i - 1) * step <= (EpochOf(i) - EpochOf(1)) + (i - 1) * Tolerance
    BY <1>0, <1>1, <1>3, <1>4 DEF Abs
  <1>7. CASE /\ Abs(offset - rounded * step) <= Tolerance
             /\ rounded + 1 \in 1..Size
             /\ FoundByGrid(q) = <<rounded + 1, rounded + 1>>
    <2> DEFINE i == rounded + 1
    <2>1. i \in 1..Size /\ rounded = i - 1
      BY <1>7
    <2>2. /\ offset <= rounded * step + Tolerance
          /\ rounded * step <= offset + Tolerance
      BY <1>3, <1>4, <1>7, EpochAssumption DEF Abs
    <2>3. EpochOf(i) <= q + Size * Tolerance /\ q <= EpochOf(i) + Size * Tolerance
      <3> HIDE DEF i
      <3>1. /\ EpochOf(i) - EpochOf(1) <= rounded * step + rounded * Tolerance
            /\ rounded * step <= (EpochOf(i) - EpochOf(1)) + rounded * Tolerance
        BY <1>6, <2>1
      <3>2. rounded * Tolerance + Tolerance <= Size * Tolerance
        <4>1. i * Tolerance = rounded * Tolerance + Tolerance
          BY <1>5, <2>1
        <4> QED  BY <1>5, <2>1, <4>1
      <3>3. EpochOf(i) \in Int
        BY <1>0, <2>1
      <3> DEFINE st == rounded * step  rt == rounded * Tolerance  nt == Size * Tolerance
      <3>4. st \in Int /\ rt \in Int /\ nt \in Int
        BY <1>0, <1>4
      <3> HIDE DEF st, rt, nt
      <3>5. EpochOf(i) <= q + nt /\ q <= EpochOf(i) + nt
        <4>1. /\ EpochOf(i) - EpochOf(1) <= st + rt
              /\ st <= (EpochOf(i) - EpochOf(1)) + rt
              /\ rt + Tolerance <= nt
              /\ offset <= st + Tolerance
              /\ st <= offset + Tolerance
          BY <2>2, <3>1, <3>2 DEF st, rt, nt
        <4> QED  BY <1>3, <3>3, <3>4, <4>1, EpochAssumption
      <3> QED  BY <3>5 DEF nt
    <2> QED  BY <1>7, <2>3
  <1>8. CASE lower + 1 > Size /\ FoundByGrid(q) = <<Size, Size>>
    <2>1. Size - 1 <= lower - 1
      BY <1>0, <1>8
    <2>2. (Size - 1) * step <= (lower - 1) * step
      BY <1>0, <1>1, <2>1, Products
    <2>3. EpochOf(Size) <= q + Size * Tolerance
      BY <1>0, <1>2, <1>3, <1>4, <1>5, <1>6, <2>2, EpochAssumption
    <2>4. q <= EpochOf(Size) + Size * Tolerance
      BY <1>0, <1>4, <1>5, EpochAssumption
    <2> QED  BY <1>8, <2>3, <2>4
  <1>9. CASE ~(lower + 1 > Size) /\ FoundByGrid(q) = <<lower, lower + 1>>
    <2>1. lower \in 1..Size /\ lower + 1 \in 1..Size /\ (lower + 1) - 1 = lower
      BY <1>0, <1>9
    <2>2. EpochOf(lower) <= q + Size * Tolerance
      <3>1. EpochOf(lower) - EpochOf(1) <= (lower - 1) * step + (lower - 1) * Tolerance
        BY <1>6, <2>1
      <3>2. (lower - 1) * Tolerance <= Size * Tolerance
        <4>1. lower - 1 \in Int /\ lower - 1 <= Size
          BY <1>0, <2>1
        <4> QED  BY <1>0, <4>1, Products, EpochAssumption
      <3>3. EpochOf(lower) \in Int
        BY <1>0, <2>1
      <3> DEFINE st == (lower - 1) * step  rt == (lower - 1) * Tolerance
                 nt == Size * Tolerance
      <3>4. st \in Int /\ rt \in Int /\ nt \in Int
        BY <1>0, <1>4
      <3>5. EpochOf(lower) - EpochOf(1) <= st + rt /\ rt <= nt /\ st <= offset
        BY <1>2, <3>1, <3>2
      <3> HIDE DEF st, rt, nt
      <3>6. EpochOf(lower) <= q + nt
        BY <1>3, <3>3, <3>4, <3>5
      <3> QED  BY <3>6 DEF nt
    <2>3. lower * step <= (EpochOf(lower + 1) - EpochOf(1)) + lower * Tolerance
      BY <1>6, <2>1
    <2>4. q <= EpochOf(lower + 1) + Size * Tolerance
      BY <1>0, <1>2, <1>3, <1>4, <1>5, <2>1, <2>3, EpochAssumption
    <2> QED  BY <1>9, <2>2, <2>4
  <1> QED  BY <1>2, <1>7, <1>8, <1>9

(* A lookup interpolates between states whose interval is no further from  *)
(* the epoch asked for than the errors of the grid add up to.              *)
THEOREM LookupCorrect == Spec => []LookupNear
  <1>1. ASSUME IInv, NEW q \in EpochOf(1)..EpochOf(Size)
        PROVE  /\ EpochOf(Found(q)[1]) <= q + Size * Tolerance
               /\ q <= EpochOf(Found(q)[2]) + Size * Tolerance
    <2>0. /\ Size \in Nat /\ Size >= 1 /\ Size = Len(states)
          /\ \A i \in 1..Size : EpochOf(i) \in Int
      BY <1>1, LookupFacts
    <2>1. /\ EpochOf(1) \in Int /\ EpochOf(Size) \in Int
          /\ q \in Int /\ EpochOf(1) <= q /\ q <= EpochOf(Size)
      BY <2>0
    <2>2. Size * Tolerance \in Int /\ Tolerance <= Size * Tolerance
      <3>1. 1 * Tolerance <= Size * Tolerance /\ 1 * Tolerance = Tolerance
        BY <2>0, Products, EpochAssumption
      <3> QED  BY <2>0, <3>1, EpochAssumption
    <2>3. CASE Clamped(q)
      <3>1. Found(q) = <<ClampedTo(q), ClampedTo(q)>>
        BY <2>3 DEF Found
      <3>2. CASE Size = 1 \/ AtMost(q, EpochOf(1))
        <4>1. ClampedTo(q) = 1
          BY <3>2 DEF ClampedTo
        <4>2. q <= EpochOf(1) + Tolerance
          BY <2>1, <3>2, EpochAssumption DEF AtMost, Same, Abs
        <4> QED  BY <2>1, <2>2, <3>1, <4>1, <4>2, EpochAssumption
      <3>3. CASE ~(Size = 1 \/ AtMost(q, EpochOf(1)))
        <4>1. ClampedTo(q) = Size /\ AtMost(EpochOf(Size), q)
          BY <2>3, <3>3 DEF ClampedTo, Clamped
        <4>2. EpochOf(Size) <= q + Tolerance
          BY <2>1, <4>1, EpochAssumption DEF AtMost, Same, Abs
        <4> QED  BY <2>1, <2>2, <3>1, <4>1, <4>2, EpochAssumption
      <3> QED  BY <3>2, <3>3
    <2>4. CASE ~Clamped(q) /\ UsesGrid
      <3>1. Found(q) = FoundByGrid(q)
        BY <2>4 DEF Found
      <3> QED  BY <1>1, <2>1, <2>4, <3>1, NearOnGrid
    <2>5. CASE ~Clamped(q) /\ ~UsesGrid
      <3>1. Found(q) = FoundBySearch(q)
        BY <2>5 DEF Found
      <3>2. EpochOf(1) < q /\ q < EpochOf(Size)
        BY <1>1, <2>1, <2>5, WithinVector
      <3>3. CASE \E i \in 1..Size : FoundBySearch(q) = <<i, i>> /\ Same(EpochOf(i), q)
        <4>1. PICK i \in 1..Size : FoundBySearch(q) = <<i, i>> /\ Same(EpochOf(i), q)
          BY <3>3
        <4>2. EpochOf(i) <= q + Tolerance /\ q <= EpochOf(i) + Tolerance
          BY <2>0, <2>1, <4>1, EpochAssumption DEF Same, Abs
        <4> QED  BY <2>0, <2>1, <2>2, <3>1, <4>1, <4>2, EpochAssumption
      <3>4. CASE \E i \in 2..Size : FoundBySearch(q) = <<i - 1, i>> /\ BelongsAt(i, q)
        <4>1. PICK i \in 2..Size : FoundBySearch(q) = <<i - 1, i>> /\ BelongsAt(i, q)
          BY <3>4
        <4>2. EpochOf(i - 1) < q /\ q < EpochOf(i)
          BY <2>0, <4>1 DEF BelongsAt, Before, EpochOf
        <4>3. EpochOf(i - 1) \in Int /\ EpochOf(i) \in Int
          BY <2>0, <4>1
        <4>4. Found(q)[1] = i - 1 /\ Found(q)[2] = i
          BY <3>1, <4>1
        <4> QED  BY <2>1, <2>2, <4>2, <4>3, <4>4, EpochAssumption
      <3> QED  BY <1>1, <2>1, <3>2, <3>3, <3>4, SearchFinds
    <2> QED  BY <2>3, <2>4, <2>5
  <1>2. IInv => LookupNear
    BY <1>1 DEF LookupNear
  <1> QED  BY InvariantCorrect, <1>2, PTL

-----------------------------------------------------------------------------
(* A record in use steps over at least the tolerance when the vector has   *)
(* more than one state and its steps are exact.                            *)
LEMMA GridAgrees ==
  ASSUME IInv, UsesGrid, ExactlyEven, NEW q \in Epochs, ~Clamped(q),
         \A i \in 1..Size : Abs(EpochOf(i) - q) # Tolerance
  PROVE  FoundByGrid(q) = FoundBySearch(q)
  <1> DEFINE step == uniform_grid.step_seconds
             offset == q - EpochOf(1)
  <1>0. /\ Size \in Nat /\ Size > 1 /\ EpochOf(1) < q /\ q < EpochOf(Size)
        /\ Size = Len(states) /\ q \in Int /\ Tolerance \in Nat
        /\ \A i \in 1..Size : EpochOf(i) \in Epochs /\ EpochOf(i) \in Int
        /\ \A i, j \in 1..Size : i < j =>
             EpochOf(i) < EpochOf(j) /\ EpochOf(j) - EpochOf(i) >= Tolerance
    BY WithinVector, LookupFacts, EpochAssumption
  <1>1. /\ step \in Int /\ step > 0
    BY <1>0, GridFacts
  <1>2. \A i \in 1..Size : EpochOf(i) = EpochOf(1) + (i - 1) * step
    BY DEF ExactlyEven
  <1>3. PICK rounded \in Int, lower \in Nat \ {0} :
          /\ 2 * rounded * step <= 2 * offset + step
          /\ 2 * offset < 2 * rounded * step + step
          /\ (lower - 1) * step <= offset
          /\ offset < lower * step
          /\ LET hit == Abs(offset - rounded * step) <= Tolerance
                          /\ rounded + 1 \in 1..Size
             IN  /\ hit => FoundByGrid(q) = <<rounded + 1, rounded + 1>>
                 /\ ~hit /\ ~(lower + 1 > Size) => FoundByGrid(q) = <<lower, lower + 1>>
    <2>1. q \in Int
      BY <1>0
    <2> QED  BY <2>1, GridFinds, Zenon
  <1>4. offset \in Int /\ EpochOf(1) \in Int /\ q = EpochOf(1) + offset
    BY <1>0
  <1>5. \A m \in Int : m * step \in Int /\ (m - 1) * step = m * step - step
                       /\ 2 * m * step = 2 * (m * step)
    BY <1>1, Products
  <1> HIDE DEF offset, step
  (* Of two states around an epoch, the nearer one is the one equal to it. *)
  <1>6. ASSUME NEW i \in 1..Size, Same(EpochOf(i), q)
        PROVE  rounded = i - 1
    <2> DEFINE gap == EpochOf(i) - q
    <2>0. gap \in Int /\ gap < Tolerance /\ -gap < Tolerance /\ gap = (i - 1) * step - offset
      <3>1. gap \in Int /\ gap < Tolerance /\ -gap < Tolerance
        BY <1>0, <1>6 DEF Same, Abs
      <3>2. gap = (EpochOf(1) + (i - 1) * step) - (EpochOf(1) + offset)
        BY <1>2, <1>4
      <3>3. (i - 1) * step \in Int
        BY <1>5
      <3> HIDE DEF gap
      <3>4. gap = (i - 1) * step - offset
        BY <1>4, <3>2, <3>3
      <3> QED  BY <3>1, <3>4
    <2>1. i > 1 => 2 * gap <= step
      <3> SUFFICES ASSUME i > 1, step < 2 * gap
                   PROVE  FALSE
        BY <1>1, <2>0 DEF gap
      <3>1. i - 1 \in 1..Size /\ EpochOf(i - 1) = EpochOf(i) - step
        <4>1. i - 1 \in 1..Size /\ i - 1 \in Int
          BY <1>0
        <4>2. /\ EpochOf(i - 1) = EpochOf(1) + ((i - 1) - 1) * step
              /\ EpochOf(i) = EpochOf(1) + (i - 1) * step
          BY <1>2, <4>1
        <4>3. ((i - 1) - 1) * step = (i - 1) * step - step /\ (i - 1) * step \in Int
          BY <1>5, <4>1
        <4> QED  BY <1>1, <1>4, <4>1, <4>2, <4>3
      <3>2. Same(q, EpochOf(i - 1))
        BY <1>0, <1>1, <2>0, <3>1 DEF Same, Abs
      <3>3. Same(EpochOf(i), EpochOf(i - 1))
        BY <1>0, <1>6, <3>1, <3>2, EpochAssumption
      <3> QED  BY <1>0, <3>1, <3>3 DEF Same, Abs
    <2>2. i < Size => -(2 * gap) < step
      <3> SUFFICES ASSUME i < Size, step <= -(2 * gap)
                   PROVE  FALSE
        BY <1>1, <2>0 DEF gap
      <3>1. i + 1 \in 1..Size /\ EpochOf(i + 1) = EpochOf(i) + step
        <4>1. i + 1 \in 1..Size /\ i \in Int /\ (i + 1) - 1 = i
          BY <1>0
        <4>2. /\ EpochOf(i + 1) = EpochOf(1) + i * step
              /\ EpochOf(i) = EpochOf(1) + (i - 1) * step
          BY <1>2, <4>1
        <4>3. (i - 1) * step = i * step - step /\ i * step \in Int
          BY <1>5, <4>1
        <4> QED  BY <1>1, <1>4, <4>1, <4>2, <4>3
      <3>2. Same(q, EpochOf(i + 1))
        <4>1. q - EpochOf(i + 1) = -gap - step
          BY <1>0, <1>1, <3>1
        <4>2. Abs(-gap - step) < Tolerance
          <5> HIDE DEF gap
          <5> QED  BY <1>0, <1>1, <2>0 DEF Abs
        <4> QED  BY <4>1, <4>2 DEF Same
      <3>3. Same(EpochOf(i), EpochOf(i + 1))
        BY <1>0, <1>6, <3>1, <3>2, EpochAssumption
      <3> QED  BY <1>0, <3>1, <3>3 DEF Same, Abs
    <2>3. i = 1 => gap < 0
      BY <1>0
    <2>4. i = Size => gap > 0
      BY <1>0
    <2>5. 2 * gap <= step /\ -(2 * gap) < step
      BY <1>0, <1>1, <2>0, <2>1, <2>2, <2>3, <2>4
    <2> HIDE DEF gap
    <2> DEFINE r == rounded * step  p == (i - 1) * step
    <2>6. r \in Int /\ p \in Int
      BY <1>5
    <2>7. /\ 2 * r <= 2 * offset + step /\ 2 * offset < 2 * r + step
          /\ gap = p - offset
      BY <1>3, <1>5, <2>0
    <2>8. r < p + step /\ p < r + step
      <3> HIDE DEF r, p
      <3> QED  BY <1>1, <1>4, <2>0, <2>5, <2>6, <2>7
    <2>9. p + step = ((i - 1) + 1) * step /\ r + step = (rounded + 1) * step
      BY <1>1, Products
    <2>10. rounded < (i - 1) + 1 /\ i - 1 < rounded + 1
      <3>1. rounded * step < ((i - 1) + 1) * step /\ (i - 1) * step < (rounded + 1) * step
        BY <2>8, <2>9
      <3>2. step \in Nat /\ (i - 1) + 1 \in Int /\ rounded + 1 \in Int /\ i - 1 \in Int
        BY <1>1
      <3> QED  BY <1>1, <3>1, <3>2, Products
    <2> QED  BY <2>10
  <1>7. CASE \E i \in 1..Size : FoundBySearch(q) = <<i, i>> /\ Same(EpochOf(i), q)
    <2>1. PICK i \in 1..Size : FoundBySearch(q) = <<i, i>> /\ Same(EpochOf(i), q)
      BY <1>7
    <2>2. rounded = i - 1 /\ rounded + 1 = i
      BY <1>6, <2>1
    <2>3. Abs(offset - rounded * step) <= Tolerance
      <3>1. EpochOf(i) = EpochOf(1) + rounded * step /\ rounded * step \in Int
        BY <1>2, <1>5, <2>2
      <3>2. Abs(EpochOf(i) - q) < Tolerance
        BY <2>1 DEF Same
      <3> QED  BY <1>0, <1>4, <3>1, <3>2 DEF Abs
    <2> QED  BY <1>3, <2>1, <2>2, <2>3
  <1>8. CASE /\ ~ \E i \in 1..Size : Same(EpochOf(i), q)
             /\ \E i \in 2..Size : FoundBySearch(q) = <<i - 1, i>> /\ BelongsAt(i, q)
    <2>1. PICK i \in 2..Size : FoundBySearch(q) = <<i - 1, i>> /\ BelongsAt(i, q)
      BY <1>8
    <2>2. ~(Abs(offset - rounded * step) <= Tolerance /\ rounded + 1 \in 1..Size)
      <3> SUFFICES ASSUME Abs(offset - rounded * step) <= Tolerance, rounded + 1 \in 1..Size
                   PROVE  FALSE
        OBVIOUS
      <3>1. (rounded + 1) - 1 = rounded
        OBVIOUS
      <3>2. EpochOf(rounded + 1) = EpochOf(1) + rounded * step
        BY <1>2, <3>1
      <3>3. ~Same(EpochOf(rounded + 1), q) /\ Abs(EpochOf(rounded + 1) - q) # Tolerance
        BY <1>8
      <3>4. rounded * step \in Int
        BY <1>5
      <3> DEFINE p == rounded * step
      <3>5. /\ p \in Int /\ EpochOf(rounded + 1) = EpochOf(1) + p
            /\ Abs(offset - p) <= Tolerance
        BY <3>2, <3>4
      <3> HIDE DEF p
      <3>6. EpochOf(rounded + 1) - q = p - offset
        BY <1>4, <3>5
      <3>7. Abs(p - offset) # Tolerance /\ ~(Abs(p - offset) < Tolerance)
        BY <3>3, <3>6 DEF Same
      <3> QED  BY <1>0, <1>4, <3>5, <3>7 DEF Abs
    <2>3. lower < Size
      <3> SUFFICES ASSUME Size - 1 <= lower - 1
                   PROVE  FALSE
        BY <1>0
      <3>1. (Size - 1) * step <= (lower - 1) * step
        <4>1. step \in Nat /\ Size - 1 \in Int /\ lower - 1 \in Int
          BY <1>0, <1>1
        <4> QED  BY <4>1, Products
      <3>2. EpochOf(Size) = EpochOf(1) + (Size - 1) * step
        BY <1>0, <1>2
      <3>3. (Size - 1) * step \in Int /\ (lower - 1) * step \in Int
        <4>1. Size - 1 \in Int /\ lower - 1 \in Int
          BY <1>0
        <4> QED  BY <1>5, <4>1
      <3>4. (Size - 1) * step <= offset
        BY <1>3, <1>4, <3>1, <3>3
      <3> QED  BY <1>0, <1>4, <3>2, <3>3, <3>4
    <2>4. lower \in 1..Size /\ lower + 1 \in 1..Size /\ (lower + 1) - 1 = lower
      BY <1>0, <2>3
    <2>5. EpochOf(lower) <= q /\ q < EpochOf(lower + 1)
      <3>1. EpochOf(lower) = EpochOf(1) + (lower - 1) * step
        BY <1>2, <2>4
      <3>2. EpochOf(lower + 1) = EpochOf(1) + lower * step
        BY <1>2, <2>4
      <3> QED  BY <1>3, <1>4, <1>5, <3>1, <3>2
    <2>6. /\ \A j \in 1..(i - 1) : EpochOf(j) < q
          /\ \A j \in i..Size : q < EpochOf(j)
      BY <1>0, <2>1 DEF BelongsAt, Before, EpochOf
    <2>7. ~(lower >= i)
      BY <1>0, <2>4, <2>5, <2>6
    <2>8. ~(lower + 1 <= i - 1)
      BY <1>0, <2>4, <2>5, <2>6
    <2>9. i = lower + 1 /\ ~(lower + 1 > Size)
      BY <1>0, <2>4, <2>7, <2>8
    <2> QED  BY <1>3, <2>1, <2>2, <2>9
  <1> QED  BY <1>0, <1>7, <1>8, SearchFinds

(* With exact steps the computed index is the one a search finds.          *)
THEOREM GridCorrect == Spec => []GridAgreesWithSearch
  <1>1. IInv => GridAgreesWithSearch
    BY GridAgrees DEF GridAgreesWithSearch
  <1> QED  BY InvariantCorrect, <1>1, PTL

-----------------------------------------------------------------------------
(* The state added last is in the vector.                                  *)
AddedKept == \E i \in 1..Size : states[i] = added

LEMMA AddedKeptByStep == IInv /\ [Next]_vars /\ AddedKept => AddedKept'
  <1> SUFFICES ASSUME IInv, [Next]_vars, AddedKept
               PROVE  AddedKept'
    OBVIOUS
  <1>0. states \in Seq(CartesianState) /\ Size = Len(states) /\ Size \in Nat
    BY LookupFacts
  <1>1. ASSUME NEW s \in CartesianState, AddState(s)
        PROVE  \E i \in 1..Len(states') : states'[i] = added'
    <2>1. added' = s
      BY <1>1 DEF AddState
    <2>2. ASSUME NEW k \in 1..Len(states), ReplaceState(s, k)
          PROVE  k \in 1..Len(states') /\ states'[k] = s
      BY <1>0, <2>2 DEF ReplaceState
    <2>3. ASSUME NEW k \in 1..(Len(states) + 1), InsertState(s, k)
          PROVE  k \in 1..Len(states') /\ states'[k] = s
      <3>1. states' = InsertAt(states, k, s)
        BY <2>3 DEF InsertState
      <3>2. Len(states') = Len(states) + 1 /\ states'[k] = s
        BY <1>0, <3>1, StatesInserted
      <3> QED  BY <3>2
    <2> QED  BY <1>1, <2>1, <2>2, <2>3 DEF AddState
  <1>2. CASE Next
    BY <1>1, <1>2 DEF Next, AddedKept, Size
  <1>3. CASE UNCHANGED vars
    BY <1>3 DEF AddedKept, Size, vars
  <1> QED  BY <1>2, <1>3

(* A lookup at the epoch of a state finds its index, alone or as an end of *)
(* the interval.                                                           *)
LEMMA StateIsFound ==
  ASSUME IInv, DriftWithinStep, NEW k \in 1..Size
  PROVE  \/ Found(EpochOf(k)) = <<k, k>>
         \/ Found(EpochOf(k)) = <<k, k + 1>>
         \/ Found(EpochOf(k)) = <<k - 1, k>>
  <1> DEFINE q == EpochOf(k)
             step == uniform_grid.step_seconds
             offset == q - EpochOf(1)
  <1>0. /\ Size \in Nat /\ Size >= 1 /\ Size = Len(states) /\ Tolerance \in Nat \ {0}
        /\ \A i \in 1..Size : EpochOf(i) \in Epochs /\ EpochOf(i) \in Int
        /\ \A i, j \in 1..Size : i < j =>
             EpochOf(i) < EpochOf(j) /\ EpochOf(j) - EpochOf(i) >= Tolerance
        /\ q \in Int
    BY LookupFacts, EpochAssumption
  <1>1. \A i \in 1..Size : Same(EpochOf(i), q) => i = k
    <2> SUFFICES ASSUME NEW i \in 1..Size, Same(EpochOf(i), q), i # k
                 PROVE  FALSE
      OBVIOUS
    <2>1. i < k \/ k < i
      BY <1>0
    <2> QED  BY <1>0, <2>1 DEF Same, Abs
  <1>2. Same(q, q)
    BY <1>0 DEF Same, Abs
  <1>3. CASE Clamped(q)
    <2>1. Found(q) = <<ClampedTo(q), ClampedTo(q)>>
      BY <1>3 DEF Found
    <2>2. CASE Size = 1 \/ AtMost(q, EpochOf(1))
      <3>1. k = 1
        BY <1>0, <2>2 DEF AtMost, Same, Abs
      <3> QED  BY <2>1, <2>2, <3>1 DEF ClampedTo
    <2>3. CASE ~(Size = 1 \/ AtMost(q, EpochOf(1)))
      <3>1. ClampedTo(q) = Size /\ AtMost(EpochOf(Size), q)
        BY <1>3, <2>3 DEF ClampedTo, Clamped
      <3>2. k = Size
        BY <1>0, <3>1 DEF AtMost, Same, Abs
      <3> QED  BY <2>1, <3>1, <3>2
    <2> QED  BY <2>2, <2>3
  <1>4. CASE ~Clamped(q) /\ ~UsesGrid
    <2>1. Found(q) = FoundBySearch(q)
      BY <1>4 DEF Found
    <2>2. \E i \in 1..Size : Same(EpochOf(i), q)
      BY <1>2
    <2>3. EpochOf(1) < q /\ q < EpochOf(Size)
      BY <1>0, <1>4, WithinVector
    <2>4. PICK i \in 1..Size : FoundBySearch(q) = <<i, i>> /\ Same(EpochOf(i), q)
      <3> HIDE DEF q
      <3> QED  BY <1>0, <2>2, <2>3, SearchFinds
    <2>5. i = k
      BY <1>1, <2>4
    <2> QED  BY <2>1, <2>4, <2>5
  <1>5. CASE ~Clamped(q) /\ UsesGrid
    <2>0. Size > 1 /\ EpochOf(1) < q /\ q < EpochOf(Size)
      BY <1>0, <1>5, WithinVector
    <2>1. k # 1 /\ k < Size
      BY <1>0, <2>0
    <2>2. /\ step \in Nat /\ step > 0
          /\ Abs(offset - (k - 1) * step) <= (k - 1) * Tolerance
      <3>1. step \in Int /\ step > 0
        BY <1>5, <2>0, GridFacts
      <3>2. Abs((EpochOf(k) - EpochOf(1)) - (k - 1) * step) <= (k - 1) * Tolerance
        BY <1>5, <2>0, GridFacts
      <3> QED  BY <3>1, <3>2
    <2>3. PICK rounded \in Int, lower \in Nat \ {0} :
            /\ (lower - 1) * step <= offset
            /\ offset < lower * step
            /\ LET hit == Abs(offset - rounded * step) <= Tolerance
                            /\ rounded + 1 \in 1..Size
               IN  /\ hit => FoundByGrid(q) = <<rounded + 1, rounded + 1>>
                   /\ ~hit /\ ~(lower + 1 > Size) => FoundByGrid(q) = <<lower, lower + 1>>
      <3> HIDE DEF q
      <3> QED  BY <1>0, <1>5, GridFinds, Zenon DEF step, offset
    <2>4. Size * Tolerance < step
      BY <1>5 DEF DriftWithinStep
    <2>5. /\ (k - 1) * Tolerance \in Nat /\ (k - 1) * Tolerance < step
          /\ (k - 1) * Tolerance + Tolerance < step
      <3>1. k - 1 \in Nat /\ k \in Int /\ k <= Size
        BY <1>0
      <3>2. (k - 1) * Tolerance = k * Tolerance - Tolerance /\ k * Tolerance <= Size * Tolerance
        <4>1. Tolerance \in Nat /\ Size \in Int
          BY <1>0
        <4> QED  BY <3>1, <4>1, Products
      <3>3. (k - 1) * Tolerance \in Nat /\ k * Tolerance \in Int /\ Size * Tolerance \in Int
        BY <1>0, <3>1
      <3> QED  BY <1>0, <2>2, <2>4, <3>2, <3>3
    <2> DEFINE drift == (k - 1) * Tolerance
               p == (k - 1) * step
               r == rounded * step
    <2>6. /\ p \in Int /\ r \in Int /\ drift \in Nat /\ offset \in Int
          /\ Abs(offset - p) <= drift /\ drift + Tolerance < step
      BY <1>0, <2>2, <2>5
    <2>7. /\ p + step = ((k - 1) + 1) * step /\ p - step = ((k - 1) - 1) * step
          /\ r + step = (rounded + 1) * step
      BY <2>2, Products
    <2>8. CASE Abs(offset - r) <= Tolerance /\ rounded + 1 \in 1..Size
      <3>1. r < p + step /\ p < r + step
        <4> HIDE DEF p, r, drift, offset, step
        <4> QED  BY <1>0, <2>2, <2>6, <2>8 DEF Abs
      <3>2. rounded < (k - 1) + 1 /\ k - 1 < rounded + 1
        <4>1. rounded * step < ((k - 1) + 1) * step /\ (k - 1) * step < (rounded + 1) * step
          BY <2>7, <3>1
        <4>2. (k - 1) + 1 \in Int /\ rounded + 1 \in Int /\ k - 1 \in Int
          BY <1>0
        <4> QED  BY <2>2, <4>1, <4>2, Products
      <3>3. rounded + 1 = k
        BY <3>2
      <3>4. FoundByGrid(q) = <<rounded + 1, rounded + 1>>
        BY <2>3, <2>8 DEF r
      <3> QED  BY <1>5, <3>3, <3>4 DEF Found
    <2>9. CASE ~(Abs(offset - r) <= Tolerance /\ rounded + 1 \in 1..Size)
      <3>1. p - step < offset /\ offset < p + step
        <4> HIDE DEF p, r, drift, offset, step
        <4> QED  BY <1>0, <2>2, <2>6 DEF Abs
      <3>2. (k - 1) - 1 < lower
        <4>1. ((k - 1) - 1) * step < lower * step
          <5>1. lower * step \in Int
            BY <2>2
          <5>2. p - step < offset /\ offset < lower * step
            BY <2>3, <3>1
          <5>3. p - step < lower * step
            <6> HIDE DEF p, offset, step
            <6> QED  BY <2>2, <2>6, <5>1, <5>2
          <5> QED  BY <2>7, <5>3
        <4>2. (k - 1) - 1 \in Int /\ lower \in Int
          BY <1>0
        <4> QED  BY <2>2, <4>1, <4>2, Products
      <3>3. lower - 1 < (k - 1) + 1
        <4>1. (lower - 1) * step < ((k - 1) + 1) * step
          <5>1. (lower - 1) * step \in Int
            BY <2>2
          <5> QED  BY <2>2, <2>3, <2>6, <2>7, <3>1, <5>1
        <4>2. (k - 1) + 1 \in Int /\ lower - 1 \in Int
          BY <1>0
        <4> QED  BY <2>2, <4>1, <4>2, Products
      <3>4. (lower = k - 1 \/ lower = k) /\ ~(lower + 1 > Size)
        BY <1>0, <2>1, <3>2, <3>3
      <3>5. FoundByGrid(q) = <<lower, lower + 1>>
        BY <2>3, <2>9, <3>4 DEF r
      <3>6. Found(q) = <<lower, lower + 1>>
        BY <1>5, <3>5 DEF Found
      <3> QED  BY <1>0, <3>4, <3>6
    <2> QED  BY <2>8, <2>9
  <1> QED  BY <1>3, <1>4, <1>5

(* The state added last is returned by a lookup at its epoch, unless the   *)
(* errors of the grid add up to a step.                                    *)
THEOREM AdditionCorrect == Spec => []AddedIsFound
  <1>1. Init => AddedKept
    BY DEF Init, AddedKept, Size
  <1>2. IInv /\ AddedKept => AddedIsFound
    <2> SUFFICES ASSUME IInv, AddedKept, DriftWithinStep
                 PROVE  ReturnsState(added.epoch, added)
      BY DEF AddedIsFound
    <2>1. PICK k \in 1..Size : states[k] = added
      BY DEF AddedKept
    <2>2. EpochOf(k) = added.epoch
      BY <2>1 DEF EpochOf
    <2>3. \/ Found(added.epoch) = <<k, k>>
          \/ k \in {Found(added.epoch)[1], Found(added.epoch)[2]}
      <3>1. k \in Int
        OBVIOUS
      <3> QED  BY <2>2, <3>1, StateIsFound
    <2> QED  BY <2>1, <2>2, <2>3 DEF ReturnsState
  <1> QED  BY InvariantCorrect, AddedKeptByStep, <1>1, <1>2, PTL DEF Spec

-----------------------------------------------------------------------------
(* HorizonAccess: the search for accesses.                                 *)

LEMMA StepIsNat == dt \in Nat
<1>1. MinDuration \div 2 \in Nat
  BY TimeAssumption
<1> QED BY <1>1, TimeAssumption DEF dt

LEMMA Bounds == EndEpoch \in Nat /\ MinDuration \in Nat /\ NoEpoch \notin Nat /\ dt \in Nat
  BY TimeAssumption, StepIsNat

(* No access reaches beyond the start of the next search, nor to an entry  *)
(* that has no exit yet; a search never samples before its start.          *)
AccessesBehind ==
  /\ \A i \in 1..Len(accesses) :
       pc # "done" => /\ accesses[i].exit <= next_epoch
                      /\ last_entry # NoEpoch => accesses[i].exit < last_entry
  /\ last_exit # NoEpoch => last_exit <= next_epoch
  /\ pc = "search" => next_epoch <= sampled
  /\ pc = "first_search" => accesses = <<>> /\ next_epoch = 0 /\ last_exit = NoEpoch

SearchInv == SearchTypeOK /\ AccessesBehind /\ AccessesDisjoint

-----------------------------------------------------------------------------
LEMMA InitHolds == SearchInit => SearchInv
<1> SUFFICES ASSUME SearchInit PROVE SearchInv
  OBVIOUS
<1> USE Bounds
<1>0. last_entry \in {0, NoEpoch} /\ last_exit = NoEpoch /\ accesses = <<>>
  BY DEF SearchInit
<1>1. SearchTypeOK
  BY <1>0 DEF SearchInit, SearchTypeOK, Ticks
<1>2. AccessesBehind /\ AccessesDisjoint
  BY <1>0 DEF SearchInit, AccessesBehind, AccessesDisjoint
<1> QED BY <1>1, <1>2 DEF SearchInv

LEMMA InList == ASSUME NEW T, NEW list \in Seq(T), NEW i \in 1..Len(list) PROVE list[i] \in T
  OBVIOUS

(* A crossing is an epoch after the last sample.                           *)
LEMMA CrossingIsLater ==
  ASSUME SearchTypeOK, NEW c \in Ticks, Crossing(c)
  PROVE  c \in Nat /\ c > sampled /\ c <= EndEpoch /\ c + dt \in 0..(EndEpoch + dt)
  BY Bounds DEF Crossing, Ticks, SearchTypeOK

LEMMA SampleKeeps == SearchInv /\ Sample => SearchInv'
<1> SUFFICES ASSUME SearchInv, Sample PROVE SearchInv'
  OBVIOUS
<1> USE Bounds
<1>1. SearchTypeOK'
  BY DEF SearchInv, SearchTypeOK, Sample, InRange, Ticks
<1>2. AccessesBehind'
  <2>1. pc = "search" => next_epoch <= sampled + dt
    BY DEF SearchInv, SearchTypeOK, AccessesBehind, Ticks
  <2> QED BY <2>1 DEF SearchInv, AccessesBehind, Sample
<1>3. AccessesDisjoint'
  BY DEF SearchInv, Sample, AccessesDisjoint
<1> QED BY <1>1, <1>2, <1>3 DEF SearchInv

LEMMA FirstKeeps == ASSUME NEW c \in Ticks PROVE SearchInv /\ First(c) => SearchInv'
<1> SUFFICES ASSUME SearchInv, First(c) PROVE SearchInv'
  OBVIOUS
<1> USE Bounds
<1>1. c \in Nat /\ c + dt \in 0..(EndEpoch + dt)
  BY CrossingIsLater DEF SearchInv, First
<1>2. pc = "first_search" /\ accesses = <<>> /\ next_epoch = 0 /\ last_exit = NoEpoch
  BY DEF SearchInv, AccessesBehind, First, FirstExit, FirstEntry
<1>3. SearchTypeOK'
  BY <1>1, <1>2 DEF SearchInv, SearchTypeOK, First, FirstExit, FirstEntry, Ticks
<1>4. AccessesBehind'
  BY <1>1, <1>2 DEF AccessesBehind, First, FirstExit, FirstEntry
<1>5. AccessesDisjoint'
  BY DEF SearchInv, First, AccessesDisjoint
<1> QED BY <1>3, <1>4, <1>5 DEF SearchInv

LEMMA LaterKeeps == ASSUME NEW c \in Ticks PROVE SearchInv /\ Later(c) => SearchInv'
<1> SUFFICES ASSUME SearchInv, Later(c) PROVE SearchInv'
  OBVIOUS
<1> USE Bounds
<1>1. c \in Nat /\ c > sampled /\ c + dt \in 0..(EndEpoch + dt)
  BY CrossingIsLater DEF SearchInv, Later
<1>2. next_epoch <= sampled /\ next_epoch \in Nat /\ sampled \in Nat
  BY DEF SearchInv, AccessesBehind, SearchTypeOK, Ticks, Later
<1>3. SearchTypeOK'
  BY <1>1 DEF SearchInv, SearchTypeOK, Later, Entry, Exit, Ticks
<1>4. AccessesBehind'
  <2>1. \A i \in 1..Len(accesses) : accesses[i].exit \in Nat /\ accesses[i].exit < c
    <3> SUFFICES ASSUME NEW i \in 1..Len(accesses)
                 PROVE  accesses[i].exit \in Nat /\ accesses[i].exit < c
      OBVIOUS
    <3>0. accesses \in Seq([entry : Ticks, exit : Ticks])
      BY DEF SearchInv, SearchTypeOK
    <3>1. accesses[i] \in [entry : Ticks, exit : Ticks]
      BY <3>0, InList
    <3>2. accesses[i].exit \in Nat
      BY <3>1 DEF Ticks
    <3>3. accesses[i].exit <= next_epoch
      BY DEF SearchInv, AccessesBehind, Later
    <3> QED BY <3>2, <3>3, <1>1, <1>2
  <2>2. \A i \in 1..Len(accesses') : /\ accesses'[i].exit <= next_epoch'
                                     /\ last_entry' # NoEpoch => accesses'[i].exit < last_entry'
    BY <1>1, <2>1 DEF SearchInv, AccessesBehind, Later, Entry, Exit
  <2>3. last_exit' # NoEpoch => last_exit' <= next_epoch'
    BY <1>1 DEF Later, Entry, Exit
  <2> QED BY <2>2, <2>3 DEF AccessesBehind, Later
<1>5. AccessesDisjoint'
  BY DEF SearchInv, Later, AccessesDisjoint
<1> QED BY <1>3, <1>4, <1>5 DEF SearchInv

LEMMA AlwaysAboveKeeps == SearchInv /\ AlwaysAbove => SearchInv'
<1> SUFFICES ASSUME SearchInv, AlwaysAbove PROVE SearchInv'
  OBVIOUS
<1> USE Bounds
<1>1. SearchTypeOK'
  BY DEF SearchInv, SearchTypeOK, AlwaysAbove, search, Ticks
<1>2. AccessesBehind'
  BY DEF SearchInv, AccessesBehind, AlwaysAbove, search
<1>3. AccessesDisjoint'
  BY DEF AlwaysAbove, AccessesDisjoint
<1> QED BY <1>1, <1>2, <1>3 DEF SearchInv

LEMMA EndKeeps == SearchInv /\ (NeverAbove \/ Break) => SearchInv'
<1> SUFFICES ASSUME SearchInv, NeverAbove \/ Break PROVE SearchInv'
  OBVIOUS
<1>1. UNCHANGED <<above, next_epoch, sampled, last_entry, last_exit, accesses>> /\ pc' = "done"
  BY DEF NeverAbove, Break, search
<1>2. SearchTypeOK' /\ AccessesBehind' /\ AccessesDisjoint'
  BY <1>1 DEF SearchInv, SearchTypeOK, AccessesBehind, AccessesDisjoint
<1> QED BY <1>2 DEF SearchInv

(* What a round of the loop saves goes behind the next search.             *)
LEMMA SaveKeeps == SearchInv /\ SaveAccess => SearchInv'
<1> SUFFICES ASSUME SearchInv, SaveAccess PROVE SearchInv'
  OBVIOUS
<1> USE Bounds
<1> DEFINE new == [entry |-> last_entry, exit |-> last_exit]
<1>1. /\ new \in [entry : Ticks, exit : Ticks]
      /\ accesses \in Seq([entry : Ticks, exit : Ticks])
      /\ accesses' = Append(accesses, new)
      /\ pc = "loop" /\ pc' = "search"
  BY DEF SearchInv, SearchTypeOK, SaveAccess, Pending, StartSearch
<1> HIDE DEF new
<1>2. /\ Len(accesses') = Len(accesses) + 1
      /\ \A i \in 1..Len(accesses) : accesses'[i] = accesses[i]
      /\ accesses'[Len(accesses) + 1] = new
      /\ Len(accesses) \in Nat
  BY <1>1
<1>3. /\ new.entry = last_entry /\ new.exit = last_exit
      /\ last_entry # NoEpoch /\ last_exit # NoEpoch
  BY DEF new, SaveAccess, Pending
<1>4. SearchTypeOK'
  BY <1>1 DEF SearchInv, SearchTypeOK, SaveAccess, StartSearch, Ticks
<1>5. AccessesBehind'
  <2>1. \A i \in 1..Len(accesses) : accesses[i].exit <= next_epoch
    BY <1>1 DEF SearchInv, AccessesBehind
  <2>2. new.exit <= next_epoch
    BY <1>3 DEF SearchInv, AccessesBehind
  <2>3. \A i \in 1..Len(accesses') : accesses'[i].exit <= next_epoch
    BY <2>1, <2>2, <1>2
  <2>4. next_epoch' = next_epoch /\ sampled' = next_epoch /\ last_entry' = NoEpoch /\ last_exit' = NoEpoch
    BY DEF SaveAccess, StartSearch
  <2>5. next_epoch <= next_epoch
    BY DEF SearchInv, SearchTypeOK
  <2> QED BY <1>1, <2>3, <2>4, <2>5 DEF AccessesBehind
<1>6. AccessesDisjoint'
  <2>1. \A i \in 1..Len(accesses) : accesses[i].exit < new.entry
    BY <1>1, <1>3 DEF SearchInv, AccessesBehind
  <2>2. ASSUME NEW i \in 1..Len(accesses'), NEW j \in 1..Len(accesses'), i < j
        PROVE  accesses'[i].exit < accesses'[j].entry
    <3>1. i \in 1..Len(accesses)
      BY <2>2, <1>2
    <3>2. CASE j \in 1..Len(accesses)
      BY <2>2, <3>1, <3>2, <1>2 DEF SearchInv, AccessesDisjoint
    <3>3. CASE j = Len(accesses) + 1
      BY <3>1, <3>3, <1>2, <2>1
    <3> QED BY <2>2, <3>2, <3>3, <1>2
  <2> QED BY <2>2 DEF AccessesDisjoint
<1> QED BY <1>4, <1>5, <1>6 DEF SearchInv

LEMMA GoOnKeeps == SearchInv /\ (SkipAccess \/ NothingPending) => SearchInv'
<1> SUFFICES ASSUME SearchInv, SkipAccess \/ NothingPending PROVE SearchInv'
  OBVIOUS
<1> USE Bounds
<1>1. /\ next_epoch \in Ticks /\ next_epoch <= next_epoch
      /\ UNCHANGED <<above, next_epoch, accesses>> /\ sampled' = next_epoch
      /\ pc = "loop" /\ pc' = "search"
      /\ last_entry' \in {last_entry, NoEpoch} /\ last_exit' \in {last_exit, NoEpoch}
  BY DEF SearchInv, SearchTypeOK, SkipAccess, NothingPending, StartSearch, Ticks
<1>2. SearchTypeOK'
  BY <1>1 DEF SearchInv, SearchTypeOK
<1>3. AccessesBehind'
  BY <1>1 DEF SearchInv, AccessesBehind
<1>4. AccessesDisjoint'
  BY <1>1 DEF SearchInv, AccessesDisjoint
<1> QED BY <1>2, <1>3, <1>4 DEF SearchInv

LEMMA NextKeeps == SearchInv /\ [SearchNext]_searchVars => SearchInv'
<1> SUFFICES ASSUME SearchInv, [SearchNext]_searchVars PROVE SearchInv'
  OBVIOUS
<1>1. CASE SearchNext
  BY <1>1, SampleKeeps, FirstKeeps, LaterKeeps, AlwaysAboveKeeps, EndKeeps, SaveKeeps, GoOnKeeps
  DEF SearchNext, Loop
<1>2. CASE UNCHANGED searchVars
  BY <1>2 DEF searchVars, search, SearchInv, SearchTypeOK, AccessesBehind, AccessesDisjoint
<1> QED BY <1>1, <1>2

LEMMA Invariant == SearchSpec => []SearchInv
<1> QED BY InitHolds, NextKeeps, PTL DEF SearchSpec

-----------------------------------------------------------------------------
(* Every epoch of the search stays within the ephemeris, but for the start *)
(* of the next search, which may lie a step behind its end.                *)
THEOREM SearchTyped == SearchSpec => []SearchTypeOK
<1>1. SearchInv => SearchTypeOK
  BY DEF SearchInv
<1> QED BY <1>1, Invariant, PTL

(* Accesses never overlap: whatever crossings the samples miss, whichever  *)
(* root a refinement ends at, and however often an entry is replaced.      *)
THEOREM AccessesApart == SearchSpec => []AccessesDisjoint
<1>1. SearchInv => AccessesDisjoint
  BY DEF SearchInv
<1> QED BY <1>1, Invariant, PTL

-----------------------------------------------------------------------------
(* What the samples say of the ticks between them. A set of ticks has a    *)
(* first one.                                                              *)
LEMMA FirstTick ==
  ASSUME NEW T, T \subseteq Nat, T # {}
  PROVE  \E x \in T : \A y \in T : x <= y
<1>1. \E x \in T : \A y \in T : ~ (<<y, x>> \in OpToRel(<, Nat))
  BY WFMin, NatLessThanWellFounded, Zenon
<1>2. \A x, y \in Nat : <<y, x>> \notin OpToRel(<, Nat) => x <= y
  BY DEF OpToRel
<1> QED BY <1>1, <1>2

LEMMA RiseBetween ==
  ASSUME NEW x \in Ticks, NEW y \in Ticks, x < y, ~above[x], above[y]
  PROVE  \E a \in (x + 1)..y : a \in Ticks /\ Rises(a)
<1> USE Bounds
<1> DEFINE T == {t \in (x + 1)..y : above[t]}
<1>0. x \in Nat /\ y \in Nat /\ y <= EndEpoch
  BY DEF Ticks
<1>1. PICK a \in T : \A t \in T : a <= t
  <2>1. T \subseteq Nat /\ y \in T
    BY <1>0
  <2> HIDE DEF T
  <2> QED BY <2>1, FirstTick
<1>2. a \in (x + 1)..y /\ above[a] /\ a \in Ticks \ {0}
  BY <1>0 DEF Ticks
<1>3. ~above[a - 1]
  BY <1>0, <1>1, <1>2
<1> QED BY <1>2, <1>3 DEF Rises

LEMMA SetBetween ==
  ASSUME NEW x \in Ticks, NEW y \in Ticks, x < y, above[x], ~above[y]
  PROVE  \E b \in (x + 1)..y : b \in Ticks /\ Sets(b)
<1> USE Bounds
<1> DEFINE T == {t \in (x + 1)..y : ~above[t]}
<1>0. x \in Nat /\ y \in Nat /\ y <= EndEpoch
  BY DEF Ticks
<1>1. PICK b \in T : \A t \in T : b <= t
  <2>1. T \subseteq Nat /\ y \in T
    BY <1>0
  <2> HIDE DEF T
  <2> QED BY <2>1, FirstTick
<1>2. b \in (x + 1)..y /\ ~above[b] /\ b \in Ticks \ {0}
  BY <1>0 DEF Ticks
<1>3. above[b - 1]
  BY <1>0, <1>1, <1>2
<1> QED BY <1>2, <1>3 DEF Sets

(* A resolved satellite stays above between two ticks above the horizon    *)
(* that are at most a step apart.                                          *)
LEMMA AboveBetween ==
  ASSUME Resolved, NEW x \in Ticks, NEW y \in Ticks, y - x <= dt, above[x], above[y],
         NEW t \in x..y
  PROVE  above[t]
<1> USE Bounds
<1> SUFFICES ASSUME ~above[t] PROVE FALSE
  OBVIOUS
<1>0. x \in Nat /\ y \in Nat /\ t \in Ticks /\ x < t /\ t < y
  BY DEF Ticks
<1>1. PICK b \in (x + 1)..t : b \in Ticks /\ Sets(b)
  BY <1>0, SetBetween
<1>2. PICK a \in (t + 1)..y : a \in Ticks /\ Rises(a)
  BY <1>0, RiseBetween
<1>3. b < a /\ a - b <= dt
  BY <1>0, <1>1, <1>2
<1> QED BY <1>0, <1>1, <1>2, <1>3 DEF Resolved

(* A search that starts above the horizon finds where it ends, and one     *)
(* that starts below finds where it begins.                                *)
LEMMA CrossingAfterSample ==
  ASSUME SearchTypeOK, Resolved, NEW c \in Ticks, Crossing(c)
  PROVE  /\ dt > 0 /\ sampled \in Ticks /\ sampled < c /\ c <= sampled + dt
         /\ above[sampled] => Sets(c) /\ \A t \in sampled..(c - 1) : above[t]
         /\ ~above[sampled] => Rises(c) /\ \A t \in sampled..(c - 1) : ~above[t]
<1> USE Bounds
<1>0. /\ sampled \in Ticks /\ sampled \in Nat /\ sampled + dt \in Ticks
      /\ c \in Nat /\ sampled < c /\ c <= sampled + dt /\ dt > 0
      /\ c - 1 \in Ticks
      /\ above[sampled + dt] # above[sampled]
      /\ Rises(c) \/ Sets(c)
  BY DEF SearchTypeOK, Crossing, Ticks, InRange
<1>1. ASSUME above[sampled]
      PROVE  Sets(c) /\ \A t \in sampled..(c - 1) : above[t]
  <2>1. ~Rises(c)
    <3> SUFFICES ASSUME Rises(c) PROVE FALSE
      OBVIOUS
    <3>1. ~above[c - 1] /\ sampled < c - 1
      BY <1>0, <1>1 DEF Rises
    <3>2. PICK b \in (sampled + 1)..(c - 1) : b \in Ticks /\ Sets(b)
      BY <1>0, <1>1, <3>1, SetBetween
    <3>3. b < c /\ c - b <= dt
      BY <1>0, <3>2
    <3> QED BY <1>0, <3>2, <3>3 DEF Resolved
  <2>2. Sets(c) /\ above[c - 1]
    BY <1>0, <2>1 DEF Sets
  <2>3. (c - 1) - sampled <= dt
    BY <1>0
  <2> QED BY <1>0, <1>1, <2>2, <2>3, AboveBetween
<1>2. ASSUME ~above[sampled]
      PROVE  Rises(c) /\ \A t \in sampled..(c - 1) : ~above[t]
  <2>1. above[sampled + dt]
    BY <1>0, <1>2 DEF SearchTypeOK
  <2>2. ~Sets(c)
    <3> SUFFICES ASSUME Sets(c) PROVE FALSE
      OBVIOUS
    <3>1. ~above[c] /\ c < sampled + dt
      BY <1>0, <2>1 DEF Sets
    <3>2. PICK a \in (c + 1)..(sampled + dt) : a \in Ticks /\ Rises(a)
      BY <1>0, <2>1, <3>1, RiseBetween
    <3>3. c < a /\ a - c <= dt
      BY <1>0, <3>2
    <3> QED BY <1>0, <3>2, <3>3 DEF Resolved
  <2>3. Rises(c) /\ ~above[c - 1]
    BY <1>0, <2>2 DEF Rises
  <2>4. ASSUME NEW t \in sampled..(c - 1), above[t] PROVE FALSE
    <3>1. t \in Ticks /\ t < c - 1
      BY <1>0, <1>2, <2>3, <2>4 DEF Ticks
    <3>2. PICK b \in (t + 1)..(c - 1) : b \in Ticks /\ Sets(b)
      BY <1>0, <2>3, <2>4, <3>1, SetBetween
    <3>3. b < c /\ c - b <= dt
      BY <1>0, <3>2
    <3> QED BY <1>0, <2>3, <3>2, <3>3 DEF Resolved
  <2> QED BY <2>3, <2>4
<1> QED BY <1>0, <1>1, <1>2

-----------------------------------------------------------------------------
(* How the variables of the search relate to the elevation. Until a first  *)
(* crossing is found, every sample is on the side of the first.            *)
FirstSamples ==
  pc = "first_search" => /\ last_entry = (IF above[0] THEN 0 ELSE NoEpoch)
                         /\ above[sampled] = above[0]

(* An entry is where a pass begins.                                        *)
EntryBegins == last_entry # NoEpoch => Rises(last_entry) \/ (last_entry = 0 /\ above[0])

(* While the exit of an entry is searched, a sample above the horizon is   *)
(* of the same pass as the entry; a sample below is behind a pass missed.  *)
OpenEntry ==
  pc \in {"first_search", "search"} /\ last_entry # NoEpoch =>
    /\ last_exit = NoEpoch
    /\ above[sampled] => /\ last_entry <= sampled
                         /\ \A t \in last_entry..sampled : above[t]

(* The next search starts a step behind the entry, the first time where    *)
(* the first search did.                                                   *)
NextOfEntry ==
  pc = "loop" /\ last_entry # NoEpoch /\ last_exit = NoEpoch =>
    next_epoch = last_entry + dt \/ (next_epoch = 0 /\ ~above[0])

PendingIsPass == pc = "loop" /\ Pending => Pass(last_entry, last_exit)

PassInv ==
  /\ FirstSamples
  /\ Resolved => EntryBegins /\ OpenEntry /\ NextOfEntry /\ PendingIsPass
  /\ AccessesArePasses

(* Where a long pass is in the course of the search: ahead of it, begun,   *)
(* complete but not yet saved, reported, or too near the end.              *)
Located(a, b) ==
  \/ Reported(a, b)
  \/ pc = "loop" /\ last_entry = a /\ last_exit = b /\ next_epoch = b + dt
  \/ pc = "loop" /\ last_entry = a /\ last_exit = NoEpoch /\ next_epoch = a + dt
     /\ next_epoch < b
  \/ pc = "loop" /\ next_epoch < a
  \/ pc \in {"first_search", "search"} /\ last_entry = a /\ last_exit = NoEpoch
     /\ a <= sampled /\ sampled < b
  \/ pc \in {"first_search", "search"} /\ sampled < a
  \/ pc = "done" /\ b + dt > EndEpoch

LongPass(a, b) == Pass(a, b) /\ b - a >= MinDuration

LongInv == Resolved => \A a, b \in Ticks : LongPass(a, b) => Located(a, b)

-----------------------------------------------------------------------------
(* The elevation does not change, so passes and crossings stay the same.   *)
LEMMA SameElevation ==
  ASSUME above' = above
  PROVE  /\ Resolved' <=> Resolved
         /\ EntryBegins' <=>
              (last_entry' # NoEpoch => Rises(last_entry') \/ (last_entry' = 0 /\ above[0]))
         /\ PendingIsPass' <=>
              (pc' = "loop" /\ last_entry' # NoEpoch /\ last_exit' # NoEpoch =>
                 Pass(last_entry', last_exit'))
         /\ AccessesArePasses' <=>
              (Resolved => \A i \in 1..Len(accesses') :
                             \/ Pass(accesses'[i].entry, accesses'[i].exit)
                             \/ accesses'[i] = [entry |-> 0, exit |-> EndEpoch])
<1>1. Resolved' <=> Resolved
  BY DEF Resolved, Rises, Sets
<1>2. EntryBegins' <=>
        (last_entry' # NoEpoch => Rises(last_entry') \/ (last_entry' = 0 /\ above[0]))
  BY DEF EntryBegins, Rises
<1>3. PendingIsPass' <=>
        (pc' = "loop" /\ last_entry' # NoEpoch /\ last_exit' # NoEpoch =>
           Pass(last_entry', last_exit'))
  BY DEF PendingIsPass, Pending, Pass, Rises, Sets
<1>4. AccessesArePasses' <=>
        (Resolved => \A i \in 1..Len(accesses') :
                       \/ Pass(accesses'[i].entry, accesses'[i].exit)
                       \/ accesses'[i] = [entry |-> 0, exit |-> EndEpoch])
  BY <1>1 DEF AccessesArePasses, Pass, Rises, Sets
<1> QED BY <1>1, <1>2, <1>3, <1>4

LEMMA PassInit == SearchInit => PassInv
<1> SUFFICES ASSUME SearchInit PROVE PassInv
  OBVIOUS
<1> USE Bounds
<1>1. /\ above \in [Ticks -> BOOLEAN] /\ 0 \in Ticks
      /\ pc = "first_search" /\ sampled = 0 /\ last_exit = NoEpoch /\ accesses = <<>>
      /\ last_entry = (IF above[0] THEN 0 ELSE NoEpoch)
  BY DEF SearchInit, Ticks
<1>2. FirstSamples
  BY <1>1 DEF FirstSamples
<1>3. EntryBegins
  BY <1>1 DEF EntryBegins
<1>4. OpenEntry
  BY <1>1 DEF OpenEntry
<1>5. NextOfEntry /\ PendingIsPass /\ AccessesArePasses
  BY <1>1 DEF NextOfEntry, PendingIsPass, AccessesArePasses
<1> QED BY <1>2, <1>3, <1>4, <1>5 DEF PassInv

LEMMA PassSample == SearchInv /\ PassInv /\ Sample => PassInv'
<1> SUFFICES ASSUME SearchInv, PassInv, Sample PROVE PassInv'
  OBVIOUS
<1> USE Bounds
<1>1. /\ UNCHANGED <<above, pc, next_epoch, last_entry, last_exit, accesses>>
      /\ sampled' = sampled + dt /\ above[sampled + dt] = above[sampled]
      /\ sampled \in Ticks /\ sampled + dt \in Ticks /\ SearchTypeOK
  BY DEF Sample, InRange, SearchInv, SearchTypeOK, Ticks
<1>2. FirstSamples'
  BY <1>1 DEF PassInv, FirstSamples
<1>3. ASSUME Resolved
      PROVE  EntryBegins' /\ OpenEntry' /\ NextOfEntry' /\ PendingIsPass'
  <2>1. EntryBegins /\ OpenEntry /\ NextOfEntry /\ PendingIsPass
    BY <1>3 DEF PassInv
  <2>2. OpenEntry'
    <3> SUFFICES ASSUME pc \in {"first_search", "search"}, last_entry # NoEpoch
                 PROVE  /\ last_exit = NoEpoch
                        /\ above[sampled + dt] =>
                             /\ last_entry <= sampled + dt
                             /\ \A t \in last_entry..(sampled + dt) : above[t]
      BY <1>1 DEF OpenEntry
    <3>1. /\ last_exit = NoEpoch
          /\ above[sampled] => /\ last_entry <= sampled
                               /\ \A t \in last_entry..sampled : above[t]
      BY <2>1 DEF OpenEntry
    <3>2. ASSUME above[sampled + dt]
          PROVE  /\ last_entry <= sampled + dt
                 /\ \A t \in last_entry..(sampled + dt) : above[t]
      <4>1. last_entry \in Nat /\ sampled \in Nat
        BY <1>1 DEF SearchTypeOK, Ticks
      <4>2. last_entry <= sampled /\ \A t \in last_entry..sampled : above[t]
        BY <1>1, <3>1, <3>2
      <4>3. \A t \in sampled..(sampled + dt) : above[t]
        <5>1. (sampled + dt) - sampled <= dt
          BY <4>1
        <5> QED BY <1>1, <1>3, <3>2, <5>1, AboveBetween
      <4> QED BY <4>1, <4>2, <4>3
    <3> QED BY <3>1, <3>2
  <2>3. EntryBegins'
    BY <1>1, <2>1 DEF EntryBegins, Rises
  <2>4. NextOfEntry'
    BY <1>1, <2>1 DEF NextOfEntry
  <2>5. PendingIsPass'
    BY <1>1, <2>1 DEF PendingIsPass, Pending, Pass, Rises, Sets
  <2> QED BY <2>2, <2>3, <2>4, <2>5
<1>4. AccessesArePasses'
  BY <1>1, SameElevation DEF PassInv, AccessesArePasses
<1> QED BY <1>1, <1>2, <1>3, <1>4, SameElevation DEF PassInv

(* The pass that ends at a crossing found from above the horizon.          *)
LEMMA PassEnds ==
  ASSUME SearchTypeOK, Resolved, EntryBegins, OpenEntry, NEW c \in Ticks, Crossing(c),
         last_entry # NoEpoch, above[sampled], pc \in {"first_search", "search"}
  PROVE  Pass(last_entry, c)
<1> USE Bounds
<1>1. /\ sampled \in Nat /\ c \in Nat /\ sampled < c /\ Sets(c)
      /\ \A t \in sampled..(c - 1) : above[t]
  BY CrossingAfterSample DEF Ticks
<1>2. /\ last_entry \in Nat /\ last_entry <= sampled
      /\ \A t \in last_entry..sampled : above[t]
  BY DEF SearchTypeOK, Ticks, OpenEntry
<1>3. last_entry < c /\ \A t \in last_entry..(c - 1) : above[t]
  BY <1>1, <1>2
<1> QED BY <1>1, <1>3 DEF Pass, EntryBegins

LEMMA PassFirst == ASSUME NEW c \in Ticks PROVE SearchInv /\ PassInv /\ First(c) => PassInv'
<1> SUFFICES ASSUME SearchInv, PassInv, First(c) PROVE PassInv'
  OBVIOUS
<1> USE Bounds
<1>1. /\ above' = above /\ accesses' = accesses /\ pc' = "loop" /\ pc = "first_search"
      /\ SearchTypeOK /\ Crossing(c) /\ c # NoEpoch
      /\ last_entry = (IF above[0] THEN 0 ELSE NoEpoch) /\ above[sampled] = above[0]
      /\ last_exit = NoEpoch /\ next_epoch = 0
  BY DEF First, FirstExit, FirstEntry, SearchInv, PassInv, FirstSamples, AccessesBehind, Ticks
<1>2. FirstSamples' /\ OpenEntry'
  BY <1>1 DEF FirstSamples, OpenEntry
<1>3. AccessesArePasses'
  BY <1>1, SameElevation DEF PassInv, AccessesArePasses
<1>4. ASSUME Resolved
      PROVE  EntryBegins' /\ NextOfEntry' /\ PendingIsPass'
  <2>1. EntryBegins /\ OpenEntry
    BY <1>4 DEF PassInv
  <2>2. CASE FirstExit(c)
    <3>1. last_entry = 0 /\ last_entry # NoEpoch /\ above[sampled]
          /\ last_entry' = 0 /\ last_exit' = c /\ above[0]
      BY <1>1, <2>2 DEF FirstExit
    <3>2. Pass(0, c)
      BY <1>1, <1>4, <2>1, <3>1, PassEnds
    <3> QED BY <1>1, <3>1, <3>2, SameElevation DEF NextOfEntry
  <2>3. CASE FirstEntry(c)
    <3>1. /\ ~above[0] /\ ~above[sampled] /\ last_entry' = c /\ last_exit' = NoEpoch
          /\ next_epoch' = 0
      BY <1>1, <2>3 DEF FirstEntry
    <3>2. Rises(c)
      BY <1>1, <1>4, <3>1, CrossingAfterSample
    <3> QED BY <1>1, <3>1, <3>2, SameElevation DEF NextOfEntry
  <2> QED BY <2>2, <2>3 DEF First
<1> QED BY <1>1, <1>2, <1>3, <1>4, SameElevation DEF PassInv

LEMMA PassLater == ASSUME NEW c \in Ticks PROVE SearchInv /\ PassInv /\ Later(c) => PassInv'
<1> SUFFICES ASSUME SearchInv, PassInv, Later(c) PROVE PassInv'
  OBVIOUS
<1> USE Bounds
<1>1. /\ above' = above /\ accesses' = accesses /\ pc' = "loop" /\ pc = "search"
      /\ SearchTypeOK /\ Crossing(c) /\ c # NoEpoch /\ next_epoch' = c + dt
  BY DEF Later, SearchInv, Ticks
<1>2. FirstSamples' /\ OpenEntry'
  BY <1>1 DEF FirstSamples, OpenEntry
<1>3. AccessesArePasses'
  BY <1>1, SameElevation DEF PassInv, AccessesArePasses
<1>4. ASSUME Resolved
      PROVE  EntryBegins' /\ NextOfEntry' /\ PendingIsPass'
  <2>1. EntryBegins /\ OpenEntry
    BY <1>4 DEF PassInv
  <2>2. CASE Entry(c)
    BY <1>1, <2>2, SameElevation DEF Entry, NextOfEntry
  <2>3. CASE Exit(c)
    <3>1. Sets(c) /\ last_exit' = c /\ last_entry' = last_entry
      BY <2>3 DEF Exit
    <3>2. above[sampled]
      <4>1. ~Rises(c)
        BY <3>1 DEF Rises, Sets
      <4> QED BY <1>1, <1>4, <4>1, CrossingAfterSample
    <3>3. last_entry # NoEpoch => Pass(last_entry, c)
      BY <1>1, <1>4, <2>1, <3>2, PassEnds
    <3> QED BY <1>1, <2>1, <3>1, <3>3, SameElevation DEF NextOfEntry, EntryBegins
  <2> QED BY <2>2, <2>3 DEF Later
<1> QED BY <1>1, <1>2, <1>3, <1>4, SameElevation DEF PassInv

LEMMA PassDone == SearchInv /\ PassInv /\ (AlwaysAbove \/ NeverAbove \/ Break) => PassInv'
<1> SUFFICES ASSUME SearchInv, PassInv, AlwaysAbove \/ NeverAbove \/ Break PROVE PassInv'
  OBVIOUS
<1>1. /\ above' = above /\ pc' = "done"
      /\ last_entry' = last_entry /\ last_exit' = last_exit
      /\ \/ accesses' = accesses
         \/ accesses' = <<[entry |-> 0, exit |-> EndEpoch]>>
  BY DEF AlwaysAbove, NeverAbove, Break
<1>2. FirstSamples' /\ OpenEntry' /\ NextOfEntry' /\ PendingIsPass'
  BY <1>1 DEF FirstSamples, OpenEntry, NextOfEntry, PendingIsPass
<1>3. Resolved => EntryBegins'
  BY <1>1, SameElevation DEF PassInv, EntryBegins
<1>4. AccessesArePasses'
  BY <1>1, SameElevation DEF PassInv, AccessesArePasses
<1> QED BY <1>1, <1>2, <1>3, <1>4, SameElevation DEF PassInv

LEMMA PassSave == SearchInv /\ PassInv /\ (SaveAccess \/ SkipAccess) => PassInv'
<1> SUFFICES ASSUME SearchInv, PassInv, SaveAccess \/ SkipAccess PROVE PassInv'
  OBVIOUS
<1> DEFINE new == [entry |-> last_entry, exit |-> last_exit]
<1>1. /\ above' = above /\ pc = "loop" /\ pc' = "search" /\ Pending
      /\ last_entry' = NoEpoch /\ last_exit' = NoEpoch
      /\ accesses' = accesses \/ accesses' = Append(accesses, new)
  BY DEF SaveAccess, SkipAccess, StartSearch
<1>2. FirstSamples' /\ OpenEntry' /\ NextOfEntry' /\ PendingIsPass'
  BY <1>1 DEF FirstSamples, OpenEntry, NextOfEntry, PendingIsPass
<1>3. EntryBegins'
  BY <1>1, SameElevation
<1>4. ASSUME Resolved, NEW i \in 1..Len(accesses')
      PROVE  \/ Pass(accesses'[i].entry, accesses'[i].exit)
             \/ accesses'[i] = [entry |-> 0, exit |-> EndEpoch]
  <2>1. Pass(new.entry, new.exit)
    BY <1>1, <1>4 DEF PassInv, PendingIsPass
  <2>2. accesses \in Seq([entry : Ticks, exit : Ticks])
    BY DEF SearchInv, SearchTypeOK
  <2> HIDE DEF new
  <2>3. accesses'[i] = new \/ (i \in 1..Len(accesses) /\ accesses'[i] = accesses[i])
    BY <1>1, <2>2
  <2> QED BY <1>4, <2>1, <2>3 DEF PassInv, AccessesArePasses
<1>5. AccessesArePasses'
  BY <1>1, <1>4, SameElevation
<1> QED BY <1>1, <1>2, <1>3, <1>5, SameElevation DEF PassInv

LEMMA PassGoOn == SearchInv /\ PassInv /\ NothingPending => PassInv'
<1> SUFFICES ASSUME SearchInv, PassInv, NothingPending PROVE PassInv'
  OBVIOUS
<1> USE Bounds
<1>1. /\ above' = above /\ pc = "loop" /\ pc' = "search" /\ ~Pending /\ accesses' = accesses
      /\ last_entry' = last_entry /\ last_exit' = last_exit
      /\ sampled' = next_epoch /\ next_epoch \in Ticks /\ SearchTypeOK
  BY DEF NothingPending, StartSearch, SearchInv, SearchTypeOK, Ticks
<1>2. FirstSamples' /\ NextOfEntry' /\ PendingIsPass'
  BY <1>1 DEF FirstSamples, NextOfEntry, PendingIsPass
<1>3. AccessesArePasses'
  BY <1>1, SameElevation DEF PassInv, AccessesArePasses
<1>4. ASSUME Resolved
      PROVE  EntryBegins' /\ OpenEntry'
  <2>1. EntryBegins /\ NextOfEntry
    BY <1>4 DEF PassInv
  <2>2. EntryBegins'
    BY <1>1, <2>1, SameElevation DEF EntryBegins
  <2>3. ASSUME last_entry # NoEpoch
        PROVE  /\ last_exit = NoEpoch
               /\ above[next_epoch] => /\ last_entry <= next_epoch
                                       /\ \A t \in last_entry..next_epoch : above[t]
    <3>1. last_exit = NoEpoch /\ last_entry \in Ticks /\ last_entry \in Nat
      BY <1>1, <2>3 DEF Pending, SearchTypeOK, Ticks
    <3>2. next_epoch = last_entry + dt \/ (next_epoch = 0 /\ ~above[0])
      BY <1>1, <2>1, <2>3, <3>1 DEF NextOfEntry
    <3>3. above[last_entry]
      BY <2>1, <2>3 DEF EntryBegins, Rises
    <3>4. ASSUME above[next_epoch]
          PROVE  last_entry <= next_epoch /\ \A t \in last_entry..next_epoch : above[t]
      <4>1. next_epoch = last_entry + dt /\ next_epoch - last_entry <= dt
        BY <3>1, <3>2, <3>4
      <4>2. \A t \in last_entry..next_epoch : above[t]
        BY <1>1, <1>4, <3>1, <3>3, <3>4, <4>1, AboveBetween
      <4> QED BY <3>1, <4>1, <4>2
    <3> QED BY <3>1, <3>4
  <2>4. OpenEntry'
    BY <1>1, <2>3 DEF OpenEntry
  <2> QED BY <2>2, <2>4
<1> QED BY <1>1, <1>2, <1>3, <1>4, SameElevation DEF PassInv

LEMMA PassNext == SearchInv /\ PassInv /\ [SearchNext]_searchVars => PassInv'
<1> SUFFICES ASSUME SearchInv, PassInv, [SearchNext]_searchVars PROVE PassInv'
  OBVIOUS
<1>1. CASE SearchNext
  BY <1>1, PassSample, PassFirst, PassLater, PassDone, PassSave, PassGoOn DEF SearchNext, Loop
<1>2. CASE UNCHANGED searchVars
  <2>1. UNCHANGED <<above, pc, next_epoch, sampled, last_entry, last_exit, accesses>>
    BY <1>2 DEF searchVars, search
  <2>2. FirstSamples' /\ (Resolved' <=> Resolved) /\ AccessesArePasses'
    BY <2>1, SameElevation DEF PassInv, FirstSamples, AccessesArePasses
  <2>3. Resolved => EntryBegins' /\ OpenEntry' /\ NextOfEntry' /\ PendingIsPass'
    BY <2>1, SameElevation
    DEF PassInv, EntryBegins, OpenEntry, NextOfEntry, PendingIsPass, Pending
  <2> QED BY <2>2, <2>3 DEF PassInv
<1> QED BY <1>1, <1>2

(* What is reported is a pass, for every profile the sampling resolves and *)
(* whichever short passes it misses.                                       *)
THEOREM AccessesReal == SearchSpec => []AccessesArePasses
<1>1. PassInv => AccessesArePasses
  BY DEF PassInv
<1> QED BY <1>1, PassInit, PassNext, Invariant, PTL DEF SearchSpec

-----------------------------------------------------------------------------
(* The same of the long passes. They contain two samples of any search     *)
(* that reaches them.                                                      *)
LEMMA SameLongPass ==
  ASSUME above' = above
  PROVE  LongInv' <=> (Resolved => \A a, b \in Ticks : LongPass(a, b) => Located(a, b)')
  BY DEF LongInv, LongPass, Pass, Resolved, Rises, Sets

LEMMA LongPassFacts ==
  ASSUME SearchTypeOK, Resolved, NEW a \in Ticks, NEW b \in Ticks, LongPass(a, b)
  PROVE  /\ a \in Nat /\ b \in Nat /\ a < b /\ b <= EndEpoch
         /\ above[a] /\ ~above[b] /\ \A t \in a..(b - 1) : above[t]
         /\ b - a >= 2 * dt
         /\ a > 0 => a - 1 \in Ticks /\ ~above[a - 1]
         /\ \A c \in Ticks : Sets(c) /\ c < a => c + dt < a
<1> USE Bounds
<1>1. a \in Nat /\ b \in Nat /\ a < b /\ b <= EndEpoch /\ Sets(b)
      /\ \A t \in a..(b - 1) : above[t]
  BY DEF LongPass, Pass, Ticks
<1>2. above[a] /\ ~above[b]
  BY <1>1 DEF Sets
<1>3. b - a >= 2 * dt
  <2>1. MinDuration >= 2 * dt
    BY TimeAssumption DEF dt
  <2> QED BY <1>1, <2>1 DEF LongPass
<1>4. ASSUME a > 0
      PROVE  Rises(a) /\ a - 1 \in Ticks /\ ~above[a - 1]
  BY <1>1, <1>4 DEF LongPass, Pass, Rises, Ticks
<1>5. ASSUME NEW c \in Ticks, Sets(c), c < a
      PROVE  c + dt < a
  <2>1. c \in Nat /\ Rises(a)
    BY <1>1, <1>4, <1>5 DEF Ticks
  <2>2. a - c > dt
    BY <1>5, <2>1 DEF Resolved
  <2> QED BY <1>1, <2>1, <2>2
<1> QED BY <1>1, <1>2, <1>3, <1>4, <1>5

LEMMA LongInit == SearchInit => LongInv
<1> SUFFICES ASSUME SearchInit, Resolved, NEW a \in Ticks, NEW b \in Ticks, LongPass(a, b)
             PROVE  Located(a, b)
  BY DEF LongInv
<1>1. SearchTypeOK
  BY InitHolds DEF SearchInv
<1>2. a \in Nat /\ b \in Nat /\ a < b /\ above[a]
  BY <1>1, LongPassFacts
<1>3. pc = "first_search" /\ sampled = 0 /\ last_exit = NoEpoch
      /\ last_entry = (IF above[0] THEN 0 ELSE NoEpoch)
  BY DEF SearchInit
<1>4. CASE a = 0
  BY <1>2, <1>3, <1>4 DEF Located
<1>5. CASE a # 0
  BY <1>2, <1>3, <1>5 DEF Located
<1> QED BY <1>4, <1>5

(* A sample goes neither past a long pass nor out of one.                  *)
LEMMA LongSample == SearchInv /\ LongInv /\ Sample => LongInv'
<1> USE Bounds
<1> SUFFICES ASSUME SearchInv, LongInv, Sample, Resolved,
                    NEW a \in Ticks, NEW b \in Ticks, LongPass(a, b)
             PROVE  Located(a, b)'
  BY SameLongPass DEF Sample
<1>1. /\ UNCHANGED <<above, pc, next_epoch, last_entry, last_exit, accesses>>
      /\ sampled' = sampled + dt /\ above[sampled + dt] = above[sampled]
      /\ sampled \in Ticks /\ sampled \in Nat /\ sampled + dt \in Ticks /\ SearchTypeOK
      /\ pc \in {"first_search", "search"}
  BY DEF Sample, InRange, Searching, SearchInv, SearchTypeOK, Ticks
<1>2. /\ a \in Nat /\ b \in Nat /\ a < b /\ b <= EndEpoch
      /\ above[a] /\ ~above[b] /\ \A t \in a..(b - 1) : above[t]
      /\ b - a >= 2 * dt
      /\ a > 0 => a - 1 \in Ticks /\ ~above[a - 1]
  BY <1>1, LongPassFacts
<1>3. above[sampled] => \A t \in sampled..(sampled + dt) : above[t]
  <2>1. (sampled + dt) - sampled <= dt
    BY <1>1
  <2> QED BY <1>1, <2>1, AboveBetween
<1>4. CASE Reported(a, b)
  BY <1>1, <1>4 DEF Located, Reported
<1>5. CASE last_entry = a /\ last_exit = NoEpoch /\ a <= sampled /\ sampled < b
  <2>1. above[sampled]
    BY <1>1, <1>2, <1>5
  <2>2. sampled + dt < b
    BY <1>1, <1>2, <1>3, <1>5, <2>1
  <2>3. a <= sampled + dt
    BY <1>1, <1>2, <1>5
  <2> QED BY <1>1, <1>5, <2>2, <2>3 DEF Located
<1>6. CASE sampled < a
  <2>1. ASSUME a <= sampled + dt PROVE FALSE
    <3>1. CASE above[sampled]
      <4>1. a - 1 \in sampled..(sampled + dt) /\ a > 0
        BY <1>1, <1>2, <1>6, <2>1
      <4> QED BY <1>2, <1>3, <3>1, <4>1
    <3>2. CASE ~above[sampled]
      <4>1. sampled + dt \in a..(b - 1)
        BY <1>1, <1>2, <1>6, <2>1
      <4> QED BY <1>1, <1>2, <3>2, <4>1
    <3> QED BY <3>1, <3>2
  <2>2. sampled + dt < a
    BY <1>1, <1>2, <2>1
  <2> QED BY <1>1, <2>2 DEF Located
<1>7. Located(a, b)
  BY DEF LongInv
<1> QED BY <1>1, <1>4, <1>5, <1>6, <1>7 DEF Located

(* A crossing is the start of a long pass, its end, or before it.          *)
LEMMA LongCrossing ==
  ASSUME SearchTypeOK, Resolved, NEW a \in Ticks, NEW b \in Ticks, LongPass(a, b),
         NEW c \in Ticks, Crossing(c)
  PROVE  /\ dt > 0
         /\ a <= sampled /\ sampled < b => c = b
         /\ sampled < a => (Rises(c) /\ c = a) \/ c + dt < a
<1> USE Bounds
<1>1. /\ dt > 0 /\ sampled \in Ticks /\ sampled < c /\ c <= sampled + dt
      /\ sampled \in Nat /\ c \in Nat
      /\ above[sampled] => Sets(c) /\ \A t \in sampled..(c - 1) : above[t]
      /\ ~above[sampled] => Rises(c) /\ \A t \in sampled..(c - 1) : ~above[t]
  BY CrossingAfterSample DEF Ticks
<1>2. /\ a \in Nat /\ b \in Nat /\ a < b /\ b <= EndEpoch
      /\ above[a] /\ ~above[b] /\ \A t \in a..(b - 1) : above[t]
      /\ b - a >= 2 * dt
      /\ a > 0 => a - 1 \in Ticks /\ ~above[a - 1]
      /\ \A d \in Ticks : Sets(d) /\ d < a => d + dt < a
  BY LongPassFacts
<1>3. ASSUME a <= sampled, sampled < b
      PROVE  c = b
  <2>1. above[sampled]
    BY <1>1, <1>2, <1>3
  <2>2. ~above[c] /\ \A t \in sampled..(c - 1) : above[t]
    BY <1>1, <2>1 DEF Sets
  <2>3. ~(c < b)
    BY <1>1, <1>2, <1>3, <2>2
  <2>4. ~(b < c)
    BY <1>1, <1>2, <1>3, <2>2
  <2> QED BY <1>1, <1>2, <2>3, <2>4
<1>4. ASSUME sampled < a
      PROVE  (Rises(c) /\ c = a) \/ c + dt < a
  <2>0. a > 0 /\ a - 1 \in Ticks /\ ~above[a - 1]
    BY <1>1, <1>2, <1>4
  <2>1. CASE above[sampled]
    <3>1. Sets(c) /\ ~above[c] /\ \A t \in sampled..(c - 1) : above[t]
      BY <1>1, <2>1 DEF Sets
    <3>2. ~(a - 1 \in sampled..(c - 1))
      BY <2>0, <3>1
    <3>3. c < a
      BY <1>1, <1>2, <1>4, <3>1, <3>2
    <3> QED BY <1>2, <3>1, <3>3
  <2>2. CASE ~above[sampled]
    <3>1. Rises(c) /\ above[c] /\ \A t \in sampled..(c - 1) : ~above[t]
      BY <1>1, <2>2 DEF Rises
    <3>2. ~(a \in sampled..(c - 1))
      BY <1>2, <3>1
    <3>3. c <= a
      BY <1>1, <1>2, <1>4, <3>2
    <3>4. ASSUME c < a
          PROVE  c + dt < a
      <4>1. c < a - 1
        BY <1>1, <1>2, <2>0, <3>1, <3>4
      <4>2. PICK d \in (c + 1)..(a - 1) : d \in Ticks /\ Sets(d)
        BY <2>0, <3>1, <4>1, SetBetween
      <4>3. d \in Nat /\ d < a /\ c < d
        BY <1>1, <1>2, <4>2
      <4>4. d + dt < a
        BY <1>2, <4>2, <4>3
      <4> QED BY <1>1, <1>2, <4>3, <4>4
    <3> QED BY <1>1, <1>2, <3>1, <3>3, <3>4
  <2> QED BY <2>1, <2>2
<1> QED BY <1>1, <1>3, <1>4

LEMMA LongFirst == ASSUME NEW c \in Ticks PROVE SearchInv /\ PassInv /\ LongInv /\ First(c) => LongInv'
<1> USE Bounds
<1> SUFFICES ASSUME SearchInv, PassInv, LongInv, First(c), Resolved,
                    NEW a \in Ticks, NEW b \in Ticks, LongPass(a, b)
             PROVE  Located(a, b)'
  BY SameLongPass DEF First
<1>1. /\ above' = above /\ accesses' = accesses /\ pc' = "loop" /\ pc = "first_search"
      /\ SearchTypeOK /\ Crossing(c) /\ accesses = <<>>
      /\ last_entry = (IF above[0] THEN 0 ELSE NoEpoch) /\ above[sampled] = above[0]
      /\ last_exit = NoEpoch /\ next_epoch = 0 /\ sampled \in Nat
  BY DEF First, FirstExit, FirstEntry, SearchInv, PassInv, FirstSamples, AccessesBehind,
         SearchTypeOK, Ticks
<1>2. a \in Nat /\ b \in Nat /\ a < b /\ above[a]
  BY <1>1, LongPassFacts
<1>3. ~Reported(a, b)
  BY <1>1 DEF Reported
<1>4. CASE last_entry = a /\ last_exit = NoEpoch /\ a <= sampled /\ sampled < b
  <2>1. c = b /\ above[0]
    BY <1>1, <1>2, <1>4, LongCrossing
  <2>2. last_exit' = c /\ last_entry' = last_entry /\ next_epoch' = c + dt
    BY <2>1 DEF First, FirstExit, FirstEntry
  <2> QED BY <1>1, <1>4, <2>1, <2>2 DEF Located
<1>5. CASE sampled < a
  <2>1. CASE FirstEntry(c)
    <3>1. next_epoch' = 0
      BY <1>1, <2>1 DEF FirstEntry
    <3>2. 0 < a
      BY <1>1, <1>2, <1>5
    <3> QED BY <1>1, <3>1, <3>2 DEF Located
  <2>2. CASE FirstExit(c)
    <3>1. above[sampled] /\ next_epoch' = c + dt
      BY <1>1, <2>2 DEF FirstExit
    <3>2. ~Rises(c)
      BY <1>1, <3>1, CrossingAfterSample DEF Rises, Sets
    <3>3. c + dt < a
      BY <1>1, <1>5, <3>2, LongCrossing
    <3> QED BY <1>1, <3>1, <3>3 DEF Located
  <2> QED BY <2>1, <2>2 DEF First
<1>6. Located(a, b)
  BY DEF LongInv
<1> QED BY <1>1, <1>3, <1>4, <1>5, <1>6 DEF Located

LEMMA LongLater == ASSUME NEW c \in Ticks PROVE SearchInv /\ PassInv /\ LongInv /\ Later(c) => LongInv'
<1> USE Bounds
<1> SUFFICES ASSUME SearchInv, PassInv, LongInv, Later(c), Resolved,
                    NEW a \in Ticks, NEW b \in Ticks, LongPass(a, b)
             PROVE  Located(a, b)'
  BY SameLongPass DEF Later
<1>1. /\ above' = above /\ accesses' = accesses /\ pc' = "loop" /\ pc = "search"
      /\ SearchTypeOK /\ Crossing(c) /\ next_epoch' = c + dt /\ sampled \in Nat
  BY DEF Later, SearchInv, SearchTypeOK, Ticks
<1>2. /\ a \in Nat /\ b \in Nat /\ a < b /\ b - a >= 2 * dt
      /\ above[a] /\ ~above[b] /\ \A t \in a..(b - 1) : above[t]
  BY <1>1, LongPassFacts
<1>3. CASE Reported(a, b)
  BY <1>1, <1>3 DEF Located, Reported
<1>4. CASE last_entry = a /\ last_exit = NoEpoch /\ a <= sampled /\ sampled < b
  <2>1. c = b
    BY <1>1, <1>4, LongCrossing
  <2>2. ~Rises(c)
    BY <1>2, <2>1 DEF Rises
  <2>3. last_exit' = c /\ last_entry' = last_entry
    BY <2>2 DEF Later, Entry, Exit
  <2> QED BY <1>1, <1>4, <2>1, <2>3 DEF Located
<1>5. CASE sampled < a
  <2>1. CASE Rises(c) /\ c = a
    <3>1. ~Sets(c)
      BY <2>1 DEF Rises, Sets
    <3>2. last_entry' = a /\ last_exit' = NoEpoch
      BY <2>1, <3>1 DEF Later, Entry, Exit
    <3>3. a + dt < b
      <4>1. dt > 0
        BY <1>1, LongCrossing
      <4> QED BY <1>2, <4>1
    <3> QED BY <1>1, <2>1, <3>2, <3>3 DEF Located
  <2>2. CASE c + dt < a
    BY <1>1, <2>2 DEF Located
  <2> QED BY <1>1, <1>5, <2>1, <2>2, LongCrossing
<1>6. Located(a, b)
  BY DEF LongInv
<1> QED BY <1>1, <1>3, <1>4, <1>5, <1>6 DEF Located

LEMMA LongDone == SearchInv /\ LongInv /\ (AlwaysAbove \/ NeverAbove \/ Break) => LongInv'
<1> USE Bounds
<1> SUFFICES ASSUME SearchInv, LongInv, AlwaysAbove \/ NeverAbove \/ Break, Resolved,
                    NEW a \in Ticks, NEW b \in Ticks, LongPass(a, b)
             PROVE  Located(a, b)'
  BY SameLongPass DEF AlwaysAbove, NeverAbove, Break
<1>1. /\ SearchTypeOK /\ pc' = "done" /\ sampled \in Nat /\ next_epoch \in Nat
      /\ \/ pc \in {"first_search", "search"} /\ sampled + dt > EndEpoch
         \/ pc = "loop" /\ next_epoch > EndEpoch
  BY DEF AlwaysAbove, NeverAbove, Break, NoCrossing, InRange, SearchInv, SearchTypeOK, Ticks
<1>2. a \in Nat /\ b \in Nat /\ a < b /\ b <= EndEpoch
  BY <1>1, LongPassFacts
<1>3. CASE Reported(a, b)
  <2>1. accesses' = accesses
    <3>1. ~AlwaysAbove
      BY <1>3 DEF SearchInv, AccessesBehind, AlwaysAbove, Reported
    <3> QED BY <3>1 DEF NeverAbove, Break
  <2> QED BY <1>3, <2>1 DEF Located, Reported
<1>4. CASE ~Reported(a, b)
  <2>1. \/ pc = "loop" /\ (next_epoch = b + dt \/ next_epoch < b \/ next_epoch < a)
        \/ pc \in {"first_search", "search"} /\ (sampled < b \/ sampled < a)
    BY <1>1, <1>4 DEF LongInv, Located
  <2>2. b + dt > EndEpoch
    BY <1>1, <1>2, <2>1
  <2> QED BY <1>1, <2>2 DEF Located
<1> QED BY <1>3, <1>4

LEMMA LongLoop == SearchInv /\ LongInv /\ (SaveAccess \/ SkipAccess \/ NothingPending) => LongInv'
<1> USE Bounds
<1> SUFFICES ASSUME SearchInv, LongInv, SaveAccess \/ SkipAccess \/ NothingPending, Resolved,
                    NEW a \in Ticks, NEW b \in Ticks, LongPass(a, b)
             PROVE  Located(a, b)'
  BY SameLongPass DEF SaveAccess, SkipAccess, NothingPending, StartSearch
<1> DEFINE new == [entry |-> last_entry, exit |-> last_exit]
<1>1. /\ SearchTypeOK /\ pc = "loop" /\ pc' = "search" /\ sampled' = next_epoch
      /\ next_epoch \in Nat
      /\ accesses \in Seq([entry : Ticks, exit : Ticks])
      /\ accesses' = accesses \/ accesses' = Append(accesses, new)
  BY DEF SaveAccess, SkipAccess, NothingPending, StartSearch, SearchInv, SearchTypeOK
<1>2. a \in Nat /\ b \in Nat /\ a < b
  BY <1>1, LongPassFacts
<1>3. CASE Reported(a, b)
  <2>1. PICK i \in 1..Len(accesses) : accesses[i] = [entry |-> a, exit |-> b]
    BY <1>3 DEF Reported
  <2>2. i \in 1..Len(accesses') /\ accesses'[i] = accesses[i]
    <3> HIDE DEF new
    <3> QED BY <1>1
  <2> QED BY <2>1, <2>2 DEF Located, Reported
<1>4. CASE last_entry = a /\ last_exit = b
  <2>1. Pending /\ LongEnough
    <3>1. a # NoEpoch /\ b # NoEpoch
      BY <1>2
    <3> QED BY <1>4, <3>1 DEF Pending, LongEnough, LongPass
  <2>2. accesses' = Append(accesses, new)
    BY <2>1 DEF SaveAccess, SkipAccess, NothingPending
  <2>3. new = [entry |-> a, exit |-> b]
    BY <1>4
  <2>4. Len(accesses) + 1 \in 1..Len(accesses') /\ accesses'[Len(accesses) + 1] = new
    <3> HIDE DEF new
    <3> QED BY <1>1, <2>2
  <2> QED BY <2>3, <2>4 DEF Located, Reported
<1>5. CASE last_entry = a /\ last_exit = NoEpoch /\ next_epoch = a + dt /\ next_epoch < b
  <2>1. last_entry' = a /\ last_exit' = NoEpoch
    BY <1>5 DEF Pending, SaveAccess, SkipAccess, NothingPending
  <2>2. a <= next_epoch
    BY <1>2, <1>5
  <2> QED BY <1>1, <1>5, <2>1, <2>2 DEF Located
<1>6. CASE next_epoch < a
  BY <1>1, <1>6 DEF Located
<1>7. Located(a, b)
  BY DEF LongInv
<1> QED BY <1>1, <1>3, <1>4, <1>5, <1>6, <1>7 DEF Located

LEMMA LongNext == SearchInv /\ PassInv /\ LongInv /\ [SearchNext]_searchVars => LongInv'
<1> SUFFICES ASSUME SearchInv, PassInv, LongInv, [SearchNext]_searchVars PROVE LongInv'
  OBVIOUS
<1>1. CASE SearchNext
  BY <1>1, LongSample, LongFirst, LongLater, LongDone, LongLoop DEF SearchNext, Loop
<1>2. CASE UNCHANGED searchVars
  <2>1. UNCHANGED <<above, pc, next_epoch, sampled, last_entry, last_exit, accesses>>
    BY <1>2 DEF searchVars, search
  <2>2. \A a, b \in Ticks : Located(a, b)' <=> Located(a, b)
    BY <2>1 DEF Located, Reported
  <2> QED BY <2>1, <2>2, SameLongPass DEF LongInv
<1> QED BY <1>1, <1>2

(* Every pass of min_duration or more that ends a step before the end of   *)
(* the ephemeris is reported, for every profile the sampling resolves.     *)
THEOREM LongPassesFound == SearchSpec => []LongPassesReported
<1>1. SearchTypeOK /\ LongInv => LongPassesReported
  <2> SUFFICES ASSUME SearchTypeOK, LongInv, pc = "done", Resolved,
                      NEW a \in Ticks, NEW b \in Ticks,
                      Pass(a, b), b - a >= MinDuration, b + dt <= EndEpoch
               PROVE  Reported(a, b)
    BY DEF LongPassesReported
  <2>1. Located(a, b)
    BY DEF LongInv, LongPass
  <2>2. ~(b + dt > EndEpoch)
    BY Bounds DEF Ticks
  <2> QED BY <2>1, <2>2 DEF Located
<1>2. SearchInv => SearchTypeOK
  BY DEF SearchInv
<1> QED BY <1>1, <1>2, PassInit, PassNext, LongInit, LongNext, Invariant, PTL DEF SearchSpec
=============================================================================
