---------------------------- MODULE Association ----------------------------
(***************************************************************************)
(* ObservationCollection::get_association_report                           *)
(* (src/src/estimation/observation_collection.rs): the observations that a *)
(* sensor made at one epoch are given to the satellites of a constellation *)
(* that are in its field of view, greedily, level of confidence by level   *)
(* of confidence. A residual is its range in kilometers.                   *)
(***************************************************************************)
EXTENDS Integers, Sequences

CONSTANTS
  N,                      (* the number of observations of the collection  *)
  Ids,                    (* the ids of observations                       *)
  Satellites,             (* the keys of the constellation                 *)
  HIGH_ASSOCIATION_CLOS_RANGE, MEDIUM_ASSOCIATION_CLOS_RANGE,
  LOW_ASSOCIATION_CLOS_RANGE,
  observed_satellite_id,  (* what each observation says that it saw        *)
  None

Observations == 1..N

ASSUME CollectionAssumption ==
  /\ N \in Nat
  /\ None \notin Satellites
  /\ observed_satellite_id \in [Observations -> Satellites \cup {None}]

ASSUME RangeAssumption ==
  /\ HIGH_ASSOCIATION_CLOS_RANGE \in Nat
  /\ MEDIUM_ASSOCIATION_CLOS_RANGE \in Nat
  /\ LOW_ASSOCIATION_CLOS_RANGE \in Nat
  /\ HIGH_ASSOCIATION_CLOS_RANGE <= MEDIUM_ASSOCIATION_CLOS_RANGE
  /\ MEDIUM_ASSOCIATION_CLOS_RANGE <= LOW_ASSOCIATION_CLOS_RANGE

(* Bound: all residuals from the first that is not associated on are one.  *)
Residuals == 0..LOW_ASSOCIATION_CLOS_RANGE

VARIABLES
  id,                       (* of each observation; a caller may set two   *)
                            (* to the same (set_id)                        *)
  visible_satellites,
  residual,                 (* of each observation with each satellite     *)
  level,                    (* the target confidence, Returned at the end  *)
  level_candidates,         (* what the loop of the level has not seen yet *)
  associated_observation_ids, associated_satellite_ids,
  associations, moving_satellite_ids, orphan_observations

inputs  == <<id, visible_satellites, residual>>
results == <<associated_observation_ids, associated_satellite_ids,
             associations, moving_satellite_ids>>
vars    == <<inputs, level, level_candidates, results, orphan_observations>>

Levels   == 1..3            (* High, Medium, Low                           *)
Returned == 4

(* A residual has the confidence of the first threshold that it is below:  *)
(* the residuals of a level are those from Reach[level - 1] to below       *)
(* Reach[level].                                                           *)
Reach == [l \in 0..Returned |->
            CASE l = 0 -> 0
              [] l = 1 -> HIGH_ASSOCIATION_CLOS_RANGE
              [] l = 2 -> MEDIUM_ASSOCIATION_CLOS_RANGE
              [] OTHER -> LOW_ASSOCIATION_CLOS_RANGE]

HasConfidence(r, l) == Reach[l - 1] <= r /\ r < Reach[l]

Candidates == Observations \X Satellites
RangeOf(c) == residual[c[1]][c[2]]

all_candidates ==
  {c \in Candidates : /\ c[2] \in visible_satellites
                      /\ RangeOf(c) < LOW_ASSOCIATION_CLOS_RANGE}

Init ==
  /\ id \in [Observations -> Ids]
  /\ visible_satellites \in SUBSET Satellites
  /\ residual \in [Observations -> [Satellites -> Residuals]]
  /\ level = 0
  /\ level_candidates = {}
  /\ associated_observation_ids = {} /\ associated_satellite_ids = {}
  /\ associations = <<>> /\ moving_satellite_ids = {}
  /\ orphan_observations = {}

-----------------------------------------------------------------------------
TakenBySatellite(c) == c[2] \in associated_satellite_ids

Taken(c) == \/ id[c[1]] \in associated_observation_ids
            \/ c[2] \in associated_satellite_ids

(* The filter at the start of a level.                                     *)
NextLevel ==
  /\ level + 1 \in Levels /\ level_candidates = {}
  /\ level' = level + 1
  /\ level_candidates' =
       {c \in all_candidates : ~Taken(c) /\ HasConfidence(RangeOf(c), level')}
  /\ UNCHANGED <<inputs, results, orphan_observations>>

BeforeFarthest(c, d) == RangeOf(c) > RangeOf(d)

(* The sort is stable: of two equal ranges the earlier observation comes   *)
(* first, and of one observation what it says that it saw; the other       *)
(* satellites come in the order of a HashMap.                              *)
Before(c, d) ==
  \/ RangeOf(c) < RangeOf(d)
  \/ RangeOf(c) = RangeOf(d) /\ c[1] < d[1]
  \/ /\ RangeOf(c) = RangeOf(d) /\ c[1] = d[1]
     /\ c[2] = observed_satellite_id[c[1]] /\ d[2] # c[2]

IsNext(c) ==
  /\ c \in level_candidates
  /\ \A d \in level_candidates : ~Before(d, c)

MarkTaken(c) ==
  /\ associated_observation_ids' = associated_observation_ids \cup {id[c[1]]}
  /\ associated_satellite_ids' = associated_satellite_ids \cup {c[2]}

Assign(c) ==
  /\ IsNext(c) /\ ~Taken(c)
  /\ level_candidates' = level_candidates \ {c}
  /\ MarkTaken(c)
  /\ associations' = Append(associations, c)
  /\ moving_satellite_ids' =
       IF level = 1 THEN moving_satellite_ids ELSE moving_satellite_ids \cup {c[2]}
  /\ UNCHANGED <<inputs, level, orphan_observations>>

Skip(c) ==
  /\ IsNext(c) /\ Taken(c)
  /\ level_candidates' = level_candidates \ {c}
  /\ UNCHANGED <<inputs, level, results, orphan_observations>>

IsOrphanByPosition(i) == \A k \in 1..Len(associations) : associations[k][1] # i

IsOrphan(i) == id[i] \notin associated_observation_ids

Return ==
  /\ level = 3 /\ level_candidates = {}
  /\ level' = Returned
  /\ orphan_observations' = {i \in Observations : IsOrphan(i)}
  /\ UNCHANGED <<inputs, level_candidates, results>>

Next == NextLevel \/ Return \/ \E c \in level_candidates : Assign(c) \/ Skip(c)

Spec == Init /\ [][Next]_vars

-----------------------------------------------------------------------------
TypeOK ==
  /\ id \in [Observations -> Ids]
  /\ visible_satellites \in SUBSET Satellites
  /\ residual \in [Observations -> [Satellites -> Residuals]]
  /\ level \in 0..Returned
  /\ level_candidates \in SUBSET Candidates
  /\ associated_observation_ids \in SUBSET Ids
  /\ associated_satellite_ids \in SUBSET Satellites
  /\ associations \in Seq(Candidates)
  /\ moving_satellite_ids \in SUBSET Satellites
  /\ orphan_observations \in SUBSET Observations

(* At every moment of the assignment no satellite has two observations and *)
(* no observation id two satellites, over all levels and although the      *)
(* candidates of a level are filtered before any of them is assigned.      *)
OneToOne ==
  \A j, k \in 1..Len(associations) : j # k =>
    /\ id[associations[j][1]] # id[associations[k][1]]
    /\ associations[j][2] # associations[k][2]

(* The report is stable: whatever candidate it leaves out, its observation *)
(* or its satellite has an association whose residual is no larger, so no  *)
(* two of them would both come closer by leaving their partners.           *)
Shares(a, c) == id[a[1]] = id[c[1]] \/ a[2] = c[2]

NoBetterPair ==
  level = Returned =>
    \A c \in all_candidates : \E k \in 1..Len(associations) :
      Shares(associations[k], c) /\ RangeOf(associations[k]) <= RangeOf(c)

(* Once the report is returned, an observation id is either that of an     *)
(* association or that of orphans, and a satellite moves exactly if its    *)
(* association is not of high confidence: the three lists of the report,   *)
(* filled by different loops, tell one story.                              *)
ReportConsistent ==
  level = Returned =>
    LET associated == {id[associations[k][1]] : k \in 1..Len(associations)}
        orphaned   == {id[i] : i \in orphan_observations}
        moving(k)  == RangeOf(associations[k]) >= HIGH_ASSOCIATION_CLOS_RANGE
    IN  /\ associated \cap orphaned = {}
        /\ associated \cup orphaned = {id[i] : i \in Observations}
        /\ moving_satellite_ids =
             {associations[k][2] : k \in {j \in 1..Len(associations) : moving(j)}}
=============================================================================
