------------------------- MODULE AssociationProofs -------------------------
(* The assignment is one-to-one and stable for every number of             *)
(* observations, every constellation and every residual. The invariant:    *)
(* what is associated is no farther than what the loop has not seen, so    *)
(* what it skips is skipped for something at least as near.                *)
EXTENDS Association, TLAPS

Associated == 1..Len(associations)

(* The two sets the code looks into are those of the associations.         *)
SetsOfAssociations ==
  /\ \A k \in Associated :
       /\ associations[k] \in all_candidates
       /\ id[associations[k][1]] \in associated_observation_ids
       /\ associations[k][2] \in associated_satellite_ids
  /\ \A o \in associated_observation_ids :
       \E k \in Associated : id[associations[k][1]] = o
  /\ \A s \in associated_satellite_ids :
       \E k \in Associated : associations[k][2] = s

CandidatesOfLevel ==
  /\ \A c \in level_candidates :
       c \in all_candidates /\ HasConfidence(RangeOf(c), level)
  /\ level \in {0, Returned} => level_candidates = {}

NearestFirst ==
  \A k \in Associated :
    /\ RangeOf(associations[k]) < Reach[level]
    /\ \A c \in level_candidates : RangeOf(associations[k]) <= RangeOf(c)

Settled(c) ==
  \E k \in Associated :
    Shares(associations[k], c) /\ RangeOf(associations[k]) <= RangeOf(c)

SeenIsSettled ==
  \A c \in all_candidates :
    RangeOf(c) < Reach[level] => c \in level_candidates \/ Settled(c)

Moving ==
  moving_satellite_ids =
    {associations[k][2] : k \in {j \in Associated :
        RangeOf(associations[j]) >= HIGH_ASSOCIATION_CLOS_RANGE}}

Orphans ==
  level = Returned =>
    orphan_observations =
      {i \in Observations : id[i] \notin associated_observation_ids}

IInv ==
  /\ TypeOK
  /\ SetsOfAssociations
  /\ OneToOne
  /\ CandidatesOfLevel
  /\ NearestFirst
  /\ SeenIsSettled
  /\ Moving
  /\ Orphans

-----------------------------------------------------------------------------
LEMMA ReachValues ==
  /\ Reach[0] = 0
  /\ Reach[1] = HIGH_ASSOCIATION_CLOS_RANGE
  /\ Reach[2] = MEDIUM_ASSOCIATION_CLOS_RANGE
  /\ Reach[3] = LOW_ASSOCIATION_CLOS_RANGE
  /\ Reach[4] = LOW_ASSOCIATION_CLOS_RANGE
  BY DEF Reach, Returned

LEMMA RangeIsNat ==
  ASSUME TypeOK
  PROVE  \A c \in Candidates : RangeOf(c) \in Nat
  BY RangeAssumption DEF TypeOK, Candidates, RangeOf, Residuals

LEMMA CandidatesAreCandidates == \A c \in all_candidates : c \in Candidates
  BY DEF all_candidates

LEMMA InitInvariant == Init => IInv
  <1> SUFFICES ASSUME Init  PROVE IInv
    OBVIOUS
  <1>1. TypeOK
    BY DEF Init, TypeOK, Returned, Candidates
  <1>2. Associated = {} /\ level = 0 /\ level_candidates = {}
    BY DEF Init, Associated
  <1>3. SetsOfAssociations /\ OneToOne /\ CandidatesOfLevel /\ NearestFirst
    BY <1>2 DEF Init, SetsOfAssociations, OneToOne, CandidatesOfLevel, NearestFirst, Associated
  <1>4. SeenIsSettled
    <2>1. \A c \in all_candidates : RangeOf(c) \in Nat
      BY <1>1, RangeIsNat, CandidatesAreCandidates
    <2> QED  BY <1>2, <2>1, ReachValues DEF SeenIsSettled
  <1>5. Moving /\ Orphans
    BY <1>2 DEF Init, Moving, Orphans, Returned
  <1> QED  BY <1>1, <1>3, <1>4, <1>5 DEF IInv

(* The filter of a level drops only what an association of an earlier      *)
(* level, and so a nearer one, has taken.                                  *)
LEMMA NextLevelInvariant ==
  ASSUME IInv, NextLevel
  PROVE  IInv'
  <1>0. /\ inputs' = inputs /\ results' = results
        /\ orphan_observations' = orphan_observations
        /\ level \in 0..2 /\ level' = level + 1 /\ level_candidates = {}
    BY DEF NextLevel, IInv, TypeOK, Levels, Returned
  <1>1. level_candidates' =
          {c \in all_candidates : ~Taken(c) /\ HasConfidence(RangeOf(c), level + 1)}
    BY DEF NextLevel
  <1> USE <1>0 DEF inputs, results
  <1>2. TypeOK'
    BY <1>1, CandidatesAreCandidates DEF IInv, TypeOK, Returned
  <1>3. all_candidates' = all_candidates
    BY DEF all_candidates, RangeOf
  <1>4. SetsOfAssociations' /\ OneToOne' /\ Moving'
    BY <1>3 DEF IInv, SetsOfAssociations, OneToOne, Moving, Associated, RangeOf
  <1>5. CandidatesOfLevel'
    <2>1. level' \notin {0, Returned}
      BY DEF Returned
    <2> QED  BY <1>1, <1>3, <2>1 DEF CandidatesOfLevel, HasConfidence, RangeOf
  <1>6. Reach[level] \in Nat /\ Reach[level + 1] \in Nat /\ Reach[level] <= Reach[level + 1]
    BY RangeAssumption, ReachValues
  <1>7. \A c \in all_candidates : RangeOf(c) \in Nat
    BY RangeIsNat, CandidatesAreCandidates DEF IInv
  <1>8. NearestFirst'
    <2>1. ASSUME NEW k \in Associated
          PROVE  RangeOf(associations[k]) < Reach[level] /\ RangeOf(associations[k]) \in Nat
      BY <1>7 DEF IInv, NearestFirst, SetsOfAssociations
    <2>2. ASSUME NEW k \in Associated, NEW c \in level_candidates'
          PROVE  RangeOf(associations[k]) <= RangeOf(c)
      BY <1>1, <1>6, <1>7, <2>1 DEF HasConfidence
    <2>3. ASSUME NEW k \in Associated
          PROVE  RangeOf(associations[k]) < Reach[level + 1]
      BY <1>6, <2>1
    <2> QED  BY <2>2, <2>3 DEF NearestFirst, Associated, RangeOf
  <1>9. SeenIsSettled'
    <2> SUFFICES ASSUME NEW c \in all_candidates, RangeOf(c) < Reach[level + 1]
                 PROVE  c \in level_candidates' \/ Settled(c)
      BY <1>3 DEF SeenIsSettled, Settled, Associated, Shares, RangeOf
    <2>1. CASE RangeOf(c) < Reach[level]
      BY <2>1 DEF IInv, SeenIsSettled
    <2>2. CASE Reach[level] <= RangeOf(c) /\ ~Taken(c)
      BY <1>1, <2>2 DEF HasConfidence
    <2>3. CASE Reach[level] <= RangeOf(c) /\ Taken(c)
      <3>1. PICK k \in Associated : Shares(associations[k], c)
        BY <2>3 DEF IInv, SetsOfAssociations, Taken, Shares
      <3>2. RangeOf(associations[k]) < Reach[level] /\ RangeOf(associations[k]) \in Nat
        BY <1>7 DEF IInv, NearestFirst, SetsOfAssociations
      <3>3. RangeOf(associations[k]) <= RangeOf(c)
        BY <1>6, <1>7, <2>3, <3>2
      <3> QED  BY <3>1, <3>3 DEF Settled
    <2> QED  BY <1>6, <1>7, <2>1, <2>2, <2>3
  <1>10. Orphans'
    BY DEF Orphans, Returned
  <1> QED  BY <1>2, <1>4, <1>5, <1>8, <1>9, <1>10 DEF IInv

LEMMA ReturnInvariant ==
  ASSUME IInv, Return
  PROVE  IInv'
  <1> USE DEF inputs, results
  <1>0. /\ inputs' = inputs /\ results' = results
        /\ level = 3 /\ level' = 4 /\ level_candidates = {} /\ level_candidates' = {}
        /\ orphan_observations' =
             {i \in Observations : id[i] \notin associated_observation_ids}
    BY DEF Return, Returned, IsOrphan
  <1>1. TypeOK'
    BY <1>0 DEF IInv, TypeOK, Returned
  <1>2. all_candidates' = all_candidates
    BY <1>0 DEF all_candidates, RangeOf
  <1>3. SetsOfAssociations' /\ OneToOne' /\ Moving'
    BY <1>0, <1>2 DEF IInv, SetsOfAssociations, OneToOne, Moving, Associated, RangeOf
  <1>4. CandidatesOfLevel' /\ Orphans'
    BY <1>0 DEF CandidatesOfLevel, Orphans
  <1>5. NearestFirst'
    BY <1>0, ReachValues DEF IInv, NearestFirst, Associated, RangeOf
  <1>6. SeenIsSettled'
    BY <1>0, <1>2, ReachValues
    DEF IInv, SeenIsSettled, Settled, Associated, Shares, RangeOf
  <1> QED  BY <1>1, <1>3, <1>4, <1>5, <1>6 DEF IInv
LEMMA SkipInvariant ==
  ASSUME IInv, NEW c \in level_candidates, Skip(c)
  PROVE  IInv'
  <1> USE DEF inputs, results
  <1>0. /\ inputs' = inputs /\ results' = results /\ level' = level
        /\ orphan_observations' = orphan_observations
        /\ level_candidates' = level_candidates \ {c} /\ Taken(c)
    BY DEF Skip
  <1>1. TypeOK'
    BY <1>0 DEF IInv, TypeOK
  <1>2. all_candidates' = all_candidates
    BY <1>0 DEF all_candidates, RangeOf
  <1>3. SetsOfAssociations' /\ OneToOne' /\ Moving' /\ Orphans'
    BY <1>0, <1>2
    DEF IInv, SetsOfAssociations, OneToOne, Moving, Orphans, Associated, RangeOf
  <1>4. CandidatesOfLevel'
    BY <1>0, <1>2 DEF IInv, CandidatesOfLevel, HasConfidence, RangeOf
  <1>5. NearestFirst'
    BY <1>0 DEF IInv, NearestFirst, Associated, RangeOf
  <1>6. Settled(c)
    <2>1. PICK k \in Associated : Shares(associations[k], c)
      BY <1>0 DEF IInv, SetsOfAssociations, Taken, Shares
    <2>2. RangeOf(associations[k]) <= RangeOf(c)
      BY DEF IInv, NearestFirst
    <2> QED  BY <2>1, <2>2 DEF Settled
  <1>7. SeenIsSettled'
    <2> SUFFICES ASSUME NEW d \in all_candidates, RangeOf(d) < Reach[level]
                 PROVE  d \in level_candidates \ {c} \/ Settled(d)
      BY <1>0, <1>2 DEF SeenIsSettled, Settled, Associated, Shares, RangeOf
    <2> QED  BY <1>6 DEF IInv, SeenIsSettled
  <1> QED  BY <1>1, <1>3, <1>4, <1>5, <1>7 DEF IInv

(* The next candidate of the sorted queue is free and as near as any that  *)
(* is left, and farther than none that is associated.                      *)
LEMMA AssignInvariant ==
  ASSUME IInv, NEW c \in level_candidates, Assign(c)
  PROVE  IInv'
  <1> DEFINE n == Len(associations)
  <1>0. /\ id' = id /\ visible_satellites' = visible_satellites
        /\ residual' = residual /\ level' = level
        /\ orphan_observations' = orphan_observations
        /\ level_candidates' = level_candidates \ {c} /\ ~Taken(c)
        /\ associated_observation_ids' = associated_observation_ids \cup {id[c[1]]}
        /\ associated_satellite_ids' = associated_satellite_ids \cup {c[2]}
        /\ associations' = Append(associations, c)
    BY DEF Assign, MarkTaken, inputs
  <1>1. /\ c \in all_candidates /\ c \in Candidates
        /\ HasConfidence(RangeOf(c), level) /\ level \in 1..3
    BY CandidatesAreCandidates DEF IInv, CandidatesOfLevel, TypeOK, Returned
  <1>2. /\ n \in Nat /\ Len(associations') = n + 1
        /\ \A k \in 1..n : associations'[k] = associations[k]
        /\ associations'[n + 1] = c
        /\ associations' \in Seq(Candidates)
    BY <1>0, <1>1 DEF IInv, TypeOK
  <1>3. Associated = 1..n /\ Associated' = 1..n \cup {n + 1}
    BY <1>2 DEF Associated
  <1>4. c[1] \in Observations /\ c[2] \in Satellites /\ id[c[1]] \in Ids
    BY <1>1 DEF Candidates, IInv, TypeOK
  <1>5. TypeOK'
    <2>1. moving_satellite_ids' \in SUBSET Satellites
      BY <1>4 DEF Assign, IInv, TypeOK
    <2> QED  BY <1>0, <1>2, <1>4, <2>1 DEF IInv, TypeOK
  <1>6. all_candidates' = all_candidates
    BY <1>0 DEF all_candidates, RangeOf
  <1> HIDE DEF n
  <1>7. SetsOfAssociations'
    <2>1. ASSUME NEW k \in 1..n \cup {n + 1}
          PROVE  /\ associations'[k] \in all_candidates
                 /\ id[associations'[k][1]] \in associated_observation_ids'
                 /\ associations'[k][2] \in associated_satellite_ids'
      <3>1. CASE k = n + 1
        BY <1>0, <1>1, <1>2, <3>1
      <3>2. CASE k \in 1..n
        BY <1>0, <1>2, <1>3, <3>2 DEF IInv, SetsOfAssociations
      <3> QED  BY <3>1, <3>2
    <2>2. ASSUME NEW o \in associated_observation_ids'
          PROVE  \E k \in 1..n \cup {n + 1} : id[associations'[k][1]] = o
      <3>1. CASE o = id[c[1]]
        BY <1>2, <3>1
      <3>2. CASE o \in associated_observation_ids
        BY <1>2, <1>3, <3>2 DEF IInv, SetsOfAssociations
      <3> QED  BY <1>0, <3>1, <3>2
    <2>3. ASSUME NEW s \in associated_satellite_ids'
          PROVE  \E k \in 1..n \cup {n + 1} : associations'[k][2] = s
      <3>1. CASE s = c[2]
        BY <1>2, <3>1
      <3>2. CASE s \in associated_satellite_ids
        BY <1>2, <1>3, <3>2 DEF IInv, SetsOfAssociations
      <3> QED  BY <1>0, <3>1, <3>2
    <2>4. /\ \A k \in Associated' :
               /\ associations'[k] \in all_candidates'
               /\ id'[associations'[k][1]] \in associated_observation_ids'
               /\ associations'[k][2] \in associated_satellite_ids'
          /\ \A o \in associated_observation_ids' :
               \E k \in Associated' : id'[associations'[k][1]] = o
          /\ \A s \in associated_satellite_ids' :
               \E k \in Associated' : associations'[k][2] = s
      BY <1>0, <1>3, <1>6, <2>1, <2>2, <2>3
    <2> QED  BY <2>4 DEF SetsOfAssociations
  <1>8. OneToOne'
    <2>1. ASSUME NEW k \in 1..n
          PROVE  id[associations[k][1]] # id[c[1]] /\ associations[k][2] # c[2]
      BY <1>0, <1>3 DEF IInv, SetsOfAssociations, Taken
    <2>2. ASSUME NEW j \in 1..n, NEW k \in 1..n, j # k
          PROVE  /\ id[associations[j][1]] # id[associations[k][1]]
                 /\ associations[j][2] # associations[k][2]
      BY <2>2 DEF IInv, OneToOne, n
    <2>3. 1..Len(associations') = 1..n \cup {n + 1}
      BY <1>2
    <2> QED  BY <1>0, <1>2, <2>1, <2>2, <2>3 DEF OneToOne
  <1>9. CandidatesOfLevel'
    BY <1>0, <1>6 DEF IInv, CandidatesOfLevel, HasConfidence, RangeOf
  <1>10. \A d \in all_candidates : RangeOf(d) \in Nat
    BY RangeIsNat, CandidatesAreCandidates DEF IInv
  <1>11. NearestFirst'
    <2>1. \A d \in level_candidates : RangeOf(c) <= RangeOf(d)
      BY <1>1, <1>10 DEF Assign, IsNext, Before, IInv, CandidatesOfLevel
    <2>2. RangeOf(c) < Reach[level]
      BY <1>1 DEF HasConfidence
    <2>3. ASSUME NEW k \in 1..n \cup {n + 1}
          PROVE  /\ RangeOf(associations'[k]) < Reach[level]
                 /\ \A d \in level_candidates \ {c} :
                      RangeOf(associations'[k]) <= RangeOf(d)
      <3>1. CASE k = n + 1
        BY <1>2, <2>1, <2>2, <3>1
      <3>2. CASE k \in 1..n
        BY <1>2, <1>3, <3>2 DEF IInv, NearestFirst
      <3> QED  BY <3>1, <3>2
    <2> QED  BY <1>0, <1>3, <2>3 DEF NearestFirst, RangeOf
  <1>12. SeenIsSettled'
    <2> SUFFICES ASSUME NEW d \in all_candidates, RangeOf(d) < Reach[level]
                 PROVE  \/ d \in level_candidates \ {c}
                        \/ \E k \in 1..n \cup {n + 1} :
                             /\ Shares(associations'[k], d)
                             /\ RangeOf(associations'[k]) <= RangeOf(d)
      BY <1>0, <1>3, <1>6 DEF SeenIsSettled, Settled, Shares, RangeOf
    <2>1. CASE d = c
      BY <1>2, <1>10, <2>1 DEF Shares
    <2>2. CASE d \in level_candidates /\ d # c
      BY <2>2
    <2>3. CASE Settled(d)
      BY <1>2, <1>3, <2>3 DEF Settled
    <2> QED  BY <2>1, <2>2, <2>3 DEF IInv, SeenIsSettled
  <1>13. Moving'
    <2> DEFINE far(c0) == RangeOf(c0) >= HIGH_ASSOCIATION_CLOS_RANGE
    <2>1. far(c) <=> level # 1
      BY <1>1, <1>10, ReachValues, RangeAssumption DEF HasConfidence
    <2>2. moving_satellite_ids' =
            moving_satellite_ids \cup (IF far(c) THEN {c[2]} ELSE {})
      BY <2>1 DEF Assign
    <2>3. {associations'[k][2] : k \in {j \in 1..n \cup {n + 1} : far(associations'[j])}}
            = {associations[k][2] : k \in {j \in 1..n : far(associations[j])}}
                \cup (IF far(c) THEN {c[2]} ELSE {})
      <3> HIDE DEF far
      <3>1. CASE far(c)
        BY <1>2, <3>1
      <3>2. CASE ~far(c)
        BY <1>2, <3>2
      <3> QED  BY <3>1, <3>2
    <2> QED  BY <1>0, <1>3, <2>2, <2>3 DEF IInv, Moving, RangeOf
  <1>14. Orphans'
    BY <1>0, <1>1 DEF Orphans, Returned
  <1> QED
    BY <1>5, <1>7, <1>8, <1>9, <1>11, <1>12, <1>13, <1>14 DEF IInv

LEMMA StutterInvariant ==
  ASSUME IInv, UNCHANGED vars
  PROVE  IInv'
  <1>1. /\ inputs' = inputs /\ results' = results /\ level' = level
        /\ level_candidates' = level_candidates
        /\ orphan_observations' = orphan_observations
    BY DEF vars
  <1>2. TypeOK' /\ OneToOne'
    BY <1>1 DEF IInv, inputs, results, TypeOK, OneToOne
  <1>3. all_candidates' = all_candidates
    BY <1>1 DEF inputs, all_candidates, RangeOf
  <1>4. SetsOfAssociations' /\ CandidatesOfLevel' /\ NearestFirst'
    BY <1>1, <1>3 DEF IInv, inputs, results, SetsOfAssociations, CandidatesOfLevel,
       NearestFirst, Associated, HasConfidence, RangeOf
  <1>5. SeenIsSettled' /\ Moving' /\ Orphans'
    BY <1>1, <1>3 DEF IInv, inputs, results, SeenIsSettled, Settled, Shares, Moving,
       Orphans, Associated, RangeOf
  <1> QED  BY <1>2, <1>4, <1>5 DEF IInv

(* The invariant of the assignment: no interleaving of levels, ties and    *)
(* repeated ids leads out of it.                                           *)
THEOREM InvariantHolds == Spec => []IInv
  <1>1. IInv /\ [Next]_vars => IInv'
    BY NextLevelInvariant, ReturnInvariant, AssignInvariant, SkipInvariant,
       StutterInvariant DEF Next
  <1> QED  BY <1>1, InitInvariant, PTL DEF Spec

-----------------------------------------------------------------------------
(* Only observations, ids and satellites of the inputs get into a report.  *)
THEOREM TypeCorrect == Spec => []TypeOK
  BY InvariantHolds, PTL DEF IInv

(* No satellite and no observation id is associated twice, at any moment   *)
(* of an assignment of any size.                                           *)
THEOREM AssignmentOneToOne == Spec => []OneToOne
  BY InvariantHolds, PTL DEF IInv

(* A report leaves no candidate out but for an association as near, for    *)
(* every number of observations and satellites and all their residuals.    *)
THEOREM AssignmentStable == Spec => []NoBetterPair
  <1>1. ASSUME IInv, level = Returned
        PROVE  \A c \in all_candidates : Settled(c)
    <2> SUFFICES ASSUME NEW c \in all_candidates
                 PROVE  Settled(c)
      OBVIOUS
    <2>1. RangeOf(c) < Reach[level]
      BY <1>1, ReachValues DEF all_candidates, Returned
    <2>2. level_candidates = {}
      BY <1>1 DEF IInv, CandidatesOfLevel
    <2> QED  BY <1>1, <2>1, <2>2 DEF IInv, SeenIsSettled
  <1>2. IInv => NoBetterPair
    BY <1>1 DEF NoBetterPair, Settled, Associated
  <1> QED  BY <1>2, InvariantHolds, PTL

(* The three lists of a report agree, although they are filled by          *)
(* different loops and keyed by ids.                                       *)
THEOREM ReportCorrect == Spec => []ReportConsistent
  <1>1. ASSUME IInv, level = Returned
        PROVE  ReportConsistent
    <2> DEFINE associated == {id[associations[k][1]] : k \in 1..Len(associations)}
               orphaned   == {id[i] : i \in orphan_observations}
    <2>1. associated = associated_observation_ids
      BY <1>1 DEF IInv, SetsOfAssociations, Associated
    <2>2. orphan_observations =
            {i \in Observations : id[i] \notin associated_observation_ids}
      BY <1>1 DEF IInv, Orphans
    <2>3. associated \cap orphaned = {}
      BY <2>1, <2>2
    <2>4. associated \subseteq {id[i] : i \in Observations}
      BY <1>1, CandidatesAreCandidates DEF IInv, SetsOfAssociations, Associated, Candidates
    <2>5. associated \cup orphaned = {id[i] : i \in Observations}
      BY <2>1, <2>2, <2>4
    <2> QED  BY <1>1, <2>3, <2>5 DEF ReportConsistent, IInv, Moving, Associated
  <1>2. IInv => ReportConsistent
    BY <1>1 DEF ReportConsistent
  <1> QED  BY <1>2, InvariantHolds, PTL
=============================================================================
