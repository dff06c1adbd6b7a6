------------------------ MODULE ConstellationProofs ------------------------
(***************************************************************************)
(* Proofs about Constellation: its types, the caches a report leaves alone *)
(* and what the reports hold.                                              *)
(***************************************************************************)
EXTENDS Constellation, FiniteSetTheorems, WellFoundedInduction, TLAPS

(* The satellites of the constellation are a function on their keys.       *)
Inv == satellites \in [Keys -> Satellite] /\ TypeOK

(* A window the caller may ask for has a step or more, which makes an      *)
(* ephemeris built over it nonempty; the window of a UCT may be one epoch. *)
Window == {w \in Ranges : w.start <= w.end}

LEMMA WindowFacts ==
  /\ Windows \subseteq Window /\ Windows \subseteq Ranges
  /\ \A w \in Ranges : /\ w.start \in Epochs /\ w.end \in Epochs
                       /\ w.start \in Nat /\ w.end \in Nat
  /\ \A w \in Windows : w.start < w.end
<1>1. \A w \in Ranges : w.start \in Epochs /\ w.end \in Epochs
  BY DEF Ranges
<1>2. \A w \in Windows : w \in Ranges /\ w.start < w.end
  BY ConstellationAssumption
<1>3. \A w \in Ranges : w.start \in Nat /\ w.end \in Nat
  BY <1>1, ConstellationAssumption
<1>4. \A w \in Windows : w.start <= w.end
  BY <1>2, <1>3
<1> QED BY <1>1, <1>2, <1>3, <1>4 DEF Window

(* An answer is None or an ephemeris that covers the window, and the       *)
(* satellite afterwards is a satellite.                                    *)
LEMMA AnswerFacts ==
  ASSUME NEW sat \in Satellite, NEW w \in Window
  PROVE  /\ Answer(sat, w) \in Ephemeris \cup {None}
         /\ Answer(sat, w) # None => Covers(Answer(sat, w), w)
         /\ Asked(sat, w) \in Satellite
<1>1. CASE Cached(sat, w)
  <2>1. sat.ephemeris_cache \in Ephemeris \cup {None}
    BY DEF Satellite
  <2> QED BY <1>1, <2>1 DEF Answer, Asked, Cached
<1>2. CASE ~Cached(sat, w) /\ CanBuild(sat, w)
  <2>1. w.start \in Epochs /\ w.end \in Epochs /\ w.start \in w.start..w.end
    BY WindowFacts DEF Window
  <2>2. sat.propagator # None
    BY <1>2, <2>1 DEF CanBuild, Propagates
  <2>3. sat.propagator \in Orbits /\ sat.id \in Ids
    BY <2>2 DEF Satellite
  <2>4. Built(sat, w) \in Ephemeris
    BY <2>1, <2>3 DEF Built, Ephemeris
  <2>5. Covers(Built(sat, w), w)
    BY <2>1, WindowFacts DEF Covers, Built, Window
  <2>6. [sat EXCEPT !.ephemeris_cache = Built(sat, w)] \in Satellite
    BY <2>4 DEF Satellite
  <2> QED BY <1>2, <2>4, <2>5, <2>6 DEF Answer, Asked
<1>3. CASE ~Cached(sat, w) /\ ~CanBuild(sat, w)
  BY <1>3 DEF Answer, Asked
<1> QED BY <1>1, <1>2, <1>3

LEMMA AskedAllTyped ==
  ASSUME NEW w \in Window, satellites \in [Keys -> Satellite]
  PROVE  /\ AskedAll(satellites, w) \in [Keys -> Satellite]
         /\ DOMAIN AskedAll(satellites, w) = Keys
<1>1. \A k \in Keys : Asked(satellites[k], w) \in Satellite
  BY AnswerFacts
<1> QED BY <1>1 DEF AskedAll, Keys

-----------------------------------------------------------------------------
(* Types.                                                                  *)
LEMMA NewSatelliteTyped ==
  ASSUME NEW id \in Ids, NEW orbit \in Orbits \cup {None}
  PROVE  NewSatellite(id, orbit) \in Satellite
BY DEF NewSatellite, Satellite

LEMMA InitHolds == Init => Inv
<1> SUFFICES ASSUME Init PROVE Inv
  OBVIOUS
<1>0. PICK keys \in SUBSET Ids : \E catalog \in [keys -> Orbits] :
        satellites = [id \in keys |-> NewSatellite(id, catalog[id])]
  BY DEF Init
<1>1. PICK catalog \in [keys -> Orbits] :
        satellites = [id \in keys |-> NewSatellite(id, catalog[id])]
  BY <1>0
<1>2. Keys = keys
  BY <1>1 DEF Keys
<1>3. \A id \in keys : NewSatellite(id, catalog[id]) \in Satellite
  BY NewSatelliteTyped
<1>4. satellites \in [Keys -> Satellite] /\ \A k \in Keys : satellites[k] \in Satellite
  BY <1>1, <1>2, <1>3
<1>5. held \in Satellite
  BY NewSatelliteTyped DEF Init
<1>6. bounds = None
  BY DEF Init
<1> QED BY <1>2, <1>4, <1>5, <1>6 DEF Inv, TypeOK

(* A step that gives the satellites, the caller's one and the bounds       *)
(* values of their types keeps the invariant.                              *)
LEMMA TypedStep ==
  ASSUME NEW keys \in SUBSET Ids, satellites' \in [keys -> Satellite],
         held' \in Satellite, bounds' \in Windows \cup {None}
  PROVE  Inv'
<1>1. Keys' = keys
  BY DEF Keys
<1> QED BY <1>1 DEF Inv, TypeOK

LEMMA UctWindowTyped ==
  ASSUME Inv, NEW epoch \in Epochs, UctWindow(epoch) \in Ranges
  PROVE  /\ UctWindow(epoch) \in Window
         /\ bounds # None => Covers(bounds, UctWindow(epoch))
<1>1. epoch \in Nat /\ Period \in Nat \ {0}
  BY ConstellationAssumption
<1>2. CASE bounds = None
  BY <1>1, <1>2 DEF UctWindow, Window
<1>3. CASE bounds # None
  <2>1. bounds \in Windows
    BY <1>3 DEF Inv, TypeOK
  <2>2. bounds.start \in Nat /\ bounds.end \in Nat /\ bounds.start < bounds.end
    BY <2>1, WindowFacts
  <2> QED BY <1>1, <1>3, <2>2 DEF UctWindow, Window, Covers
<1> QED BY <1>2, <1>3

LEMMA ChangeKeeps == Inv /\ Change => Inv'
<1> SUFFICES ASSUME Inv, Change PROVE Inv'
  OBVIOUS
<1>1. /\ Keys \subseteq Ids /\ satellites \in [Keys -> Satellite]
      /\ held \in Satellite /\ bounds \in Windows \cup {None}
  BY DEF Inv, TypeOK
<1>2. CASE \E key \in Ids : Get(key)
  BY <1>1, <1>2, TypedStep DEF Get
<1>3. ASSUME NEW key \in Ids, Add(key) PROVE Inv'
  <2>1. satellites' \in [Keys \cup {key} -> Satellite]
    BY <1>1, <1>3 DEF Add
  <2> QED BY <1>1, <1>3, <2>1, TypedStep DEF Add
<1>4. ASSUME NEW key \in Ids, Remove(key) PROVE Inv'
  <2>1. satellites' \in [Keys \ {key} -> Satellite]
    BY <1>1, <1>4 DEF Remove, Restrict
  <2> QED BY <1>1, <1>4, <2>1, TypedStep DEF Remove
<1>5. CASE \E id \in Ids : SetId(id)
  <2>1. held' \in Satellite
    BY <1>1, <1>5 DEF SetId, Satellite
  <2> QED BY <1>1, <1>5, <2>1, TypedStep DEF SetId
<1>6. ASSUME NEW s \in Settable, SetKeplerianState(s[1], s[2]) PROVE Inv'
  <2>1. s[1] \in Orbits /\ s[2] \in BOOLEAN
    BY ConstellationAssumption
  <2>2. held' \in Satellite
    BY <1>1, <1>6, <2>1 DEF SetKeplerianState, Satellite
  <2> QED BY <1>1, <1>6, <2>2, TypedStep DEF SetKeplerianState
<1>7. CASE SetForceProperties
  <2>1. held' \in Satellite
    BY <1>1, <1>7 DEF SetForceProperties, Satellite
  <2> QED BY <1>1, <1>7, <2>1, TypedStep DEF SetForceProperties
<1>8. CASE Clear
  <2>1. satellites' \in [{} -> Satellite]
    BY <1>8 DEF Clear
  <2> QED BY <1>1, <1>8, <2>1, TypedStep DEF Clear
<1>9. ASSUME NEW t \in Epochs, StepToEpoch(t) PROVE Inv'
  <2>1. PICK moved \in SUBSET Keys :
          \/ satellites' = Moved(moved) /\ UNCHANGED bounds
          \/ satellites' = Restrict(Moved(moved), moved) /\ bounds' = None
    BY <1>9 DEF StepToEpoch
  <2>2. Moved(moved) \in [Keys -> Satellite]
    BY <1>1 DEF Moved, Stepped, Satellite
  <2>3. Restrict(Moved(moved), moved) \in [moved -> Satellite]
    BY <2>2 DEF Restrict
  <2>4. held' = held /\ moved \in SUBSET Ids
    BY <1>1, <1>9 DEF StepToEpoch
  <2> QED BY <1>1, <2>1, <2>2, <2>3, <2>4, TypedStep
<1>10. ASSUME NEW w \in Windows, NEW purge \in BOOLEAN, CacheEphemeris(w, purge) PROVE Inv'
  <2>1. AskedAll(satellites, w) \in [Keys -> Satellite]
    BY <1>1, WindowFacts, AskedAllTyped
  <2> DEFINE kept == {k \in Keys : Answer(satellites[k], w) # None}
  <2>2. Restrict(AskedAll(satellites, w), kept) \in [kept -> Satellite]
    BY <2>1 DEF Restrict
  <2>3. bounds' = w /\ held' = held
    BY <1>10 DEF CacheEphemeris
  <2>4. \/ satellites' = AskedAll(satellites, w)
        \/ satellites' = Restrict(AskedAll(satellites, w), kept)
    BY <1>10 DEF CacheEphemeris
  <2> HIDE DEF kept
  <2>5. kept \in SUBSET Ids
    BY <1>1 DEF kept
  <2> QED BY <1>1, <2>1, <2>2, <2>3, <2>4, <2>5, TypedStep
<1> QED BY <1>2, <1>3, <1>4, <1>5, <1>6, <1>7, <1>8, <1>9, <1>10 DEF Change

(* A call that asks changes caches alone, and no keys.                     *)
LEMMA AskingKeeps ==
  ASSUME Inv, NEW w \in Window, Ask(w)
  PROVE  Inv'
<1>1. /\ Keys \in SUBSET Ids /\ satellites \in [Keys -> Satellite]
      /\ held \in Satellite /\ bounds \in Windows \cup {None}
  BY DEF Inv, TypeOK
<1>2. AskedAll(satellites, w) \in [Keys -> Satellite]
  BY <1>1, AskedAllTyped
<1>3. Asked(held, w) \in Satellite
  BY <1>1, AnswerFacts
<1>4. /\ satellites' \in {satellites, AskedAll(satellites, w)}
      /\ held' \in {held, Asked(held, w)} /\ bounds' = bounds
  BY DEF Ask, AskConstellation, AskForCaVsOne, AskForProximityVsOne, AskForManeuvers
<1> QED BY <1>1, <1>2, <1>3, <1>4, TypedStep

LEMMA NextKeeps == Inv /\ [Next]_vars => Inv'
<1> SUFFICES ASSUME Inv, [Next]_vars PROVE Inv'
  OBVIOUS
<1>1. CASE Change
  BY <1>1, ChangeKeeps
<1>2. ASSUME NEW w \in Windows, Ask(w) PROVE Inv'
  BY <1>2, AskingKeeps, WindowFacts
<1>3. ASSUME NEW epoch \in Epochs, UctValidity(epoch) PROVE Inv'
  <2>1. UctWindow(epoch) \in Window
    BY <1>3, UctWindowTyped DEF UctValidity
  <2>2. Ask(UctWindow(epoch))
    BY <1>3 DEF UctValidity, Ask
  <2> QED BY <2>1, <2>2, AskingKeeps
<1>4. CASE UNCHANGED vars
  BY <1>4 DEF vars, Inv, TypeOK, Keys
<1> QED BY <1>1, <1>2, <1>3, <1>4 DEF Next

LEMMA Invariant == Spec => []Inv
<1> QED BY InitHolds, NextKeeps, PTL DEF Spec

(* The constellation and the caller's satellite have their types.          *)
THEOREM TypeCorrect == Spec => []TypeOK
<1>1. Inv => TypeOK
  BY DEF Inv
<1> QED BY <1>1, Invariant, PTL

-----------------------------------------------------------------------------
(* A satellite whose cache covers a range is not changed by a request      *)
(* inside it.                                                              *)
LEMMA CoversThrough ==
  ASSUME NEW e \in Ephemeris, NEW b \in Ranges, NEW w \in Ranges,
         Covers(e, b), Covers(b, w)
  PROVE  Covers(e, w)
<1>1. e.start \in Nat /\ e.end \in Nat
  BY ConstellationAssumption DEF Ephemeris
<1> QED BY <1>1, WindowFacts DEF Covers

LEMMA CachedUnchanged ==
  ASSUME Inv, bounds # None, \A k \in Keys : Cached(satellites[k], bounds),
         NEW w \in Window, Covers(bounds, w)
  PROVE  AskedAll(satellites, w) = satellites
<1>1. satellites \in [Keys -> Satellite] /\ bounds \in Ranges /\ w \in Ranges
  BY WindowFacts DEF Inv, TypeOK, Window
<1>2. ASSUME NEW k \in Keys PROVE Asked(satellites[k], w) = satellites[k]
  <2>1. satellites[k].ephemeris_cache \in Ephemeris
    BY <1>1 DEF Cached, Satellite
  <2>2. Covers(satellites[k].ephemeris_cache, w)
    BY <1>1, <2>1, CoversThrough DEF Cached
  <2> QED BY <2>2 DEF Asked, Cached
<1> QED BY <1>1, <1>2 DEF AskedAll, Keys

(* Within a range for which every satellite has a cached ephemeris, no     *)
(* report changes the constellation.                                       *)
THEOREM CachedReportsCorrect == Spec => CachedReportsPure
<1> DEFINE Pure == /\ satellites' # satellites
                   /\ bounds # None /\ \A k \in Keys : Cached(satellites[k], bounds)
                   => /\ ~ \E w \in Windows : Covers(bounds, w) /\ Ask(w)
                      /\ ~ \E epoch \in Epochs : UctValidity(epoch)
<1>1. Inv /\ [Next]_vars => [Pure]_vars
  <2> SUFFICES ASSUME Inv, bounds # None, \A k \in Keys : Cached(satellites[k], bounds),
                      \/ \E w \in Windows : Covers(bounds, w) /\ Ask(w)
                      \/ \E epoch \in Epochs : UctValidity(epoch)
               PROVE  satellites' = satellites
    OBVIOUS
  <2>1. ASSUME NEW w \in Window, Covers(bounds, w), Ask(w) PROVE satellites' = satellites
    <3>1. satellites' \in {satellites, AskedAll(satellites, w)}
      BY <2>1 DEF Ask, AskConstellation, AskForCaVsOne, AskForProximityVsOne,
                  AskForManeuvers
    <3> QED BY <2>1, <3>1, CachedUnchanged
  <2>2. ASSUME NEW epoch \in Epochs, UctValidity(epoch) PROVE satellites' = satellites
    <3>1. UctWindow(epoch) \in Window /\ Covers(bounds, UctWindow(epoch))
      BY <2>2, UctWindowTyped DEF UctValidity
    <3>2. Ask(UctWindow(epoch))
      BY <2>2 DEF UctValidity, Ask
    <3> QED BY <2>1, <3>1, <3>2
  <2> QED BY <2>1, <2>2, WindowFacts
<1> QED BY <1>1, Invariant, PTL DEF Spec, CachedReportsPure

-----------------------------------------------------------------------------
(* The search for a close approach.                                        *)
LEMMA LeastElement ==
  ASSUME NEW T, T \subseteq Nat, T # {}
  PROVE  Min(T) \in T /\ \A y \in T : Min(T) <= y
<1>1. \E x \in T : \A y \in T : ~ (<<y, x>> \in OpToRel(<, Nat))
  BY WFMin, NatLessThanWellFounded, Zenon
<1>2. \A x, y \in Nat : <<y, x>> \notin OpToRel(<, Nat) => x <= y
  BY DEF OpToRel
<1>3. \E x \in T : \A y \in T : x <= y
  BY <1>1, <1>2
<1> QED BY <1>3 DEF Min

(* A lookup inside the range of an ephemeris is not clamped.               *)
LEMMA InsideFacts ==
  ASSUME NEW e \in Ephemeris
  PROVE  /\ e.start \in Nat /\ e.end \in Nat /\ e.orbit \in Orbits
         /\ \A t \in Nat : Clamped(e, t) = t <=> t \in e.start..e.end
         /\ \A t \in e.start..e.end :
              /\ t \in Epochs /\ t \in Nat /\ PositionAt(e, t) = Position[e.orbit][t]
              /\ Position[e.orbit][t] \in Int
<1>1. /\ e.start \in Epochs /\ e.end \in Epochs /\ e.orbit \in Orbits
      /\ e.start \in Nat /\ e.end \in Nat
  BY ConstellationAssumption DEF Ephemeris
<1>2. \A t \in Nat : Clamped(e, t) = t <=> t \in e.start..e.end
  BY <1>1 DEF Clamped
<1>3. ASSUME NEW t \in e.start..e.end
      PROVE  /\ t \in Epochs /\ t \in Nat /\ Position[e.orbit][t] \in Int
  BY <1>1, ConstellationAssumption
<1> QED BY <1>1, <1>2, <1>3 DEF PositionAt

LEMMA SeparationFacts ==
  ASSUME NEW e1 \in Ephemeris, NEW e2 \in Ephemeris,
         NEW t \in (e1.start..e1.end) \cap (e2.start..e2.end)
  PROVE  /\ Separation(e1, e2, t) = Distance(Position[e1.orbit][t], Position[e2.orbit][t])
         /\ Separation(e1, e2, t) = Separation(e2, e1, t)
         /\ Separation(e1, e2, t) \in Nat
<1>1. /\ Position[e1.orbit][t] \in Int /\ Position[e2.orbit][t] \in Int
      /\ PositionAt(e1, t) = Position[e1.orbit][t]
      /\ PositionAt(e2, t) = Position[e2.orbit][t]
  BY InsideFacts
<1> QED BY <1>1 DEF Separation, Distance

(* The sets of get_close_approach.                                         *)
Near(e1, e2) ==
  {t \in Searched(e1, e2) : e1.orbit # e2.orbit /\ Separation(e1, e2, t) < Threshold}

Closest(e1, e2) ==
  {t \in Near(e1, e2) :
     \A u \in Near(e1, e2) : Separation(e1, e2, t) <= Separation(e1, e2, u)}

LEMMA CloseApproachIs ==
  ASSUME NEW e1, NEW e2
  PROVE  CloseApproach(e1, e2) =
           IF Near(e1, e2) = {} THEN {}
           ELSE {Event(e1, e2, Min(Closest(e1, e2)), Min(Closest(e1, e2)))}
BY DEF CloseApproach, Near, Closest

LEMMA NearFacts ==
  ASSUME NEW e1 \in Ephemeris, NEW e2 \in Ephemeris
  PROVE  /\ \A t \in Near(e1, e2) : /\ t \in Nat /\ e1.orbit # e2.orbit
                                    /\ Together(e1, e2, t)
         /\ Near(e1, e2) # {} =>
              /\ Min(Closest(e1, e2)) \in Closest(e1, e2)
              /\ \A u \in Closest(e1, e2) : Min(Closest(e1, e2)) <= u
<1>1. ASSUME NEW t \in Near(e1, e2)
      PROVE  t \in Nat /\ t \in (e1.start..e1.end) \cap (e2.start..e2.end)
  <2>1. t \in e1.start..e1.end /\ \A u \in e1.start..t : Clamped(e2, u) = u
    BY DEF Near, Searched
  <2>2. t \in Nat /\ t \in e1.start..t
    BY <2>1, InsideFacts
  <2>3. t \in e2.start..e2.end
    BY <2>1, <2>2, InsideFacts
  <2> QED BY <2>1, <2>2, <2>3
<1>2. ASSUME NEW t \in Near(e1, e2) PROVE Together(e1, e2, t) /\ e1.orbit # e2.orbit
  BY <1>1, SeparationFacts DEF Near, Together
<1>3. ASSUME Near(e1, e2) # {} PROVE Closest(e1, e2) # {}
  <2> DEFINE D == {Separation(e1, e2, t) : t \in Near(e1, e2)}
  <2>1. D \subseteq Nat /\ D # {}
    BY <1>1, <1>3, SeparationFacts
  <2>2. Min(D) \in D /\ \A y \in D : Min(D) <= y
    <3> HIDE DEF D
    <3> QED BY <2>1, LeastElement
  <2>3. PICK t \in Near(e1, e2) : Min(D) = Separation(e1, e2, t)
    BY <2>2
  <2>4. t \in Closest(e1, e2)
    BY <2>2, <2>3 DEF Closest
  <2> QED BY <2>4
<1>4. Closest(e1, e2) \subseteq Nat
  BY <1>1 DEF Closest
<1> QED BY <1>1, <1>2, <1>3, <1>4, LeastElement

(* An event of get_close_approach is of the two and of an epoch at which   *)
(* they are together.                                                      *)
LEMMA CloseApproachReal ==
  ASSUME NEW e1 \in Ephemeris, NEW e2 \in Ephemeris, NEW event \in CloseApproach(e1, e2)
  PROVE  /\ event.of = {e1.satellite_id, e2.satellite_id}
         /\ Together(e1, e2, event.start)
<1>1. Near(e1, e2) # {}
  BY CloseApproachIs
<1>2. event = Event(e1, e2, Min(Closest(e1, e2)), Min(Closest(e1, e2)))
  BY <1>1, CloseApproachIs
<1>3. Min(Closest(e1, e2)) \in Near(e1, e2)
  BY <1>1, NearFacts DEF Closest
<1> QED BY <1>2, <1>3, NearFacts DEF Event

(* The answers of the constellation are ephemerides, and so are those in a *)
(* list of them.                                                           *)
LEMMA AnswersTyped ==
  ASSUME Inv, NEW w \in Windows
  PROVE  /\ Answers(satellites, w) \subseteq Ephemeris
         /\ Answer(held, w) \in Ephemeris \cup {None}
         /\ \A k \in Keys : Answer(satellites[k], w) \in Ephemeris \cup {None}
<1>1. held \in Satellite /\ \A k \in Keys : satellites[k] \in Satellite
  BY DEF Inv, TypeOK
<1>2. w \in Window
  BY WindowFacts
<1> QED BY <1>1, <1>2, AnswerFacts DEF Answers, Keys

Answering(w) == {k \in Keys : Answer(satellites[k], w) # None}

LEMMA SameCardinality == \A S : Lists!Cardinality(S) = Cardinality(S)
BY DEF Cardinality, Lists!Cardinality

LEMMA ListedAnswers ==
  ASSUME NEW w, NEW list \in AnswerLists(satellites, w)
  PROVE  \E order \in Lists!SetToSeqs(Answering(w)) :
           /\ DOMAIN list = DOMAIN order
           /\ \A i \in DOMAIN order : /\ order[i] \in Answering(w)
                                     /\ list[i] = Answer(satellites[order[i]], w)
<1>1. PICK order \in Lists!SetToSeqs(Answering(w)) :
        list = [i \in DOMAIN order |-> Answer(satellites[order[i]], w)]
  BY DEF AnswerLists, Answering, Keys
<1>2. order \in [1..Cardinality(Answering(w)) -> Answering(w)]
  BY SameCardinality DEF Lists!SetToSeqs
<1> QED BY <1>1, <1>2

(* Every close approach in a report is an epoch at which the two           *)
(* ephemerides it names are nearer than the threshold.                     *)
THEOREM ApproachesCorrect == Spec => []ApproachesReal
<1>1. Inv => ApproachesReal
  <2> SUFFICES ASSUME Inv, NEW w \in Windows,
                      NEW report \in {CaReportVsOne(satellites, held, w)}
                                       \cup (CaReportVsMany(satellites, w) \ {None}),
                      NEW event \in report
               PROVE  \E e1, e2 \in Answers(satellites, w) \cup ({Answer(held, w)} \ {None}) :
                        /\ event.of = {e1.satellite_id, e2.satellite_id}
                        /\ Together(e1, e2, event.start)
    BY DEF ApproachesReal
  <2>1. CASE report = CaReportVsOne(satellites, held, w)
    <3>1. /\ Answer(held, w) # None
          /\ \E other \in Answers(Candidates(satellites, held), w) :
               event \in CloseApproach(Answer(held, w), other)
      BY <2>1 DEF CaReportVsOne, VsOne
    <3>2. Answers(Candidates(satellites, held), w) \subseteq Answers(satellites, w)
      BY DEF Answers, Candidates, Restrict
    <3> QED BY <3>1, <3>2, AnswersTyped, CloseApproachReal
  <2>2. CASE report \in CaReportVsMany(satellites, w) \ {None}
    <3>1. PICK list \in AnswerLists(satellites, w) :
            \E i, j \in DOMAIN list : event \in Screened(satellites, list[i], list[j])
      BY <2>2 DEF CaReportVsMany, VsMany
    <3>2. PICK i \in DOMAIN list, j \in DOMAIN list :
            event \in CloseApproach(list[i], list[j])
      BY <3>1 DEF Screened
    <3>3. \A m \in DOMAIN list : list[m] \in Answers(satellites, w)
      <4>1. PICK order : /\ DOMAIN list = DOMAIN order
                         /\ \A m \in DOMAIN order :
                              /\ order[m] \in Answering(w)
                              /\ list[m] = Answer(satellites[order[m]], w)
        BY ListedAnswers
      <4>2. \A k \in Answering(w) : Answer(satellites[k], w) \in Answers(satellites, w)
        BY DEF Answering, Answers, Keys
      <4> QED BY <4>1, <4>2
    <3> QED BY <3>2, <3>3, AnswersTyped, CloseApproachReal
  <2> QED BY <2>1, <2>2
<1> QED BY <1>1, Invariant, PTL

-----------------------------------------------------------------------------
(* Two satellites the screening leaves out are never near while their      *)
(* ephemerides keep to the altitudes of their elements.                    *)
LEMMA ScreenedAreApart ==
  ASSUME NEW a \in Satellite, NEW b \in Satellite, ~Comparable(a, b),
         NEW e1 \in Ephemeris, NEW e2 \in Ephemeris, Bounds(a, e1), Bounds(b, e2)
  PROVE  CloseApproach(e1, e2) = {}
<1>1. ASSUME NEW t \in Near(e1, e2) PROVE FALSE
  <2>1. Together(e1, e2, t)
    BY <1>1, NearFacts
  <2>2. t \in e1.start..e1.end /\ t \in e2.start..e2.end
    BY <2>1 DEF Together
  <2> DEFINE x == Position[e1.orbit][t]
             y == Position[e2.orbit][t]
  <2>3. x \in Int /\ y \in Int /\ Threshold \in Nat
    BY <2>2, InsideFacts, ConstellationAssumption
  <2>4. /\ a.keplerian_state # None /\ b.keplerian_state # None
        /\ Periapsis(a) <= x /\ x <= Apoapsis(a)
        /\ Periapsis(b) <= y /\ y <= Apoapsis(b)
    BY <2>2 DEF Bounds
  <2>5. /\ Periapsis(a) \in Int /\ Apoapsis(a) \in Int
        /\ Periapsis(b) \in Int /\ Apoapsis(b) \in Int
    BY <2>4, ConstellationAssumption DEF Satellite, Periapsis, Apoapsis
  <2>6. Distance(x, y) < Threshold
    BY <2>1 DEF Together
  <2>7. \/ Apoapsis(a) < Periapsis(b) - Threshold
        \/ Apoapsis(b) < Periapsis(a) - Threshold
    BY <2>4 DEF Comparable
  <2> HIDE DEF x, y
  <2> QED BY <2>3, <2>4, <2>5, <2>6, <2>7 DEF Distance
<1> QED BY <1>1, CloseApproachIs

LEMMA ComparableSymmetric ==
  ASSUME NEW a, NEW b
  PROVE  Comparable(a, b) <=> Comparable(b, a)
BY DEF Comparable

-----------------------------------------------------------------------------
(* Two ephemerides of one range.                                           *)
Matched(e1, e2) ==
  /\ e1 \in Ephemeris /\ e2 \in Ephemeris
  /\ e1.start = e2.start /\ e1.end = e2.end /\ e1.start <= e1.end

LEMMA AlignedAnswers ==
  ASSUME NEW w \in Windows, NEW sats \in SUBSET Satellite, Aligned(sats, w),
         NEW a \in sats, NEW b \in sats, Answer(a, w) # None, Answer(b, w) # None
  PROVE  /\ Matched(Answer(a, w), Answer(b, w))
         /\ Answer(a, w).satellite_id = a.id
<1>1. PICK r \in Ranges : \A sat \in sats : Answer(sat, w) # None =>
        /\ Answer(sat, w).start = r.start /\ Answer(sat, w).end = r.end
        /\ Answer(sat, w).satellite_id = sat.id
  BY DEF Aligned
<1>2. /\ Answer(a, w) \in Ephemeris /\ Covers(Answer(a, w), w)
      /\ Answer(b, w) \in Ephemeris
  BY WindowFacts, AnswerFacts
<1>3. Answer(a, w).start <= Answer(a, w).end
  BY <1>2, WindowFacts, InsideFacts DEF Covers
<1> QED BY <1>1, <1>2, <1>3 DEF Matched

(* The search looks at every epoch of the common range, and ends at the    *)
(* first of those with the least distance.                                 *)
LEMMA MatchedNear ==
  ASSUME NEW e1, NEW e2, Matched(e1, e2)
  PROVE  \A t : t \in Near(e1, e2) <=> e1.orbit # e2.orbit /\ Together(e1, e2, t)
<1>1. e1 \in Ephemeris /\ e2 \in Ephemeris
  BY DEF Matched
<1>2. ASSUME NEW t, e1.orbit # e2.orbit, Together(e1, e2, t) PROVE t \in Near(e1, e2)
  <2>1. t \in (e1.start..e1.end) \cap (e2.start..e2.end)
    BY <1>2 DEF Together
  <2>2. \A u \in e1.start..t : u \in Nat /\ u \in e2.start..e2.end
    BY <1>1, <2>1, InsideFacts DEF Matched
  <2>3. \A u \in e1.start..t : Clamped(e2, u) = u
    BY <1>1, <2>2, InsideFacts
  <2>4. Separation(e1, e2, t) < Threshold
    BY <1>1, <1>2, <2>1, SeparationFacts DEF Together
  <2> QED BY <1>2, <2>1, <2>3, <2>4 DEF Near, Searched
<1> QED BY <1>1, <1>2, NearFacts

LEMMA MatchedApproaches ==
  ASSUME NEW e1, NEW e2, Matched(e1, e2), NEW event
  PROVE  event \in CloseApproach(e1, e2) <=>
           /\ e1.orbit # e2.orbit
           /\ \E t \in Epochs : Approach(e1, e2, t) /\ event = Event(e1, e2, t, t)
<1>1. e1 \in Ephemeris /\ e2 \in Ephemeris
  BY DEF Matched
<1> DEFINE m == Min(Closest(e1, e2))
           near == Near(e1, e2)
           sep(t) == Separation(e1, e2, t)
<1>2. \A t \in near : t \in Nat /\ t \in Epochs /\ sep(t) \in Nat
  BY <1>1, NearFacts, SeparationFacts, InsideFacts DEF Together
<1>3. \A t : Approach(e1, e2, t) /\ e1.orbit # e2.orbit <=>
        /\ t \in near
        /\ \A u \in near : sep(t) < sep(u) \/ (sep(t) = sep(u) /\ t <= u)
  BY <1>2, MatchedNear DEF Approach
<1>4. \A t : t \in Closest(e1, e2) <=> t \in near /\ \A u \in near : sep(t) <= sep(u)
  BY DEF Closest
<1>5. near # {} => m \in Closest(e1, e2) /\ \A u \in Closest(e1, e2) : m <= u
  BY <1>1, NearFacts
<1>6. event \in CloseApproach(e1, e2) <=> near # {} /\ event = Event(e1, e2, m, m)
  BY CloseApproachIs
<1> HIDE DEF m, near, sep
<1>7. near # {} => Approach(e1, e2, m) /\ e1.orbit # e2.orbit /\ m \in Epochs
  BY <1>2, <1>3, <1>4, <1>5
<1>8. ASSUME NEW t, Approach(e1, e2, t), e1.orbit # e2.orbit PROVE near # {} /\ t = m
  <2>1. t \in near /\ t \in Closest(e1, e2)
    BY <1>2, <1>3, <1>4, <1>8
  <2>2. m \in near /\ sep(m) <= sep(t) /\ m <= t
    BY <1>4, <1>5, <2>1
  <2>3. sep(t) < sep(m) \/ (sep(t) = sep(m) /\ t <= m)
    BY <1>3, <1>8, <2>2
  <2> QED BY <1>2, <2>1, <2>2, <2>3
<1> QED BY <1>6, <1>7, <1>8

LEMMA MatchedProximity ==
  ASSUME NEW e1, NEW e2, Matched(e1, e2), NEW event
  PROVE  event \in ProximityEvent(e1, e2) <=>
           /\ \A t \in e1.start..e1.end :
                Distance(Position[e1.orbit][t], Position[e2.orbit][t]) <= Threshold
           /\ event = Event(e1, e2, e1.start, e1.end)
<1>1. e1 \in Ephemeris /\ e2 \in Ephemeris
  BY DEF Matched
<1>2. \A t \in e1.start..e1.end : t \in (e1.start..e1.end) \cap (e2.start..e2.end)
  BY DEF Matched
<1>3. \A t \in e1.start..e1.end : Clamped(e2, t) = t
  BY <1>1, <1>2, InsideFacts
<1>4. e1.start \in e1.start..e1.end /\ e1.end \in e1.start..e1.end
  BY <1>1, InsideFacts DEF Matched
<1>5. {e1.start, e1.end} \cup {t \in e1.start..e1.end : Clamped(e2, t) = t} = e1.start..e1.end
  BY <1>3, <1>4
<1>6. \A t \in e1.start..e1.end :
        Separation(e1, e2, t) = Distance(Position[e1.orbit][t], Position[e2.orbit][t])
  BY <1>1, <1>2, SeparationFacts
<1> QED BY <1>5, <1>6 DEF ProximityEvent

(* It does not matter which of the two comes first.                        *)
LEMMA MatchedSymmetric ==
  ASSUME NEW e1, NEW e2, Matched(e1, e2)
  PROVE  /\ Matched(e2, e1)
         /\ CloseApproach(e1, e2) = CloseApproach(e2, e1)
         /\ ProximityEvent(e1, e2) = ProximityEvent(e2, e1)
<1>1. e1 \in Ephemeris /\ e2 \in Ephemeris /\ Matched(e2, e1)
  BY DEF Matched
<1>2. \A s, t : Event(e1, e2, s, t) = Event(e2, e1, s, t)
  BY DEF Event
<1>3. \A t \in (e1.start..e1.end) \cap (e2.start..e2.end) :
        /\ Separation(e1, e2, t) = Separation(e2, e1, t)
        /\ Distance(Position[e1.orbit][t], Position[e2.orbit][t])
             = Distance(Position[e2.orbit][t], Position[e1.orbit][t])
  BY <1>1, SeparationFacts
<1>4. \A t : Together(e1, e2, t) <=> Together(e2, e1, t)
  BY <1>3 DEF Together
<1>5. \A t : Approach(e1, e2, t) <=> Approach(e2, e1, t)
  <2>1. \A t : Together(e1, e2, t) => Separation(e1, e2, t) = Separation(e2, e1, t)
    BY <1>3 DEF Together
  <2> QED BY <1>4, <2>1 DEF Approach
<1>6. CloseApproach(e1, e2) = CloseApproach(e2, e1)
  <2>1. \A event : event \in CloseApproach(e1, e2) <=> event \in CloseApproach(e2, e1)
    BY <1>1, <1>2, <1>5, MatchedApproaches
  <2> QED BY <2>1 DEF CloseApproach
<1>7. ProximityEvent(e1, e2) = ProximityEvent(e2, e1)
  <2>1. \A t \in e1.start..e1.end : t \in (e1.start..e1.end) \cap (e2.start..e2.end)
    BY DEF Matched
  <2>2. \A event : event \in ProximityEvent(e1, e2) <=> event \in ProximityEvent(e2, e1)
    BY <1>1, <1>2, <1>3, <2>1, MatchedProximity DEF Matched
  <2> QED BY <2>2 DEF ProximityEvent
<1> QED BY <1>1, <1>6, <1>7

-----------------------------------------------------------------------------
(* What the reference definitions hold, pair by pair.                      *)
AllMatched(pairs) == \A p \in pairs : None \notin {p[1], p[2]} => Matched(p[1], p[2])

LEMMA ApproachesOfPairs ==
  ASSUME NEW pairs, AllMatched(pairs), NEW event
  PROVE  event \in AllApproaches(pairs) <=>
           \E p \in pairs : /\ None \notin {p[1], p[2]}
                           /\ event \in CloseApproach(p[1], p[2])
<1>1. event \in AllApproaches(pairs) <=>
        \E p \in pairs : /\ None \notin {p[1], p[2]} /\ p[1].orbit # p[2].orbit
                        /\ \E t \in Epochs : /\ Approach(p[1], p[2], t)
                                             /\ event = Event(p[1], p[2], t, t)
  BY DEF AllApproaches
<1>2. ASSUME NEW p \in pairs, None \notin {p[1], p[2]}
      PROVE  event \in CloseApproach(p[1], p[2]) <=>
               /\ p[1].orbit # p[2].orbit
               /\ \E t \in Epochs : /\ Approach(p[1], p[2], t)
                                    /\ event = Event(p[1], p[2], t, t)
  BY <1>2, MatchedApproaches DEF AllMatched
<1> QED BY <1>1, <1>2

LEMMA NearOfPairs ==
  ASSUME NEW pairs, AllMatched(pairs), NEW event
  PROVE  event \in AllNear(pairs) <=>
           \E p \in pairs : /\ None \notin {p[1], p[2]}
                           /\ event \in ProximityEvent(p[1], p[2])
<1>1. event \in AllNear(pairs) <=>
        \E p \in pairs :
          /\ None \notin {p[1], p[2]}
          /\ \A t \in p[1].start..p[1].end :
               Distance(Position[p[1].orbit][t], Position[p[2].orbit][t]) <= Threshold
          /\ event = Event(p[1], p[2], p[1].start, p[1].end)
  BY DEF AllNear
<1>2. ASSUME NEW p \in pairs, None \notin {p[1], p[2]}
      PROVE  event \in ProximityEvent(p[1], p[2]) <=>
               /\ \A t \in p[1].start..p[1].end :
                    Distance(Position[p[1].orbit][t], Position[p[2].orbit][t]) <= Threshold
               /\ event = Event(p[1], p[2], p[1].start, p[1].end)
  BY <1>2, MatchedProximity DEF AllMatched
<1> QED BY <1>1, <1>2

(* Each order of the answers lists every satellite that answers, once.     *)
LEMMA OrderIsOnto ==
  ASSUME Inv, NEW w
  PROVE  /\ Lists!SetToSeqs(Answering(w)) # {}
         /\ \A order \in Lists!SetToSeqs(Answering(w)) :
              /\ DOMAIN order \subseteq Nat
              /\ \A i \in DOMAIN order : order[i] \in Answering(w)
              /\ \A i, j \in DOMAIN order : i # j => order[i] # order[j]
              /\ \A k \in Answering(w) : \E i \in DOMAIN order : order[i] = k
<1> DEFINE S == Answering(w)
           D == 1..Cardinality(S)
<1>1. IsFiniteSet(S)
  <2>1. S \subseteq Ids
    BY DEF Answering, Inv, TypeOK
  <2> QED BY <2>1, ConstellationAssumption, FS_Subset
<1> HIDE DEF S
<1>2. Cardinality(S) \in Nat /\ ExistsBijection(D, S)
  BY <1>1, FS_CardinalityType
<1>3. Lists!SetToSeqs(S) =
        {f \in [D -> S] : \A i, j \in D : i # j => f[i] # f[j]}
  BY SameCardinality DEF Lists!SetToSeqs
<1>4. Cardinality(D) = Cardinality(S)
  BY <1>2, FS_Interval
<1>5. D \subseteq Nat
  BY <1>2
<1> HIDE DEF D
<1>6. Lists!SetToSeqs(S) = Injection(D, S)
  <2>1. \A f \in [D -> S] : (\A i, j \in D : i # j => f[i] # f[j]) <=> IsInjective(f)
    BY DEF IsInjective
  <2> QED BY <1>3, <2>1 DEF Injection
<1>7. Injection(D, S) # {}
  BY <1>2 DEF ExistsBijection, Bijection
<1>8. ASSUME NEW order \in Injection(D, S) PROVE order \in Surjection(D, S)
  BY <1>1, <1>4, <1>8, FS_Injection
<1>9. ASSUME NEW order \in Injection(D, S)
      PROVE  /\ DOMAIN order = D /\ order \in [D -> S]
             /\ \A i, j \in D : i # j => order[i] # order[j]
             /\ \A k \in S : \E i \in D : order[i] = k
  BY <1>8 DEF Injection, IsInjective, Surjection
<1> QED BY <1>5, <1>6, <1>7, <1>9 DEF S

(* Two members of a list are the answers of a pair, and the answers of     *)
(* each pair are two members, in one order or the other.                   *)
LEMMA ListedPairs ==
  ASSUME Inv, NEW w \in Windows, NEW list \in AnswerLists(satellites, w)
  PROVE  /\ \A i, j \in DOMAIN list : i < j =>
              \E k, l \in Keys : /\ k # l
                                /\ list[i] = Answer(satellites[k], w) /\ list[i] # None
                                /\ list[j] = Answer(satellites[l], w) /\ list[j] # None
         /\ \A k, l \in Answering(w) : k # l =>
              \E i, j \in DOMAIN list :
                /\ i < j
                /\ \/ /\ list[i] = Answer(satellites[k], w)
                      /\ list[j] = Answer(satellites[l], w)
                   \/ /\ list[i] = Answer(satellites[l], w)
                      /\ list[j] = Answer(satellites[k], w)
<1>1. PICK order \in Lists!SetToSeqs(Answering(w)) :
        /\ DOMAIN list = DOMAIN order
        /\ \A i \in DOMAIN order : /\ order[i] \in Answering(w)
                                  /\ list[i] = Answer(satellites[order[i]], w)
  BY ListedAnswers
<1>2. /\ DOMAIN order \subseteq Nat
      /\ \A i, j \in DOMAIN order : i # j => order[i] # order[j]
      /\ \A k \in Answering(w) : \E i \in DOMAIN order : order[i] = k
  BY OrderIsOnto
<1>3. \A k \in Answering(w) : k \in Keys /\ Answer(satellites[k], w) # None
  BY DEF Answering
<1>4. ASSUME NEW i \in DOMAIN list, NEW j \in DOMAIN list, i < j
      PROVE  \E k, l \in Keys : /\ k # l
                               /\ list[i] = Answer(satellites[k], w) /\ list[i] # None
                               /\ list[j] = Answer(satellites[l], w) /\ list[j] # None
  <2>1. order[i] # order[j]
    BY <1>1, <1>2, <1>4
  <2> QED BY <1>1, <1>3, <1>4, <2>1
<1>5. ASSUME NEW k \in Answering(w), NEW l \in Answering(w), k # l
      PROVE  \E i, j \in DOMAIN list :
                /\ i < j
                /\ \/ /\ list[i] = Answer(satellites[k], w)
                      /\ list[j] = Answer(satellites[l], w)
                   \/ /\ list[i] = Answer(satellites[l], w)
                      /\ list[j] = Answer(satellites[k], w)
  <2>1. PICK i \in DOMAIN order : order[i] = k
    BY <1>2
  <2>2. PICK j \in DOMAIN order : order[j] = l
    BY <1>2
  <2>3. i \in Nat /\ j \in Nat /\ i # j
    BY <1>2, <1>5, <2>1, <2>2
  <2>4. i < j \/ j < i
    BY <2>3
  <2> QED BY <1>1, <2>1, <2>2, <2>4
<1> QED BY <1>4, <1>5

-----------------------------------------------------------------------------
(* The pairs of the members, and of the caller's satellite with some.      *)
LEMMA PairsMatched ==
  ASSUME Inv, NEW w \in Windows, Aligned(Members, w), NEW keys \in SUBSET Keys
  PROVE  /\ AllMatched(Pairs(w, keys))
         /\ \A k, l \in Answering(w) :
              Matched(Answer(satellites[k], w), Answer(satellites[l], w))
         /\ \A p : p \in Pairs(w, keys) /\ None \notin {p[1], p[2]} <=>
              \E k, l \in Answering(w) \cap keys :
                k # l /\ p = <<Answer(satellites[k], w), Answer(satellites[l], w)>>
<1>1. Members \in SUBSET Satellite
  BY DEF Members, Inv, TypeOK
<1>2. \A k, l \in Answering(w) :
        Matched(Answer(satellites[k], w), Answer(satellites[l], w))
  BY <1>1, AlignedAnswers DEF Members, Answering
<1>3. \A p : p \in Pairs(w, keys) <=>
        \E k, l \in keys : k # l /\ p = <<Answer(satellites[k], w), Answer(satellites[l], w)>>
  <2> DEFINE indices == {q \in keys \X keys : q[1] # q[2]}
  <2>1. \A p : p \in Pairs(w, keys) <=>
          \E q \in indices : p = <<Answer(satellites[q[1]], w), Answer(satellites[q[2]], w)>>
    BY DEF Pairs
  <2>2. \A k, l \in keys : k # l => <<k, l>> \in indices
    OBVIOUS
  <2>3. \A q \in indices : q[1] \in keys /\ q[2] \in keys /\ q[1] # q[2]
    OBVIOUS
  <2>4. \A k, l : <<k, l>>[1] = k /\ <<k, l>>[2] = l
    OBVIOUS
  <2> HIDE DEF indices
  <2>5. ASSUME NEW p, p \in Pairs(w, keys)
        PROVE  \E k, l \in keys :
                 k # l /\ p = <<Answer(satellites[k], w), Answer(satellites[l], w)>>
    BY <2>1, <2>3, <2>5
  <2>6. ASSUME NEW k \in keys, NEW l \in keys, k # l
        PROVE  <<Answer(satellites[k], w), Answer(satellites[l], w)>> \in Pairs(w, keys)
    BY <2>1, <2>2, <2>4, <2>6
  <2> QED BY <2>5, <2>6
<1>4. \A k, l \in Keys :
        None \notin {Answer(satellites[k], w), Answer(satellites[l], w)}
          <=> k \in Answering(w) /\ l \in Answering(w)
  BY DEF Answering
<1>5. \A p : p \in Pairs(w, keys) /\ None \notin {p[1], p[2]} <=>
        \E k, l \in Answering(w) \cap keys :
          k # l /\ p = <<Answer(satellites[k], w), Answer(satellites[l], w)>>
  <2>1. keys \subseteq Keys
    OBVIOUS
  <2> QED BY <1>3, <1>4, <2>1
<1>6. AllMatched(Pairs(w, keys))
  BY <1>2, <1>5 DEF AllMatched
<1> QED BY <1>2, <1>5, <1>6

LEMMA HeldMatched ==
  ASSUME Inv, NEW w \in Windows, Aligned(Members \cup {held}, w), NEW keys \in SUBSET Keys
  PROVE  /\ AllMatched(WithHeld(w, keys))
         /\ \A k \in keys : Answer(held, w) # None /\ Answer(satellites[k], w) # None =>
              Matched(Answer(held, w), Answer(satellites[k], w))
         /\ \A p : p \in WithHeld(w, keys) /\ None \notin {p[1], p[2]} <=>
              \E k \in keys : /\ Answer(held, w) # None /\ Answer(satellites[k], w) # None
                             /\ p = <<Answer(held, w), Answer(satellites[k], w)>>
<1>1. /\ Members \cup {held} \in SUBSET Satellite /\ held \in Members \cup {held}
      /\ \A k \in keys : satellites[k] \in Members \cup {held}
  BY DEF Members, Inv, TypeOK
<1>2. ASSUME NEW k \in keys, Answer(held, w) # None, Answer(satellites[k], w) # None
      PROVE  Matched(Answer(held, w), Answer(satellites[k], w))
  <2> DEFINE sats == Members \cup {held}
  <2>1. sats \in SUBSET Satellite /\ held \in sats /\ satellites[k] \in sats
    BY <1>1
  <2> HIDE DEF sats
  <2>2. Aligned(sats, w)
    BY DEF sats
  <2> QED BY <1>2, <2>1, <2>2, AlignedAnswers
<1>3. \A p : p \in WithHeld(w, keys) <=>
        \E k \in keys : p = <<Answer(held, w), Answer(satellites[k], w)>>
  BY DEF WithHeld
<1>4. \A p : p \in WithHeld(w, keys) /\ None \notin {p[1], p[2]} <=>
        \E k \in keys : /\ Answer(held, w) # None /\ Answer(satellites[k], w) # None
                       /\ p = <<Answer(held, w), Answer(satellites[k], w)>>
  BY <1>3
<1>5. AllMatched(WithHeld(w, keys))
  BY <1>2, <1>4 DEF AllMatched
<1> QED BY <1>2, <1>4, <1>5

(* The satellite an ephemeris names is found under its key, and the two    *)
(* ways to look at a pair are one.                                         *)
LEMMA ScreenedPair ==
  ASSUME Inv, NEW w \in Windows, WellKeyed, Aligned(Members, w),
         NEW k \in Answering(w), NEW l \in Answering(w)
  PROVE  /\ Screened(satellites, Answer(satellites[k], w), Answer(satellites[l], w))
              = IF Comparable(satellites[k], satellites[l])
                THEN CloseApproach(Answer(satellites[k], w), Answer(satellites[l], w)) ELSE {}
         /\ Screened(satellites, Answer(satellites[k], w), Answer(satellites[l], w))
              = Screened(satellites, Answer(satellites[l], w), Answer(satellites[k], w))
<1> DEFINE a == satellites[k]
           b == satellites[l]
<1>1. /\ Members \in SUBSET Satellite /\ a \in Members /\ b \in Members
      /\ a.id = k /\ b.id = l /\ Answer(a, w) # None /\ Answer(b, w) # None
  BY DEF Members, Inv, TypeOK, WellKeyed, Answering
<1>2. /\ Answer(a, w).satellite_id = k /\ Answer(b, w).satellite_id = l
      /\ Matched(Answer(a, w), Answer(b, w))
  BY <1>1, AlignedAnswers
<1>3. CloseApproach(Answer(a, w), Answer(b, w)) = CloseApproach(Answer(b, w), Answer(a, w))
  BY <1>2, MatchedSymmetric
<1>4. Comparable(a, b) <=> Comparable(b, a)
  BY ComparableSymmetric
<1> QED BY <1>2, <1>3, <1>4 DEF Screened

(* What any order of the answers reports: the approaches of the pairs that *)
(* are compared.                                                           *)
Compared(w) ==
  UNION {Screened(satellites, Answer(satellites[p[1]], w), Answer(satellites[p[2]], w)) :
           p \in {p \in Answering(w) \X Answering(w) : p[1] # p[2]}}

LEMMA ComparedIs ==
  ASSUME NEW w
  PROVE  \A event : event \in Compared(w) <=>
           \E k, l \in Answering(w) :
             /\ k # l
             /\ event \in Screened(satellites, Answer(satellites[k], w), Answer(satellites[l], w))
<1> DEFINE indices == {p \in Answering(w) \X Answering(w) : p[1] # p[2]}
<1>1. \A event : event \in Compared(w) <=> \E p \in indices :
        event \in Screened(satellites, Answer(satellites[p[1]], w), Answer(satellites[p[2]], w))
  BY DEF Compared
<1>2. \A k, l \in Answering(w) : k # l =>
        <<k, l>> \in indices /\ <<k, l>>[1] = k /\ <<k, l>>[2] = l
  OBVIOUS
<1>3. \A p \in indices : p[1] \in Answering(w) /\ p[2] \in Answering(w) /\ p[1] # p[2]
  OBVIOUS
<1> HIDE DEF indices
<1>4. ASSUME NEW k \in Answering(w), NEW l \in Answering(w), k # l, NEW event,
             event \in Screened(satellites, Answer(satellites[k], w), Answer(satellites[l], w))
      PROVE  event \in Compared(w)
  <2> DEFINE p == <<k, l>>
  <2>1. p \in indices /\ p[1] = k /\ p[2] = l
    BY <1>2, <1>4
  <2> HIDE DEF p
  <2> QED BY <1>1, <1>4, <2>1
<1>5. ASSUME NEW event \in Compared(w)
      PROVE  \E k, l \in Answering(w) :
               /\ k # l
               /\ event \in Screened(satellites, Answer(satellites[k], w), Answer(satellites[l], w))
  BY <1>1, <1>3
<1> QED BY <1>4, <1>5

(* The approaches of the pairs of some keys, pair by pair.                 *)
LEMMA ApproachesOfKeys ==
  ASSUME Inv, NEW w \in Windows, Aligned(Members, w), NEW keys \in SUBSET Keys
  PROVE  \A event : event \in AllApproaches(Pairs(w, keys)) <=>
           \E k, l \in Answering(w) \cap keys :
             /\ k # l
             /\ event \in CloseApproach(Answer(satellites[k], w), Answer(satellites[l], w))
<1>1. \A event : event \in AllApproaches(Pairs(w, keys)) <=>
        \E p : /\ p \in Pairs(w, keys) /\ None \notin {p[1], p[2]}
              /\ event \in CloseApproach(p[1], p[2])
  BY PairsMatched, ApproachesOfPairs
<1>2. \A p : p \in Pairs(w, keys) /\ None \notin {p[1], p[2]} <=>
        \E k, l \in Answering(w) \cap keys :
          k # l /\ p = <<Answer(satellites[k], w), Answer(satellites[l], w)>>
  BY PairsMatched
<1>3. \A a, b : <<a, b>>[1] = a /\ <<a, b>>[2] = b
  OBVIOUS
<1>4. ASSUME NEW event, NEW k \in Answering(w) \cap keys, NEW l \in Answering(w) \cap keys,
             k # l, event \in CloseApproach(Answer(satellites[k], w), Answer(satellites[l], w))
      PROVE  event \in AllApproaches(Pairs(w, keys))
  <2> DEFINE p == <<Answer(satellites[k], w), Answer(satellites[l], w)>>
  <2>1. p[1] = Answer(satellites[k], w) /\ p[2] = Answer(satellites[l], w)
    OBVIOUS
  <2>2. p \in Pairs(w, keys) /\ None \notin {p[1], p[2]}
    BY <1>2, <1>4
  <2> HIDE DEF p
  <2>3. event \in CloseApproach(p[1], p[2])
    BY <1>4, <2>1
  <2> QED BY <1>1, <2>2, <2>3
<1>5. ASSUME NEW event \in AllApproaches(Pairs(w, keys))
      PROVE  \E k, l \in Answering(w) \cap keys :
               /\ k # l
               /\ event \in CloseApproach(Answer(satellites[k], w), Answer(satellites[l], w))
  <2>1. PICK p : /\ p \in Pairs(w, keys) /\ None \notin {p[1], p[2]}
                 /\ event \in CloseApproach(p[1], p[2])
    BY <1>1
  <2>2. PICK k \in Answering(w) \cap keys, l \in Answering(w) \cap keys :
          k # l /\ p = <<Answer(satellites[k], w), Answer(satellites[l], w)>>
    BY <1>2, <2>1
  <2> QED BY <1>3, <2>1, <2>2
<1> QED BY <1>4, <1>5

(* The comparison keeps every approach of a pair whose altitudes hold.     *)
LEMMA ComparedBetween ==
  ASSUME Inv, NEW w \in Windows, WellKeyed, Aligned(Members, w)
  PROVE  /\ Compared(w) \subseteq AllApproaches(Pairs(w, Keys))
         /\ AllApproaches(Pairs(w, BoundedKeys(w))) \subseteq Compared(w)
<1>1. ASSUME NEW event \in Compared(w) PROVE event \in AllApproaches(Pairs(w, Keys))
  <2>1. PICK k \in Answering(w), l \in Answering(w) :
          /\ k # l
          /\ event \in Screened(satellites, Answer(satellites[k], w), Answer(satellites[l], w))
    BY ComparedIs
  <2>2. event \in CloseApproach(Answer(satellites[k], w), Answer(satellites[l], w))
    BY <2>1, ScreenedPair
  <2>3. k \in Answering(w) \cap Keys /\ l \in Answering(w) \cap Keys
    BY DEF Answering
  <2> QED BY <2>1, <2>2, <2>3, ApproachesOfKeys
<1>2. ASSUME NEW event \in AllApproaches(Pairs(w, BoundedKeys(w))) PROVE event \in Compared(w)
  <2>1. BoundedKeys(w) \in SUBSET Keys
    BY DEF BoundedKeys
  <2>2. PICK k \in Answering(w) \cap BoundedKeys(w), l \in Answering(w) \cap BoundedKeys(w) :
          /\ k # l
          /\ event \in CloseApproach(Answer(satellites[k], w), Answer(satellites[l], w))
    BY <2>1, ApproachesOfKeys
  <2> DEFINE a == satellites[k]
             b == satellites[l]
  <2>3. a \in Satellite /\ b \in Satellite /\ Answer(a, w) # None /\ Answer(b, w) # None
    BY DEF Inv, TypeOK, Answering
  <2>4. Bounds(a, Answer(a, w)) /\ Bounds(b, Answer(b, w))
    BY <2>3 DEF BoundedKeys, Bounded
  <2>5. Answer(a, w) \in Ephemeris /\ Answer(b, w) \in Ephemeris
    BY <2>3, AnswerFacts, WindowFacts
  <2>6. Comparable(a, b)
    BY <2>2, <2>3, <2>4, <2>5, ScreenedAreApart
  <2>7. event \in Screened(satellites, Answer(a, w), Answer(b, w))
    BY <2>2, <2>6, ScreenedPair
  <2> QED BY <2>2, <2>7, ComparedIs
<1> QED BY <1>1, <1>2

-----------------------------------------------------------------------------
(* The reports.                                                            *)
LEMMA SomeList == ASSUME Inv, NEW w PROVE AnswerLists(satellites, w) # {}
<1>1. PICK order : order \in Lists!SetToSeqs(Answering(w))
  BY OrderIsOnto
<1>2. [i \in DOMAIN order |-> Answer(satellites[order[i]], w)] \in AnswerLists(satellites, w)
  BY <1>1 DEF AnswerLists, Answering, Keys
<1> QED BY <1>2

LEMMA CaVsManyComplete ==
  ASSUME Inv, NEW w \in Windows, WellKeyed, Aligned(Members, w)
  PROVE  CaReportVsMany(satellites, w) = {Compared(w)}
<1> DEFINE Report(list) ==
             UNION {Screened(satellites, list[p[1]], list[p[2]]) :
                      p \in {p \in (DOMAIN list) \X (DOMAIN list) : p[1] < p[2]}}
<1>1. \A e \in Answers(satellites, w) : e.satellite_id \in DOMAIN satellites
  <2>1. Members \in SUBSET Satellite
    BY DEF Members, Inv, TypeOK
  <2>2. ASSUME NEW k \in Keys, Answer(satellites[k], w) # None
        PROVE  Answer(satellites[k], w).satellite_id = k
    BY <2>1, <2>2, AlignedAnswers DEF Members, WellKeyed
  <2> QED BY <2>2 DEF Answers, Keys
<1>2. CaReportVsMany(satellites, w) = {Report(list) : list \in AnswerLists(satellites, w)}
  BY <1>1 DEF CaReportVsMany, VsMany
<1>3. AnswerLists(satellites, w) # {}
  BY SomeList
<1>4. ASSUME NEW list \in AnswerLists(satellites, w)
      PROVE  Report(list) = Compared(w)
  <2>1. \A event : event \in Report(list) <=>
          \E i, j \in DOMAIN list :
            i < j /\ event \in Screened(satellites, list[i], list[j])
    <3> DEFINE indices == {p \in (DOMAIN list) \X (DOMAIN list) : p[1] < p[2]}
    <3>1. \A event : event \in Report(list) <=>
            \E p \in indices : event \in Screened(satellites, list[p[1]], list[p[2]])
      OBVIOUS
    <3>2. \A i, j \in DOMAIN list : i < j => <<i, j>> \in indices
      OBVIOUS
    <3>3. \A p \in indices : p[1] \in DOMAIN list /\ p[2] \in DOMAIN list /\ p[1] < p[2]
      OBVIOUS
    <3> HIDE DEF indices, Report
    <3> QED BY <3>1, <3>2, <3>3
  <2> HIDE DEF Report
  <2>2. ASSUME NEW event \in Report(list) PROVE event \in Compared(w)
    <3>1. PICK i \in DOMAIN list, j \in DOMAIN list :
            i < j /\ event \in Screened(satellites, list[i], list[j])
      BY <2>1
    <3>2. PICK k \in Keys, l \in Keys :
            /\ k # l
            /\ list[i] = Answer(satellites[k], w) /\ list[i] # None
            /\ list[j] = Answer(satellites[l], w) /\ list[j] # None
      BY <3>1, ListedPairs
    <3>3. k \in Answering(w) /\ l \in Answering(w)
      BY <3>2 DEF Answering
    <3> QED BY <3>1, <3>2, <3>3, ComparedIs
  <2>3. ASSUME NEW event \in Compared(w) PROVE event \in Report(list)
    <3>1. PICK k \in Answering(w), l \in Answering(w) :
            /\ k # l
            /\ event \in Screened(satellites, Answer(satellites[k], w), Answer(satellites[l], w))
      BY ComparedIs
    <3>2. event \in Screened(satellites, Answer(satellites[l], w), Answer(satellites[k], w))
      BY <3>1, ScreenedPair
    <3>3. PICK i \in DOMAIN list, j \in DOMAIN list :
            /\ i < j
            /\ \/ /\ list[i] = Answer(satellites[k], w)
                  /\ list[j] = Answer(satellites[l], w)
               \/ /\ list[i] = Answer(satellites[l], w)
                  /\ list[j] = Answer(satellites[k], w)
      BY <3>1, ListedPairs
    <3>4. event \in Screened(satellites, list[i], list[j])
      BY <3>1, <3>2, <3>3
    <3> QED BY <2>1, <3>3, <3>4
  <2> QED BY <2>2, <2>3 DEF Report, Compared
<1> HIDE DEF Report
<1> QED BY <1>2, <1>3, <1>4

LEMMA ProximityVsManyComplete ==
  ASSUME Inv, NEW w \in Windows, Aligned(Members, w)
  PROVE  ProximityReportVsMany(satellites, w) = {AllNear(Pairs(w, Keys))}
<1> DEFINE Report(list) ==
             UNION {ProximityEvent(list[p[1]], list[p[2]]) :
                      p \in {p \in (DOMAIN list) \X (DOMAIN list) : p[1] < p[2]}}
<1>1. ProximityReportVsMany(satellites, w) =
        {Report(list) : list \in AnswerLists(satellites, w)}
  BY DEF ProximityReportVsMany, VsMany
<1>2. AnswerLists(satellites, w) # {}
  BY SomeList
<1>3. ASSUME NEW list \in AnswerLists(satellites, w)
      PROVE  Report(list) = AllNear(Pairs(w, Keys))
  <2>1. \A event : event \in Report(list) <=>
          \E i, j \in DOMAIN list : i < j /\ event \in ProximityEvent(list[i], list[j])
    <3> DEFINE indices == {p \in (DOMAIN list) \X (DOMAIN list) : p[1] < p[2]}
    <3>1. \A event : event \in Report(list) <=>
            \E p \in indices : event \in ProximityEvent(list[p[1]], list[p[2]])
      OBVIOUS
    <3>2. \A i, j \in DOMAIN list : i < j => <<i, j>> \in indices
      OBVIOUS
    <3>3. \A p \in indices : p[1] \in DOMAIN list /\ p[2] \in DOMAIN list /\ p[1] < p[2]
      OBVIOUS
    <3> HIDE DEF indices, Report
    <3> QED BY <3>1, <3>2, <3>3
  <2>2. \A event : event \in AllNear(Pairs(w, Keys)) <=>
          \E k, l \in Answering(w) :
            /\ k # l
            /\ event \in ProximityEvent(Answer(satellites[k], w), Answer(satellites[l], w))
    <3>1. \A event : event \in AllNear(Pairs(w, Keys)) <=>
            \E p : /\ p \in Pairs(w, Keys) /\ None \notin {p[1], p[2]}
                  /\ event \in ProximityEvent(p[1], p[2])
      BY PairsMatched, NearOfPairs
    <3>2. \A p : p \in Pairs(w, Keys) /\ None \notin {p[1], p[2]} <=>
            \E k, l \in Answering(w) :
              k # l /\ p = <<Answer(satellites[k], w), Answer(satellites[l], w)>>
      <4>1. Answering(w) \cap Keys = Answering(w)
        BY DEF Answering
      <4> QED BY <4>1, PairsMatched
    <3>3. \A a, b : <<a, b>>[1] = a /\ <<a, b>>[2] = b
      OBVIOUS
    <3>4. ASSUME NEW event, NEW k \in Answering(w), NEW l \in Answering(w), k # l,
                 event \in ProximityEvent(Answer(satellites[k], w), Answer(satellites[l], w))
          PROVE  event \in AllNear(Pairs(w, Keys))
      <4> DEFINE p == <<Answer(satellites[k], w), Answer(satellites[l], w)>>
      <4>1. p[1] = Answer(satellites[k], w) /\ p[2] = Answer(satellites[l], w)
        OBVIOUS
      <4>2. p \in Pairs(w, Keys) /\ None \notin {p[1], p[2]}
        BY <3>2, <3>4
      <4> HIDE DEF p
      <4>3. event \in ProximityEvent(p[1], p[2])
        BY <3>4, <4>1
      <4> QED BY <3>1, <4>2, <4>3
    <3>5. ASSUME NEW event \in AllNear(Pairs(w, Keys))
          PROVE  \E k, l \in Answering(w) :
                   /\ k # l
                   /\ event \in ProximityEvent(Answer(satellites[k], w), Answer(satellites[l], w))
      <4>1. PICK p : /\ p \in Pairs(w, Keys) /\ None \notin {p[1], p[2]}
                     /\ event \in ProximityEvent(p[1], p[2])
        BY <3>1
      <4>2. PICK k \in Answering(w), l \in Answering(w) :
              k # l /\ p = <<Answer(satellites[k], w), Answer(satellites[l], w)>>
        BY <3>2, <4>1
      <4> QED BY <3>3, <4>1, <4>2
    <3> QED BY <3>4, <3>5
  <2> HIDE DEF Report
  <2>3. ASSUME NEW event \in Report(list) PROVE event \in AllNear(Pairs(w, Keys))
    <3>1. PICK i \in DOMAIN list, j \in DOMAIN list :
            i < j /\ event \in ProximityEvent(list[i], list[j])
      BY <2>1
    <3>2. PICK k \in Keys, l \in Keys :
            /\ k # l
            /\ list[i] = Answer(satellites[k], w) /\ list[i] # None
            /\ list[j] = Answer(satellites[l], w) /\ list[j] # None
      BY <3>1, ListedPairs
    <3>3. k \in Answering(w) /\ l \in Answering(w)
      BY <3>2 DEF Answering
    <3> QED BY <2>2, <3>1, <3>2, <3>3
  <2>4. ASSUME NEW event \in AllNear(Pairs(w, Keys)) PROVE event \in Report(list)
    <3>1. PICK k \in Answering(w), l \in Answering(w) :
            /\ k # l
            /\ event \in ProximityEvent(Answer(satellites[k], w), Answer(satellites[l], w))
      BY <2>2
    <3>2. event \in ProximityEvent(Answer(satellites[l], w), Answer(satellites[k], w))
      BY <3>1, PairsMatched, MatchedSymmetric
    <3>3. PICK i \in DOMAIN list, j \in DOMAIN list :
            /\ i < j
            /\ \/ /\ list[i] = Answer(satellites[k], w)
                  /\ list[j] = Answer(satellites[l], w)
               \/ /\ list[i] = Answer(satellites[l], w)
                  /\ list[j] = Answer(satellites[k], w)
      BY <3>1, ListedPairs
    <3> QED BY <2>1, <3>1, <3>2, <3>3
  <2> QED BY <2>3, <2>4 DEF Report, AllNear
<1> HIDE DEF Report
<1> QED BY <1>1, <1>2, <1>3

(* The pairs of the caller's satellite with the satellites under keys.     *)
LEMMA EventsWithHeld ==
  ASSUME Inv, NEW w \in Windows, Aligned(Members \cup {held}, w), NEW keys \in SUBSET Keys,
         NEW event
  PROVE  /\ event \in AllApproaches(WithHeld(w, keys)) <=>
              \E k \in keys : /\ Answer(held, w) # None /\ Answer(satellites[k], w) # None
                             /\ event \in CloseApproach(Answer(held, w), Answer(satellites[k], w))
         /\ event \in AllNear(WithHeld(w, keys)) <=>
              \E k \in keys : /\ Answer(held, w) # None /\ Answer(satellites[k], w) # None
                             /\ event \in ProximityEvent(Answer(held, w), Answer(satellites[k], w))
<1>1. AllMatched(WithHeld(w, keys))
  BY HeldMatched
<1>2. \A p : p \in WithHeld(w, keys) /\ None \notin {p[1], p[2]} <=>
        \E k \in keys : /\ Answer(held, w) # None /\ Answer(satellites[k], w) # None
                       /\ p = <<Answer(held, w), Answer(satellites[k], w)>>
  BY HeldMatched
<1>3. \A a, b : <<a, b>>[1] = a /\ <<a, b>>[2] = b
  OBVIOUS
<1>4. ASSUME NEW k \in keys, Answer(held, w) # None, Answer(satellites[k], w) # None
      PROVE  \E p \in WithHeld(w, keys) :
               /\ None \notin {p[1], p[2]}
               /\ p[1] = Answer(held, w) /\ p[2] = Answer(satellites[k], w)
  <2> DEFINE p == <<Answer(held, w), Answer(satellites[k], w)>>
  <2>1. p[1] = Answer(held, w) /\ p[2] = Answer(satellites[k], w)
    OBVIOUS
  <2>2. p \in WithHeld(w, keys) /\ None \notin {p[1], p[2]}
    BY <1>2, <1>4
  <2> HIDE DEF p
  <2> QED BY <2>1, <2>2
<1>5. ASSUME NEW p \in WithHeld(w, keys), None \notin {p[1], p[2]}
      PROVE  \E k \in keys : /\ Answer(held, w) # None /\ Answer(satellites[k], w) # None
                            /\ p[1] = Answer(held, w) /\ p[2] = Answer(satellites[k], w)
  BY <1>2, <1>3, <1>5
<1>6. event \in AllApproaches(WithHeld(w, keys)) <=>
        \E p \in WithHeld(w, keys) : /\ None \notin {p[1], p[2]}
                                     /\ event \in CloseApproach(p[1], p[2])
  BY <1>1, ApproachesOfPairs
<1>7. event \in AllNear(WithHeld(w, keys)) <=>
        \E p \in WithHeld(w, keys) : /\ None \notin {p[1], p[2]}
                                     /\ event \in ProximityEvent(p[1], p[2])
  BY <1>1, NearOfPairs
<1>8. event \in AllApproaches(WithHeld(w, keys)) <=>
        \E k \in keys : /\ Answer(held, w) # None /\ Answer(satellites[k], w) # None
                       /\ event \in CloseApproach(Answer(held, w), Answer(satellites[k], w))
  <2>1. ASSUME event \in AllApproaches(WithHeld(w, keys))
        PROVE  \E k \in keys :
                 /\ Answer(held, w) # None /\ Answer(satellites[k], w) # None
                 /\ event \in CloseApproach(Answer(held, w), Answer(satellites[k], w))
    BY <1>5, <1>6, <2>1
  <2>2. ASSUME NEW k \in keys, Answer(held, w) # None, Answer(satellites[k], w) # None,
               event \in CloseApproach(Answer(held, w), Answer(satellites[k], w))
        PROVE  event \in AllApproaches(WithHeld(w, keys))
    BY <1>4, <1>6, <2>2
  <2> QED BY <2>1, <2>2
<1>9. event \in AllNear(WithHeld(w, keys)) <=>
        \E k \in keys : /\ Answer(held, w) # None /\ Answer(satellites[k], w) # None
                       /\ event \in ProximityEvent(Answer(held, w), Answer(satellites[k], w))
  <2>1. ASSUME event \in AllNear(WithHeld(w, keys))
        PROVE  \E k \in keys :
                 /\ Answer(held, w) # None /\ Answer(satellites[k], w) # None
                 /\ event \in ProximityEvent(Answer(held, w), Answer(satellites[k], w))
    BY <1>5, <1>7, <2>1
  <2>2. ASSUME NEW k \in keys, Answer(held, w) # None, Answer(satellites[k], w) # None,
               event \in ProximityEvent(Answer(held, w), Answer(satellites[k], w))
        PROVE  event \in AllNear(WithHeld(w, keys))
    BY <1>4, <1>7, <2>2
  <2> QED BY <2>1, <2>2
<1> QED BY <1>8, <1>9

LEMMA CaVsOneComplete ==
  ASSUME Inv, NEW w \in Windows, Aligned(Members \cup {held}, w)
  PROVE  /\ CaReportVsOne(satellites, held, w) \subseteq AllApproaches(WithHeld(w, Others))
         /\ Bounded(held, w) => AllApproaches(WithHeld(w, Others \cap BoundedKeys(w)))
                                  \subseteq CaReportVsOne(satellites, held, w)
<1>1. Others \in SUBSET Keys /\ Others \cap BoundedKeys(w) \in SUBSET Keys
  BY DEF Others
<1>2. \A event : event \in CaReportVsOne(satellites, held, w) <=>
        \E k \in Others : /\ Answer(held, w) # None /\ Answer(satellites[k], w) # None
                         /\ Comparable(held, satellites[k])
                         /\ event \in CloseApproach(Answer(held, w), Answer(satellites[k], w))
  <2>1. Answers(Candidates(satellites, held), w) =
          {Answer(satellites[k], w) : k \in {k \in Others : Comparable(held, satellites[k])}}
            \ {None}
    BY DEF Answers, Candidates, Restrict, Keys, Others
  <2> QED BY <2>1 DEF CaReportVsOne, VsOne
<1>3. ASSUME NEW k \in Others \cap BoundedKeys(w), Bounded(held, w),
             Answer(held, w) # None, Answer(satellites[k], w) # None,
             ~Comparable(held, satellites[k])
      PROVE  CloseApproach(Answer(held, w), Answer(satellites[k], w)) = {}
  <2>1. held \in Satellite /\ satellites[k] \in Satellite
    BY <1>1 DEF Inv, TypeOK
  <2>2. Matched(Answer(held, w), Answer(satellites[k], w))
    BY <1>1, <1>3, HeldMatched
  <2>3. Bounds(held, Answer(held, w)) /\ Bounds(satellites[k], Answer(satellites[k], w))
    BY <1>3 DEF Bounded, BoundedKeys
  <2> QED BY <1>3, <2>1, <2>2, <2>3, ScreenedAreApart DEF Matched
<1>4. ASSUME NEW event \in CaReportVsOne(satellites, held, w)
      PROVE  event \in AllApproaches(WithHeld(w, Others))
  BY <1>1, <1>2, EventsWithHeld
<1>5. ASSUME Bounded(held, w), NEW event \in AllApproaches(WithHeld(w, Others \cap BoundedKeys(w)))
      PROVE  event \in CaReportVsOne(satellites, held, w)
  <2>1. PICK k \in Others \cap BoundedKeys(w) :
          /\ Answer(held, w) # None /\ Answer(satellites[k], w) # None
          /\ event \in CloseApproach(Answer(held, w), Answer(satellites[k], w))
    BY <1>1, EventsWithHeld
  <2>2. Comparable(held, satellites[k])
    BY <1>3, <1>5, <2>1
  <2> QED BY <1>2, <2>1, <2>2
<1> QED BY <1>4, <1>5

LEMMA ProximityVsOneComplete ==
  ASSUME Inv, NEW w \in Windows, Aligned(Members \cup {held}, w)
  PROVE  ProximityReportVsOne(satellites, held, w) = AllNear(WithHeld(w, Keys))
<1>1. \A event : event \in ProximityReportVsOne(satellites, held, w) <=>
        \E k \in Keys : /\ Answer(held, w) # None /\ Answer(satellites[k], w) # None
                       /\ event \in ProximityEvent(Answer(held, w), Answer(satellites[k], w))
  BY DEF ProximityReportVsOne, VsOne, Answers, Keys
<1>2. \A event : event \in ProximityReportVsOne(satellites, held, w) <=>
                  event \in AllNear(WithHeld(w, Keys))
  BY <1>1, EventsWithHeld
<1> QED BY <1>2 DEF ProximityReportVsOne, VsOne, AllNear

LEMMA ManeuversComplete ==
  ASSUME Inv, NEW w \in Windows, Aligned(Members \cup {held}, w), NEW key \in Ids
  PROVE  ManeuverReport(satellites, held, w, key)
           = {event \in AllApproaches(WithHeld(w, Keys \cap {key})) :
                RelativeSpeed(Answer(held, w), Answer(satellites[key], w), event.start)
                  >= VelocityThreshold}
<1> DEFINE e1 == Answer(held, w)
           e2 == Answer(satellites[key], w)
           all == AllApproaches(WithHeld(w, Keys \cap {key}))
<1>1. \A event : event \in all <=>
        /\ key \in Keys /\ e1 # None /\ e2 # None
        /\ event \in CloseApproach(e1, e2)
  BY EventsWithHeld
<1> HIDE DEF all
<1>2. CASE key \in Keys /\ e1 # None /\ e2 # None
  <2>1. Matched(e1, e2)
    BY <1>2, HeldMatched
  <2>2. CloseApproach(e2, e1) = CloseApproach(e1, e2)
    BY <2>1, MatchedSymmetric
  <2>3. ManeuverReport(satellites, held, w, key) = ManeuverEvent(e2, e1)
    BY <1>2 DEF ManeuverReport, Keys
  <2>4. ASSUME NEW event \in CloseApproach(e1, e2)
        PROVE  ~(RelativeSpeed(e2, e1, event.start) < VelocityThreshold)
                 <=> RelativeSpeed(e1, e2, event.start) >= VelocityThreshold
    <3> DEFINE t == event.start
    <3>1. e1 \in Ephemeris /\ e2 \in Ephemeris
      BY <2>1 DEF Matched
    <3>2. Together(e1, e2, t)
      BY <2>4, <3>1, CloseApproachReal
    <3>3. /\ t \in Epochs /\ Clamped(e1, t) = t /\ Clamped(e2, t) = t
          /\ e1.orbit \in Orbits /\ e2.orbit \in Orbits
      BY <3>1, <3>2, InsideFacts DEF Together
    <3> HIDE DEF t
    <3>4. /\ Velocity[e1.orbit][t] \in Int /\ Velocity[e2.orbit][t] \in Int
          /\ VelocityThreshold \in Nat
      BY <3>3, ConstellationAssumption
    <3>5. ~(RelativeSpeed(e2, e1, t) < VelocityThreshold)
            <=> RelativeSpeed(e1, e2, t) >= VelocityThreshold
      BY <3>3, <3>4 DEF RelativeSpeed, Distance
    <3> QED BY <3>5 DEF t
  <2> QED BY <1>1, <1>2, <2>2, <2>3, <2>4 DEF ManeuverEvent, all
<1>3. CASE ~(key \in Keys /\ e1 # None /\ e2 # None)
  <2>1. ManeuverReport(satellites, held, w, key) = {}
    BY <1>3 DEF ManeuverReport, Keys
  <2> QED BY <1>1, <1>3, <2>1 DEF all
<1> QED BY <1>2, <1>3

(* When the ephemerides have one range, however old they are, each report  *)
(* holds approaches of the pairs it is asked for alone and loses none      *)
(* unless altitudes are wrong, and maneuvers and proximities are exact,    *)
(* for any number of satellites and in every order of the HashMap.         *)
THEOREM ReportsCorrect == Spec => []ReportsComplete
<1>1. Inv => ReportsComplete
  <2> SUFFICES ASSUME Inv, NEW w \in Windows
               PROVE  ApproachesComplete(w) /\ ProximityComplete(w)
    BY DEF ReportsComplete
  <2>1. ApproachesComplete(w)
    BY CaVsManyComplete, ComparedBetween, CaVsOneComplete, ManeuversComplete
       DEF ApproachesComplete
  <2>2. ProximityComplete(w)
    BY ProximityVsManyComplete, ProximityVsOneComplete DEF ProximityComplete
  <2> QED BY <2>1, <2>2
<1> QED BY <1>1, Invariant, PTL
=============================================================================
