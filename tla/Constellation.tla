--------------------------- MODULE Constellation ---------------------------
(***************************************************************************)
(* A Constellation (src/src/bodies/constellation.rs), the satellites it    *)
(* holds with their cached ephemerides (src/src/bodies/satellite.rs), one  *)
(* satellite that the caller holds, and the reports that compare them. An  *)
(* orbit is a value that says where a satellite is at every epoch. Failed  *)
(* reloads are left to SaalKeys, states on and off a grid to               *)
(* EphemerisGrid; an ephemeris here is an orbit over a range of epochs.    *)
(***************************************************************************)
EXTENDS Integers, FiniteSetsExt, Functions

Lists == INSTANCE SequencesExt

CONSTANTS
  Ids,        (* satellite ids, also the keys of the constellation         *)
  Orbits,
  Position,   (* of an orbit at an epoch, on one axis                      *)
  Velocity,   (* likewise                                                  *)
  Perigee,    (* of the mean elements of an orbit; its positions need not  *)
  Apogee,     (* lie between the two                                       *)
  Epochs,     (* bound: a set of consecutive naturals                      *)
  Windows,    (* bound: the ranges the caller asks for                     *)
  Settable,   (* bound: the orbits set_keplerian_state is given, each with *)
              (* whether its elements are osculating                       *)
  Fails,      (* pairs of an orbit and an epoch SGP4 cannot reach          *)
  Threshold,  (* distance_threshold of the caller                          *)
  VelocityThreshold,
  Period,     (* of the orbits                                             *)
  None

Ranges == {[start |-> s, end |-> e] : s \in Epochs, e \in Epochs}

ASSUME ConstellationAssumption ==
  /\ IsFiniteSet(Epochs) /\ Epochs \subseteq Nat
  /\ \A s, e \in Epochs : s..e \subseteq Epochs
  /\ IsFiniteSet(Ids)
  /\ Windows \subseteq {w \in Ranges : w.start < w.end}
  /\ Position \in [Orbits -> [Epochs -> Int]] /\ Velocity \in [Orbits -> [Epochs -> Int]]
  /\ Perigee \in [Orbits -> Int] /\ Apogee \in [Orbits -> Int]
  /\ Settable \subseteq Orbits \X BOOLEAN
  /\ Fails \subseteq Orbits \X Epochs
  /\ Threshold \in Nat /\ VelocityThreshold \in Nat
  /\ Period \in Nat \ {0}
  /\ None \notin Ids \cup Orbits

Ephemeris == [satellite_id : Ids, orbit : Orbits, start : Epochs, end : Epochs]

(* keplerian_state, whether it is osculating, and the orbit of the TLE in  *)
(* inertial_propagator.                                                    *)
Satellite ==
  [id : Ids, keplerian_state : Orbits \cup {None}, osculating : BOOLEAN,
   propagator : Orbits \cup {None}, ephemeris_cache : Ephemeris \cup {None}]

VARIABLES
  satellites,   (* a function from some keys to satellites                 *)
  bounds,       (* ephemeris_cache_start and ephemeris_cache_end           *)
  held          (* the caller's own satellite                              *)

vars == <<satellites, bounds, held>>

Keys == DOMAIN satellites

NewSatellite(id, orbit) ==
  [id |-> id, keplerian_state |-> orbit, osculating |-> FALSE,
   propagator |-> orbit, ephemeris_cache |-> None]

Init ==
  /\ \E keys \in SUBSET Ids : \E catalog \in [keys -> Orbits] :
       satellites = [id \in keys |-> NewSatellite(id, catalog[id])]
  /\ \E id \in Ids, orbit \in Orbits \cup {None} : held = NewSatellite(id, orbit)
  /\ bounds = None

-----------------------------------------------------------------------------
(* Satellite::get_ephemeris: the answer, and the satellite after the call. *)
Covers(range, w) == range.start <= w.start /\ w.end <= range.end

Cached(sat, w) == sat.ephemeris_cache # None /\ Covers(sat.ephemeris_cache, w)

PropagatesAlways(sat, t) == <<sat.propagator, t>> \notin Fails

Propagates(sat, t) == sat.propagator # None /\ <<sat.propagator, t>> \notin Fails

CanBuild(sat, w) == \A t \in w.start..w.end : Propagates(sat, t)

Built(sat, w) ==
  [satellite_id |-> sat.id, orbit |-> sat.propagator, start |-> w.start, end |-> w.end]

Answer(sat, w) ==
  IF Cached(sat, w) THEN sat.ephemeris_cache
  ELSE IF CanBuild(sat, w) THEN Built(sat, w) ELSE None

Asked(sat, w) ==
  IF ~Cached(sat, w) /\ CanBuild(sat, w)
  THEN [sat EXCEPT !.ephemeris_cache = Built(sat, w)] ELSE sat

AskedAll(sats, w) == [k \in DOMAIN sats |-> Asked(sats[k], w)]

(* get_ephemeris_list: the answers, in the order the HashMap gives.        *)
Answers(sats, w) == {Answer(sats[k], w) : k \in DOMAIN sats} \ {None}

AnswerLists(sats, w) ==
  LET answering == {k \in DOMAIN sats : Answer(sats[k], w) # None}
  IN  {[i \in DOMAIN order |-> Answer(sats[order[i]], w)] : order \in Lists!SetToSeqs(answering)}

-----------------------------------------------------------------------------
(* Ephemeris: a lookup is clamped to the range, so that two ephemerides    *)
(* may answer with states of two epochs.                                   *)
Clamped(e, t) == IF t < e.start THEN e.start ELSE IF t > e.end THEN e.end ELSE t
PositionAt(e, t) == Position[e.orbit][Clamped(e, t)]
Distance(x, y) == IF x < y THEN y - x ELSE x - y
Separation(e1, e2, t) == Distance(PositionAt(e1, t), PositionAt(e2, t))

Event(e1, e2, s, t) == [of |-> {e1.satellite_id, e2.satellite_id}, start |-> s, end |-> t]

SearchedBoth(e1, e2) == e1.start..e1.end

(* get_close_approach steps over the range of the first and breaks at the  *)
(* first epoch where the states have two epochs. A position stands for the *)
(* step of the search that starts there, its minimum included. Two equal   *)
(* orbits have no relative velocity and the refinement no result.          *)
Searched(e1, e2) ==
  {t \in e1.start..e1.end : \A u \in e1.start..t : Clamped(e2, u) = u}

CloseApproach(e1, e2) ==
  LET near == {t \in Searched(e1, e2) :
                 e1.orbit # e2.orbit /\ Separation(e1, e2, t) < Threshold}
      closest == {t \in near : \A u \in near : Separation(e1, e2, t) <= Separation(e1, e2, u)}
  IN  IF near = {} THEN {} ELSE {Event(e1, e2, Min(closest), Min(closest))}

(* get_proximity_event: the ends of the range of the first, then the       *)
(* extrema of each step where both states have one epoch.                  *)
ProximityEvent(e1, e2) ==
  LET compared == {e1.start, e1.end} \cup {t \in e1.start..e1.end : Clamped(e2, t) = t}
  IN  IF \A t \in compared : Separation(e1, e2, t) <= Threshold
      THEN {Event(e1, e2, e1.start, e1.end)} ELSE {}

-----------------------------------------------------------------------------
(* get_periapsis and get_apoapsis of keplerian_state, and the comparison   *)
(* that leaves out the pairs whose altitudes never meet.                   *)
Periapsis(sat) == Perigee[sat.keplerian_state]
Apoapsis(sat)  == Apogee[sat.keplerian_state]

ComparableWithoutMargin(a, b) ==
  /\ a.keplerian_state # None /\ b.keplerian_state # None
  /\ Apoapsis(a) >= Periapsis(b)
  /\ Apoapsis(b) >= Periapsis(a)

Comparable(a, b) ==
  /\ a.keplerian_state # None /\ b.keplerian_state # None
  /\ ~(Apoapsis(a) < Periapsis(b) - Threshold)
  /\ ~(Apoapsis(b) < Periapsis(a) - Threshold)

(* get_ca_report_vs_one: the candidates are clones, and their caches are   *)
(* lost with them.                                                         *)
Candidates(sats, sat) ==
  Restrict(sats, {k \in DOMAIN sats : Comparable(sat, sats[k]) /\ sats[k].id # sat.id})

VsOne(sats, sat, w, Events(_, _)) ==
  IF Answer(sat, w) = None THEN {}
  ELSE UNION {Events(Answer(sat, w), other) : other \in Answers(sats, w)}

(* The pairs of get_ca_report_vs_many are filtered by the satellites that  *)
(* have the ids of their ephemerides as keys.                              *)
VsMany(list, Events(_, _)) ==
  UNION {Events(list[p[1]], list[p[2]]) :
           p \in {p \in (DOMAIN list) \X (DOMAIN list) : p[1] < p[2]}}

Screened(sats, e1, e2) ==
  IF Comparable(sats[e1.satellite_id], sats[e2.satellite_id]) THEN CloseApproach(e1, e2) ELSE {}

(* What the reports return: the events in each order of the answers, or    *)
(* None for a call that panics because an id is no key.                    *)
CaReportVsOne(sats, sat, w) == VsOne(Candidates(sats, sat), sat, w, CloseApproach)

CaReportVsMany(sats, w) ==
  LET Events(e1, e2) == Screened(sats, e1, e2)
  IN  IF \A e \in Answers(sats, w) : e.satellite_id \in DOMAIN sats
      THEN {VsMany(list, Events) : list \in AnswerLists(sats, w)} ELSE {None}

ProximityReportVsOne(sats, sat, w) == VsOne(sats, sat, w, ProximityEvent)

ProximityReportVsMany(sats, w) ==
  {VsMany(list, ProximityEvent) : list \in AnswerLists(sats, w)}

-----------------------------------------------------------------------------
(* The caller's satellite.                                                 *)
Get(key) ==
  /\ key \in Keys
  /\ held' = satellites[key]
  /\ UNCHANGED <<satellites, bounds>>

SetId(id) ==
  /\ held' = [held EXCEPT !.id = id]
  /\ UNCHANGED <<satellites, bounds>>

(* set_keplerian_state keeps osculating elements and returns an error, and *)
(* keeps mean ones whose TLE SAAL refuses to load and panics; the cache    *)
(* stays in each case.                                                     *)
SetKeplerianState(orbit, osculating) ==
  /\ \E accepted \in BOOLEAN :
       held' = [held EXCEPT !.keplerian_state = orbit, !.osculating = osculating,
                            !.propagator = IF accepted /\ ~osculating THEN orbit ELSE @]
  /\ UNCHANGED <<satellites, bounds>>

(* set_force_properties builds the propagator from keplerian_state again,  *)
(* if SAAL loads it.                                                       *)
SetForceProperties ==
  /\ held.keplerian_state # None /\ ~held.osculating
  /\ \E accepted \in BOOLEAN :
       held' = [held EXCEPT !.propagator = IF accepted THEN held.keplerian_state ELSE @]
  /\ UNCHANGED <<satellites, bounds>>

(* The constellation's satellites.                                         *)
Add(key) ==
  /\ satellites' = [k \in Keys \cup {key} |-> IF k = key THEN held ELSE satellites[k]]
  /\ UNCHANGED <<bounds, held>>

Remove(key) ==
  /\ key \in Keys
  /\ satellites' = Restrict(satellites, Keys \ {key})
  /\ UNCHANGED <<bounds, held>>

Clear ==
  /\ satellites' = <<>>
  /\ UNCHANGED <<bounds, held>>

(* step_to_epoch moves the satellites that can move, those apart whose    *)
(* re-epoched lines SAAL refuses, and returns a new constellation of the   *)
(* moved; the caller goes on with either.                                  *)
Stepped(sat) ==
  [sat EXCEPT !.keplerian_state = sat.propagator, !.osculating = FALSE]

Moved(moved) ==
  [k \in Keys |-> IF k \in moved THEN Stepped(satellites[k]) ELSE satellites[k]]

StepToEpoch(t) ==
  /\ \E moved \in SUBSET {k \in Keys : Propagates(satellites[k], t)} :
       \/ satellites' = Moved(moved) /\ UNCHANGED bounds
       \/ satellites' = Restrict(Moved(moved), moved) /\ bounds' = None
  /\ UNCHANGED held

(* cache_ephemeris, with purge_on_fail or without.                         *)
CacheEphemeris(w, purge) ==
  LET asked == AskedAll(satellites, w)
  IN  /\ satellites' = IF purge THEN Restrict(asked, {k \in Keys : Answer(satellites[k], w) # None})
                       ELSE asked
      /\ bounds' = w
      /\ UNCHANGED held

-----------------------------------------------------------------------------
(* Reports are operators of the state above; what a call changes are the   *)
(* caches. get_ephemeris, get_ephemeris_list, get_horizon_access_report,   *)
(* get_ca_report_vs_many and get_proximity_report_vs_many ask the          *)
(* constellation alone.                                                    *)
AskConstellation(w) ==
  /\ satellites' = AskedAll(satellites, w)
  /\ UNCHANGED <<bounds, held>>

(* get_ca_report_vs_one asks clones of the candidates.                     *)
AskForCaVsOne(w) ==
  /\ held' = Asked(held, w)
  /\ UNCHANGED <<satellites, bounds>>

(* get_proximity_report_vs_one asks the constellation only when the        *)
(* satellite has an ephemeris.                                             *)
AskForProximityVsOne(w) ==
  /\ held' = Asked(held, w)
  /\ satellites' = IF Answer(held, w) = None THEN satellites ELSE AskedAll(satellites, w)
  /\ UNCHANGED bounds

(* get_maneuver_events against a constellation of the caller's satellite.  *)
AskForManeuvers(w) ==
  /\ satellites' = AskedAll(satellites, w)
  /\ held' = Asked(held, w)
  /\ UNCHANGED bounds

(* get_maneuver_event: an approach slower than velocity_threshold is none. *)
RelativeSpeed(e1, e2, t) ==
  Distance(Velocity[e1.orbit][Clamped(e1, t)], Velocity[e2.orbit][Clamped(e2, t)])

ManeuverEvent(e1, e2) ==
  {event \in CloseApproach(e1, e2) : ~(RelativeSpeed(e1, e2, event.start) < VelocityThreshold)}

ManeuverReport(sats, sat, w, key) ==
  IF key \in DOMAIN sats /\ None \notin {Answer(sats[key], w), Answer(sat, w)}
  THEN ManeuverEvent(Answer(sats[key], w), Answer(sat, w)) ELSE {}

UctWindowUnbounded(epoch) ==
  LET end == IF bounds = None THEN epoch ELSE bounds.end
  IN  [start |-> end - Period, end |-> end]

(* get_uct_validity: a period up to the end of the cached range, or to the *)
(* epoch of the state, and not before the cached range.                    *)
UctWindow(epoch) ==
  LET end   == IF bounds = None THEN epoch ELSE bounds.end
      start == end - Period
  IN  [start |-> IF bounds # None /\ bounds.start > start THEN bounds.start ELSE start,
       end |-> end]

UctValidity(epoch) ==
  /\ held.keplerian_state # None
  /\ UctWindow(epoch) \in Ranges
  /\ AskForProximityVsOne(UctWindow(epoch))

-----------------------------------------------------------------------------
Change ==
  \/ \E key \in Ids : Get(key) \/ Add(key) \/ Remove(key)
  \/ \E id \in Ids : SetId(id)
  \/ \E s \in Settable : SetKeplerianState(s[1], s[2])
  \/ SetForceProperties
  \/ Clear
  \/ \E t \in Epochs : StepToEpoch(t)
  \/ \E w \in Windows, purge \in BOOLEAN : CacheEphemeris(w, purge)

Ask(w) ==
  \/ AskConstellation(w)
  \/ AskForCaVsOne(w)
  \/ AskForProximityVsOne(w)
  \/ AskForManeuvers(w)

Next ==
  \/ Change
  \/ \E w \in Windows : Ask(w)
  \/ \E epoch \in Epochs : UctValidity(epoch)

Spec == Init /\ [][Next]_vars

-----------------------------------------------------------------------------
(* The constellation and the caller's satellite have their types.          *)
TypeOK ==
  /\ Keys \subseteq Ids
  /\ \A k \in Keys : satellites[k] \in Satellite
  /\ held \in Satellite
  /\ bounds \in Windows \cup {None}

(* Two ephemerides are nearer than the threshold, neither of them clamped, *)
(* and this is the first epoch at which they are as near as ever.          *)
Together(e1, e2, t) ==
  /\ t \in (e1.start..e1.end) \cap (e2.start..e2.end)
  /\ Distance(Position[e1.orbit][t], Position[e2.orbit][t]) < Threshold

Approach(e1, e2, t) ==
  /\ Together(e1, e2, t)
  /\ \A u \in Epochs : Together(e1, e2, u) =>
       \/ Separation(e1, e2, t) < Separation(e1, e2, u)
       \/ Separation(e1, e2, t) = Separation(e1, e2, u) /\ t <= u

(* Every close approach of a report is one: the two satellites were        *)
(* compared at an epoch both ephemerides cover (get_close_approach stops   *)
(* where one of them is clamped).                                          *)
ApproachesReal ==
  \A w \in Windows :
    LET answers == Answers(satellites, w) \cup ({Answer(held, w)} \ {None})
    IN  \A report \in {CaReportVsOne(satellites, held, w)} \cup (CaReportVsMany(satellites, w) \ {None}) :
          \A event \in report : \E e1, e2 \in answers :
            /\ event.of = {e1.satellite_id, e2.satellite_id}
            /\ Together(e1, e2, event.start)

(* The ephemerides of a set of satellites have one range, and each is of   *)
(* the id its satellite has now; it may be of elements of the past.        *)
Aligned(sats, w) ==
  \E r \in Ranges : \A sat \in sats : LET e == Answer(sat, w) IN
    e # None => e.start = r.start /\ e.end = r.end /\ e.satellite_id = sat.id

(* The altitudes of the elements a satellite has hold for an ephemeris.    *)
Bounds(sat, e) ==
  /\ sat.keplerian_state # None
  /\ \A t \in e.start..e.end :
       Periapsis(sat) <= Position[e.orbit][t] /\ Position[e.orbit][t] <= Apoapsis(sat)

Bounded(sat, w) == Answer(sat, w) # None => Bounds(sat, Answer(sat, w))

AllApproaches(pairs) ==
  UNION {{Event(p[1], p[2], t, t) : t \in {t \in Epochs : Approach(p[1], p[2], t)}} :
           p \in {p \in pairs : None \notin {p[1], p[2]} /\ p[1].orbit # p[2].orbit}}

WellKeyed == \A k \in Keys : satellites[k].id = k

Members == {satellites[k] : k \in Keys}

Pairs(w, keys) == {<<Answer(satellites[p[1]], w), Answer(satellites[p[2]], w)>> :
                     p \in {p \in keys \X keys : p[1] # p[2]}}

WithHeld(w, keys) == {<<Answer(held, w), Answer(satellites[k], w)>> : k \in keys}

BoundedKeys(w) == {k \in Keys : Bounded(satellites[k], w)}

Others == {k \in Keys : satellites[k].id # held.id}

(* A close approach report of ephemerides of one range, whether or not the *)
(* elements have changed since they were cached, is one and the same in    *)
(* every order of the HashMap, holds no event but the approaches of the    *)
(* pairs, and loses none to the comparison of altitudes unless the         *)
(* elements of a satellite have altitudes its ephemeris does not keep to.  *)
(* A cache wider than the window asked for does not change that. The       *)
(* maneuvers are all the fast approaches of the satellite's own key.       *)
ApproachesComplete(w) ==
  /\ WellKeyed /\ Aligned(Members, w)
       => LET reports == CaReportVsMany(satellites, w) IN \E report \in reports :
            /\ reports = {report}
            /\ AllApproaches(Pairs(w, BoundedKeys(w))) \subseteq report
            /\ report \subseteq AllApproaches(Pairs(w, Keys))
  /\ Aligned(Members \cup {held}, w)
       => LET report == CaReportVsOne(satellites, held, w) IN
          /\ report \subseteq AllApproaches(WithHeld(w, Others))
          /\ Bounded(held, w) =>
               AllApproaches(WithHeld(w, Others \cap BoundedKeys(w))) \subseteq report
          /\ \A key \in Ids : ManeuverReport(satellites, held, w, key)
               = {event \in AllApproaches(WithHeld(w, Keys \cap {key})) :
                    RelativeSpeed(Answer(held, w), Answer(satellites[key], w), event.start)
                      >= VelocityThreshold}

(* Likewise a proximity report has the pairs that stay within the distance *)
(* for the whole range of their ephemerides.                               *)
AllNear(pairs) ==
  {Event(p[1], p[2], p[1].start, p[1].end) : p \in
    {p \in pairs : /\ None \notin {p[1], p[2]}
                   /\ \A t \in p[1].start..p[1].end :
                        Distance(Position[p[1].orbit][t], Position[p[2].orbit][t]) <= Threshold}}

ProximityComplete(w) ==
  /\ Aligned(Members, w) => ProximityReportVsMany(satellites, w) = {AllNear(Pairs(w, Keys))}
  /\ Aligned(Members \cup {held}, w)
       => ProximityReportVsOne(satellites, held, w) = AllNear(WithHeld(w, Keys))

ReportsComplete == \A w \in Windows : ApproachesComplete(w) /\ ProximityComplete(w)

(* Once cache_ephemeris has given every satellite an ephemeris of the      *)
(* bounds, no report inside the bounds, the validity of a UCT included,    *)
(* propagates a satellite of the constellation again.                      *)
CachedReportsPure ==
  [][ /\ satellites' # satellites
      /\ bounds # None /\ \A k \in Keys : Cached(satellites[k], bounds)
      => /\ ~ \E w \in Windows : Covers(bounds, w) /\ Ask(w)
         /\ ~ \E epoch \in Epochs : UctValidity(epoch) ]_vars

(* stubs/keplemon/bodies.pyi: get_ca_report_vs_many calculates close       *)
(* approaches among the satellites of the constellation, from start to     *)
(* end. Two satellites that are together at the end, that can be           *)
(* propagated until then and whose altitudes are right are in the report.  *)
ApproachesReported ==
  \A w \in Windows : \A k, l \in Keys :
    /\ k # l /\ WellKeyed
    /\ CanBuild(satellites[k], w) /\ CanBuild(satellites[l], w)
    /\ satellites[k].propagator # satellites[l].propagator
    /\ \A m \in {k, l} : Bounds(satellites[m], Built(satellites[m], w))
    /\ Together(Built(satellites[k], w), Built(satellites[l], w), w.end)
    => \A report \in CaReportVsMany(satellites, w) : \E event \in report : event.of = {k, l}

=============================================================================
