------------------------------ MODULE PyBodies ------------------------------
(***************************************************************************)
(* What the methods of src/src/bindings wait for while they run: the locks *)
(* of the ephemerides, the lock of the solver, the thread pool, and the    *)
(* interpreter, which a log record needs. A body is a program, a sequence  *)
(* of the operations below, one program for each path through the Rust     *)
(* functions it calls; everything else these functions do is in the other  *)
(* modules. A satellite's cache, its clones' caches and the Ephemeris      *)
(* objects of Python share their handle, so a body may meet any of them.   *)
(***************************************************************************)
EXTENDS Naturals, Sequences, SequencesExt

CONSTANTS
  Ephemerides,    (* the handles that are shared                           *)
  Private,        (* the handle of an ephemeris nobody else knows          *)
  MaxSatellites   (* bound: satellites of a constellation                  *)

(* Operations. Writers go before new readers (std::sync::RwLock); states   *)
(* and uniform_grid are one lock, no guard of the second outlives one of   *)
(* the first. Guards are dropped last first, at the end of their function. *)
Log           == [op |-> "log"]
Read(ephem)   == [op |-> "read", on |-> ephem]
Peek(ephem)   == [op |-> "peek", on |-> ephem]    (* a guard dropped at once *)
Write(ephem)  == [op |-> "write", on |-> ephem]
Drop(n)       == [op |-> "drop", n |-> n]
LockSaal      == [op |-> "lock"]
UnlockSaal    == [op |-> "unlock"]
Fork(items)   == [op |-> "fork", items |-> items]
Join          == [op |-> "join"]
Either(paths) == [op |-> "either", paths |-> paths]
Maybe(path)   == Either({<<>>, path})

(* A parallel iterator over items, whose number tells them apart.          *)
ParIter(programs) ==
  <<Fork({[item |-> i, ops |-> programs[i]] : i \in DOMAIN programs}), Join>>

(* The ephemerides of the satellites of a constellation, in the order of   *)
(* its map; two of its satellites may be clones and share one.             *)
Lists == SeqOf(Ephemerides, MaxSatellites)

ForEach(list, program(_)) == FlattenSeq([i \in DOMAIN list |-> program(list[i])])

-----------------------------------------------------------------------------
(* src/src/elements/ephemeris.rs                                           *)

RefineHorizonCrossing(sensor, sat) == <<Peek(sensor), Peek(sat)>>

GetNextHorizonCrossing(sensor, sat) ==
  <<Read(sensor), Read(sat), Log,
    Maybe(<<Log>> \o RefineHorizonCrossing(sensor, sat) \o <<Log>>), Drop(2)>>

HorizonAccessesUnguarded(sat, sensor) ==
  <<Peek(sat)>> \o GetNextHorizonCrossing(sensor, sat) \o <<Log>>
    \o <<Maybe(GetNextHorizonCrossing(sensor, sat) \o <<Log>>)>>

GetHorizonAccesses(sat, sensor) ==
  <<Peek(sat), Read(sensor), Read(sat)>> \o GetNextHorizonCrossing(sensor, sat)
    \o <<Log, Maybe(GetNextHorizonCrossing(sensor, sat) \o <<Log>>), Drop(2)>>

(* get_proximity_event takes the same locks.                               *)
GetCloseApproach(self, other) == <<Peek(self), Read(self), Read(other), Drop(2)>>

(* The states at the approach are looked up after the search.              *)
GetManeuverEvent(self, future) ==
  GetCloseApproach(self, future) \o <<Maybe(<<Peek(future), Peek(self)>>)>>

ToObservations(self) == <<Peek(self), Peek(self)>>

-----------------------------------------------------------------------------
(* src/src/bodies/satellite.rs and observatory.rs                          *)

(* A state of the propagator: an error is logged.                          *)
GetState == <<Maybe(<<Log>>)>>

(* From the cache if it covers the epoch, else from the propagator.        *)
InterpolateState(cache) ==
  <<Either({<<Peek(cache), Peek(cache)>>, <<Peek(cache), Peek(cache), Log>>, <<Log>>})>>

(* The cache if it covers the window; else a new ephemeris, which is not   *)
(* shared while it is filled, and the reload of the TLE.                   *)
GetEphemeris(cache) ==
  <<Either({<<Peek(cache)>>, <<Peek(cache), Peek(cache), Log>>, <<Log>>})>>

(* Nothing is done for orbits that are too far apart, or unknown.          *)
OfTwo(first, other, search) ==
  <<Maybe(GetEphemeris(first) \o <<Maybe(GetEphemeris(other) \o search)>>)>>

GetObservatoryAccessReport(sat) ==
  GetEphemeris(sat) \o <<Maybe(ParIter([i \in 1..2 |-> GetHorizonAccesses(sat, Private)]))>>

GetFieldOfViewReport == ParIter([i \in 1..2 |-> GetState])

-----------------------------------------------------------------------------
(* src/src/bodies/constellation.rs                                         *)

GetEphemerisList(list) == ForEach(list, GetEphemeris)

GetHorizonAccessReport(list) ==
  GetEphemerisList(list) \o ParIter([i \in DOMAIN list |-> GetHorizonAccesses(list[i], Private)])

(* get_ca_report_vs_one and get_proximity_report_vs_one                    *)
GetReportVsOne(sat, list) ==
  GetEphemeris(sat) \o
    <<Maybe(<<Log>> \o GetEphemerisList(list)
              \o ParIter([i \in DOMAIN list |-> GetCloseApproach(sat, list[i])]) \o <<Log>>)>>

(* get_ca_report_vs_many and get_proximity_report_vs_many: an iterator in  *)
(* each item of the outer one.                                             *)
GetReportVsMany(list) ==
  GetEphemerisList(list) \o
    ParIter([i \in DOMAIN list |->
      ParIter([j \in 1..(Len(list) - i) |-> GetCloseApproach(list[i], list[i + j])])])

GetUctValidity(sat, list) ==
  <<Maybe(<<Log>> \o GetState \o <<Log>> \o GetReportVsOne(sat, list) \o GetReportVsOne(sat, list))>>

GetManeuverEvents(list, future) ==
  ParIter([i \in DOMAIN list |-> GetEphemeris(list[i])])
    \o ParIter([i \in DOMAIN future |-> GetEphemeris(future[i])])
    \o ParIter([i \in DOMAIN list \cap DOMAIN future |-> GetManeuverEvent(list[i], future[i])])

GetEphemerides(list) == ParIter([i \in DOMAIN list |-> GetEphemeris(list[i])])

-----------------------------------------------------------------------------
(* src/src/estimation                                                      *)

(* Two of the observations, predicted one at a time for the lock; then two *)
(* of the columns of the Jacobian, each for every observation.             *)
Predicted == <<LockSaal, Maybe(<<Log>>), UnlockSaal>>

Solve ==
  ParIter([i \in 1..2 |-> Predicted]) \o ParIter([i \in 1..2 |-> Predicted \o Predicted]) \o <<Log>>

AssociationReportInPool(list) ==
  ParIter([i \in DOMAIN list |-> InterpolateState(list[i])])

GetAssociationReport(list) ==
  ForEach(list, InterpolateState) \o <<Maybe(ForEach(list, InterpolateState))>>

GetAssociationReports(list) ==
  <<Log>> \o ParIter([i \in 1..2 |-> GetAssociationReport(list)]) \o <<Log>>

ObservationAssociations == GetState \o ParIter([i \in 1..2 |-> <<>>])

(* TLECatalog::fit_best_tle and TLE::from_ephemeris                        *)
FitBestTle == <<Maybe(GetState \o <<Log>> \o Solve)>>

TleFromEphemeris(ephem) == ToObservations(ephem) \o <<Peek(ephem), Peek(ephem), Maybe(Solve)>>

-----------------------------------------------------------------------------
(* The programs of each body named in PyMethods.                           *)
Bodies ==
  [plain         |-> {<<>>},
   logs          |-> {<<Log>>},
   propagates    |-> {GetState},
   interpolates  |-> {InterpolateState(e) : e \in Ephemerides},
   looks_up      |-> {<<Peek(e)>> : e \in Ephemerides},
   adds          |-> {<<Write(e)>> : e \in Ephemerides},
   observes      |-> {ToObservations(e) : e \in Ephemerides},
   accesses      |-> {GetHorizonAccesses(e, f) : e \in Ephemerides, f \in Ephemerides},
   approaches    |-> {GetCloseApproach(e, f) : e \in Ephemerides, f \in Ephemerides},
   ephemeris     |-> {GetEphemeris(e) : e \in Ephemerides},
   sat_search    |-> {OfTwo(e, f, GetCloseApproach(e, f)) : e \in Ephemerides, f \in Ephemerides},
   sat_maneuver  |-> {OfTwo(e, f, GetManeuverEvent(e, f)) : e \in Ephemerides, f \in Ephemerides},
   sat_accesses  |-> {GetObservatoryAccessReport(e) : e \in Ephemerides},
   in_view       |-> {GetFieldOfViewReport},
   all_accesses  |-> {GetHorizonAccessReport(s) : s \in Lists},
   vs_one        |-> {GetReportVsOne(e, s) : e \in Ephemerides, s \in Lists},
   vs_many       |-> {GetReportVsMany(s) : s \in Lists},
   uct_validity  |-> {GetUctValidity(e, s) : e \in Ephemerides, s \in Lists},
   maneuvers     |-> {GetManeuverEvents(s, r) : s \in Lists, r \in Lists},
   ephemerides   |-> {GetEphemerides(s) : s \in Lists},
   cache         |-> {GetEphemerisList(s) : s \in Lists},
   reports       |-> {GetAssociationReports(s) : s \in Lists},
   associates    |-> {GetAssociationReport(s) : s \in Lists},
   observation   |-> {ObservationAssociations},
   solve         |-> {Solve},
   fit           |-> {FitBestTle},
   fit_ephemeris |-> {TleFromEphemeris(e) : e \in Ephemerides}]
=============================================================================
