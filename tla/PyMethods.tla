----------------------------- MODULE PyMethods ------------------------------
(***************************************************************************)
(* The methods of the Python classes of src/src/bindings: the objects a    *)
(* call borrows and how, whether it gives the interpreter up while it runs *)
(* (py.detach), and its body in PyBodies. Arguments that are plain data    *)
(* (epochs, spans, elements, states, numbers) are copied and left out, as  *)
(* are the classes of plain data, whose methods need the interpreter and   *)
(* nothing else.                                                           *)
(***************************************************************************)
EXTENDS PyBodies

(* &self, &mut self, a borrowed argument, and an argument that is copied   *)
(* out of its object before the body starts.                               *)
Self(class)     == [class |-> class, arg |-> "self", mode |-> "shared"]
MutSelf(class)  == [class |-> class, arg |-> "self", mode |-> "mut"]
Arg(class)      == [class |-> class, arg |-> "other", mode |-> "shared"]
MutArg(class)   == [class |-> class, arg |-> "other", mode |-> "mut"]
CopyArg(class)  == [class |-> class, arg |-> "other", mode |-> "copied"]

Held(borrows, body)     == [borrows |-> borrows, body |-> body, detached |-> FALSE]
Detached(borrows, body) == [borrows |-> borrows, body |-> body, detached |-> TRUE]

(* Methods that are alike in everything that is modelled. A class is the   *)
(* set of its methods.                                                     *)
Each(names, method) == Range([n \in names |-> method])

-----------------------------------------------------------------------------
(* class Constellation                                                     *)

ConstellationStates == LET C == "Constellation" IN
  Range([new                 |-> Held({}, "plain"),
         from_tle_catalog    |-> Held({CopyArg("TLECatalog")}, "plain"),
         get_states_at_epoch |-> Held({Self(C)}, "propagates"),
         get_plot_data       |-> Held({Self(C)}, "propagates"),
         step_to_epoch       |-> Held({MutSelf(C)}, "plain")])

ConstellationReports == LET C == "Constellation" IN
  Range([get_horizon_access_report    |-> Detached({MutSelf(C), Arg("Observatory")}, "all_accesses"),
         get_ca_report_vs_one         |-> Detached({MutSelf(C), MutArg("Satellite")}, "vs_one"),
         get_ca_report_vs_many        |-> Detached({MutSelf(C)}, "vs_many"),
         get_proximity_report_vs_one  |-> Detached({MutSelf(C), MutArg("Satellite")}, "vs_one"),
         get_proximity_report_vs_many |-> Detached({MutSelf(C)}, "vs_many"),
         get_uct_validity |-> Detached({MutSelf(C), MutArg("Satellite"), CopyArg("ObservationCollection")},
                                       "uct_validity"),
         get_maneuver_events          |-> Detached({MutSelf(C), MutArg(C)}, "maneuvers"),
         get_ephemeris                |-> Detached({MutSelf(C)}, "ephemerides")])

ConstellationItems == LET C == "Constellation" IN
  Each({"__getitem__", "keys", "__iter__", "__contains__", "__len__", "get", "name", "count"},
       Held({Self(C)}, "plain"))
  \cup Each({"__setitem__", "add"}, Held({MutSelf(C), CopyArg("Satellite")}, "plain"))
  \cup Each({"__delitem__", "remove", "clear", "set_name"}, Held({MutSelf(C)}, "plain"))

ConstellationBatches == LET C == "Constellation" IN
  Range([get_states_at_epochs    |-> Detached({Self(C)}, "propagates"),
         get_batch_ephemeris     |-> Detached({Self(C)}, "propagates"),
         is_gpu_available        |-> Held({}, "plain"),
         cache_ephemeris         |-> Detached({MutSelf(C)}, "cache"),
         get_association_reports |-> Detached({Self(C), CopyArg("ObservationCollection")}, "reports")])

-----------------------------------------------------------------------------
(* class Satellite                                                         *)

SatelliteStates == LET S == "Satellite" IN
  Range([new                         |-> Held({}, "plain"),
         get_relative_state_at_epoch |-> Held({Self(S), Arg(S)}, "propagates"),
         get_body_angles_at_epoch    |-> Held({Self(S), Arg(S)}, "propagates"),
         from_tle                    |-> Held({CopyArg("TLE")}, "plain"),
         get_state_at_epoch          |-> Held({Self(S)}, "propagates"),
         step_to_epoch               |-> Held({MutSelf(S)}, "plain")])
  \cup Each({"geodetic_position", "to_tle", "id", "name", "periapsis", "apoapsis", "norad_id",
           "force_properties", "keplerian_state"}, Held({Self(S)}, "plain"))
  \cup Each({"set_id", "set_name", "set_norad_id", "set_keplerian_state", "set_force_properties"},
          Held({MutSelf(S)}, "plain"))

SatelliteReports == LET S == "Satellite" IN
  Range([get_ephemeris        |-> Held({MutSelf(S)}, "ephemeris"),
         get_plot_data        |-> Held({Self(S)}, "propagates"),
         get_close_approach   |-> Held({MutSelf(S), MutArg(S)}, "sat_search"),
         get_proximity_report |-> Detached({MutSelf(S), MutArg(S)}, "sat_search"),
         get_maneuver_event   |-> Detached({MutSelf(S), MutArg(S)}, "sat_maneuver"),
         get_observatory_access_report |-> Detached({MutSelf(S), CopyArg("Observatory")}, "sat_accesses"),
         get_associations     |-> Held({Self(S), CopyArg("ObservationCollection")}, "logs"),
         get_rms              |-> Held({Self(S), CopyArg("Observation")}, "interpolates"),
         get_residuals        |-> Held({Self(S), CopyArg("Observation")}, "interpolates")])

-----------------------------------------------------------------------------
(* classes Ephemeris, TLE, TLECatalog                                      *)

EphemerisMethods == LET E == "Ephemeris" IN
  Range([new                  |-> Held({}, "plain"),
         number_of_states     |-> Held({Self(E)}, "looks_up"),
         get_state_at_epoch   |-> Held({Self(E)}, "looks_up"),
         get_horizon_accesses |-> Held({Self(E), Arg(E)}, "accesses"),
         get_close_approach   |-> Held({Self(E), Arg(E)}, "approaches"),
         add_state            |-> Held({Self(E)}, "adds"),
         to_observations      |-> Held({Self(E)}, "observes")])
  \cup Each({"get_satellite_id", "get_norad_id"}, Held({Self(E)}, "plain"))

TleElements ==
  Range([from_lines     |-> Held({}, "plain"),
         from_elements  |-> Held({}, "plain"),
         from_ephemeris |-> Detached({CopyArg("Ephemeris")}, "fit_ephemeris")])
  \cup Each({"lines", "inclination", "raan", "semi_major_axis", "apoapsis", "periapsis", "eccentricity",
           "argument_of_perigee", "name", "mean_anomaly", "mean_motion", "type"},
          Held({Self("TLE")}, "plain"))

TleStates == LET T == "TLE" IN
  Range([propagate_batch              |-> Detached({CopyArg(T)}, "propagates"),
         propagate_to_epochs          |-> Detached({Self(T)}, "propagates"),
         get_observation_at_epoch     |-> Held({Self(T)}, "propagates"),
         get_state_at_epoch           |-> Held({Self(T)}, "propagates"),
         get_keplerian_state_at_epoch |-> Held({Self(T)}, "plain")])
  \cup Each({"b_star", "mean_motion_dot", "mean_motion_dot_dot", "agom", "b_term", "epoch",
           "classification", "designator", "norad_id", "id", "cartesian_state"},
          Held({Self(T)}, "plain"))

CatalogMethods == LET C == "TLECatalog" IN
  Range([new           |-> Held({}, "plain"),
         from_tle_file |-> Held({}, "plain"),
         add           |-> Held({MutSelf(C), CopyArg("TLE")}, "plain"),
         fit_best_tle  |-> Detached({Self(C)}, "fit")])
  \cup Each({"keys", "get", "get_by_norad_id", "__getitem__", "count", "name", "get_plot_data"},
          Held({Self(C)}, "plain"))
  \cup Each({"remove", "clear", "set_name"}, Held({MutSelf(C)}, "plain"))

-----------------------------------------------------------------------------
(* classes BatchLeastSquares, Observation, ObservationCollection           *)

SolverMethods == LET B == "BatchLeastSquares" IN
  Range([new   |-> Held({CopyArg("Observation"), Arg("Satellite")}, "plain"),
         solve |-> Detached({MutSelf(B)}, "solve"),
         set_a_priori     |-> Held({MutSelf(B), Arg("Satellite")}, "plain"),
         set_observations |-> Held({MutSelf(B), CopyArg("Observation")}, "plain")])
  \cup Each({"output_type", "converged", "current_estimate", "iteration_count", "weighted_rms",
           "observations", "max_iterations", "estimate_drag", "estimate_srp",
           "eccentricity_constraint_weight", "estimate_maneuver", "maneuver_epoch", "delta_v",
           "allow_radial_delta_v"}, Held({Self(B)}, "plain"))
  \cup Each({"rms", "residuals", "covariance"}, Held({Self(B)}, "propagates"))
  \cup Each({"set_output_type", "set_max_iterations", "set_estimate_drag", "set_estimate_srp",
           "set_eccentricity_constraint_weight", "set_estimate_maneuver", "set_allow_radial_delta_v"},
          Held({MutSelf(B)}, "plain"))

ObservationMethods == LET O == "Observation" IN
  Range([new              |-> Held({CopyArg("Sensor")}, "plain"),
         from_saal_files  |-> Held({}, "logs"),
         get_associations |-> Detached({Self(O), Arg("Constellation")}, "observation"),
         get_residual     |-> Held({Self(O), Arg("Satellite")}, "propagates")])
  \cup Each({"sensor", "epoch", "id", "range", "range_rate", "right_ascension", "declination",
           "right_ascension_rate", "declination_rate", "observed_satellite_id"},
          Held({Self(O)}, "plain"))
  \cup Each({"set_range", "set_id", "set_range_rate", "set_right_ascension", "set_declination",
           "set_observed_satellite_id"}, Held({MutSelf(O)}, "plain"))

CollectionMethods == LET O == "ObservationCollection" IN
  Range([new             |-> Held({CopyArg("Observation")}, "logs"),
         get_list        |-> Held({CopyArg("Observation")}, "logs"),
         get_visibility  |-> Held({Self(O), Arg("Satellite")}, "propagates"),
         get_association |-> Held({Self(O), Arg("Satellite")}, "propagates"),
         get_association_report |-> Held({Self(O), Arg("Constellation")}, "associates")])
  \cup Each({"sensor_position", "sensor_direction", "field_of_view", "observations", "epoch"},
          Held({Self(O)}, "plain"))

-----------------------------------------------------------------------------
(* classes Observatory, BatchPropagator, InertialPropagator                *)

ObservatoryMethods == LET O == "Observatory" IN
  Range([new                  |-> Held({}, "plain"),
         from_cartesian_state |-> Held({}, "plain"),
         add_sensor           |-> Held({MutSelf(O), CopyArg("Sensor")}, "plain"),
         get_topocentric_to_satellite |-> Held({Self(O), Arg("Satellite")}, "propagates"),
         get_field_of_view_report     |-> Detached({Self(O), CopyArg("Constellation")}, "in_view")])
  \cup Each({"id", "name", "latitude", "longitude", "altitude", "sensors", "get_state_at_epoch",
           "get_theta"}, Held({Self(O)}, "plain"))
  \cup Each({"set_id", "set_name", "set_latitude", "set_longitude", "set_altitude"},
          Held({MutSelf(O)}, "plain"))

BatchPropagatorMethods == LET B == "BatchPropagator" IN
  Range([new              |-> Held({}, "plain"),
         is_gpu_available |-> Held({Self(B)}, "plain"),
         propagate_batch  |-> Detached({Self(B), CopyArg("TLE")}, "propagates")])
  \cup Each({"set_backend", "set_gpu_threshold"}, Held({MutSelf(B)}, "plain"))

InertialPropagatorMethods == LET P == "InertialPropagator" IN
  Range([from_tle                     |-> Held({CopyArg("TLE")}, "plain"),
         get_cartesian_state_at_epoch |-> Held({Self(P)}, "propagates")])
  \cup Each({"get_keplerian_state_at_epoch", "keplerian_state", "force_properties"},
          Held({Self(P)}, "plain"))

-----------------------------------------------------------------------------
Methods ==
  UNION
    {ConstellationStates, ConstellationReports, ConstellationItems, ConstellationBatches,
     SatelliteStates, SatelliteReports, EphemerisMethods, TleElements, TleStates, CatalogMethods,
     SolverMethods, ObservationMethods, CollectionMethods, ObservatoryMethods,
     BatchPropagatorMethods, InertialPropagatorMethods}
=============================================================================
