----------------------------- MODULE StateTable -----------------------------
(***************************************************************************)
(* What src/src/gpu/cuda_sgp4.rs promises its callers, whatever buffers it *)
(* keeps on the device: after satellites are loaded, a propagation answers *)
(* with one state, or one error code, for each satellite and each time, in *)
(* the order of its documentation, computed with the satellite's model.    *)
(***************************************************************************)
EXTENDS Naturals, Sequences

CONSTANTS
  Deep,       (* the satellites whose period is at least 225 minutes       *)
  TleLists,   (* the lists of satellites a caller loads                    *)
  TimeLists,  (* the lists of Julian dates a caller passes                 *)
  Undefined,  (* the states that cannot be computed                        *)
  None        (* Option::None                                              *)

VARIABLES
  loaded,  (* the satellites in place, None if a load failed half-way      *)
  forced,  (* force_near_earth, None if an override failed half-way        *)
  answer   (* what the last call returned: None, or [op, times, cells]     *)

(* Where the state of satellite i at time t is in the answers.             *)
SatMajor(i, t, n_times) == (i - 1) * n_times + t
TimeMajor(i, t, n_sats) == (t - 1) * n_sats + i

(* propagate and propagate_soa list all times of a satellite together, the *)
(* others all satellites at a time.                                        *)
InSatOrder(op) == op \in {"propagate", "propagate_soa"}

Position(op, i, t, n_sats, n_times) ==
  IF InSatOrder(op) THEN SatMajor(i, t, n_times) ELSE TimeMajor(i, t, n_sats)

ModelOf(deep, force) == IF deep /\ ~force THEN "SDP4" ELSE "SGP4"

(* The dates an answer may be for. The resident buffers may hold any dates *)
(* given earlier, provided there are as many of them.                      *)
DatesOf(a) ==
  IF a.op = "propagate_soa_gpu_resident"
    THEN {ts \in TimeLists : Len(ts) = Len(a.times)}
    ELSE {a.times}

(* An error code says exactly that there is no state, and an element that  *)
(* has one promises nothing of its coordinates.                            *)
IsStateOf(cell, sat, time) ==
  \E force \in BOOLEAN :
    LET state == [sat |-> sat, time |-> time, model |-> ModelOf(sat \in Deep, force)]
    IN  /\ forced # None => force = forced
        /\ cell.error <=> state \in Undefined
        /\ ~cell.error => cell.state = state

Tabulates(a) ==
  \E ts \in DatesOf(a) : \A i \in DOMAIN loaded, t \in DOMAIN ts :
    LET k == Position(a.op, i, t, Len(loaded), Len(ts))
    IN  k \in DOMAIN a.cells /\ IsStateOf(a.cells[k], loaded[i], ts[t])

Init == loaded = <<>> /\ forced = FALSE /\ answer = None

(* While a load runs, and after it failed, nothing is promised.            *)
Unload == loaded' = None /\ forced' = FALSE /\ answer' = None
Load   == loaded' \in TleLists /\ forced' = FALSE /\ answer' = None
Force  == UNCHANGED loaded /\ forced' \in BOOLEAN \cup {None} /\ answer' = None
Reply  == /\ UNCHANGED <<loaded, forced>>
          /\ answer' # None /\ loaded # None =>
               loaded # <<>> /\ Tabulates(answer')

Next == Unload \/ Load \/ Force \/ Reply

Spec == Init /\ [][Next]_<<loaded, forced, answer>>
=============================================================================
