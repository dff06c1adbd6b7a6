----------------------- MODULE MCCudaSgp4Propagator ------------------------
(* Three satellites: one near the Earth, one in deep space, and one at the *)
(* boundary, which the partition calls slow and the kernel calls near. The *)
(* lists differ in length, so that a buffer is reused with another shape   *)
(* (2 x 1 and 1 x 2); two lists of dates have one length. The satellite at *)
(* the boundary has decayed at date 2, the deep one unless SGP4 is forced. *)
EXTENDS CudaSgp4Propagator

CONSTANTS near, deep, boundary

MCSatellites == {near, deep, boundary}
MCTleLists == {<<>>, <<boundary>>, <<deep, near>>}
MCTimes == 1..2
MCUndefined == {[sat |-> boundary, time |-> 2, model |-> "SGP4"],
                [sat |-> deep, time |-> 2, model |-> "SDP4"]}
MCTimeLists == {<<1>>, <<2>>, <<2, 1>>}

(* Bound: after a driver call has failed, date 2 alone is not asked for    *)
(* and not cached.                                                         *)
MCOneListAfterFailure == failures = 0 \/ <<2>> \notin {times, cached_times_gpu}
=============================================================================
