-------------------------- MODULE MCConstellation --------------------------
EXTENDS Constellation, TLC

CONSTANTS s1, s2

(* b comes near a from epoch 1 on, though their altitudes never meet, and  *)
(* near c at epoch 2, where c is far below its perigee and not fast.       *)
Over(x, y, z) == 0 :> x @@ 1 :> y @@ 2 :> z

MCPosition == [a |-> Over(10, 10, 10), b |-> Over(15, 11, 12), c |-> Over(20, 20, 14)]
MCVelocity == [a |-> Over(0, 0, 0), b |-> Over(2, 2, 0), c |-> Over(0, 0, 0)]
MCPerigee  == [a |-> 10, b |-> 11, c |-> 19]
MCApogee   == [a |-> 10, b |-> 15, c |-> 20]
MCWindows  == {[start |-> 0, end |-> 2], [start |-> 1, end |-> 2]}
MCSettable == {<<"a", FALSE>>, <<"b", TRUE>>}
MCSymmetry == Permutations(Ids)
MCFails    == {<<"c", 0>>}

(* Bounds: the satellites whose elements are not those of their            *)
(* propagators are clones of one, and an ephemeris cached in the           *)
(* constellation has the id of its satellite.                              *)
MCDiffers(sat) == sat.keplerian_state # sat.propagator \/ sat.osculating

MCDifferAlike ==
  \A a, b \in Members \cup {held} : MCDiffers(a) /\ MCDiffers(b) => a = b

MCCachesOfOwnId ==
  \A k \in Keys : satellites[k].ephemeris_cache # None
    => satellites[k].ephemeris_cache.satellite_id = satellites[k].id
=============================================================================
