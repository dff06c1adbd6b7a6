------------------------- MODULE MCBatchPropagator -------------------------
(* Two satellites, two orbits and two forces; elements of every type.      *)
EXTENDS BatchPropagator

MCOrbits == {"low", "high"}
MCForces == {"f", "g"}

Elements(orbit, type) == [orbit |-> orbit, epoch |-> 0, keplerian_type |-> type]

MCSettable == {Elements("low", "MeanKozaiGP"), Elements("high", "MeanBrouwerXP"),
               Elements("low", "Osculating")}
MCCatalog  == {Tle(Elements("low", "MeanKozaiGP"), "f"), Tle(Elements("high", "MeanBrouwerGP"), "f")}
MCTleLists == {<<>>} \cup (MCCatalog \X MCCatalog)

MCEpochLists == {<<>>, <<1>>, <<0, 1>>, <<1, 0>>}
MCThresholds == {0, 4}

MCCpuFails == {<<"high", 1>>}
MCGpuFails == {<<"high", 1>>}

(* SAAL loads all but one pair of elements and forces whenever asked.      *)
MCSaalMayRefuse == {<<"high", "g">>}

(* Calls with the caller's own TLEs neither read nor change satellites.    *)
MCBatchesAlone == Keys # {} /\ reply' # None => reply'.op = "constellation"
=============================================================================
