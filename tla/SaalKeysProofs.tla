--------------------------- MODULE SaalKeysProofs ---------------------------
(***************************************************************************)
(* Proofs that the keys of SAAL are safe for any number of workers,        *)
(* objects and keys, and any number of failed loads.                       *)
(***************************************************************************)
EXTENDS SaalKeys, Integers, FiniteSetTheorems, TLAPS

(* What the borrow checker gives: a method runs on an object, that object  *)
(* keeps its TLE while the method reads its key, and two methods run on    *)
(* one object only if both share it.                                       *)
Using == {"reepoch", "ephemeris", "reload_remove", "reload_load"} \cup Sharing

BorrowsOK ==
  /\ \A w \in Workers : pc[w] # "idle" => obj[w] \in Objects
  /\ \A w \in Workers : pc[w] \in Using => handle[obj[w]] # None
  /\ \A v, w \in Workers :
       v # w /\ obj[v] = obj[w] /\ obj[w] # None => pc[w] \in Sharing

(* Between the two removals a key is out of the SGP4 table.                *)
RemovedFirst == \A w \in Workers : pc[w] = "drop_tle" => key[w] \notin sgp4

Safe == /\ BorrowsOK
        /\ NoUseAfterRemove
        /\ RemovedFirst
        /\ NoDoubleLoad
        /\ MissingOnlyIfReloading

IInv == TypeOK /\ Safe

(* The control steps and the tables are always expanded.                   *)
USE DEF Begin, Goto, Return, tables

LEMMA TypeInit == Init => TypeOK
BY DataAssumption DEF Init, TypeOK, Labels

(* A key that a method reads is a key because its object holds a TLE.      *)
LEMMA TypeStep == IInv /\ [Next]_vars => TypeOK'
<1> SUFFICES ASSUME IInv, [Next]_vars PROVE TypeOK'
  OBVIOUS
<1> USE DataAssumption DEF IInv, TypeOK, Labels, Sharing
<1>1. ASSUME NEW w \in Workers, Continue(w) PROVE TypeOK'
  <2>1. CASE Reepoch(w) \/ Propagate(w) \/ Read(w)
    BY <2>1 DEF Reepoch, Propagate, Read
  <2>2. CASE LoadArrays(w)
    BY <2>2 DEF LoadArrays
  <2>3. CASE LoadSgp4(w)
    <3>1. key[w] \in Keys
      BY <2>3 DEF LoadSgp4, Safe, NoUseAfterRemove, OwnLabels
    <3>2. handle[obj[w]] \in Keys \cup {None}
      BY <2>3 DEF LoadSgp4, Safe, BorrowsOK
    <3>3. /\ handle' \in [Objects -> Keys \cup {None}]
          /\ tles' \in SUBSET Keys /\ sgp4' \in SUBSET Keys
      BY <2>3, <3>1 DEF LoadSgp4
    <3>4. /\ pc' \in [Workers -> Labels]
          /\ obj' \in [Workers -> Objects \cup {None}]
          /\ key' \in [Workers -> Keys \cup {None}]
      BY <2>3, <3>2 DEF LoadSgp4
    <3>5. lock' \in Workers \cup {None} /\ failures' \in 0..MaxFailures
      BY <2>3 DEF LoadSgp4
    <3> QED BY <3>3, <3>4, <3>5
  <2>4. CASE RemoveKey(w)
    BY <2>4 DEF RemoveKey
  <2>5. CASE ReloadRemove(w) \/ ReloadLoad(w)
    BY <2>5 DEF ReloadRemove, ReloadLoad, Safe, BorrowsOK, Using
  <2>6. CASE Lock(w) \/ Predict(w)
    BY <2>6 DEF Lock, Predict
  <2> QED BY <1>1, <2>1, <2>2, <2>3, <2>4, <2>5, <2>6 DEF Continue
<1>2. ASSUME NEW w \in Workers, NEW o \in Objects, Start(w, o) PROVE TypeOK'
  <2>1. CASE StartNew(w, o) \/ StartStepToEpoch(w, o) \/ StartEphemeris(w, o)
    BY <2>1 DEF StartNew, StartStepToEpoch, StartEphemeris
  <2>2. CASE StartRead(w, o) \/ StartPredict(w, o)
    BY <2>2 DEF StartRead, StartPredict
  <2>3. CASE DropTLE(w, o)
    BY <2>3 DEF DropTLE
  <2>4. ASSUME NEW copy \in Objects \ {o}, Clone(w, o, copy) PROVE TypeOK'
    BY <2>4 DEF Clone
  <2> QED BY <1>2, <2>1, <2>2, <2>3, <2>4 DEF Start
<1>3. CASE UNCHANGED vars
  BY <1>3 DEF vars
<1> QED BY <1>1, <1>2, <1>3 DEF Next

LEMMA SafeInit == Init => Safe
BY DataAssumption DEF Init, Safe, BorrowsOK, NoUseAfterRemove, RemovedFirst, NoDoubleLoad,
   Loading, MissingOnlyIfReloading, OwnLabels, Using, Sharing

LEMMA ContinueSafe ==
  ASSUME TypeOK, Safe, NEW w \in Workers, Continue(w)
  PROVE  Safe'
<1> USE DataAssumption DEF TypeOK, Labels, Sharing, Safe, BorrowsOK, NoUseAfterRemove,
    RemovedFirst, NoDoubleLoad, Loading, MissingOnlyIfReloading, OwnLabels, Using
<1>1. CASE Reepoch(w) \/ Propagate(w) \/ Read(w) \/ Lock(w) \/ Predict(w)
  BY <1>1 DEF Reepoch, Propagate, Read, Lock, Predict
<1>2. CASE LoadArrays(w)
  BY <1>2 DEF LoadArrays
<1>3. CASE LoadSgp4(w)
  BY <1>3 DEF LoadSgp4, LastHolder
<1>4. CASE RemoveKey(w)
  BY <1>4 DEF RemoveKey
<1>5. CASE ReloadRemove(w)
  BY <1>5 DEF ReloadRemove
<1>6. CASE ReloadLoad(w)
  BY <1>6 DEF ReloadLoad
<1> QED BY <1>1, <1>2, <1>3, <1>4, <1>5, <1>6 DEF Continue

LEMMA StartSafe ==
  ASSUME TypeOK, Safe, NEW w \in Workers, NEW o \in Objects, Start(w, o)
  PROVE  Safe'
<1> USE DataAssumption DEF TypeOK, Labels, Sharing, Safe, BorrowsOK, NoUseAfterRemove,
    RemovedFirst, NoDoubleLoad, Loading, MissingOnlyIfReloading, OwnLabels, Using
<1>1. CASE StartNew(w, o) \/ StartStepToEpoch(w, o) \/ StartEphemeris(w, o)
  BY <1>1 DEF StartNew, StartStepToEpoch, StartEphemeris, MayMutate
<1>2. CASE StartRead(w, o) \/ StartPredict(w, o)
  BY <1>2 DEF StartRead, StartPredict, MayShare
<1>3. CASE DropTLE(w, o)
  BY <1>3 DEF DropTLE, MayMutate, LastHolder
<1>4. ASSUME NEW copy \in Objects \ {o}, Clone(w, o, copy) PROVE Safe'
  BY <1>4 DEF Clone, MayMutate, MayShare
<1> QED BY <1>1, <1>2, <1>3, <1>4 DEF Start

LEMMA SafeStep == IInv /\ [Next]_vars => Safe'
<1> SUFFICES ASSUME IInv, [Next]_vars PROVE Safe'
  OBVIOUS
<1>1. CASE UNCHANGED vars
  BY <1>1 DEF vars, IInv, Safe, BorrowsOK, NoUseAfterRemove, RemovedFirst, NoDoubleLoad,
     Loading, MissingOnlyIfReloading
<1> QED BY <1>1, ContinueSafe, StartSafe DEF Next, IInv

(* The inductive invariant holds: the borrows, the removals and the loads  *)
(* protect each other.                                                     *)
THEOREM InvariantCorrect == Spec => []IInv
<1>1. Init => IInv
  BY TypeInit, SafeInit DEF IInv
<1>2. IInv /\ [Next]_vars => IInv'
  BY TypeStep, SafeStep DEF IInv
<1> QED BY <1>1, <1>2, PTL DEF Spec

(* Only keys get into the tables of SAAL: no method gives it the 0 that    *)
(* get_key returns for an empty TLE.                                       *)
THEOREM TypeCorrect == Spec => []TypeOK
<1>1. IInv => TypeOK
  BY DEF IInv
<1> QED BY <1>1, InvariantCorrect, PTL

(* SAALKeyHandle: a key is in the TLE table as long as somebody may use    *)
(* it, and is removed by one worker, when nobody holds it.                 *)
THEOREM UseCorrect == Spec => []NoUseAfterRemove
<1>1. IInv => NoUseAfterRemove
  BY DEF IInv, Safe
<1> QED BY <1>1, InvariantCorrect, PTL

(* TLE::reload and load_to_memory: SAAL is never asked to load a key that  *)
(* is loaded, or that another worker is loading.                           *)
THEOREM LoadCorrect == Spec => []NoDoubleLoad
<1>1. IInv => NoDoubleLoad
  BY DEF IInv, Safe
<1> QED BY <1>1, InvariantCorrect, PTL

(* An object whose key is not initialised is being reloaded by somebody,   *)
(* or a load has failed.                                                   *)
THEOREM MissingCorrect == Spec => []MissingOnlyIfReloading
<1>1. IInv => MissingOnlyIfReloading
  BY DEF IInv, Safe
<1> QED BY <1>1, InvariantCorrect, PTL

-----------------------------------------------------------------------------
(* The keys that nobody will give back.                                    *)
Leaked == tles \ Owned

Accounted == IsFiniteSet(Leaked) /\ Cardinality(Leaked) <= failures

LEMMA LeakedIs ==
  \A k : k \in Leaked <=>
           /\ k \in tles
           /\ \A o \in Objects : handle[o] # k
           /\ \A w \in Workers : pc[w] \in OwnLabels => key[w] # k
BY DEF Leaked, Owned

LEMMA LeakedIsThen ==
  \A k : k \in Leaked' <=>
           /\ k \in tles'
           /\ \A o \in Objects : handle'[o] # k
           /\ \A w \in Workers : pc'[w] \in OwnLabels => key'[w] # k
BY DEF Leaked, Owned

(* A step takes no key from its owner without giving it to another one or  *)
(* back to SAAL, unless it is a load that fails.                           *)
LEMMA ContinueLeaks ==
  ASSUME TypeOK, Safe, NEW w \in Workers, Continue(w)
  PROVE  \/ Leaked' \subseteq Leaked /\ failures' \in {failures, failures + 1}
         \/ Leaked' \subseteq Leaked \cup {key[w]} /\ failures' = failures + 1
<1> USE DEF TypeOK, OwnLabels
<1> SUFFICES \/ /\ \A k \in Leaked' : k \in Leaked
                /\ failures' \in {failures, failures + 1}
             \/ /\ \A k \in Leaked' : k \in Leaked \/ k = key[w]
                /\ failures' = failures + 1
  OBVIOUS
<1>1. CASE Reepoch(w) \/ Propagate(w) \/ Read(w) \/ Lock(w) \/ Predict(w)
  BY <1>1, LeakedIs, LeakedIsThen DEF Reepoch, Propagate, Read, Lock, Predict
<1>2. CASE LoadArrays(w)
  BY <1>2, LeakedIs, LeakedIsThen DEF LoadArrays
<1>3. CASE LoadSgp4(w)
  <2>1. obj[w] \in Objects
    BY <1>3 DEF LoadSgp4, Safe, BorrowsOK
  <2>2. CASE failures' = failures + 1
    BY <1>3, <2>1, <2>2, LeakedIs, LeakedIsThen DEF LoadSgp4
  <2>3. CASE failures' # failures + 1
    <3>1. /\ handle' = [handle EXCEPT ![obj[w]] = key[w]]
          /\ IF handle[obj[w]] # None /\ LastHolder(obj[w])
             THEN key' = [key EXCEPT ![w] = handle[obj[w]]] /\ Goto(w, "drop_sgp4")
             ELSE key' = [key EXCEPT ![w] = None] /\ Return(w)
          /\ tles' = tles /\ failures' = failures
      BY <1>3, <2>3 DEF LoadSgp4
    <3>2. ASSUME NEW k \in Leaked' PROVE k \in Leaked
      <4>1. k \in tles /\ k \in Keys /\ k # None
        BY <3>1, LeakedIsThen, DataAssumption
      <4>2. k # key[w] /\ \A o \in Objects \ {obj[w]} : handle[o] # k
        BY <2>1, <3>1, LeakedIsThen
      <4>3. handle[obj[w]] # k
        BY <2>1, <3>1, <4>1, <4>2, LeakedIsThen DEF LastHolder
      <4>4. \A v \in Workers : pc[v] \in OwnLabels => key[v] # k
        BY <3>1, <4>2, LeakedIsThen
      <4> QED BY <4>1, <4>2, <4>3, <4>4, LeakedIs
    <3> QED BY <3>1, <3>2
  <2> QED BY <2>2, <2>3
<1>4. CASE RemoveKey(w)
  BY <1>4, LeakedIs, LeakedIsThen DEF RemoveKey
<1>5. CASE ReloadRemove(w) \/ ReloadLoad(w)
  BY <1>5, LeakedIs, LeakedIsThen DEF ReloadRemove, ReloadLoad
<1> QED BY <1>1, <1>2, <1>3, <1>4, <1>5 DEF Continue

LEMMA StartLeaks ==
  ASSUME TypeOK, Safe, NEW w \in Workers, NEW o \in Objects, Start(w, o)
  PROVE  Leaked' \subseteq Leaked /\ failures' = failures
<1> USE DEF TypeOK, OwnLabels
<1> SUFFICES (\A k \in Leaked' : k \in Leaked) /\ failures' = failures
  OBVIOUS
<1>1. CASE StartNew(w, o) \/ StartStepToEpoch(w, o) \/ StartEphemeris(w, o)
  BY <1>1, LeakedIs, LeakedIsThen DEF StartNew, StartStepToEpoch, StartEphemeris
<1>2. CASE StartRead(w, o) \/ StartPredict(w, o)
  BY <1>2, LeakedIs, LeakedIsThen DEF StartRead, StartPredict
<1>3. CASE DropTLE(w, o)
  <2>1. ASSUME NEW k \in Leaked' PROVE k \in Leaked
    BY <1>3, LeakedIs, LeakedIsThen, DataAssumption DEF DropTLE, LastHolder
  <2> QED BY <1>3, <2>1 DEF DropTLE
<1>4. ASSUME NEW copy \in Objects \ {o}, Clone(w, o, copy)
      PROVE  (\A k \in Leaked' : k \in Leaked) /\ failures' = failures
  BY <1>4, LeakedIs, LeakedIsThen, DataAssumption DEF Clone
<1> QED BY <1>1, <1>2, <1>3, <1>4 DEF Start

(* Every failed load leaks a key at most, and nothing else does.           *)
THEOREM AccountsCorrect == Spec => []KeysAccountedFor
<1>1. Init => Accounted
  <2>1. Init => Leaked = {} /\ failures = 0
    BY DEF Init, Leaked
  <2> QED BY <2>1, FS_EmptySet DEF Accounted
<1>2. IInv /\ Accounted /\ [Next]_vars => Accounted'
  <2> SUFFICES ASSUME IInv, Accounted, [Next]_vars PROVE Accounted'
    OBVIOUS
  <2>1. failures \in Nat /\ IsFiniteSet(Leaked) /\ Cardinality(Leaked) <= failures
        /\ Cardinality(Leaked) \in Nat
    BY FS_CardinalityType, DataAssumption DEF IInv, TypeOK, Accounted
  <2>2. ASSUME Leaked' \subseteq Leaked, failures' \in {failures, failures + 1}
        PROVE  Accounted'
    <3>1. IsFiniteSet(Leaked') /\ Cardinality(Leaked') <= Cardinality(Leaked)
      BY <2>1, <2>2, FS_Subset
    <3>2. Cardinality(Leaked') \in Nat
      BY <3>1, FS_CardinalityType
    <3> QED BY <2>1, <2>2, <3>1, <3>2 DEF Accounted
  <2>3. ASSUME NEW k, Leaked' \subseteq Leaked \cup {k}, failures' = failures + 1
        PROVE  Accounted'
    <3>1. /\ IsFiniteSet(Leaked \cup {k})
          /\ Cardinality(Leaked \cup {k}) <= Cardinality(Leaked) + 1
      BY <2>1, FS_AddElement
    <3>2. IsFiniteSet(Leaked') /\ Cardinality(Leaked') <= Cardinality(Leaked \cup {k})
      BY <2>3, <3>1, FS_Subset
    <3>3. Cardinality(Leaked') \in Nat /\ Cardinality(Leaked \cup {k}) \in Nat
      BY <3>1, <3>2, FS_CardinalityType
    <3> QED BY <2>1, <2>3, <3>1, <3>2, <3>3 DEF Accounted
  <2>4. CASE UNCHANGED vars
    <3>1. Leaked' = Leaked /\ failures' = failures
      BY <2>4 DEF vars, Leaked, Owned
    <3> QED BY <2>2, <3>1
  <2>5. ASSUME NEW w \in Workers, Continue(w) PROVE Accounted'
    BY <2>2, <2>3, <2>5, ContinueLeaks DEF IInv
  <2>6. ASSUME NEW w \in Workers, NEW o \in Objects, Start(w, o) PROVE Accounted'
    BY <2>2, <2>6, StartLeaks DEF IInv
  <2> QED BY <2>4, <2>5, <2>6 DEF Next
<1>3. Accounted => KeysAccountedFor
  BY DEF Accounted, KeysAccountedFor, Leaked
<1> QED BY <1>1, <1>2, <1>3, InvariantCorrect, PTL DEF Spec
=============================================================================
