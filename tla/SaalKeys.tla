------------------------------ MODULE SaalKeys ------------------------------
(***************************************************************************)
(* The keys of the external SAAL library (src/src/elements/tle.rs).        *)
(* A TLE owns a key of two global tables: the TLE table and, once it is    *)
(* initialised, the SGP4 table. Clones share the key through an Arc, and   *)
(* the last one to go removes it. Satellite::get_ephemeris re-initialises  *)
(* the key after use. Python threads and rayon workers call these methods  *)
(* at the same time; only the closures of BatchLeastSquares take a lock.   *)
(*                                                                         *)
(* An object is a place that may hold a TLE: a variable, a slot of a       *)
(* constellation, a temporary. A method runs between SAAL calls in one     *)
(* step; it leaves the label "idle" or "wait" only to be inside SAAL.       *)
(* The borrow checker is the guard of the methods: &mut self is exclusive. *)
(***************************************************************************)
EXTENDS Naturals, FiniteSets

CONSTANTS
  Workers,
  Objects,
  Keys,        (* bound: the keys SAAL can hand out                        *)
  MaxFailures, (* bound: the calls of sgp4::load that fail in a behaviour  *)
  None         (* Option::None, or no worker                               *)

ASSUME DataAssumption ==
  /\ None \notin Workers \cup Objects \cup Keys
  /\ MaxFailures \in Nat

VARIABLES
  handle,        (* the key an object shares, None if it holds no TLE      *)
  tles, sgp4,    (* the tables of SAAL                                     *)
  lock,          (* the worker that holds SAAL_BLS_LOCK                    *)
  pc, obj, key,  (* of each worker: where it is, on which object, and the  *)
                 (* key no object holds: not yet, or no longer             *)
  failures       (* calls of sgp4::load that failed so far                 *)

tables == <<tles, sgp4>>
vars   == <<handle, tables, lock, pc, obj, key, failures>>

Init ==
  /\ handle = [o \in Objects |-> None]
  /\ tles = {} /\ sgp4 = {}
  /\ lock = None
  /\ pc  = [w \in Workers |-> "idle"]
  /\ obj = [w \in Workers |-> None]
  /\ key = [w \in Workers |-> None]
  /\ failures = 0

-----------------------------------------------------------------------------
(* The borrows of a running method.                                        *)
Sharing == {"read", "wait", "guarded"}

MayMutate(o) == \A w \in Workers : obj[w] # o
MayShare(o)  == \A w \in Workers : obj[w] = o => pc[w] \in Sharing

Begin(w, o, label) ==
  /\ pc[w] = "idle"
  /\ pc' = [pc EXCEPT ![w] = label]
  /\ obj' = [obj EXCEPT ![w] = o]

Goto(w, label) == pc' = [pc EXCEPT ![w] = label] /\ UNCHANGED obj

Return(w) ==
  /\ pc' = [pc EXCEPT ![w] = "idle"]
  /\ obj' = [obj EXCEPT ![w] = None]

(* Mistake: the clones of a key are not counted.                           *)
NotCounted(o) == TRUE

(* The Arc of o is the last one of its key.                                *)
LastHolder(o) == \A other \in Objects \ {o} : handle[other] # handle[o]

-----------------------------------------------------------------------------
(* A new TLE: constructed in a free place, or by set_keplerian_state and   *)
(* step_to_epoch in place of the one there.                                *)
StartNew(w, o) ==
  /\ MayMutate(o)
  /\ Begin(w, o, "load_tle")
  /\ UNCHANGED <<handle, tables, lock, key, failures>>

StartStepToEpoch(w, o) ==
  /\ MayMutate(o) /\ handle[o] # None
  /\ Begin(w, o, "reepoch")
  /\ UNCHANGED <<handle, tables, lock, key, failures>>

Reepoch(w) ==
  /\ pc[w] = "reepoch"
  /\ \/ handle[obj[w]] \in sgp4 /\ Goto(w, "load_tle")
     \/ Return(w)
  /\ UNCHANGED <<handle, tables, lock, key, failures>>

(* Mistake: a load that fails is tried again, for ever.                    *)
LoadArraysRetried(w) ==
  /\ pc[w] = "load_tle"
  /\ \/ \E k \in Keys \ tles :
          /\ tles' = tles \cup {k}
          /\ key' = [key EXCEPT ![w] = k]
          /\ Goto(w, "load_sgp4")
     \/ Goto(w, "reepoch") /\ UNCHANGED <<tles, key>>
  /\ UNCHANGED <<handle, sgp4, lock, failures>>

LoadArrays(w) ==
  /\ pc[w] = "load_tle"
  /\ \/ \E k \in Keys \ tles :
          /\ tles' = tles \cup {k}
          /\ key' = [key EXCEPT ![w] = k]
          /\ Goto(w, "load_sgp4")
     \/ Return(w) /\ UNCHANGED <<tles, key>>
  /\ UNCHANGED <<handle, sgp4, lock, failures>>

(* Mistake: the key that was there is not given back.                      *)
LoadSgp4OverOld(w) ==
  /\ pc[w] = "load_sgp4"
  /\ sgp4' = sgp4 \cup {key[w]}
  /\ handle' = [handle EXCEPT ![obj[w]] = key[w]]
  /\ key' = [key EXCEPT ![w] = None] /\ Return(w)
  /\ UNCHANGED <<tles, lock, failures>>

(* The handle is made only if the load succeeds: otherwise `?` leaves a    *)
(* key behind that nobody will remove. The old TLE of the place goes.      *)
LoadSgp4(w) ==
  LET o == obj[w] IN
  /\ pc[w] = "load_sgp4"
  /\ \/ /\ sgp4' = sgp4 \cup {key[w]}
        /\ handle' = [handle EXCEPT ![o] = key[w]]
        /\ IF handle[o] # None /\ LastHolder(o)
             THEN key' = [key EXCEPT ![w] = handle[o]] /\ Goto(w, "drop_sgp4")
             ELSE key' = [key EXCEPT ![w] = None] /\ Return(w)
        /\ UNCHANGED failures
     \/ /\ failures < MaxFailures /\ failures' = failures + 1
        /\ key' = [key EXCEPT ![w] = None] /\ Return(w)
        /\ UNCHANGED <<sgp4, handle>>
  /\ UNCHANGED <<tles, lock>>

-----------------------------------------------------------------------------
(* Clones and drops.                                                       *)
Clone(w, o, copy) ==
  /\ pc[w] = "idle"
  /\ MayShare(o) /\ handle[o] # None
  /\ MayMutate(copy) /\ handle[copy] = None
  /\ handle' = [handle EXCEPT ![copy] = handle[o]]
  /\ UNCHANGED <<tables, lock, pc, obj, key, failures>>

DropTLE(w, o) ==
  /\ MayMutate(o) /\ handle[o] # None
  /\ handle' = [handle EXCEPT ![o] = None]
  /\ IF LastHolder(o)
       THEN Begin(w, o, "drop_sgp4") /\ key' = [key EXCEPT ![w] = handle[o]]
       ELSE pc[w] = "idle" /\ UNCHANGED <<pc, obj, key>>
  /\ UNCHANGED <<tables, lock, failures>>

(* Mistake: the key leaves the TLE table first, where it can be given to   *)
(* somebody else before it leaves the SGP4 table.                          *)
RemoveKeySwapped(w) ==
  /\ \/ /\ pc[w] = "drop_sgp4"
        /\ tles' = tles \ {key[w]} /\ UNCHANGED sgp4
        /\ Goto(w, "drop_tle") /\ UNCHANGED key
     \/ /\ pc[w] = "drop_tle"
        /\ sgp4' = sgp4 \ {key[w]} /\ UNCHANGED tles
        /\ key' = [key EXCEPT ![w] = None] /\ Return(w)
  /\ UNCHANGED <<handle, lock, failures>>

(* SAALKeyHandle::drop.                                                    *)
RemoveKey(w) ==
  /\ \/ /\ pc[w] = "drop_sgp4"
        /\ sgp4' = sgp4 \ {key[w]} /\ UNCHANGED tles
        /\ Goto(w, "drop_tle") /\ UNCHANGED key
     \/ /\ pc[w] = "drop_tle"
        /\ tles' = tles \ {key[w]} /\ UNCHANGED sgp4
        /\ key' = [key EXCEPT ![w] = None] /\ Return(w)
  /\ UNCHANGED <<handle, lock, failures>>

-----------------------------------------------------------------------------
(* Satellite::get_ephemeris: propagate, then remove and load the key.      *)
StartEphemeris(w, o) ==
  /\ MayMutate(o) /\ handle[o] # None
  /\ Begin(w, o, "ephemeris")
  /\ UNCHANGED <<handle, tables, lock, key, failures>>

(* A propagation can fail on its own account; then there is no reload.     *)
Propagate(w) ==
  /\ pc[w] = "ephemeris"
  /\ \/ handle[obj[w]] \in sgp4 /\ Goto(w, "reload_remove")
     \/ Return(w)
  /\ UNCHANGED <<handle, tables, lock, key, failures>>

(* Mistake: the result of sgp4::remove is ignored.                         *)
ReloadRemoveIgnored(w) ==
  /\ pc[w] = "reload_remove"
  /\ sgp4' = sgp4 \ {handle[obj[w]]}
  /\ Goto(w, "reload_load")
  /\ UNCHANGED <<handle, tles, lock, key, failures>>

ReloadRemove(w) ==
  /\ pc[w] = "reload_remove"
  /\ IF handle[obj[w]] \in sgp4
       THEN sgp4' = sgp4 \ {handle[obj[w]]} /\ Goto(w, "reload_load")
       ELSE UNCHANGED sgp4 /\ Return(w)
  /\ UNCHANGED <<handle, tles, lock, key, failures>>

ReloadLoad(w) ==
  /\ pc[w] = "reload_load"
  /\ \/ sgp4' = sgp4 \cup {handle[obj[w]]} /\ UNCHANGED failures
     \/ failures < MaxFailures /\ failures' = failures + 1 /\ UNCHANGED sgp4
  /\ Return(w)
  /\ UNCHANGED <<handle, tles, lock, key>>

-----------------------------------------------------------------------------
(* get_state_at_epoch and the like: a shared borrow and no lock.           *)
StartRead(w, o) ==
  /\ MayShare(o) /\ handle[o] # None
  /\ Begin(w, o, "read")
  /\ UNCHANGED <<handle, tables, lock, key, failures>>

Read(w) ==
  /\ pc[w] = "read"
  /\ Return(w)
  /\ UNCHANGED <<handle, tables, lock, key, failures>>

(* The closures of get_predicted_measurements and get_jacobians.           *)
StartPredict(w, o) ==
  /\ MayShare(o) /\ handle[o] # None
  /\ Begin(w, o, "wait")
  /\ UNCHANGED <<handle, tables, lock, key, failures>>

Lock(w) ==
  /\ pc[w] = "wait" /\ lock = None
  /\ lock' = w
  /\ Goto(w, "guarded")
  /\ UNCHANGED <<handle, tables, key, failures>>

Predict(w) ==
  /\ pc[w] = "guarded"
  /\ lock' = None
  /\ Return(w)
  /\ UNCHANGED <<handle, tables, key, failures>>

-----------------------------------------------------------------------------
Start(w, o) ==
  \/ StartNew(w, o) \/ StartStepToEpoch(w, o) \/ StartEphemeris(w, o)
  \/ StartRead(w, o) \/ StartPredict(w, o)
  \/ DropTLE(w, o) \/ \E copy \in Objects \ {o} : Clone(w, o, copy)

Continue(w) ==
  \/ Reepoch(w) \/ LoadArrays(w) \/ LoadSgp4(w)
  \/ RemoveKey(w)
  \/ Propagate(w) \/ ReloadRemove(w) \/ ReloadLoad(w)
  \/ Read(w) \/ Lock(w) \/ Predict(w)

Next == \E w \in Workers : Continue(w) \/ \E o \in Objects : Start(w, o)

(* The operating system runs every thread; nothing makes a caller start a  *)
(* method, and the mutex is not fair.                                      *)
Fairness == \A w \in Workers : WF_vars(Continue(w))

Spec == Init /\ [][Next]_vars /\ Fairness

-----------------------------------------------------------------------------
Labels == {"idle", "load_tle", "load_sgp4", "reepoch", "drop_sgp4", "drop_tle",
           "ephemeris", "reload_remove", "reload_load"} \cup Sharing

(* The tables hold keys, and every local has its type.                     *)
TypeOK ==
  /\ handle \in [Objects -> Keys \cup {None}]
  /\ tles \in SUBSET Keys /\ sgp4 \in SUBSET Keys
  /\ lock \in Workers \cup {None}
  /\ pc \in [Workers -> Labels]
  /\ obj \in [Workers -> Objects \cup {None}]
  /\ key \in [Workers -> Keys \cup {None}]
  /\ failures \in 0..MaxFailures

OwnLabels == {"load_sgp4", "drop_sgp4", "drop_tle"}

(* No key is used after it was given back: SAAL knows the key of every     *)
(* object and of every worker that is about to load or remove one, and a   *)
(* key that is being removed is the key of nobody else. Clones share keys  *)
(* through SAALKeyHandle, and workers drop them in any order.              *)
NoUseAfterRemove ==
  /\ \A o \in Objects : handle[o] \in tles \cup {None}
  /\ sgp4 \subseteq tles
  /\ \A w \in Workers : pc[w] \in OwnLabels =>
       /\ key[w] \in tles
       /\ \A o \in Objects : handle[o] # key[w]
       /\ \A v \in Workers \ {w} : pc[v] \in OwnLabels => key[v] # key[w]

(* The key a worker gives to sgp4::load is not initialised, and no other   *)
(* worker loads it: TLE::reload of two clones that share a key.            *)
Loading(w) ==
  CASE pc[w] = "load_sgp4"   -> key[w]
    [] pc[w] = "reload_load" -> handle[obj[w]]
    [] OTHER                 -> None

NoDoubleLoad ==
  \A w \in Workers : Loading(w) # None =>
    /\ Loading(w) \notin sgp4
    /\ \A v \in Workers \ {w} : Loading(v) # Loading(w)

(* The key of an object is missing from the SGP4 table only while somebody *)
(* reloads it, or because a load has failed.                               *)
MissingOnlyIfReloading ==
  \A o \in Objects : handle[o] \notin sgp4 \cup {None} =>
    \/ failures > 0
    \/ \E w \in Workers : pc[w] = "reload_load" /\ handle[obj[w]] = handle[o]

(* Every key of SAAL has an owner, but for one key per failed load: a      *)
(* program that builds and drops TLEs does not fill the tables.            *)
Owned == {handle[o] : o \in Objects}
           \cup {key[w] : w \in {v \in Workers : pc[v] \in OwnLabels}}

KeysAccountedFor == Cardinality(tles \ Owned) <= failures

(* A method that is not waiting for the lock returns, with the lock free.  *)
CallsReturn ==
  \A w \in Workers : pc[w] \notin {"idle", "wait"} ~> pc[w] = "idle" /\ lock # w
=============================================================================
