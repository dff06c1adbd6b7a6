--------------------------- MODULE HorizonAccess ---------------------------
(***************************************************************************)
(* Ephemeris::get_horizon_accesses (src/src/elements/ephemeris.rs): the    *)
(* passes of a satellite over a sensor, found by sampling the elevation    *)
(* and refining each crossing of the minimum elevation. Time is counted    *)
(* in ticks from the start of the ephemeris; the elevation is whether the  *)
(* satellite is above the minimum at a tick, and a crossing has the epoch  *)
(* of the first tick after it.                                             *)
(***************************************************************************)
EXTENDS Integers, Sequences

CONSTANTS
  EndEpoch,     (* bound: the ticks of an ephemeris                        *)
  DefaultStep,  (* DEFAULT_STEP_MINUTES                                    *)
  MinDuration,  (* the caller's min_duration                               *)
  NoEpoch       (* None of an Option<Epoch>                                *)

ASSUME TimeAssumption ==
  /\ EndEpoch \in Nat /\ DefaultStep \in Nat \ {0}
  /\ MinDuration \in Nat /\ MinDuration % 2 = 0
  /\ NoEpoch \notin Nat

Ticks == 0..EndEpoch

dt == IF DefaultStep <= MinDuration \div 2 THEN DefaultStep ELSE MinDuration \div 2

VARIABLES
  above,                  (* the elevation of the satellite, a constant    *)
  pc,
  next_epoch,             (* where the next search starts                  *)
  sampled,                (* the last sample of the running search         *)
  last_entry, last_exit,
  accesses

search     == <<next_epoch, sampled>>
searchVars == <<above, pc, search, last_entry, last_exit, accesses>>

Rises(c) == c \in Ticks \ {0} /\ ~above[c - 1] /\ above[c]
Sets(c)  == c \in Ticks \ {0} /\ above[c - 1] /\ ~above[c]

SearchInit ==
  /\ above \in [Ticks -> BOOLEAN]
  /\ pc = "first_search"
  /\ next_epoch = 0 /\ sampled = 0
  /\ last_entry = (IF above[0] THEN 0 ELSE NoEpoch)
  /\ last_exit = NoEpoch
  /\ accesses = <<>>

-----------------------------------------------------------------------------
(* get_next_horizon_crossing: the loop over the samples of one search.     *)
Searching == pc \in {"first_search", "search"}
InRange   == sampled + dt <= EndEpoch

Sample ==
  /\ Searching /\ InRange
  /\ above[sampled + dt] = above[sampled]
  /\ sampled' = sampled + dt
  /\ UNCHANGED <<above, pc, next_epoch, last_entry, last_exit, accesses>>

(* refine_horizon_crossing keeps a bracket with a change of sign and so    *)
(* finds one of the crossings in it.                                       *)
Crossing(c) ==
  /\ Searching /\ InRange
  /\ above[sampled + dt] # above[sampled]
  /\ c \in (sampled + 1)..(sampled + dt)
  /\ Rises(c) \/ Sets(c)

NoCrossing == Searching /\ ~InRange

-----------------------------------------------------------------------------
(* The search before the loop. Only an exit moves the start of the next.   *)
FirstExitSkipsAStep(c) ==
  /\ pc = "first_search" /\ above[0]
  /\ last_exit' = c /\ UNCHANGED last_entry
  /\ next_epoch' = c + 2 * dt

FirstExit(c) ==
  /\ pc = "first_search" /\ above[0]
  /\ last_exit' = c /\ UNCHANGED last_entry
  /\ next_epoch' = c + dt

FirstEntry(c) ==
  /\ pc = "first_search" /\ ~above[0]
  /\ last_entry' = c /\ UNCHANGED last_exit
  /\ UNCHANGED next_epoch

First(c) ==
  /\ Crossing(c)
  /\ FirstExit(c) \/ FirstEntry(c)
  /\ pc' = "loop"
  /\ UNCHANGED <<above, sampled, accesses>>

AlwaysAbove ==
  /\ pc = "first_search" /\ NoCrossing /\ last_entry # NoEpoch
  /\ accesses' = <<[entry |-> 0, exit |-> EndEpoch]>>
  /\ pc' = "done"
  /\ UNCHANGED <<above, search, last_entry, last_exit>>

NeverAbove ==
  /\ pc = "first_search" /\ NoCrossing /\ last_entry = NoEpoch
  /\ pc' = "done"
  /\ UNCHANGED <<above, search, last_entry, last_exit, accesses>>

(* The loop: the access of the previous rounds is saved or dropped, and a  *)
(* new search starts.                                                      *)
Pending == last_entry # NoEpoch /\ last_exit # NoEpoch
LongEnough == last_exit - last_entry >= MinDuration

StartSearch ==
  /\ pc = "loop" /\ next_epoch <= EndEpoch
  /\ sampled' = next_epoch
  /\ pc' = "search"
  /\ UNCHANGED <<above, next_epoch>>

SaveAccessKeepsEntry ==
  /\ Pending /\ LongEnough
  /\ StartSearch
  /\ accesses' = Append(accesses, [entry |-> last_entry, exit |-> last_exit])
  /\ last_exit' = NoEpoch /\ UNCHANGED last_entry

SaveAccess ==
  /\ Pending /\ LongEnough
  /\ StartSearch
  /\ accesses' = Append(accesses, [entry |-> last_entry, exit |-> last_exit])
  /\ last_entry' = NoEpoch /\ last_exit' = NoEpoch

SkipAccess ==
  /\ Pending /\ ~LongEnough
  /\ StartSearch
  /\ last_entry' = NoEpoch /\ last_exit' = NoEpoch
  /\ UNCHANGED accesses

NothingPending ==
  /\ ~Pending
  /\ StartSearch
  /\ UNCHANGED <<last_entry, last_exit, accesses>>

Entry(c) == Rises(c) /\ last_entry' = c /\ last_exit' = NoEpoch

ExitOfAnyCrossing(c) == last_exit' = c /\ UNCHANGED last_entry

Exit(c) == Sets(c) /\ last_exit' = c /\ UNCHANGED last_entry

LaterSkipsAStep(c) ==
  /\ pc = "search" /\ Crossing(c)
  /\ Entry(c) \/ Exit(c)
  /\ next_epoch' = c + 2 * dt
  /\ pc' = "loop"
  /\ UNCHANGED <<above, sampled, accesses>>

LaterFromTheCrossing(c) ==
  /\ pc = "search" /\ Crossing(c)
  /\ Entry(c) \/ Exit(c)
  /\ next_epoch' = c - 1
  /\ pc' = "loop"
  /\ UNCHANGED <<above, sampled, accesses>>

Later(c) ==
  /\ pc = "search" /\ Crossing(c)
  /\ Entry(c) \/ Exit(c)
  /\ next_epoch' = c + dt
  /\ pc' = "loop"
  /\ UNCHANGED <<above, sampled, accesses>>

(* The loop ends where no crossing is found, or where the next search      *)
(* would start after the end; an access that is pending is not saved.      *)
Break ==
  /\ \/ pc = "search" /\ NoCrossing
     \/ pc = "loop" /\ next_epoch > EndEpoch
  /\ pc' = "done"
  /\ UNCHANGED <<above, search, last_entry, last_exit, accesses>>

Loop == SaveAccess \/ SkipAccess \/ NothingPending \/ Break

SearchNext ==
  \/ Sample \/ \E c \in Ticks : First(c) \/ Later(c)
  \/ AlwaysAbove \/ NeverAbove \/ Loop

SearchSpec == SearchInit /\ [][SearchNext]_searchVars /\ WF_searchVars(SearchNext)

-----------------------------------------------------------------------------
(* The passes of the reference definition: from a rise to the next set.    *)
Pass(a, b) ==
  /\ Rises(a) \/ (a = 0 /\ above[0])
  /\ Sets(b) /\ a < b
  /\ \A t \in a..(b - 1) : above[t]

(* The sampling resolves every time the satellite is below the horizon     *)
(* between two passes: it is longer than a step.                           *)
Resolved ==
  \A b, a \in Ticks : Sets(b) /\ Rises(a) /\ b < a => a - b > dt

Reported(a, b) == \E i \in 1..Len(accesses) : accesses[i] = [entry |-> a, exit |-> b]

(* Epochs are in range and the accesses are a list of them.                *)
SearchTypeOK ==
  /\ above \in [Ticks -> BOOLEAN]
  /\ pc \in {"first_search", "loop", "search", "done"}
  /\ next_epoch \in 0..(EndEpoch + dt) /\ sampled \in Ticks
  /\ {last_entry, last_exit} \subseteq Ticks \cup {NoEpoch}
  /\ accesses \in Seq([entry : Ticks, exit : Ticks])

(* No two accesses of the list overlap, whatever crossings the sampling    *)
(* misses and whichever root a refinement ends at.                         *)
AccessesDisjoint ==
  \A i, j \in 1..Len(accesses) : i < j => accesses[i].exit < accesses[j].entry

(* What is reported is a pass: an entry is not paired with the exit of a   *)
(* later one. The satellite that seems to be always above is the exception.*)
AccessesArePasses ==
  Resolved =>
    \A i \in 1..Len(accesses) :
      \/ Pass(accesses[i].entry, accesses[i].exit)
      \/ accesses[i] = [entry |-> 0, exit |-> EndEpoch]

(* Every pass that is long enough and ends a step or more before the       *)
(* ephemeris does is reported.                                             *)
LongPassesReported ==
  pc = "done" /\ Resolved =>
    \A a, b \in Ticks :
      Pass(a, b) /\ b - a >= MinDuration /\ b + dt <= EndEpoch => Reported(a, b)

(* The search comes to an end.                                             *)
Terminates == <>(pc = "done")
=============================================================================
