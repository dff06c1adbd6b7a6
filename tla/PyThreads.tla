----------------------------- MODULE PyThreads ------------------------------
(***************************************************************************)
(* Python threads in the methods of src/src/bindings, and the workers of   *)
(* the rayon pool. A thread enters a method with the interpreter lock      *)
(* (gil) and its borrows; a detached body runs without it and takes it     *)
(* again to return. A log record is handed to Python (pyo3_log) and needs  *)
(* it too, on any thread. A call whose borrow is refused raises, and one   *)
(* with a plain body ends, without any other effect.                       *)
(***************************************************************************)
EXTENDS PyMethods, FiniteSets

CONSTANTS
  Threads,    (* Python threads                                            *)
  Workers,    (* threads of the pool                                       *)
  Called,     (* bound: the methods that are called                        *)
  Copies,     (* bound: objects of each class                              *)
  MaxCalls,   (* bound: calls a thread makes                               *)
  None        (* nobody                                                    *)

ASSUME ThreadsAssumption ==
  /\ Threads \cap Workers = {}
  /\ None \notin Threads \cup Workers
  /\ Workers # {}
  /\ Private \notin Ephemerides /\ None \notin Ephemerides \cup {Private}
  /\ Called \subseteq Methods
  /\ MaxCalls \in Nat /\ MaxSatellites \in Nat

VARIABLES
  gil,       (* the thread that has the interpreter, or None               *)
  call,      (* of each thread: its method, with the objects it borrowed   *)
  left,      (* of each thread: the calls it may still make                *)
  stack,     (* of each thread and worker: the programs it is in           *)
  jobs,      (* items of parallel iterators no worker has taken            *)
  version    (* of each ephemeris: the states added since the start        *)

vars == <<gil, call, left, stack, jobs, version>>

Handles == Ephemerides \cup {Private}

Idle == [borrows |-> {}, body |-> "plain", detached |-> FALSE]

Actors == Threads \cup Workers

Frame(ops, owner, depth) ==
  [ops |-> ops, guards |-> <<>>, seen |-> {}, owner |-> owner, depth |-> depth]

Init ==
  /\ gil = None
  /\ call = [t \in Threads |-> Idle]
  /\ left = [t \in Threads |-> MaxCalls]
  /\ stack = [a \in Actors |-> <<>>]
  /\ jobs = {}
  /\ version = [e \in Handles |-> 0]

-----------------------------------------------------------------------------
Running(a) == stack[a] # <<>>

Top(a) == Last(stack[a])

(* The next operation of a program that is not at its end.                 *)
At(a, op) == Running(a) /\ Top(a).ops # <<>> /\ Head(Top(a).ops).op = op

Op(a) == Head(Top(a).ops)

AtEnd(a) == Running(a) /\ Top(a).ops = <<>>

NeedsGil(a) == a \in Threads /\ ~call[a].detached

MayRun(a) == NeedsGil(a) => gil = a

Ready(a, op) == At(a, op) /\ MayRun(a)

Guarded(a, ephem) == \E i \in DOMAIN stack[a] : \E j \in DOMAIN stack[a][i].guards :
                       stack[a][i].guards[j] = ephem

WaitsToWrite(t, ephem) == At(t, "waiting") /\ Op(t).on = ephem

Readable(ephem) == ~ \E t \in Threads : WaitsToWrite(t, ephem)

Writable(ephem) == ~ \E a \in Actors : Guarded(a, ephem)

SaalLocked == \E a \in Actors : \E i \in DOMAIN stack[a] :
                \E o \in ToSet(stack[a][i].guards) : o = None

SetTop(a, frame) == stack' = [stack EXCEPT ![a] = Append(Front(@), frame)]

(* The operation is done, with path in its place.                          *)
Continue(a, path) == SetTop(a, [Top(a) EXCEPT !.ops = path \o Tail(@)])

-----------------------------------------------------------------------------
Conflicts(one, two) ==
  /\ one.class = two.class /\ one.copy = two.copy
  /\ one.mode = "mut" \/ two.mode = "mut"

Borrows(method, pick) ==
  {[class |-> b.class, arg |-> b.arg, mode |-> b.mode, copy |-> pick[b]] : b \in method.borrows}

Call(t, method, pick) ==
  LET mine == Borrows(method, pick) IN
  /\ gil = None /\ call[t] = Idle /\ ~Running(t) /\ left[t] > 0
  /\ \A b \in mine, c \in mine : b # c => ~Conflicts(b, c)
  /\ \A u \in Threads, b \in mine : \A c \in call[u].borrows : ~Conflicts(b, c)
  /\ left' = [left EXCEPT ![t] = @ - 1]
  /\ IF method.body = "plain"
     THEN UNCHANGED <<gil, call, stack>>
     ELSE /\ gil' = IF method.detached THEN None ELSE t
          /\ call' = [call EXCEPT ![t] =
               [method EXCEPT !.borrows = {b \in mine : b.mode # "copied"}]]
          /\ \E ops \in Bodies[method.body] :
               stack' = [stack EXCEPT ![t] = <<Frame(ops, None, 0)>>]
  /\ UNCHANGED <<jobs, version>>

Returns(t) == AtEnd(t) /\ gil = (IF call[t].detached THEN None ELSE t)

Return(t) ==
  /\ Returns(t)
  /\ gil' = None
  /\ call' = [call EXCEPT ![t] = Idle]
  /\ stack' = [stack EXCEPT ![t] = <<>>]
  /\ UNCHANGED <<left, jobs, version>>

(* The logger is Python: others may get the interpreter while it runs.     *)
SwitchAtLog(t) ==
  /\ NeedsGil(t) /\ At(t, "log") /\ gil = t
  /\ gil' = None
  /\ UNCHANGED <<call, left, stack, jobs, version>>

WantsGil(t) == NeedsGil(t) /\ Running(t) /\ gil = None

SwitchBack(t) ==
  /\ WantsGil(t)
  /\ gil' = t
  /\ UNCHANGED <<call, left, stack, jobs, version>>

Logs(a) == At(a, "log") /\ gil = (IF NeedsGil(a) THEN a ELSE None)

LogRecord(a) ==
  /\ Logs(a)
  /\ Continue(a, <<>>)
  /\ UNCHANGED <<gil, call, left, jobs, version>>

-----------------------------------------------------------------------------
ReadGuard(a) ==
  /\ Ready(a, "read") /\ Readable(Op(a).on)
  /\ SetTop(a, [Top(a) EXCEPT !.ops = Tail(@), !.guards = Append(@, Op(a).on),
                              !.seen = @ \cup {<<Op(a).on, version[Op(a).on]>>}])
  /\ UNCHANGED <<gil, call, left, jobs, version>>

PeekStates(a) ==
  /\ Ready(a, "peek") /\ Readable(Op(a).on)
  /\ Continue(a, <<>>)
  /\ UNCHANGED <<gil, call, left, jobs, version>>

DropGuards(a) ==
  /\ Ready(a, "drop")
  /\ SetTop(a, [Top(a) EXCEPT !.ops = Tail(@),
                              !.guards = SubSeq(@, 1, Len(@) - Op(a).n)])
  /\ UNCHANGED <<gil, call, left, jobs, version>>

AddState(t) ==
  /\ Ready(t, "write") \/ Ready(t, "waiting")
  /\ Writable(Op(t).on)
  /\ version' = [version EXCEPT ![Op(t).on] = @ + 1]
  /\ Continue(t, <<>>)
  /\ UNCHANGED <<gil, call, left, jobs>>

WaitForReaders(t) ==
  /\ Ready(t, "write") /\ ~Writable(Op(t).on)
  /\ Continue(t, <<[op |-> "waiting", on |-> Op(t).on]>>)
  /\ UNCHANGED <<gil, call, left, jobs, version>>

TakeSaalLock(a) ==
  /\ Ready(a, "lock") /\ ~SaalLocked
  /\ SetTop(a, [Top(a) EXCEPT !.ops = Tail(@), !.guards = Append(@, None)])
  /\ UNCHANGED <<gil, call, left, jobs, version>>

ReleaseSaalLock(a) ==
  /\ Ready(a, "unlock")
  /\ SetTop(a, [Top(a) EXCEPT !.ops = Tail(@), !.guards = Front(@)])
  /\ UNCHANGED <<gil, call, left, jobs, version>>

TakePath(a) ==
  /\ Ready(a, "either")
  /\ \E path \in Op(a).paths : Continue(a, path)
  /\ UNCHANGED <<gil, call, left, jobs, version>>

-----------------------------------------------------------------------------
ForkItems(a) ==
  /\ Ready(a, "fork")
  /\ jobs' = jobs \cup {[item |-> i.item, ops |-> i.ops, owner |-> a, depth |-> Len(stack[a])] :
                          i \in Op(a).items}
  /\ Continue(a, <<>>)
  /\ UNCHANGED <<gil, call, left, version>>

Pending(a) ==
  \/ \E j \in jobs : j.owner = a /\ j.depth = Len(stack[a])
  \/ \E w \in Workers : \E i \in DOMAIN stack[w] :
       stack[w][i].owner = a /\ stack[w][i].depth = Len(stack[a])

JoinItems(a) ==
  /\ Ready(a, "join") /\ ~Pending(a)
  /\ Continue(a, <<>>)
  /\ UNCHANGED <<gil, call, left, jobs, version>>

(* A worker that waits for the items of an inner iterator steals others.   *)
Free(w) == ~Running(w) \/ (At(w, "join") /\ Pending(w))

TakeItem(w, job) ==
  /\ Free(w)
  /\ jobs' = jobs \ {job}
  /\ stack' = [stack EXCEPT ![w] = Append(@, Frame(job.ops, job.owner, job.depth))]
  /\ UNCHANGED <<gil, call, left, version>>

ItemDone(w) ==
  /\ AtEnd(w)
  /\ stack' = [stack EXCEPT ![w] = Front(@)]
  /\ UNCHANGED <<gil, call, left, jobs, version>>

-----------------------------------------------------------------------------
Step ==
  \/ \E t \in Threads : \/ Return(t) \/ SwitchBack(t)
                        \/ AddState(t) \/ WaitForReaders(t)
  \/ \E a \in Actors : \/ LogRecord(a) \/ ReadGuard(a) \/ PeekStates(a) \/ DropGuards(a)
                       \/ TakeSaalLock(a) \/ ReleaseSaalLock(a) \/ TakePath(a)
                       \/ ForkItems(a) \/ JoinItems(a)
  \/ \E w \in Workers : ItemDone(w) \/ \E j \in jobs : TakeItem(w, j)

Next ==
  \/ Step
  \/ \E t \in Threads : \/ SwitchAtLog(t)
                        \/ \E m \in Called : \E pick \in [m.borrows -> Copies] : Call(t, m, pick)

Spec == Init /\ [][Next]_vars

-----------------------------------------------------------------------------
(* The guards of the actions of Step: somebody can go on.                  *)
ThreadCanGoOn(t) ==
  Returns(t) \/ WantsGil(t) \/ Ready(t, "write") \/ (Ready(t, "waiting") /\ Writable(Op(t).on))

WorkerCanGoOn(w) == AtEnd(w) \/ (Free(w) /\ jobs # {})

CanGoOn(a) ==
  \/ Logs(a)
  \/ (Ready(a, "read") \/ Ready(a, "peek")) /\ Readable(Op(a).on)
  \/ Ready(a, "drop") \/ Ready(a, "unlock") \/ Ready(a, "fork")
  \/ Ready(a, "either") /\ Op(a).paths # {}
  \/ Ready(a, "lock") /\ ~SaalLocked
  \/ Ready(a, "join") /\ ~Pending(a)

SomebodyGoesOn ==
  \/ \E t \in Threads : ThreadCanGoOn(t)
  \/ \E w \in Workers : WorkerCanGoOn(w)
  \/ \E a \in Actors : CanGoOn(a)

(* Calls that are running and will never return, whoever else calls.       *)
Hangs == (\E a \in Actors : Running(a)) /\ ~SomebodyGoesOn

(* Threads, workers, locks and the interpreter never wait for each other   *)
(* in a circle, unless a thread adds a state to an ephemeris (with the     *)
(* interpreter, PyEphemeris.add_state) that a search has open which wants  *)
(* to log or to open it once more.                                         *)
HangsOnlyOnWriter ==
  Hangs =>
    \E t \in Threads, a \in Actors, e \in Ephemerides :
      /\ WaitsToWrite(t, e) /\ gil = t
      /\ Guarded(a, e)
      /\ \/ At(a, "log")
         \/ (At(a, "read") \/ At(a, "peek")) /\ Op(a).on = e

(* A search for accesses or approaches sees one version of each of its     *)
(* ephemerides from its first step to its last, although it opens them     *)
(* anew for every crossing.                                                *)
SearchSeesOneVersion ==
  \A a \in Actors : \A i \in DOMAIN stack[a] :
    \A s \in stack[a][i].seen, r \in stack[a][i].seen : s[1] = r[1] => s[2] = r[2]
=============================================================================
