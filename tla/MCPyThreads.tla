---------------------------- MODULE MCPyThreads -----------------------------
(* Two Python threads, two workers, two ephemerides, two objects a class;  *)
(* a method for each body, detached or not.                                *)
EXTENDS PyThreads

MCCalled ==
  {CHOOSE m \in Methods : m.body = k[1] /\ m.detached = k[2] :
     k \in {<<m.body, m.detached>> : m \in Methods}}

MCSymmetry == Permutations(Threads) \cup Permutations(Workers) \cup Permutations(Ephemerides)
                \cup Permutations(Copies)

(* Steps that neither wait nor make others wait are taken at once: in any  *)
(* other order they lead to the same states. With no writer to come the    *)
(* guards of readers are such steps.                                       *)
NoWriter == \A t \in Threads : left[t] = 0 /\ ~At(t, "write") /\ ~At(t, "waiting")

Eager(a) ==
  \/ At(a, "either") \/ At(a, "fork")
  \/ AtEnd(a) /\ a \in Workers
  \/ At(a, "join") /\ ~Pending(a)
  \/ (At(a, "read") \/ At(a, "peek")) /\ (Op(a).on = Private \/ NoWriter)
  \/ At(a, "drop") /\ NoWriter

MCEager ==
  LET first == {a \in Actors : Eager(a) /\ MayRun(a)} IN
  first # {} => \E a \in first : stack'[a] # stack[a]

(* One of the two threads is always in one of these: two longer bodies     *)
(* share nothing but the interpreter, the pool and guards of readers.      *)
MCBriefly == {"plain", "logs", "adds", "solve"}

MCOneAtLength == \E t \in Threads : call[t].body \in MCBriefly
=============================================================================
