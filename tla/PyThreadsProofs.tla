-------------------------- MODULE PyThreadsProofs ---------------------------
(***************************************************************************)
(* Proofs about the methods of the bindings, for any number of threads,    *)
(* workers, ephemerides, satellites and calls: a search sees one version   *)
(* of its ephemerides, and nobody hangs but for a writer. A program is     *)
(* safe if, however it goes on, it opens no ephemeris again that it has    *)
(* let go, and waits for the pool, for the solver's lock and for readers   *)
(* only without guards: the first part shows that every body of PyBodies   *)
(* is, the second that every method of PyMethods runs one that suits it,   *)
(* the third that the rest of a safe program is safe after every step.     *)
(***************************************************************************)
EXTENDS PyThreads, Integers, FiniteSetTheorems, SequenceTheorems, WellFoundedInduction, TLAPS

(* A sequence, of whatever.                                                *)
IsSeq(s) == \E S : s \in Seq(S)

LEMMA SeqShape ==
  ASSUME NEW s, IsSeq(s)
  PROVE  /\ Len(s) \in Nat /\ DOMAIN s = 1..Len(s)
         /\ s = <<>> <=> Len(s) = 0
<1>1. PICK S : s \in Seq(S)
  BY DEF IsSeq
<1> QED BY <1>1, LenProperties, EmptySeq

LEMMA TwoSeqs ==
  ASSUME NEW s, NEW t, IsSeq(s), IsSeq(t)
  PROVE  \E S : s \in Seq(S) /\ t \in Seq(S)
<1>1. PICK S : s \in Seq(S)
  BY DEF IsSeq
<1>2. PICK T : t \in Seq(T)
  BY DEF IsSeq
<1>3. s \in Seq(S \cup T) /\ t \in Seq(S \cup T)
  BY <1>1, <1>2, SeqMonotonic
<1> QED BY <1>3

LEMMA EmptyIsSeq == IsSeq(<<>>)
<1>1. <<>> \in Seq({})
  BY EmptySeq
<1> QED BY <1>1 DEF IsSeq

LEMMA SingleIsSeq ==
  ASSUME NEW x PROVE IsSeq(<<x>>)
<1>1. <<x>> \in Seq({x})
  OBVIOUS
<1> QED BY <1>1 DEF IsSeq

LEMMA ConcatSeq ==
  ASSUME NEW s, NEW t, IsSeq(s), IsSeq(t)
  PROVE  /\ IsSeq(s \o t) /\ Len(s \o t) = Len(s) + Len(t)
         /\ \A i \in 1..Len(s) + Len(t) :
              (s \o t)[i] = IF i <= Len(s) THEN s[i] ELSE t[i - Len(s)]
<1>1. PICK S : s \in Seq(S) /\ t \in Seq(S)
  BY TwoSeqs
<1>2. s \o t \in Seq(S)
  BY <1>1, ConcatProperties
<1> QED BY <1>1, <1>2, ConcatProperties DEF IsSeq

LEMMA ConcatEmpty ==
  ASSUME NEW s, IsSeq(s) PROVE s \o <<>> = s /\ <<>> \o s = s
<1>1. PICK S : s \in Seq(S)
  BY DEF IsSeq
<1> QED BY <1>1, ConcatEmptySeq

LEMMA ConcatAssoc ==
  ASSUME NEW s, NEW t, NEW u, IsSeq(s), IsSeq(t), IsSeq(u)
  PROVE  (s \o t) \o u = s \o (t \o u)
<1>1. PICK S : s \in Seq(S) /\ t \in Seq(S)
  BY TwoSeqs
<1>2. PICK T : u \in Seq(T)
  BY DEF IsSeq
<1>3. /\ s \in Seq(S \cup T) /\ t \in Seq(S \cup T) /\ u \in Seq(S \cup T)
  BY <1>1, <1>2, SeqMonotonic
<1> QED BY <1>3, ConcatAssociative

(* The next operation of a program.                                        *)
LEMMA NextOp ==
  ASSUME NEW o, NEW rest, IsSeq(rest)
  PROVE  /\ IsSeq(<<o>> \o rest) /\ <<o>> \o rest # <<>>
         /\ Head(<<o>> \o rest) = o /\ Tail(<<o>> \o rest) = rest
<1>1. PICK S : rest \in Seq(S)
  BY DEF IsSeq
<1>2. rest \in Seq(S \cup {o}) /\ <<o>> \in Seq(S \cup {o})
  BY <1>1, SeqMonotonic
<1>3. /\ <<o>> \o rest \in Seq(S \cup {o}) /\ Len(<<o>> \o rest) = 1 + Len(rest)
      /\ \A i \in 1..1 + Len(rest) :
           (<<o>> \o rest)[i] = IF i <= 1 THEN <<o>>[i] ELSE rest[i - 1]
  BY <1>2, ConcatProperties
<1>4. Len(rest) \in Nat
  BY <1>1, LenProperties
<1>5. <<o>> \o rest # <<>> /\ Head(<<o>> \o rest) = o
  BY <1>3, <1>4
<1>6. /\ Tail(<<o>> \o rest) \in Seq(S \cup {o})
      /\ Len(Tail(<<o>> \o rest)) = Len(rest)
      /\ \A i \in 1..Len(rest) : Tail(<<o>> \o rest)[i] = (<<o>> \o rest)[i + 1]
  BY <1>3, <1>4, <1>5, HeadTailProperties
<1>7. \A i \in 1..Len(rest) : Tail(<<o>> \o rest)[i] = rest[i]
  BY <1>3, <1>4, <1>6
<1>8. Tail(<<o>> \o rest) = rest
  BY <1>2, <1>6, <1>7, SeqEqual
<1> QED BY <1>3, <1>5, <1>8 DEF IsSeq

LEMMA TailSeq ==
  ASSUME NEW s, IsSeq(s), s # <<>>
  PROVE  IsSeq(Tail(s)) /\ Len(Tail(s)) = Len(s) - 1
<1>1. PICK S : s \in Seq(S)
  BY DEF IsSeq
<1> QED BY <1>1, HeadTailProperties DEF IsSeq

LEMMA AppendSeq ==
  ASSUME NEW s, NEW x, IsSeq(s)
  PROVE  /\ IsSeq(Append(s, x)) /\ Len(Append(s, x)) = Len(s) + 1
         /\ \A i \in 1..Len(s) : Append(s, x)[i] = s[i]
         /\ Append(s, x)[Len(s) + 1] = x
<1>1. PICK S : s \in Seq(S)
  BY DEF IsSeq
<1>2. s \in Seq(S \cup {x})
  BY <1>1, SeqMonotonic
<1> QED BY <1>2, AppendProperties DEF IsSeq

LEMMA PrefixSeq ==
  ASSUME NEW s, IsSeq(s), NEW n \in Int, n <= Len(s)
  PROVE  /\ IsSeq(SubSeq(s, 1, n)) /\ Len(SubSeq(s, 1, n)) = IF n < 0 THEN 0 ELSE n
         /\ \A i \in 1..n : SubSeq(s, 1, n)[i] = s[i]
<1>1. PICK S : s \in Seq(S)
  BY DEF IsSeq
<1>2. \A i \in 1..n : s[i] \in S
  BY <1>1, LenProperties
<1>3. SubSeq(s, 1, n) \in Seq(S)
  BY <1>2, SubSeqProperties
<1>4. Len(SubSeq(s, 1, n)) = IF 1 <= n THEN n - 1 + 1 ELSE 0
  BY <1>2, SubSeqProperties
<1>5. \A i \in 1..n : SubSeq(s, 1, n)[i] = s[i]
  <2>1. \A i \in 1 .. n - 1 + 1 : SubSeq(s, 1, n)[i] = s[1 + i - 1]
    BY <1>2, SubSeqProperties
  <2> QED BY <2>1
<1> QED BY <1>3, <1>4, <1>5 DEF IsSeq

LEMMA FrontSeq ==
  ASSUME NEW s, IsSeq(s), s # <<>>
  PROVE  /\ IsSeq(Front(s)) /\ Len(Front(s)) = Len(s) - 1
         /\ \A i \in 1..Len(s) - 1 : Front(s)[i] = s[i]
<1>1. Len(s) \in Nat /\ Len(s) # 0
  BY SeqShape
<1>2. Len(s) - 1 \in Int /\ Len(s) - 1 <= Len(s) /\ ~ (Len(s) - 1 < 0)
  BY <1>1
<1>3. /\ IsSeq(SubSeq(s, 1, Len(s) - 1)) /\ Len(SubSeq(s, 1, Len(s) - 1)) = Len(s) - 1
      /\ \A i \in 1..Len(s) - 1 : SubSeq(s, 1, Len(s) - 1)[i] = s[i]
  BY <1>2, PrefixSeq
<1> QED BY <1>3 DEF Front

-----------------------------------------------------------------------------
(* What is left of a program in a frame, with the guards it has, the       *)
(* ephemerides it has opened so far, and whether it has the interpreter.   *)
Rest(ops, guards, opened, mode) ==
  [ops |-> ops, guards |-> guards, opened |-> opened, mode |-> mode]

Has(guards, ephem) == \E i \in 1..Len(guards) : guards[i] = ephem

(* The next operation o is one its frame may do, and leads into P. An      *)
(* ephemeris is opened again only under a guard of an earlier opening; the *)
(* pool is used, the solver's lock taken and a state added without any     *)
(* guard, and with the interpreter neither the pool nor the lock is used.  *)
Does(o, rest, guards, opened, mode, P) ==
  \/ /\ o.op \in {"log", "peek"}
     /\ Rest(rest, guards, opened, mode) \in P
  \/ /\ o.op = "read" /\ o.on \in Handles
     /\ o.on \in opened => Has(guards, o.on)
     /\ Rest(rest, Append(guards, o.on), opened \cup {o.on}, mode) \in P
  \/ /\ o.op = "drop" /\ o.n \in Nat /\ o.n <= Len(guards)
     /\ Rest(rest, SubSeq(guards, 1, Len(guards) - o.n), opened, mode) \in P
  \/ /\ o.op = "write" /\ o.on \in Ephemerides /\ mode = "held" /\ guards = <<>>
     /\ Rest(rest, guards, opened, mode) \in P
     /\ Rest(<<[op |-> "waiting", on |-> o.on]>> \o rest, guards, opened, mode) \in P
  \/ /\ o.op = "waiting" /\ o.on \in Ephemerides /\ mode = "held" /\ guards = <<>>
     /\ Rest(rest, guards, opened, mode) \in P
  \/ /\ o.op = "lock" /\ mode = "detached" /\ guards = <<>>
     /\ Rest(rest, Append(guards, None), opened, mode) \in P
  \/ /\ o.op = "unlock" /\ guards # <<>>
     /\ Rest(rest, Front(guards), opened, mode) \in P
  \/ /\ o.op = "either" /\ o.paths # {}
     /\ \A path \in o.paths : Rest(path \o rest, guards, opened, mode) \in P
  \/ /\ o.op = "fork" /\ mode = "detached" /\ guards = <<>>
     /\ rest # <<>> /\ Head(rest).op = "join"
     /\ Rest(rest, guards, opened, mode) \in P
     /\ \A i \in o.items : Rest(i.ops, <<>>, {}, "detached") \in P
  \/ /\ o.op = "join" /\ mode = "detached" /\ guards = <<>>
     /\ Rest(rest, guards, opened, mode) \in P

(* A program that ends has dropped its guards.                             *)
GoesInto(ops, guards, opened, mode, P) ==
  /\ IsSeq(ops) /\ IsSeq(guards)
  /\ IF ops = <<>> THEN guards = <<>>
                   ELSE Does(Head(ops), Tail(ops), guards, opened, mode, P)

Closed(P) ==
  \A ops, guards, opened, mode :
    Rest(ops, guards, opened, mode) \in P => GoesInto(ops, guards, opened, mode, P)

(* However the program goes on, it does what it may.                       *)
Safe(ops, guards, opened, mode) ==
  \E P : Closed(P) /\ Rest(ops, guards, opened, mode) \in P

LEMMA DoesMore ==
  ASSUME NEW P, NEW Q, P \subseteq Q, NEW ops, NEW guards, NEW opened, NEW mode,
         GoesInto(ops, guards, opened, mode, P)
  PROVE  GoesInto(ops, guards, opened, mode, Q)
<1>1. CASE ops = <<>>
  BY <1>1 DEF GoesInto
<1>2. CASE ops # <<>>
  <2>1. Does(Head(ops), Tail(ops), guards, opened, mode, P)
    BY <1>2 DEF GoesInto
  <2>2. Does(Head(ops), Tail(ops), guards, opened, mode, Q)
    BY <2>1 DEF Does
  <2> QED BY <1>2, <2>2 DEF GoesInto
<1> QED BY <1>1, <1>2

LEMMA UnionClosed ==
  ASSUME NEW F, \A P \in F : Closed(P) PROVE Closed(UNION F)
<1> SUFFICES ASSUME NEW ops, NEW guards, NEW opened, NEW mode,
                    Rest(ops, guards, opened, mode) \in UNION F
             PROVE  GoesInto(ops, guards, opened, mode, UNION F)
  BY DEF Closed
<1>1. PICK P \in F : Rest(ops, guards, opened, mode) \in P
  OBVIOUS
<1>2. GoesInto(ops, guards, opened, mode, P)
  BY <1>1 DEF Closed
<1>3. P \subseteq UNION F
  OBVIOUS
<1> QED BY <1>2, <1>3, DoesMore

LEMMA SameRest ==
  ASSUME NEW a, NEW b, NEW c, NEW d, NEW e, NEW f, NEW g, NEW h,
         Rest(a, b, c, d) = Rest(e, f, g, h)
  PROVE  a = e /\ b = f /\ c = g /\ d = h
BY DEF Rest

(* A program is safe if its next operation leads into safe ones.           *)
LEMMA Fold ==
  ASSUME NEW P, Closed(P), NEW ops, NEW guards, NEW opened, NEW mode,
         GoesInto(ops, guards, opened, mode, P)
  PROVE  Safe(ops, guards, opened, mode)
<1> DEFINE Q == P \cup {Rest(ops, guards, opened, mode)}
<1>1. P \subseteq Q
  OBVIOUS
<1>2. ASSUME NEW a, NEW b, NEW c, NEW d, Rest(a, b, c, d) \in Q
      PROVE  GoesInto(a, b, c, d, Q)
  <2>1. CASE Rest(a, b, c, d) \in P
    <3>1. GoesInto(a, b, c, d, P)
      BY <2>1 DEF Closed
    <3> QED BY <1>1, <3>1, DoesMore
  <2>2. CASE Rest(a, b, c, d) = Rest(ops, guards, opened, mode)
    <3>1. a = ops /\ b = guards /\ c = opened /\ d = mode
      BY <2>2, SameRest
    <3> QED BY <1>1, <3>1, DoesMore
  <2> QED BY <1>2, <2>1, <2>2
<1>3. Closed(Q)
  <2> HIDE DEF Q
  <2> QED BY <1>2 DEF Closed
<1>4. Rest(ops, guards, opened, mode) \in Q
  OBVIOUS
<1> HIDE DEF Q
<1> QED BY <1>3, <1>4 DEF Safe

LEMMA Unfold ==
  ASSUME NEW ops, NEW guards, NEW opened, NEW mode, Safe(ops, guards, opened, mode)
  PROVE  \E P : Closed(P) /\ GoesInto(ops, guards, opened, mode, P)
BY DEF Safe, Closed

LEMMA SafeShape ==
  ASSUME NEW ops, NEW guards, NEW opened, NEW mode, Safe(ops, guards, opened, mode)
  PROVE  IsSeq(ops) /\ IsSeq(guards) /\ (ops = <<>> => guards = <<>>)
<1>1. PICK P : Closed(P) /\ GoesInto(ops, guards, opened, mode, P)
  BY Unfold
<1> QED BY <1>1 DEF GoesInto

(* What follows each operation of a safe program is safe.                  *)
LEMMA SafeNext ==
  ASSUME NEW ops, NEW guards, NEW opened, NEW mode, Safe(ops, guards, opened, mode),
         ops # <<>>
  PROVE  LET o == Head(ops)
             rest == Tail(ops) IN
    /\ o.op \in {"log", "peek", "read", "drop", "write", "waiting", "lock", "unlock",
                 "either", "fork", "join"}
    /\ o.op \in {"log", "peek"} => Safe(rest, guards, opened, mode)
    /\ o.op = "read" =>
         /\ o.on \in Handles /\ (o.on \in opened => Has(guards, o.on))
         /\ Safe(rest, Append(guards, o.on), opened \cup {o.on}, mode)
    /\ o.op = "drop" =>
         /\ o.n \in Nat /\ o.n <= Len(guards)
         /\ Safe(rest, SubSeq(guards, 1, Len(guards) - o.n), opened, mode)
    /\ o.op = "write" =>
         /\ o.on \in Ephemerides /\ mode = "held" /\ guards = <<>>
         /\ Safe(rest, guards, opened, mode)
         /\ Safe(<<[op |-> "waiting", on |-> o.on]>> \o rest, guards, opened, mode)
    /\ o.op = "waiting" =>
         /\ o.on \in Ephemerides /\ mode = "held" /\ guards = <<>>
         /\ Safe(rest, guards, opened, mode)
    /\ o.op = "lock" =>
         /\ mode = "detached" /\ guards = <<>>
         /\ Safe(rest, Append(guards, None), opened, mode)
    /\ o.op = "unlock" => guards # <<>> /\ Safe(rest, Front(guards), opened, mode)
    /\ o.op = "either" =>
         /\ o.paths # {}
         /\ \A path \in o.paths : Safe(path \o rest, guards, opened, mode)
    /\ o.op = "fork" =>
         /\ mode = "detached" /\ guards = <<>> /\ rest # <<>> /\ Head(rest).op = "join"
         /\ Safe(rest, guards, opened, mode)
         /\ \A i \in o.items : Safe(i.ops, <<>>, {}, "detached")
    /\ o.op = "join" =>
         mode = "detached" /\ guards = <<>> /\ Safe(rest, guards, opened, mode)
<1>1. PICK P : Closed(P) /\ GoesInto(ops, guards, opened, mode, P)
  BY Unfold
<1>2. Does(Head(ops), Tail(ops), guards, opened, mode, P)
  BY <1>1 DEF GoesInto
<1>3. \A a, b, c, d : Rest(a, b, c, d) \in P => Safe(a, b, c, d)
  BY <1>1 DEF Safe
<1> QED BY <1>2, <1>3 DEF Does

-----------------------------------------------------------------------------
(* Programs put together from the end.                                     *)

LEMMA SafeEnd == \A opened, mode : Safe(<<>>, <<>>, opened, mode)
<1> SUFFICES ASSUME NEW opened, NEW mode PROVE Safe(<<>>, <<>>, opened, mode)
  OBVIOUS
<1>1. Closed({})
  BY DEF Closed
<1>2. GoesInto(<<>>, <<>>, opened, mode, {})
  BY EmptyIsSeq DEF GoesInto
<1> QED BY <1>1, <1>2, Fold

LEMMA FoldOp ==
  ASSUME NEW P, Closed(P), NEW o, NEW rest, NEW guards, NEW opened, NEW mode,
         IsSeq(rest), IsSeq(guards), Does(o, rest, guards, opened, mode, P)
  PROVE  Safe(<<o>> \o rest, guards, opened, mode)
<1>1. GoesInto(<<o>> \o rest, guards, opened, mode, P)
  BY NextOp DEF GoesInto
<1> QED BY <1>1, Fold

LEMMA SafeLog ==
  ASSUME NEW o, NEW rest, NEW guards, NEW opened, NEW mode, o.op \in {"log", "peek"},
         Safe(rest, guards, opened, mode)
  PROVE  Safe(<<o>> \o rest, guards, opened, mode)
<1>1. PICK P : Closed(P) /\ Rest(rest, guards, opened, mode) \in P
  BY DEF Safe
<1>2. Does(o, rest, guards, opened, mode, P)
  BY <1>1 DEF Does
<1> QED BY <1>1, <1>2, FoldOp, SafeShape

LEMMA SafeRead ==
  ASSUME NEW ephem \in Handles, NEW rest, NEW guards, NEW opened, NEW mode,
         IsSeq(guards), ephem \in opened => Has(guards, ephem),
         Safe(rest, Append(guards, ephem), opened \cup {ephem}, mode)
  PROVE  Safe(<<Read(ephem)>> \o rest, guards, opened, mode)
<1>1. PICK P : Closed(P) /\ Rest(rest, Append(guards, ephem), opened \cup {ephem}, mode) \in P
  BY DEF Safe
<1>2. Read(ephem).op = "read" /\ Read(ephem).on = ephem
  BY DEF Read
<1>3. Does(Read(ephem), rest, guards, opened, mode, P)
  BY <1>1, <1>2 DEF Does
<1> QED BY <1>1, <1>3, FoldOp, SafeShape

LEMMA SafeDrop ==
  ASSUME NEW n \in Nat, NEW rest, NEW guards, NEW opened, NEW mode,
         IsSeq(guards), n <= Len(guards),
         Safe(rest, SubSeq(guards, 1, Len(guards) - n), opened, mode)
  PROVE  Safe(<<Drop(n)>> \o rest, guards, opened, mode)
<1>1. PICK P : /\ Closed(P)
               /\ Rest(rest, SubSeq(guards, 1, Len(guards) - n), opened, mode) \in P
  BY DEF Safe
<1>2. Drop(n).op = "drop" /\ Drop(n).n = n
  BY DEF Drop
<1>3. Does(Drop(n), rest, guards, opened, mode, P)
  BY <1>1, <1>2 DEF Does
<1> QED BY <1>1, <1>3, FoldOp, SafeShape

LEMMA SafeWrite ==
  ASSUME NEW ephem \in Ephemerides, NEW rest, NEW opened, Safe(rest, <<>>, opened, "held")
  PROVE  Safe(<<Write(ephem)>> \o rest, <<>>, opened, "held")
<1> DEFINE w == [op |-> "waiting", on |-> ephem]
<1>1. PICK P : Closed(P) /\ Rest(rest, <<>>, opened, "held") \in P
  BY DEF Safe
<1>2. Does(w, rest, <<>>, opened, "held", P)
  BY <1>1 DEF Does
<1>3. IsSeq(rest)
  BY SafeShape
<1>4. Safe(<<w>> \o rest, <<>>, opened, "held")
  BY <1>1, <1>2, <1>3, FoldOp, EmptyIsSeq
<1>5. PICK Q : Closed(Q) /\ Rest(<<w>> \o rest, <<>>, opened, "held") \in Q
  BY <1>4 DEF Safe
<1>6. Closed(UNION {P, Q})
  BY <1>1, <1>5, UnionClosed
<1>7. /\ Rest(rest, <<>>, opened, "held") \in UNION {P, Q}
      /\ Rest(<<w>> \o rest, <<>>, opened, "held") \in UNION {P, Q}
  BY <1>1, <1>5
<1>8. Write(ephem).op = "write" /\ Write(ephem).on = ephem
  BY DEF Write
<1>9. Does(Write(ephem), rest, <<>>, opened, "held", UNION {P, Q})
  <2> HIDE DEF w
  <2>1. w = [op |-> "waiting", on |-> Write(ephem).on]
    BY <1>8 DEF w
  <2> QED BY <1>7, <1>8, <2>1 DEF Does
<1> QED BY <1>3, <1>6, <1>9, FoldOp, EmptyIsSeq

(* A set of rests of programs that holds a safe one of each of its members. *)
LEMMA Together ==
  ASSUME NEW R, \A r \in R : \E P : Closed(P) /\ r \in P
  PROVE  \E P : Closed(P) /\ R \subseteq P
<1> DEFINE Of(r) == CHOOSE P : Closed(P) /\ r \in P
           F == {Of(r) : r \in R}
<1>1. \A r \in R : Closed(Of(r)) /\ r \in Of(r)
  OBVIOUS
<1> HIDE DEF Of
<1>2. Closed(UNION F)
  <2>1. \A P \in F : Closed(P)
    BY <1>1
  <2> HIDE DEF F
  <2> QED BY <2>1, UnionClosed
<1>3. R \subseteq UNION F
  BY <1>1
<1> HIDE DEF F
<1> QED BY <1>2, <1>3

LEMMA SafeEither ==
  ASSUME NEW paths, paths # {}, NEW rest, NEW guards, NEW opened, NEW mode,
         IsSeq(rest), IsSeq(guards),
         \A path \in paths : Safe(path \o rest, guards, opened, mode)
  PROVE  Safe(<<Either(paths)>> \o rest, guards, opened, mode)
<1> DEFINE R == {Rest(path \o rest, guards, opened, mode) : path \in paths}
<1>1. \A r \in R : \E P : Closed(P) /\ r \in P
  BY DEF Safe
<1>2. PICK P : Closed(P) /\ R \subseteq P
  <2> HIDE DEF R
  <2> QED BY <1>1, Together
<1>3. \A path \in paths : Rest(path \o rest, guards, opened, mode) \in P
  BY <1>2
<1>4. Either(paths).op = "either" /\ Either(paths).paths = paths
  BY DEF Either
<1>5. Does(Either(paths), rest, guards, opened, mode, P)
  BY <1>3, <1>4 DEF Does
<1> QED BY <1>2, <1>5, FoldOp

LEMMA SafeLock ==
  ASSUME NEW rest, NEW opened, Safe(rest, Append(<<>>, None), opened, "detached")
  PROVE  Safe(<<LockSaal>> \o rest, <<>>, opened, "detached")
<1>1. PICK P : Closed(P) /\ Rest(rest, Append(<<>>, None), opened, "detached") \in P
  BY DEF Safe
<1>2. Does(LockSaal, rest, <<>>, opened, "detached", P)
  BY <1>1 DEF Does, LockSaal
<1> QED BY <1>1, <1>2, FoldOp, SafeShape, EmptyIsSeq

LEMMA SafeUnlock ==
  ASSUME NEW rest, NEW guards, NEW opened, NEW mode, IsSeq(guards), guards # <<>>,
         Safe(rest, Front(guards), opened, mode)
  PROVE  Safe(<<UnlockSaal>> \o rest, guards, opened, mode)
<1>1. PICK P : Closed(P) /\ Rest(rest, Front(guards), opened, mode) \in P
  BY DEF Safe
<1>2. Does(UnlockSaal, rest, guards, opened, mode, P)
  BY <1>1 DEF Does, UnlockSaal
<1> QED BY <1>1, <1>2, FoldOp, SafeShape

LEMMA SafeJoin ==
  ASSUME NEW rest, NEW opened, Safe(rest, <<>>, opened, "detached")
  PROVE  Safe(<<Join>> \o rest, <<>>, opened, "detached")
<1>1. PICK P : Closed(P) /\ Rest(rest, <<>>, opened, "detached") \in P
  BY DEF Safe
<1>2. Does(Join, rest, <<>>, opened, "detached", P)
  BY <1>1 DEF Does, Join
<1> QED BY <1>1, <1>2, FoldOp, SafeShape, EmptyIsSeq

LEMMA SafeFork ==
  ASSUME NEW items, \A i \in items : Safe(i.ops, <<>>, {}, "detached"),
         NEW rest, NEW opened, Safe(rest, <<>>, opened, "detached")
  PROVE  Safe(<<Fork(items)>> \o (<<Join>> \o rest), <<>>, opened, "detached")
<1> DEFINE R == {Rest(i.ops, <<>>, {}, "detached") : i \in items}
                  \cup {Rest(<<Join>> \o rest, <<>>, opened, "detached")}
<1>1. Safe(<<Join>> \o rest, <<>>, opened, "detached")
  BY SafeJoin
<1>2. \A r \in R : \E P : Closed(P) /\ r \in P
  BY <1>1 DEF Safe
<1>3. PICK P : Closed(P) /\ R \subseteq P
  <2> HIDE DEF R
  <2> QED BY <1>2, Together
<1>4. /\ \A i \in items : Rest(i.ops, <<>>, {}, "detached") \in P
      /\ Rest(<<Join>> \o rest, <<>>, opened, "detached") \in P
  BY <1>3
<1>5. Fork(items).op = "fork" /\ Fork(items).items = items /\ Join.op = "join"
  BY DEF Fork, Join
<1>6. IsSeq(rest) /\ IsSeq(<<Join>> \o rest) /\ <<Join>> \o rest # <<>>
      /\ Head(<<Join>> \o rest) = Join
  BY SafeShape, NextOp
<1>7. Does(Fork(items), <<Join>> \o rest, <<>>, opened, "detached", P)
  BY <1>4, <1>5, <1>6 DEF Does
<1> QED BY <1>3, <1>6, <1>7, FoldOp, EmptyIsSeq

-----------------------------------------------------------------------------
(* A program that may be put anywhere, and one that may be put where no    *)
(* guard is held and the interpreter has been given up.                    *)
Calm(p) ==
  /\ IsSeq(p)
  /\ \A rest, guards, opened, mode :
       Safe(rest, guards, opened, mode) => Safe(p \o rest, guards, opened, mode)

Pooled(p) ==
  /\ IsSeq(p)
  /\ \A rest, opened :
       Safe(rest, <<>>, opened, "detached") => Safe(p \o rest, <<>>, opened, "detached")

Starts(p, mode) == Safe(p, <<>>, {}, mode)

LEMMA CalmEmpty == Calm(<<>>)
BY EmptyIsSeq, ConcatEmpty, SafeShape DEF Calm

LEMMA CalmLog == Calm(<<Log>>)
<1>1. Log.op = "log"
  BY DEF Log
<1> QED BY <1>1, SingleIsSeq, SafeLog DEF Calm

LEMMA CalmPeek == \A ephem : Calm(<<Peek(ephem)>>)
<1>1. \A ephem : Peek(ephem).op = "peek"
  BY DEF Peek
<1> QED BY <1>1, SingleIsSeq, SafeLog DEF Calm

LEMMA CalmConcat ==
  ASSUME NEW p, NEW q, Calm(p), Calm(q) PROVE Calm(p \o q)
<1>1. IsSeq(p) /\ IsSeq(q) /\ IsSeq(p \o q)
  BY ConcatSeq DEF Calm
<1>2. ASSUME NEW rest, NEW guards, NEW opened, NEW mode, Safe(rest, guards, opened, mode)
      PROVE  Safe((p \o q) \o rest, guards, opened, mode)
  <2>1. Safe(p \o (q \o rest), guards, opened, mode)
    BY <1>2 DEF Calm
  <2>2. IsSeq(rest)
    BY <1>2, SafeShape
  <2>3. (p \o q) \o rest = p \o (q \o rest)
    BY <1>1, <2>2, ConcatAssoc
  <2> QED BY <2>1, <2>3
<1> QED BY <1>1, <1>2 DEF Calm

LEMMA CalmEither ==
  ASSUME NEW paths, paths # {}, \A path \in paths : Calm(path)
  PROVE  Calm(<<Either(paths)>>)
<1>1. ASSUME NEW rest, NEW guards, NEW opened, NEW mode, Safe(rest, guards, opened, mode)
      PROVE  Safe(<<Either(paths)>> \o rest, guards, opened, mode)
  <2>1. \A path \in paths : Safe(path \o rest, guards, opened, mode)
    BY <1>1 DEF Calm
  <2>2. IsSeq(rest) /\ IsSeq(guards)
    BY <1>1, SafeShape
  <2> QED BY <2>1, <2>2, SafeEither
<1> QED BY <1>1, SingleIsSeq DEF Calm

LEMMA CalmMaybe ==
  ASSUME NEW p, Calm(p) PROVE Calm(<<Maybe(p)>>)
<1>1. Calm(<<Either({<<>>, p})>>)
  BY CalmEmpty, CalmEither
<1> QED BY <1>1 DEF Maybe

LEMMA CalmPooled ==
  ASSUME NEW p, Calm(p) PROVE Pooled(p)
BY DEF Calm, Pooled

LEMMA CalmStarts ==
  ASSUME NEW p, Calm(p), NEW mode PROVE Starts(p, mode)
<1>1. Safe(p \o <<>>, <<>>, {}, mode)
  BY SafeEnd DEF Calm
<1> QED BY <1>1, ConcatEmpty DEF Calm, Starts

LEMMA PooledStarts ==
  ASSUME NEW p, Pooled(p) PROVE Starts(p, "detached")
<1>1. Safe(p \o <<>>, <<>>, {}, "detached")
  BY SafeEnd DEF Pooled
<1> QED BY <1>1, ConcatEmpty DEF Pooled, Starts

LEMMA PooledConcat ==
  ASSUME NEW p, NEW q, Pooled(p), Pooled(q) PROVE Pooled(p \o q)
<1>1. IsSeq(p) /\ IsSeq(q) /\ IsSeq(p \o q)
  BY ConcatSeq DEF Pooled
<1>2. ASSUME NEW rest, NEW opened, Safe(rest, <<>>, opened, "detached")
      PROVE  Safe((p \o q) \o rest, <<>>, opened, "detached")
  <2>1. Safe(p \o (q \o rest), <<>>, opened, "detached")
    BY <1>2 DEF Pooled
  <2>2. IsSeq(rest)
    BY <1>2, SafeShape
  <2>3. (p \o q) \o rest = p \o (q \o rest)
    BY <1>1, <2>2, ConcatAssoc
  <2> QED BY <2>1, <2>3
<1> QED BY <1>1, <1>2 DEF Pooled

LEMMA PooledMaybe ==
  ASSUME NEW p, Pooled(p) PROVE Pooled(<<Maybe(p)>>)
<1>1. ASSUME NEW rest, NEW opened, Safe(rest, <<>>, opened, "detached")
      PROVE  Safe(<<Either({<<>>, p})>> \o rest, <<>>, opened, "detached")
  <2>1. IsSeq(rest)
    BY <1>1, SafeShape
  <2>2. \A path \in {<<>>, p} : Safe(path \o rest, <<>>, opened, "detached")
    BY <1>1, <2>1, ConcatEmpty DEF Pooled
  <2> QED BY <2>1, <2>2, SafeEither, EmptyIsSeq
<1> QED BY <1>1, SingleIsSeq DEF Pooled, Maybe

(* Every item starts its own program; the iterator waits for them.         *)
LEMMA PooledParIter ==
  ASSUME NEW programs, \A i \in DOMAIN programs : Starts(programs[i], "detached")
  PROVE  Pooled(ParIter(programs))
<1> DEFINE items == {[item |-> i, ops |-> programs[i]] : i \in DOMAIN programs}
<1>1. \A i \in items : Safe(i.ops, <<>>, {}, "detached")
  BY DEF Starts
<1>2. ParIter(programs) = <<Fork(items)>> \o <<Join>>
  <2>1. ParIter(programs) = <<Fork(items), Join>>
    BY DEF ParIter
  <2> HIDE DEF items
  <2> QED BY <2>1
<1> HIDE DEF items
<1>3. IsSeq(<<Fork(items)>>) /\ IsSeq(<<Join>>) /\ IsSeq(ParIter(programs))
  BY <1>2, SingleIsSeq, ConcatSeq
<1>4. ASSUME NEW rest, NEW opened, Safe(rest, <<>>, opened, "detached")
      PROVE  Safe(ParIter(programs) \o rest, <<>>, opened, "detached")
  <2>1. Safe(<<Fork(items)>> \o (<<Join>> \o rest), <<>>, opened, "detached")
    BY <1>1, <1>4, SafeFork
  <2>2. IsSeq(rest)
    BY <1>4, SafeShape
  <2>3. (<<Fork(items)>> \o <<Join>>) \o rest = <<Fork(items)>> \o (<<Join>> \o rest)
    BY <1>3, <2>2, ConcatAssoc
  <2> QED BY <1>2, <2>1, <2>3
<1> QED BY <1>3, <1>4 DEF Pooled

(* The programs of a loop, one after the other.                            *)
LEMMA FlattenDefined ==
  ASSUME NEW seqs, NEW n \in Nat
  PROVE  \E f : f = [i \in 1..n |-> IF i = 1 THEN seqs[i] ELSE f[i-1] \o seqs[i]]
<1> DEFINE Def(m) == \E f : f = [i \in 1..m |-> IF i = 1 THEN seqs[i] ELSE f[i-1] \o seqs[i]]
           Bad == {m \in Nat : ~Def(m)}
<1>1. Def(0)
  <2> DEFINE f == [i \in 1..0 |-> 0]
  <2>1. f = [i \in 1..0 |-> IF i = 1 THEN seqs[i] ELSE f[i-1] \o seqs[i]]
    OBVIOUS
  <2> HIDE DEF f
  <2> QED BY <2>1
<1>2. ASSUME NEW m \in Nat, m # 0, Def(m - 1) PROVE Def(m)
  <2>1. PICK f : f = [i \in 1..m - 1 |-> IF i = 1 THEN seqs[i] ELSE f[i-1] \o seqs[i]]
    BY <1>2
  <2> DEFINE last == IF m = 1 THEN seqs[1] ELSE f[m - 1] \o seqs[m]
             g == [i \in 1..m |-> IF i < m THEN f[i] ELSE last]
  <2>2. \A i \in 1..m : g[i] = IF i = 1 THEN seqs[i] ELSE g[i-1] \o seqs[i]
    <3> SUFFICES ASSUME NEW i \in 1..m
                 PROVE  g[i] = IF i = 1 THEN seqs[i] ELSE g[i-1] \o seqs[i]
      OBVIOUS
    <3>1. CASE i = m
      <4>1. g[i] = last
        BY <3>1
      <4>2. i # 1 => g[i-1] = f[m - 1]
        BY <3>1
      <4> QED BY <3>1, <4>1, <4>2
    <3>2. CASE i # m
      <4>1. i \in 1..m - 1 /\ g[i] = f[i]
        BY <3>2
      <4>2. f[i] = IF i = 1 THEN seqs[i] ELSE f[i-1] \o seqs[i]
        BY <2>1, <4>1
      <4>3. i # 1 => g[i-1] = f[i-1]
        BY <4>1
      <4> QED BY <4>1, <4>2, <4>3
    <3> QED BY <3>1, <3>2
  <2>3. g = [i \in 1..m |-> g[i]]
    OBVIOUS
  <2> HIDE DEF g
  <2>4. g = [i \in 1..m |-> IF i = 1 THEN seqs[i] ELSE g[i-1] \o seqs[i]]
    BY <2>2, <2>3
  <2> QED BY <2>4
<1>3. Bad = {}
  <2> SUFFICES ASSUME Bad # {} PROVE FALSE
    OBVIOUS
  <2>1. PICK m \in Bad : \A k \in Bad : ~ (<<k, m>> \in OpToRel(<, Nat))
    <3>1. Bad \subseteq Nat
      OBVIOUS
    <3> HIDE DEF Bad
    <3> QED BY <3>1, NatLessThanWellFounded, WFMin
  <2>2. m \in Nat /\ m # 0
    BY <1>1
  <2>3. m - 1 \in Nat /\ <<m - 1, m>> \in OpToRel(<, Nat)
    BY <2>2 DEF OpToRel
  <2>4. Def(m - 1)
    BY <2>1, <2>3
  <2> QED BY <1>2, <2>1, <2>2, <2>4
<1> HIDE DEF Def
<1>4. Def(n)
  BY <1>3
<1> QED BY <1>4 DEF Def

LEMMA CalmFlatten ==
  ASSUME NEW seqs, IsSeq(seqs), \A i \in 1..Len(seqs) : Calm(seqs[i])
  PROVE  Calm(FlattenSeq(seqs))
<1> DEFINE n == Len(seqs)
           f == CHOOSE f : f = [i \in 1..n |-> IF i = 1 THEN seqs[i] ELSE f[i-1] \o seqs[i]]
<1>1. n \in Nat
  BY SeqShape
<1>2. CASE n = 0
  <2>1. seqs = <<>>
    BY <1>2, SeqShape
  <2>2. FlattenSeq(seqs) = seqs
    BY <1>2 DEF FlattenSeq
  <2> QED BY <2>1, <2>2, CalmEmpty
<1>3. CASE n # 0
  <2>1. FlattenSeq(seqs) = f[n]
    BY <1>3 DEF FlattenSeq
  <2>2. f = [i \in 1..n |-> IF i = 1 THEN seqs[i] ELSE f[i-1] \o seqs[i]]
    BY <1>1, FlattenDefined
  <2> HIDE DEF f
  <2>3. \A i \in 1..n : f[i] = IF i = 1 THEN seqs[i] ELSE f[i-1] \o seqs[i]
    BY <2>2
  <2> DEFINE Bad == {i \in 1..n : ~Calm(f[i])}
  <2>4. Bad = {}
    <3> SUFFICES ASSUME Bad # {} PROVE FALSE
      OBVIOUS
    <3>1. PICK i \in Bad : \A k \in Bad : ~ (<<k, i>> \in OpToRel(<, Nat))
      <4>1. Bad \subseteq Nat
        BY <1>1
      <4> HIDE DEF Bad
      <4> QED BY <4>1, NatLessThanWellFounded, WFMin
    <3>2. i \in 1..n /\ ~Calm(f[i])
      OBVIOUS
    <3>3. CASE i = 1
      BY <1>1, <2>3, <3>2, <3>3
    <3>4. CASE i # 1
      <4>1. i - 1 \in 1..n /\ <<i - 1, i>> \in OpToRel(<, Nat)
        BY <1>1, <3>2, <3>4 DEF OpToRel
      <4>2. Calm(f[i - 1])
        BY <3>1, <4>1
      <4>3. f[i] = f[i - 1] \o seqs[i] /\ Calm(seqs[i])
        BY <2>3, <3>2, <3>4
      <4> QED BY <3>2, <4>2, <4>3, CalmConcat
    <3> QED BY <3>3, <3>4
  <2>5. n \in 1..n
    BY <1>1, <1>3
  <2> QED BY <2>1, <2>4, <2>5
<1> QED BY <1>2, <1>3

-----------------------------------------------------------------------------
(* The programs of src/src/elements/ephemeris.rs                           *)

(* A tuple, one component after the other.                                 *)
LEMMA Tuples ==
  /\ \A x, y : <<x, y>> = <<x>> \o <<y>>
  /\ \A x, y, z : <<x, y, z>> = <<x>> \o <<y, z>>
  /\ \A x, y, z, u : <<x, y, z, u>> = <<x>> \o <<y, z, u>>
  /\ \A x, y, z, u, v : <<x, y, z, u, v>> = <<x>> \o <<y, z, u, v>>
<1>1. ASSUME NEW x, NEW y PROVE <<x, y>> = <<x>> \o <<y>>
  <2>1. <<x, y>> \in Seq({x, y}) /\ <<x>> \in Seq({x, y}) /\ <<y>> \in Seq({x, y})
    OBVIOUS
  <2>2. /\ <<x>> \o <<y>> \in Seq({x, y}) /\ Len(<<x>> \o <<y>>) = 2
        /\ \A i \in 1..2 : (<<x>> \o <<y>>)[i] = IF i <= 1 THEN <<x>>[i] ELSE <<y>>[i - 1]
    BY <2>1, ConcatProperties
  <2>3. \A i \in 1..2 : (<<x>> \o <<y>>)[i] = <<x, y>>[i]
    BY <2>2
  <2> QED BY <2>1, <2>2, <2>3, SeqEqual
<1>2. ASSUME NEW x, NEW y, NEW z PROVE <<x, y, z>> = <<x>> \o <<y, z>>
  <2>1. <<x, y, z>> \in Seq({x, y, z}) /\ <<x>> \in Seq({x, y, z}) /\ <<y, z>> \in Seq({x, y, z})
    OBVIOUS
  <2>2. /\ <<x>> \o <<y, z>> \in Seq({x, y, z}) /\ Len(<<x>> \o <<y, z>>) = 3
        /\ \A i \in 1..3 : (<<x>> \o <<y, z>>)[i] = IF i <= 1 THEN <<x>>[i] ELSE <<y, z>>[i - 1]
    BY <2>1, ConcatProperties
  <2>3. \A i \in 1..3 : (<<x>> \o <<y, z>>)[i] = <<x, y, z>>[i]
    BY <2>2
  <2> QED BY <2>1, <2>2, <2>3, SeqEqual
<1>3. ASSUME NEW x, NEW y, NEW z, NEW u PROVE <<x, y, z, u>> = <<x>> \o <<y, z, u>>
  <2>1. <<x, y, z, u>> \in Seq({x, y, z, u}) /\ <<x>> \in Seq({x, y, z, u}) /\ <<y, z, u>> \in Seq({x, y, z, u})
    OBVIOUS
  <2>2. /\ <<x>> \o <<y, z, u>> \in Seq({x, y, z, u}) /\ Len(<<x>> \o <<y, z, u>>) = 4
        /\ \A i \in 1..4 : (<<x>> \o <<y, z, u>>)[i] = IF i <= 1 THEN <<x>>[i] ELSE <<y, z, u>>[i - 1]
    BY <2>1, ConcatProperties
  <2>3. \A i \in 1..4 : (<<x>> \o <<y, z, u>>)[i] = <<x, y, z, u>>[i]
    BY <2>2
  <2> QED BY <2>1, <2>2, <2>3, SeqEqual
<1>4. ASSUME NEW x, NEW y, NEW z, NEW u, NEW v PROVE <<x, y, z, u, v>> = <<x>> \o <<y, z, u, v>>
  <2>1. <<x, y, z, u, v>> \in Seq({x, y, z, u, v}) /\ <<x>> \in Seq({x, y, z, u, v}) /\ <<y, z, u, v>> \in Seq({x, y, z, u, v})
    OBVIOUS
  <2>2. /\ <<x>> \o <<y, z, u, v>> \in Seq({x, y, z, u, v}) /\ Len(<<x>> \o <<y, z, u, v>>) = 5
        /\ \A i \in 1..5 : (<<x>> \o <<y, z, u, v>>)[i] = IF i <= 1 THEN <<x>>[i] ELSE <<y, z, u, v>>[i - 1]
    BY <2>1, ConcatProperties
  <2>3. \A i \in 1..5 : (<<x>> \o <<y, z, u, v>>)[i] = <<x, y, z, u, v>>[i]
    BY <2>2
  <2> QED BY <2>1, <2>2, <2>3, SeqEqual
<1> QED BY <1>1, <1>2, <1>3, <1>4

LEMMA Then ==
  ASSUME NEW x, NEW t, NEW rest, IsSeq(t), IsSeq(rest)
  PROVE  (<<x>> \o t) \o rest = <<x>> \o (t \o rest)
BY SingleIsSeq, ConcatAssoc

(* A tuple before the rest of a program, one operation at a time.          *)
TwoThen(x, y, rest) ==
  <<x, y>> \o rest = <<x>> \o (<<y>> \o rest)
ThreeThen(x, y, z, rest) ==
  <<x, y, z>> \o rest = <<x>> \o (<<y>> \o (<<z>> \o rest))
FourThen(x, y, z, u, rest) ==
  <<x, y, z, u>> \o rest = <<x>> \o (<<y>> \o (<<z>> \o (<<u>> \o rest)))
FiveThen(x, y, z, u, v, rest) ==
  <<x, y, z, u, v>> \o rest = <<x>> \o (<<y>> \o (<<z>> \o (<<u>> \o (<<v>> \o rest))))

LEMMA TwoThenIs ==
  ASSUME NEW rest, IsSeq(rest) PROVE \A x, y : TwoThen(x, y, rest)
<1> SUFFICES ASSUME NEW x, NEW y PROVE TwoThen(x, y, rest)
  OBVIOUS
<1>1. <<x, y>> = <<x>> \o <<y>>
  BY Tuples
<1>2. (<<x>> \o <<y>>) \o rest = <<x>> \o (<<y>> \o rest)
  BY SingleIsSeq, Then
<1> QED BY <1>1, <1>2 DEF TwoThen

LEMMA ThreeThenIs ==
  ASSUME NEW rest, IsSeq(rest) PROVE \A x, y, z : ThreeThen(x, y, z, rest)
<1> SUFFICES ASSUME NEW x, NEW y, NEW z PROVE ThreeThen(x, y, z, rest)
  OBVIOUS
<1>1. <<x, y, z>> = <<x>> \o <<y, z>>
  BY Tuples
<1>2. <<y, z>> \in Seq({y, z})
  OBVIOUS
<1>3. (<<x>> \o <<y, z>>) \o rest = <<x>> \o (<<y, z>> \o rest)
  BY <1>2, Then DEF IsSeq
<1>4. TwoThen(y, z, rest)
  BY TwoThenIs
<1> QED BY <1>1, <1>3, <1>4 DEF ThreeThen, TwoThen

LEMMA FourThenIs ==
  ASSUME NEW rest, IsSeq(rest) PROVE \A x, y, z, u : FourThen(x, y, z, u, rest)
<1> SUFFICES ASSUME NEW x, NEW y, NEW z, NEW u PROVE FourThen(x, y, z, u, rest)
  OBVIOUS
<1>1. <<x, y, z, u>> = <<x>> \o <<y, z, u>>
  BY Tuples
<1>2. <<y, z, u>> \in Seq({y, z, u})
  OBVIOUS
<1>3. (<<x>> \o <<y, z, u>>) \o rest = <<x>> \o (<<y, z, u>> \o rest)
  BY <1>2, Then DEF IsSeq
<1>4. ThreeThen(y, z, u, rest)
  BY ThreeThenIs
<1> QED BY <1>1, <1>3, <1>4 DEF FourThen, ThreeThen

LEMMA FiveThenIs ==
  ASSUME NEW rest, IsSeq(rest) PROVE \A x, y, z, u, v : FiveThen(x, y, z, u, v, rest)
<1> SUFFICES ASSUME NEW x, NEW y, NEW z, NEW u, NEW v PROVE FiveThen(x, y, z, u, v, rest)
  OBVIOUS
<1>1. <<x, y, z, u, v>> = <<x>> \o <<y, z, u, v>>
  BY Tuples
<1>2. <<y, z, u, v>> \in Seq({y, z, u, v})
  OBVIOUS
<1>3. (<<x>> \o <<y, z, u, v>>) \o rest = <<x>> \o (<<y, z, u, v>> \o rest)
  BY <1>2, Then DEF IsSeq
<1>4. FourThen(y, z, u, v, rest)
  BY FourThenIs
<1> QED BY <1>1, <1>3, <1>4 DEF FiveThen, FourThen

LEMMA CalmTwo ==
  ASSUME NEW x, NEW y, Calm(<<x>>), Calm(<<y>>) PROVE Calm(<<x, y>>)
<1>1. <<x, y>> = <<x>> \o <<y>>
  BY Tuples
<1> QED BY <1>1, CalmConcat

LEMMA CalmThree ==
  ASSUME NEW x, NEW y, NEW z, Calm(<<x>>), Calm(<<y>>), Calm(<<z>>) PROVE Calm(<<x, y, z>>)
<1>1. <<x, y, z>> = <<x>> \o <<y, z>>
  BY Tuples
<1> QED BY <1>1, CalmTwo, CalmConcat

LEMMA CalmRefine ==
  \A sensor, sat : Calm(<<Maybe(<<Log>> \o RefineHorizonCrossing(sensor, sat) \o <<Log>>)>>)
<1> SUFFICES ASSUME NEW sensor, NEW sat
             PROVE  Calm(<<Maybe(<<Log>> \o RefineHorizonCrossing(sensor, sat) \o <<Log>>)>>)
  OBVIOUS
<1>1. Calm(<<Peek(sensor)>>) /\ Calm(<<Peek(sat)>>)
  BY CalmPeek
<1>2. Calm(<<Peek(sensor), Peek(sat)>>)
  BY <1>1, CalmTwo
<1>3. Calm(<<Log>> \o RefineHorizonCrossing(sensor, sat) \o <<Log>>)
  BY <1>2, CalmLog, CalmConcat DEF RefineHorizonCrossing
<1> QED BY <1>3, CalmMaybe

(* The two guards of a search, and what is left when it drops them.        *)
Both(guards, one, two) == Append(Append(guards, one), two)

LEMMA BothSeq ==
  ASSUME NEW guards, IsSeq(guards), NEW one, NEW two
  PROVE  /\ IsSeq(Both(guards, one, two)) /\ Len(Both(guards, one, two)) = Len(guards) + 2
         /\ Has(Both(guards, one, two), one) /\ Has(Both(guards, one, two), two)
         /\ SubSeq(Both(guards, one, two), 1, Len(Both(guards, one, two)) - 2) = guards
<1> DEFINE g1 == Append(guards, one)
           g2 == Append(g1, two)
           n == Len(guards)
<1>1. n \in Nat
  BY SeqShape
<1>2. IsSeq(g1) /\ Len(g1) = n + 1 /\ g1[n + 1] = one /\ \A i \in 1..n : g1[i] = guards[i]
  BY AppendSeq
<1>3. /\ IsSeq(g2) /\ Len(g2) = n + 2 /\ g2[n + 2] = two
      /\ \A i \in 1..n + 1 : g2[i] = g1[i]
  <2> HIDE DEF g1
  <2>1. /\ IsSeq(g2) /\ Len(g2) = Len(g1) + 1 /\ g2[Len(g1) + 1] = two
        /\ \A i \in 1..Len(g1) : g2[i] = g1[i]
    BY <1>2, AppendSeq
  <2> QED BY <1>1, <1>2, <2>1
<1> HIDE DEF g1, g2, n
<1>4. Has(g2, one)
  <2>1. n + 1 \in 1..Len(g2) /\ g2[n + 1] = one
    BY <1>1, <1>2, <1>3
  <2> QED BY <2>1 DEF Has
<1>5. Has(g2, two)
  <2>1. n + 2 \in 1..Len(g2)
    BY <1>1, <1>3
  <2> QED BY <1>3, <2>1 DEF Has
<1>6. SubSeq(g2, 1, Len(g2) - 2) = guards
  <2>1. Len(g2) - 2 = n /\ n \in Int /\ n <= Len(g2) /\ ~ (n < 0)
    BY <1>1, <1>3
  <2>2. /\ IsSeq(SubSeq(g2, 1, n)) /\ Len(SubSeq(g2, 1, n)) = n
        /\ \A i \in 1..n : SubSeq(g2, 1, n)[i] = g2[i]
    BY <1>3, <2>1, PrefixSeq
  <2>3. \A i \in 1..n : SubSeq(g2, 1, n)[i] = guards[i]
    BY <1>1, <1>2, <1>3, <2>2
  <2>4. PICK S : SubSeq(g2, 1, n) \in Seq(S) /\ guards \in Seq(S)
    BY <2>2, TwoSeqs
  <2>5. SubSeq(g2, 1, n) = guards
    BY <2>2, <2>3, <2>4, SeqEqual DEF n
  <2> QED BY <2>1, <2>5
<1> QED BY <1>3, <1>4, <1>5, <1>6 DEF Both, g1, g2, n

(* One crossing, in a search that has the guards of both already.          *)
LEMMA Crossing ==
  ASSUME NEW sensor \in Handles, NEW sat \in Handles, NEW rest, NEW guards, NEW opened, NEW mode,
         Has(guards, sensor), Has(guards, sat), sensor \in opened, sat \in opened,
         Safe(rest, guards, opened, mode)
  PROVE  Safe(GetNextHorizonCrossing(sensor, sat) \o rest, guards, opened, mode)
<1> DEFINE may == Maybe(<<Log>> \o RefineHorizonCrossing(sensor, sat) \o <<Log>>)
           g == Both(guards, sensor, sat)
           r4 == <<Drop(2)>> \o rest
           r3 == <<may>> \o r4
           r2 == <<Log>> \o r3
           r1 == <<Read(sat)>> \o r2
<1>1. IsSeq(guards) /\ IsSeq(rest)
  BY SafeShape
<1>2. IsSeq(g) /\ Len(g) = Len(guards) + 2 /\ SubSeq(g, 1, Len(g) - 2) = guards
  BY <1>1, BothSeq
<1>3. Safe(r4, g, opened, mode)
  <2>1. 2 \in Nat /\ 2 <= Len(g)
    BY <1>1, <1>2, SeqShape
  <2> HIDE DEF g
  <2> QED BY <1>2, <2>1, SafeDrop
<1>4. Safe(r3, g, opened, mode)
  <2> HIDE DEF r4, g
  <2>1. Calm(<<may>>)
    BY CalmRefine
  <2> QED BY <1>3, <2>1 DEF Calm
<1>5. Safe(r2, g, opened, mode)
  <2> HIDE DEF r3, g
  <2> QED BY <1>4, CalmLog DEF Calm
<1>6. opened \cup {sensor} = opened /\ opened \cup {sat} = opened
  OBVIOUS
<1>7. Safe(r1, Append(guards, sensor), opened, mode)
  <2> HIDE DEF r2
  <2>1. IsSeq(Append(guards, sensor)) /\ Has(Append(guards, sensor), sat)
    BY <1>1, AppendSeq, SeqShape DEF Has
  <2>2. Safe(r2, Append(Append(guards, sensor), sat), opened \cup {sat}, mode)
    BY <1>5, <1>6 DEF Both
  <2> QED BY <2>1, <2>2, SafeRead
<1>8. Safe(<<Read(sensor)>> \o r1, guards, opened, mode)
  <2> HIDE DEF r1
  <2> QED BY <1>1, <1>6, <1>7, SafeRead
<1>9. GetNextHorizonCrossing(sensor, sat) \o rest = <<Read(sensor)>> \o r1
  <2> HIDE DEF may
  <2>1. GetNextHorizonCrossing(sensor, sat) = <<Read(sensor), Read(sat), Log, may, Drop(2)>>
    BY DEF GetNextHorizonCrossing, may
  <2>2. FiveThen(Read(sensor), Read(sat), Log, may, Drop(2), rest)
    BY <1>1, FiveThenIs
  <2> QED BY <2>1, <2>2 DEF FiveThen
<1> QED BY <1>8, <1>9

(* A search opens its two ephemerides, which may be one and the same.      *)
LEMMA Opens ==
  ASSUME NEW one \in Handles, NEW two \in Handles, NEW x, NEW rest, NEW mode,
         Safe(rest, Both(<<>>, one, two), {one, two}, mode)
  PROVE  Safe(<<Peek(x), Read(one), Read(two)>> \o rest, <<>>, {}, mode)
<1>1. IsSeq(rest)
  BY SafeShape
<1>2. Safe(<<Read(two)>> \o rest, Append(<<>>, one), {one}, mode)
  <2>1. /\ IsSeq(Append(<<>>, one)) /\ Len(Append(<<>>, one)) = 1
        /\ Append(<<>>, one)[1] = one
    <3>1. Len(<<>>) = 0
      OBVIOUS
    <3>2. /\ IsSeq(Append(<<>>, one)) /\ Len(Append(<<>>, one)) = Len(<<>>) + 1
          /\ Append(<<>>, one)[Len(<<>>) + 1] = one
      BY AppendSeq, EmptyIsSeq
    <3> QED BY <3>1, <3>2
  <2>2. two \in {one} => Has(Append(<<>>, one), two)
    BY <2>1 DEF Has
  <2>3. {one} \cup {two} = {one, two}
    OBVIOUS
  <2>4. Safe(rest, Append(Append(<<>>, one), two), {one} \cup {two}, mode)
    BY <2>3 DEF Both
  <2>5. IsSeq(Append(<<>>, one))
    BY AppendSeq, EmptyIsSeq
  <2> QED BY <2>2, <2>4, <2>5, SafeRead
<1>3. Safe(<<Read(one)>> \o (<<Read(two)>> \o rest), <<>>, {}, mode)
  <2>1. Safe(<<Read(two)>> \o rest, Append(<<>>, one), {} \cup {one}, mode)
    BY <1>2
  <2> QED BY <2>1, SafeRead, EmptyIsSeq
<1>4. Safe(<<Peek(x)>> \o (<<Read(one)>> \o (<<Read(two)>> \o rest)), <<>>, {}, mode)
  BY <1>3, CalmPeek DEF Calm
<1>5. ThreeThen(Peek(x), Read(one), Read(two), rest)
  BY <1>1, ThreeThenIs
<1> QED BY <1>4, <1>5 DEF ThreeThen

(* ... and drops their guards when it is done.                             *)
LEMMA Closes ==
  ASSUME NEW one, NEW two, NEW rest, NEW mode, Safe(rest, <<>>, {one, two}, mode)
  PROVE  Safe(<<Drop(2)>> \o rest, Both(<<>>, one, two), {one, two}, mode)
<1> DEFINE g == Both(<<>>, one, two)
<1>1. IsSeq(g) /\ Len(g) = Len(<<>>) + 2 /\ SubSeq(g, 1, Len(g) - 2) = <<>>
  BY BothSeq, EmptyIsSeq
<1>2. 2 \in Nat /\ 2 <= Len(g)
  BY <1>1
<1> HIDE DEF g
<1>3. Safe(<<Drop(2)>> \o rest, g, {one, two}, mode)
  BY <1>1, <1>2, SafeDrop
<1> QED BY <1>3 DEF g

LEMMA CrossingSeq == \A sensor, sat : IsSeq(GetNextHorizonCrossing(sensor, sat))
<1> SUFFICES ASSUME NEW sensor, NEW sat PROVE IsSeq(GetNextHorizonCrossing(sensor, sat))
  OBVIOUS
<1> DEFINE may == Maybe(<<Log>> \o RefineHorizonCrossing(sensor, sat) \o <<Log>>)
           a == Read(sensor)
           b == Read(sat)
           c == Drop(2)
<1>1. GetNextHorizonCrossing(sensor, sat) = <<a, b, Log, may, c>>
  BY DEF GetNextHorizonCrossing
<1> HIDE DEF may, a, b, c
<1>2. <<a, b, Log, may, c>> \in Seq({a, b, Log, may, c})
  OBVIOUS
<1> QED BY <1>1, <1>2 DEF IsSeq

(* The search for accesses opens its ephemerides for every crossing, all   *)
(* the time under the guards of its first opening.                         *)
LEMMA AccessesStart ==
  ASSUME NEW sat \in Handles, NEW sensor \in Handles, NEW mode
  PROVE  Starts(GetHorizonAccesses(sat, sensor), mode)
<1> DEFINE n == GetNextHorizonCrossing(sensor, sat)
           m == Maybe(n \o <<Log>>)
           g == Both(<<>>, sensor, sat)
           o == {sensor, sat}
           r3 == <<Drop(2)>> \o <<>>
           r2 == <<m>> \o r3
           r1 == <<Log>> \o r2
<1>1. IsSeq(n)
  BY CrossingSeq
<1>2. IsSeq(g) /\ Has(g, sensor) /\ Has(g, sat)
  BY BothSeq, EmptyIsSeq
<1> HIDE DEF n
<1>3. Safe(r3, g, o, mode)
  BY Closes, SafeEnd
<1> HIDE DEF r3
<1>4. IsSeq(r3)
  BY <1>3, SafeShape
<1>5. Safe(n \o (<<Log>> \o r3), g, o, mode)
  <2>1. Safe(<<Log>> \o r3, g, o, mode)
    BY <1>3, CalmLog DEF Calm
  <2> HIDE DEF g
  <2> QED BY <1>2, <2>1, Crossing DEF n
<1>6. Safe(r2, g, o, mode)
  <2>1. (n \o <<Log>>) \o r3 = n \o (<<Log>> \o r3)
    BY <1>1, <1>4, SingleIsSeq, ConcatAssoc
  <2>2. \A path \in {<<>>, n \o <<Log>>} : Safe(path \o r3, g, o, mode)
    BY <1>3, <1>4, <1>5, <2>1, ConcatEmpty
  <2> HIDE DEF g, o
  <2>3. Safe(<<Either({<<>>, n \o <<Log>>})>> \o r3, g, o, mode)
    BY <1>2, <1>4, <2>2, SafeEither
  <2> QED BY <2>3 DEF Maybe
<1> HIDE DEF r2
<1>7. Safe(r1, g, o, mode)
  BY <1>6, CalmLog DEF Calm
<1> HIDE DEF r1
<1>8. Safe(n \o r1, g, o, mode)
  <2> HIDE DEF g
  <2> QED BY <1>2, <1>7, Crossing DEF n
<1> DEFINE first == <<Peek(sat), Read(sensor), Read(sat)>>
           last == <<Log, m, Drop(2)>>
<1>9. Safe(first \o (n \o r1), <<>>, {}, mode)
  BY <1>8, Opens
<1>10. last = r1
  <2> HIDE DEF m
  <2> DEFINE d == Drop(2)
  <2>1. last = <<Log, m, d>>
    OBVIOUS
  <2> HIDE DEF d, last
  <2>2. last \in Seq({Log, m, d})
    BY <2>1
  <2>3. last \o <<>> = last
    BY <2>2, ConcatEmpty DEF IsSeq
  <2>4. ThreeThen(Log, m, d, <<>>)
    BY ThreeThenIs, EmptyIsSeq
  <2> QED BY <2>1, <2>3, <2>4 DEF d, r1, r2, r3, ThreeThen
<1>11. (first \o n) \o r1 = first \o (n \o r1)
  <2> DEFINE a == Peek(sat)
             b == Read(sensor)
             c == Read(sat)
  <2>1. first = <<a, b, c>>
    OBVIOUS
  <2> HIDE DEF a, b, c, first
  <2>2. first \in Seq({a, b, c})
    BY <2>1
  <2>3. IsSeq(first) /\ IsSeq(r1)
    BY <1>7, <2>2, SafeShape DEF IsSeq
  <2> QED BY <1>1, <2>3, ConcatAssoc
<1>12. GetHorizonAccesses(sat, sensor) = (first \o n) \o last
  BY DEF GetHorizonAccesses, n
<1> QED BY <1>9, <1>10, <1>11, <1>12 DEF Starts

LEMMA ApproachThen ==
  ASSUME NEW self \in Handles, NEW other \in Handles, NEW mode, NEW rest,
         Safe(rest, <<>>, {self, other}, mode)
  PROVE  Safe(GetCloseApproach(self, other) \o rest, <<>>, {}, mode)
<1> DEFINE r == <<Drop(2)>> \o rest
           a == Peek(self)
           b == Read(self)
           c == Read(other)
           d == Drop(2)
<1>1. Safe(<<a, b, c>> \o r, <<>>, {}, mode)
  BY Closes, Opens
<1>2. IsSeq(rest)
  BY SafeShape
<1>3. GetCloseApproach(self, other) = <<a, b, c, d>>
  BY DEF GetCloseApproach
<1>4. r = <<d>> \o rest
  OBVIOUS
<1> HIDE DEF a, b, c, d, r
<1>5. FourThen(a, b, c, d, rest)
  BY <1>2, FourThenIs
<1>6. ThreeThen(a, b, c, r)
  <2>1. IsSeq(r)
    BY <1>2, <1>4, NextOp
  <2> QED BY <2>1, ThreeThenIs
<1> QED BY <1>1, <1>3, <1>4, <1>5, <1>6 DEF ThreeThen, FourThen

LEMMA ApproachSeq == \A self, other : IsSeq(GetCloseApproach(self, other))
<1> SUFFICES ASSUME NEW self, NEW other PROVE IsSeq(GetCloseApproach(self, other))
  OBVIOUS
<1> DEFINE a == Peek(self)
           b == Read(self)
           c == Read(other)
           d == Drop(2)
<1>1. GetCloseApproach(self, other) = <<a, b, c, d>>
  BY DEF GetCloseApproach
<1> HIDE DEF a, b, c, d
<1>2. <<a, b, c, d>> \in Seq({a, b, c, d})
  OBVIOUS
<1> QED BY <1>1, <1>2 DEF IsSeq

LEMMA ApproachStarts ==
  ASSUME NEW self \in Handles, NEW other \in Handles, NEW mode
  PROVE  Starts(GetCloseApproach(self, other), mode)
<1>1. Safe(GetCloseApproach(self, other) \o <<>>, <<>>, {}, mode)
  BY ApproachThen, SafeEnd
<1> QED BY <1>1, ApproachSeq, ConcatEmpty DEF Starts

LEMMA ManeuverStarts ==
  ASSUME NEW self \in Handles, NEW future \in Handles, NEW mode
  PROVE  Starts(GetManeuverEvent(self, future), mode)
<1> DEFINE p == <<Maybe(<<Peek(future), Peek(self)>>)>>
<1>1. Calm(p)
  BY CalmPeek, CalmTwo, CalmMaybe
<1> HIDE DEF p
<1>2. Safe(p, <<>>, {self, future}, mode)
  <2>1. Safe(p \o <<>>, <<>>, {self, future}, mode)
    BY <1>1, SafeEnd DEF Calm
  <2> QED BY <1>1, <2>1, ConcatEmpty DEF Calm
<1> QED BY <1>2, ApproachThen DEF Starts, GetManeuverEvent, p

-----------------------------------------------------------------------------
(* The programs of satellite.rs and observatory.rs                         *)

LEMMA ToObservationsCalm == \A ephem : Calm(ToObservations(ephem))
BY CalmPeek, CalmTwo DEF ToObservations

LEMMA GetStateCalm == Calm(GetState)
BY CalmLog, CalmMaybe DEF GetState

LEMMA InterpolateStateCalm == \A cache : Calm(InterpolateState(cache))
<1> SUFFICES ASSUME NEW cache PROVE Calm(InterpolateState(cache))
  OBVIOUS
<1> DEFINE paths == {<<Peek(cache), Peek(cache)>>, <<Peek(cache), Peek(cache), Log>>, <<Log>>}
<1>1. /\ Calm(<<Peek(cache), Peek(cache)>>) /\ Calm(<<Peek(cache), Peek(cache), Log>>)
      /\ Calm(<<Log>>)
  BY CalmPeek, CalmLog, CalmTwo, CalmThree
<1>2. paths # {} /\ \A path \in paths : Calm(path)
  BY <1>1
<1> HIDE DEF paths
<1>3. Calm(<<Either(paths)>>)
  BY <1>2, CalmEither
<1> QED BY <1>3 DEF InterpolateState, paths

LEMMA GetEphemerisCalm == \A cache : Calm(GetEphemeris(cache))
<1> SUFFICES ASSUME NEW cache PROVE Calm(GetEphemeris(cache))
  OBVIOUS
<1> DEFINE paths == {<<Peek(cache)>>, <<Peek(cache), Peek(cache), Log>>, <<Log>>}
<1>1. Calm(<<Peek(cache)>>) /\ Calm(<<Peek(cache), Peek(cache), Log>>) /\ Calm(<<Log>>)
  BY CalmPeek, CalmLog, CalmThree
<1>2. paths # {} /\ \A path \in paths : Calm(path)
  BY <1>1
<1> HIDE DEF paths
<1>3. Calm(<<Either(paths)>>)
  BY <1>2, CalmEither
<1> QED BY <1>3 DEF GetEphemeris, paths

LEMMA CalmThen ==
  ASSUME NEW p, NEW q, NEW mode, Calm(p), Starts(q, mode) PROVE Starts(p \o q, mode)
BY DEF Calm, Starts

LEMMA MaybeStarts ==
  ASSUME NEW p, NEW mode, Starts(p, mode) PROVE Starts(<<Maybe(p)>>, mode)
<1>1. IsSeq(p)
  BY SafeShape DEF Starts
<1>2. \A path \in {<<>>, p} : Safe(path \o <<>>, <<>>, {}, mode)
  BY <1>1, SafeEnd, ConcatEmpty, EmptyIsSeq DEF Starts
<1>3. Safe(<<Either({<<>>, p})>> \o <<>>, <<>>, {}, mode)
  BY <1>2, SafeEither, EmptyIsSeq
<1>4. <<Either({<<>>, p})>> \o <<>> = <<Either({<<>>, p})>>
  BY SingleIsSeq, ConcatEmpty
<1> QED BY <1>3, <1>4 DEF Starts, Maybe

LEMMA OfTwoStarts ==
  ASSUME NEW first, NEW other, NEW search, NEW mode, Starts(search, mode)
  PROVE  Starts(OfTwo(first, other, search), mode)
<1>1. Starts(<<Maybe(GetEphemeris(other) \o search)>>, mode)
  BY GetEphemerisCalm, CalmThen, MaybeStarts
<1>2. Starts(<<Maybe(GetEphemeris(first) \o <<Maybe(GetEphemeris(other) \o search)>>)>>, mode)
  BY <1>1, GetEphemerisCalm, CalmThen, MaybeStarts
<1> QED BY <1>2 DEF OfTwo

LEMMA ObservatoryReportPooled ==
  ASSUME NEW sat \in Handles PROVE Pooled(GetObservatoryAccessReport(sat))
<1> DEFINE items == [i \in 1..2 |-> GetHorizonAccesses(sat, Private)]
<1>1. \A i \in DOMAIN items : Starts(items[i], "detached")
  BY AccessesStart DEF Handles
<1> HIDE DEF items
<1>2. Pooled(<<Maybe(ParIter(items))>>)
  BY <1>1, PooledParIter, PooledMaybe
<1>3. Pooled(GetEphemeris(sat))
  BY GetEphemerisCalm, CalmPooled
<1> QED BY <1>2, <1>3, PooledConcat DEF GetObservatoryAccessReport, items

LEMMA FieldOfViewPooled == Pooled(GetFieldOfViewReport)
<1> DEFINE items == [i \in 1..2 |-> GetState]
<1>1. \A i \in DOMAIN items : Starts(items[i], "detached")
  BY GetStateCalm, CalmStarts
<1> HIDE DEF items
<1>2. Pooled(ParIter(items))
  BY <1>1, PooledParIter
<1> QED BY <1>2 DEF GetFieldOfViewReport, items

-----------------------------------------------------------------------------
(* The programs of constellation.rs                                        *)

LEMMA ListShape ==
  ASSUME NEW list \in Lists
  PROVE  /\ IsSeq(list) /\ Len(list) \in Nat /\ DOMAIN list = 1..Len(list)
         /\ \A i \in 1..Len(list) : list[i] \in Ephemerides /\ list[i] \in Handles
<1>1. PICK m \in 0..MaxSatellites : list \in [1..m -> Ephemerides]
  BY ThreadsAssumption DEF Lists, SeqOf
<1>2. list \in Seq(Ephemerides)
  BY <1>1, SeqDef, ThreadsAssumption
<1>3. IsSeq(list)
  BY <1>2 DEF IsSeq
<1>4. \A i \in 1..Len(list) : list[i] \in Ephemerides
  BY <1>2, ElementOfSeq
<1> QED BY <1>3, <1>4, SeqShape DEF Handles

LEMMA LoopCalm ==
  ASSUME NEW list \in Lists, NEW body, body = [i \in DOMAIN list |-> body[i]],
         \A i \in DOMAIN list : Calm(body[i])
  PROVE  Calm(FlattenSeq(body))
<1>1. Len(list) \in Nat /\ DOMAIN list = 1..Len(list)
  BY ListShape
<1> DEFINE S == {body[i] : i \in DOMAIN list}
<1>2. body \in [1..Len(list) -> S]
  BY <1>1
<1>3. body \in Seq(S)
  BY <1>1, <1>2, SeqDef
<1>4. IsSeq(body) /\ DOMAIN body = 1..Len(body)
  BY <1>3, LenProperties DEF IsSeq
<1>5. DOMAIN body = DOMAIN list
  BY <1>1, <1>2
<1> QED BY <1>4, <1>5, CalmFlatten

LEMMA EphemerisListCalm ==
  ASSUME NEW list \in Lists PROVE Calm(GetEphemerisList(list))
<1> DEFINE body == [i \in DOMAIN list |-> GetEphemeris(list[i])]
<1>1. body = [i \in DOMAIN list |-> body[i]] /\ \A i \in DOMAIN list : Calm(body[i])
  BY GetEphemerisCalm
<1>2. GetEphemerisList(list) = FlattenSeq(body)
  BY DEF GetEphemerisList, ForEach
<1> HIDE DEF body
<1> QED BY <1>1, <1>2, LoopCalm

LEMMA HorizonReportPooled ==
  ASSUME NEW list \in Lists PROVE Pooled(GetHorizonAccessReport(list))
<1> DEFINE items == [i \in DOMAIN list |-> GetHorizonAccesses(list[i], Private)]
<1>1. \A i \in DOMAIN items : Starts(items[i], "detached")
  BY AccessesStart, ListShape DEF Handles
<1> HIDE DEF items
<1>2. Pooled(ParIter(items)) /\ Pooled(GetEphemerisList(list))
  BY <1>1, PooledParIter, EphemerisListCalm, CalmPooled
<1> QED BY <1>2, PooledConcat DEF GetHorizonAccessReport, items

LEMMA VsOnePooled ==
  ASSUME NEW sat \in Handles, NEW list \in Lists PROVE Pooled(GetReportVsOne(sat, list))
<1> DEFINE items == [i \in DOMAIN list |-> GetCloseApproach(sat, list[i])]
           found == <<Log>> \o GetEphemerisList(list) \o ParIter(items) \o <<Log>>
<1>1. \A i \in DOMAIN items : Starts(items[i], "detached")
  BY ApproachStarts, ListShape
<1>2. Pooled(<<Maybe(found)>>)
  <2> HIDE DEF items
  <2>1. Pooled(<<Log>>) /\ Pooled(GetEphemerisList(list)) /\ Pooled(ParIter(items))
    BY <1>1, CalmLog, EphemerisListCalm, CalmPooled, PooledParIter
  <2>2. Pooled(<<Log>> \o GetEphemerisList(list))
    BY <2>1, PooledConcat
  <2>3. Pooled(<<Log>> \o GetEphemerisList(list) \o ParIter(items))
    BY <2>1, <2>2, PooledConcat
  <2>4. Pooled(found)
    BY <2>1, <2>3, PooledConcat
  <2> QED BY <2>4, PooledMaybe
<1>3. Pooled(GetEphemeris(sat))
  BY GetEphemerisCalm, CalmPooled
<1>4. GetReportVsOne(sat, list) = GetEphemeris(sat) \o <<Maybe(found)>>
  BY DEF GetReportVsOne
<1> HIDE DEF found
<1> QED BY <1>2, <1>3, <1>4, PooledConcat

(* The satellites of the inner iterator are among those of the list.       *)
LEMMA VsManyPooled ==
  ASSUME NEW list \in Lists PROVE Pooled(GetReportVsMany(list))
<1> DEFINE inner(i) == [j \in 1..(Len(list) - i) |-> GetCloseApproach(list[i], list[i + j])]
           items == [i \in DOMAIN list |-> ParIter(inner(i))]
<1>1. ASSUME NEW i \in DOMAIN list PROVE Starts(ParIter(inner(i)), "detached")
  <2>1. i \in 1..Len(list) /\ Len(list) \in Nat
    BY ListShape
  <2>2. ASSUME NEW j \in 1..(Len(list) - i)
        PROVE  Starts(GetCloseApproach(list[i], list[i + j]), "detached")
    <3>1. i + j \in 1..Len(list)
      BY <2>1
    <3>2. list[i] \in Handles /\ list[i + j] \in Handles
      BY <2>1, <3>1, ListShape
    <3> QED BY <3>2, ApproachStarts
  <2>3. \A j \in DOMAIN inner(i) : Starts(inner(i)[j], "detached")
    BY <2>2
  <2> HIDE DEF inner
  <2> QED BY <2>3, PooledParIter, PooledStarts
<1>2. \A i \in DOMAIN items : Starts(items[i], "detached")
  BY <1>1
<1>3. GetReportVsMany(list) = GetEphemerisList(list) \o ParIter(items)
  BY DEF GetReportVsMany
<1> HIDE DEF items
<1>4. Pooled(ParIter(items)) /\ Pooled(GetEphemerisList(list))
  BY <1>2, PooledParIter, EphemerisListCalm, CalmPooled
<1> QED BY <1>3, <1>4, PooledConcat

LEMMA UctPooled ==
  ASSUME NEW sat \in Handles, NEW list \in Lists PROVE Pooled(GetUctValidity(sat, list))
<1> DEFINE r == GetReportVsOne(sat, list)
           all == <<Log>> \o GetState \o <<Log>> \o r \o r
<1>1. Pooled(<<Log>>) /\ Pooled(GetState) /\ Pooled(r)
  BY CalmLog, GetStateCalm, CalmPooled, VsOnePooled
<1>2. GetUctValidity(sat, list) = <<Maybe(all)>>
  BY DEF GetUctValidity
<1> HIDE DEF r
<1>3. Pooled(<<Log>> \o GetState)
  BY <1>1, PooledConcat
<1>4. Pooled(<<Log>> \o GetState \o <<Log>>)
  BY <1>1, <1>3, PooledConcat
<1>5. Pooled(<<Log>> \o GetState \o <<Log>> \o r)
  BY <1>1, <1>4, PooledConcat
<1>6. Pooled(all)
  BY <1>1, <1>5, PooledConcat
<1> QED BY <1>2, <1>6, PooledMaybe

LEMMA EphemeridesPooled ==
  ASSUME NEW list \in Lists PROVE Pooled(GetEphemerides(list))
<1> DEFINE items == [i \in DOMAIN list |-> GetEphemeris(list[i])]
<1>1. \A i \in DOMAIN items : Starts(items[i], "detached")
  BY GetEphemerisCalm, CalmStarts
<1> HIDE DEF items
<1>2. Pooled(ParIter(items))
  BY <1>1, PooledParIter
<1> QED BY <1>2 DEF GetEphemerides, items

LEMMA ManeuversPooled ==
  ASSUME NEW list \in Lists, NEW future \in Lists PROVE Pooled(GetManeuverEvents(list, future))
<1> DEFINE items == [i \in DOMAIN list \cap DOMAIN future |-> GetManeuverEvent(list[i], future[i])]
<1>1. \A i \in DOMAIN items : Starts(items[i], "detached")
  BY ManeuverStarts, ListShape
<1>2. Pooled(GetEphemerides(list)) /\ Pooled(GetEphemerides(future))
  BY EphemeridesPooled
<1>3. GetManeuverEvents(list, future)
        = GetEphemerides(list) \o GetEphemerides(future) \o ParIter(items)
  BY DEF GetManeuverEvents, GetEphemerides
<1> HIDE DEF items
<1>4. Pooled(ParIter(items))
  BY <1>1, PooledParIter
<1>5. Pooled(GetEphemerides(list) \o GetEphemerides(future))
  BY <1>2, PooledConcat
<1> QED BY <1>3, <1>4, <1>5, PooledConcat

-----------------------------------------------------------------------------
(* The programs of src/src/estimation                                      *)

(* Nothing but a log record happens under the solver's lock.               *)
LEMMA PredictedPooled == Pooled(Predicted)
<1> DEFINE may == Maybe(<<Log>>)
           g == Append(<<>>, None)
<1>1. Calm(<<may>>)
  BY CalmLog, CalmMaybe
<1>2. Predicted = <<LockSaal, may, UnlockSaal>>
  BY DEF Predicted
<1> HIDE DEF may
<1>3. IsSeq(Predicted)
  <2>1. <<LockSaal, may, UnlockSaal>> \in Seq({LockSaal, may, UnlockSaal})
    OBVIOUS
  <2> QED BY <1>2, <2>1 DEF IsSeq
<1>4. IsSeq(g) /\ g # <<>> /\ Front(g) = <<>>
  <2>1. IsSeq(g) /\ Len(g) = Len(<<>>) + 1 /\ Len(<<>>) = 0
    BY AppendSeq, EmptyIsSeq
  <2>2. g # <<>>
    BY <2>1
  <2>3. IsSeq(Front(g)) /\ Len(Front(g)) = 0
    BY <2>1, <2>2, FrontSeq
  <2> QED BY <2>1, <2>2, <2>3, SeqShape
<1>5. ASSUME NEW rest, NEW opened, Safe(rest, <<>>, opened, "detached")
      PROVE  Safe(Predicted \o rest, <<>>, opened, "detached")
  <2> HIDE DEF g
  <2>1. Safe(<<UnlockSaal>> \o rest, g, opened, "detached")
    BY <1>4, <1>5, SafeUnlock
  <2>2. Safe(<<may>> \o (<<UnlockSaal>> \o rest), g, opened, "detached")
    BY <1>1, <2>1 DEF Calm
  <2>3. Safe(<<LockSaal>> \o (<<may>> \o (<<UnlockSaal>> \o rest)), <<>>, opened, "detached")
    BY <2>2, SafeLock DEF g
  <2>4. IsSeq(rest)
    BY <1>5, SafeShape
  <2>5. ThreeThen(LockSaal, may, UnlockSaal, rest)
    BY <2>4, ThreeThenIs
  <2> QED BY <1>2, <2>3, <2>5 DEF ThreeThen
<1> QED BY <1>3, <1>5 DEF Pooled

LEMMA SolvePooled == Pooled(Solve)
<1> DEFINE one == [i \in 1..2 |-> Predicted]
           two == [i \in 1..2 |-> Predicted \o Predicted]
<1>1. \A i \in DOMAIN one : Starts(one[i], "detached")
  BY PredictedPooled, PooledStarts
<1>2. \A i \in DOMAIN two : Starts(two[i], "detached")
  BY PredictedPooled, PooledConcat, PooledStarts
<1>3. Solve = ParIter(one) \o ParIter(two) \o <<Log>>
  BY DEF Solve
<1> HIDE DEF one, two
<1>4. Pooled(ParIter(one)) /\ Pooled(ParIter(two)) /\ Pooled(<<Log>>)
  BY <1>1, <1>2, PooledParIter, CalmLog, CalmPooled
<1>5. Pooled(ParIter(one) \o ParIter(two))
  BY <1>4, PooledConcat
<1> QED BY <1>3, <1>4, <1>5, PooledConcat

LEMMA AssociationCalm ==
  ASSUME NEW list \in Lists PROVE Calm(GetAssociationReport(list))
<1> DEFINE body == [i \in DOMAIN list |-> InterpolateState(list[i])]
<1>1. body = [i \in DOMAIN list |-> body[i]] /\ \A i \in DOMAIN list : Calm(body[i])
  BY InterpolateStateCalm
<1>2. GetAssociationReport(list) = FlattenSeq(body) \o <<Maybe(FlattenSeq(body))>>
  BY DEF GetAssociationReport, ForEach
<1> HIDE DEF body
<1>3. Calm(FlattenSeq(body))
  BY <1>1, LoopCalm
<1> QED BY <1>2, <1>3, CalmMaybe, CalmConcat

LEMMA ReportsPooled ==
  ASSUME NEW list \in Lists PROVE Pooled(GetAssociationReports(list))
<1> DEFINE items == [i \in 1..2 |-> GetAssociationReport(list)]
<1>1. \A i \in DOMAIN items : Starts(items[i], "detached")
  BY AssociationCalm, CalmStarts
<1>2. GetAssociationReports(list) = <<Log>> \o ParIter(items) \o <<Log>>
  BY DEF GetAssociationReports
<1> HIDE DEF items
<1>3. Pooled(<<Log>>) /\ Pooled(ParIter(items))
  BY <1>1, CalmLog, CalmPooled, PooledParIter
<1>4. Pooled(<<Log>> \o ParIter(items))
  BY <1>3, PooledConcat
<1> QED BY <1>2, <1>3, <1>4, PooledConcat

LEMMA AssociationsPooled == Pooled(ObservationAssociations)
<1> DEFINE items == [i \in 1..2 |-> <<>>]
<1>1. \A i \in DOMAIN items : Starts(items[i], "detached")
  BY CalmEmpty, CalmStarts
<1> HIDE DEF items
<1>2. Pooled(GetState) /\ Pooled(ParIter(items))
  BY <1>1, GetStateCalm, CalmPooled, PooledParIter
<1> QED BY <1>2, PooledConcat DEF ObservationAssociations, items

LEMMA FitPooled == Pooled(FitBestTle)
<1>1. Pooled(GetState \o <<Log>>)
  BY GetStateCalm, CalmLog, CalmPooled, PooledConcat
<1>2. Pooled(GetState \o <<Log>> \o Solve)
  BY <1>1, SolvePooled, PooledConcat
<1> QED BY <1>2, PooledMaybe DEF FitBestTle

LEMMA FitEphemerisPooled == \A ephem : Pooled(TleFromEphemeris(ephem))
<1> SUFFICES ASSUME NEW ephem PROVE Pooled(TleFromEphemeris(ephem))
  OBVIOUS
<1> DEFINE a == Peek(ephem)
           m == Maybe(Solve)
<1>1. Pooled(<<a>>) /\ Pooled(<<m>>) /\ Pooled(ToObservations(ephem))
  BY CalmPeek, CalmPooled, SolvePooled, PooledMaybe, ToObservationsCalm
<1>2. TleFromEphemeris(ephem) = ToObservations(ephem) \o <<a, a, m>>
  BY DEF TleFromEphemeris
<1> HIDE DEF a, m
<1>3. <<a, a, m>> = <<a>> \o <<a, m>> /\ <<a, m>> = <<a>> \o <<m>>
  BY Tuples
<1>4. Pooled(<<a, m>>)
  BY <1>1, <1>3, PooledConcat
<1>5. Pooled(<<a, a, m>>)
  BY <1>1, <1>3, <1>4, PooledConcat
<1> QED BY <1>1, <1>2, <1>5, PooledConcat
-----------------------------------------------------------------------------
(* Every body may be run by the methods that name it.                      *)

HeldBodies ==
  {"plain", "logs", "propagates", "interpolates", "looks_up", "adds", "observes", "accesses",
   "approaches", "ephemeris", "sat_search", "associates"}

LEMMA BodyNames == DOMAIN Bodies =
  {"plain", "logs", "propagates", "interpolates", "looks_up", "adds", "observes", "accesses",
   "approaches", "ephemeris", "sat_search", "sat_maneuver", "sat_accesses", "in_view",
   "all_accesses", "vs_one", "vs_many", "uct_validity", "maneuvers", "ephemerides", "cache",
   "reports", "associates", "observation", "solve", "fit", "fit_ephemeris"}
BY DEF Bodies

LEMMA AddsStarts == \A e \in Ephemerides : Starts(<<Write(e)>>, "held")
<1> SUFFICES ASSUME NEW e \in Ephemerides PROVE Starts(<<Write(e)>>, "held")
  OBVIOUS
<1>1. Safe(<<Write(e)>> \o <<>>, <<>>, {}, "held")
  BY SafeEnd, SafeWrite
<1> QED BY <1>1, SingleIsSeq, ConcatEmpty DEF Starts

(* Bodies that do no more than look up states, and searches.               *)
LEMMA SimpleBodies ==
  ASSUME NEW mode,
         NEW b \in {"plain", "logs", "propagates", "interpolates", "looks_up", "observes",
                    "accesses", "approaches", "ephemeris", "sat_search", "associates"},
         NEW ops \in Bodies[b]
  PROVE  Starts(ops, mode)
<1> USE CalmStarts
<1>0. Ephemerides \subseteq Handles
  BY DEF Handles
<1>1. CASE b = "plain"
  BY <1>1, CalmEmpty DEF Bodies
<1>2. CASE b = "logs"
  BY <1>2, CalmLog DEF Bodies
<1>3. CASE b = "propagates"
  BY <1>3, GetStateCalm DEF Bodies
<1>4. CASE b = "interpolates"
  BY <1>4, InterpolateStateCalm DEF Bodies
<1>5. CASE b = "looks_up"
  BY <1>5, CalmPeek DEF Bodies
<1>6. CASE b = "observes"
  BY <1>6, ToObservationsCalm DEF Bodies
<1>7. CASE b = "accesses"
  BY <1>0, <1>7, AccessesStart DEF Bodies
<1>8. CASE b = "approaches"
  BY <1>0, <1>8, ApproachStarts DEF Bodies
<1>9. CASE b = "ephemeris"
  BY <1>9, GetEphemerisCalm DEF Bodies
<1>10. CASE b = "sat_search"
  BY <1>0, <1>10, ApproachStarts, OfTwoStarts DEF Bodies
<1>11. CASE b = "associates"
  BY <1>11, AssociationCalm DEF Bodies
<1> QED BY <1>1, <1>2, <1>3, <1>4, <1>5, <1>6, <1>7, <1>8, <1>9, <1>10, <1>11

LEMMA PoolBodies ==
  ASSUME NEW b \in {"sat_maneuver", "sat_accesses", "in_view", "all_accesses", "vs_one",
                    "vs_many", "uct_validity", "maneuvers", "ephemerides", "cache", "reports",
                    "observation", "solve", "fit", "fit_ephemeris"},
         NEW ops \in Bodies[b]
  PROVE  Starts(ops, "detached")
<1> USE PooledStarts
<1>0. Ephemerides \subseteq Handles
  BY DEF Handles
<1>1. CASE b = "sat_maneuver"
  BY <1>0, <1>1, ManeuverStarts, OfTwoStarts DEF Bodies
<1>2. CASE b = "sat_accesses"
  BY <1>0, <1>2, ObservatoryReportPooled DEF Bodies
<1>3. CASE b = "in_view"
  BY <1>3, FieldOfViewPooled DEF Bodies
<1>4. CASE b = "all_accesses"
  BY <1>4, HorizonReportPooled DEF Bodies
<1>5. CASE b = "vs_one"
  BY <1>0, <1>5, VsOnePooled DEF Bodies
<1>6. CASE b = "vs_many"
  BY <1>6, VsManyPooled DEF Bodies
<1>7. CASE b = "uct_validity"
  BY <1>0, <1>7, UctPooled DEF Bodies
<1>8. CASE b = "maneuvers"
  BY <1>8, ManeuversPooled DEF Bodies
<1>9. CASE b = "ephemerides"
  BY <1>9, EphemeridesPooled DEF Bodies
<1>10. CASE b = "cache"
  BY <1>10, EphemerisListCalm, CalmStarts DEF Bodies
<1>11. CASE b = "reports"
  BY <1>11, ReportsPooled DEF Bodies
<1>12. CASE b = "observation"
  BY <1>12, AssociationsPooled DEF Bodies
<1>13. CASE b = "solve"
  BY <1>13, SolvePooled DEF Bodies
<1>14. CASE b = "fit"
  BY <1>14, FitPooled DEF Bodies
<1>15. CASE b = "fit_ephemeris"
  BY <1>15, FitEphemerisPooled DEF Bodies
<1> QED BY <1>1, <1>2, <1>3, <1>4, <1>5, <1>6, <1>7, <1>8, <1>9, <1>10, <1>11, <1>12, <1>13,
           <1>14, <1>15
-----------------------------------------------------------------------------
(* Every method has a body it may run: the pool and the solver's lock are  *)
(* used without the interpreter, a state is added with it.                 *)

MethodOk(m) ==
  /\ m = [borrows |-> m.borrows, body |-> m.body, detached |-> m.detached]
  /\ m.detached \in BOOLEAN
  /\ m.body \in IF m.detached THEN DOMAIN Bodies \ {"adds"} ELSE HeldBodies

LEMMA HeldOk == \A borrows : \A body \in HeldBodies : MethodOk(Held(borrows, body))
BY DEF MethodOk, Held

LEMMA DetachedOk == \A borrows : \A body \in DOMAIN Bodies \ {"adds"} :
                      MethodOk(Detached(borrows, body))
BY DEF MethodOk, Detached

LEMMA RangeOk ==
  ASSUME NEW f, \A n \in DOMAIN f : MethodOk(f[n])
  PROVE  \A m \in Range(f) : MethodOk(m)
BY DEF Range

LEMMA EachOk ==
  ASSUME NEW method, MethodOk(method), NEW names
  PROVE  \A m \in Each(names, method) : MethodOk(m)
BY DEF Each, Range

LEMMA ConstellationStatesOk == \A m \in ConstellationStates : MethodOk(m)
BY RangeOk, EachOk, HeldOk, DetachedOk, BodyNames DEF ConstellationStates, HeldBodies

LEMMA ConstellationReportsOk == \A m \in ConstellationReports : MethodOk(m)
BY RangeOk, EachOk, HeldOk, DetachedOk, BodyNames DEF ConstellationReports, HeldBodies

LEMMA ConstellationItemsOk == \A m \in ConstellationItems : MethodOk(m)
BY RangeOk, EachOk, HeldOk, DetachedOk, BodyNames DEF ConstellationItems, HeldBodies

LEMMA ConstellationBatchesOk == \A m \in ConstellationBatches : MethodOk(m)
BY RangeOk, EachOk, HeldOk, DetachedOk, BodyNames DEF ConstellationBatches, HeldBodies

LEMMA SatelliteStatesOk == \A m \in SatelliteStates : MethodOk(m)
BY RangeOk, EachOk, HeldOk, DetachedOk, BodyNames DEF SatelliteStates, HeldBodies

LEMMA SatelliteReportsOk == \A m \in SatelliteReports : MethodOk(m)
BY RangeOk, EachOk, HeldOk, DetachedOk, BodyNames DEF SatelliteReports, HeldBodies

LEMMA EphemerisMethodsOk == \A m \in EphemerisMethods : MethodOk(m)
BY RangeOk, EachOk, HeldOk, DetachedOk, BodyNames DEF EphemerisMethods, HeldBodies

LEMMA TleElementsOk == \A m \in TleElements : MethodOk(m)
BY RangeOk, EachOk, HeldOk, DetachedOk, BodyNames DEF TleElements, HeldBodies

LEMMA TleStatesOk == \A m \in TleStates : MethodOk(m)
BY RangeOk, EachOk, HeldOk, DetachedOk, BodyNames DEF TleStates, HeldBodies

LEMMA CatalogMethodsOk == \A m \in CatalogMethods : MethodOk(m)
BY RangeOk, EachOk, HeldOk, DetachedOk, BodyNames DEF CatalogMethods, HeldBodies

LEMMA SolverMethodsOk == \A m \in SolverMethods : MethodOk(m)
BY RangeOk, EachOk, HeldOk, DetachedOk, BodyNames DEF SolverMethods, HeldBodies

LEMMA ObservationMethodsOk == \A m \in ObservationMethods : MethodOk(m)
BY RangeOk, EachOk, HeldOk, DetachedOk, BodyNames DEF ObservationMethods, HeldBodies

LEMMA CollectionMethodsOk == \A m \in CollectionMethods : MethodOk(m)
BY RangeOk, EachOk, HeldOk, DetachedOk, BodyNames DEF CollectionMethods, HeldBodies

LEMMA ObservatoryMethodsOk == \A m \in ObservatoryMethods : MethodOk(m)
BY RangeOk, EachOk, HeldOk, DetachedOk, BodyNames DEF ObservatoryMethods, HeldBodies

LEMMA BatchPropagatorMethodsOk == \A m \in BatchPropagatorMethods : MethodOk(m)
BY RangeOk, EachOk, HeldOk, DetachedOk, BodyNames DEF BatchPropagatorMethods, HeldBodies

LEMMA InertialPropagatorMethodsOk == \A m \in InertialPropagatorMethods : MethodOk(m)
BY RangeOk, EachOk, HeldOk, DetachedOk, BodyNames DEF InertialPropagatorMethods, HeldBodies

LEMMA MethodsOk == \A m \in Methods : MethodOk(m)
BY ConstellationStatesOk, ConstellationReportsOk, ConstellationItemsOk, ConstellationBatchesOk, SatelliteStatesOk, SatelliteReportsOk, EphemerisMethodsOk, TleElementsOk, TleStatesOk, CatalogMethodsOk, SolverMethodsOk, ObservationMethodsOk, CollectionMethodsOk, ObservatoryMethodsOk, BatchPropagatorMethodsOk, InertialPropagatorMethodsOk
   DEF Methods
-----------------------------------------------------------------------------
(* The invariant.                                                          *)

Opened(f) == {s[1] : s \in f.seen}

Mode(a) == IF NeedsGil(a) THEN "held" ELSE "detached"

AtJoin(f) == f.ops # <<>> /\ Head(f.ops).op = "join"

(* A frame goes on as it may, and has one version of each ephemeris it has *)
(* opened: the present one, of those it has a guard of.                    *)
FrameOk(f, mode) ==
  /\ f = [ops |-> f.ops, guards |-> f.guards, seen |-> f.seen, owner |-> f.owner,
          depth |-> f.depth]
  /\ Safe(f.ops, f.guards, Opened(f), mode)
  /\ f.seen \subseteq Handles \X Nat
  /\ \A s \in f.seen, r \in f.seen : s[1] = r[1] => s[2] = r[2]

Current(f, versions) == \A s \in f.seen : Has(f.guards, s[1]) => s[2] = versions[s[1]]

(* A frame that waits for the items of its iterator.                       *)
Parent(stacks, owner, depth) ==
  owner \in Actors /\ depth \in 1..Len(stacks[owner]) /\ AtJoin(stacks[owner][depth])

Frames ==
  /\ DOMAIN stack = Actors /\ \A a \in Actors : IsSeq(stack[a])
  /\ \A a \in Actors : \A i \in 1..Len(stack[a]) :
       FrameOk(stack[a][i], Mode(a)) /\ Current(stack[a][i], version)

(* A frame below the top waits for its items, and so does the one an item  *)
(* comes from.                                                             *)
Nesting ==
  /\ \A t \in Threads : Len(stack[t]) <= 1
  /\ \A a \in Actors : \A i \in 1..Len(stack[a]) - 1 : AtJoin(stack[a][i])
  /\ \A j \in jobs : Parent(stack, j.owner, j.depth) /\ Safe(j.ops, <<>>, {}, "detached")
  /\ \A w \in Workers : \A i \in 1..Len(stack[w]) : Parent(stack, stack[w][i].owner, stack[w][i].depth)

(* A thread in a method that holds the interpreter is without it only in   *)
(* the logger.                                                             *)
Interpreter ==
  /\ DOMAIN call = Threads /\ gil \in Threads \cup {None}
  /\ gil # None => Running(gil) /\ NeedsGil(gil)
  /\ \A t \in Threads : Running(t) /\ NeedsGil(t) /\ gil # t => At(t, "log")

(* The order in which the frames were made: a frame comes after those      *)
(* below it and after the one its item comes from.                         *)
RankedBy(rank, bound) ==
  /\ rank \in [Actors \X Nat -> Nat] /\ bound \in Nat
  /\ \A f \in Actors \X Nat : rank[f] < bound
  /\ \A a \in Actors : \A i \in 1..Len(stack[a]), k \in 1..Len(stack[a]) :
       i < k => rank[<<a, i>>] < rank[<<a, k>>]
  /\ \A w \in Workers : \A i \in 1..Len(stack[w]) :
       rank[<<stack[w][i].owner, stack[w][i].depth>>] < rank[<<w, i>>]

Ranked == \E rank, bound : RankedBy(rank, bound)

Versions == version \in [Handles -> Nat]

ThreadsInv == Frames /\ Versions /\ Nesting /\ Interpreter /\ Ranked

LEMMA ThreadsInit == Init => ThreadsInv
<1> SUFFICES ASSUME Init PROVE ThreadsInv
  OBVIOUS
<1>1. /\ DOMAIN stack = Actors /\ \A a \in Actors : stack[a] = <<>>
      /\ jobs = {} /\ gil = None /\ call = [t \in Threads |-> Idle]
      /\ version = [e \in Handles |-> 0]
  BY DEF Init
<1>2. Len(<<>>) = 0 /\ 1..0 = {} /\ 1..0 - 1 = {}
  OBVIOUS
<1>3. \A a \in Actors : IsSeq(stack[a]) /\ Len(stack[a]) = 0 /\ ~Running(a)
  BY <1>1, <1>2, EmptyIsSeq DEF Running
<1>4. Threads \subseteq Actors /\ Workers \subseteq Actors
  BY DEF Actors
<1>5. Frames
  BY <1>1, <1>2, <1>3 DEF Frames
<1>6. Nesting
  BY <1>1, <1>2, <1>3, <1>4 DEF Nesting
<1>7. Interpreter
  BY <1>1, <1>3, <1>4 DEF Interpreter
<1>8. Versions
  BY <1>1 DEF Versions
<1>9. RankedBy([f \in Actors \X Nat |-> 0], 1)
  BY <1>2, <1>3, <1>4 DEF RankedBy
<1> QED BY <1>5, <1>6, <1>7, <1>8, <1>9 DEF ThreadsInv, Ranked

(* The frame on top of a stack is replaced.                                *)
LEMMA NewTop ==
  ASSUME Frames, NEW a \in Actors, Running(a), NEW f, SetTop(a, f)
  PROVE  /\ Len(stack[a]) \in Nat /\ Len(stack[a]) > 0
         /\ Top(a) = stack[a][Len(stack[a])]
         /\ DOMAIN stack' = Actors
         /\ \A b \in Actors : b # a => stack'[b] = stack[b]
         /\ IsSeq(stack'[a]) /\ Len(stack'[a]) = Len(stack[a])
         /\ stack'[a][Len(stack[a])] = f
         /\ \A i \in 1..Len(stack[a]) - 1 : stack'[a][i] = stack[a][i]
<1>1. IsSeq(stack[a]) /\ stack[a] # <<>>
  BY DEF Frames, Running
<1>2. Len(stack[a]) \in Nat /\ Len(stack[a]) > 0
  BY <1>1, SeqShape
<1>3. /\ IsSeq(Front(stack[a])) /\ Len(Front(stack[a])) = Len(stack[a]) - 1
      /\ \A i \in 1..Len(stack[a]) - 1 : Front(stack[a])[i] = stack[a][i]
  BY <1>1, FrontSeq
<1>4. /\ IsSeq(Append(Front(stack[a]), f))
      /\ Len(Append(Front(stack[a]), f)) = Len(stack[a])
      /\ \A i \in 1..Len(stack[a]) - 1 : Append(Front(stack[a]), f)[i] = Front(stack[a])[i]
      /\ Append(Front(stack[a]), f)[Len(stack[a])] = f
  BY <1>2, <1>3, AppendSeq
<1>5. DOMAIN stack = Actors
  BY DEF Frames
<1>6. /\ DOMAIN stack' = Actors /\ stack'[a] = Append(Front(stack[a]), f)
      /\ \A b \in Actors : b # a => stack'[b] = stack[b]
  BY <1>5 DEF SetTop
<1> QED BY <1>2, <1>3, <1>4, <1>6 DEF Top, Last
(* A step that replaces the frame on top: the new one is in order, no item *)
(* waits for it, and what the step adds to jobs comes from it.             *)
LEMMA TopStep ==
  ASSUME ThreadsInv, NEW a \in Actors, Running(a), MayRun(a), NEW f, SetTop(a, f),
         f.owner = Top(a).owner, f.depth = Top(a).depth,
         FrameOk(f, Mode(a)), Current(f, version'),
         AtJoin(Top(a)) => ~Pending(a),
         UNCHANGED <<gil, call>>, version' \in [Handles -> Nat],
         \A b \in Actors : \A i \in 1..Len(stack[b]) : Current(stack[b][i], version'),
         \A j \in jobs' :
           \/ j \in jobs
           \/ /\ j.owner = a /\ j.depth = Len(stack[a]) /\ AtJoin(f)
              /\ Safe(j.ops, <<>>, {}, "detached")
  PROVE  ThreadsInv'
<1> DEFINE n == Len(stack[a])
<1>1. Frames /\ Nesting /\ Interpreter /\ Ranked
  BY DEF ThreadsInv
<1>2. /\ n \in Nat /\ n > 0 /\ Top(a) = stack[a][n]
      /\ DOMAIN stack' = Actors
      /\ \A b \in Actors : b # a => stack'[b] = stack[b]
      /\ IsSeq(stack'[a]) /\ Len(stack'[a]) = n /\ stack'[a][n] = f
      /\ \A i \in 1..n - 1 : stack'[a][i] = stack[a][i]
  BY <1>1, NewTop
<1>3. /\ \A b \in Actors : Len(stack'[b]) = Len(stack[b])
      /\ \A b \in Actors : \A i \in 1..Len(stack[b]) :
           stack'[b][i] = stack[b][i] \/ (b = a /\ i = n /\ stack'[b][i] = f)
  BY <1>2
<1>4. Threads \subseteq Actors /\ Workers \subseteq Actors
  BY DEF Actors
<1>5. \A b : Mode(b)' = Mode(b) /\ NeedsGil(b)' = NeedsGil(b)
  BY DEF Mode, NeedsGil
<1>6. Frames'
  <2>1. \A b \in Actors : IsSeq(stack'[b])
    BY <1>1, <1>2 DEF Frames
  <2>2. ASSUME NEW b \in Actors, NEW i \in 1..Len(stack[b])
        PROVE  FrameOk(stack'[b][i], Mode(b)) /\ Current(stack'[b][i], version')
    BY <1>1, <1>3, <2>2 DEF Frames
  <2> QED BY <1>2, <1>3, <1>5, <2>1, <2>2 DEF Frames
<1>7. ASSUME NEW o, NEW d, Parent(stack, o, d),
             ~(o = a /\ d = n) \/ ~AtJoin(Top(a))
      PROVE  Parent(stack', o, d)
  <2>1. ~(o = a /\ d = n)
    BY <1>2, <1>7 DEF Parent
  <2>2. stack'[o][d] = stack[o][d]
    BY <1>3, <1>7, <2>1 DEF Parent
  <2> QED BY <1>3, <1>7, <2>2 DEF Parent
<1>8. Nesting'
  <2>1. \A t \in Threads : Len(stack'[t]) <= 1
    BY <1>1, <1>3, <1>4 DEF Nesting
  <2>2. \A b \in Actors : \A i \in 1..Len(stack'[b]) - 1 : AtJoin(stack'[b][i])
    BY <1>1, <1>2 DEF Nesting
  <2>3. ASSUME NEW j \in jobs'
        PROVE  Parent(stack', j.owner, j.depth) /\ Safe(j.ops, <<>>, {}, "detached")
    <3>1. CASE j \in jobs
      <4>1. Parent(stack, j.owner, j.depth) /\ Safe(j.ops, <<>>, {}, "detached")
        BY <1>1, <3>1 DEF Nesting
      <4>2. ~(j.owner = a /\ j.depth = n) \/ ~AtJoin(Top(a))
        BY <3>1 DEF Pending
      <4> QED BY <1>7, <4>1, <4>2
    <3>2. CASE j \notin jobs
      <4>1. /\ j.owner = a /\ j.depth = n /\ AtJoin(f)
            /\ Safe(j.ops, <<>>, {}, "detached")
        BY <3>2
      <4> QED BY <1>2, <1>3, <4>1 DEF Parent
    <3> QED BY <3>1, <3>2
  <2>4. ASSUME NEW w \in Workers, NEW i \in 1..Len(stack'[w])
        PROVE  Parent(stack', stack'[w][i].owner, stack'[w][i].depth)
    <3>1. i \in 1..Len(stack[w]) /\ w \in Actors
      BY <1>3, <1>4, <2>4
    <3>2. /\ stack'[w][i].owner = stack[w][i].owner
          /\ stack'[w][i].depth = stack[w][i].depth
      BY <1>2, <1>3, <3>1
    <3>3. Parent(stack, stack[w][i].owner, stack[w][i].depth)
      BY <1>1, <3>1 DEF Nesting
    <3>4. ~(stack[w][i].owner = a /\ stack[w][i].depth = n) \/ ~AtJoin(Top(a))
      <4>1. i \in DOMAIN stack[w]
        BY <1>1, <3>1, SeqShape DEF Frames
      <4> QED BY <4>1 DEF Pending
    <3> QED BY <1>7, <3>2, <3>3, <3>4
  <2> QED BY <2>1, <2>2, <2>3, <2>4 DEF Nesting
<1>9. Interpreter'
  <2>1. \A b \in Actors : Running(b)' <=> Running(b)
    <3>1. \A b \in Actors : IsSeq(stack[b]) /\ IsSeq(stack'[b])
      BY <1>1, <1>2 DEF Frames
    <3>2. \A b \in Actors : (stack[b] = <<>> <=> Len(stack[b]) = 0)
                         /\ (stack'[b] = <<>> <=> Len(stack'[b]) = 0)
      BY <3>1, SeqShape
    <3> QED BY <1>3, <3>2 DEF Running
  <2>2. ASSUME NEW t \in Threads, Running(t), NeedsGil(t), gil # t PROVE At(t, "log")'
    <3>1. t # a
      BY <2>2 DEF MayRun
    <3>2. stack'[t] = stack[t] /\ At(t, "log")
      BY <1>1, <1>2, <1>4, <2>2, <3>1 DEF Interpreter
    <3> QED BY <3>2 DEF At, Running, Top
  <2>3. gil # None => gil \in Actors
    BY <1>1, <1>4 DEF Interpreter
  <2> QED BY <1>1, <1>4, <1>5, <2>1, <2>2, <2>3 DEF Interpreter
<1>10. Ranked'
  <2>1. PICK rank, bound : RankedBy(rank, bound)
    BY <1>1 DEF Ranked
  <2>2. \A w \in Workers : \A i \in 1..Len(stack[w]) :
          stack'[w][i].owner = stack[w][i].owner /\ stack'[w][i].depth = stack[w][i].depth
    BY <1>2, <1>3, <1>4
  <2>3. RankedBy(rank, bound)'
    BY <1>3, <1>4, <2>1, <2>2 DEF RankedBy
  <2> QED BY <2>3 DEF Ranked
<1> QED BY <1>6, <1>8, <1>9, <1>10 DEF ThreadsInv, Versions
LEMMA TopFrame ==
  ASSUME ThreadsInv, NEW a \in Actors, Running(a)
  PROVE  FrameOk(Top(a), Mode(a)) /\ Current(Top(a), version)
<1>1. Frames
  BY DEF ThreadsInv
<1>2. IsSeq(stack[a]) /\ stack[a] # <<>>
  BY <1>1 DEF Frames, Running
<1>3. Len(stack[a]) \in Nat /\ Len(stack[a]) > 0 /\ Top(a) = stack[a][Len(stack[a])]
  BY <1>2, SeqShape DEF Top, Last
<1> QED BY <1>1, <1>3 DEF Frames

LEMMA CurrentFrames ==
  ASSUME ThreadsInv, version' = version
  PROVE  /\ \A b \in Actors : \A i \in 1..Len(stack[b]) : Current(stack[b][i], version')
         /\ version' \in [Handles -> Nat]
BY DEF ThreadsInv, Frames, Versions

(* The next operation of a frame, and what may follow it.                  *)
LEMMA NextOfTop ==
  ASSUME ThreadsInv, NEW a \in Actors, NEW op, At(a, op)
  PROVE  /\ Running(a) /\ Top(a).ops # <<>> /\ Op(a).op = op /\ Op(a) = Head(Top(a).ops)
         /\ IsSeq(Tail(Top(a).ops)) /\ <<>> \o Tail(Top(a).ops) = Tail(Top(a).ops)
         /\ Safe(Top(a).ops, Top(a).guards, Opened(Top(a)), Mode(a))
         /\ IsSeq(Top(a).guards)
         /\ op # "join" => ~AtJoin(Top(a))
<1>1. Running(a) /\ Top(a).ops # <<>> /\ Op(a).op = op /\ Op(a) = Head(Top(a).ops)
  BY DEF At, Op
<1>2. Safe(Top(a).ops, Top(a).guards, Opened(Top(a)), Mode(a))
  BY <1>1, TopFrame DEF FrameOk
<1>3. IsSeq(Top(a).ops) /\ IsSeq(Top(a).guards)
  BY <1>2, SafeShape
<1>4. IsSeq(Tail(Top(a).ops))
  BY <1>1, <1>3, TailSeq
<1>5. <<>> \o Tail(Top(a).ops) = Tail(Top(a).ops)
  BY <1>4, ConcatEmpty
<1> QED BY <1>1, <1>2, <1>3, <1>4, <1>5 DEF AtJoin

(* The new frame, with its guards, or with what it has seen as well.       *)
Renewed(f, ops, guards, seen) ==
  [ops |-> ops, guards |-> guards, seen |-> seen, owner |-> f.owner, depth |-> f.depth]

LEMMA WithOps ==
  ASSUME NEW f, f = Renewed(f, f.ops, f.guards, f.seen), NEW ops
  PROVE  [f EXCEPT !.ops = ops] = Renewed(f, ops, f.guards, f.seen)
BY DEF Renewed

LEMMA TopRenewed ==
  ASSUME ThreadsInv, NEW a \in Actors, Running(a)
  PROVE  Top(a) = Renewed(Top(a), Top(a).ops, Top(a).guards, Top(a).seen)
BY TopFrame DEF FrameOk, Renewed

(* An operation is done that leaves the guards as they are.                *)
LEMMA ContinueStep ==
  ASSUME ThreadsInv, NEW a \in Actors, Running(a), MayRun(a), NEW path, Continue(a, path),
         Safe(path \o Tail(Top(a).ops), Top(a).guards, Opened(Top(a)), Mode(a)),
         AtJoin(Top(a)) => ~Pending(a), UNCHANGED <<gil, call>>,
         \/ version' = version
         \/ /\ version' \in [Handles -> Nat]
            /\ \A b \in Actors : \A i \in 1..Len(stack[b]) : Current(stack[b][i], version'),
         \A j \in jobs' :
           \/ j \in jobs
           \/ /\ j.owner = a /\ j.depth = Len(stack[a])
              /\ path = <<>> /\ Tail(Top(a).ops) # <<>> /\ Head(Tail(Top(a).ops)).op = "join"
              /\ Safe(j.ops, <<>>, {}, "detached")
  PROVE  ThreadsInv'
<1> DEFINE f == [Top(a) EXCEPT !.ops = path \o Tail(Top(a).ops)]
<1>1. FrameOk(Top(a), Mode(a)) /\ Current(Top(a), version)
  BY TopFrame
<1>2. /\ f = [ops |-> path \o Tail(Top(a).ops), guards |-> Top(a).guards,
              seen |-> Top(a).seen, owner |-> Top(a).owner, depth |-> Top(a).depth]
  <2>1. f = Renewed(Top(a), path \o Tail(Top(a).ops), Top(a).guards, Top(a).seen)
    BY TopRenewed, WithOps
  <2> HIDE DEF f
  <2> QED BY <2>1 DEF Renewed
<1>3. SetTop(a, f)
  BY DEF Continue
<1> HIDE DEF f
<1>4. /\ f.ops = path \o Tail(Top(a).ops) /\ f.guards = Top(a).guards
      /\ f.seen = Top(a).seen /\ f.owner = Top(a).owner /\ f.depth = Top(a).depth
      /\ f = [ops |-> f.ops, guards |-> f.guards, seen |-> f.seen, owner |-> f.owner,
              depth |-> f.depth]
  BY <1>2
<1>5. FrameOk(f, Mode(a))
  BY <1>1, <1>4 DEF FrameOk, Opened
<1>6. /\ version' \in [Handles -> Nat] /\ Current(f, version')
      /\ \A b \in Actors : \A i \in 1..Len(stack[b]) : Current(stack[b][i], version')
  <2>1. /\ version' \in [Handles -> Nat]
        /\ \A b \in Actors : \A i \in 1..Len(stack[b]) : Current(stack[b][i], version')
    BY CurrentFrames
  <2>2. IsSeq(stack[a]) /\ stack[a] # <<>>
    BY DEF ThreadsInv, Frames, Running
  <2>3. Len(stack[a]) \in 1..Len(stack[a]) /\ Top(a) = stack[a][Len(stack[a])]
    BY <2>2, SeqShape DEF Top, Last
  <2>4. Current(Top(a), version')
    BY <2>1, <2>3
  <2> QED BY <1>4, <2>1, <2>4 DEF Current
<1>7. ASSUME NEW j \in jobs', j \notin jobs
      PROVE  /\ j.owner = a /\ j.depth = Len(stack[a]) /\ AtJoin(f)
             /\ Safe(j.ops, <<>>, {}, "detached")
  <2>1. /\ path = <<>> /\ Tail(Top(a).ops) # <<>> /\ Head(Tail(Top(a).ops)).op = "join"
        /\ j.owner = a /\ j.depth = Len(stack[a]) /\ Safe(j.ops, <<>>, {}, "detached")
    BY <1>7
  <2>2. IsSeq(path \o Tail(Top(a).ops))
    BY SafeShape
  <2>3. IsSeq(Tail(Top(a).ops))
    <3>1. IsSeq(Top(a).ops)
      BY <1>1, SafeShape DEF FrameOk
    <3>2. CASE Top(a).ops # <<>>
      BY <3>1, <3>2, TailSeq
    <3>3. CASE Top(a).ops = <<>>
      BY <2>1, <3>3
    <3> QED BY <3>2, <3>3
  <2>4. f.ops = Tail(Top(a).ops)
    BY <1>4, <2>1, <2>3, ConcatEmpty
  <2> QED BY <2>1, <2>4 DEF AtJoin
<1> QED BY <1>3, <1>4, <1>5, <1>6, <1>7, TopStep
LEMMA LogStep ==
  ASSUME ThreadsInv, NEW a \in Actors, LogRecord(a) PROVE ThreadsInv'
<1>1. At(a, "log") /\ MayRun(a) /\ Continue(a, <<>>) /\ UNCHANGED <<gil, call, jobs, version>>
  BY DEF LogRecord, Logs, MayRun
<1>2. /\ Running(a) /\ Top(a).ops # <<>> /\ Head(Top(a).ops).op = "log"
      /\ Safe(Top(a).ops, Top(a).guards, Opened(Top(a)), Mode(a))
      /\ <<>> \o Tail(Top(a).ops) = Tail(Top(a).ops) /\ ~AtJoin(Top(a))
  BY <1>1, NextOfTop
<1>3. Safe(Tail(Top(a).ops), Top(a).guards, Opened(Top(a)), Mode(a))
  BY <1>2, SafeNext
<1> QED BY <1>1, <1>2, <1>3, ContinueStep

LEMMA PeekStep ==
  ASSUME ThreadsInv, NEW a \in Actors, PeekStates(a) PROVE ThreadsInv'
<1>1. At(a, "peek") /\ MayRun(a) /\ Continue(a, <<>>) /\ UNCHANGED <<gil, call, jobs, version>>
  BY DEF PeekStates, Ready
<1>2. /\ Running(a) /\ Top(a).ops # <<>> /\ Head(Top(a).ops).op = "peek"
      /\ Safe(Top(a).ops, Top(a).guards, Opened(Top(a)), Mode(a))
      /\ <<>> \o Tail(Top(a).ops) = Tail(Top(a).ops) /\ ~AtJoin(Top(a))
  BY <1>1, NextOfTop
<1>3. Safe(Tail(Top(a).ops), Top(a).guards, Opened(Top(a)), Mode(a))
  BY <1>2, SafeNext
<1> QED BY <1>1, <1>2, <1>3, ContinueStep

LEMMA WaitStep ==
  ASSUME ThreadsInv, NEW t \in Threads, WaitForReaders(t) PROVE ThreadsInv'
<1>1. /\ At(t, "write") /\ MayRun(t) /\ t \in Actors
      /\ Continue(t, <<[op |-> "waiting", on |-> Op(t).on]>>)
      /\ UNCHANGED <<gil, call, jobs, version>>
  BY DEF WaitForReaders, Ready, Actors
<1>2. /\ Running(t) /\ Top(t).ops # <<>> /\ Head(Top(t).ops).op = "write"
      /\ Op(t) = Head(Top(t).ops)
      /\ Safe(Top(t).ops, Top(t).guards, Opened(Top(t)), Mode(t)) /\ ~AtJoin(Top(t))
  BY <1>1, NextOfTop
<1>3. Safe(<<[op |-> "waiting", on |-> Op(t).on]>> \o Tail(Top(t).ops), Top(t).guards,
           Opened(Top(t)), Mode(t))
  BY <1>2, SafeNext
<1> QED BY <1>1, <1>2, <1>3, ContinueStep

LEMMA PathStep ==
  ASSUME ThreadsInv, NEW a \in Actors, TakePath(a) PROVE ThreadsInv'
<1>1. At(a, "either") /\ MayRun(a) /\ UNCHANGED <<gil, call, jobs, version>>
  BY DEF TakePath, Ready
<1>2. PICK path \in Op(a).paths : Continue(a, path)
  BY DEF TakePath
<1>3. /\ Running(a) /\ Top(a).ops # <<>> /\ Head(Top(a).ops).op = "either"
      /\ Op(a) = Head(Top(a).ops)
      /\ Safe(Top(a).ops, Top(a).guards, Opened(Top(a)), Mode(a)) /\ ~AtJoin(Top(a))
  BY <1>1, NextOfTop
<1>4. Safe(path \o Tail(Top(a).ops), Top(a).guards, Opened(Top(a)), Mode(a))
  BY <1>2, <1>3, SafeNext
<1> QED BY <1>1, <1>2, <1>3, <1>4, ContinueStep

LEMMA JoinStep ==
  ASSUME ThreadsInv, NEW a \in Actors, JoinItems(a) PROVE ThreadsInv'
<1>1. /\ At(a, "join") /\ MayRun(a) /\ Continue(a, <<>>) /\ ~Pending(a)
      /\ UNCHANGED <<gil, call, jobs, version>>
  BY DEF JoinItems, Ready
<1>2. /\ Running(a) /\ Top(a).ops # <<>> /\ Head(Top(a).ops).op = "join"
      /\ Safe(Top(a).ops, Top(a).guards, Opened(Top(a)), Mode(a))
      /\ <<>> \o Tail(Top(a).ops) = Tail(Top(a).ops)
  BY <1>1, NextOfTop
<1>3. Safe(Tail(Top(a).ops), Top(a).guards, Opened(Top(a)), Mode(a))
  BY <1>2, SafeNext
<1> QED BY <1>1, <1>2, <1>3, ContinueStep

LEMMA ForkStep ==
  ASSUME ThreadsInv, NEW a \in Actors, ForkItems(a) PROVE ThreadsInv'
<1>1. /\ At(a, "fork") /\ MayRun(a) /\ Continue(a, <<>>) /\ UNCHANGED <<gil, call, version>>
      /\ jobs' = jobs \cup {[item |-> i.item, ops |-> i.ops, owner |-> a, depth |-> Len(stack[a])] :
                              i \in Op(a).items}
  BY DEF ForkItems, Ready
<1>2. /\ Running(a) /\ Top(a).ops # <<>> /\ Head(Top(a).ops).op = "fork"
      /\ Op(a) = Head(Top(a).ops)
      /\ Safe(Top(a).ops, Top(a).guards, Opened(Top(a)), Mode(a))
      /\ <<>> \o Tail(Top(a).ops) = Tail(Top(a).ops) /\ ~AtJoin(Top(a))
  BY <1>1, NextOfTop
<1>3. /\ Safe(Tail(Top(a).ops), Top(a).guards, Opened(Top(a)), Mode(a))
      /\ Tail(Top(a).ops) # <<>> /\ Head(Tail(Top(a).ops)).op = "join"
      /\ \A i \in Op(a).items : Safe(i.ops, <<>>, {}, "detached")
  BY <1>2, SafeNext
<1>4. \A j \in jobs' :
        j \in jobs \/ (/\ j.owner = a /\ j.depth = Len(stack[a])
                       /\ Safe(j.ops, <<>>, {}, "detached"))
  BY <1>1, <1>3
<1> QED BY <1>1, <1>2, <1>3, <1>4, ContinueStep

-----------------------------------------------------------------------------
(* Guards.                                                                 *)

LEMMA HasShape ==
  ASSUME NEW guards, IsSeq(guards), NEW g
  PROVE  \A x : Has(Append(guards, g), x) <=> Has(guards, x) \/ x = g
<1>1. /\ IsSeq(Append(guards, g)) /\ Len(Append(guards, g)) = Len(guards) + 1
      /\ \A i \in 1..Len(guards) : Append(guards, g)[i] = guards[i]
      /\ Append(guards, g)[Len(guards) + 1] = g
  BY AppendSeq
<1>2. Len(guards) \in Nat
  BY SeqShape
<1> QED BY <1>1, <1>2 DEF Has

LEMMA HasPrefix ==
  ASSUME NEW guards, IsSeq(guards), NEW n \in Int, n <= Len(guards)
  PROVE  \A x : Has(SubSeq(guards, 1, n), x) => Has(guards, x)
<1>1. /\ Len(SubSeq(guards, 1, n)) = IF n < 0 THEN 0 ELSE n
      /\ \A i \in 1..n : SubSeq(guards, 1, n)[i] = guards[i]
  BY PrefixSeq
<1>2. Len(guards) \in Nat
  BY SeqShape
<1> QED BY <1>1, <1>2 DEF Has

LEMMA HasFront ==
  ASSUME NEW guards, IsSeq(guards), guards # <<>>
  PROVE  \A x : Has(Front(guards), x) => Has(guards, x)
<1>1. Len(guards) \in Nat
  BY SeqShape
<1> QED BY <1>1, FrontSeq DEF Has

SeenRenewed(f, ops, guards, seen) ==
  [f EXCEPT !.ops = ops, !.guards = guards, !.seen = seen] = Renewed(f, ops, guards, seen)

LEMMA WithGuards ==
  ASSUME NEW f, f = Renewed(f, f.ops, f.guards, f.seen), NEW ops, NEW guards
  PROVE  [f EXCEPT !.ops = ops, !.guards = guards] = Renewed(f, ops, guards, f.seen)
<1> DEFINE one == [f EXCEPT !.ops = ops]
           two == [one EXCEPT !.guards = guards]
<1>1. one = Renewed(f, ops, f.guards, f.seen)
  BY DEF Renewed
<1>2. [f EXCEPT !.ops = ops, !.guards = guards] = two
  OBVIOUS
<1> HIDE DEF one
<1>3. two = Renewed(f, ops, guards, f.seen)
  BY <1>1 DEF Renewed
<1> QED BY <1>2, <1>3

LEMMA WithSeen ==
  ASSUME NEW f, f = Renewed(f, f.ops, f.guards, f.seen), NEW ops, NEW guards, NEW seen
  PROVE  SeenRenewed(f, ops, guards, seen)
<1> DEFINE two == [f EXCEPT !.ops = ops, !.guards = guards]
           three == [two EXCEPT !.seen = seen]
<1>1. two = Renewed(f, ops, guards, f.seen)
  BY WithGuards
<1>2. [f EXCEPT !.ops = ops, !.guards = guards, !.seen = seen] = three
  OBVIOUS
<1> HIDE DEF two
<1>3. three = Renewed(f, ops, guards, seen)
  BY <1>1 DEF Renewed
<1> QED BY <1>2, <1>3 DEF SeenRenewed

(* An operation is done on the guards of the frame on top.                 *)
LEMMA GuardStep ==
  ASSUME ThreadsInv, NEW a \in Actors, NEW op, At(a, op), op # "join", MayRun(a),
         NEW guards, NEW seen, SetTop(a, Renewed(Top(a), Tail(Top(a).ops), guards, seen)),
         Safe(Tail(Top(a).ops), guards, {s[1] : s \in seen}, Mode(a)),
         seen \subseteq Handles \X Nat,
         \A s \in seen, r \in seen : s[1] = r[1] => s[2] = r[2],
         \A s \in seen : Has(guards, s[1]) => s[2] = version[s[1]],
         UNCHANGED <<gil, call, jobs, version>>
  PROVE  ThreadsInv'
<1> DEFINE f == Renewed(Top(a), Tail(Top(a).ops), guards, seen)
<1>1. Running(a) /\ ~AtJoin(Top(a))
  BY NextOfTop
<1>2. SetTop(a, f)
  OBVIOUS
<1>3. /\ f.ops = Tail(Top(a).ops) /\ f.guards = guards /\ f.seen = seen
      /\ f.owner = Top(a).owner /\ f.depth = Top(a).depth
      /\ f = [ops |-> f.ops, guards |-> f.guards, seen |-> f.seen, owner |-> f.owner,
              depth |-> f.depth]
  BY DEF Renewed
<1> HIDE DEF f
<1>4. FrameOk(f, Mode(a)) /\ Current(f, version')
  BY <1>3 DEF FrameOk, Opened, Current
<1> QED BY <1>1, <1>2, <1>3, <1>4, CurrentFrames, TopStep

LEMMA DropStep ==
  ASSUME ThreadsInv, NEW a \in Actors, DropGuards(a) PROVE ThreadsInv'
<1> DEFINE guards == SubSeq(Top(a).guards, 1, Len(Top(a).guards) - Op(a).n)
<1>1. /\ At(a, "drop") /\ MayRun(a) /\ UNCHANGED <<gil, call, jobs, version>>
      /\ SetTop(a, [Top(a) EXCEPT !.ops = Tail(Top(a).ops), !.guards = guards])
  BY DEF DropGuards, Ready
<1> HIDE DEF guards
<1>2. /\ Running(a) /\ Top(a).ops # <<>> /\ Head(Top(a).ops).op = "drop"
      /\ Op(a) = Head(Top(a).ops) /\ IsSeq(Top(a).guards)
      /\ Safe(Top(a).ops, Top(a).guards, Opened(Top(a)), Mode(a))
  BY <1>1, NextOfTop
<1>3. /\ Op(a).n \in Nat /\ Op(a).n <= Len(Top(a).guards)
      /\ Safe(Tail(Top(a).ops), guards, Opened(Top(a)), Mode(a))
  BY <1>2, SafeNext DEF guards
<1>4. SetTop(a, Renewed(Top(a), Tail(Top(a).ops), guards, Top(a).seen))
  BY <1>1, <1>2, TopRenewed, WithGuards
<1>5. \A x : Has(guards, x) => Has(Top(a).guards, x)
  <2>1. Len(Top(a).guards) \in Nat
    BY <1>2, SeqShape
  <2>2. Len(Top(a).guards) - Op(a).n \in Int
        /\ Len(Top(a).guards) - Op(a).n <= Len(Top(a).guards)
    BY <1>3, <2>1
  <2> QED BY <1>2, <2>2, HasPrefix DEF guards
<1>6. FrameOk(Top(a), Mode(a)) /\ Current(Top(a), version)
  BY <1>2, TopFrame
<1> QED BY <1>1, <1>3, <1>4, <1>5, <1>6, GuardStep DEF FrameOk, Current, Opened

LEMMA UnlockStep ==
  ASSUME ThreadsInv, NEW a \in Actors, ReleaseSaalLock(a) PROVE ThreadsInv'
<1> DEFINE guards == Front(Top(a).guards)
<1>1. /\ At(a, "unlock") /\ MayRun(a) /\ UNCHANGED <<gil, call, jobs, version>>
      /\ SetTop(a, [Top(a) EXCEPT !.ops = Tail(Top(a).ops), !.guards = guards])
  BY DEF ReleaseSaalLock, Ready
<1> HIDE DEF guards
<1>2. /\ Running(a) /\ Top(a).ops # <<>> /\ Head(Top(a).ops).op = "unlock"
      /\ IsSeq(Top(a).guards)
      /\ Safe(Top(a).ops, Top(a).guards, Opened(Top(a)), Mode(a))
  BY <1>1, NextOfTop
<1>3. /\ Top(a).guards # <<>>
      /\ Safe(Tail(Top(a).ops), guards, Opened(Top(a)), Mode(a))
  BY <1>2, SafeNext DEF guards
<1>4. SetTop(a, Renewed(Top(a), Tail(Top(a).ops), guards, Top(a).seen))
  BY <1>1, <1>2, TopRenewed, WithGuards
<1>5. \A x : Has(guards, x) => Has(Top(a).guards, x)
  BY <1>2, <1>3, HasFront DEF guards
<1>6. FrameOk(Top(a), Mode(a)) /\ Current(Top(a), version)
  BY <1>2, TopFrame
<1> QED BY <1>1, <1>3, <1>4, <1>5, <1>6, GuardStep DEF FrameOk, Current, Opened

LEMMA LockStep ==
  ASSUME ThreadsInv, NEW a \in Actors, TakeSaalLock(a) PROVE ThreadsInv'
<1> DEFINE guards == Append(Top(a).guards, None)
<1>1. /\ At(a, "lock") /\ MayRun(a) /\ UNCHANGED <<gil, call, jobs, version>>
      /\ SetTop(a, [Top(a) EXCEPT !.ops = Tail(Top(a).ops), !.guards = guards])
  BY DEF TakeSaalLock, Ready
<1> HIDE DEF guards
<1>2. /\ Running(a) /\ Top(a).ops # <<>> /\ Head(Top(a).ops).op = "lock"
      /\ IsSeq(Top(a).guards)
      /\ Safe(Top(a).ops, Top(a).guards, Opened(Top(a)), Mode(a))
  BY <1>1, NextOfTop
<1>3. Safe(Tail(Top(a).ops), guards, Opened(Top(a)), Mode(a))
  BY <1>2, SafeNext DEF guards
<1>4. SetTop(a, Renewed(Top(a), Tail(Top(a).ops), guards, Top(a).seen))
  BY <1>1, <1>2, TopRenewed, WithGuards
<1>5. \A x : Has(guards, x) => Has(Top(a).guards, x) \/ x = None
  BY <1>2, HasShape DEF guards
<1>6. FrameOk(Top(a), Mode(a)) /\ Current(Top(a), version)
  BY <1>2, TopFrame
<1>7. None \notin Handles
  BY ThreadsAssumption DEF Handles
<1>8. \A s \in Top(a).seen : Has(guards, s[1]) => s[2] = version[s[1]]
  <2>1. \A s \in Top(a).seen : s[1] # None
    BY <1>6, <1>7 DEF FrameOk
  <2> QED BY <1>5, <1>6, <2>1 DEF Current
<1> QED BY <1>1, <1>3, <1>4, <1>6, <1>8, GuardStep DEF FrameOk, Opened

LEMMA ReadStep ==
  ASSUME ThreadsInv, NEW a \in Actors, ReadGuard(a) PROVE ThreadsInv'
<1> DEFINE e == Op(a).on
           guards == Append(Top(a).guards, e)
           seen == Top(a).seen \cup {<<e, version[e]>>}
<1>1. /\ At(a, "read") /\ MayRun(a) /\ UNCHANGED <<gil, call, jobs, version>>
      /\ SetTop(a, [Top(a) EXCEPT !.ops = Tail(Top(a).ops), !.guards = guards, !.seen = seen])
  BY DEF ReadGuard, Ready
<1>2. /\ Running(a) /\ Top(a).ops # <<>> /\ Head(Top(a).ops).op = "read"
      /\ Op(a) = Head(Top(a).ops) /\ IsSeq(Top(a).guards)
      /\ Safe(Top(a).ops, Top(a).guards, Opened(Top(a)), Mode(a))
  BY <1>1, NextOfTop
<1>3. /\ e \in Handles /\ (e \in Opened(Top(a)) => Has(Top(a).guards, e))
      /\ Safe(Tail(Top(a).ops), guards, Opened(Top(a)) \cup {e}, Mode(a))
  BY <1>2, SafeNext
<1>4. SetTop(a, Renewed(Top(a), Tail(Top(a).ops), guards, seen))
  <2>1. Top(a) = Renewed(Top(a), Top(a).ops, Top(a).guards, Top(a).seen)
    BY <1>2, TopRenewed
  <2> HIDE DEF guards, seen
  <2>2. SeenRenewed(Top(a), Tail(Top(a).ops), guards, seen)
    BY <2>1, WithSeen
  <2> QED BY <1>1, <2>2 DEF SeenRenewed
<1>5. \A x : Has(guards, x) => Has(Top(a).guards, x) \/ x = e
  BY <1>2, HasShape
<1>6. FrameOk(Top(a), Mode(a)) /\ Current(Top(a), version)
  BY <1>2, TopFrame
<1>7. version[e] \in Nat
  BY <1>3 DEF ThreadsInv, Versions
<1>8. {s[1] : s \in seen} = Opened(Top(a)) \cup {e}
  <2>1. <<e, version[e]>> \in seen /\ <<e, version[e]>>[1] = e
    OBVIOUS
  <2>2. \A s \in seen : s \in Top(a).seen \/ s[1] = e
    OBVIOUS
  <2>3. Top(a).seen \subseteq seen
    OBVIOUS
  <2> HIDE DEF seen, e
  <2> QED BY <2>1, <2>2, <2>3 DEF Opened
<1>9. \A s \in Top(a).seen : s[1] = e => s[2] = version[e]
  BY <1>3, <1>6 DEF Opened, Current
<1>10. seen \subseteq Handles \X Nat
  BY <1>3, <1>6, <1>7 DEF FrameOk
<1>11. \A s \in seen, r \in seen : s[1] = r[1] => s[2] = r[2]
  BY <1>6, <1>9 DEF FrameOk
<1>12. \A s \in seen : Has(guards, s[1]) => s[2] = version[s[1]]
  BY <1>5, <1>6, <1>9 DEF Current
<1> HIDE DEF guards, seen
<1> QED BY <1>1, <1>3, <1>4, <1>8, <1>10, <1>11, <1>12, GuardStep
LEMMA AddStep ==
  ASSUME ThreadsInv, NEW t \in Threads, AddState(t) PROVE ThreadsInv'
<1> DEFINE e == Op(t).on
<1>1. PICK op \in {"write", "waiting"} : At(t, op)
  BY DEF AddState, Ready
<1>2. /\ MayRun(t) /\ t \in Actors /\ Writable(e) /\ Continue(t, <<>>)
      /\ version' = [version EXCEPT ![e] = @ + 1] /\ UNCHANGED <<gil, call, jobs>>
  BY DEF AddState, Ready, Actors
<1>3. /\ Running(t) /\ Top(t).ops # <<>> /\ Head(Top(t).ops).op = op
      /\ Op(t) = Head(Top(t).ops)
      /\ Safe(Top(t).ops, Top(t).guards, Opened(Top(t)), Mode(t))
      /\ <<>> \o Tail(Top(t).ops) = Tail(Top(t).ops) /\ ~AtJoin(Top(t))
  BY <1>1, <1>2, NextOfTop
<1>4. e \in Ephemerides /\ Safe(Tail(Top(t).ops), Top(t).guards, Opened(Top(t)), Mode(t))
  BY <1>1, <1>3, SafeNext
<1>5. version \in [Handles -> Nat] /\ e \in Handles
  BY <1>4 DEF ThreadsInv, Versions, Handles
<1>6. version' \in [Handles -> Nat]
      /\ \A h \in Handles : h # e => version'[h] = version[h]
  BY <1>2, <1>5
<1>7. ASSUME NEW b \in Actors, NEW i \in 1..Len(stack[b])
      PROVE  Current(stack[b][i], version')
  <2>1. IsSeq(stack[b]) /\ FrameOk(stack[b][i], Mode(b)) /\ Current(stack[b][i], version)
    BY <1>7 DEF ThreadsInv, Frames
  <2>2. IsSeq(stack[b][i].guards) /\ i \in DOMAIN stack[b]
    BY <1>7, <2>1, SafeShape, SeqShape DEF FrameOk
  <2>3. ~Has(stack[b][i].guards, e)
    <3>1. ~Guarded(b, e)
      BY <1>2 DEF Writable
    <3>2. \A k \in DOMAIN stack[b][i].guards : stack[b][i].guards[k] # e
      BY <2>2, <3>1 DEF Guarded
    <3>3. DOMAIN stack[b][i].guards = 1..Len(stack[b][i].guards)
      BY <2>2, SeqShape
    <3> QED BY <3>2, <3>3 DEF Has
  <2>4. \A s \in stack[b][i].seen : s[1] \in Handles
    BY <2>1 DEF FrameOk
  <2> QED BY <1>6, <2>1, <2>3, <2>4 DEF Current
<1> QED BY <1>2, <1>3, <1>4, <1>6, <1>7, ContinueStep

-----------------------------------------------------------------------------
(* The interpreter.                                                        *)

LEMMA SwitchAtLogStep ==
  ASSUME ThreadsInv, NEW t \in Threads, SwitchAtLog(t) PROVE ThreadsInv'
<1>1. At(t, "log") /\ gil = t /\ gil' = None /\ UNCHANGED <<call, left, stack, jobs, version>>
  BY DEF SwitchAtLog
<1>2. \A a : /\ NeedsGil(a)' = NeedsGil(a) /\ Mode(a)' = Mode(a)
             /\ Running(a)' = Running(a) /\ At(a, "log")' = At(a, "log")
  BY <1>1 DEF NeedsGil, Mode, Running, At, Top
<1>3. Interpreter'
  BY <1>1, <1>2 DEF ThreadsInv, Interpreter
<1> QED BY <1>1, <1>2, <1>3 DEF ThreadsInv, Frames, Versions, Nesting, Ranked, RankedBy

LEMMA SwitchBackStep ==
  ASSUME ThreadsInv, NEW t \in Threads, SwitchBack(t) PROVE ThreadsInv'
<1>1. /\ NeedsGil(t) /\ Running(t) /\ gil = None /\ gil' = t
      /\ UNCHANGED <<call, left, stack, jobs, version>>
  BY DEF SwitchBack, WantsGil
<1>2. \A a : /\ NeedsGil(a)' = NeedsGil(a) /\ Mode(a)' = Mode(a)
             /\ Running(a)' = Running(a) /\ At(a, "log")' = At(a, "log")
  BY <1>1 DEF NeedsGil, Mode, Running, At, Top
<1>3. \A u \in Threads : u # None
  BY ThreadsAssumption
<1>4. Interpreter'
  BY <1>1, <1>2, <1>3 DEF ThreadsInv, Interpreter
<1> QED BY <1>1, <1>2, <1>4 DEF ThreadsInv, Frames, Versions, Nesting, Ranked, RankedBy
-----------------------------------------------------------------------------
(* A program ends: its frame leaves the stack.                             *)
LEMMA Popped ==
  ASSUME ThreadsInv, NEW a \in Actors, AtEnd(a), NEW s, stack' = [stack EXCEPT ![a] = s],
         IsSeq(s), Len(s) = Len(stack[a]) - 1, \A i \in 1..Len(s) : s[i] = stack[a][i],
         \A b \in Actors : Len(stack'[b]) > 0 => Mode(b)' = Mode(b),
         UNCHANGED <<jobs, version>>
  PROVE  Frames' /\ Versions' /\ Nesting' /\ Ranked'
<1> DEFINE n == Len(stack[a])
<1>1. Frames /\ Nesting /\ Ranked /\ Versions
  BY DEF ThreadsInv
<1>2. /\ IsSeq(stack[a]) /\ stack[a] # <<>> /\ Top(a).ops = <<>>
  BY <1>1 DEF AtEnd, Running, Frames
<1>3. n \in Nat /\ n > 0 /\ Top(a) = stack[a][n] /\ ~AtJoin(stack[a][n])
  BY <1>2, SeqShape DEF Top, Last, AtJoin
<1>4. /\ DOMAIN stack' = Actors /\ stack'[a] = s
      /\ \A b \in Actors : b # a => stack'[b] = stack[b]
  BY <1>1 DEF Frames
<1>5. \A b \in Actors : IsSeq(stack[b]) /\ IsSeq(stack'[b])
  BY <1>1, <1>4 DEF Frames
<1>6. \A b \in Actors : Len(stack[b]) \in Nat /\ Len(stack'[b]) \in Nat
  BY <1>5, SeqShape
<1>7. \A b \in Actors : /\ Len(stack'[b]) <= Len(stack[b])
                        /\ \A i \in 1..Len(stack'[b]) : stack'[b][i] = stack[b][i]
  BY <1>3, <1>4, <1>6
<1>8. Threads \subseteq Actors /\ Workers \subseteq Actors
  BY DEF Actors
<1>9. Frames'
  <2>1. ASSUME NEW b \in Actors, NEW i \in 1..Len(stack'[b])
        PROVE  FrameOk(stack'[b][i], Mode(b)') /\ Current(stack'[b][i], version')
    <3>1. Len(stack'[b]) > 0 /\ i \in 1..Len(stack[b]) /\ stack'[b][i] = stack[b][i]
      BY <1>6, <1>7, <2>1
    <3>2. Mode(b)' = Mode(b)
      BY <3>1
    <3> QED BY <1>1, <3>1, <3>2 DEF Frames
  <2> QED BY <1>4, <1>5, <2>1 DEF Frames
<1>10. ASSUME NEW o, NEW d, Parent(stack, o, d) PROVE Parent(stack', o, d)
  <2>1. ~(o = a /\ d = n)
    BY <1>3, <1>10 DEF Parent
  <2>2. d \in 1..Len(stack'[o]) /\ stack'[o][d] = stack[o][d]
    BY <1>3, <1>4, <1>10, <2>1 DEF Parent
  <2> QED BY <1>10, <2>2 DEF Parent
<1>11. Nesting'
  <2>1. \A t \in Threads : Len(stack'[t]) <= 1
    BY <1>1, <1>6, <1>7, <1>8 DEF Nesting
  <2>2. \A b \in Actors : \A i \in 1..Len(stack'[b]) - 1 : AtJoin(stack'[b][i])
    BY <1>1, <1>6, <1>7 DEF Nesting
  <2>3. \A j \in jobs' : Parent(stack', j.owner, j.depth) /\ Safe(j.ops, <<>>, {}, "detached")
    BY <1>1, <1>10 DEF Nesting
  <2>4. ASSUME NEW w \in Workers, NEW i \in 1..Len(stack'[w])
        PROVE  Parent(stack', stack'[w][i].owner, stack'[w][i].depth)
    <3>1. i \in 1..Len(stack[w]) /\ stack'[w][i] = stack[w][i]
      BY <1>6, <1>7, <1>8, <2>4
    <3>2. Parent(stack, stack[w][i].owner, stack[w][i].depth)
      BY <1>1, <3>1 DEF Nesting
    <3> QED BY <1>10, <3>1, <3>2
  <2> QED BY <2>1, <2>2, <2>3, <2>4 DEF Nesting
<1>12. Ranked'
  <2>1. PICK rank, bound : RankedBy(rank, bound)
    BY <1>1 DEF Ranked
  <2>2. \A b \in Actors : \A i \in 1..Len(stack'[b]) : i \in 1..Len(stack[b])
    BY <1>6, <1>7
  <2>3. RankedBy(rank, bound)'
    BY <1>7, <1>8, <2>1, <2>2 DEF RankedBy
  <2> QED BY <2>3 DEF Ranked
<1> QED BY <1>1, <1>9, <1>11, <1>12 DEF Versions

(* A program begins, on top of one that waits for its items.               *)
LEMMA Pushed ==
  ASSUME ThreadsInv, NEW a \in Actors, NEW f, stack' = [stack EXCEPT ![a] = Append(@, f)],
         Running(a) => AtJoin(Top(a)) /\ a \in Workers,
         a \in Workers => Parent(stack, f.owner, f.depth),
         \A b \in Actors : Running(b) => Mode(b)' = Mode(b),
         FrameOk(f, Mode(a)'), f.guards = <<>>, jobs' \subseteq jobs, UNCHANGED version
  PROVE  Frames' /\ Versions' /\ Nesting' /\ Ranked'
<1>0. PICK n : n = Len(stack[a])
  OBVIOUS
<1>1. Frames /\ Nesting /\ Ranked /\ Versions
  BY DEF ThreadsInv
<1>2. \A b \in Actors : /\ IsSeq(stack[b]) /\ Len(stack[b]) \in Nat
                        /\ Running(b) <=> Len(stack[b]) > 0
  <2>1. \A b \in Actors : IsSeq(stack[b])
    BY <1>1 DEF Frames
  <2> QED BY <2>1, SeqShape DEF Running
<1>3. /\ DOMAIN stack' = Actors /\ stack'[a] = Append(stack[a], f)
      /\ \A b \in Actors : b # a => stack'[b] = stack[b]
  BY <1>1 DEF Frames
<1>4. /\ IsSeq(stack'[a]) /\ Len(stack'[a]) = n + 1 /\ stack'[a][n + 1] = f
      /\ \A i \in 1..n : stack'[a][i] = stack[a][i]
  <2>1. IsSeq(stack[a])
    BY <1>2
  <2> QED BY <1>0, <1>3, <2>1, AppendSeq
<1>5. \A b \in Actors : /\ IsSeq(stack'[b]) /\ Len(stack'[b]) \in Nat
                        /\ Len(stack[b]) <= Len(stack'[b])
                        /\ \A i \in 1..Len(stack[b]) : stack'[b][i] = stack[b][i]
  <2>1. n \in Nat
    BY <1>0, <1>2
  <2> QED BY <1>0, <1>2, <1>3, <1>4, <2>1
<1>6. \A b \in Actors : \A i \in 1..Len(stack'[b]) :
        i \in 1..Len(stack[b]) \/ (b = a /\ i = n + 1)
  BY <1>0, <1>2, <1>3, <1>4
<1>7. Threads \subseteq Actors /\ Workers \subseteq Actors /\ Threads \cap Workers = {}
  BY ThreadsAssumption DEF Actors
<1>8. Frames'
  <2>1. ASSUME NEW b \in Actors, NEW i \in 1..Len(stack'[b])
        PROVE  FrameOk(stack'[b][i], Mode(b)') /\ Current(stack'[b][i], version')
    <3>1. CASE i \in 1..Len(stack[b])
      <4>1. Running(b) /\ stack'[b][i] = stack[b][i]
        BY <1>2, <1>5, <3>1
      <4> QED BY <1>1, <3>1, <4>1 DEF Frames
    <3>2. CASE b = a /\ i = n + 1
      <4>1. \A x : ~Has(<<>>, x)
        BY DEF Has
      <4> QED BY <1>4, <3>2, <4>1 DEF Current
    <3> QED BY <1>6, <3>1, <3>2
  <2> QED BY <1>3, <1>5, <2>1 DEF Frames
<1>9. ASSUME NEW o, NEW d, Parent(stack, o, d) PROVE Parent(stack', o, d)
  <2>1. d \in 1..Len(stack'[o]) /\ stack'[o][d] = stack[o][d]
    BY <1>2, <1>5, <1>9 DEF Parent
  <2> QED BY <1>9, <2>1 DEF Parent
<1>10. Nesting'
  <2>1. \A t \in Threads : Len(stack'[t]) <= 1
    BY <1>1, <1>2, <1>3, <1>4, <1>7 DEF Nesting
  <2>2. ASSUME NEW b \in Actors, NEW i \in 1..Len(stack'[b]) - 1
        PROVE  AtJoin(stack'[b][i])
    <3>1. CASE b # a
      BY <1>1, <1>3, <2>2, <3>1 DEF Nesting
    <3>2. CASE b = a /\ i = n
      <4>1. n > 0 /\ Top(a) = stack[a][n]
        BY <1>0, <1>2, <1>4, <2>2, <3>2 DEF Top, Last
      <4> QED BY <1>0, <1>2, <1>4, <2>2, <3>2, <4>1
    <3>3. CASE b = a /\ i # n
      BY <1>0, <1>1, <1>2, <1>4, <2>2, <3>3 DEF Nesting
    <3> QED BY <3>1, <3>2, <3>3
  <2>3. \A j \in jobs' : Parent(stack', j.owner, j.depth) /\ Safe(j.ops, <<>>, {}, "detached")
    BY <1>1, <1>9 DEF Nesting
  <2>4. ASSUME NEW w \in Workers, NEW i \in 1..Len(stack'[w])
        PROVE  Parent(stack', stack'[w][i].owner, stack'[w][i].depth)
    <3>1. CASE i \in 1..Len(stack[w])
      <4>1. stack'[w][i] = stack[w][i]
        BY <1>5, <1>7, <3>1
      <4>2. Parent(stack, stack[w][i].owner, stack[w][i].depth)
        BY <1>1, <3>1 DEF Nesting
      <4> QED BY <1>9, <4>1, <4>2
    <3>2. CASE w = a /\ i = n + 1
      <4>1. Parent(stack', f.owner, f.depth)
        BY <1>9, <2>4, <3>2
      <4> QED BY <1>4, <3>2, <4>1
    <3> QED BY <1>6, <1>7, <2>4, <3>1, <3>2
  <2> QED BY <2>1, <2>2, <2>3, <2>4 DEF Nesting
<1>11. Ranked'
  <2>1. PICK rank, bound : RankedBy(rank, bound)
    BY <1>1 DEF Ranked
  <2> DEFINE new == [rank EXCEPT ![<<a, n + 1>>] = bound]
  <2>2. /\ rank \in [Actors \X Nat -> Nat] /\ bound \in Nat
        /\ \A g \in Actors \X Nat : rank[g] < bound
        /\ \A b \in Actors : \A i \in 1..Len(stack[b]), k \in 1..Len(stack[b]) :
             i < k => rank[<<b, i>>] < rank[<<b, k>>]
        /\ \A w \in Workers : \A i \in 1..Len(stack[w]) :
             rank[<<stack[w][i].owner, stack[w][i].depth>>] < rank[<<w, i>>]
    BY <2>1 DEF RankedBy
  <2>3. /\ new \in [Actors \X Nat -> Nat] /\ bound + 1 \in Nat
        /\ new[<<a, n + 1>>] = bound
        /\ \A g \in Actors \X Nat : g # <<a, n + 1>> => new[g] = rank[g]
    BY <1>0, <1>2, <2>2
  <2>4. \A g \in Actors \X Nat : new[g] < bound + 1
    BY <2>2, <2>3
  <2>5. \A b \in Actors : \A i \in 1..Len(stack[b]) :
          <<b, i>> \in Actors \X Nat /\ <<b, i>> # <<a, n + 1>>
    BY <1>0, <1>2
  <2>6. ASSUME NEW b \in Actors, NEW i \in 1..Len(stack'[b]), NEW k \in 1..Len(stack'[b]), i < k
        PROVE  new[<<b, i>>] < new[<<b, k>>]
    <3>1. i \in 1..Len(stack[b])
      BY <1>0, <1>2, <1>3, <1>4, <2>6
    <3>2. new[<<b, i>>] = rank[<<b, i>>] /\ rank[<<b, i>>] < bound
      BY <2>2, <2>3, <2>5, <3>1
    <3>3. CASE k \in 1..Len(stack[b])
      <4>1. new[<<b, k>>] = rank[<<b, k>>]
        BY <2>3, <2>5, <3>3
      <4> QED BY <2>2, <2>6, <3>1, <3>2, <3>3, <4>1
    <3>4. CASE b = a /\ k = n + 1
      BY <2>3, <3>2, <3>4
    <3> QED BY <1>6, <3>3, <3>4
  <2>7. ASSUME NEW w \in Workers, NEW i \in 1..Len(stack'[w])
        PROVE  new[<<stack'[w][i].owner, stack'[w][i].depth>>] < new[<<w, i>>]
    <3>1. CASE i \in 1..Len(stack[w])
      <4>1. stack'[w][i] = stack[w][i]
        BY <1>5, <1>7, <3>1
      <4>2. Parent(stack, stack[w][i].owner, stack[w][i].depth)
        BY <1>1, <3>1 DEF Nesting
      <4>3. new[<<stack[w][i].owner, stack[w][i].depth>>]
              = rank[<<stack[w][i].owner, stack[w][i].depth>>]
        BY <2>3, <2>5, <4>2 DEF Parent
      <4>4. new[<<w, i>>] = rank[<<w, i>>]
        BY <1>7, <2>3, <2>5, <3>1
      <4> QED BY <2>2, <3>1, <4>1, <4>3, <4>4
    <3>2. CASE w = a /\ i = n + 1
      <4>1. stack'[w][i] = f /\ Parent(stack, f.owner, f.depth)
        BY <1>4, <2>7, <3>2
      <4>2. /\ new[<<f.owner, f.depth>>] = rank[<<f.owner, f.depth>>]
            /\ <<f.owner, f.depth>> \in Actors \X Nat
        BY <2>3, <2>5, <4>1 DEF Parent
      <4> QED BY <2>2, <2>3, <3>2, <4>1, <4>2
    <3> QED BY <1>6, <1>7, <3>1, <3>2
  <2> HIDE DEF new
  <2>8. RankedBy(new, bound + 1)'
    BY <2>3, <2>4, <2>6, <2>7 DEF RankedBy
  <2> QED BY <2>8 DEF Ranked
<1> QED BY <1>1, <1>8, <1>10, <1>11 DEF Versions
LEMMA ReturnStep ==
  ASSUME ThreadsInv, NEW t \in Threads, Return(t) PROVE ThreadsInv'
<1>1. /\ AtEnd(t) /\ gil = (IF call[t].detached THEN None ELSE t) /\ gil' = None
      /\ call' = [call EXCEPT ![t] = Idle] /\ stack' = [stack EXCEPT ![t] = <<>>]
      /\ UNCHANGED <<left, jobs, version>> /\ t \in Actors
  BY DEF Return, Returns, Actors
<1>2. IsSeq(stack[t]) /\ stack[t] # <<>> /\ Len(stack[t]) <= 1
  BY <1>1 DEF ThreadsInv, Frames, Nesting, AtEnd, Running
<1> DEFINE s == <<>>
<1>3. /\ IsSeq(s) /\ Len(s) = 0 /\ Len(s) = Len(stack[t]) - 1
      /\ \A i \in 1..Len(s) : s[i] = stack[t][i]
  <2>1. IsSeq(s) /\ Len(s) = 0
    BY EmptyIsSeq
  <2>2. Len(stack[t]) \in Nat /\ Len(stack[t]) # 0
    BY <1>2, SeqShape
  <2>3. Len(stack[t]) = 1
    <3>1. PICK n : n = Len(stack[t])
      OBVIOUS
    <3>2. n \in Nat /\ n # 0 /\ n <= 1
      BY <1>2, <2>2, <3>1
    <3>3. n = 1
      BY <3>2
    <3> QED BY <3>1, <3>3
  <2> HIDE DEF s
  <2>4. 1..Len(s) = {}
    BY <2>1
  <2> QED BY <2>1, <2>3, <2>4
<1>4. /\ \A u \in Actors : u # t => stack'[u] = stack[u]
      /\ stack'[t] = s /\ DOMAIN call' = Threads
      /\ \A u : u # t => call'[u] = call[u]
  BY <1>1 DEF ThreadsInv, Frames, Interpreter
<1>5. \A b \in Actors : Len(stack'[b]) > 0 => Mode(b)' = Mode(b)
  <2> SUFFICES ASSUME NEW b \in Actors, Len(stack'[b]) > 0 PROVE Mode(b)' = Mode(b)
    OBVIOUS
  <2>1. b # t
    BY <1>3, <1>4
  <2> QED BY <1>4, <2>1 DEF Mode, NeedsGil
<1>6. Frames' /\ Versions' /\ Nesting' /\ Ranked'
  <2>1. stack' = [stack EXCEPT ![t] = s]
    BY <1>1
  <2> HIDE DEF s
  <2> QED BY <1>1, <1>3, <1>5, <2>1, Popped
<1>7. ASSUME NEW u \in Threads, Running(u)', NeedsGil(u)' PROVE At(u, "log")'
  <2>1. u # t /\ u \in Actors
    BY <1>4, <1>7 DEF Running, Actors
  <2>2. Running(u) /\ NeedsGil(u) /\ stack'[u] = stack[u]
    BY <1>4, <1>7, <2>1 DEF Running, NeedsGil
  <2>3. gil # u
    BY <1>1, <2>1, ThreadsAssumption
  <2>4. At(u, "log")
    BY <2>2, <2>3 DEF ThreadsInv, Interpreter
  <2> QED BY <2>2, <2>4 DEF At, Running, Top
<1>8. Interpreter'
  BY <1>1, <1>4, <1>7 DEF Interpreter
<1> QED BY <1>6, <1>8 DEF ThreadsInv

LEMMA DoneStep ==
  ASSUME ThreadsInv, NEW w \in Workers, ItemDone(w) PROVE ThreadsInv'
<1>1. /\ AtEnd(w) /\ stack' = [stack EXCEPT ![w] = Front(stack[w])]
      /\ UNCHANGED <<gil, call, left, jobs, version>> /\ w \in Actors /\ w \notin Threads
  BY ThreadsAssumption DEF ItemDone, Actors
<1>2. IsSeq(stack[w]) /\ stack[w] # <<>>
  BY <1>1 DEF ThreadsInv, Frames, AtEnd, Running
<1>3. /\ IsSeq(Front(stack[w])) /\ Len(Front(stack[w])) = Len(stack[w]) - 1
      /\ \A i \in 1..Len(stack[w]) - 1 : Front(stack[w])[i] = stack[w][i]
  BY <1>2, FrontSeq
<1>4. \A b : Mode(b)' = Mode(b) /\ NeedsGil(b)' = NeedsGil(b)
  BY <1>1 DEF Mode, NeedsGil
<1>5. Frames' /\ Versions' /\ Nesting' /\ Ranked'
  BY <1>1, <1>3, <1>4, Popped
<1>6. \A t \in Threads : stack'[t] = stack[t]
  BY <1>1 DEF ThreadsInv, Frames, Actors
<1>7. \A t \in Threads : Running(t)' = Running(t) /\ At(t, "log")' = At(t, "log")
  BY <1>6 DEF Running, At, Top
<1>8. gil # None => gil \in Threads
  BY DEF ThreadsInv, Interpreter
<1>9. Interpreter'
  BY <1>1, <1>4, <1>7, <1>8 DEF ThreadsInv, Interpreter
<1> QED BY <1>5, <1>9 DEF ThreadsInv

LEMMA FrameShape ==
  ASSUME NEW ops, NEW owner, NEW depth, NEW mode, Safe(ops, <<>>, {}, mode)
  PROVE  /\ FrameOk(Frame(ops, owner, depth), mode) /\ Frame(ops, owner, depth).guards = <<>>
         /\ Frame(ops, owner, depth).owner = owner /\ Frame(ops, owner, depth).depth = depth
<1>1. {s[1] : s \in {}} = {}
  OBVIOUS
<1> QED BY <1>1 DEF FrameOk, Frame, Opened

LEMMA TakeStep ==
  ASSUME ThreadsInv, NEW w \in Workers, NEW job \in jobs, TakeItem(w, job) PROVE ThreadsInv'
<1> DEFINE f == Frame(job.ops, job.owner, job.depth)
<1>1. /\ Free(w) /\ stack' = [stack EXCEPT ![w] = Append(@, f)] /\ jobs' = jobs \ {job}
      /\ UNCHANGED <<gil, call, left, version>> /\ w \in Actors /\ w \notin Threads
  BY ThreadsAssumption DEF TakeItem, Actors
<1>2. Parent(stack, job.owner, job.depth) /\ Safe(job.ops, <<>>, {}, "detached")
  BY DEF ThreadsInv, Nesting
<1>3. /\ FrameOk(f, "detached") /\ f.guards = <<>>
      /\ f.owner = job.owner /\ f.depth = job.depth
  BY <1>2, FrameShape
<1>4. Running(w) => AtJoin(Top(w))
  BY <1>1 DEF Free, At, AtJoin
<1>5. \A b : Mode(b)' = Mode(b) /\ NeedsGil(b)' = NeedsGil(b)
  BY <1>1 DEF Mode, NeedsGil
<1>6. Mode(w)' = "detached"
  BY <1>1 DEF Mode, NeedsGil
<1>7. Frames' /\ Versions' /\ Nesting' /\ Ranked'
  <2> HIDE DEF f
  <2> QED BY <1>1, <1>2, <1>3, <1>4, <1>5, <1>6, Pushed
<1>8. \A t \in Threads : stack'[t] = stack[t]
  BY <1>1 DEF ThreadsInv, Frames, Actors
<1>9. \A t \in Threads : Running(t)' = Running(t) /\ At(t, "log")' = At(t, "log")
  BY <1>8 DEF Running, At, Top
<1>10. gil # None => gil \in Threads
  BY DEF ThreadsInv, Interpreter
<1>11. Interpreter'
  BY <1>1, <1>5, <1>9, <1>10 DEF ThreadsInv, Interpreter
<1> QED BY <1>7, <1>11 DEF ThreadsInv

(* Any body a method may have starts a safe program.                       *)
LEMMA BodyStarts ==
  ASSUME NEW method \in Methods, NEW ops \in Bodies[method.body]
  PROVE  /\ method.detached \in BOOLEAN
         /\ Starts(ops, IF method.detached THEN "detached" ELSE "held")
<1>1. MethodOk(method)
  BY MethodsOk
<1>2. CASE method.detached
  <2>1. method.body \in DOMAIN Bodies \ {"adds"}
    BY <1>1, <1>2 DEF MethodOk
  <2> QED BY <1>1, <1>2, <2>1, BodyNames, SimpleBodies, PoolBodies DEF MethodOk
<1>3. CASE ~method.detached
  <2>1. method.body \in HeldBodies
    BY <1>1, <1>3 DEF MethodOk
  <2>2. CASE method.body = "adds"
    BY <1>1, <1>3, <2>2, AddsStarts DEF MethodOk, Bodies
  <2> QED BY <1>1, <1>3, <2>1, <2>2, SimpleBodies DEF MethodOk, HeldBodies
<1> QED BY <1>2, <1>3

LEMMA CallStep ==
  ASSUME ThreadsInv, NEW t \in Threads, NEW method \in Called, NEW pick, Call(t, method, pick)
  PROVE  ThreadsInv'
<1>0. method \in Methods
  BY ThreadsAssumption
<1>1. CASE method.body = "plain"
  <2>1. UNCHANGED <<gil, call, stack, jobs, version>>
    BY <1>1 DEF Call
  <2> QED BY <2>1
        DEF ThreadsInv, Frames, Versions, Nesting, Interpreter, Ranked, RankedBy, Mode, NeedsGil,
            Running, At, Top
<1>2. CASE method.body # "plain"
  <2> DEFINE mine == Borrows(method, pick)
             entered == [method EXCEPT !.borrows = {b \in mine : b.mode # "copied"}]
  <2>1. /\ gil = None /\ ~Running(t) /\ gil' = IF method.detached THEN None ELSE t
        /\ call' = [call EXCEPT ![t] = entered] /\ UNCHANGED <<jobs, version>>
    BY <1>2 DEF Call
  <2>2. PICK ops \in Bodies[method.body] : stack' = [stack EXCEPT ![t] = <<Frame(ops, None, 0)>>]
    BY <1>2 DEF Call
  <2> DEFINE f == Frame(ops, None, 0)
  <2>3. entered.detached = method.detached /\ method.detached \in BOOLEAN
    <3>1. method = [borrows |-> method.borrows, body |-> method.body,
                    detached |-> method.detached]
      BY <1>0, MethodsOk DEF MethodOk
    <3> HIDE DEF mine
    <3> QED BY <1>0, <3>1, MethodsOk DEF MethodOk
  <2> HIDE DEF entered
  <2>4. t \in Actors /\ t \notin Workers /\ t # None /\ stack[t] = <<>>
    BY <2>1, ThreadsAssumption DEF Actors, Running
  <2>5. DOMAIN stack = Actors /\ DOMAIN call = Threads
    BY DEF ThreadsInv, Frames, Interpreter
  <2>6. /\ stack' = [stack EXCEPT ![t] = Append(@, f)] /\ stack'[t] = <<f>>
        /\ \A b \in Actors : b # t => stack'[b] = stack[b]
    BY <2>2, <2>4, <2>5
  <2>7. /\ DOMAIN call' = Threads /\ call'[t].detached = method.detached
        /\ \A b : b # t => call'[b] = call[b]
    BY <2>1, <2>3, <2>5
  <2>8. /\ NeedsGil(t)' = ~method.detached
        /\ Mode(t)' = IF method.detached THEN "detached" ELSE "held"
    BY <2>3, <2>7 DEF Mode, NeedsGil
  <2>9. \A b \in Actors : b # t => Mode(b)' = Mode(b) /\ NeedsGil(b)' = NeedsGil(b)
    BY <2>7 DEF Mode, NeedsGil
  <2>10. FrameOk(f, Mode(t)') /\ f.guards = <<>>
    <3>1. Starts(ops, IF method.detached THEN "detached" ELSE "held")
      BY <1>0, BodyStarts
    <3>2. PICK mode : mode = Mode(t)'
      OBVIOUS
    <3>3. Safe(ops, <<>>, {}, mode)
      BY <2>8, <3>1, <3>2 DEF Starts
    <3>4. FrameOk(Frame(ops, None, 0), mode) /\ Frame(ops, None, 0).guards = <<>>
      BY <3>3, FrameShape
    <3> QED BY <3>2, <3>4
  <2>11. Running(t)'
    <3> HIDE DEF f
    <3>1. <<f>> # <<>>
      OBVIOUS
    <3>2. stack'[t] # <<>>
      BY <2>6, <3>1
    <3> QED BY <3>2 DEF Running
  <2>12. Frames' /\ Versions' /\ Nesting' /\ Ranked'
    <3> HIDE DEF f
    <3> QED BY <2>1, <2>4, <2>6, <2>9, <2>10, Pushed
  <2>13. ASSUME NEW u \in Threads, Running(u)', NeedsGil(u)', gil' # u PROVE At(u, "log")'
    <3>1. u # t /\ u \in Actors
      BY <2>1, <2>8, <2>13 DEF Actors
    <3>2. Running(u) /\ NeedsGil(u) /\ stack'[u] = stack[u] /\ gil # u
      BY <2>1, <2>6, <2>9, <2>13, <3>1, ThreadsAssumption DEF Running
    <3>3. At(u, "log")
      BY <3>2 DEF ThreadsInv, Interpreter
    <3> QED BY <3>2, <3>3 DEF At, Running, Top
  <2>14. Interpreter'
    BY <2>1, <2>3, <2>7, <2>8, <2>11, <2>13 DEF Interpreter
  <2> QED BY <2>12, <2>14 DEF ThreadsInv
<1> QED BY <1>1, <1>2

LEMMA StutterStep == ThreadsInv /\ UNCHANGED vars => ThreadsInv'
BY DEF vars, ThreadsInv, Frames, Versions, Nesting, Interpreter, Ranked, RankedBy, Mode, NeedsGil,
       Running, At, Top

LEMMA ThreadsNext == ThreadsInv /\ [Next]_vars => ThreadsInv'
<1> SUFFICES ASSUME ThreadsInv, [Next]_vars PROVE ThreadsInv'
  OBVIOUS
<1> USE DEF Next, Step
<1>1. ASSUME NEW t \in Threads,
             Return(t) \/ SwitchBack(t) \/ AddState(t) \/ WaitForReaders(t) \/ SwitchAtLog(t)
      PROVE  ThreadsInv'
  BY <1>1, ReturnStep, SwitchBackStep, AddStep, WaitStep, SwitchAtLogStep
<1>2. ASSUME NEW a \in Actors,
             \/ LogRecord(a) \/ ReadGuard(a) \/ PeekStates(a) \/ DropGuards(a)
             \/ TakeSaalLock(a) \/ ReleaseSaalLock(a) \/ TakePath(a) \/ ForkItems(a) \/ JoinItems(a)
      PROVE  ThreadsInv'
  BY <1>2, LogStep, ReadStep, PeekStep, DropStep, LockStep, UnlockStep, PathStep, ForkStep,
     JoinStep
<1>3. ASSUME NEW w \in Workers, ItemDone(w) \/ \E j \in jobs : TakeItem(w, j)
      PROVE  ThreadsInv'
  BY <1>3, DoneStep, TakeStep
<1>4. ASSUME NEW t \in Threads, NEW m \in Called, NEW pick, Call(t, m, pick) PROVE ThreadsInv'
  BY <1>4, CallStep
<1> QED BY <1>1, <1>2, <1>3, <1>4, StutterStep

(* The invariant holds in every state of every run.                        *)
THEOREM ThreadsInvariant == Spec => []ThreadsInv
BY ThreadsInit, ThreadsNext, PTL DEF Spec

(* A search sees one version of each of its ephemerides from its first     *)
(* step to its last: whatever it opens again it has a guard of, and no     *)
(* state is added to an ephemeris while somebody has one.                  *)
THEOREM SearchesSeeOneVersion == Spec => []SearchSeesOneVersion
<1>1. ThreadsInv => SearchSeesOneVersion
  <2> SUFFICES ASSUME ThreadsInv, NEW a \in Actors, NEW i \in DOMAIN stack[a],
                      NEW s \in stack[a][i].seen, NEW r \in stack[a][i].seen, s[1] = r[1]
               PROVE  s[2] = r[2]
    BY DEF SearchSeesOneVersion
  <2>1. IsSeq(stack[a])
    BY DEF ThreadsInv, Frames
  <2>2. FrameOk(stack[a][i], Mode(a))
    BY <2>1, SeqShape DEF ThreadsInv, Frames
  <2> QED BY <2>2 DEF FrameOk
<1> QED BY <1>1, ThreadsInvariant, PTL
-----------------------------------------------------------------------------
(* Who waits for whom.                                                     *)

LEMMA TopIndex ==
  ASSUME ThreadsInv, NEW a \in Actors
  PROVE  /\ IsSeq(stack[a]) /\ Len(stack[a]) \in Nat /\ DOMAIN stack[a] = 1..Len(stack[a])
         /\ Running(a) <=> Len(stack[a]) > 0
         /\ Top(a) = stack[a][Len(stack[a])]
<1>1. IsSeq(stack[a])
  BY DEF ThreadsInv, Frames
<1> QED BY <1>1, SeqShape DEF Running, Top, Last

(* What a program that is not at its end does next.                        *)
LEMMA NextIs ==
  ASSUME ThreadsInv, NEW a \in Actors, Running(a), ~AtEnd(a)
  PROVE  /\ At(a, Op(a).op)
         /\ Op(a).op \in {"log", "peek", "read", "drop", "write", "waiting", "lock", "unlock",
                          "either", "fork", "join"}
         /\ Op(a).op \in {"write", "waiting"} =>
              /\ a \in Threads /\ NeedsGil(a) /\ Top(a).guards = <<>>
              /\ Op(a).on \in Ephemerides
         /\ Op(a).op \in {"lock", "fork", "join"} => ~NeedsGil(a) /\ Top(a).guards = <<>>
         /\ Op(a).op = "either" => Op(a).paths # {}
<1>1. At(a, Op(a).op)
  BY DEF At, AtEnd, Op
<1>2. /\ Top(a).ops # <<>> /\ Op(a) = Head(Top(a).ops)
      /\ Safe(Top(a).ops, Top(a).guards, Opened(Top(a)), Mode(a))
  BY <1>1, NextOfTop
<1>3. /\ Mode(a) = "held" => a \in Threads /\ NeedsGil(a)
      /\ Mode(a) = "detached" => ~NeedsGil(a)
  BY DEF Mode, NeedsGil
<1> QED BY <1>1, <1>2, <1>3, SafeNext

LEMMA OneOp ==
  ASSUME NEW a, NEW op, At(a, op) PROVE Op(a).op = op /\ Running(a) /\ ~AtEnd(a)
BY DEF At, AtEnd, Op

(* What a program waits for that may run and cannot go on.                 *)
LEMMA Waits ==
  ASSUME ThreadsInv, ~SomebodyGoesOn, NEW a \in Actors, Running(a), ~AtEnd(a), MayRun(a)
  PROVE  \/ At(a, "log") /\ ~Logs(a)
         \/ (At(a, "read") \/ At(a, "peek")) /\ ~Readable(Op(a).on)
         \/ At(a, "waiting") /\ a \in Threads /\ ~Writable(Op(a).on)
         \/ At(a, "lock") /\ SaalLocked
         \/ At(a, "join") /\ Pending(a)
<1>1. ~CanGoOn(a) /\ (a \in Threads => ~ThreadCanGoOn(a))
  BY DEF SomebodyGoesOn
<1>2. \A op : At(a, op) => Ready(a, op)
  BY DEF Ready
<1>3. /\ At(a, Op(a).op)
      /\ Op(a).op \in {"log", "peek", "read", "drop", "write", "waiting", "lock", "unlock",
                       "either", "fork", "join"}
      /\ Op(a).op \in {"write", "waiting"} => a \in Threads
      /\ Op(a).op = "either" => Op(a).paths # {}
  BY NextIs
<1> QED BY <1>1, <1>2, <1>3 DEF CanGoOn, ThreadCanGoOn

(* A thread that waits to add a state has the interpreter.                 *)
LEMMA WriterHasGil ==
  ASSUME ThreadsInv, NEW t \in Threads, NEW e, WaitsToWrite(t, e) PROVE gil = t /\ NeedsGil(t)
<1>1. At(t, "waiting") /\ t \in Actors
  BY DEF WaitsToWrite, Actors
<1>2. Op(t).op = "waiting" /\ Running(t) /\ ~AtEnd(t)
  BY <1>1, OneOp
<1>3. NeedsGil(t)
  BY <1>1, <1>2, NextIs
<1>4. ~At(t, "log")
  BY <1>2, OneOp
<1> QED BY <1>2, <1>3, <1>4 DEF ThreadsInv, Interpreter

(* A guard is in the frame on top, which is not at its end and neither     *)
(* waits for items nor for another lock that is not a reader's.            *)
LEMMA GuardOnTop ==
  ASSUME ThreadsInv, NEW a \in Actors, NEW i \in 1..Len(stack[a]), stack[a][i].guards # <<>>
  PROVE  /\ Running(a) /\ ~AtEnd(a) /\ stack[a][i] = Top(a)
         /\ Op(a).op \notin {"write", "waiting", "lock", "fork", "join"}
<1>1. /\ Len(stack[a]) \in Nat /\ Running(a) <=> Len(stack[a]) > 0
      /\ Top(a) = stack[a][Len(stack[a])]
  BY TopIndex
<1>2. Running(a)
  BY <1>1
<1>3. Safe(stack[a][i].ops, stack[a][i].guards, Opened(stack[a][i]), Mode(a))
  BY DEF ThreadsInv, Frames, FrameOk
<1>4. ~AtJoin(stack[a][i])
  <2> SUFFICES ASSUME AtJoin(stack[a][i]) PROVE FALSE
    OBVIOUS
  <2>1. PICK ops, guards, opened, mode :
          /\ ops = stack[a][i].ops /\ guards = stack[a][i].guards
          /\ opened = Opened(stack[a][i]) /\ mode = Mode(a)
    OBVIOUS
  <2>2. Safe(ops, guards, opened, mode) /\ ops # <<>> /\ Head(ops).op = "join"
    BY <1>3, <2>1 DEF AtJoin
  <2>3. guards = <<>>
    BY <2>2, SafeNext
  <2> QED BY <2>1, <2>3
<1>5. i = Len(stack[a])
  BY <1>1, <1>4 DEF ThreadsInv, Nesting
<1>6. stack[a][i] = Top(a)
  BY <1>1, <1>5
<1>7. ~AtEnd(a)
  BY <1>3, <1>6, SafeShape DEF AtEnd
<1> QED BY <1>2, <1>6, <1>7, NextIs

(* A thread has the interpreter.                                           *)
LEMMA HangsWithGil ==
  ASSUME ThreadsInv, ~SomebodyGoesOn, gil # None
  PROVE  \E t \in Threads, a \in Actors, e \in Ephemerides :
           /\ WaitsToWrite(t, e) /\ gil = t
           /\ Guarded(a, e)
           /\ \/ At(a, "log")
              \/ (At(a, "read") \/ At(a, "peek")) /\ Op(a).on = e
<1>1. PICK t \in Threads : gil = t /\ Running(t) /\ NeedsGil(t) /\ t \in Actors
  BY DEF ThreadsInv, Interpreter, Actors
<1>2. MayRun(t) /\ ~call[t].detached
  BY <1>1 DEF MayRun, NeedsGil
<1>3. ~AtEnd(t) /\ ~(At(t, "log") /\ ~Logs(t))
  BY <1>1, <1>2 DEF SomebodyGoesOn, ThreadCanGoOn, CanGoOn, Returns, Logs
<1>4. \A e : \A u \in Threads : WaitsToWrite(u, e) => u = t
  BY <1>1, WriterHasGil
<1>5. ~((At(t, "read") \/ At(t, "peek")) /\ ~Readable(Op(t).on))
  <2>1. At(t, "waiting") => ~At(t, "read") /\ ~At(t, "peek")
    BY OneOp
  <2> QED BY <1>4, <2>1 DEF Readable, WaitsToWrite
<1>6. ~At(t, "lock") /\ ~At(t, "join")
  BY <1>1, OneOp, NextIs
<1>7. At(t, "waiting") /\ ~Writable(Op(t).on)
  BY <1>1, <1>2, <1>3, <1>5, <1>6, Waits
<1>8. PICK e \in Ephemerides : e = Op(t).on
  BY <1>1, <1>7, OneOp, NextIs
<1>9. WaitsToWrite(t, e)
  BY <1>7, <1>8 DEF WaitsToWrite
<1>10. PICK a \in Actors : Guarded(a, e)
  BY <1>7, <1>8 DEF Writable
<1>11. Running(a) /\ ~AtEnd(a) /\ Op(a).op \notin {"write", "waiting", "lock", "fork", "join"}
  <2>1. PICK i \in DOMAIN stack[a] : \E j \in DOMAIN stack[a][i].guards : stack[a][i].guards[j] = e
    BY <1>10 DEF Guarded
  <2>2. i \in 1..Len(stack[a]) /\ stack[a][i].guards # <<>>
    BY <2>1, TopIndex
  <2> QED BY <2>2, GuardOnTop
<1>12. CASE ~MayRun(a)
  <2>1. a \in Threads /\ NeedsGil(a) /\ gil # a
    BY <1>12 DEF MayRun, NeedsGil
  <2>2. At(a, "log")
    BY <1>11, <2>1 DEF ThreadsInv, Interpreter
  <2> QED BY <1>1, <1>9, <1>10, <2>2
<1>13. CASE MayRun(a)
  <2>1. \/ At(a, "log")
        \/ (At(a, "read") \/ At(a, "peek")) /\ ~Readable(Op(a).on)
    BY <1>11, <1>13, Waits, OneOp
  <2>2. ASSUME ~Readable(Op(a).on) PROVE Op(a).on = e
    <3>1. PICK u \in Threads : WaitsToWrite(u, Op(a).on)
      BY <2>2 DEF Readable
    <3>2. u = t
      BY <1>1, <1>4, <3>1
    <3> QED BY <1>8, <3>1, <3>2 DEF WaitsToWrite
  <2> QED BY <1>1, <1>9, <1>10, <2>1, <2>2
<1> QED BY <1>12, <1>13

(* No thread has the interpreter: then nobody hangs.                       *)
LEMMA NobodyHangs ==
  ASSUME ThreadsInv, ~SomebodyGoesOn, gil = None
  PROVE  \A a \in Actors : ~Running(a)
<1> SUFFICES ASSUME NEW z \in Actors, Running(z) PROVE FALSE
  OBVIOUS
<1>1. \A a \in Actors : Running(a) => ~NeedsGil(a)
  BY DEF SomebodyGoesOn, ThreadCanGoOn, WantsGil, NeedsGil
<1>2. \A a \in Actors : Running(a) => MayRun(a) /\ ~AtEnd(a) /\ (At(a, "log") => Logs(a))
  <2> SUFFICES ASSUME NEW a \in Actors, Running(a)
               PROVE  MayRun(a) /\ ~AtEnd(a) /\ (At(a, "log") => Logs(a))
    OBVIOUS
  <2>1. ~NeedsGil(a)
    BY <1>1
  <2>2. CASE a \in Threads
    BY <2>1, <2>2 DEF MayRun, Logs, NeedsGil, SomebodyGoesOn, ThreadCanGoOn, Returns
  <2>3. CASE a \in Workers
    BY <2>1, <2>3 DEF MayRun, Logs, NeedsGil, SomebodyGoesOn, WorkerCanGoOn
  <2> QED BY <2>2, <2>3 DEF Actors
<1>3. \A e : Readable(e)
  <2> SUFFICES ASSUME NEW t \in Threads, NEW e, WaitsToWrite(t, e) PROVE FALSE
    BY DEF Readable
  <2>1. gil = t
    BY WriterHasGil
  <2> QED BY <2>1, ThreadsAssumption
<1>4. \A a \in Actors : Running(a) =>
        \/ At(a, "lock") /\ SaalLocked
        \/ At(a, "join") /\ Pending(a)
  <2> SUFFICES ASSUME NEW a \in Actors, Running(a)
               PROVE  (At(a, "lock") /\ SaalLocked) \/ (At(a, "join") /\ Pending(a))
    OBVIOUS
  <2>1. ~At(a, "waiting")
    <3>1. At(a, "waiting") => NeedsGil(a)
      BY <1>2, OneOp, NextIs
    <3> QED BY <1>1, <3>1
  <2> QED BY <1>2, <1>3, <2>1, Waits
<1>5. ~SaalLocked
  <2> SUFFICES ASSUME SaalLocked PROVE FALSE
    OBVIOUS
  <2>1. PICK a \in Actors : \E i \in DOMAIN stack[a] : \E o \in ToSet(stack[a][i].guards) : o = None
    BY DEF SaalLocked
  <2>2. PICK i \in DOMAIN stack[a] : ToSet(stack[a][i].guards) # {}
    BY <2>1
  <2>3. i \in 1..Len(stack[a])
    BY <2>2, TopIndex
  <2>4. stack[a][i].guards # <<>>
    BY <2>2 DEF ToSet
  <2>5. Running(a) /\ Op(a).op \notin {"lock", "join"}
    BY <2>3, <2>4, GuardOnTop
  <2> QED BY <1>4, <2>5, OneOp
<1>6. \A a \in Actors : Running(a) => At(a, "join") /\ Pending(a)
  BY <1>4, <1>5
<1>7. jobs = {}
  <2>1. PICK w \in Workers : TRUE
    BY ThreadsAssumption
  <2>2. Free(w)
    BY <1>6 DEF Free, Actors
  <2> QED BY <2>2 DEF SomebodyGoesOn, WorkerCanGoOn
<1>8. PICK rank, bound : RankedBy(rank, bound)
  BY DEF ThreadsInv, Ranked
<1>9. /\ rank \in [Actors \X Nat -> Nat] /\ bound \in Nat
      /\ \A f \in Actors \X Nat : rank[f] < bound
      /\ \A a \in Actors : \A i \in 1..Len(stack[a]), k \in 1..Len(stack[a]) :
           i < k => rank[<<a, i>>] < rank[<<a, k>>]
      /\ \A w \in Workers : \A i \in 1..Len(stack[w]) :
           rank[<<stack[w][i].owner, stack[w][i].depth>>] < rank[<<w, i>>]
  BY <1>8 DEF RankedBy
<1> DEFINE Highest(a) == rank[<<a, Len(stack[a])>>]
           Left == {k \in Nat : \E a \in Actors : Running(a) /\ k = bound - Highest(a)}
<1>10. \A a \in Actors : Highest(a) \in Nat /\ bound - Highest(a) \in Nat
  <2> SUFFICES ASSUME NEW a \in Actors PROVE Highest(a) \in Nat /\ bound - Highest(a) \in Nat
    OBVIOUS
  <2>1. <<a, Len(stack[a])>> \in Actors \X Nat
    BY TopIndex
  <2>2. Highest(a) \in Nat /\ Highest(a) < bound
    BY <1>9, <2>1
  <2> QED BY <1>9, <2>2
<1> HIDE DEF Highest
<1>11. PICK m \in Left : \A k \in Left : ~ (<<k, m>> \in OpToRel(<, Nat))
  <2>1. bound - Highest(z) \in Left
    BY <1>10
  <2>2. Left \subseteq Nat
    OBVIOUS
  <2> HIDE DEF Left
  <2> QED BY <2>1, <2>2, NatLessThanWellFounded, WFMin
<1>12. PICK a \in Actors : Running(a) /\ m = bound - Highest(a)
  BY <1>11
<1>13. PICK w \in Workers : \E i \in DOMAIN stack[w] :
         stack[w][i].owner = a /\ stack[w][i].depth = Len(stack[a])
  BY <1>6, <1>7, <1>12 DEF Pending
<1>14. PICK i \in 1..Len(stack[w]) : stack[w][i].owner = a /\ stack[w][i].depth = Len(stack[a])
  BY <1>13, TopIndex DEF Actors
<1>15. w \in Actors /\ Running(w) /\ Len(stack[w]) \in 1..Len(stack[w])
  BY <1>14, TopIndex DEF Actors
<1>16. Highest(a) < rank[<<w, i>>]
  BY <1>9, <1>14 DEF Highest
<1>17. rank[<<w, i>>] <= Highest(w) /\ rank[<<w, i>>] \in Nat
  <2>1. <<w, i>> \in Actors \X Nat
    BY <1>15
  <2>2. rank[<<w, i>>] \in Nat
    BY <1>9, <2>1
  <2>3. CASE i = Len(stack[w])
    BY <2>2, <2>3 DEF Highest
  <2>4. CASE i < Len(stack[w])
    BY <1>9, <1>10, <1>15, <2>2, <2>4 DEF Highest
  <2>5. i = Len(stack[w]) \/ i < Len(stack[w])
    BY <1>15
  <2> QED BY <2>2, <2>3, <2>4, <2>5
<1>18. Highest(a) < Highest(w)
  BY <1>10, <1>12, <1>15, <1>16, <1>17
<1>19. bound - Highest(w) \in Left /\ bound - Highest(w) < m
  BY <1>9, <1>10, <1>12, <1>15, <1>18
<1>20. m \in Nat
  OBVIOUS
<1> HIDE DEF Left
<1> QED BY <1>10, <1>11, <1>15, <1>19, <1>20 DEF OpToRel

(* The methods of the bindings, called by any threads on any objects in    *)
(* any order, wait for each other in a circle only if one of them adds a   *)
(* state to an ephemeris that a search has open.                           *)
THEOREM HangsOnlyForWriter == Spec => []HangsOnlyOnWriter
<1>1. ThreadsInv => HangsOnlyOnWriter
  <2> SUFFICES ASSUME ThreadsInv, Hangs
               PROVE  \E t \in Threads, a \in Actors, e \in Ephemerides :
                        /\ WaitsToWrite(t, e) /\ gil = t
                        /\ Guarded(a, e)
                        /\ \/ At(a, "log")
                           \/ (At(a, "read") \/ At(a, "peek")) /\ Op(a).on = e
    BY DEF HangsOnlyOnWriter
  <2>1. ~SomebodyGoesOn /\ \E a \in Actors : Running(a)
    BY DEF Hangs
  <2> QED BY <2>1, HangsWithGil, NobodyHangs
<1> QED BY <1>1, ThreadsInvariant, PTL
=============================================================================
