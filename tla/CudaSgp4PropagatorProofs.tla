---------------------- MODULE CudaSgp4PropagatorProofs ----------------------
(***************************************************************************)
(* The copies of the parameters agree, the launches keep inside the        *)
(* buffers, and every answer is the one StateTable promises, for any       *)
(* lists of satellites and dates, any overrides and any failures.          *)
(***************************************************************************)
EXTENDS CudaSgp4Propagator, Integers, TLAPS

LEMMA InList ==
  ASSUME NEW T, NEW list \in Seq(T), NEW i \in 1..Len(list)
  PROVE  list[i] \in T
  OBVIOUS

LEMMA OnlyMember == \A x : (CHOOSE w \in {x} : TRUE) = x
<1> SUFFICES ASSUME NEW x PROVE (CHOOSE w \in {x} : TRUE) = x
  OBVIOUS
<1>1. \E w : w \in {x}
  OBVIOUS
<1> QED BY <1>1

(* A buffer made of a value for each index.                                *)
LEMMA Filled ==
  ASSUME NEW T, NEW size \in Nat, NEW f \in [1..size -> T]
  PROVE  f \in Seq(T) /\ Len(f) = size
  OBVIOUS

-----------------------------------------------------------------------------
(* Positions in a table of rows of the same length.                        *)
LEMMA Division ==
  ASSUME NEW n \in Nat \ {0}, NEW i \in Nat, NEW r \in 0..(n - 1)
  PROVE  (i * n + r) \div n = i /\ ((i * n + r) % n) = r
<1> DEFINE a == i * n + r
           q == a \div n
<1>1. i * n \in Nat /\ a \in Nat
  OBVIOUS
<1>2. q \in Int /\ a = (n * q) + (a % n) /\ (a % n) \in 0..(n - 1)
  BY <1>1
<1>3. q = i
  <2>1. n * (q - i) = r - (a % n)
    BY <1>2
  <2>2. CASE q - i >= 1
    <3>1. n * (q - i) >= n
      BY <2>2, <1>2
    <3> QED BY <3>1, <2>1, <1>2
  <2>3. CASE q - i <= -1
    <3>1. n * (q - i) <= -n
      BY <2>3, <1>2
    <3> QED BY <3>1, <2>1, <1>2
  <2> QED BY <2>2, <2>3, <1>2
<1> QED BY <1>2, <1>3

LEMMA Row ==
  ASSUME NEW m \in Nat, NEW n \in Nat, NEW i \in 1..m, NEW t \in 1..n
  PROVE  /\ Promise!SatMajor(i, t, n) \in 1..(m * n)
         /\ ((Promise!SatMajor(i, t, n) - 1) \div n) + 1 = i
         /\ ((Promise!SatMajor(i, t, n) - 1) % n) + 1 = t
<1> DEFINE k == Promise!SatMajor(i, t, n)
<1>1. k - 1 = (i - 1) * n + (t - 1)
  BY DEF Promise!SatMajor
<1>2. /\ i - 1 \in Nat /\ t - 1 \in 0..(n - 1) /\ m - i \in Nat
      /\ n \in Nat \ {0}
  OBVIOUS
<1>3. (i - 1) * n + n <= m * n /\ (i - 1) * n >= 0
  <2>1. (i - 1) * n \in Nat /\ (m - i) * n \in Nat
    BY <1>2
  <2>2. m * n = (i - 1) * n + n + (m - i) * n
    OBVIOUS
  <2> QED BY <2>1, <2>2
<1>4. k \in 1..(m * n)
  BY <1>3 DEF Promise!SatMajor
<1>5. \A row \in Nat, r \in 0..(n - 1) :
        (row * n + r) \div n = row /\ ((row * n + r) % n) = r
  BY <1>2, Division
<1>6. /\ ((i - 1) * n + (t - 1)) \div n = i - 1
      /\ (((i - 1) * n + (t - 1)) % n) = t - 1
  BY <1>2, <1>5
<1>7. (k - 1) \div n = i - 1 /\ ((k - 1) % n) = t - 1
  BY <1>1, <1>6
<1> HIDE DEF k
<1> QED BY <1>4, <1>7 DEF k

(* Two threads never write one place, in either order.                     *)
LEMMA RowsApart ==
  ASSUME NEW m \in Nat, NEW n \in Nat,
         NEW i \in 1..m, NEW t \in 1..n, NEW j \in 1..m, NEW u \in 1..n,
         Promise!SatMajor(i, t, n) = Promise!SatMajor(j, u, n)
  PROVE  i = j /\ t = u
  BY Row

LEMMA Column ==
  ASSUME NEW m \in Nat, NEW n \in Nat, NEW i \in 1..m, NEW t \in 1..n
  PROVE  Promise!TimeMajor(i, t, m) \in 1..(m * n)
<1>1. Promise!TimeMajor(i, t, m) = Promise!SatMajor(t, i, m)
  BY DEF Promise!TimeMajor, Promise!SatMajor
<1>2. Promise!SatMajor(t, i, m) \in 1..(n * m)
  BY Row
<1>3. n * m = m * n
  OBVIOUS
<1> QED BY <1>1, <1>2, <1>3

LEMMA ColumnsApart ==
  ASSUME NEW m \in Nat, NEW n \in Nat,
         NEW i \in 1..m, NEW t \in 1..n, NEW j \in 1..m, NEW u \in 1..n,
         Promise!TimeMajor(i, t, m) = Promise!TimeMajor(j, u, m)
  PROVE  i = j /\ t = u
<1>1. Promise!SatMajor(t, i, m) = Promise!SatMajor(u, j, m)
  BY DEF Promise!TimeMajor, Promise!SatMajor
<1> QED BY <1>1, RowsApart

-----------------------------------------------------------------------------
(* What a launch leaves in its buffer.                                     *)
LEMMA PropagatedTypes ==
  ASSUME NEW old \in Sgp4StateGpu, NEW params \in Sgp4ParamsGpu, NEW time \in Times, NEW layout
  PROVE  Propagated(old, params, time, layout) \in Sgp4StateGpu
<1>1. State(params, time) \in States
  BY DEF State, Sgp4ParamsGpu, States, Models, Promise!ModelOf
<1>2. old.state \in States \cup {NoState}
  BY DEF Sgp4StateGpu
<1> QED BY <1>1, <1>2 DEF Propagated, Sgp4StateGpu

LEMMA ZeroesType == Zeroes \in Sgp4StateGpu
<1> QED BY DEF Zeroes, Sgp4StateGpu

LEMMA KernelTypes ==
  ASSUME NEW buffer \in Seq(Sgp4StateGpu), NEW params \in Seq(Sgp4ParamsGpu),
         NEW jd \in Seq(Times), NEW slots, NEW Rows, NEW layout,
         DOMAIN slots \subseteq Rows \X (1..Len(jd))
  PROVE  Kernel(buffer, params, jd, slots, layout) \in [1..Len(buffer) -> Sgp4StateGpu]
<1> DEFINE writers(k) == {thread \in DOMAIN slots : slots[thread] = k}
           w(k) == CHOOSE thread \in writers(k) : TRUE
           cell(k) == IF writers(k) = {} THEN buffer[k]
                      ELSE IF writers(k) = {w(k)} /\ w(k)[1] \in DOMAIN params
                             THEN Propagated(buffer[k], params[w(k)[1]], jd[w(k)[2]], layout)
                             ELSE Zeroes
<1>1. ASSUME NEW k \in 1..Len(buffer) PROVE cell(k) \in Sgp4StateGpu
  <2>0. buffer[k] \in Sgp4StateGpu
    BY InList
  <2>1. CASE writers(k) = {}
    BY <2>0, <2>1
  <2>2. CASE writers(k) = {w(k)} /\ w(k)[1] \in DOMAIN params
    <3> HIDE DEF w
    <3>1. w(k) \in Rows \X (1..Len(jd))
      BY <2>2
    <3>2. params[w(k)[1]] \in Sgp4ParamsGpu /\ jd[w(k)[2]] \in Times
      BY <2>2, <3>1
    <3> HIDE DEF writers
    <3>3. cell(k) = Propagated(buffer[k], params[w(k)[1]], jd[w(k)[2]], layout)
      BY <2>2
    <3> HIDE DEF cell
    <3> QED BY <2>0, <3>2, <3>3, PropagatedTypes
  <2>3. CASE writers(k) # {} /\ ~(writers(k) = {w(k)} /\ w(k)[1] \in DOMAIN params)
    <3> HIDE DEF w, writers
    <3> QED BY <2>3, ZeroesType
  <2> QED BY <2>1, <2>2, <2>3
<1>2. Kernel(buffer, params, jd, slots, layout) = [k \in 1..Len(buffer) |-> cell(k)]
  BY DEF Kernel
<1> HIDE DEF cell
<1> QED BY <1>1, <1>2

LEMMA KernelWrites ==
  ASSUME NEW buffer, NEW params, NEW jd, NEW slots, NEW layout,
         LaunchInBounds(buffer, params, slots), NEW thread \in DOMAIN slots
  PROVE  Kernel(buffer, params, jd, slots, layout)[slots[thread]]
           = Propagated(buffer[slots[thread]], params[thread[1]], jd[thread[2]], layout)
<1> DEFINE k == slots[thread]
           writers == {w \in DOMAIN slots : slots[w] = k}
           w0 == CHOOSE w \in writers : TRUE
<1>1. writers = {thread} /\ k \in DOMAIN buffer /\ thread[1] \in DOMAIN params
  BY DEF LaunchInBounds
<1>2. w0 = thread
  BY <1>1, OnlyMember
<1>3. Kernel(buffer, params, jd, slots, layout)[k] =
        IF writers = {} THEN buffer[k]
        ELSE IF writers = {w0} /\ w0[1] \in DOMAIN params
               THEN Propagated(buffer[k], params[w0[1]], jd[w0[2]], layout)
               ELSE Zeroes
  BY <1>1 DEF Kernel
<1> HIDE DEF writers, w0, k
<1>4. Kernel(buffer, params, jd, slots, layout)[k]
        = Propagated(buffer[k], params[thread[1]], jd[thread[2]], layout)
  BY <1>1, <1>2, <1>3
<1> QED BY <1>4 DEF k

LEMMA KernelKeeps ==
  ASSUME NEW buffer, NEW params, NEW jd, NEW slots, NEW layout,
         NEW k \in DOMAIN buffer, \A thread \in DOMAIN slots : slots[thread] # k
  PROVE  Kernel(buffer, params, jd, slots, layout)[k] = buffer[k]
<1> DEFINE writers == {w \in DOMAIN slots : slots[w] = k}
           rest == LET thread == CHOOSE w \in writers : TRUE
                   IN  IF writers = {thread} /\ thread[1] \in DOMAIN params
                         THEN Propagated(buffer[k], params[thread[1]], jd[thread[2]], layout)
                         ELSE Zeroes
<1>1. writers = {}
  OBVIOUS
<1>2. Kernel(buffer, params, jd, slots, layout)[k] = IF writers = {} THEN buffer[k] ELSE rest
  BY DEF Kernel
<1> HIDE DEF rest
<1> QED BY <1>1, <1>2

-----------------------------------------------------------------------------
(* The inductive invariant. A load divides the positions of its list       *)
(* between the two models, in lists that name each position once.          *)
Chosen(ts, m) == {i \in DOMAIN ts : UsesSgp4(ts[i], mode) <=> m = "SGP4"}

Lists(list, chosen) ==
  /\ list \in Seq(chosen)
  /\ \A p, q \in DOMAIN list : list[p] = list[q] => p = q
  /\ \A i \in chosen : \E p \in DOMAIN list : list[p] = i

Divided(ts) == \A m \in Models : Lists(partition[m].indices, Chosen(ts, m))

(* What a copy holds once it is loaded with ts and set to force.           *)
Parameters(sat, force) == [InitKernel(sat) EXCEPT !.forced = force]

HeldByModel(m, ts, force) ==
  LET part == partition[m]
  IN  IF part.indices = <<>> THEN part.params = None /\ part.map = None
      ELSE /\ part.map = part.indices
           /\ part.params =
                [p \in DOMAIN part.indices |-> Parameters(ts[part.indices[p]], force)]

HeldByUnified(ts, force) == params_gpu = [i \in DOMAIN ts |-> Parameters(ts[i], force)]

(* During a load, the copies made so far.                                  *)
LoadInv ==
  pc \in {"load_sgp4", "load_sdp4", "load_unified"} =>
    /\ loaded = None /\ forced = FALSE
    /\ tles \in TleLists /\ n_satellites = Len(tles)
    /\ Divided(tles)
    /\ pc # "load_sgp4" => HeldByModel("SGP4", tles, FALSE)
    /\ pc = "load_unified" => HeldByModel("SDP4", tles, FALSE)

(* After a load, three copies, each set to one force, and all to the one   *)
(* of the last override that completed.                                    *)
KeptInv ==
  /\ loaded # None => loaded \in Seq(Satellites) /\ n_satellites = Len(loaded)
  /\ loaded \notin {None, <<>>} =>
       /\ Divided(loaded)
       /\ \E force \in BOOLEAN : HeldByUnified(loaded, force)
       /\ \A m \in Models : \E force \in BOOLEAN : HeldByModel(m, loaded, force)
       /\ forced # None => /\ HeldByUnified(loaded, forced)
                           /\ \A m \in Models : HeldByModel(m, loaded, forced)

(* During an override, the copies changed so far.                          *)
ForceInv ==
  pc \in {"force_unified", "force_sgp4", "force_sdp4", "force_sync"} =>
    /\ forced = None
    /\ loaded \notin {None, <<>>} =>
         /\ pc # "force_unified" => HeldByUnified(loaded, forcing)
         /\ pc \in {"force_sdp4", "force_sync"} => HeldByModel("SGP4", loaded, forcing)
         /\ pc = "force_sync" => HeldByModel("SDP4", loaded, forcing)

(* During a propagation, its arguments and the sizes of its buffers.       *)
RunAosOrSent     == pc = "run_aos" \/ (pc = "download" /\ op = "propagate")
RunSoaOrSent     == pc \in {"run_unified", "run_sgp4", "run_sdp4"} \/
                      (pc = "download" /\ op # "propagate")

RunInv ==
  pc \in {"upload", "allocate", "run_aos", "run_unified", "run_sgp4", "run_sdp4",
          "download"} =>
    /\ n_satellites # 0 /\ op \in Ops /\ times \in TimeLists
    /\ op \in UnifiedOps => params_gpu # None
    /\ pc = "run_aos" => op = "propagate"
    /\ pc = "run_unified" => op = "propagate_soa_into"
    /\ pc \in {"run_sgp4", "run_sdp4"} => op \in SoaOps
    /\ pc # "upload" => DeviceTimes \in TimeLists /\ Len(DeviceTimes) = Len(times)
    /\ RunAosOrSent => /\ cached_states_gpu \in Seq(Sgp4StateGpu)
                       /\ Len(cached_states_gpu) = n_satellites * Len(times)
    /\ RunSoaOrSent => /\ cached_soa_buffers \in Seq(Sgp4StateGpu)
                       /\ Len(cached_soa_buffers) = n_satellites * Len(times)

(* The states the launches so far have written, in either order.           *)
WrittenRows(buffer) ==
  \A i \in DOMAIN loaded, t \in 1..Len(times) :
    Promise!IsStateOf(buffer[Promise!SatMajor(i, t, Len(times))], loaded[i], DeviceTimes[t])

WrittenColumns(buffer, positions) ==
  \A i \in positions, t \in 1..Len(times) :
    Promise!IsStateOf(buffer[Promise!TimeMajor(i, t, n_satellites)], loaded[i], DeviceTimes[t])

WrittenInv ==
  loaded # None =>
    /\ pc = "run_sdp4" => WrittenColumns(cached_soa_buffers, Chosen(loaded, "SGP4"))
    /\ pc = "download" => IF op = "propagate" THEN WrittenRows(cached_states_gpu)
                          ELSE WrittenColumns(cached_soa_buffers, DOMAIN loaded)

CopiesInv == LoadInv /\ KeptInv /\ ForceInv
Inv == TypeOK /\ CopiesInv /\ RunInv /\ WrittenInv

-----------------------------------------------------------------------------
(* The values the actions put together have their types.                   *)
LEMMA IndicesAreLists ==
  ASSUME NEW ts \in Seq(Satellites), NEW override, NEW m,
         NEW list \in Indices(ts, override, m)
  PROVE  /\ list \in Seq(Nat \ {0})
         /\ Lists(list, {i \in DOMAIN ts : UsesSgp4(ts[i], override) <=> m = "SGP4"})
<1> DEFINE chosen == {i \in DOMAIN ts : UsesSgp4(ts[i], override) <=> m = "SGP4"}
<1>1. PICK k \in 0..Len(ts) : list \in [1..k -> chosen]
  BY DEF Indices
<1>2. chosen \subseteq Nat \ {0}
  OBVIOUS
<1>3. /\ \A p, q \in DOMAIN list : p < q => list[p] < list[q]
      /\ \A i \in chosen : \E p \in DOMAIN list : list[p] = i
  BY DEF Indices
<1> HIDE DEF chosen
<1>4. list \in Seq(chosen) /\ list \in Seq(Nat \ {0})
  <2>1. k \in Nat
    BY <1>1
  <2>2. list \in [1..k -> chosen]
    BY <1>1
  <2>3. list \in [1..k -> Nat \ {0}]
    BY <2>2, <1>2
  <2> QED BY <2>1, <2>2, <2>3, Filled
<1>5. \A p, q \in DOMAIN list : list[p] = list[q] => p = q
  <2> SUFFICES ASSUME NEW p \in DOMAIN list, NEW q \in DOMAIN list, p < q \/ q < p
               PROVE  list[p] # list[q]
    BY <1>1
  <2>1. list[p] \in Nat /\ list[q] \in Nat
    BY <1>1, <1>2
  <2> QED BY <1>3, <2>1
<1> QED BY <1>3, <1>4, <1>5 DEF Lists, chosen

LEMMA InitialParams ==
  ASSUME NEW ts \in Seq(Satellites), NEW list \in Seq(DOMAIN ts)
  PROVE  [p \in DOMAIN list |-> InitKernel(ts[list[p]])] \in Seq(Sgp4ParamsGpu)
<1>1. ASSUME NEW p \in 1..Len(list) PROVE InitKernel(ts[list[p]]) \in Sgp4ParamsGpu
  <2>1. list[p] \in 1..Len(ts)
    OBVIOUS
  <2>2. ts[list[p]] \in Satellites
    BY <2>1
  <2> QED BY <2>2 DEF InitKernel, Sgp4ParamsGpu
<1>2. [p \in 1..Len(list) |-> InitKernel(ts[list[p]])] \in [1..Len(list) -> Sgp4ParamsGpu]
  BY <1>1
<1>3. DOMAIN list = 1..Len(list) /\ Len(list) \in Nat
  OBVIOUS
<1> QED BY <1>2, <1>3, Filled

LEMMA InitialUnified ==
  ASSUME NEW ts \in Seq(Satellites)
  PROVE  [i \in DOMAIN ts |-> InitKernel(ts[i])] \in Seq(Sgp4ParamsGpu)
<1>1. ASSUME NEW i \in 1..Len(ts) PROVE InitKernel(ts[i]) \in Sgp4ParamsGpu
  <2>1. ts[i] \in Satellites
    OBVIOUS
  <2> QED BY <2>1 DEF InitKernel, Sgp4ParamsGpu
<1>2. [i \in 1..Len(ts) |-> InitKernel(ts[i])] \in [1..Len(ts) -> Sgp4ParamsGpu]
  BY <1>1
<1>3. DOMAIN ts = 1..Len(ts) /\ Len(ts) \in Nat
  OBVIOUS
<1> QED BY <1>2, <1>3, Filled

LEMMA ForcedParams ==
  ASSUME NEW params \in {None} \cup Seq(Sgp4ParamsGpu), NEW force \in BOOLEAN
  PROVE  WithForce(params, force) \in {None} \cup Seq(Sgp4ParamsGpu)
<1> SUFFICES ASSUME params # None PROVE WithForce(params, force) \in Seq(Sgp4ParamsGpu)
  BY DEF WithForce
<1>0. params \in Seq(Sgp4ParamsGpu) /\ DOMAIN params = 1..Len(params) /\ Len(params) \in Nat
  OBVIOUS
<1> DEFINE changed(p) == [params[p] EXCEPT !.forced = force]
<1>1. ASSUME NEW p \in 1..Len(params) PROVE changed(p) \in Sgp4ParamsGpu
  <2>1. params[p] \in Sgp4ParamsGpu
    BY <1>0, InList
  <2>2. \A q \in Sgp4ParamsGpu : [q EXCEPT !.forced = force] \in Sgp4ParamsGpu
    BY DEF Sgp4ParamsGpu
  <2> QED BY <2>1, <2>2
<1>2. WithForce(params, force) = [p \in 1..Len(params) |-> changed(p)]
  BY <1>0 DEF WithForce
<1> HIDE DEF changed
<1>3. WithForce(params, force) \in [1..Len(params) -> Sgp4ParamsGpu]
  BY <1>1, <1>2
<1> QED BY <1>0, <1>3, Filled

LEMMA AllocatedTypes ==
  ASSUME NEW buffer \in Buffers, NEW size \in Nat
  PROVE  Allocated(buffer, size) \in Seq(Sgp4StateGpu) /\ Len(Allocated(buffer, size)) = size
<1>1. [k \in 1..size |-> Zeroes] \in [1..size -> Sgp4StateGpu]
  BY ZeroesType
<1>2. [k \in 1..size |-> Zeroes] \in Seq(Sgp4StateGpu) /\ Len([k \in 1..size |-> Zeroes]) = size
  BY <1>1, Filled
<1> QED BY <1>2 DEF Allocated, Buffers

(* The transposition reads inside the buffer.                              *)
LEMMA Transposed ==
  ASSUME NEW n \in Nat, NEW len \in Nat,
         NEW cells \in Seq(Sgp4StateGpu), Len(cells) = n * len
  PROVE  /\ ToAos(cells, n, len) \in Seq(Sgp4StateGpu)
         /\ \A i \in 1..n, t \in 1..len :
              ToAos(cells, n, len)[Promise!SatMajor(i, t, len)]
                = cells[Promise!TimeMajor(i, t, n)]
<1> DEFINE sat(k) == ((k - 1) \div len) + 1
           time(k) == ((k - 1) % len) + 1
<1>0. n * len \in Nat
  OBVIOUS
<1>1. ASSUME NEW k \in 1..(n * len) PROVE sat(k) \in 1..n /\ time(k) \in 1..len
  <2>1. len # 0 /\ k - 1 \in Nat
    OBVIOUS
  <2> DEFINE q == (k - 1) \div len
             r == (k - 1) % len
  <2>2. q \in Int /\ r \in 0..(len - 1) /\ k - 1 = len * q + r
    BY <2>1
  <2> HIDE DEF q, r
  <2>3. q >= 0
    <3> SUFFICES ASSUME q <= -1 PROVE FALSE
      BY <2>2
    <3>1. len * q <= -len
      BY <2>2
    <3> QED BY <3>1, <2>1, <2>2
  <2>4. q <= n - 1
    <3> SUFFICES ASSUME q >= n PROVE FALSE
      BY <2>2
    <3>1. len * (q - n) >= 0
      BY <2>2
    <3>2. len * q >= n * len
      BY <3>1, <2>2
    <3> QED BY <3>2, <2>2, <1>0
  <2>5. q \in 0..(n - 1)
    BY <2>2, <2>3, <2>4
  <2> QED BY <2>2, <2>5 DEF q, r
<1> HIDE DEF sat, time
<1>2. ASSUME NEW k \in 1..(n * len)
      PROVE  cells[Promise!TimeMajor(sat(k), time(k), n)] \in Sgp4StateGpu
  <2>1. Promise!TimeMajor(sat(k), time(k), n) \in 1..(n * len)
    BY <1>1, Column
  <2> QED BY <2>1, InList
<1>3. ToAos(cells, n, len) = [k \in 1..(n * len) |->
                                cells[Promise!TimeMajor(sat(k), time(k), n)]]
  BY DEF ToAos, sat, time
<1>4. ToAos(cells, n, len) \in [1..(n * len) -> Sgp4StateGpu]
  BY <1>2, <1>3
<1>5. ASSUME NEW i \in 1..n, NEW t \in 1..len
      PROVE  ToAos(cells, n, len)[Promise!SatMajor(i, t, len)]
               = cells[Promise!TimeMajor(i, t, n)]
  <2> DEFINE k == Promise!SatMajor(i, t, len)
  <2>1. k \in 1..(n * len) /\ sat(k) = i /\ time(k) = t
    BY Row DEF sat, time
  <2> HIDE DEF k
  <2>2. ToAos(cells, n, len)[k] = cells[Promise!TimeMajor(sat(k), time(k), n)]
    BY <1>3, <2>1
  <2> QED BY <2>1, <2>2 DEF k
<1> QED BY <1>0, <1>4, <1>5, Filled

-----------------------------------------------------------------------------
(* Types, action by action.                                                *)
ControlTypes ==
  /\ pc \in Labels
  /\ op \in Ops \cup {"none"}
  /\ tles \in TleLists \cup {<<>>} /\ times \in TimeLists \cup {<<>>}
  /\ forcing \in BOOLEAN
  /\ answer \in Answers
  /\ failures \in 0..MaxFailures

LEMMA ControlKept ==
  ASSUME TypeOK,
         \/ Return
         \/ Fail
         \/ \E label \in Labels : Goto(label)
  PROVE  ControlTypes'
<1>1. CASE Return
  BY <1>1 DEF TypeOK, ControlTypes, Return, ReturnWith, Labels, Answers
<1>2. CASE Fail
  <2>1. failures' \in 0..MaxFailures
    BY <1>2, DataAssumption DEF TypeOK, Fail
  <2> QED BY <1>2, <2>1 DEF ControlTypes, Fail, ReturnWith, Labels, Answers
<1>3. CASE \E label \in Labels : Goto(label)
  BY <1>3 DEF TypeOK, ControlTypes, Goto, args
<1> QED BY <1>1, <1>2, <1>3

LEMMA TypesInit == Init => TypeOK
<1> SUFFICES ASSUME Init PROVE TypeOK
  OBVIOUS
<1>1. [indices |-> <<>>, params |-> None, map |-> None]
        \in [indices : Seq(Nat \ {0}), params : {None} \cup Seq(Sgp4ParamsGpu),
             map : {None} \cup Seq(Nat \ {0})]
  OBVIOUS
<1>2. partition \in [Models -> [indices : Seq(Nat \ {0}),
                               params : {None} \cup Seq(Sgp4ParamsGpu),
                               map : {None} \cup Seq(Nat \ {0})]]
  BY <1>1 DEF Init
<1>3. failures \in 0..MaxFailures /\ n_satellites \in Nat
  BY DataAssumption DEF Init
<1> QED BY <1>2, <1>3 DEF Init, TypeOK, Buffers, Labels, PropagatorOverride, Answers

LEMMA TypesInitSatellites ==
  ASSUME TypeOK, NEW ts \in TleLists, NEW override \in Overrides,
         InitSatellites(ts, override)
  PROVE  TypeOK'
<1>1. ts \in Seq(Satellites) /\ override \in PropagatorOverride
  BY DataAssumption
<1>2. PICK sgp4 \in Indices(ts, override, "SGP4"), sdp4 \in Indices(ts, override, "SDP4") :
        partition' = [m \in Models |->
          [partition[m] EXCEPT !.indices = IF m = "SGP4" THEN sgp4 ELSE sdp4]]
  BY DEF InitSatellites
<1>3. sgp4 \in Seq(Nat \ {0}) /\ sdp4 \in Seq(Nat \ {0})
  BY <1>1, IndicesAreLists
<1>4. partition' \in [Models -> [indices : Seq(Nat \ {0}),
                                 params : {None} \cup Seq(Sgp4ParamsGpu),
                                 map : {None} \cup Seq(Nat \ {0})]]
  BY <1>2, <1>3 DEF TypeOK
<1>5. n_satellites' \in Nat
  BY <1>1 DEF InitSatellites
<1> QED BY <1>1, <1>4, <1>5 DEF InitSatellites, TypeOK, Labels, Answers, outputs

(* A change of one field of a partition.                                   *)
LEMMA PartitionTypes ==
  ASSUME TypeOK, NEW m \in Models,
         NEW params \in {None} \cup Seq(Sgp4ParamsGpu),
         NEW map \in {None} \cup Seq(Nat \ {0}),
         \/ partition' = partition
         \/ partition' = [partition EXCEPT ![m].params = params]
         \/ partition' = [partition EXCEPT ![m].params = params, ![m].map = map]
  PROVE  partition' \in [Models -> [indices : Seq(Nat \ {0}),
                                    params : {None} \cup Seq(Sgp4ParamsGpu),
                                    map : {None} \cup Seq(Nat \ {0})]]
  BY DEF TypeOK

LEMMA TypesLoadPartition ==
  ASSUME TypeOK, LoadInv, NEW m \in Models, NEW here, NEW next \in Labels,
         here \in {"load_sgp4", "load_sdp4"}, LoadPartition(m, here, next)
  PROVE  TypeOK'
<1> DEFINE indices == partition[m].indices
           params == [p \in DOMAIN indices |-> InitKernel(tles[indices[p]])]
<1>1. tles \in Seq(Satellites) /\ Divided(tles)
  BY DataAssumption DEF LoadInv, LoadPartition
<1>2. indices \in Seq(Nat \ {0})
  BY DEF TypeOK
<1>3. params \in Seq(Sgp4ParamsGpu)
  <2>1. indices \in Seq(Chosen(tles, m)) /\ Chosen(tles, m) \subseteq DOMAIN tles
    BY <1>1 DEF Divided, Lists, Chosen
  <2>2. indices \in Seq(DOMAIN tles)
    BY <2>1
  <2> QED BY <1>1, <2>2, InitialParams
<1>4. ControlTypes'
  BY ControlKept DEF LoadPartition
<1>5. \/ partition' = partition
      \/ partition' = [partition EXCEPT ![m].params = params]
      \/ partition' = [partition EXCEPT ![m].params = params, ![m].map = indices]
      \/ partition' = [partition EXCEPT ![m].params = None, ![m].map = None]
  BY DEF LoadPartition
<1> HIDE DEF indices, params
<1>6. partition' \in [Models -> [indices : Seq(Nat \ {0}),
                                 params : {None} \cup Seq(Sgp4ParamsGpu),
                                 map : {None} \cup Seq(Nat \ {0})]]
  BY <1>2, <1>3, <1>5, PartitionTypes
<1>7. UNCHANGED <<n_satellites, params_gpu, cached_times_gpu, outputs, loaded, forced, mode>>
  BY DEF LoadPartition
<1> QED BY <1>4, <1>6, <1>7 DEF TypeOK, ControlTypes, outputs

LEMMA TypesLoadUnified ==
  ASSUME TypeOK, LoadInv, LoadUnified
  PROVE  TypeOK'
<1>1. tles \in TleLists /\ tles \in Seq(Satellites)
  BY DataAssumption DEF LoadInv, LoadUnified
<1>2. [i \in DOMAIN tles |-> InitKernel(tles[i])] \in Seq(Sgp4ParamsGpu)
  BY <1>1, InitialUnified
<1>3. ControlTypes'
  BY ControlKept DEF LoadUnified
<1>4. params_gpu' \in {None} \cup Seq(Sgp4ParamsGpu) /\ loaded' \in {None} \cup TleLists \cup {<<>>}
  BY <1>1, <1>2 DEF LoadUnified, TypeOK
<1> QED BY <1>3, <1>4 DEF LoadUnified, TypeOK, ControlTypes, outputs

LEMMA TypesForcing ==
  ASSUME TypeOK, Forcing
  PROVE  TypeOK'
<1>1. ASSUME NEW force \in BOOLEAN, SetForceNearEarthOverride(force) PROVE TypeOK'
  BY <1>1 DEF SetForceNearEarthOverride, TypeOK, device, outputs, Labels, Answers
<1>2. ASSUME ForceUnified PROVE TypeOK'
  <2>1. ControlTypes'
    BY <1>2, ControlKept DEF ForceUnified, Labels
  <2>2. WithForce(params_gpu, forcing) \in {None} \cup Seq(Sgp4ParamsGpu)
    BY ForcedParams DEF TypeOK
  <2>3. params_gpu' \in {None} \cup Seq(Sgp4ParamsGpu)
    BY <1>2, <2>2 DEF ForceUnified, TypeOK
  <2> QED BY <1>2, <2>1, <2>3 DEF ForceUnified, TypeOK, ControlTypes, outputs
<1>3. ASSUME NEW m \in Models, NEW here, NEW next \in Labels, ForcePartition(m, here, next)
      PROVE TypeOK'
  <2>1. ControlTypes'
    BY <1>3, ControlKept DEF ForcePartition
  <2> DEFINE params == WithForce(partition[m].params, forcing)
  <2>2. params \in {None} \cup Seq(Sgp4ParamsGpu)
    BY ForcedParams DEF TypeOK
  <2>3. partition' = partition \/ partition' = [partition EXCEPT ![m].params = params]
    BY <1>3 DEF ForcePartition, TypeOK
  <2> HIDE DEF params
  <2>4. partition' \in [Models -> [indices : Seq(Nat \ {0}),
                                   params : {None} \cup Seq(Sgp4ParamsGpu),
                                   map : {None} \cup Seq(Nat \ {0})]]
    BY <2>2, <2>3, PartitionTypes
  <2> QED BY <1>3, <2>1, <2>4 DEF ForcePartition, TypeOK, ControlTypes, outputs
<1>4. ASSUME ForceSync PROVE TypeOK'
  <2>1. ControlTypes'
    BY <1>4, ControlKept DEF ForceSync
  <2> QED BY <1>4, <2>1 DEF ForceSync, TypeOK, ControlTypes, device, outputs
<1>5. "SGP4" \in Models /\ "SDP4" \in Models /\ "force_sdp4" \in Labels /\ "force_sync" \in Labels
  BY DEF Models, Labels
<1> QED BY <1>1, <1>2, <1>3, <1>4, <1>5 DEF Forcing

(* What a propagation hands to a launch.                                   *)
LEMMA DatesOnDevice ==
  ASSUME RunInv, pc \in {"run_aos", "run_unified", "run_sgp4", "run_sdp4", "download"}
  PROVE  /\ n_satellites # 0
         /\ times \in TimeLists /\ Len(times) \in Nat
         /\ DeviceTimes \in TimeLists /\ DeviceTimes \in Seq(Times)
         /\ Len(DeviceTimes) = Len(times)
  BY DataAssumption DEF RunInv

LEMMA TypesPropagate ==
  ASSUME TypeOK, NEW method \in Ops, NEW ts \in TimeLists, NEW short \in BOOLEAN,
         Propagate(method, ts, short)
  PROVE  TypeOK'
<1>1. pc' \in Labels /\ op' \in Ops \cup {"none"} /\ times' \in TimeLists \cup {<<>>}
  BY DEF Propagate, TypeOK, Labels
<1>2. answer' \in Answers
  BY DEF Propagate, Answers
<1> QED BY <1>1, <1>2 DEF Propagate, TypeOK, device, outputs

LEMMA TypesUploadTimes == TypeOK /\ RunInv /\ UploadTimes => TypeOK'
<1> SUFFICES ASSUME TypeOK, RunInv, UploadTimes PROVE TypeOK'
  OBVIOUS
<1>1. ControlTypes'
  BY ControlKept DEF UploadTimes, Labels
<1>2. cached_times_gpu' \in {None} \cup TimeLists
  BY DEF UploadTimes, TypeOK, RunInv
<1> QED BY <1>1, <1>2 DEF UploadTimes, TypeOK, ControlTypes, device, outputs

LEMMA TypesAllocate == TypeOK /\ RunInv /\ Allocate => TypeOK'
<1> SUFFICES ASSUME TypeOK, RunInv, Allocate PROVE TypeOK'
  OBVIOUS
<1>1. ControlTypes'
  BY ControlKept DEF Allocate, Labels
<1> DEFINE size == n_satellites * Len(times)
<1>2. size \in Nat
  <2>1. n_satellites \in Nat /\ Len(times) \in Nat
    BY DataAssumption DEF TypeOK, RunInv, Allocate
  <2> QED BY <2>1
<1>3. /\ cached_states_gpu' \in {cached_states_gpu, Allocated(cached_states_gpu, size)}
      /\ cached_soa_buffers' \in {cached_soa_buffers, Allocated(cached_soa_buffers, size)}
  BY DEF Allocate, outputs
<1> HIDE DEF size
<1>4. cached_states_gpu' \in Buffers /\ cached_soa_buffers' \in Buffers
  <2>1. cached_states_gpu \in Buffers /\ cached_soa_buffers \in Buffers
    BY DEF TypeOK
  <2>2. \A buffer \in Buffers : Allocated(buffer, size) \in Buffers
    BY <1>2, AllocatedTypes DEF Buffers
  <2> QED BY <1>3, <2>1, <2>2
<1> QED BY <1>1, <1>4 DEF Allocate, TypeOK, ControlTypes, device

(* The launches keep the type and the length of their buffer.              *)
LEMMA RunAosWrites ==
  ASSUME TypeOK, RunInv, RunAos
  PROVE  /\ cached_states_gpu' \in Seq(Sgp4StateGpu)
         /\ Len(cached_states_gpu') = Len(cached_states_gpu)
<1>1. /\ cached_states_gpu \in Seq(Sgp4StateGpu) /\ params_gpu \in Seq(Sgp4ParamsGpu)
      /\ DeviceTimes \in Seq(Times) /\ Len(DeviceTimes) = Len(times)
  BY DatesOnDevice DEF RunAos, RunInv, RunAosOrSent, UnifiedOps, TypeOK
<1> DEFINE slots == AosSlots(n_satellites, Len(times))
<1>2. DOMAIN slots \subseteq (1..n_satellites) \X (1..Len(DeviceTimes))
  BY <1>1 DEF AosSlots
<1>3. cached_states_gpu' \in
        {cached_states_gpu, Kernel(cached_states_gpu, params_gpu, DeviceTimes, slots, "aos")}
  BY DEF RunAos
<1> HIDE DEF slots
<1> DEFINE after == Kernel(cached_states_gpu, params_gpu, DeviceTimes, slots, "aos")
<1>4. after \in [1..Len(cached_states_gpu) -> Sgp4StateGpu]
  BY <1>1, <1>2, KernelTypes
<1> HIDE DEF after
<1>5. cached_states_gpu' \in {cached_states_gpu, after}
  BY <1>3 DEF after
<1>6. after \in Seq(Sgp4StateGpu) /\ Len(after) = Len(cached_states_gpu)
  BY <1>1, <1>4, Filled
<1> QED BY <1>1, <1>5, <1>6

LEMMA RunUnifiedWrites ==
  ASSUME TypeOK, RunInv, RunUnified
  PROVE  /\ cached_soa_buffers' \in Seq(Sgp4StateGpu)
         /\ Len(cached_soa_buffers') = Len(cached_soa_buffers)
<1>1. /\ cached_soa_buffers \in Seq(Sgp4StateGpu) /\ params_gpu \in Seq(Sgp4ParamsGpu)
      /\ DeviceTimes \in Seq(Times) /\ Len(DeviceTimes) = Len(times)
  BY DatesOnDevice DEF RunUnified, RunInv, RunSoaOrSent, UnifiedOps, TypeOK
<1> DEFINE slots == SoaSlots(n_satellites, Len(times))
<1>2. DOMAIN slots \subseteq (1..n_satellites) \X (1..Len(DeviceTimes))
  BY <1>1 DEF SoaSlots
<1>3. cached_soa_buffers' \in
        {cached_soa_buffers, Kernel(cached_soa_buffers, params_gpu, DeviceTimes, slots, "soa")}
  BY DEF RunUnified
<1> HIDE DEF slots
<1> DEFINE after == Kernel(cached_soa_buffers, params_gpu, DeviceTimes, slots, "soa")
<1>4. after \in [1..Len(cached_soa_buffers) -> Sgp4StateGpu]
  BY <1>1, <1>2, KernelTypes
<1> HIDE DEF after
<1>5. cached_soa_buffers' \in {cached_soa_buffers, after}
  BY <1>3 DEF after
<1>6. after \in Seq(Sgp4StateGpu) /\ Len(after) = Len(cached_soa_buffers)
  BY <1>1, <1>4, Filled
<1> QED BY <1>1, <1>5, <1>6

LEMMA RunPartitionWrites ==
  ASSUME TypeOK, RunInv, NEW m \in Models, NEW here \in {"run_sgp4", "run_sdp4"}, NEW next,
         RunPartition(m, here, next)
  PROVE  /\ cached_soa_buffers' \in Seq(Sgp4StateGpu)
         /\ Len(cached_soa_buffers') = Len(cached_soa_buffers)
<1>1. /\ cached_soa_buffers \in Seq(Sgp4StateGpu)
      /\ DeviceTimes \in Seq(Times) /\ Len(DeviceTimes) = Len(times)
  BY DatesOnDevice DEF RunPartition, RunInv, RunSoaOrSent
<1> DEFINE slots == PartitionSlots(m)
           params == partition[m].params
<1>2. DOMAIN slots \subseteq ((1..Len(partition[m].indices)) \cap DOMAIN partition[m].map)
                               \X (1..Len(DeviceTimes))
  BY <1>1 DEF PartitionSlots, IndexedSlots
<1>3. params \in {None} \cup Seq(Sgp4ParamsGpu)
  BY DEF TypeOK
<1>4. \/ cached_soa_buffers' = cached_soa_buffers
      \/ /\ params # None
         /\ cached_soa_buffers' = Kernel(cached_soa_buffers, params, DeviceTimes, slots, "soa")
  BY DEF RunPartition
<1> HIDE DEF slots, params
<1>5. CASE params # None
  <2>1. params \in Seq(Sgp4ParamsGpu)
    BY <1>3, <1>5
  <2> DEFINE after == Kernel(cached_soa_buffers, params, DeviceTimes, slots, "soa")
  <2>2. after \in [1..Len(cached_soa_buffers) -> Sgp4StateGpu]
    BY <1>1, <1>2, <2>1, KernelTypes
  <2> HIDE DEF after
  <2>3. cached_soa_buffers' \in {cached_soa_buffers, after}
    BY <1>4 DEF after
  <2> QED BY <1>1, <2>2, <2>3, Filled
<1> QED BY <1>1, <1>4, <1>5

LEMMA TypesRun ==
  ASSUME TypeOK, RunInv,
         \/ RunAos
         \/ RunUnified
         \/ RunPartition("SGP4", "run_sgp4", "run_sdp4")
         \/ RunPartition("SDP4", "run_sdp4", "download")
  PROVE  TypeOK'
<1>1. CASE RunAos
  <2>1. ControlTypes'
    BY <1>1, ControlKept DEF RunAos, Labels
  <2> QED BY <1>1, <2>1, RunAosWrites DEF RunAos, TypeOK, ControlTypes, device, Buffers
<1>2. CASE RunUnified
  <2>1. ControlTypes'
    BY <1>2, ControlKept DEF RunUnified, Labels
  <2> QED BY <1>2, <2>1, RunUnifiedWrites
          DEF RunUnified, TypeOK, ControlTypes, device, Buffers
<1>3. ASSUME NEW m \in Models, NEW here \in {"run_sgp4", "run_sdp4"}, NEW next \in Labels,
             RunPartition(m, here, next)
      PROVE  TypeOK'
  <2>1. ControlTypes'
    BY <1>3, ControlKept DEF RunPartition
  <2>2. cached_soa_buffers' \in Buffers
    BY <1>3, RunPartitionWrites DEF Buffers
  <2> QED BY <1>3, <2>1, <2>2 DEF RunPartition, TypeOK, ControlTypes, device
<1>4. "SGP4" \in Models /\ "SDP4" \in Models /\ "run_sdp4" \in Labels /\ "download" \in Labels
  BY DEF Models, Labels
<1> QED BY <1>1, <1>2, <1>3, <1>4

LEMMA TypesDownload == TypeOK /\ RunInv /\ Download => TypeOK'
<1> SUFFICES ASSUME TypeOK, RunInv, Download PROVE TypeOK'
  OBVIOUS
<1> DEFINE cells == IF op = "propagate" THEN cached_states_gpu
                    ELSE IF op = "propagate_soa"
                      THEN ToAos(cached_soa_buffers, n_satellites, Len(times))
                      ELSE cached_soa_buffers
<1>1. op \in Ops /\ times \in TimeLists /\ n_satellites \in Nat /\ Len(times) \in Nat
  BY DatesOnDevice DEF Download, RunInv, TypeOK
<1>2. cells \in Seq(Sgp4StateGpu)
  <2>1. CASE op = "propagate"
    BY <2>1 DEF Download, RunInv, RunAosOrSent
  <2>2. CASE op # "propagate"
    <3>1. /\ cached_soa_buffers \in Seq(Sgp4StateGpu)
          /\ Len(cached_soa_buffers) = n_satellites * Len(times)
      BY <2>2 DEF Download, RunInv, RunSoaOrSent
    <3>2. ToAos(cached_soa_buffers, n_satellites, Len(times)) \in Seq(Sgp4StateGpu)
      BY <3>1, <1>1, Transposed
    <3> QED BY <2>2, <3>1, <3>2
  <2> QED BY <2>1, <2>2
<1>3. \/ /\ ReturnWith([op |-> op, times |-> times, cells |-> cells])
         /\ UNCHANGED failures
      \/ Fail
  BY DEF Download
<1> HIDE DEF cells
<1>4. [op |-> op, times |-> times, cells |-> cells] \in Answers
  BY <1>1, <1>2 DEF Answers
<1>5. ControlTypes'
  <2>1. CASE Fail
    BY <2>1, ControlKept
  <2>2. CASE /\ ReturnWith([op |-> op, times |-> times, cells |-> cells])
             /\ UNCHANGED failures
    BY <2>2, <1>4 DEF ReturnWith, TypeOK, ControlTypes, Labels
  <2> QED BY <1>3, <2>1, <2>2
<1> QED BY <1>5 DEF Download, TypeOK, ControlTypes, device, outputs

LEMMA TypesCaches ==
  ASSUME TypeOK, (\E ts \in TimeLists : CacheTimes(ts)) \/ ClearTimeCache \/ ClearSoaCache
  PROVE  TypeOK'
  BY DEF TypeOK, CacheTimes, ClearTimeCache, ClearSoaCache, device, outputs, args, Buffers,
         Answers

LEMMA TypesStep == TypeOK /\ LoadInv /\ RunInv /\ [Next]_vars => TypeOK'
<1> SUFFICES ASSUME TypeOK, LoadInv, RunInv, [Next]_vars PROVE TypeOK'
  OBVIOUS
<1>1. CASE Loading
  <2>1. /\ "SGP4" \in Models /\ "SDP4" \in Models
        /\ "load_sdp4" \in Labels /\ "load_unified" \in Labels
    BY DEF Models, Labels
  <2> QED BY <1>1, <2>1, TypesInitSatellites, TypesLoadPartition, TypesLoadUnified
          DEF Loading
<1>2. CASE Propagating
  BY <1>2, TypesPropagate, TypesUploadTimes, TypesAllocate, TypesRun, TypesDownload
  DEF Propagating
<1>3. CASE UNCHANGED vars
  BY <1>3 DEF vars, device, outputs, args, TypeOK
<1> QED BY <1>1, <1>2, <1>3, TypesForcing, TypesCaches DEF Next

-----------------------------------------------------------------------------
(* Arguments and sizes hold through a propagation.                         *)
LEMMA OutOfRun ==
  ASSUME pc' \notin {"upload", "allocate", "run_aos", "run_unified", "run_sgp4",
                     "run_sdp4", "download"}
  PROVE  RunInv' /\ WrittenInv'
  BY DEF RunInv, RunAosOrSent, RunSoaOrSent, WrittenInv

LEMMA FailEndsRun == Fail => RunInv' /\ WrittenInv'
  BY OutOfRun DEF Fail, ReturnWith

LEMMA NoRun ==
  ASSUME Loading \/ Forcing
  PROVE  RunInv' /\ WrittenInv'
<1>1. pc' \notin {"upload", "allocate", "run_aos", "run_unified", "run_sgp4", "run_sdp4",
                  "download"}
  BY DEF Loading, Forcing, InitSatellites, LoadPartition, LoadUnified,
         SetForceNearEarthOverride, ForceUnified, ForcePartition, ForceSync,
         Goto, Fail, Return, ReturnWith
<1> QED BY <1>1, OutOfRun

LEMMA NoRunCaches ==
  ASSUME (\E ts \in TimeLists : CacheTimes(ts)) \/ ClearTimeCache \/ ClearSoaCache
  PROVE  RunInv' /\ WrittenInv'
<1>1. pc' = "idle"
  BY DEF CacheTimes, ClearTimeCache, ClearSoaCache
<1> QED BY <1>1, OutOfRun

LEMMA RunPropagate ==
  ASSUME TypeOK, NEW method \in Ops, NEW ts \in TimeLists, NEW short \in BOOLEAN,
         Propagate(method, ts, short)
  PROVE  RunInv' /\ WrittenInv'
<1>1. CASE pc' = "upload"
  <2>1. /\ n_satellites' = n_satellites /\ n_satellites # 0
        /\ op' = method /\ times' = ts /\ params_gpu' = params_gpu
        /\ method \in UnifiedOps => params_gpu # None
    BY <1>1 DEF Propagate, device
  <2> QED BY <1>1, <2>1 DEF RunInv, RunAosOrSent, RunSoaOrSent, WrittenInv
<1>2. CASE pc' # "upload"
  <2>1. pc' = "idle"
    BY <1>2 DEF Propagate
  <2> QED BY <2>1, OutOfRun
<1> QED BY <1>1, <1>2

LEMMA RunUploadTimes == TypeOK /\ RunInv /\ UploadTimes => RunInv' /\ WrittenInv'
<1> SUFFICES ASSUME TypeOK, RunInv, UploadTimes, ~Fail PROVE RunInv' /\ WrittenInv'
  BY FailEndsRun
<1>1. /\ pc' = "allocate" /\ UNCHANGED <<device, args>>
      /\ n_satellites # 0 /\ op \in Ops /\ times \in TimeLists
      /\ op \in UnifiedOps => params_gpu # None
  BY DEF UploadTimes, Goto, RunInv
<1>2. op = "propagate_soa_gpu_resident" =>
        cached_times_gpu' \in TimeLists /\ Len(cached_times_gpu') = Len(times)
  BY <1>1 DEF UploadTimes, TypeOK
<1>3. DeviceTimes' \in TimeLists /\ Len(DeviceTimes') = Len(times')
  BY <1>1, <1>2 DEF DeviceTimes, args
<1> QED BY <1>1, <1>3 DEF RunInv, RunAosOrSent, RunSoaOrSent, WrittenInv, device, args

LEMMA RunAllocate == TypeOK /\ RunInv /\ Allocate => RunInv' /\ WrittenInv'
<1> SUFFICES ASSUME TypeOK, RunInv, Allocate, ~Fail PROVE RunInv' /\ WrittenInv'
  BY FailEndsRun
<1> DEFINE size == n_satellites * Len(times)
<1>1. size \in Nat
  <2>1. n_satellites \in Nat /\ Len(times) \in Nat
    BY DataAssumption DEF TypeOK, RunInv, Allocate
  <2> QED BY <2>1
<1>2. /\ UNCHANGED <<device, cached_times_gpu, args>>
      /\ pc' \in {"run_aos", "run_sgp4", "run_unified"}
      /\ pc' = "run_aos" => op = "propagate"
      /\ pc' = "run_unified" => op \notin SoaOps /\ op # "propagate"
      /\ pc' = "run_sgp4" => op \in SoaOps
  BY DEF Allocate, Goto
<1>3. /\ pc' = "run_aos" => cached_states_gpu' = Allocated(cached_states_gpu, size)
      /\ pc' # "run_aos" => cached_soa_buffers' = Allocated(cached_soa_buffers, size)
  BY DEF Allocate, Goto
<1> HIDE DEF size
<1>4. /\ pc' = "run_aos" => cached_states_gpu' \in Seq(Sgp4StateGpu) /\ Len(cached_states_gpu') = size
      /\ pc' # "run_aos" => cached_soa_buffers' \in Seq(Sgp4StateGpu) /\ Len(cached_soa_buffers') = size
  BY <1>1, <1>3, AllocatedTypes DEF TypeOK
<1>5. /\ n_satellites # 0 /\ op \in Ops /\ times \in TimeLists
      /\ op \in UnifiedOps => params_gpu # None
      /\ DeviceTimes \in TimeLists /\ Len(DeviceTimes) = Len(times)
  BY DEF Allocate, RunInv
<1>6. DeviceTimes' = DeviceTimes /\ size' = size
  BY <1>2 DEF DeviceTimes, args, device, size
<1>7. pc' = "run_unified" => op = "propagate_soa_into"
  BY <1>2, <1>5 DEF Ops, SoaOps, UnifiedOps
<1>8. WrittenInv'
  BY <1>2 DEF WrittenInv
<1> QED BY <1>2, <1>4, <1>5, <1>6, <1>7, <1>8
        DEF RunInv, RunAosOrSent, RunSoaOrSent, device, args, size

LEMMA RunRun ==
  ASSUME TypeOK, RunInv,
         \/ RunAos
         \/ RunUnified
         \/ RunPartition("SGP4", "run_sgp4", "run_sdp4")
         \/ RunPartition("SDP4", "run_sdp4", "download")
  PROVE  RunInv'
<1> SUFFICES ASSUME ~Fail PROVE RunInv'
  BY FailEndsRun
<1>1. /\ UNCHANGED <<device, cached_times_gpu, args>>
      /\ n_satellites # 0 /\ op \in Ops /\ times \in TimeLists
      /\ op \in UnifiedOps => params_gpu # None
      /\ DeviceTimes \in TimeLists /\ Len(DeviceTimes) = Len(times)
  BY DEF RunAos, RunUnified, RunPartition, RunInv, Goto
<1>2. DeviceTimes' = DeviceTimes
  BY <1>1 DEF DeviceTimes, args
<1>3. CASE RunAos
  <2>1. pc' = "download" /\ op = "propagate"
    BY <1>3 DEF RunAos, Goto, RunInv
  <2>2. /\ cached_states_gpu' \in Seq(Sgp4StateGpu)
        /\ Len(cached_states_gpu') = n_satellites * Len(times)
    BY <1>3, RunAosWrites DEF RunAos, RunInv, RunAosOrSent
  <2> QED BY <1>1, <1>2, <2>1, <2>2 DEF RunInv, RunAosOrSent, RunSoaOrSent, device, args
<1>4. CASE RunUnified
  <2>1. pc' = "download" /\ op # "propagate"
    BY <1>4 DEF RunUnified, Goto, RunInv
  <2>2. /\ cached_soa_buffers' \in Seq(Sgp4StateGpu)
        /\ Len(cached_soa_buffers') = n_satellites * Len(times)
    BY <1>4, RunUnifiedWrites DEF RunUnified, RunInv, RunSoaOrSent
  <2> QED BY <1>1, <1>2, <2>1, <2>2 DEF RunInv, RunAosOrSent, RunSoaOrSent, device, args
<1>5. ASSUME NEW m \in Models, NEW here \in {"run_sgp4", "run_sdp4"},
             NEW next \in {"run_sdp4", "download"}, RunPartition(m, here, next)
      PROVE  RunInv'
  <2>1. pc' = next /\ op \in SoaOps
    BY <1>5 DEF RunPartition, Goto, RunInv
  <2>2. op # "propagate"
    BY <2>1 DEF SoaOps
  <2>3. /\ cached_soa_buffers' \in Seq(Sgp4StateGpu)
        /\ Len(cached_soa_buffers') = n_satellites * Len(times)
    BY <1>5, RunPartitionWrites DEF RunPartition, RunInv, RunSoaOrSent
  <2> QED BY <1>1, <1>2, <2>1, <2>2, <2>3
          DEF RunInv, RunAosOrSent, RunSoaOrSent, device, args
<1> QED BY <1>3, <1>4, <1>5 DEF Models

LEMMA DownloadEndsRun == Download => RunInv' /\ WrittenInv'
<1>1. Download => pc' = "idle"
  BY DEF Download, Fail, ReturnWith
<1> QED BY <1>1, OutOfRun

LEMMA RunStep == TypeOK /\ RunInv /\ [Next]_vars => RunInv'
<1> SUFFICES ASSUME TypeOK, RunInv, [Next]_vars PROVE RunInv'
  OBVIOUS
<1>1. CASE Propagating
  BY <1>1, RunPropagate, RunUploadTimes, RunAllocate, RunRun, DownloadEndsRun
  DEF Propagating
<1>2. CASE UNCHANGED vars
  BY <1>2 DEF vars, device, outputs, args, RunInv, RunAosOrSent, RunSoaOrSent, DeviceTimes
<1> QED BY <1>1, <1>2, NoRun, NoRunCaches DEF Next

-----------------------------------------------------------------------------
(* The copies through loads and overrides.                                 *)
copies == <<device, loaded, forced, mode>>

LEMMA KeptStays == KeptInv /\ UNCHANGED copies => KeptInv'
<1> SUFFICES ASSUME KeptInv, UNCHANGED copies PROVE KeptInv'
  OBVIOUS
<1>1. /\ n_satellites' = n_satellites /\ partition' = partition
      /\ params_gpu' = params_gpu /\ loaded' = loaded /\ forced' = forced
      /\ mode' = mode
  BY DEF copies, device
<1>2. /\ Divided(loaded)' <=> Divided(loaded)
      /\ HeldByUnified(loaded, forced)' <=> HeldByUnified(loaded, forced)
      /\ \A m \in Models :
           HeldByModel(m, loaded, forced)' <=> HeldByModel(m, loaded, forced)
  BY <1>1 DEF Divided, Chosen, HeldByUnified, HeldByModel
<1>3. \A force \in BOOLEAN :
        /\ HeldByUnified(loaded, force)' <=> HeldByUnified(loaded, force)
        /\ \A m \in Models :
             HeldByModel(m, loaded, force)' <=> HeldByModel(m, loaded, force)
  BY <1>1 DEF HeldByUnified, HeldByModel
<1> QED BY <1>1, <1>2, <1>3 DEF KeptInv

(* Outside of loads and overrides only what is kept matters.               *)
LEMMA CopiesAside ==
  ASSUME CopiesInv, UNCHANGED copies,
         pc' \notin {"load_sgp4", "load_sdp4", "load_unified",
                     "force_unified", "force_sgp4", "force_sdp4", "force_sync"}
  PROVE  CopiesInv'
  BY KeptStays DEF CopiesInv, LoadInv, ForceInv

LEMMA PropagatingAside == CopiesInv /\ Propagating => CopiesInv'
<1> SUFFICES ASSUME CopiesInv, Propagating PROVE CopiesInv'
  OBVIOUS
<1>1. UNCHANGED copies
  BY DEF Propagating, Propagate, UploadTimes, Allocate, RunAos, RunUnified, RunPartition,
         Download, copies
<1>2. pc' \notin {"load_sgp4", "load_sdp4", "load_unified",
                  "force_unified", "force_sgp4", "force_sdp4", "force_sync"}
  BY DEF Propagating, Propagate, UploadTimes, Allocate, RunAos, RunUnified, RunPartition,
         Download, Goto, Fail, ReturnWith
<1> QED BY <1>1, <1>2, CopiesAside

LEMMA CachesAside ==
  ASSUME CopiesInv, (\E ts \in TimeLists : CacheTimes(ts)) \/ ClearTimeCache \/ ClearSoaCache
  PROVE  CopiesInv'
<1>1. UNCHANGED copies /\ pc' = "idle"
  BY DEF CacheTimes, ClearTimeCache, ClearSoaCache, copies, args
<1> QED BY <1>1, CopiesAside

LEMMA CopiesInit == Init => CopiesInv
  BY DEF Init, CopiesInv, LoadInv, KeptInv, ForceInv

(* A load starts over.                                                     *)
LEMMA CopiesInitSatellites ==
  ASSUME TypeOK, NEW ts \in TleLists, NEW override \in Overrides,
         InitSatellites(ts, override)
  PROVE  CopiesInv'
<1>1. ts \in Seq(Satellites)
  BY DataAssumption
<1>2. CASE ts = <<>>
  <2>1. pc' = "idle" /\ loaded' = <<>> /\ n_satellites' = Len(ts)
    BY <1>2 DEF InitSatellites
  <2>2. loaded' \in Seq(Satellites) /\ n_satellites' = Len(loaded')
    BY <1>1, <1>2, <2>1
  <2> QED BY <2>1, <2>2 DEF CopiesInv, LoadInv, KeptInv, ForceInv
<1>3. CASE ts # <<>>
  <2>1. /\ pc' = "load_sgp4" /\ loaded' = None /\ n_satellites' = Len(ts)
        /\ tles' = ts /\ mode' = override /\ forced' = FALSE
    BY <1>3 DEF InitSatellites
  <2>2. PICK sgp4 \in Indices(ts, override, "SGP4"), sdp4 \in Indices(ts, override, "SDP4") :
          partition' = [m \in Models |->
            [partition[m] EXCEPT !.indices = IF m = "SGP4" THEN sgp4 ELSE sdp4]]
    BY DEF InitSatellites
  <2>3. /\ partition'["SGP4"].indices = sgp4
        /\ partition'["SDP4"].indices = sdp4
    <3>1. \A m \in Models : partition[m] \in [indices : Seq(Nat \ {0}),
                                              params : {None} \cup Seq(Sgp4ParamsGpu),
                                              map : {None} \cup Seq(Nat \ {0})]
      BY DEF TypeOK
    <3> QED BY <2>2, <3>1 DEF Models
  <2>4. /\ Lists(sgp4, {i \in DOMAIN ts : UsesSgp4(ts[i], override) <=> "SGP4" = "SGP4"})
        /\ Lists(sdp4, {i \in DOMAIN ts : UsesSgp4(ts[i], override) <=> "SDP4" = "SGP4"})
    BY <1>1, IndicesAreLists
  <2>5. \A m \in Models :
          Chosen(tles, m)' = {i \in DOMAIN ts : UsesSgp4(ts[i], override) <=> m = "SGP4"}
    BY <2>1 DEF Chosen
  <2>6. Divided(tles)'
    <3>1. Lists(partition["SGP4"].indices, Chosen(tles, "SGP4"))'
      BY <2>3, <2>4, <2>5 DEF Models
    <3>2. Lists(partition["SDP4"].indices, Chosen(tles, "SDP4"))'
      BY <2>3, <2>4, <2>5 DEF Models
    <3> QED BY <3>1, <3>2 DEF Divided, Models
  <2> QED BY <2>1, <2>6 DEF CopiesInv, LoadInv, KeptInv, ForceInv
<1> QED BY <1>2, <1>3

LEMMA ParametersAre ==
  \A sat, force : Parameters(sat, force) = [sat |-> sat, deep |-> sat \in Deep, forced |-> force]
<1>1. \A s, d, f, g : [[sat |-> s, deep |-> d, forced |-> f] EXCEPT !.forced = g]
                         = [sat |-> s, deep |-> d, forced |-> g]
  OBVIOUS
<1> SUFFICES ASSUME NEW sat, NEW force
             PROVE  Parameters(sat, force)
                      = [sat |-> sat, deep |-> sat \in Deep, forced |-> force]
  OBVIOUS
<1> DEFINE d == sat \in Deep
<1>2. Parameters(sat, force) = [[sat |-> sat, deep |-> d, forced |-> FALSE] EXCEPT !.forced = force]
  BY DEF Parameters, InitKernel
<1>3. [sat |-> sat, deep |-> sat \in Deep, forced |-> force]
        = [sat |-> sat, deep |-> d, forced |-> force]
  OBVIOUS
<1> HIDE DEF d
<1> QED BY <1>1, <1>2, <1>3

(* What the init kernel makes is not forced.                               *)
LEMMA InitiallyUnforced ==
  \A sat : InitKernel(sat) = Parameters(sat, FALSE)
  BY ParametersAre DEF InitKernel

LEMMA CopiesLoadPartition ==
  ASSUME TypeOK, CopiesInv, NEW m \in Models, NEW here, NEW next,
         \/ m = "SGP4" /\ here = "load_sgp4" /\ next = "load_sdp4"
         \/ m = "SDP4" /\ here = "load_sdp4" /\ next = "load_unified",
         LoadPartition(m, here, next)
  PROVE  CopiesInv'
<1>1. /\ loaded = None /\ forced = FALSE
      /\ tles \in TleLists /\ n_satellites = Len(tles)
      /\ Divided(tles)
      /\ here # "load_sgp4" => HeldByModel("SGP4", tles, FALSE)
  BY DEF CopiesInv, LoadInv, LoadPartition
<1>2. UNCHANGED <<n_satellites, params_gpu, loaded, forced, mode>>
  BY DEF LoadPartition
<1>3. CASE pc' = "idle"
  BY <1>1, <1>2, <1>3 DEF CopiesInv, LoadInv, KeptInv, ForceInv
<1>4. CASE pc' # "idle"
  <2> DEFINE indices == partition[m].indices
             params == [p \in DOMAIN indices |-> InitKernel(tles[indices[p]])]
  <2>1. /\ pc' = next /\ tles' = tles
        /\ \/ indices = <<>> /\ partition' = [partition EXCEPT ![m].params = None, ![m].map = None]
           \/ indices # <<>> /\ partition' = [partition EXCEPT ![m].params = params,
                                                              ![m].map = indices]
    BY <1>4 DEF LoadPartition, Goto, Fail, ReturnWith, args
  <2>2. params = [p \in DOMAIN indices |-> Parameters(tles[indices[p]], FALSE)]
    BY InitiallyUnforced
  <2> HIDE DEF params
  <2>3. \A k \in Models : partition[k] \in [indices : Seq(Nat \ {0}),
                                            params : {None} \cup Seq(Sgp4ParamsGpu),
                                            map : {None} \cup Seq(Nat \ {0})]
    BY DEF TypeOK
  <2>4. /\ \A k \in Models : partition'[k].indices = partition[k].indices
        /\ \A k \in Models \ {m} : partition'[k] = partition[k]
        /\ indices = <<>> => partition'[m].params = None /\ partition'[m].map = None
        /\ indices # <<>> => partition'[m].params = params /\ partition'[m].map = indices
    <3> HIDE DEF indices
    <3>1. m \in Models /\ DOMAIN partition = Models
      BY DEF Models, TypeOK
    <3>2. CASE indices = <<>>
      <4>1. partition' = [partition EXCEPT ![m].params = None, ![m].map = None]
        BY <2>1, <3>2
      <4> QED BY <2>3, <3>1, <3>2, <4>1
    <3>3. CASE indices # <<>>
      <4>1. partition' = [partition EXCEPT ![m].params = params, ![m].map = indices]
        BY <2>1, <3>3
      <4> QED BY <2>3, <3>1, <3>3, <4>1
    <3> QED BY <3>2, <3>3
  <2>5. HeldByModel(m, tles, FALSE)'
    BY <2>1, <2>2, <2>4 DEF HeldByModel
  <2>6. here # "load_sgp4" => HeldByModel("SGP4", tles, FALSE)'
    BY <1>1, <2>1, <2>4 DEF HeldByModel, Models
  <2>7. Divided(tles)'
    BY <1>1, <1>2, <2>1, <2>4 DEF Divided, Chosen
  <2> QED BY <1>1, <1>2, <2>1, <2>5, <2>6, <2>7 DEF CopiesInv, LoadInv, KeptInv, ForceInv
<1> QED BY <1>3, <1>4

LEMMA CopiesLoadUnified ==
  ASSUME TypeOK, CopiesInv, LoadUnified
  PROVE  CopiesInv'
<1>1. /\ loaded = None /\ forced = FALSE
      /\ tles \in TleLists /\ n_satellites = Len(tles)
      /\ Divided(tles)
      /\ HeldByModel("SGP4", tles, FALSE) /\ HeldByModel("SDP4", tles, FALSE)
  BY DEF CopiesInv, LoadInv, LoadUnified
<1>2. UNCHANGED <<n_satellites, partition, forced, mode>> /\ pc' = "idle"
  BY DEF LoadUnified, Return, Fail, ReturnWith
<1>3. CASE loaded' = None
  BY <1>2, <1>3 DEF CopiesInv, LoadInv, KeptInv, ForceInv
<1>4. CASE loaded' # None
  <2>1. loaded' = tles /\ params_gpu' = [i \in DOMAIN tles |-> InitKernel(tles[i])]
    BY <1>1, <1>4 DEF LoadUnified
  <2>2. HeldByUnified(loaded, FALSE)'
    BY <2>1, InitiallyUnforced DEF HeldByUnified
  <2>3. \A m \in Models : HeldByModel(m, loaded, FALSE)'
    BY <1>1, <1>2, <2>1 DEF HeldByModel, Models
  <2>4. Divided(loaded)'
    BY <1>1, <1>2, <2>1 DEF Divided, Chosen
  <2>5. loaded' \in Seq(Satellites) /\ n_satellites' = Len(loaded')
    BY <1>1, <1>2, <2>1, DataAssumption
  <2> QED BY <1>1, <1>2, <2>2, <2>3, <2>4, <2>5 DEF CopiesInv, LoadInv, KeptInv, ForceInv
<1> QED BY <1>3, <1>4

(* A copy is a buffer, and an override changes nothing else of it.         *)
LEMMA CopyForced ==
  ASSUME NEW n \in Nat, NEW sats \in [1..n -> Satellites],
         NEW old \in BOOLEAN, NEW new \in BOOLEAN
  PROVE  /\ [p \in 1..n |-> Parameters(sats[p], old)] # None
         /\ WithForce([p \in 1..n |-> Parameters(sats[p], old)], new)
              = [p \in 1..n |-> Parameters(sats[p], new)]
<1> DEFINE copy == [p \in 1..n |-> Parameters(sats[p], old)]
<1>1. ASSUME NEW p \in 1..n PROVE Parameters(sats[p], old) \in Sgp4ParamsGpu
  <2> DEFINE d == sats[p] \in Deep
  <2>1. Parameters(sats[p], old) = [sat |-> sats[p], deep |-> d, forced |-> old]
    BY ParametersAre
  <2>2. d \in BOOLEAN /\ sats[p] \in Satellites
    OBVIOUS
  <2> HIDE DEF d
  <2> QED BY <2>1, <2>2 DEF Sgp4ParamsGpu
<1>2. copy \in [1..n -> Sgp4ParamsGpu]
  BY <1>1
<1>3. copy \in Seq(Sgp4ParamsGpu) /\ copy # None
  BY <1>2, Filled, NoneAssumption
<1>4. ASSUME NEW p \in 1..n
      PROVE  [Parameters(sats[p], old) EXCEPT !.forced = new] = Parameters(sats[p], new)
  <2>1. \A s, d, f, g : [[sat |-> s, deep |-> d, forced |-> f] EXCEPT !.forced = g]
                          = [sat |-> s, deep |-> d, forced |-> g]
    OBVIOUS
  <2> DEFINE d == sats[p] \in Deep
  <2>2. /\ Parameters(sats[p], old) = [sat |-> sats[p], deep |-> d, forced |-> old]
        /\ Parameters(sats[p], new) = [sat |-> sats[p], deep |-> d, forced |-> new]
    BY ParametersAre
  <2> HIDE DEF d
  <2> QED BY <2>1, <2>2
<1>5. DOMAIN copy = 1..n /\ \A p \in 1..n : copy[p] = Parameters(sats[p], old)
  OBVIOUS
<1> HIDE DEF copy
<1>6. WithForce(copy, new) = [p \in 1..n |-> [copy[p] EXCEPT !.forced = new]]
  BY <1>3, <1>5 DEF WithForce
<1>7. WithForce(copy, new) = [p \in 1..n |-> Parameters(sats[p], new)]
  BY <1>4, <1>5, <1>6
<1> QED BY <1>3, <1>7 DEF copy

LEMMA UnifiedForced ==
  ASSUME NEW ts \in Seq(Satellites), NEW old \in BOOLEAN, NEW new \in BOOLEAN,
         HeldByUnified(ts, old)
  PROVE  WithForce(params_gpu, new) = [i \in DOMAIN ts |-> Parameters(ts[i], new)]
<1>1. Len(ts) \in Nat /\ ts \in [1..Len(ts) -> Satellites] /\ DOMAIN ts = 1..Len(ts)
  OBVIOUS
<1> QED BY <1>1, CopyForced DEF HeldByUnified

(* The list of a model names positions of the load.                        *)
LEMMA ListedSatellites ==
  ASSUME NEW ts \in Seq(Satellites), NEW m \in Models, Divided(ts)
  PROVE  LET indices == partition[m].indices
         IN  /\ Len(indices) \in Nat /\ DOMAIN indices = 1..Len(indices)
             /\ \A p \in 1..Len(indices) : indices[p] \in Chosen(ts, m)
             /\ Chosen(ts, m) \subseteq 1..Len(ts)
             /\ [p \in 1..Len(indices) |-> ts[indices[p]]] \in [1..Len(indices) -> Satellites]
<1> DEFINE indices == partition[m].indices
<1>1. indices \in Seq(Chosen(ts, m))
  BY DEF Divided, Lists
<1>2. Chosen(ts, m) \subseteq 1..Len(ts)
  BY DEF Chosen
<1> HIDE DEF indices
<1>3. /\ Len(indices) \in Nat /\ DOMAIN indices = 1..Len(indices)
      /\ \A p \in 1..Len(indices) : indices[p] \in Chosen(ts, m)
  BY <1>1
<1>4. \A p \in 1..Len(indices) : ts[indices[p]] \in Satellites
  BY <1>2, <1>3, InList
<1> QED BY <1>2, <1>3, <1>4 DEF indices

LEMMA ModelForced ==
  ASSUME NEW ts \in Seq(Satellites), NEW m \in Models, Divided(ts),
         NEW old \in BOOLEAN, NEW new \in BOOLEAN,
         HeldByModel(m, ts, old), partition[m].indices # <<>>
  PROVE  /\ partition[m].params # None
         /\ WithForce(partition[m].params, new)
              = [p \in DOMAIN partition[m].indices |->
                   Parameters(ts[partition[m].indices[p]], new)]
<1> DEFINE indices == partition[m].indices
           sats == [p \in 1..Len(indices) |-> ts[indices[p]]]
<1>1. /\ Len(indices) \in Nat /\ DOMAIN indices = 1..Len(indices)
      /\ sats \in [1..Len(indices) -> Satellites]
  BY ListedSatellites
<1>2. \A force : [p \in DOMAIN indices |-> Parameters(ts[indices[p]], force)]
                   = [p \in 1..Len(indices) |-> Parameters(sats[p], force)]
  BY <1>1
<1>3. partition[m].params = [p \in DOMAIN indices |-> Parameters(ts[indices[p]], old)]
  BY DEF HeldByModel
<1> HIDE DEF indices, sats
<1> DEFINE n == Len(indices)
           copy(force) == [p \in 1..n |-> Parameters(sats[p], force)]
<1>4. n \in Nat /\ sats \in [1..n -> Satellites]
  BY <1>1
<1>5. copy(old) # None /\ WithForce(copy(old), new) = copy(new)
  <2> HIDE DEF n
  <2> QED BY <1>4, CopyForced
<1>6. partition[m].params = copy(old)
  BY <1>2, <1>3
<1> HIDE DEF copy
<1>7. partition[m].params # None /\ WithForce(partition[m].params, new) = copy(new)
  BY <1>5, <1>6
<1>8. copy(new) = [p \in DOMAIN indices |-> Parameters(ts[indices[p]], new)]
  BY <1>2 DEF copy
<1> QED BY <1>7, <1>8 DEF indices

LEMMA CopiesSetForce ==
  ASSUME TypeOK, CopiesInv, NEW force \in BOOLEAN, SetForceNearEarthOverride(force)
  PROVE  CopiesInv'
<1>1. UNCHANGED <<device, loaded, mode>> /\ pc = "idle"
  BY DEF SetForceNearEarthOverride
<1>2. CASE n_satellites = 0
  <2>1. UNCHANGED copies /\ pc' = "idle"
    BY <1>1, <1>2 DEF SetForceNearEarthOverride, copies
  <2> QED BY <2>1, CopiesAside
<1>3. CASE n_satellites # 0
  <2>1. pc' = "force_unified" /\ forced' = None
    BY <1>3 DEF SetForceNearEarthOverride
  <2>2. KeptInv'
    BY <1>1, <2>1 DEF CopiesInv, KeptInv, device, Divided, Chosen, HeldByUnified, HeldByModel
  <2> QED BY <2>1, <2>2 DEF CopiesInv, LoadInv, ForceInv
<1> QED BY <1>2, <1>3

LEMMA CopiesForceUnified ==
  ASSUME TypeOK, CopiesInv, ForceUnified
  PROVE  CopiesInv'
<1>1. forced = None /\ forcing \in BOOLEAN
  BY DEF CopiesInv, ForceInv, ForceUnified, TypeOK
<1>2. UNCHANGED <<n_satellites, partition, loaded, forced, mode>>
  BY DEF ForceUnified
<1>3. CASE Fail
  <2>1. CASE params_gpu' = params_gpu
    <3>1. UNCHANGED copies /\ pc' = "idle"
      BY <1>2, <1>3, <2>1 DEF copies, device, Fail, ReturnWith
    <3> QED BY <3>1, CopiesAside
  <2>2. CASE params_gpu' # params_gpu
    BY <1>3, <2>2 DEF ForceUnified, Fail, ReturnWith, Goto
  <2> QED BY <2>1, <2>2
<1>4. CASE ~Fail
  <2>1. /\ params_gpu' = WithForce(params_gpu, forcing)
        /\ pc' = "force_sgp4" /\ forcing' = forcing
    BY <1>4 DEF ForceUnified, Goto, args
  <2>2. ASSUME loaded \notin {None, <<>>} PROVE HeldByUnified(loaded, forcing)'
    <3>1. loaded \in Seq(Satellites)
      BY <2>2 DEF CopiesInv, KeptInv
    <3>2. PICK old \in BOOLEAN : HeldByUnified(loaded, old)
      BY <2>2 DEF CopiesInv, KeptInv
    <3>3. WithForce(params_gpu, forcing) = [i \in DOMAIN loaded |-> Parameters(loaded[i], forcing)]
      BY <1>1, <3>1, <3>2, UnifiedForced
    <3> QED BY <1>2, <2>1, <3>3 DEF HeldByUnified
  <2>3. loaded \notin {None, <<>>} =>
          /\ Divided(loaded)'
          /\ \A m \in Models : \E force \in BOOLEAN : HeldByModel(m, loaded, force)'
    BY <1>2 DEF CopiesInv, KeptInv, Divided, Chosen, HeldByModel
  <2>4. forced' = None /\ forcing' \in BOOLEAN /\ loaded' = loaded
    BY <1>1, <1>2, <2>1
  <2>5. KeptInv'
    <3>1. loaded # None => loaded' \in Seq(Satellites) /\ n_satellites' = Len(loaded')
      BY <1>2 DEF CopiesInv, KeptInv
    <3> QED BY <2>2, <2>3, <2>4, <3>1 DEF KeptInv
  <2> QED BY <2>1, <2>2, <2>4, <2>5 DEF CopiesInv, LoadInv, ForceInv
<1> QED BY <1>3, <1>4

LEMMA CopiesForcePartition ==
  ASSUME TypeOK, CopiesInv, NEW m \in Models, NEW here, NEW next,
         \/ m = "SGP4" /\ here = "force_sgp4" /\ next = "force_sdp4"
         \/ m = "SDP4" /\ here = "force_sdp4" /\ next = "force_sync",
         ForcePartition(m, here, next)
  PROVE  CopiesInv'
<1>1. forced = None /\ forcing \in BOOLEAN /\ pc = here
  BY DEF CopiesInv, ForceInv, ForcePartition, TypeOK
<1>2. UNCHANGED <<n_satellites, params_gpu, loaded, forced, mode>>
  BY DEF ForcePartition
<1>3. CASE partition' = partition /\ Fail
  <2>1. UNCHANGED copies /\ pc' = "idle"
    BY <1>2, <1>3 DEF copies, device, Fail, ReturnWith
  <2> QED BY <2>1, CopiesAside
<1>4. CASE ~(partition' = partition /\ Fail)
  <2> DEFINE forcedParams == WithForce(partition[m].params, forcing)
  <2>1. /\ partition' = [partition EXCEPT ![m].params = forcedParams]
        /\ pc' = next /\ forcing' = forcing
    BY <1>4 DEF ForcePartition, Goto, args, TypeOK
  <2>2. \A k \in Models : partition[k] \in [indices : Seq(Nat \ {0}),
                                            params : {None} \cup Seq(Sgp4ParamsGpu),
                                            map : {None} \cup Seq(Nat \ {0})]
    BY DEF TypeOK
  <2> HIDE DEF forcedParams
  <2>3. /\ \A k \in Models : /\ partition'[k].indices = partition[k].indices
                             /\ partition'[k].map = partition[k].map
        /\ \A k \in Models \ {m} : partition'[k] = partition[k]
        /\ partition'[m].params = forcedParams
    BY <2>1, <2>2 DEF TypeOK
  <2>4. ASSUME loaded \notin {None, <<>>}
        PROVE  HeldByModel(m, loaded, forcing)'
    <3>1. loaded \in Seq(Satellites) /\ Divided(loaded)
      BY <2>4 DEF CopiesInv, KeptInv
    <3>2. PICK old \in BOOLEAN : HeldByModel(m, loaded, old)
      BY <2>4 DEF CopiesInv, KeptInv
    <3>3. CASE partition[m].indices = <<>>
      <4>1. partition[m].params = None /\ partition[m].map = None
        BY <3>2, <3>3 DEF HeldByModel
      <4>2. forcedParams = None
        BY <4>1 DEF WithForce, forcedParams
      <4> QED BY <3>3, <4>1, <4>2, <2>3 DEF HeldByModel
    <3>4. CASE partition[m].indices # <<>>
      <4>1. partition[m].map = partition[m].indices
        BY <3>2, <3>4 DEF HeldByModel
      <4>2. forcedParams = [p \in DOMAIN partition[m].indices |->
                              Parameters(loaded[partition[m].indices[p]], forcing)]
        BY <1>1, <3>1, <3>2, <3>4, ModelForced DEF forcedParams
      <4> QED BY <1>2, <3>4, <4>1, <4>2, <2>1, <2>3 DEF HeldByModel
    <3> QED BY <3>3, <3>4
  <2>5. \A k \in Models \ {m}, force \in BOOLEAN :
          HeldByModel(k, loaded, force) => HeldByModel(k, loaded, force)'
    BY <1>2, <2>3 DEF HeldByModel
  <2>6. loaded \notin {None, <<>>} =>
          /\ Divided(loaded)'
          /\ \E force \in BOOLEAN : HeldByUnified(loaded, force)'
          /\ HeldByUnified(loaded, forcing)'
    <3>1. Divided(loaded) => Divided(loaded)'
      BY <1>2, <2>3 DEF Divided, Chosen
    <3>2. pc \in {"force_sgp4", "force_sdp4"}
      BY <1>1
    <3>3. loaded \notin {None, <<>>} => Divided(loaded) /\ HeldByUnified(loaded, forcing)
      BY <3>2 DEF CopiesInv, KeptInv, ForceInv
    <3>4. HeldByUnified(loaded, forcing) => HeldByUnified(loaded, forcing)'
      BY <1>2, <2>1 DEF HeldByUnified
    <3>5. forcing' \in BOOLEAN
      BY <1>1, <2>1
    <3> QED BY <3>1, <3>3, <3>4, <3>5, <1>1, <2>1
  <2>7. loaded \notin {None, <<>>} =>
          \A k \in Models : \E force \in BOOLEAN : HeldByModel(k, loaded, force)'
    <3> SUFFICES ASSUME loaded \notin {None, <<>>}, NEW k \in Models
                 PROVE  \E force \in BOOLEAN : HeldByModel(k, loaded, force)'
      OBVIOUS
    <3>1. CASE k = m
      BY <3>1, <2>4, <2>1, <1>1
    <3>2. CASE k # m
      <4>1. PICK force \in BOOLEAN : HeldByModel(k, loaded, force)
        BY DEF CopiesInv, KeptInv
      <4> QED BY <4>1, <3>2, <2>5
    <3> QED BY <3>1, <3>2
  <2>8. KeptInv'
    <3>1. loaded # None => loaded' \in Seq(Satellites) /\ n_satellites' = Len(loaded')
      BY <1>2 DEF CopiesInv, KeptInv
    <3>2. forced' = None /\ loaded' = loaded
      BY <1>1, <1>2
    <3> QED BY <2>6, <2>7, <3>1, <3>2 DEF KeptInv
  <2>9. ForceInv'
    <3>1. next = "force_sync" => HeldByModel("SGP4", loaded, forcing) \/ loaded \in {None, <<>>}
      BY <1>1 DEF CopiesInv, ForceInv
    <3>2. next = "force_sync" => HeldByModel("SGP4", loaded, forcing)' \/ loaded \in {None, <<>>}
      BY <1>1, <2>1, <2>5, <3>1 DEF Models
    <3>3. forced' = None /\ loaded' = loaded /\ pc' = next
      BY <1>1, <1>2, <2>1
    <3> QED BY <2>4, <2>6, <3>2, <3>3 DEF ForceInv
  <2>10. LoadInv'
    BY <2>1 DEF LoadInv
  <2> QED BY <2>8, <2>9, <2>10 DEF CopiesInv
<1> QED BY <1>3, <1>4

LEMMA CopiesForceSync ==
  ASSUME TypeOK, CopiesInv, ForceSync
  PROVE  CopiesInv'
<1>1. UNCHANGED <<device, loaded, mode>> /\ pc' = "idle"
  BY DEF ForceSync, Return, Fail, ReturnWith
<1>2. CASE forced' = forced
  <2>1. UNCHANGED copies
    BY <1>1, <1>2 DEF copies
  <2> QED BY <1>1, <2>1, CopiesAside
<1>3. CASE forced' # forced
  <2>1. forced' = forcing /\ pc = "force_sync"
    BY <1>3 DEF ForceSync
  <2>2. loaded \notin {None, <<>>} =>
          /\ HeldByUnified(loaded, forcing)
          /\ \A m \in Models : HeldByModel(m, loaded, forcing)
    BY <2>1 DEF CopiesInv, ForceInv, Models
  <2>3. loaded \notin {None, <<>>} =>
          /\ Divided(loaded)'
          /\ HeldByUnified(loaded, forced)'
          /\ \A m \in Models : HeldByModel(m, loaded, forced)'
    <3>1. /\ Divided(loaded) => Divided(loaded)'
          /\ HeldByUnified(loaded, forcing) => HeldByUnified(loaded, forced)'
          /\ \A m \in Models : HeldByModel(m, loaded, forcing) => HeldByModel(m, loaded, forced)'
      BY <1>1, <2>1 DEF device, Divided, Chosen, HeldByUnified, HeldByModel
    <3> QED BY <2>2, <3>1 DEF CopiesInv, KeptInv
  <2>4. forced' \in BOOLEAN
    BY <2>1 DEF TypeOK
  <2>5. loaded # None => loaded' \in Seq(Satellites) /\ n_satellites' = Len(loaded')
    BY <1>1 DEF CopiesInv, KeptInv, device
  <2>6. KeptInv'
    BY <1>1, <2>3, <2>4, <2>5 DEF KeptInv
  <2> QED BY <1>1, <2>6 DEF CopiesInv, LoadInv, ForceInv
<1> QED BY <1>2, <1>3

LEMMA CopiesStep == TypeOK /\ CopiesInv /\ [Next]_vars => CopiesInv'
<1> SUFFICES ASSUME TypeOK, CopiesInv, [Next]_vars PROVE CopiesInv'
  OBVIOUS
<1>1. CASE Loading
  <2>1. "SGP4" \in Models /\ "SDP4" \in Models
    BY DEF Models
  <2> QED BY <1>1, <2>1, CopiesInitSatellites, CopiesLoadPartition, CopiesLoadUnified
          DEF Loading
<1>2. CASE Forcing
  <2>1. "SGP4" \in Models /\ "SDP4" \in Models
    BY DEF Models
  <2> QED BY <1>2, <2>1, CopiesSetForce, CopiesForceUnified, CopiesForcePartition,
             CopiesForceSync DEF Forcing
<1>3. CASE UNCHANGED vars
  <2>1. UNCHANGED copies /\ UNCHANGED <<pc, tles, forcing>>
    BY <1>3 DEF vars, args, copies
  <2>2. KeptInv'
    BY <2>1, KeptStays DEF CopiesInv
  <2>3. LoadInv'
    BY <2>1 DEF CopiesInv, LoadInv, copies, device, Divided, Chosen, HeldByModel
  <2>4. ForceInv'
    BY <2>1 DEF CopiesInv, ForceInv, copies, device, HeldByUnified, HeldByModel
  <2> QED BY <2>2, <2>3, <2>4 DEF CopiesInv
<1> QED BY <1>1, <1>2, <1>3, PropagatingAside, CachesAside DEF Next

-----------------------------------------------------------------------------
(* What the copies say of a loaded list.                                   *)
LEMMA ForceOfCopies ==
  ASSUME TypeOK, KeptInv, loaded \notin {None, <<>>}
  PROVE  /\ loaded \in Seq(Satellites) /\ n_satellites = Len(loaded) /\ Divided(loaded)
         /\ \E force \in BOOLEAN : HeldByUnified(loaded, force) /\ (forced # None => force = forced)
         /\ \A m \in Models : \E force \in BOOLEAN :
              HeldByModel(m, loaded, force) /\ (forced # None => force = forced)
<1>1. CASE forced = None
  BY <1>1 DEF KeptInv
<1>2. CASE forced # None
  BY <1>2 DEF KeptInv, TypeOK
<1> QED BY <1>1, <1>2

(* A model that gets any satellite has its parameters and its map.         *)
LEMMA PartitionReady ==
  ASSUME NEW ts \in Seq(Satellites), NEW m \in Models, NEW force \in BOOLEAN,
         Divided(ts), HeldByModel(m, ts, force), partition[m].indices # <<>>
  PROVE  LET part == partition[m]
         IN  /\ part.params # None /\ part.map # None
             /\ part.map \in Seq(Chosen(ts, m)) /\ Len(part.map) = Len(part.indices)
             /\ \A p, q \in DOMAIN part.map : part.map[p] = part.map[q] => p = q
             /\ \A i \in Chosen(ts, m) : \E p \in DOMAIN part.map : part.map[p] = i
             /\ DOMAIN part.params = DOMAIN part.map
             /\ \A p \in DOMAIN part.map : part.params[p] = Parameters(ts[part.map[p]], force)
<1>1. partition[m].params # None
  BY ModelForced
<1>2. /\ partition[m].map = partition[m].indices
      /\ partition[m].params = [p \in DOMAIN partition[m].indices |->
                                  Parameters(ts[partition[m].indices[p]], force)]
  BY DEF HeldByModel
<1>3. Lists(partition[m].indices, Chosen(ts, m))
  BY DEF Divided
<1>4. partition[m].map # None
  <2>1. Chosen(ts, m) \subseteq Nat \ {0}
    BY DEF Chosen
  <2>2. partition[m].indices \in Seq(Nat \ {0})
    BY <1>3, <2>1 DEF Lists
  <2> QED BY <1>2, <2>2, NoneAssumption
<1> QED BY <1>1, <1>2, <1>3, <1>4 DEF Lists

LEMMA PartitionEmpty ==
  ASSUME NEW ts \in Seq(Satellites), NEW m \in Models, NEW force,
         Divided(ts), HeldByModel(m, ts, force), partition[m].indices = <<>>
  PROVE  partition[m].map = None /\ Chosen(ts, m) = {}
<1>1. Lists(partition[m].indices, Chosen(ts, m))
  BY DEF Divided
<1> QED BY <1>1 DEF HeldByModel, Lists

LEMMA ModelsDivide ==
  ASSUME NEW ts, NEW i \in DOMAIN ts
  PROVE  \E m \in Models : i \in Chosen(ts, m) /\ \A k \in Models \ {m} : i \notin Chosen(ts, k)
<1>1. CASE UsesSgp4(ts[i], mode)
  <2>1. i \in Chosen(ts, "SGP4") /\ i \notin Chosen(ts, "SDP4")
    BY <1>1 DEF Chosen
  <2> QED BY <2>1 DEF Models
<1>2. CASE ~UsesSgp4(ts[i], mode)
  <2>1. i \notin Chosen(ts, "SGP4") /\ i \in Chosen(ts, "SDP4")
    BY <1>2 DEF Chosen
  <2> QED BY <2>1 DEF Models
<1> QED BY <1>1, <1>2

LEMMA CopiesAgreeOfInv == TypeOK /\ CopiesInv => CopiesAgree
<1> SUFFICES ASSUME TypeOK, KeptInv, loaded \notin {None, <<>>}, forced # None
             PROVE  /\ params_gpu = [i \in DOMAIN loaded |->
                                       [InitKernel(loaded[i]) EXCEPT !.forced = forced]]
                    /\ \A i \in DOMAIN loaded : \E m \in Models :
                         /\ partition[m].params # None /\ partition[m].map # None
                         /\ \E p \in DOMAIN partition[m].map :
                              partition[m].map[p] = i /\ partition[m].params[p] = params_gpu[i]
                         /\ \A other \in Models \ {m} :
                              partition[other].map # None =>
                                \A p \in DOMAIN partition[other].map : partition[other].map[p] # i
  BY DEF CopiesInv, CopiesAgree
<1>1. /\ loaded \in Seq(Satellites) /\ Divided(loaded) /\ forced \in BOOLEAN
      /\ HeldByUnified(loaded, forced)
      /\ \A m \in Models : HeldByModel(m, loaded, forced)
  BY DEF KeptInv, TypeOK
<1>2. params_gpu = [i \in DOMAIN loaded |-> Parameters(loaded[i], forced)]
  BY <1>1 DEF HeldByUnified
<1>3. ASSUME NEW i \in DOMAIN loaded
      PROVE  \E m \in Models :
               /\ partition[m].params # None /\ partition[m].map # None
               /\ \E p \in DOMAIN partition[m].map :
                    partition[m].map[p] = i /\ partition[m].params[p] = params_gpu[i]
               /\ \A other \in Models \ {m} :
                    partition[other].map # None =>
                      \A p \in DOMAIN partition[other].map : partition[other].map[p] # i
  <2>1. PICK m \in Models :
          i \in Chosen(loaded, m) /\ \A k \in Models \ {m} : i \notin Chosen(loaded, k)
    BY ModelsDivide
  <2>2. partition[m].indices # <<>>
    BY <1>1, <2>1, PartitionEmpty
  <2>3. /\ partition[m].params # None /\ partition[m].map # None
        /\ \E p \in DOMAIN partition[m].map : partition[m].map[p] = i
        /\ \A p \in DOMAIN partition[m].map :
             partition[m].params[p] = Parameters(loaded[partition[m].map[p]], forced)
    BY <1>1, <2>1, <2>2, PartitionReady
  <2>4. \E p \in DOMAIN partition[m].map :
          partition[m].map[p] = i /\ partition[m].params[p] = params_gpu[i]
    BY <1>2, <2>3
  <2>5. ASSUME NEW other \in Models \ {m}, partition[other].map # None,
               NEW p \in DOMAIN partition[other].map
        PROVE  partition[other].map[p] # i
    <3>1. partition[other].indices # <<>>
      BY <1>1, <2>5, PartitionEmpty
    <3>2. partition[other].map \in Seq(Chosen(loaded, other))
      BY <1>1, <3>1, PartitionReady
    <3>3. partition[other].map[p] \in Chosen(loaded, other)
      BY <3>2, InList
    <3> QED BY <2>1, <3>3
  <2> QED BY <2>3, <2>4, <2>5
<1> QED BY <1>2, <1>3 DEF Parameters

-----------------------------------------------------------------------------
(* The launches.                                                           *)
LEMMA AosInBounds ==
  ASSUME NEW n \in Nat, NEW len \in Nat, NEW buffer \in Seq(Sgp4StateGpu), Len(buffer) = n * len,
         NEW params, DOMAIN params = 1..n
  PROVE  LaunchInBounds(buffer, params, AosSlots(n, len))
<1> DEFINE slots == AosSlots(n, len)
<1>1. /\ DOMAIN slots = (1..n) \X (1..len)
      /\ \A thread \in DOMAIN slots :
           slots[thread] = Promise!SatMajor(thread[1], thread[2], len)
  BY DEF AosSlots
<1> HIDE DEF slots
<1>2. DOMAIN buffer = 1..(n * len)
  OBVIOUS
<1>3. ASSUME NEW thread \in DOMAIN slots
      PROVE  thread[1] \in DOMAIN params /\ slots[thread] \in DOMAIN buffer
  <2>1. thread[1] \in 1..n /\ thread[2] \in 1..len
    BY <1>1
  <2>2. Promise!SatMajor(thread[1], thread[2], len) \in 1..(n * len)
    BY <2>1, Row
  <2> QED BY <1>1, <1>2, <2>1, <2>2
<1>4. ASSUME NEW a \in DOMAIN slots, NEW b \in DOMAIN slots, slots[a] = slots[b] PROVE a = b
  <2>1. /\ a[1] \in 1..n /\ a[2] \in 1..len /\ b[1] \in 1..n /\ b[2] \in 1..len
        /\ a = <<a[1], a[2]>> /\ b = <<b[1], b[2]>>
    BY <1>1
  <2>2. Promise!SatMajor(a[1], a[2], len) = Promise!SatMajor(b[1], b[2], len)
    BY <1>1, <1>4
  <2>3. a[1] = b[1] /\ a[2] = b[2]
    BY <2>1, <2>2, RowsApart
  <2> QED BY <2>1, <2>3
<1> QED BY <1>3, <1>4 DEF LaunchInBounds, slots

(* A launch over a partition; over all satellites, the map is the identity.*)
LEMMA IndexedInBounds ==
  ASSUME NEW n \in Nat, NEW len \in Nat, NEW buffer \in Seq(Sgp4StateGpu), Len(buffer) = n * len,
         NEW map \in Seq(1..n), \A p, q \in DOMAIN map : map[p] = map[q] => p = q,
         NEW params, DOMAIN params = DOMAIN map,
         NEW slots, DOMAIN slots = (DOMAIN map) \X (1..len),
         \A thread \in DOMAIN slots :
           slots[thread] = Promise!TimeMajor(map[thread[1]], thread[2], n)
  PROVE  LaunchInBounds(buffer, params, slots)
<1>1. DOMAIN buffer = 1..(n * len) /\ \A p \in DOMAIN map : map[p] \in 1..n
  OBVIOUS
<1>2. ASSUME NEW thread \in DOMAIN slots
      PROVE  thread[1] \in DOMAIN params /\ slots[thread] \in DOMAIN buffer
  <2>1. thread[1] \in DOMAIN map /\ thread[2] \in 1..len /\ map[thread[1]] \in 1..n
    BY <1>1
  <2>2. Promise!TimeMajor(map[thread[1]], thread[2], n) \in 1..(n * len)
    BY <2>1, Column
  <2> QED BY <1>1, <2>1, <2>2
<1>3. ASSUME NEW a \in DOMAIN slots, NEW b \in DOMAIN slots, slots[a] = slots[b] PROVE a = b
  <2>1. /\ a[1] \in DOMAIN map /\ a[2] \in 1..len /\ b[1] \in DOMAIN map /\ b[2] \in 1..len
        /\ a = <<a[1], a[2]>> /\ b = <<b[1], b[2]>>
        /\ map[a[1]] \in 1..n /\ map[b[1]] \in 1..n
    BY <1>1
  <2> DEFINE i == map[a[1]]
             j == map[b[1]]
             t == a[2]
             u == b[2]
  <2>2. i \in 1..n /\ j \in 1..n /\ t \in 1..len /\ u \in 1..len
    BY <2>1
  <2>3. Promise!TimeMajor(i, t, n) = Promise!TimeMajor(j, u, n)
    BY <1>3
  <2>4. i = j /\ t = u
    <3> HIDE DEF i, j, t, u
    <3> QED BY <2>2, <2>3, ColumnsApart
  <2> QED BY <2>1, <2>4
<1> QED BY <1>2, <1>3 DEF LaunchInBounds

LEMMA SoaInBounds ==
  ASSUME NEW n \in Nat, NEW len \in Nat, NEW buffer \in Seq(Sgp4StateGpu), Len(buffer) = n * len,
         NEW params, DOMAIN params = 1..n
  PROVE  LaunchInBounds(buffer, params, SoaSlots(n, len))
<1> DEFINE map == [i \in 1..n |-> i]
           slots == SoaSlots(n, len)
<1>1. map \in [1..n -> 1..n]
  OBVIOUS
<1>2. map \in Seq(1..n) /\ DOMAIN map = 1..n /\ \A i \in 1..n : map[i] = i
  BY <1>1, Filled
<1>3. /\ DOMAIN slots = (1..n) \X (1..len)
      /\ \A thread \in DOMAIN slots :
           slots[thread] = Promise!TimeMajor(thread[1], thread[2], n)
  BY DEF SoaSlots
<1> HIDE DEF map, slots
<1>4. \A thread \in DOMAIN slots :
        slots[thread] = Promise!TimeMajor(map[thread[1]], thread[2], n)
  BY <1>2, <1>3
<1>5. DOMAIN slots = (DOMAIN map) \X (1..len) /\ DOMAIN params = DOMAIN map
  BY <1>2, <1>3
<1>6. \A p, q \in DOMAIN map : map[p] = map[q] => p = q
  BY <1>2
<1>7. LaunchInBounds(buffer, params, slots)
  BY <1>2, <1>4, <1>5, <1>6, IndexedInBounds
<1> QED BY <1>7 DEF slots

(* The threads of a partition.                                             *)
LEMMA PartitionInBounds ==
  ASSUME TypeOK, CopiesInv, RunInv, loaded # None, NEW m \in Models,
         pc \in {"run_sgp4", "run_sdp4"},
         partition[m].params # None /\ partition[m].map # None
  PROVE  /\ LaunchInBounds(cached_soa_buffers, partition[m].params, PartitionSlots(m))
         /\ DOMAIN PartitionSlots(m) = (DOMAIN partition[m].map) \X (1..Len(times))
         /\ \A thread \in DOMAIN PartitionSlots(m) :
              PartitionSlots(m)[thread]
                = Promise!TimeMajor(partition[m].map[thread[1]], thread[2], n_satellites)
<1>1. /\ n_satellites \in Nat /\ n_satellites # 0 /\ Len(times) \in Nat
      /\ cached_soa_buffers \in Seq(Sgp4StateGpu)
      /\ Len(cached_soa_buffers) = n_satellites * Len(times)
  BY DatesOnDevice DEF RunInv, RunSoaOrSent, TypeOK
<1>2. loaded \notin {None, <<>>}
  BY <1>1 DEF CopiesInv, KeptInv
<1>3. /\ loaded \in Seq(Satellites) /\ n_satellites = Len(loaded) /\ Divided(loaded)
      /\ \E force \in BOOLEAN : HeldByModel(m, loaded, force)
  BY <1>2, ForceOfCopies DEF CopiesInv
<1>4. PICK force \in BOOLEAN : HeldByModel(m, loaded, force)
  BY <1>3
<1>5. partition[m].indices # <<>>
  BY <1>3, <1>4, PartitionEmpty
<1> DEFINE map == partition[m].map
           slots == PartitionSlots(m)
           params == partition[m].params
<1>6. /\ map \in Seq(Chosen(loaded, m)) /\ Len(map) = Len(partition[m].indices)
      /\ \A p, q \in DOMAIN map : map[p] = map[q] => p = q
      /\ DOMAIN params = DOMAIN map
  BY <1>3, <1>4, <1>5, PartitionReady
<1>7. map \in Seq(1..n_satellites)
  <2>1. Chosen(loaded, m) \subseteq 1..n_satellites
    BY <1>3 DEF Chosen
  <2>2. Len(map) \in Nat /\ map \in [1..Len(map) -> Chosen(loaded, m)]
    BY <1>6
  <2>3. map \in [1..Len(map) -> 1..n_satellites]
    BY <2>1, <2>2
  <2> QED BY <2>2, <2>3, Filled
<1>8. DOMAIN map = (1..Len(partition[m].indices)) \cap DOMAIN map
  BY <1>6
<1>9. /\ DOMAIN slots = (DOMAIN map) \X (1..Len(times))
      /\ \A thread \in DOMAIN slots :
           slots[thread] = Promise!TimeMajor(map[thread[1]], thread[2], n_satellites)
  BY <1>8 DEF PartitionSlots, IndexedSlots
<1> HIDE DEF map, slots, params
<1>10. LaunchInBounds(cached_soa_buffers, params, slots)
  BY <1>1, <1>6, <1>7, <1>9, IndexedInBounds
<1> QED BY <1>9, <1>10 DEF map, slots, params

(* The unified parameters are those of the loaded satellites.              *)
LEMMA UnifiedReady ==
  ASSUME TypeOK, CopiesInv, RunInv, loaded # None,
         pc \in {"run_aos", "run_unified"}
  PROVE  /\ loaded \in Seq(Satellites) /\ n_satellites = Len(loaded)
         /\ DOMAIN params_gpu = 1..n_satellites
         /\ \E force \in BOOLEAN :
              /\ forced # None => force = forced
              /\ \A i \in 1..n_satellites : params_gpu[i] = Parameters(loaded[i], force)
<1>1. n_satellites # 0
  BY DEF RunInv
<1>2. loaded \notin {None, <<>>}
  BY <1>1 DEF CopiesInv, KeptInv
<1>3. /\ loaded \in Seq(Satellites) /\ n_satellites = Len(loaded)
      /\ \E force \in BOOLEAN : HeldByUnified(loaded, force) /\ (forced # None => force = forced)
  BY <1>2, ForceOfCopies DEF CopiesInv
<1>4. PICK force \in BOOLEAN : HeldByUnified(loaded, force) /\ (forced # None => force = forced)
  BY <1>3
<1>5. params_gpu = [i \in 1..n_satellites |-> Parameters(loaded[i], force)]
  BY <1>3, <1>4 DEF HeldByUnified
<1> QED BY <1>3, <1>4, <1>5

LEMMA LaunchesInBoundsOfInv == TypeOK /\ CopiesInv /\ RunInv => LaunchesInBounds
<1> SUFFICES ASSUME TypeOK, CopiesInv, RunInv, loaded # None
             PROVE  LaunchesInBounds
  BY DEF LaunchesInBounds
<1>1. ASSUME pc = "run_aos"
      PROVE  LaunchInBounds(cached_states_gpu, params_gpu, AosSlots(n_satellites, Len(times)))
  <2>1. /\ n_satellites \in Nat /\ Len(times) \in Nat
        /\ cached_states_gpu \in Seq(Sgp4StateGpu)
        /\ Len(cached_states_gpu) = n_satellites * Len(times)
    BY <1>1, DatesOnDevice DEF RunInv, RunAosOrSent, TypeOK
  <2> QED BY <1>1, <2>1, UnifiedReady, AosInBounds
<1>2. ASSUME pc = "run_unified"
      PROVE  LaunchInBounds(cached_soa_buffers, params_gpu, SoaSlots(n_satellites, Len(times)))
  <2>1. /\ n_satellites \in Nat /\ Len(times) \in Nat
        /\ cached_soa_buffers \in Seq(Sgp4StateGpu)
        /\ Len(cached_soa_buffers) = n_satellites * Len(times)
    BY <1>2, DatesOnDevice DEF RunInv, RunSoaOrSent, TypeOK
  <2> QED BY <1>2, <2>1, UnifiedReady, SoaInBounds
<1>3. ASSUME NEW m \in Models, pc = (IF m = "SGP4" THEN "run_sgp4" ELSE "run_sdp4"),
             partition[m].params # None /\ partition[m].map # None
      PROVE  LaunchInBounds(cached_soa_buffers, partition[m].params, PartitionSlots(m))
  <2>1. pc \in {"run_sgp4", "run_sdp4"}
    BY <1>3
  <2> QED BY <1>3, <2>1, PartitionInBounds
<1> QED BY <1>1, <1>2, <1>3 DEF LaunchesInBounds

-----------------------------------------------------------------------------
(* What the launches write.                                                *)
LEMMA StateHolds ==
  ASSUME NEW old, NEW sat, NEW time, NEW force \in BOOLEAN, forced # None => force = forced,
         NEW layout
  PROVE  Promise!IsStateOf(Propagated(old, Parameters(sat, force), time, layout), sat, time)
<1> DEFINE d == sat \in Deep
           state == [sat |-> sat, time |-> time, model |-> Promise!ModelOf(d, force)]
           cell == Propagated(old, Parameters(sat, force), time, layout)
<1>1. Parameters(sat, force) = [sat |-> sat, deep |-> d, forced |-> force]
  BY ParametersAre
<1>2. State(Parameters(sat, force), time) = state
  <2> HIDE DEF d
  <2> QED BY <1>1 DEF State
<1> HIDE DEF state
<1>3. /\ cell.error <=> state \in Undefined
      /\ ~cell.error => cell.state = state
  BY <1>2 DEF Propagated
<1> HIDE DEF cell
<1>4. \E f \in BOOLEAN :
        LET st == [sat |-> sat, time |-> time, model |-> Promise!ModelOf(sat \in Deep, f)]
        IN  /\ forced # None => f = forced
            /\ cell.error <=> st \in Undefined
            /\ ~cell.error => cell.state = st
  <2> WITNESS force \in BOOLEAN
  <2> QED BY <1>3 DEF state
<1>5. Promise!IsStateOf(cell, sat, time)
  BY <1>4 DEF Promise!IsStateOf
<1> QED BY <1>5 DEF cell

LEMMA AosWritten ==
  ASSUME TypeOK, CopiesInv, RunInv, loaded # None, RunAos, ~Fail
  PROVE  WrittenRows(cached_states_gpu')
<1> DEFINE slots == AosSlots(n_satellites, Len(times))
<1>1. /\ n_satellites \in Nat /\ Len(times) \in Nat /\ pc = "run_aos"
      /\ cached_states_gpu \in Seq(Sgp4StateGpu)
      /\ Len(cached_states_gpu) = n_satellites * Len(times)
  BY DatesOnDevice DEF RunAos, RunInv, RunAosOrSent, TypeOK
<1>2. cached_states_gpu' = Kernel(cached_states_gpu, params_gpu, DeviceTimes, slots, "aos")
  BY DEF RunAos
<1>3. LaunchInBounds(cached_states_gpu, params_gpu, slots)
  BY <1>1, LaunchesInBoundsOfInv DEF LaunchesInBounds
<1>4. PICK force \in BOOLEAN :
        /\ forced # None => force = forced
        /\ \A i \in 1..n_satellites : params_gpu[i] = Parameters(loaded[i], force)
  BY <1>1, UnifiedReady
<1>5. DOMAIN loaded = 1..n_satellites
  BY <1>1, UnifiedReady
<1>6. ASSUME NEW i \in DOMAIN loaded, NEW t \in 1..Len(times)
      PROVE  Promise!IsStateOf(cached_states_gpu'[Promise!SatMajor(i, t, Len(times))],
                               loaded[i], DeviceTimes[t])
  <2> DEFINE thread == <<i, t>>
  <2>1. /\ thread \in DOMAIN slots /\ thread[1] = i /\ thread[2] = t
        /\ slots[thread] = Promise!SatMajor(i, t, Len(times))
    BY <1>5 DEF AosSlots
  <2> HIDE DEF thread, slots
  <2>2. cached_states_gpu'[slots[thread]]
          = Propagated(cached_states_gpu[slots[thread]], params_gpu[thread[1]], DeviceTimes[thread[2]], "aos")
    BY <1>2, <1>3, <2>1, KernelWrites
  <2>3. cached_states_gpu'[slots[thread]]
          = Propagated(cached_states_gpu[slots[thread]], Parameters(loaded[i], force), DeviceTimes[t], "aos")
    BY <1>4, <1>5, <2>1, <2>2
  <2> QED BY <1>4, <2>1, <2>3, StateHolds
<1> QED BY <1>6 DEF WrittenRows

LEMMA SoaWritten ==
  ASSUME TypeOK, CopiesInv, RunInv, loaded # None, RunUnified, ~Fail
  PROVE  WrittenColumns(cached_soa_buffers', DOMAIN loaded)
<1> DEFINE slots == SoaSlots(n_satellites, Len(times))
<1>1. /\ n_satellites \in Nat /\ Len(times) \in Nat /\ pc = "run_unified"
      /\ cached_soa_buffers \in Seq(Sgp4StateGpu)
      /\ Len(cached_soa_buffers) = n_satellites * Len(times)
  BY DatesOnDevice DEF RunUnified, RunInv, RunSoaOrSent, TypeOK
<1>2. cached_soa_buffers' = Kernel(cached_soa_buffers, params_gpu, DeviceTimes, slots, "soa")
  BY DEF RunUnified
<1>3. LaunchInBounds(cached_soa_buffers, params_gpu, slots)
  BY <1>1, LaunchesInBoundsOfInv DEF LaunchesInBounds
<1>4. PICK force \in BOOLEAN :
        /\ forced # None => force = forced
        /\ \A i \in 1..n_satellites : params_gpu[i] = Parameters(loaded[i], force)
  BY <1>1, UnifiedReady
<1>5. DOMAIN loaded = 1..n_satellites
  BY <1>1, UnifiedReady
<1>6. ASSUME NEW i \in DOMAIN loaded, NEW t \in 1..Len(times)
      PROVE  Promise!IsStateOf(cached_soa_buffers'[Promise!TimeMajor(i, t, n_satellites)],
                               loaded[i], DeviceTimes[t])
  <2> DEFINE thread == <<i, t>>
  <2>1. /\ thread \in DOMAIN slots /\ thread[1] = i /\ thread[2] = t
        /\ slots[thread] = Promise!TimeMajor(i, t, n_satellites)
    BY <1>5 DEF SoaSlots
  <2> HIDE DEF thread, slots
  <2>2. cached_soa_buffers'[slots[thread]]
          = Propagated(cached_soa_buffers[slots[thread]], params_gpu[thread[1]], DeviceTimes[thread[2]], "soa")
    BY <1>2, <1>3, <2>1, KernelWrites
  <2>3. cached_soa_buffers'[slots[thread]]
          = Propagated(cached_soa_buffers[slots[thread]], Parameters(loaded[i], force), DeviceTimes[t], "soa")
    BY <1>4, <1>5, <2>1, <2>2
  <2> QED BY <1>4, <2>1, <2>3, StateHolds
<1> QED BY <1>6 DEF WrittenColumns

(* The launch for a partition writes its satellites' columns and no others.*)
LEMMA PartitionWritten ==
  ASSUME TypeOK, CopiesInv, RunInv, loaded # None, NEW m \in Models,
         NEW here \in {"run_sgp4", "run_sdp4"}, NEW next, RunPartition(m, here, next), ~Fail
  PROVE  /\ WrittenColumns(cached_soa_buffers', Chosen(loaded, m))
         /\ \A i \in DOMAIN loaded \ Chosen(loaded, m), t \in 1..Len(times) :
              cached_soa_buffers'[Promise!TimeMajor(i, t, n_satellites)]
                = cached_soa_buffers[Promise!TimeMajor(i, t, n_satellites)]
<1> DEFINE part == partition[m]
           slots == PartitionSlots(m)
<1>1. /\ n_satellites \in Nat /\ n_satellites # 0 /\ Len(times) \in Nat
      /\ cached_soa_buffers \in Seq(Sgp4StateGpu)
      /\ Len(cached_soa_buffers) = n_satellites * Len(times)
  BY DatesOnDevice DEF RunPartition, RunInv, RunSoaOrSent, TypeOK
<1>2. loaded \notin {None, <<>>}
  BY <1>1 DEF CopiesInv, KeptInv
<1>3. /\ loaded \in Seq(Satellites) /\ n_satellites = Len(loaded) /\ Divided(loaded)
      /\ \E force \in BOOLEAN :
           HeldByModel(m, loaded, force) /\ (forced # None => force = forced)
  BY <1>2, ForceOfCopies DEF CopiesInv
<1>4. PICK force \in BOOLEAN : HeldByModel(m, loaded, force) /\ (forced # None => force = forced)
  BY <1>3
<1>5. CASE part.params = None \/ part.map = None
  <2>1. cached_soa_buffers' = cached_soa_buffers
    BY <1>5 DEF RunPartition
  <2>2. part.indices = <<>>
    BY <1>3, <1>4, <1>5, PartitionReady
  <2>3. Chosen(loaded, m) = {}
    BY <1>3, <1>4, <2>2, PartitionEmpty
  <2> QED BY <2>1, <2>3 DEF WrittenColumns
<1>6. CASE ~(part.params = None \/ part.map = None)
  <2>1. cached_soa_buffers' = Kernel(cached_soa_buffers, part.params, DeviceTimes, slots, "soa")
    BY <1>6 DEF RunPartition
  <2>2. part.indices # <<>>
    BY <1>3, <1>4, <1>6, PartitionEmpty
  <2>3. /\ part.map \in Seq(Chosen(loaded, m))
        /\ \A i \in Chosen(loaded, m) : \E p \in DOMAIN part.map : part.map[p] = i
        /\ \A p \in DOMAIN part.map : part.params[p] = Parameters(loaded[part.map[p]], force)
    BY <1>3, <1>4, <2>2, PartitionReady
  <2>4. /\ LaunchInBounds(cached_soa_buffers, part.params, slots)
        /\ DOMAIN slots = (DOMAIN part.map) \X (1..Len(times))
        /\ \A thread \in DOMAIN slots :
             slots[thread] = Promise!TimeMajor(part.map[thread[1]], thread[2], n_satellites)
    <3>1. pc \in {"run_sgp4", "run_sdp4"}
      BY DEF RunPartition
    <3> QED BY <1>6, <3>1, PartitionInBounds
  <2>5. DOMAIN loaded = 1..n_satellites /\ Chosen(loaded, m) \subseteq 1..n_satellites
    BY <1>3 DEF Chosen
  <2> HIDE DEF part, slots
  <2>6. ASSUME NEW i \in Chosen(loaded, m), NEW t \in 1..Len(times)
        PROVE  Promise!IsStateOf(cached_soa_buffers'[Promise!TimeMajor(i, t, n_satellites)],
                                 loaded[i], DeviceTimes[t])
    <3>1. PICK p \in DOMAIN part.map : part.map[p] = i
      BY <2>3
    <3> DEFINE thread == <<p, t>>
    <3>2. /\ thread \in DOMAIN slots /\ thread[1] = p /\ thread[2] = t
          /\ slots[thread] = Promise!TimeMajor(i, t, n_satellites)
      BY <2>4, <3>1
    <3> HIDE DEF thread
    <3>3. cached_soa_buffers'[slots[thread]]
          = Propagated(cached_soa_buffers[slots[thread]], part.params[thread[1]], DeviceTimes[thread[2]], "soa")
      BY <2>1, <2>4, <3>2, KernelWrites
    <3>4. cached_soa_buffers'[slots[thread]]
          = Propagated(cached_soa_buffers[slots[thread]], Parameters(loaded[i], force), DeviceTimes[t], "soa")
      BY <2>3, <3>1, <3>2, <3>3
    <3> QED BY <1>4, <3>2, <3>4, StateHolds
  <2>7. ASSUME NEW i \in DOMAIN loaded \ Chosen(loaded, m), NEW t \in 1..Len(times)
        PROVE  cached_soa_buffers'[Promise!TimeMajor(i, t, n_satellites)]
                 = cached_soa_buffers[Promise!TimeMajor(i, t, n_satellites)]
    <3> DEFINE k == Promise!TimeMajor(i, t, n_satellites)
    <3>1. k \in DOMAIN cached_soa_buffers
      <4>1. k \in 1..(n_satellites * Len(times))
        BY <1>1, <2>5, Column
      <4> QED BY <1>1, <4>1
    <3>2. ASSUME NEW thread \in DOMAIN slots PROVE slots[thread] # k
      <4> DEFINE j == part.map[thread[1]]
                 u == thread[2]
      <4>1. thread[1] \in DOMAIN part.map /\ u \in 1..Len(times)
        BY <2>4
      <4>2. j \in Chosen(loaded, m)
        BY <2>3, <4>1
      <4>3. slots[thread] = Promise!TimeMajor(j, u, n_satellites)
        BY <2>4
      <4> HIDE DEF j, u
      <4>4. Promise!TimeMajor(j, u, n_satellites) = Promise!TimeMajor(i, t, n_satellites) => j = i
        <5>1. /\ n_satellites \in Nat /\ Len(times) \in Nat
              /\ j \in 1..n_satellites /\ i \in 1..n_satellites
              /\ u \in 1..Len(times) /\ t \in 1..Len(times)
          BY <1>1, <2>5, <4>1, <4>2
        <5> QED BY <5>1, ColumnsApart
      <4> QED BY <4>2, <4>3, <4>4
    <3> HIDE DEF k
    <3>3. cached_soa_buffers'[k] = cached_soa_buffers[k]
      BY <2>1, <3>1, <3>2, KernelKeeps
    <3> QED BY <3>3 DEF k
  <2> QED BY <2>6, <2>7 DEF WrittenColumns
<1> QED BY <1>5, <1>6

LEMMA WrittenRun ==
  ASSUME TypeOK, CopiesInv, RunInv, WrittenInv,
         \/ RunAos
         \/ RunUnified
         \/ RunPartition("SGP4", "run_sgp4", "run_sdp4")
         \/ RunPartition("SDP4", "run_sdp4", "download")
  PROVE  WrittenInv'
<1> SUFFICES ASSUME ~Fail, loaded' # None PROVE WrittenInv'
  BY FailEndsRun DEF WrittenInv
<1>1. UNCHANGED <<n_satellites, cached_times_gpu, op, times, loaded, forced, mode>>
  BY DEF RunAos, RunUnified, RunPartition, Goto, device, args
<1>2. DeviceTimes' = DeviceTimes
  BY <1>1 DEF DeviceTimes
<1>3. /\ WrittenRows(cached_states_gpu') => WrittenRows(cached_states_gpu)'
      /\ WrittenColumns(cached_soa_buffers', DOMAIN loaded)
           => WrittenColumns(cached_soa_buffers, DOMAIN loaded)'
      /\ WrittenColumns(cached_soa_buffers', Chosen(loaded, "SGP4"))
           => WrittenColumns(cached_soa_buffers, Chosen(loaded, "SGP4"))'
  BY <1>1, <1>2 DEF WrittenRows, WrittenColumns, Chosen, Promise!IsStateOf
<1>4. CASE RunAos
  <2>1. pc' = "download" /\ op = "propagate"
    BY <1>4 DEF RunAos, Goto, RunInv
  <2>2. WrittenRows(cached_states_gpu')
    BY <1>1, <1>4, AosWritten
  <2> QED BY <1>1, <1>3, <2>1, <2>2 DEF WrittenInv
<1>5. CASE RunUnified
  <2>1. pc' = "download" /\ op # "propagate"
    BY <1>5 DEF RunUnified, Goto, RunInv
  <2>2. WrittenColumns(cached_soa_buffers', DOMAIN loaded)
    BY <1>1, <1>5, SoaWritten
  <2> QED BY <1>1, <1>3, <2>1, <2>2 DEF WrittenInv
<1>6. CASE RunPartition("SGP4", "run_sgp4", "run_sdp4")
  <2>1. pc' = "run_sdp4"
    BY <1>6 DEF RunPartition, Goto
  <2>2. WrittenColumns(cached_soa_buffers', Chosen(loaded, "SGP4"))
    BY <1>1, <1>6, PartitionWritten DEF Models
  <2> QED BY <1>3, <2>1, <2>2 DEF WrittenInv
<1>7. CASE RunPartition("SDP4", "run_sdp4", "download")
  <2>1. pc' = "download" /\ op # "propagate"
    BY <1>7 DEF RunPartition, Goto, RunInv, SoaOps
  <2>2. WrittenColumns(cached_soa_buffers, Chosen(loaded, "SGP4"))
    BY <1>1, <1>7 DEF RunPartition, WrittenInv
  <2>3. /\ WrittenColumns(cached_soa_buffers', Chosen(loaded, "SDP4"))
        /\ \A i \in DOMAIN loaded \ Chosen(loaded, "SDP4"), t \in 1..Len(times) :
             cached_soa_buffers'[Promise!TimeMajor(i, t, n_satellites)]
               = cached_soa_buffers[Promise!TimeMajor(i, t, n_satellites)]
    BY <1>1, <1>7, PartitionWritten DEF Models
  <2>4. \A i \in DOMAIN loaded : i \notin Chosen(loaded, "SDP4") => i \in Chosen(loaded, "SGP4")
    BY DEF Chosen
  <2>5. WrittenColumns(cached_soa_buffers', DOMAIN loaded)
    BY <2>2, <2>3, <2>4 DEF WrittenColumns
  <2> QED BY <1>1, <1>3, <2>1, <2>5 DEF WrittenInv
<1> QED BY <1>4, <1>5, <1>6, <1>7

LEMMA WrittenStep ==
  TypeOK /\ CopiesInv /\ RunInv /\ WrittenInv /\ [Next]_vars => WrittenInv'
<1> SUFFICES ASSUME TypeOK, CopiesInv, RunInv, WrittenInv, [Next]_vars PROVE WrittenInv'
  OBVIOUS
<1>1. CASE Propagating
  BY <1>1, RunPropagate, RunUploadTimes, RunAllocate, WrittenRun, DownloadEndsRun
  DEF Propagating
<1>2. CASE UNCHANGED vars
  BY <1>2 DEF vars, device, outputs, args, WrittenInv, WrittenRows, WrittenColumns, Chosen,
              DeviceTimes, Promise!IsStateOf
<1> QED BY <1>1, <1>2, NoRun, NoRunCaches DEF Next

-----------------------------------------------------------------------------
LEMMA InvInit == Init => Inv
<1>1. Init => RunInv /\ WrittenInv
  BY DEF Init, RunInv, RunAosOrSent, RunSoaOrSent, WrittenInv
<1> QED BY <1>1, TypesInit, CopiesInit DEF Inv

LEMMA InvStep == Inv /\ [Next]_vars => Inv'
<1> SUFFICES ASSUME Inv, [Next]_vars PROVE Inv'
  OBVIOUS
<1>1. TypeOK /\ CopiesInv /\ LoadInv /\ RunInv /\ WrittenInv
  BY DEF Inv, CopiesInv
<1> QED BY <1>1, TypesStep, CopiesStep, RunStep, WrittenStep DEF Inv

THEOREM Invariant == Spec => []Inv
<1> QED BY InvInit, InvStep, PTL DEF Spec

(* Every field holds a value of its type.                                  *)
THEOREM TypeCorrect == Spec => []TypeOK
<1>1. Inv => TypeOK
  BY DEF Inv
<1> QED BY <1>1, Invariant, PTL

(* Once a load and an override have completed, the unified buffer and the  *)
(* two partitions agree on every satellite, whatever failed before         *)
(* (init_satellites_with_override, set_force_near_earth_override).         *)
THEOREM CopiesAlwaysAgree == Spec => []CopiesAgree
<1>1. Inv => CopiesAgree
  BY CopiesAgreeOfInv DEF Inv
<1> QED BY <1>1, Invariant, PTL

(* The launches write inside their buffers, each thread its own element,   *)
(* though the buffers are those of earlier calls (propagate,               *)
(* propagate_soa_into and the partitioned methods).                        *)
THEOREM LaunchesStayInBounds == Spec => []LaunchesInBounds
<1>1. Inv => LaunchesInBounds
  BY LaunchesInBoundsOfInv DEF Inv
<1> QED BY <1>1, Invariant, PTL

-----------------------------------------------------------------------------
(* The propagator implements StateTable.                                   *)
LEMMA AnswerTabulates ==
  ASSUME Inv, pc = "download", loaded # None, NEW cells,
         cells = IF op = "propagate" THEN cached_states_gpu
                 ELSE IF op = "propagate_soa"
                   THEN ToAos(cached_soa_buffers, n_satellites, Len(times))
                   ELSE cached_soa_buffers
  PROVE  loaded # <<>> /\ Promise!Tabulates([op |-> op, times |-> times, cells |-> cells])
<1> DEFINE a == [op |-> op, times |-> times, cells |-> cells]
           n == n_satellites
           len == Len(times)
<1>1. /\ n \in Nat /\ n # 0 /\ len \in Nat /\ op \in Ops /\ times \in TimeLists
      /\ DeviceTimes \in TimeLists /\ Len(DeviceTimes) = len /\ DOMAIN DeviceTimes = 1..len
  BY DatesOnDevice DEF Inv, RunInv, TypeOK
<1>2. loaded \in Seq(Satellites) /\ n = Len(loaded)
  BY DEF Inv, CopiesInv, KeptInv
<1>3. loaded # <<>> /\ DOMAIN loaded = 1..n
  BY <1>1, <1>2
<1>4. DeviceTimes \in Promise!DatesOf(a)
  BY <1>1 DEF Promise!DatesOf, DeviceTimes
<1>5. ASSUME NEW i \in 1..n, NEW t \in 1..len
      PROVE  LET k == Promise!Position(op, i, t, n, len)
             IN  k \in DOMAIN cells /\ Promise!IsStateOf(cells[k], loaded[i], DeviceTimes[t])
  <2>1. CASE op = "propagate"
    <3>1. /\ cells \in Seq(Sgp4StateGpu) /\ Len(cells) = n * len /\ WrittenRows(cells)
      BY <2>1 DEF Inv, RunInv, RunAosOrSent, WrittenInv
    <3>2. Promise!Position(op, i, t, n, len) = Promise!SatMajor(i, t, len)
      BY <2>1 DEF Promise!Position, Promise!InSatOrder
    <3>3. Promise!SatMajor(i, t, len) \in DOMAIN cells
      <4>1. Promise!SatMajor(i, t, len) \in 1..(n * len)
        BY <1>1, Row
      <4> QED BY <3>1, <4>1
    <3>4. Promise!IsStateOf(cells[Promise!SatMajor(i, t, len)], loaded[i], DeviceTimes[t])
      BY <1>3, <3>1 DEF WrittenRows
    <3> QED BY <3>2, <3>3, <3>4
  <2>2. CASE op # "propagate"
    <3>1. /\ cached_soa_buffers \in Seq(Sgp4StateGpu) /\ Len(cached_soa_buffers) = n * len
          /\ WrittenColumns(cached_soa_buffers, DOMAIN loaded)
      BY <2>2 DEF Inv, RunInv, RunSoaOrSent, WrittenInv
    <3>2. Promise!IsStateOf(cached_soa_buffers[Promise!TimeMajor(i, t, n)],
                            loaded[i], DeviceTimes[t])
      BY <1>3, <3>1 DEF WrittenColumns
    <3>3. CASE op = "propagate_soa"
      <4> HIDE DEF n, len
      <4>1. cells = ToAos(cached_soa_buffers, n, len)
        BY <3>3 DEF n, len
      <4>2. /\ ToAos(cached_soa_buffers, n, len) \in Seq(Sgp4StateGpu)
            /\ ToAos(cached_soa_buffers, n, len)[Promise!SatMajor(i, t, len)]
                 = cached_soa_buffers[Promise!TimeMajor(i, t, n)]
        BY <1>1, <3>1, Transposed
      <4>3. Promise!Position(op, i, t, n, len) = Promise!SatMajor(i, t, len)
        BY <3>3 DEF Promise!Position, Promise!InSatOrder
      <4>4. Promise!SatMajor(i, t, len) \in 1..(n * len)
        BY <1>1, Row
      <4>5. DOMAIN ToAos(cached_soa_buffers, n, len) = 1..(n * len)
        BY DEF ToAos
      <4> QED BY <3>2, <4>1, <4>2, <4>3, <4>4, <4>5
    <3>4. CASE op # "propagate_soa"
      <4>1. cells = cached_soa_buffers
        BY <2>2, <3>4
      <4>2. Promise!Position(op, i, t, n, len) = Promise!TimeMajor(i, t, n)
        BY <2>2, <3>4 DEF Promise!Position, Promise!InSatOrder
      <4>3. Promise!TimeMajor(i, t, n) \in 1..(n * len)
        BY <1>1, Column
      <4> QED BY <3>1, <3>2, <4>1, <4>2, <4>3
    <3> QED BY <3>3, <3>4
  <2> QED BY <2>1, <2>2
<1>6. \A i \in DOMAIN loaded, t \in DOMAIN DeviceTimes :
        LET k == Promise!Position(a.op, i, t, Len(loaded), Len(DeviceTimes))
        IN  k \in DOMAIN a.cells /\ Promise!IsStateOf(a.cells[k], loaded[i], DeviceTimes[t])
  BY <1>1, <1>2, <1>3, <1>5
<1> HIDE DEF a
<1>7. Promise!Tabulates(a)
  BY <1>4, <1>6 DEF Promise!Tabulates
<1> QED BY <1>3, <1>7 DEF a

(* A step that leaves the loaded list alone and answers nothing.           *)
LEMMA SilentStep ==
  ASSUME TypeOK', UNCHANGED loaded, answer' = None
  PROVE  Promise!Next
  BY DEF TypeOK, Promise!Next, Promise!Force

LEMMA DownloadReplies == Inv /\ TypeOK' /\ Download => Promise!Next
<1> SUFFICES ASSUME Inv, TypeOK', Download PROVE Promise!Next
  OBVIOUS
<1>1. pc = "download" /\ UNCHANGED <<loaded, forced>>
  BY DEF Download
<1>2. CASE Fail
  BY <1>1, <1>2, SilentStep DEF Fail, ReturnWith
<1>3. CASE ~Fail
  <2> DEFINE cells == IF op = "propagate" THEN cached_states_gpu
                      ELSE IF op = "propagate_soa"
                        THEN ToAos(cached_soa_buffers, n_satellites, Len(times))
                        ELSE cached_soa_buffers
  <2>1. answer' = [op |-> op, times |-> times, cells |-> cells]
    BY <1>3 DEF Download, ReturnWith
  <2>2. loaded # None =>
          loaded # <<>> /\ Promise!Tabulates([op |-> op, times |-> times, cells |-> cells])
    BY <1>1, AnswerTabulates
  <2> HIDE DEF cells
  <2> QED BY <1>1, <2>1, <2>2 DEF Promise!Next, Promise!Reply
<1> QED BY <1>2, <1>3

LEMMA LoadingMaps ==
  Inv /\ TypeOK' /\ Loading => Promise!Next \/ UNCHANGED <<loaded, forced, answer>>
<1> SUFFICES ASSUME Inv, TypeOK', Loading
             PROVE  Promise!Next \/ UNCHANGED <<loaded, forced, answer>>
  OBVIOUS
<1>1. ASSUME NEW ts \in TleLists, NEW override \in Overrides, InitSatellites(ts, override)
      PROVE  Promise!Next
  BY <1>1 DEF InitSatellites, Promise!Next, Promise!Load, Promise!Unload
<1>2. ASSUME NEW m, NEW here, NEW next, LoadPartition(m, here, next)
      PROVE  Promise!Next \/ UNCHANGED <<loaded, forced, answer>>
  <2>1. UNCHANGED <<loaded, forced>> /\ (answer' = None \/ answer' = answer)
    BY <1>2 DEF LoadPartition, Goto, Fail, ReturnWith
  <2> QED BY <2>1, SilentStep
<1>3. ASSUME LoadUnified PROVE Promise!Next
  <2>1. answer' = None
    BY <1>3 DEF LoadUnified, Return, Fail, ReturnWith
  <2>2. CASE loaded' = loaded
    BY <2>1, <2>2, SilentStep
  <2>3. CASE loaded' # loaded
    <3>1. loaded' = tles /\ tles \in TleLists /\ forced' = FALSE
      BY <1>3, <2>3 DEF LoadUnified, Inv, CopiesInv, LoadInv
    <3> QED BY <2>1, <3>1 DEF Promise!Next, Promise!Load
  <2> QED BY <2>2, <2>3
<1> QED BY <1>1, <1>2, <1>3 DEF Loading

LEMMA StepMaps == Inv /\ [Next]_vars => [Promise!Next]_<<loaded, forced, answer>>
<1> SUFFICES ASSUME Inv, [Next]_vars
             PROVE  Promise!Next \/ UNCHANGED <<loaded, forced, answer>>
  OBVIOUS
<1>1. TypeOK'
  BY InvStep DEF Inv
<1>2. CASE Forcing
  <2>1. UNCHANGED loaded
    BY <1>2 DEF Forcing, SetForceNearEarthOverride, ForceUnified, ForcePartition, ForceSync
  <2>2. answer' = None \/ UNCHANGED <<forced, answer>>
    BY <1>2 DEF Forcing, SetForceNearEarthOverride, ForceUnified, ForcePartition, ForceSync,
                Goto, Return, Fail, ReturnWith
  <2> QED BY <1>1, <2>1, <2>2, SilentStep
<1>3. CASE Propagating
  <2>1. CASE Download
    BY <1>1, <2>1, DownloadReplies
  <2>2. CASE ~Download
    <3>1. UNCHANGED <<loaded, forced>>
      BY <1>3 DEF Propagating, Propagate, UploadTimes, Allocate, RunAos, RunUnified,
                  RunPartition, Download
    <3>2. answer' = None \/ answer' = answer
      BY <1>3, <2>2 DEF Propagating, Propagate, UploadTimes, Allocate, RunAos, RunUnified,
                        RunPartition, Goto, Fail, ReturnWith
    <3> QED BY <1>1, <3>1, <3>2, SilentStep
  <2> QED BY <2>1, <2>2
<1>4. CASE (\E ts \in TimeLists : CacheTimes(ts)) \/ ClearTimeCache \/ ClearSoaCache
  <2>1. UNCHANGED loaded /\ answer' = None
    BY <1>4 DEF CacheTimes, ClearTimeCache, ClearSoaCache
  <2> QED BY <1>1, <2>1, SilentStep
<1>5. CASE UNCHANGED vars
  BY <1>5 DEF vars
<1> QED BY <1>1, <1>2, <1>3, <1>4, <1>5, LoadingMaps DEF Next

(* Every answer of the propagator is the one StateTable promises for the   *)
(* satellites in place: a state for each satellite and date, in the        *)
(* documented order, of the right model, whatever buffers are kept and     *)
(* whatever call of the driver failed.                                     *)
THEOREM KeepsPromise == Spec => PromiseKept
<1>1. Init => Promise!Init
  BY DEF Init, Promise!Init
<1> QED BY <1>1, StepMaps, Invariant, PTL DEF Spec, PromiseKept, Promise!Spec
=============================================================================
