------------------------- MODULE Generation_proofs -------------------------
(***************************************************************************)
(* Proofs about Generation, for any number of requests, clears, threads,   *)
(* IMSIs and events per IMSI, any chunk size and number of faults.         *)
(***************************************************************************)
EXTENDS Generation, FiniteSetTheorems, TLAPS

\* Division rounds down.
LEMMA DivBounds ==
    ASSUME NEW a \in Nat, NEW b \in Nat \ {0}
    PROVE  /\ a \div b \in Nat
           /\ b * (a \div b) <= a
           /\ a < b * ((a \div b) + 1)
OBVIOUS

\* And it is the only number with those bounds.
LEMMA DivLess ==
    ASSUME NEW a \in Nat, NEW b \in Nat \ {0}, NEW q \in Nat
    PROVE  /\ b * q <= a => q <= a \div b
           /\ a < b * q => a \div b < q
OBVIOUS

\* There is at least one thread and no more than there are IMSIs.
LEMMA NThreadsType ==
    ASSUME NEW n \in Nat
    PROVE  /\ NThreads(n) \in Nat \ {0}
           /\ NThreads(n) <= Threads
           /\ n > 0 => NThreads(n) <= n
BY SizeAssumption DEF NThreads

\* Where a thread's range begins and ends, without the division.
LEMMA FromBounds ==
    ASSUME NEW n \in Nat, NEW t \in Nat
    PROVE  /\ From(n, t) \in Nat /\ To(n, t) \in Nat
           /\ \A q \in Nat : q < To(n, t) <=> NThreads(n) * (q + 1) <= n * (t + 1)
           /\ \A q \in Nat : From(n, t) <= q <=> n * t < NThreads(n) * (q + 1)
<1> DEFINE T == NThreads(n)
<1>1. T \in Nat \ {0}  BY NThreadsType
<1>2. n * t \in Nat /\ n * (t + 1) \in Nat  OBVIOUS
<1> HIDE DEF T
<1>3. ASSUME NEW a \in Nat, NEW q \in Nat
      PROVE  (a \div T <= q) <=> (a < T * (q + 1))
  <2>1. a \div T \in Nat  BY <1>1, DivBounds
  <2>2. T * (q + 1) <= a => q + 1 <= a \div T  BY <1>1, DivLess
  <2>3. a < T * (q + 1) => a \div T < q + 1  BY <1>1, DivLess
  <2>4. T * (q + 1) \in Nat  BY <1>1
  <2> QED  BY <2>1, <2>2, <2>3, <2>4
<1>4. From(n, t) \in Nat /\ To(n, t) \in Nat
  BY <1>1, <1>2, DivBounds DEF From, To, T
<1>5. \A q \in Nat : From(n, t) <= q <=> n * t < T * (q + 1)
  BY <1>2, <1>3 DEF From, T
<1>6. ASSUME NEW q \in Nat
      PROVE  q < To(n, t) <=> T * (q + 1) <= n * (t + 1)
  <2>1. To(n, t) <= q <=> n * (t + 1) < T * (q + 1)
    BY <1>2, <1>3 DEF From, To, T
  <2>2. T * (q + 1) \in Nat  BY <1>1
  <2> QED  BY <1>2, <1>4, <2>1, <2>2
<1> QED  BY <1>4, <1>5, <1>6 DEF T

\* The ranges of a request's threads cut its IMSI indices into disjoint
\* pieces: each index is generated, and by one thread only, however the count
\* and the number of threads divide.
THEOREM RangesPartition ==
    ASSUME NEW n \in Nat, NEW k \in 0 .. (n - 1)
    PROVE  \E t \in ThreadOf(n) :
             /\ k \in IndexRange(n, t)
             /\ \A u \in ThreadOf(n) : k \in IndexRange(n, u) => u = t
<1> DEFINE T == NThreads(n)
           a == T * (k + 1) - 1
           t == a \div n
<1>1. T \in Nat \ {0} /\ n \in Nat \ {0} /\ k \in Nat /\ k + 1 <= n
  BY NThreadsType
<1> HIDE DEF T
<1>2. T * (k + 1) \in Nat /\ T * (k + 1) >= 1 /\ T * (k + 1) <= T * n
  BY <1>1
<1>3. a \in Nat /\ a < n * T  BY <1>1, <1>2
<1> HIDE DEF a
<1>4. t \in Nat /\ n * t <= a /\ a < n * (t + 1)  BY <1>1, <1>3, DivBounds
<1>5. t < T  BY <1>1, <1>3, DivLess
<1> HIDE DEF t
<1>6. ThreadOf(n) = 0 .. (T - 1)  BY DEF ThreadOf, T
<1>7. ASSUME NEW u \in Nat
      PROVE  k \in IndexRange(n, u) <=> n * u <= a /\ a < n * (u + 1)
  <2>1. k < To(n, u) <=> T * (k + 1) <= n * (u + 1)  BY <1>1, FromBounds DEF T
  <2>2. From(n, u) <= k <=> n * u < T * (k + 1)  BY <1>1, FromBounds DEF T
  <2>3. From(n, u) \in Nat /\ To(n, u) \in Nat  BY FromBounds
  <2>4. n * u \in Nat /\ n * (u + 1) \in Nat  BY <1>1
  <2> QED  BY <1>1, <1>2, <2>1, <2>2, <2>3, <2>4 DEF IndexRange, a
<1>8. t \in ThreadOf(n) /\ k \in IndexRange(n, t)
  BY <1>1, <1>4, <1>5, <1>6, <1>7
<1>9. ASSUME NEW u \in ThreadOf(n), k \in IndexRange(n, u)
      PROVE  u = t
  <2>1. u \in Nat /\ n * u <= a /\ a < n * (u + 1)  BY <1>1, <1>6, <1>7, <1>9
  <2>2. u <= a \div n /\ a \div n < u + 1  BY <1>1, <1>3, <2>1, DivLess
  <2> QED  BY <1>4, <2>1, <2>2 DEF t
<1> QED  BY <1>8, <1>9

-----------------------------------------------------------------------------
(***************************************************************************)
(* The events of a request and the threads that own them.                  *)
(***************************************************************************)
\* An offset tells the IMSI index it belongs to.
LEMMA OffsetTellsIndex ==
    ASSUME NEW k \in Nat, NEW l \in Nat, NEW i \in Nat, NEW j \in Nat,
           i < MaxEvents, j < MaxEvents, k * MaxEvents + i = l * MaxEvents + j
    PROVE  k = l
<1> DEFINE M == MaxEvents
<1>1. M \in Nat  BY SizeAssumption
<1> HIDE DEF M
<1>2. ASSUME NEW p \in Nat, NEW q \in Nat, p < q
      PROVE  p * M + M <= q * M
  BY <1>1, <1>2
<1>3. i < M /\ j < M /\ k * M + i = l * M + j  BY DEF M
<1>4. k * M \in Nat /\ l * M \in Nat  BY <1>1
<1>5. ~ (k < l)
  <2> SUFFICES ASSUME k < l PROVE FALSE
    OBVIOUS
  <2>1. k * M + M <= l * M  BY <1>2
  <2> QED  BY <1>1, <1>3, <1>4, <2>1
<1>6. ~ (l < k)
  <2> SUFFICES ASSUME l < k PROVE FALSE
    OBVIOUS
  <2>1. l * M + M <= k * M  BY <1>2
  <2> QED  BY <1>1, <1>3, <1>4, <2>1
<1> QED  BY <1>5, <1>6

\* What a count and a drawn number of events per IMSI look like.
Drawn(n, c) == n \in Nat /\ c \in [0 .. (n - 1) -> MinEvents .. MaxEvents]

\* An event comes from an index with its offset.
LEMMA OffsetsElim ==
    ASSUME NEW n, NEW c, Drawn(n, c), NEW K \in SUBSET (0 .. (n - 1)), NEW s
    PROVE  s \in Offsets(K, c) <=>
             \E k \in K : \E j \in 0 .. (c[k] - 1) : s = k * MaxEvents + j
BY DEF Offsets, OffsetsAt

\* Ranges stay inside the count.
LEMMA RangeInside ==
    ASSUME NEW n \in Nat, NEW t \in ThreadOf(n)
    PROVE  IndexRange(n, t) \subseteq 0 .. (n - 1)
<1> SUFFICES ASSUME NEW k \in IndexRange(n, t) PROVE k \in 0 .. (n - 1)
  OBVIOUS
<1> DEFINE T == NThreads(n)
<1>1. T \in Nat \ {0} /\ t \in Nat /\ t + 1 <= T
  BY NThreadsType DEF ThreadOf
<1> HIDE DEF T
<1>2. k \in Nat /\ k < To(n, t)
  <2>1. From(n, t) \in Nat /\ To(n, t) \in Nat  BY <1>1, FromBounds
  <2>2. k \in From(n, t) .. (To(n, t) - 1)  BY DEF IndexRange
  <2> QED  BY <2>1, <2>2
<1>3. T * (k + 1) <= n * (t + 1)  BY <1>1, <1>2, FromBounds DEF T
<1>4. n * (t + 1) <= n * T  BY <1>1
<1>5. ~ (k >= n)
  <2> SUFFICES ASSUME k >= n PROVE FALSE
    OBVIOUS
  <2>1. T * (k + 1) >= T * (n + 1)  BY <1>1, <1>2
  <2>2. T * (n + 1) = n * T + T  BY <1>1
  <2>3. n * T \in Nat /\ T * (k + 1) \in Nat /\ n * (t + 1) \in Nat
    BY <1>1, <1>2
  <2> QED  BY <1>1, <1>3, <1>4, <2>1, <2>2, <2>3
<1> QED  BY <1>2, <1>5

\* No two threads own the same event.
LEMMA OwnedDisjoint ==
    ASSUME NEW n, NEW c, Drawn(n, c), NEW t \in AllThreads, NEW u \in AllThreads,
           NEW s, s \in Owned(n, c, t), s \in Owned(n, c, u)
    PROVE  t = u
<1>1. n \in Nat /\ c \in [0 .. (n - 1) -> MinEvents .. MaxEvents]  BY DEF Drawn
<1>2. t \in ThreadOf(n) /\ u \in ThreadOf(n)  BY DEF Owned
<1>3. /\ IndexRange(n, t) \in SUBSET (0 .. (n - 1))
      /\ IndexRange(n, u) \in SUBSET (0 .. (n - 1))
  BY <1>1, <1>2, RangeInside
<1>4. PICK k \in IndexRange(n, t) : \E i \in 0 .. (c[k] - 1) : s = k * MaxEvents + i
  <2>1. s \in Offsets(IndexRange(n, t), c)  BY <1>2 DEF Owned
  <2> QED  BY <1>3, <2>1, OffsetsElim
<1>5. PICK l \in IndexRange(n, u) : \E j \in 0 .. (c[l] - 1) : s = l * MaxEvents + j
  <2>1. s \in Offsets(IndexRange(n, u), c)  BY <1>2 DEF Owned
  <2> QED  BY <1>3, <2>1, OffsetsElim
<1>6. PICK i \in 0 .. (c[k] - 1) : s = k * MaxEvents + i  BY <1>4
<1>7. PICK j \in 0 .. (c[l] - 1) : s = l * MaxEvents + j  BY <1>5
<1>8. /\ k \in 0 .. (n - 1) /\ l \in 0 .. (n - 1)
      /\ c[k] \in MinEvents .. MaxEvents /\ c[l] \in MinEvents .. MaxEvents
  BY <1>1, <1>3
<1>9. k \in Nat /\ l \in Nat /\ i \in Nat /\ j \in Nat /\ i < MaxEvents /\ j < MaxEvents
  BY <1>1, <1>6, <1>7, <1>8, SizeAssumption
<1>10. k = l  BY <1>6, <1>7, <1>9, OffsetTellsIndex
<1>11. k \in IndexRange(n, t) /\ k \in IndexRange(n, u)  BY <1>4, <1>5, <1>10
<1> QED  BY <1>1, <1>2, <1>8, <1>11, RangesPartition

\* The threads own all events between them.
LEMMA OwnedCovers ==
    ASSUME NEW n, NEW c, Drawn(n, c)
    PROVE  Offsets(DOMAIN c, c) = UNION {Owned(n, c, t) : t \in AllThreads}
<1>1. n \in Nat /\ DOMAIN c = 0 .. (n - 1)  BY DEF Drawn
<1>2. ThreadOf(n) \subseteq AllThreads
  BY <1>1, NThreadsType, SizeAssumption DEF ThreadOf, AllThreads
<1>3. ASSUME NEW s \in Offsets(DOMAIN c, c)
      PROVE  \E t \in AllThreads : s \in Owned(n, c, t)
  <2>1. PICK k \in 0 .. (n - 1) : \E j \in 0 .. (c[k] - 1) : s = k * MaxEvents + j
    BY <1>1, OffsetsElim
  <2>2. PICK t \in ThreadOf(n) : k \in IndexRange(n, t)
    BY <1>1, RangesPartition
  <2>3. IndexRange(n, t) \in SUBSET (0 .. (n - 1))  BY <1>1, RangeInside
  <2>4. s \in Offsets(IndexRange(n, t), c)  BY <2>1, <2>2, <2>3, OffsetsElim
  <2> QED  BY <1>2, <2>2, <2>4 DEF Owned
<1>4. ASSUME NEW t \in AllThreads, NEW s \in Owned(n, c, t)
      PROVE  s \in Offsets(DOMAIN c, c)
  <2>1. t \in ThreadOf(n) /\ s \in Offsets(IndexRange(n, t), c)  BY DEF Owned
  <2>2. IndexRange(n, t) \in SUBSET (0 .. (n - 1))  BY <1>1, <2>1, RangeInside
  <2>3. \E k \in IndexRange(n, t) : \E j \in 0 .. (c[k] - 1) : s = k * MaxEvents + j
    BY <2>1, <2>2, OffsetsElim
  <2> QED  BY <1>1, <2>2, <2>3, OffsetsElim
<1> QED  BY <1>3, <1>4

\* There are finitely many, and they are numbers.
LEMMA OffsetsFinite ==
    ASSUME NEW n, NEW c, Drawn(n, c)
    PROVE  Offsets(DOMAIN c, c) \in SUBSET Nat /\ IsFiniteSet(Offsets(DOMAIN c, c))
<1>1. /\ n \in Nat /\ DOMAIN c = 0 .. (n - 1)
      /\ \A k \in 0 .. (n - 1) : c[k] \in MinEvents .. MaxEvents
  BY DEF Drawn
<1>2. ASSUME NEW s \in Offsets(DOMAIN c, c)
      PROVE  s \in 0 .. (n * MaxEvents)
  <2>1. PICK k \in 0 .. (n - 1) : \E j \in 0 .. (c[k] - 1) : s = k * MaxEvents + j
    BY <1>1, OffsetsElim
  <2>2. PICK j \in 0 .. (c[k] - 1) : s = k * MaxEvents + j  BY <2>1
  <2>3. MaxEvents \in Nat /\ k \in Nat /\ k + 1 <= n /\ j \in Nat /\ j < MaxEvents
    BY <1>1, <2>1, <2>2, SizeAssumption
  <2>4. (k + 1) * MaxEvents <= n * MaxEvents  BY <1>1, <2>3
  <2>5. (k + 1) * MaxEvents = k * MaxEvents + MaxEvents  BY <2>3
  <2>6. k * MaxEvents \in Nat /\ n * MaxEvents \in Nat  BY <1>1, <2>3
  <2> QED  BY <2>2, <2>3, <2>4, <2>5, <2>6
<1>3. n * MaxEvents \in Nat  BY <1>1, SizeAssumption
<1>4. IsFiniteSet(0 .. (n * MaxEvents))  BY <1>3, FS_Interval
<1> QED  BY <1>2, <1>3, <1>4, FS_Subset

\* A request knows its count from what it drew.
LEMMA DrawnSize ==
    ASSUME NEW n, NEW c, Drawn(n, c)
    PROVE  Cardinality(DOMAIN c) = n
<1>1. n \in Nat /\ DOMAIN c = 0 .. (n - 1)  BY DEF Drawn
<1>2. Cardinality(0 .. (n - 1)) = IF 0 > n - 1 THEN 0 ELSE (n - 1) - 0 + 1
  BY <1>1, FS_Interval
<1> QED  BY <1>1, <1>2

-----------------------------------------------------------------------------
(***************************************************************************)
(* Type correctness.                                                       *)
(***************************************************************************)
\* The buffer holds work that is left.
LEMMA BufferType ==
    ASSUME NEW S
    PROVE  Buffer(S) \subseteq S
BY DEF Buffer

\* The events that were drawn for a request, and how many IMSIs it asked for.
LEMMA CountsDrawn ==
    ASSUME TypeOK, NEW r \in Request
    PROVE  Drawn(Size(r), counts[r]) /\ Size(r) \in 0 .. MaxImsis
<1>1. PICK n \in 0 .. MaxImsis : counts[r] \in [0 .. (n - 1) -> MinEvents .. MaxEvents]
  <2>1. counts[r] \in Draws  BY DEF TypeOK
  <2> QED  BY <2>1 DEF Draws
<1>2. Drawn(n, counts[r])  BY <1>1, SizeAssumption DEF Drawn
<1> QED  BY <1>1, <1>2, DrawnSize DEF Size

\* What a thread owns are offsets of its request's events.
LEMMA OwnedType ==
    ASSUME NEW n, NEW c, Drawn(n, c), NEW t \in AllThreads
    PROVE  /\ Owned(n, c, t) \in SUBSET Offsets(DOMAIN c, c)
           /\ Owned(n, c, t) \in SUBSET Nat
           /\ IsFiniteSet(Owned(n, c, t))
<1>1. Owned(n, c, t) \subseteq Offsets(DOMAIN c, c)  BY OwnedCovers
<1> QED  BY <1>1, OffsetsFinite, FS_Subset

\* The first state is of its type.
LEMMA InitType == Init => TypeOK
<1> SUFFICES ASSUME Init PROVE TypeOK
  OBVIOUS
<1>1. 0 \in AllThreads /\ 0 \in 0 .. MaxImsis /\ 0 \in 0 .. MaxFaults
  BY SizeAssumption DEF AllThreads
<1>2. [k \in {} |-> 0] \in Draws
  <2>1. 0 .. (0 - 1) = {}  OBVIOUS
  <2>2. [k \in {} |-> 0] \in [0 .. (0 - 1) -> MinEvents .. MaxEvents]  BY <2>1
  <2> QED  BY <1>1, <2>2 DEF Draws
<1> QED  BY <1>1, <1>2 DEF Init, TypeOK, Models

\* Work at hand is finite, so a chunk has a number of events.
LEMMA WorkFinite ==
    ASSUME TypeOK, WorkIsOwned, NEW r \in Request, NEW t \in AllThreads
    PROVE  /\ Cardinality(Buffer(todo[r][t])) \in Nat
           /\ IsFiniteSet(Buffer(todo[r][t]))
           /\ Buffer(todo[r][t]) \in SUBSET Nat
<1>1. OwnedBy(r, t) \in SUBSET Nat /\ IsFiniteSet(OwnedBy(r, t))
  BY CountsDrawn, OwnedType DEF OwnedBy
<1>2. todo[r][t] \subseteq OwnedBy(r, t)  BY DEF WorkIsOwned
<1>3. Buffer(todo[r][t]) \subseteq OwnedBy(r, t)  BY <1>2, BufferType
<1> QED  BY <1>1, <1>3, FS_Subset, FS_CardinalityType

\* A commit keeps the tables sets of events.
LEMMA CommitType ==
    ASSUME TypeOK, NEW m \in Models, NEW r \in Request, NEW S \in SUBSET Nat,
           CommitRows(m, Rows(r, S))
    PROVE  /\ table' \in [Models -> SUBSET (Request \X Nat)]
           /\ written' \in [Models -> SUBSET (Request \X Nat)]
<1>1. Rows(r, S) \in SUBSET (Request \X Nat)  BY DEF Rows
<1> QED  BY <1>1 DEF TypeOK, CommitRows

\* A request gets its counts, and its threads their shares.
LEMMA GenerateType ==
    ASSUME TypeOK, NEW r \in Request, Generate(r)
    PROVE  TypeOK'
<1>1. PICK n \in 0 .. MaxImsis : \E c \in [0 .. (n - 1) -> MinEvents .. MaxEvents] :
           HandOut(r, n, c)
  BY DEF Generate, HandOut
<1>2. PICK c \in [0 .. (n - 1) -> MinEvents .. MaxEvents] : HandOut(r, n, c)
  BY <1>1
<1>3. Drawn(n, c)  BY SizeAssumption DEF Drawn
<1>4. [t \in AllThreads |-> Owned(n, c, t)] \in [AllThreads -> SUBSET Nat]
  BY <1>3, OwnedType
<1>5. counts' \in [Request -> Draws]  BY <1>2 DEF TypeOK, HandOut, Draws
<1>6. todo' \in [Request -> [AllThreads -> SUBSET Nat]]
  BY <1>2, <1>4 DEF TypeOK, HandOut
<1>7. tpc' \in [Request -> [AllThreads -> Models \cup {"done", "failed"}]]
  BY <1>2 DEF TypeOK, Models, HandOut
<1> QED  BY <1>5, <1>6, <1>7 DEF Generate, TypeOK, stores

\* Every step keeps the types.
LEMMA NextType ==
    ASSUME TypeOK, WorkIsOwned, [Next]_vars
    PROVE  TypeOK'
<1> USE DEF request, threads, stores
<1>1. ASSUME NEW r \in Request, Generate(r) PROVE TypeOK'
  BY <1>1, GenerateType
<1>2. ASSUME NEW r \in Request, NEW t \in AllThreads, FlushNormal(r, t) PROVE TypeOK'
  <2>1. CommitRows("NORMAL", Rows(r, Buffer(todo[r][t]))) /\ "NORMAL" \in Models
    BY <1>2 DEF FlushNormal, Models
  <2>2. /\ table' \in [Models -> SUBSET (Request \X Nat)]
        /\ written' \in [Models -> SUBSET (Request \X Nat)]
    BY <2>1, WorkFinite, CommitType
  <2> QED  BY <1>2, <2>2 DEF FlushNormal, TypeOK, Models
<1>3. ASSUME NEW r \in Request, NEW t \in AllThreads, FlushCqrs(r, t) PROVE TypeOK'
  <2>1. CommitRows("CQRS", Rows(r, Buffer(todo[r][t]))) /\ "CQRS" \in Models
    BY <1>3 DEF FlushCqrs, Models
  <2>2. /\ table' \in [Models -> SUBSET (Request \X Nat)]
        /\ written' \in [Models -> SUBSET (Request \X Nat)]
    BY <2>1, WorkFinite, CommitType
  <2>3. total' \in [Request -> Nat]  BY <1>3, WorkFinite DEF FlushCqrs, TypeOK
  <2>4. todo' \in [Request -> [AllThreads -> SUBSET Nat]]
    BY <1>3 DEF FlushCqrs, TypeOK
  <2>5. tpc' \in [Request -> [AllThreads -> Models \cup {"done", "failed"}]]
    BY <1>3 DEF FlushCqrs, TypeOK, Models
  <2> QED  BY <1>3, <2>2, <2>3, <2>4, <2>5 DEF FlushCqrs, TypeOK
<1>4. ASSUME NEW r \in Request, Get(r) PROVE TypeOK'
  <2>1. waitsFor' \in [Request -> AllThreads]
    <3>1. CASE waitsFor' = waitsFor  BY <3>1 DEF TypeOK
    <3>2. CASE waitsFor' # waitsFor
      <4>1. /\ waitsFor[r] + 1 < NThreads(Size(r))
            /\ waitsFor' = [waitsFor EXCEPT ![r] = @ + 1]
        BY <1>4, <3>2 DEF Get
      <4>2. Size(r) \in Nat  BY CountsDrawn DEF Drawn
      <4>3. NThreads(Size(r)) \in Nat /\ NThreads(Size(r)) <= Threads
        BY <4>2, NThreadsType
      <4>4. waitsFor[r] \in 0 .. (Threads - 1)  BY DEF TypeOK, AllThreads
      <4>5. waitsFor[r] + 1 \in AllThreads
        BY <4>1, <4>3, <4>4, SizeAssumption DEF AllThreads
      <4> QED  BY <4>1, <4>5 DEF TypeOK
    <3> QED  BY <3>1, <3>2
  <2>2. rpc' \in [Request -> {"idle", "waiting", "returned", "failed"}]
    BY <1>4 DEF Get, TypeOK
  <2> QED  BY <1>4, <2>1, <2>2 DEF Get, TypeOK
<1>5. ASSUME NEW c \in Clearer, StartClear(c) \/ Truncate(c) PROVE TypeOK'
  BY <1>5 DEF StartClear, Truncate, TypeOK, Models
<1>6. ASSUME NEW r \in Request, NEW t \in AllThreads, ThreadFails(r, t) PROVE TypeOK'
  <2>1. /\ table' \in [Models -> SUBSET (Request \X Nat)]
        /\ written' \in [Models -> SUBSET (Request \X Nat)]
    <3>1. CASE UNCHANGED stores  BY <3>1 DEF TypeOK
    <3>2. CASE CommitRows(tpc[r][t], Rows(r, Buffer(todo[r][t])))
      <4>1. tpc[r][t] \in Models  BY <1>6 DEF ThreadFails
      <4> QED  BY <3>2, <4>1, WorkFinite, CommitType
    <3> QED  BY <1>6, <3>1, <3>2 DEF ThreadFails
  <2>2. faults' \in 0 .. MaxFaults
    BY <1>6, SizeAssumption DEF ThreadFails, Fault, TypeOK
  <2> QED  BY <1>6, <2>1, <2>2 DEF ThreadFails, TypeOK
<1>7. ASSUME NEW r \in Request, NEW t \in AllThreads, ThreadInterrupted(r, t) PROVE TypeOK'
  BY <1>7 DEF ThreadInterrupted, TypeOK
<1>8. ASSUME NEW c \in Clearer, ClearFails(c) PROVE TypeOK'
  BY <1>8, SizeAssumption DEF ClearFails, Fault, TypeOK
<1>9. CASE Crash
  BY <1>9, SizeAssumption DEF Crash, Fault, TypeOK
<1>10. CASE UNCHANGED vars
  BY <1>10 DEF vars, TypeOK
<1> QED
  BY <1>1, <1>2, <1>3, <1>4, <1>5, <1>6, <1>7, <1>8, <1>9, <1>10
  DEF Next, ThreadStep, FaultStep

-----------------------------------------------------------------------------
(***************************************************************************)
(* What is written and what is left belongs to one thread.                 *)
(***************************************************************************)
\* A row is in a set of rows when its event is in the set of events.
LEMMA RowsPoint ==
    ASSUME NEW r, NEW S, NEW W
    PROVE  /\ \A q, s : <<q, s>> \in Rows(r, S) <=> q = r /\ s \in S
           /\ Rows(r, S) \cap W = {} <=> \A s \in S : <<r, s>> \notin W
           /\ Rows(r, S) \subseteq W <=> \A s \in S : <<r, s>> \in W
BY DEF Rows

\* A commit adds the rows of the buffer to one model.
LEMMA CommitAdds ==
    ASSUME TypeOK, NEW m \in Models, NEW r, NEW S, CommitRows(m, Rows(r, S))
    PROVE  /\ \A k \in Models : k # m => written'[k] = written[k]
           /\ written'[m] = written[m] \cup Rows(r, S)
           /\ \A q, s : <<q, s>> \in written'[m] <=>
                 <<q, s>> \in written[m] \/ (q = r /\ s \in S)
<1>1. written'[m] = written[m] \cup Rows(r, S)  BY DEF CommitRows, TypeOK
<1> QED  BY <1>1, RowsPoint DEF CommitRows, TypeOK

\* What a thread owns changes with the counts of its request only.
LEMMA OwnedSame ==
    ASSUME NEW r, counts'[r] = counts[r], NEW t
    PROVE  OwnedBy(r, t)' = OwnedBy(r, t)
BY DEF OwnedBy, Size

\* A request that has not come owns nothing, so nothing of it was written.
LEMMA IdleOwnsNothing ==
    ASSUME TypeOK, WaitOrder, NEW r \in Request, rpc[r] = "idle", NEW t \in AllThreads
    PROVE  OwnedBy(r, t) = {}
<1>1. counts[r] = [k \in {} |-> 0]  BY DEF WaitOrder, Waited
<1>2. DOMAIN counts[r] = {}  BY <1>1
<1>3. Drawn(Size(r), counts[r])  BY CountsDrawn
<1>4. Offsets({}, counts[r]) = {}  BY DEF Offsets
<1>5. OwnedBy(r, t) \subseteq Offsets(DOMAIN counts[r], counts[r])
  BY <1>3, OwnedType DEF OwnedBy
<1> QED  BY <1>2, <1>4, <1>5

\* A step that writes nothing but events still to be written, and adds none
\* to those.
WritesWork ==
    /\ counts' = counts
    /\ \A r \in Request, t \in AllThreads : todo'[r][t] \subseteq todo[r][t]
    /\ \A m \in Models : \A e \in written'[m] :
          \/ e \in written[m]
          \/ \E r \in Request, t \in AllThreads : e \in Rows(r, todo[r][t])

\* Such a step leaves all work owned.
LEMMA WorkKept ==
    ASSUME WorkIsOwned, WritesWork
    PROVE  WorkIsOwned'
<1>1. \A r \in Request, t \in AllThreads : OwnedBy(r, t)' = OwnedBy(r, t)
  BY OwnedSame DEF WritesWork
<1>2. \A r, t : OwnedBy(r, t)' = OwnedBy(r, t)  BY OwnedSame DEF WritesWork
<1>3. ASSUME NEW m \in Models, NEW e \in written'[m]
      PROVE  \E t \in AllThreads : e[2] \in OwnedBy(e[1], t)
  <2>1. CASE e \in written[m]  BY <2>1 DEF WorkIsOwned
  <2>2. CASE \E r \in Request, t \in AllThreads : e \in Rows(r, todo[r][t])
    <3>1. PICK r \in Request, t \in AllThreads : e \in Rows(r, todo[r][t])  BY <2>2
    <3>2. e[1] = r /\ e[2] \in todo[r][t]  BY <3>1 DEF Rows
    <3> QED  BY <3>2 DEF WorkIsOwned
  <2> QED  BY <2>1, <2>2 DEF WritesWork
<1> QED  BY <1>1, <1>2, <1>3 DEF WorkIsOwned, WritesWork

\* A commit of a chunk writes nothing but work.
LEMMA CommitWork ==
    ASSUME TypeOK, NEW m \in Models, NEW r \in Request, NEW t \in AllThreads,
           CommitRows(m, Rows(r, Buffer(todo[r][t])))
    PROVE  \A k \in Models : \A e \in written'[k] :
             \/ e \in written[k]
             \/ \E q \in Request, u \in AllThreads : e \in Rows(q, todo[q][u])
<1>1. Rows(r, Buffer(todo[r][t])) \subseteq Rows(r, todo[r][t])
  BY BufferType DEF Rows
<1>2. written'[m] = written[m] \cup Rows(r, Buffer(todo[r][t]))  BY CommitAdds
<1>3. \A k \in Models : k # m => written'[k] = written[k]  BY CommitAdds
<1> QED  BY <1>1, <1>2, <1>3

\* The request owns what it hands out; nothing of it was written before.
LEMMA HandOutOwns ==
    ASSUME TypeOK, NEW r \in Request, NEW n \in Nat,
           NEW c \in [0 .. (n - 1) -> MinEvents .. MaxEvents], HandOut(r, n, c)
    PROVE  /\ \A t : OwnedBy(r, t)' = Owned(n, c, t)
           /\ \A q \in Request : q # r => \A t : OwnedBy(q, t)' = OwnedBy(q, t)
           /\ counts'[r] = c
<1>1. counts'[r] = c  BY DEF HandOut, TypeOK
<1>2. Cardinality(DOMAIN c) = n  BY DrawnSize DEF Drawn
<1>3. \A q \in Request : q # r => counts'[q] = counts[q]  BY DEF HandOut, TypeOK
<1>4. Size(r)' = n  BY <1>1, <1>2 DEF Size
<1>5. \A t : OwnedBy(r, t)' = Owned(n, c, t)  BY <1>1, <1>4 DEF OwnedBy
<1> QED  BY <1>1, <1>3, <1>5, OwnedSame

\* Before a request comes there is no row of it and no work.
LEMMA NothingWrittenYet ==
    ASSUME TypeOK, WorkIsOwned, WaitOrder, NEW r \in Request, rpc[r] = "idle"
    PROVE  /\ \A m \in Models : \A s : <<r, s>> \notin written[m]
           /\ \A t \in AllThreads : todo[r][t] = {}
<1>1. \A t \in AllThreads : OwnedBy(r, t) = {}  BY IdleOwnsNothing
<1>2. ASSUME NEW m \in Models, NEW s, <<r, s>> \in written[m] PROVE FALSE
  <2> DEFINE e == <<r, s>>
  <2>1. e \in written[m] /\ e[1] = r  BY <1>2
  <2>2. \E t \in AllThreads : e[2] \in OwnedBy(e[1], t)  BY <2>1 DEF WorkIsOwned
  <2> QED  BY <1>1, <2>1, <2>2
<1> QED  BY <1>1, <1>2 DEF WorkIsOwned

\* Every step but the arrival of a request writes work.
LEMMA StepWritesWork ==
    ASSUME TypeOK, [Next]_vars, ~ \E r \in Request : Generate(r)
    PROVE  WritesWork
<1> USE DEF request, threads, stores
<1> DEFINE Same == counts' = counts /\ todo' = todo /\ written' = written
<1>1. Same => WritesWork  BY DEF WritesWork
<1>2. ASSUME NEW r \in Request, NEW t \in AllThreads, FlushNormal(r, t) PROVE WritesWork
  <2>1. CommitRows("NORMAL", Rows(r, Buffer(todo[r][t]))) /\ "NORMAL" \in Models
    BY <1>2 DEF FlushNormal, Models
  <2>2. counts' = counts /\ todo' = todo  BY <1>2 DEF FlushNormal
  <2> QED  BY <2>1, <2>2, CommitWork DEF WritesWork
<1>3. ASSUME NEW r \in Request, NEW t \in AllThreads, FlushCqrs(r, t) PROVE WritesWork
  <2>1. CommitRows("CQRS", Rows(r, Buffer(todo[r][t]))) /\ "CQRS" \in Models
    BY <1>3 DEF FlushCqrs, Models
  <2>2. counts' = counts  BY <1>3 DEF FlushCqrs
  <2>3. \A q \in Request, u \in AllThreads : todo'[q][u] \subseteq todo[q][u]
    BY <1>3 DEF FlushCqrs, TypeOK
  <2> QED  BY <2>1, <2>2, <2>3, CommitWork DEF WritesWork
<1>4. ASSUME NEW r \in Request, NEW t \in AllThreads, ThreadFails(r, t) PROVE WritesWork
  <2>1. counts' = counts /\ todo' = todo /\ tpc[r][t] \in Models
    BY <1>4 DEF ThreadFails
  <2>2. CASE UNCHANGED stores  BY <1>1, <2>1, <2>2
  <2>3. CASE CommitRows(tpc[r][t], Rows(r, Buffer(todo[r][t])))
    BY <2>1, <2>3, CommitWork DEF WritesWork
  <2> QED  BY <1>4, <2>2, <2>3 DEF ThreadFails
<1>5. ASSUME NEW r \in Request, Get(r) PROVE Same
  BY <1>5 DEF Get
<1>6. ASSUME NEW c \in Clearer, StartClear(c) \/ Truncate(c) \/ ClearFails(c) PROVE Same
  BY <1>6 DEF StartClear, Truncate, ClearFails
<1>7. ASSUME NEW r \in Request, NEW t \in AllThreads, ThreadInterrupted(r, t) PROVE Same
  BY <1>7 DEF ThreadInterrupted
<1>8. CASE Crash \/ UNCHANGED vars  BY <1>1, <1>8 DEF Crash, vars
<1> HIDE DEF Same
<1> QED  BY <1>1, <1>2, <1>3, <1>4, <1>5, <1>6, <1>7, <1>8
         DEF Next, ThreadStep, FaultStep

\* Every step leaves all work owned.
LEMMA WorkStep ==
    ASSUME TypeOK, WorkIsOwned, WaitOrder, [Next]_vars
    PROVE  WorkIsOwned'
<1>1. ASSUME NEW r \in Request, Generate(r) PROVE WorkIsOwned'
  <2>1. PICK n \in 0 .. MaxImsis : \E c \in [0 .. (n - 1) -> MinEvents .. MaxEvents] :
             HandOut(r, n, c)
    BY <1>1 DEF Generate
  <2>2. PICK c \in [0 .. (n - 1) -> MinEvents .. MaxEvents] : HandOut(r, n, c)
    BY <2>1
  <2>3. /\ \A t : OwnedBy(r, t)' = Owned(n, c, t)
        /\ \A q \in Request : q # r => \A t : OwnedBy(q, t)' = OwnedBy(q, t)
    BY <2>2, HandOutOwns
  <2>4. \A m \in Models : \A s : <<r, s>> \notin written[m]
    BY <1>1, NothingWrittenYet DEF Generate
  <2>5. written' = written  BY <1>1 DEF Generate, stores
  <2>6. ASSUME NEW q \in Request, NEW t \in AllThreads
        PROVE  todo'[q][t] \subseteq OwnedBy(q, t)'
    <3>1. CASE q = r
      <4>1. todo'[r][t] = Owned(n, c, t)  BY <2>2 DEF HandOut, TypeOK
      <4> QED  BY <2>3, <3>1, <4>1
    <3>2. CASE q # r
      <4>1. todo'[q][t] = todo[q][t]  BY <2>2, <3>2 DEF HandOut, TypeOK
      <4> QED  BY <2>3, <3>2, <4>1 DEF WorkIsOwned
    <3> QED  BY <3>1, <3>2
  <2>7. ASSUME NEW m \in Models, NEW e \in written'[m]
        PROVE  \E t \in AllThreads : e[2] \in OwnedBy(e[1], t)'
    <3>1. e \in written[m]  BY <2>5
    <3>2. e[1] \in Request /\ e = <<e[1], e[2]>>  BY <3>1 DEF TypeOK
    <3>3. e[1] # r  BY <2>4, <3>1, <3>2
    <3> QED  BY <2>3, <3>1, <3>2, <3>3 DEF WorkIsOwned
  <2> QED  BY <2>6, <2>7 DEF WorkIsOwned
<1> QED  BY <1>1, StepWritesWork, WorkKept

-----------------------------------------------------------------------------
(***************************************************************************)
(* How far the threads got.                                                *)
(***************************************************************************)

\* A thread is where it was when another thread writes a chunk of its own.
LEMMA OthersProgress ==
    ASSUME TypeOK, WorkIsOwned, NEW r \in Request, NEW t \in AllThreads,
           NEW q \in Request, NEW u \in AllThreads, q # r \/ u # t,
           Progress(q, u), counts' = counts,
           tpc'[q][u] = tpc[q][u], todo'[q][u] = todo[q][u],
           NEW m \in Models, CommitRows(m, Rows(r, Buffer(todo[r][t])))
    PROVE  Progress(q, u)'
<1>1. OwnedBy(q, u)' = OwnedBy(q, u)  BY OwnedSame
<1>2. ASSUME NEW k \in Models, NEW s \in OwnedBy(q, u)
      PROVE  <<q, s>> \in written'[k] <=> <<q, s>> \in written[k]
  <2>1. CASE k # m  BY <2>1, CommitAdds
  <2>2. CASE k = m
    <3>1. ~ (q = r /\ s \in Buffer(todo[r][t]))
      <4> SUFFICES ASSUME q = r, s \in Buffer(todo[r][t]) PROVE FALSE
        OBVIOUS
      <4>1. s \in OwnedBy(r, t) /\ s \in OwnedBy(r, u)
        BY BufferType DEF WorkIsOwned
      <4>2. Drawn(Size(r), counts[r])  BY CountsDrawn
      <4>3. t = u  BY <4>1, <4>2, OwnedDisjoint DEF OwnedBy
      <4> QED  BY <4>3
    <3> QED  BY <2>2, <3>1, CommitAdds
  <2> QED  BY <2>1, <2>2
<1>3. /\ todo[q][u] \subseteq OwnedBy(q, u)
      /\ Buffer(todo[q][u]) \subseteq OwnedBy(q, u)
  BY BufferType DEF WorkIsOwned
<1> QED  BY <1>1, <1>2, <1>3 DEF Progress, Models

\* A thread is where it was when a step neither writes nor moves it.
LEMMA SameProgress ==
    ASSUME NEW r \in Request, NEW t \in AllThreads, Progress(r, t),
           counts' = counts, written' = written, todo' = todo,
           \/ tpc'[r][t] = tpc[r][t]
           \/ tpc'[r][t] = "failed" /\ tpc[r][t] \in Models
    PROVE  Progress(r, t)'
<1>1. OwnedBy(r, t)' = OwnedBy(r, t)  BY OwnedSame
<1> QED  BY <1>1 DEF Progress, Models

\* After the first copyIn the chunk is in the NORMAL model.
LEMMA FlushNormalProgress ==
    ASSUME TypeOK, WorkIsOwned, ThreadProgress,
           NEW r \in Request, NEW t \in AllThreads, FlushNormal(r, t)
    PROVE  ThreadProgress'
<1>1. /\ CommitRows("NORMAL", Rows(r, Buffer(todo[r][t])))
      /\ "NORMAL" \in Models /\ "CQRS" \in Models
      /\ counts' = counts /\ todo' = todo /\ tpc[r][t] = "NORMAL"
  BY DEF FlushNormal, request, Models
<1>2. /\ \A q \in Request, u \in AllThreads :
            q # r \/ u # t => tpc'[q][u] = tpc[q][u]
      /\ tpc'[r][t] = "CQRS"
  BY DEF FlushNormal, TypeOK
<1>3. ASSUME NEW q \in Request, NEW u \in AllThreads PROVE Progress(q, u)'
  <2>1. CASE q # r \/ u # t
    BY <1>1, <1>2, <2>1, OthersProgress DEF ThreadProgress
  <2>2. CASE q = r /\ u = t
    <3>1. /\ written'["CQRS"] = written["CQRS"]
          /\ \A s : <<r, s>> \in written'["NORMAL"] <=>
                <<r, s>> \in written["NORMAL"] \/ s \in Buffer(todo[r][t])
      BY <1>1, CommitAdds
    <3>2. OwnedBy(r, t)' = OwnedBy(r, t)  BY <1>1, OwnedSame
    <3>3. Progress(r, t)  BY DEF ThreadProgress
    <3> QED  BY <1>1, <1>2, <2>2, <3>1, <3>2, <3>3 DEF Progress, Models
  <2> QED  BY <2>1, <2>2
<1> QED  BY <1>3 DEF ThreadProgress

\* After the second copyIn the chunk is written to both models and off the list.
LEMMA FlushCqrsProgress ==
    ASSUME TypeOK, WorkIsOwned, ThreadProgress,
           NEW r \in Request, NEW t \in AllThreads, FlushCqrs(r, t)
    PROVE  ThreadProgress'
<1> DEFINE B == Buffer(todo[r][t])
<1>1. /\ CommitRows("CQRS", Rows(r, Buffer(todo[r][t])))
      /\ "NORMAL" \in Models /\ "CQRS" \in Models
      /\ counts' = counts /\ tpc[r][t] = "CQRS"
  BY DEF FlushCqrs, request, Models
<1>2. \A q \in Request, u \in AllThreads :
         q # r \/ u # t => tpc'[q][u] = tpc[q][u] /\ todo'[q][u] = todo[q][u]
  BY DEF FlushCqrs, TypeOK
<1>3. /\ todo'[r][t] = todo[r][t] \ B
      /\ tpc'[r][t] = IF todo'[r][t] = {} THEN "done" ELSE "NORMAL"
  BY DEF FlushCqrs, TypeOK
<1>4. ASSUME NEW q \in Request, NEW u \in AllThreads PROVE Progress(q, u)'
  <2>1. CASE q # r \/ u # t
    BY <1>1, <1>2, <2>1, OthersProgress DEF ThreadProgress
  <2>2. CASE q = r /\ u = t
    <3>1. /\ written'["NORMAL"] = written["NORMAL"]
          /\ \A s : <<r, s>> \in written'["CQRS"] <=>
                <<r, s>> \in written["CQRS"] \/ s \in B
      BY <1>1, CommitAdds
    <3>2. OwnedBy(r, t)' = OwnedBy(r, t)  BY <1>1, OwnedSame
    <3>3. Progress(r, t)  BY DEF ThreadProgress
    <3> HIDE DEF B
    <3>4. /\ \A s \in todo'[r][t] : <<r, s>> \notin written'["NORMAL"]
          /\ \A s \in todo'[r][t] : <<r, s>> \notin written'["CQRS"]
          /\ \A s \in OwnedBy(r, t) \ todo'[r][t] : <<r, s>> \in written'["CQRS"]
      BY <1>1, <1>3, <3>1, <3>3 DEF Progress, B
    <3>5. tpc'[r][t] = "done" <=> todo'[r][t] = {}  BY <1>3
    <3>6. tpc'[r][t] # "CQRS"  BY <1>3
    <3> QED  BY <2>2, <3>2, <3>4, <3>5, <3>6 DEF Progress
  <2> QED  BY <2>1, <2>2
<1> QED  BY <1>4 DEF ThreadProgress

\* A thread that fails keeps its chunk on the list, written or not.
LEMMA ThreadFailsProgress ==
    ASSUME TypeOK, WorkIsOwned, ThreadProgress,
           NEW r \in Request, NEW t \in AllThreads, ThreadFails(r, t)
    PROVE  ThreadProgress'
<1>1. /\ "NORMAL" \in Models /\ "CQRS" \in Models /\ tpc[r][t] \in Models
      /\ counts' = counts /\ todo' = todo
  BY DEF ThreadFails, request, Models
<1>2. /\ \A q \in Request, u \in AllThreads :
            q # r \/ u # t => tpc'[q][u] = tpc[q][u]
      /\ tpc'[r][t] = "failed"
  BY DEF ThreadFails, TypeOK
<1>3. CASE UNCHANGED stores
  <2>1. ASSUME NEW q \in Request, NEW u \in AllThreads PROVE Progress(q, u)'
    BY <1>1, <1>2, <1>3, SameProgress DEF ThreadProgress, stores
  <2> QED  BY <2>1 DEF ThreadProgress
<1>4. CASE CommitRows(tpc[r][t], Rows(r, Buffer(todo[r][t])))
  <2>1. ASSUME NEW q \in Request, NEW u \in AllThreads PROVE Progress(q, u)'
    <3>1. CASE q # r \/ u # t
      BY <1>1, <1>2, <1>4, <3>1, OthersProgress DEF ThreadProgress
    <3>2. CASE q = r /\ u = t
      <4>1. /\ \A k \in Models : k # tpc[r][t] => written'[k] = written[k]
            /\ \A s : <<r, s>> \in written'[tpc[r][t]] <=>
                  <<r, s>> \in written[tpc[r][t]] \/ s \in Buffer(todo[r][t])
        BY <1>1, <1>4, CommitAdds
      <4>2. OwnedBy(r, t)' = OwnedBy(r, t)  BY <1>1, OwnedSame
      <4>3. Progress(r, t)  BY DEF ThreadProgress
      <4>4. todo'[r][t] # {}  BY <1>1, <4>3 DEF Progress, Models
      <4>5. \A s \in todo[r][t] \ Buffer(todo[r][t]) : <<r, s>> \notin written'["NORMAL"]
        BY <1>1, <4>1, <4>3 DEF Progress
      <4>6. \A s \in OwnedBy(r, t) \ todo[r][t] : <<r, s>> \in written'["CQRS"]
        BY <1>1, <4>1, <4>3 DEF Progress
      <4> QED
        BY <1>1, <1>2, <3>2, <4>2, <4>4, <4>5, <4>6 DEF Progress, Models
    <3> QED  BY <3>1, <3>2
  <2> QED  BY <2>1 DEF ThreadProgress
<1> QED  BY <1>3, <1>4 DEF ThreadFails

\* A request starts with all its work before it.
LEMMA GenerateProgress ==
    ASSUME TypeOK, WorkIsOwned, WaitOrder, ThreadProgress,
           NEW r \in Request, Generate(r)
    PROVE  ThreadProgress'
<1>1. PICK n \in 0 .. MaxImsis : \E c \in [0 .. (n - 1) -> MinEvents .. MaxEvents] :
           HandOut(r, n, c)
  BY DEF Generate
<1>2. PICK c \in [0 .. (n - 1) -> MinEvents .. MaxEvents] : HandOut(r, n, c)
  BY <1>1
<1>3. /\ \A t : OwnedBy(r, t)' = Owned(n, c, t)
      /\ \A q \in Request : q # r => \A t : OwnedBy(q, t)' = OwnedBy(q, t)
  BY <1>2, HandOutOwns
<1>4. \A m \in Models : \A s : <<r, s>> \notin written[m]
  BY NothingWrittenYet DEF Generate
<1>5. written' = written  BY DEF Generate, stores
<1>6. ASSUME NEW q \in Request, NEW t \in AllThreads PROVE Progress(q, t)'
  <2>1. CASE q = r
    <3>1. /\ todo'[r][t] = Owned(n, c, t)
          /\ tpc'[r][t] = IF Owned(n, c, t) = {} THEN "done" ELSE "NORMAL"
      BY <1>2 DEF HandOut, TypeOK
    <3> QED  BY <1>3, <1>4, <1>5, <2>1, <3>1 DEF Progress, Models
  <2>2. CASE q # r
    <3>1. todo'[q][t] = todo[q][t] /\ tpc'[q][t] = tpc[q][t]
      BY <1>2, <2>2 DEF HandOut, TypeOK
    <3>2. Progress(q, t)  BY DEF ThreadProgress
    <3> QED  BY <1>3, <1>5, <2>2, <3>1, <3>2 DEF Progress
  <2> QED  BY <2>1, <2>2
<1> QED  BY <1>6 DEF ThreadProgress

\* Every step leaves each thread where the store it writes next says.
LEMMA ProgressStep ==
    ASSUME TypeOK, WorkIsOwned, WaitOrder, ThreadProgress, [Next]_vars
    PROVE  ThreadProgress'
<1> USE DEF request, threads, stores
<1> DEFINE Same == counts' = counts /\ todo' = todo /\ written' = written
           Moved(r, t) == \/ tpc'[r][t] = tpc[r][t]
                          \/ tpc'[r][t] = "failed" /\ tpc[r][t] \in Models
<1>1. (Same /\ \A r \in Request, t \in AllThreads : Moved(r, t)) => ThreadProgress'
  BY SameProgress DEF ThreadProgress
<1>2. ASSUME NEW r \in Request, Get(r) PROVE Same /\ tpc' = tpc
  BY <1>2 DEF Get
<1>3. ASSUME NEW c \in Clearer, StartClear(c) \/ Truncate(c) \/ ClearFails(c)
      PROVE  Same /\ tpc' = tpc
  BY <1>3 DEF StartClear, Truncate, ClearFails
<1>4. ASSUME NEW r \in Request, NEW t \in AllThreads, ThreadInterrupted(r, t)
      PROVE  Same /\ \A q \in Request, u \in AllThreads : Moved(q, u)
  BY <1>4 DEF ThreadInterrupted, TypeOK
<1>5. CASE Crash
  <2>1. Same /\ \A q \in Request, u \in AllThreads : Moved(q, u)
    BY <1>5 DEF Crash, TypeOK
  <2> QED  BY <1>1, <2>1
<1>6. CASE UNCHANGED vars
  <2>1. Same /\ tpc' = tpc  BY <1>6 DEF vars
  <2> QED  BY <1>1, <2>1
<1>7. (Same /\ tpc' = tpc) => ThreadProgress'  BY <1>1
<1> HIDE DEF Same, Moved
<1> QED
  BY <1>1, <1>2, <1>3, <1>4, <1>5, <1>6, <1>7, FlushNormalProgress,
     FlushCqrsProgress, ThreadFailsProgress, GenerateProgress
  DEF Next, ThreadStep, FaultStep

\* A chunk is in the NORMAL model before it gets into the CQRS model.
LEMMA NormalFirstStep ==
    ASSUME TypeOK, WorkIsOwned, ThreadProgress, NormalFirst, [Next]_vars
    PROVE  NormalFirst'
<1> USE DEF request, threads, stores
<1>1. written' = written => NormalFirst'  BY DEF NormalFirst
<1>2. \A r \in Request, t \in AllThreads : Progress(r, t)  BY DEF ThreadProgress
<1>3. ASSUME NEW r \in Request, NEW t \in AllThreads, NEW m \in Models, tpc[r][t] = m,
             CommitRows(m, Rows(r, Buffer(todo[r][t])))
      PROVE  NormalFirst'
  <2>1. /\ \A k \in Models : k # m => written'[k] = written[k]
        /\ written'[m] = written[m] \cup Rows(r, Buffer(todo[r][t]))
    BY <1>3, CommitAdds
  <2>2. CASE m = "NORMAL"  BY <2>1, <2>2 DEF NormalFirst, Models
  <2>3. CASE m = "CQRS"
    <3>1. Rows(r, Buffer(todo[r][t])) \subseteq written["NORMAL"]
      BY <1>2, <1>3, <2>3, RowsPoint DEF Progress
    <3> QED  BY <2>1, <2>3, <3>1 DEF NormalFirst, Models
  <2> QED  BY <2>2, <2>3 DEF Models
<1>4. ASSUME NEW r \in Request, NEW t \in AllThreads, ThreadStep(r, t) PROVE NormalFirst'
  <2>1. tpc[r][t] \in Models /\ CommitRows(tpc[r][t], Rows(r, Buffer(todo[r][t])))
    BY <1>4 DEF ThreadStep, FlushNormal, FlushCqrs, Models
  <2> QED  BY <1>3, <2>1
<1>5. ASSUME NEW r \in Request, NEW t \in AllThreads, ThreadFails(r, t) PROVE NormalFirst'
  <2>1. /\ tpc[r][t] \in Models
        /\ UNCHANGED stores \/ CommitRows(tpc[r][t], Rows(r, Buffer(todo[r][t])))
    BY <1>5 DEF ThreadFails
  <2> QED  BY <1>1, <1>3, <2>1
<1>6. ASSUME NEW r \in Request, Generate(r) \/ Get(r) PROVE written' = written
  BY <1>6 DEF Generate, Get
<1>7. ASSUME NEW c \in Clearer, StartClear(c) \/ Truncate(c) \/ ClearFails(c)
      PROVE  written' = written
  BY <1>7 DEF StartClear, Truncate, ClearFails
<1>8. ASSUME NEW r \in Request, NEW t \in AllThreads, ThreadInterrupted(r, t)
      PROVE  written' = written
  BY <1>8 DEF ThreadInterrupted
<1>9. CASE Crash \/ UNCHANGED vars  BY <1>1, <1>9 DEF Crash, vars
<1> QED  BY <1>1, <1>4, <1>5, <1>6, <1>7, <1>8, <1>9 DEF Next, FaultStep

-----------------------------------------------------------------------------
(***************************************************************************)
(* What a request waited for.                                              *)
(***************************************************************************)
\* A request waits on when its finished threads stay finished.
LEMMA SameWaited ==
    ASSUME NEW r \in Request, Waited(r), counts'[r] = counts[r],
           waitsFor'[r] = waitsFor[r],
           rpc'[r] = rpc[r] \/ rpc'[r] = "failed",
           \A t \in AllThreads : tpc[r][t] = "done" => tpc'[r][t] = "done"
    PROVE  Waited(r)'
<1>1. Size(r)' = Size(r)  BY DEF Size
<1>2. NThreads(Size(r))' = NThreads(Size(r))  BY <1>1 DEF NThreads
<1> QED  BY <1>2 DEF Waited

\* After the last thread there is nothing left.
LEMMA NoThreadBeyond ==
    ASSUME TypeOK, WorkIsOwned, ThreadProgress, NEW r \in Request,
           NEW t \in AllThreads, t >= NThreads(Size(r))
    PROVE  tpc[r][t] = "done"
<1>1. Size(r) \in Nat  BY CountsDrawn DEF Drawn
<1>2. t \notin ThreadOf(Size(r))
  BY <1>1, NThreadsType, SizeAssumption DEF ThreadOf, AllThreads
<1>3. OwnedBy(r, t) = {}  BY <1>2 DEF OwnedBy, Owned
<1>4. todo[r][t] = {}  BY <1>3 DEF WorkIsOwned
<1> QED  BY <1>4 DEF ThreadProgress, Progress

\* Each step keeps what a request waited for.
LEMMA WaitStep ==
    ASSUME TypeOK, WorkIsOwned, ThreadProgress, WaitOrder, [Next]_vars
    PROVE  WaitOrder'
<1> USE DEF request, threads, stores
<1> DEFINE Asks == rpc' = rpc /\ waitsFor' = waitsFor /\ counts' = counts
           Kept(r) == \A t \in AllThreads : tpc[r][t] = "done" => tpc'[r][t] = "done"
<1>1. \A r \in Request : Waited(r)  BY DEF WaitOrder
<1>2. (Asks /\ \A r \in Request : Kept(r)) => WaitOrder'
  BY <1>1, SameWaited DEF WaitOrder
<1>3. ASSUME NEW r \in Request, Generate(r) PROVE WaitOrder'
  <2>1. PICK n \in 0 .. MaxImsis : \E c \in [0 .. (n - 1) -> MinEvents .. MaxEvents] :
             HandOut(r, n, c)
    BY <1>3 DEF Generate
  <2>2. PICK c \in [0 .. (n - 1) -> MinEvents .. MaxEvents] : HandOut(r, n, c)
    BY <2>1
  <2>3. /\ \A q \in Request : q # r =>
              rpc'[q] = rpc[q] /\ counts'[q] = counts[q] /\ tpc'[q] = tpc[q]
        /\ waitsFor' = waitsFor /\ rpc'[r] = "waiting" /\ counts'[r] = c
    BY <1>3, <2>2 DEF Generate, HandOut, TypeOK
  <2>4. waitsFor[r] = 0  BY <1>1, <1>3 DEF Generate, Waited
  <2>5. NThreads(Size(r))' \in Nat \ {0}
    <3>1. Size(r)' = n
      <4>1. Drawn(n, c)  BY SizeAssumption DEF Drawn
      <4> QED  BY <2>3, <4>1, DrawnSize DEF Size
    <3>2. NThreads(n) \in Nat \ {0}  BY NThreadsType
    <3> QED  BY <3>1, <3>2 DEF NThreads
  <2>6. \A t \in AllThreads : ~ (t < 0)  BY DEF AllThreads
  <2>7. Waited(r)'  BY <2>3, <2>4, <2>5, <2>6 DEF Waited
  <2>8. ASSUME NEW q \in Request, q # r PROVE Waited(q)'
    BY <1>1, <2>3, <2>8, SameWaited
  <2> QED  BY <2>7, <2>8 DEF WaitOrder
<1>4. ASSUME NEW r \in Request, Get(r) PROVE WaitOrder'
  <2>1. /\ counts' = counts /\ tpc' = tpc /\ rpc[r] = "waiting"
        /\ \A q \in Request : q # r => rpc'[q] = rpc[q] /\ waitsFor'[q] = waitsFor[q]
    BY <1>4 DEF Get, TypeOK
  <2>2. Waited(r)'
    <3>1. NThreads(Size(r))' = NThreads(Size(r))  BY <2>1 DEF NThreads, Size
    <3>2. NThreads(Size(r)) \in Nat
      <4>1. Size(r) \in Nat  BY CountsDrawn DEF Drawn
      <4> QED  BY <4>1, NThreadsType
    <3>3. /\ waitsFor[r] \in Nat
          /\ \A t \in AllThreads : t \in Nat
      BY DEF TypeOK, AllThreads
    <3>4. \A t \in AllThreads : t < waitsFor[r] => tpc[r][t] = "done"
      BY <1>1, <2>1 DEF Waited
    <3>5. CASE /\ tpc[r][waitsFor[r]] = "done"
               /\ waitsFor[r] + 1 < NThreads(Size(r))
      <4>1. waitsFor'[r] = waitsFor[r] + 1 /\ rpc'[r] = "waiting"
        BY <1>4, <3>5 DEF Get, TypeOK
      <4>2. \A t \in AllThreads : t < waitsFor'[r] => tpc[r][t] = "done"
        BY <3>3, <3>4, <3>5, <4>1
      <4> QED  BY <2>1, <3>1, <3>5, <4>1, <4>2 DEF Waited
    <3>6. CASE /\ tpc[r][waitsFor[r]] = "done"
               /\ ~ (waitsFor[r] + 1 < NThreads(Size(r)))
      <4>1. rpc'[r] = "returned"  BY <1>4, <3>6 DEF Get, TypeOK
      <4>2. ASSUME NEW t \in AllThreads PROVE tpc[r][t] = "done"
        <5>1. CASE t < waitsFor[r]  BY <3>4, <5>1
        <5>2. CASE t = waitsFor[r]  BY <3>6, <5>2
        <5>3. CASE t > waitsFor[r]
          <6>1. t >= NThreads(Size(r))  BY <3>2, <3>3, <3>6, <5>3
          <6> QED  BY <6>1, NoThreadBeyond
        <5> QED  BY <3>3, <5>1, <5>2, <5>3
      <4> QED  BY <2>1, <4>1, <4>2 DEF Waited
    <3>7. CASE tpc[r][waitsFor[r]] = "failed"
      <4>1. rpc'[r] = "failed"  BY <1>4, <3>7 DEF Get, TypeOK
      <4> QED  BY <4>1 DEF Waited
    <3> QED  BY <1>4, <3>5, <3>6, <3>7 DEF Get
  <2>3. ASSUME NEW q \in Request, q # r PROVE Waited(q)'
    BY <1>1, <2>1, <2>3, SameWaited
  <2> QED  BY <2>2, <2>3 DEF WaitOrder
<1>5. ASSUME NEW r \in Request, NEW t \in AllThreads,
             ThreadStep(r, t) \/ ThreadFails(r, t) \/ ThreadInterrupted(r, t)
      PROVE  Asks /\ \A q \in Request : Kept(q)
  <2>1. /\ Asks /\ tpc[r][t] # "done"
        /\ \E x : tpc' = [tpc EXCEPT ![r][t] = x]
    BY <1>5 DEF ThreadStep, FlushNormal, FlushCqrs, ThreadFails, ThreadInterrupted, Models
  <2> QED  BY <2>1 DEF TypeOK
<1>6. ASSUME NEW c \in Clearer, StartClear(c) \/ Truncate(c) \/ ClearFails(c)
      PROVE  Asks /\ tpc' = tpc
  BY <1>6 DEF StartClear, Truncate, ClearFails
<1>7. CASE Crash
  <2>1. ASSUME NEW r \in Request PROVE Waited(r)'
    <3>1. /\ counts' = counts /\ waitsFor' = waitsFor
          /\ rpc'[r] = rpc[r] \/ rpc'[r] = "failed"
      BY <1>7 DEF Crash, TypeOK
    <3>2. Kept(r)  BY <1>7 DEF Crash, TypeOK, Models
    <3> QED  BY <1>1, <3>1, <3>2, SameWaited
  <2> QED  BY <2>1 DEF WaitOrder
<1>8. CASE UNCHANGED vars
  <2>1. Asks /\ tpc' = tpc  BY <1>8 DEF vars
  <2> QED  BY <1>2, <2>1
<1>9. (Asks /\ tpc' = tpc) => WaitOrder'  BY <1>2
<1> HIDE DEF Asks, Kept
<1> QED  BY <1>2, <1>3, <1>4, <1>5, <1>6, <1>7, <1>8, <1>9 DEF Next, FaultStep

-----------------------------------------------------------------------------
(***************************************************************************)
(* What is counted.                                                        *)
(***************************************************************************)
\* A request's count is exact when neither its rows nor its count changed.
LEMMA SameCounted ==
    ASSUME NEW r \in Request, Counted(r), counts'[r] = counts[r], total'[r] = total[r],
           \A s : <<r, s>> \in written'["CQRS"] <=> <<r, s>> \in written["CQRS"],
           \A t \in AllThreads : tpc[r][t] = "failed" => tpc'[r][t] = "failed"
    PROVE  Counted(r)'
<1>1. EventsOf(r)' = EventsOf(r)  BY DEF EventsOf
<1>2. WrittenOf(r, "CQRS")' = WrittenOf(r, "CQRS")  BY <1>1 DEF WrittenOf
<1> QED  BY <1>2 DEF Counted

\* The rows of a request in a model are finitely many.
LEMMA EventsFinite ==
    ASSUME TypeOK, NEW r \in Request, NEW m
    PROVE  /\ EventsOf(r) \in SUBSET Nat /\ IsFiniteSet(EventsOf(r))
           /\ IsFiniteSet(WrittenOf(r, m)) /\ WrittenOf(r, m) \subseteq EventsOf(r)
<1>1. EventsOf(r) \in SUBSET Nat /\ IsFiniteSet(EventsOf(r))
  BY CountsDrawn, OffsetsFinite DEF EventsOf
<1>2. WrittenOf(r, m) \subseteq EventsOf(r)  BY DEF WrittenOf
<1> QED  BY <1>1, <1>2, FS_Subset

\* What a thread owns are events of the request.
LEMMA OwnedAreEvents ==
    ASSUME TypeOK, NEW r \in Request
    PROVE  EventsOf(r) = UNION {OwnedBy(r, t) : t \in AllThreads}
BY CountsDrawn, OwnedCovers DEF EventsOf, OwnedBy

\* A chunk is counted once, by what it adds.
LEMMA FlushCqrsCounted ==
    ASSUME TypeOK, WorkIsOwned, ThreadProgress,
           NEW r \in Request, NEW t \in AllThreads, FlushCqrs(r, t), Counted(r)
    PROVE  Counted(r)'
<1> DEFINE B == Buffer(todo[r][t])
           W == WrittenOf(r, "CQRS")
<1>1. /\ CommitRows("CQRS", Rows(r, B)) /\ "CQRS" \in Models
      /\ counts' = counts /\ tpc[r][t] = "CQRS"
      /\ total'[r] = total[r] + Cardinality(B)
  BY DEF FlushCqrs, request, Models, TypeOK
<1>2. \A s : <<r, s>> \in written'["CQRS"] <=> <<r, s>> \in written["CQRS"] \/ s \in B
  BY <1>1, CommitAdds
<1>3. B \subseteq EventsOf(r)
  BY BufferType, OwnedAreEvents DEF WorkIsOwned
<1>4. \A s \in B : <<r, s>> \notin written["CQRS"]
  BY <1>1, BufferType DEF ThreadProgress, Progress
<1>5. EventsOf(r)' = EventsOf(r)  BY <1>1 DEF EventsOf
<1>6. WrittenOf(r, "CQRS")' = W \cup B  BY <1>2, <1>3, <1>5 DEF WrittenOf
<1>7. W \cap B = {}  BY <1>4 DEF WrittenOf
<1>8. IsFiniteSet(W) /\ IsFiniteSet(B)  BY EventsFinite, WorkFinite
<1> HIDE DEF B, W
<1>9. Cardinality(W \cup B) = Cardinality(W) + Cardinality(B)
  <2>1. Cardinality(W \cup B) = Cardinality(W) + Cardinality(B) - Cardinality(W \cap B)
    BY <1>8, FS_Union
  <2>2. Cardinality(W \cap B) = 0  BY <1>7, FS_EmptySet
  <2>3. Cardinality(W) \in Nat /\ Cardinality(B) \in Nat  BY <1>8, FS_CardinalityType
  <2> QED  BY <2>1, <2>2, <2>3
<1>10. \A u \in AllThreads : tpc[r][u] = "failed" => tpc'[r][u] = "failed"
  BY <1>1 DEF FlushCqrs, TypeOK
<1>11. ASSUME \A u \in AllThreads : tpc'[r][u] # "failed"
       PROVE  total'[r] = Cardinality(WrittenOf(r, "CQRS"))'
  <2>1. total[r] = Cardinality(W)  BY <1>10, <1>11 DEF Counted, W
  <2> QED  BY <1>1, <1>6, <1>9, <2>1
<1> QED  BY <1>11 DEF Counted

\* A new request starts to count at zero.
LEMMA GenerateCounted ==
    ASSUME TypeOK, WorkIsOwned, WaitOrder, ThreadProgress, TotalIsExact,
           NEW r \in Request, Generate(r)
    PROVE  TotalIsExact'
<1>1. /\ \A m \in Models : \A s : <<r, s>> \notin written[m]
      /\ \A t \in AllThreads : todo[r][t] = {}
  BY NothingWrittenYet DEF Generate
<1>2. /\ written' = written /\ total' = total
      /\ \A q \in Request : q # r => counts'[q] = counts[q] /\ tpc'[q] = tpc[q]
  BY DEF Generate, HandOut, stores, TypeOK
<1>3. "CQRS" \in Models  BY DEF Models
<1>4. WrittenOf(r, "CQRS") = {} /\ WrittenOf(r, "CQRS")' = {}
  BY <1>1, <1>2, <1>3 DEF WrittenOf
<1>5. \A t \in AllThreads : tpc[r][t] # "failed"
  BY <1>1 DEF ThreadProgress, Progress
<1>6. total[r] = Cardinality(WrittenOf(r, "CQRS"))
  BY <1>5 DEF TotalIsExact, Counted
<1>7. total'[r] = Cardinality(WrittenOf(r, "CQRS"))'  BY <1>2, <1>4, <1>6
<1>8. ASSUME NEW q \in Request, q # r PROVE Counted(q)'
  BY <1>2, <1>8, SameCounted DEF TotalIsExact
<1> QED  BY <1>7, <1>8 DEF TotalIsExact, Counted

\* Every step keeps the counters exact.
LEMMA TotalStep ==
    ASSUME TypeOK, WorkIsOwned, WaitOrder, ThreadProgress, TotalIsExact, [Next]_vars
    PROVE  TotalIsExact'
<1> USE DEF request, threads, stores
<1> DEFINE Kept(r) == \A t \in AllThreads : tpc[r][t] = "failed" => tpc'[r][t] = "failed"
           Same == counts' = counts /\ total' = total /\ written' = written
<1>1. \A r \in Request : Counted(r)  BY DEF TotalIsExact
<1>2. (Same /\ \A r \in Request : Kept(r)) => TotalIsExact'
  BY <1>1, SameCounted DEF TotalIsExact
<1>3. (Same /\ tpc' = tpc) => TotalIsExact'  BY <1>2
<1>4. ASSUME NEW r \in Request, NEW t \in AllThreads, FlushNormal(r, t)
      PROVE  TotalIsExact'
  <2>1. /\ CommitRows("NORMAL", Rows(r, Buffer(todo[r][t])))
        /\ "NORMAL" \in Models /\ "CQRS" \in Models
        /\ counts' = counts /\ total' = total
    BY <1>4 DEF FlushNormal, Models
  <2>2. written'["CQRS"] = written["CQRS"]  BY <2>1, CommitAdds
  <2>3. \A q \in Request : Kept(q)  BY <1>4 DEF FlushNormal, TypeOK
  <2> QED  BY <1>1, <2>1, <2>2, <2>3, SameCounted DEF TotalIsExact
<1>5. ASSUME NEW r \in Request, NEW t \in AllThreads, FlushCqrs(r, t)
      PROVE  TotalIsExact'
  <2>1. /\ CommitRows("CQRS", Rows(r, Buffer(todo[r][t]))) /\ "CQRS" \in Models
        /\ counts' = counts
        /\ \A q \in Request : q # r => total'[q] = total[q] /\ tpc'[q] = tpc[q]
    BY <1>5 DEF FlushCqrs, Models, TypeOK
  <2>2. ASSUME NEW q \in Request, q # r PROVE Counted(q)'
    <3>1. \A s : <<q, s>> \in written'["CQRS"] <=> <<q, s>> \in written["CQRS"]
      BY <2>1, <2>2, CommitAdds
    <3> QED  BY <1>1, <2>1, <2>2, <3>1, SameCounted
  <2>3. Counted(r)'  BY <1>1, <1>5, FlushCqrsCounted
  <2> QED  BY <2>2, <2>3 DEF TotalIsExact
<1>6. ASSUME NEW r \in Request, NEW t \in AllThreads, ThreadFails(r, t)
      PROVE  TotalIsExact'
  <2>1. /\ tpc[r][t] \in Models /\ "CQRS" \in Models
        /\ UNCHANGED stores \/ CommitRows(tpc[r][t], Rows(r, Buffer(todo[r][t])))
        /\ counts' = counts /\ total' = total /\ tpc'[r][t] = "failed"
        /\ \A q \in Request : q # r => tpc'[q] = tpc[q]
    BY <1>6 DEF ThreadFails, Models, TypeOK
  <2>2. ASSUME NEW q \in Request, q # r PROVE Counted(q)'
    <3>1. \A s : <<q, s>> \in written'["CQRS"] <=> <<q, s>> \in written["CQRS"]
      BY <2>1, <2>2, CommitAdds
    <3> QED  BY <1>1, <2>1, <2>2, <3>1, SameCounted
  <2>3. Counted(r)'  BY <2>1 DEF Counted
  <2> QED  BY <2>2, <2>3 DEF TotalIsExact
<1>7. ASSUME NEW r \in Request, Get(r) PROVE Same /\ tpc' = tpc
  BY <1>7 DEF Get
<1>8. ASSUME NEW c \in Clearer, StartClear(c) \/ Truncate(c) \/ ClearFails(c)
      PROVE  Same /\ tpc' = tpc
  BY <1>8 DEF StartClear, Truncate, ClearFails
<1>9. ASSUME NEW r \in Request, NEW t \in AllThreads, ThreadInterrupted(r, t)
      PROVE  Same /\ \A q \in Request : Kept(q)
  BY <1>9 DEF ThreadInterrupted, TypeOK, Models
<1>10. CASE Crash
  <2>1. Same /\ \A q \in Request : Kept(q)  BY <1>10 DEF Crash, TypeOK, Models
  <2> QED  BY <1>2, <2>1
<1>11. CASE UNCHANGED vars
  <2>1. Same /\ tpc' = tpc  BY <1>11 DEF vars
  <2> QED  BY <1>3, <2>1
<1> HIDE DEF Same, Kept
<1> QED
  BY <1>2, <1>3, <1>4, <1>5, <1>6, <1>7, <1>8, <1>9, <1>10, <1>11, GenerateCounted
  DEF Next, ThreadStep, FaultStep

-----------------------------------------------------------------------------
(***************************************************************************)
(* The inductive invariant, and what follows from it.                      *)
(***************************************************************************)
\* The empty stores satisfy every part.
LEMMA InitInv == Init => GInv
<1> SUFFICES ASSUME Init PROVE GInv
  OBVIOUS
<1>1. TypeOK  BY InitType
<1>2. /\ \A m \in Models : written[m] = {}
      /\ \A r \in Request : /\ rpc[r] = "idle" /\ waitsFor[r] = 0 /\ total[r] = 0
                            /\ counts[r] = [k \in {} |-> 0]
      /\ \A r \in Request, t \in AllThreads : tpc[r][t] = "done" /\ todo[r][t] = {}
      /\ "NORMAL" \in Models /\ "CQRS" \in Models
  BY DEF Init, Models
<1>3. WaitOrder  BY <1>2 DEF WaitOrder, Waited
<1>4. \A r \in Request, t \in AllThreads : OwnedBy(r, t) = {}
  BY <1>1, <1>2, <1>3, IdleOwnsNothing
<1>5. WorkIsOwned  BY <1>2 DEF WorkIsOwned
<1>6. ThreadProgress
  <2>1. Buffer({}) = {}  BY BufferType
  <2> QED  BY <1>2, <1>4, <2>1 DEF ThreadProgress, Progress, Models
<1>7. NormalFirst  BY <1>2 DEF NormalFirst
<1>8. TotalIsExact
  <2>1. \A r \in Request : WrittenOf(r, "CQRS") = {}  BY <1>2 DEF WrittenOf
  <2> QED  BY <1>2, <2>1, FS_EmptySet DEF TotalIsExact, Counted
<1> QED  BY <1>1, <1>3, <1>5, <1>6, <1>7, <1>8 DEF GInv

\* Each part is kept with the help of the ones before it.
THEOREM InductiveInvariant == Spec => []GInv
<1>1. GInv /\ [Next]_vars => GInv'
  BY NextType, WorkStep, ProgressStep, NormalFirstStep, WaitStep, TotalStep DEF GInv
<1> QED  BY <1>1, InitInv, PTL DEF Spec

\* The state is of its type, always.
THEOREM TypeCorrect == Spec => []TypeOK
<1>1. GInv => TypeOK  BY DEF GInv
<1> QED  BY <1>1, InductiveInvariant, PTL

\* No event is inserted into a model twice (flush, and the split of the IMSI
\* indices in generateUnderLock), for any sizes and any faults.
THEOREM WrittenOnce == Spec => []EventsWrittenOnce
<1>1. ASSUME GInv PROVE EventsWrittenOnce
  <2> SUFFICES ASSUME NEW r \in Request, NEW t \in AllThreads, tpc[r][t] \in Models
               PROVE  Rows(r, Buffer(todo[r][t])) \cap written[tpc[r][t]] = {}
    BY DEF EventsWrittenOnce
  <2>1. Progress(r, t)  BY <1>1 DEF GInv, ThreadProgress
  <2>2. Buffer(todo[r][t]) \subseteq todo[r][t]  BY BufferType
  <2>3. \A s \in Buffer(todo[r][t]) : <<r, s>> \notin written[tpc[r][t]]
    BY <2>1, <2>2 DEF Progress, Models
  <2> QED  BY <2>3, RowsPoint
<1> QED  BY <1>1, InductiveInvariant, PTL

\* A request that returned wrote everything to both models and says how much
\* (the loop over the futures, and totalEvents).
THEOREM ReturnedComplete == Spec => []ReturnedIsComplete
<1>1. ASSUME GInv PROVE ReturnedIsComplete
  <2> SUFFICES ASSUME NEW r \in Request, rpc[r] = "returned"
               PROVE  /\ \A m \in Models : WrittenOf(r, m) = EventsOf(r)
                      /\ total[r] = Cardinality(EventsOf(r))
    BY DEF ReturnedIsComplete
  <2>1. \A t \in AllThreads : tpc[r][t] = "done"
    BY <1>1 DEF GInv, WaitOrder, Waited
  <2>2. \A t \in AllThreads : Progress(r, t)  BY <1>1 DEF GInv, ThreadProgress
  <2>3. \A t \in AllThreads : \A s \in OwnedBy(r, t) : <<r, s>> \in written["CQRS"]
    BY <2>1, <2>2 DEF Progress
  <2>4. \A s \in EventsOf(r) : <<r, s>> \in written["CQRS"]
    BY <1>1, <2>3, OwnedAreEvents DEF GInv
  <2>5. \A s \in EventsOf(r) : <<r, s>> \in written["NORMAL"]
    BY <1>1, <2>4 DEF GInv, NormalFirst
  <2>6. \A m \in Models : WrittenOf(r, m) = EventsOf(r)
    BY <2>4, <2>5 DEF WrittenOf, Models
  <2>7. total[r] = Cardinality(WrittenOf(r, "CQRS"))
    BY <1>1, <2>1 DEF GInv, TotalIsExact, Counted
  <2> QED  BY <2>6, <2>7 DEF Models
<1> QED  BY <1>1, InductiveInvariant, PTL

\* The models differ by chunks in hand or failed, and the CQRS model is never
\* ahead (normal.copyIn before cqrs.copyIn).
THEOREM DifferencesAreChunks == Spec => []DifferencesExplained
<1>1. ASSUME GInv PROVE DifferencesExplained
  <2>1. ASSUME NEW e \in written["NORMAL"] \ written["CQRS"]
        PROVE  \E t \in AllThreads : /\ tpc[e[1]][t] \in {"CQRS", "failed"}
                                     /\ e[2] \in Buffer(todo[e[1]][t])
    <3>1. "NORMAL" \in Models /\ "CQRS" \in Models  BY DEF Models
    <3>2. e[1] \in Request /\ e = <<e[1], e[2]>>
      BY <1>1, <3>1 DEF GInv, TypeOK
    <3>3. PICK t \in AllThreads : e[2] \in OwnedBy(e[1], t)
      BY <1>1, <3>1 DEF GInv, WorkIsOwned
    <3>4. Progress(e[1], t)  BY <1>1, <3>2 DEF GInv, ThreadProgress
    <3>5. e[2] \in todo[e[1]][t]  BY <3>2, <3>3, <3>4 DEF Progress
    <3>6. e[2] \in Buffer(todo[e[1]][t])  BY <3>2, <3>4, <3>5 DEF Progress
    <3>7. tpc[e[1]][t] \in Models \cup {"done", "failed"}
      BY <1>1, <3>2 DEF GInv, TypeOK
    <3>8. tpc[e[1]][t] \in {"CQRS", "failed"}
      BY <3>2, <3>4, <3>5, <3>7 DEF Progress, Models
    <3> QED  BY <3>6, <3>8
  <2>2. written["CQRS"] \subseteq written["NORMAL"]  BY <1>1 DEF GInv, NormalFirst
  <2> QED  BY <2>1, <2>2 DEF DifferencesExplained
<1> QED  BY <1>1, InductiveInvariant, PTL
=============================================================================
