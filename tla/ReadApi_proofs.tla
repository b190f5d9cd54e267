----------------------------- MODULE ReadApi_proofs -----------------------------
(***************************************************************************)
(* Proofs about ReadApi, for any IMSIs, times, pages, sizes and width of   *)
(* an int: what a walk sees, what an answer announces, what stats reports. *)
(*                                                                         *)
(* The rank of a row is the number of rows before it.  It is the row's     *)
(* position in every ORDER BY, tied updated_at included.  Where rows come  *)
(* newest first or are only added, a write lowers it only by taking a row  *)
(* before it out of the filter.                                            *)
(***************************************************************************)
EXTENDS ReadApi, FiniteSetTheorems, TLAPS

\* There are n positions below n.
LEMMA PositionsBelow ==
    ASSUME NEW n \in Nat
    PROVE  IsFiniteSet(0 .. (n - 1)) /\ Cardinality(0 .. (n - 1)) = n
<1>1. 0 \in Int /\ n - 1 \in Int
    OBVIOUS
<1>2. /\ IsFiniteSet(0 .. (n - 1))
      /\ Cardinality(0 .. (n - 1)) = IF 0 > n - 1 THEN 0 ELSE (n - 1) - 0 + 1
    BY <1>1, FS_Interval
<1>3. (IF 0 > n - 1 THEN 0 ELSE (n - 1) - 0 + 1) = n
    OBVIOUS
<1> QED BY <1>2, <1>3

\* What a query reads: rows with keys of their own.
IsTable(T) ==
    /\ IsFiniteSet(T)
    /\ \A q \in T : q.key \in Nat /\ q.at \in Nat
    /\ \A q, r \in T : q.key = r.key => q = r

Before(T, r, ascending) == {q \in T : Precedes(q, r, ascending)}

\* The order is total on a table and strict.
LEMMA OrderIsTotal ==
    ASSUME NEW T, IsTable(T), NEW q \in T, NEW r \in T, NEW ascending \in BOOLEAN
    PROVE  /\ ~ Precedes(r, r, ascending)
           /\ q # r => Precedes(q, r, ascending) \/ Precedes(r, q, ascending)
<1>1. q.key \in Nat /\ q.at \in Nat /\ r.key \in Nat /\ r.at \in Nat
    BY DEF IsTable
<1>2. q # r => q.key # r.key
    BY DEF IsTable
<1> QED BY <1>1, <1>2 DEF Precedes, SortsBefore

\* A rank is a number below that of the rows.
LEMMA RankIsBounded ==
    ASSUME NEW T, IsTable(T), NEW r \in T, NEW ascending \in BOOLEAN
    PROVE  /\ IsFiniteSet(Before(T, r, ascending))
           /\ Cardinality(T) \in Nat /\ Rank(T, r, ascending) \in Nat
           /\ Rank(T, r, ascending) < Cardinality(T)
<1> DEFINE B == Before(T, r, ascending)
<1>1. B \subseteq T \ {r}
    BY OrderIsTotal DEF Before
<1>2. IsFiniteSet(T) /\ Cardinality(T) \in Nat
    BY FS_CardinalityType DEF IsTable
<1>3. IsFiniteSet(T \ {r}) /\ Cardinality(T \ {r}) = Cardinality(T) - 1
    BY <1>2, FS_RemoveElement
<1>4. IsFiniteSet(B) /\ Cardinality(B) <= Cardinality(T \ {r})
    BY <1>1, <1>3, FS_Subset
<1>5. Cardinality(B) \in Nat
    BY <1>4, FS_CardinalityType
<1> QED BY <1>2, <1>3, <1>4, <1>5 DEF Rank, Before

\* The position ORDER BY gives to a row is its rank, and every position is
\* some row's.
LEMMA RankIsPosition ==
    ASSUME NEW T, IsTable(T), NEW ascending \in BOOLEAN, NEW pos \in Orders(T, ascending)
    PROVE  /\ \A r \in T : pos[r] = Rank(T, r, ascending)
           /\ \A j \in 0 .. (Cardinality(T) - 1) : \E r \in T : pos[r] = j
           /\ \A q, r \in T : pos[q] = pos[r] => q = r
<1> DEFINE n == Cardinality(T)
<1>1. n \in Nat /\ IsFiniteSet(T)
    BY FS_CardinalityType DEF IsTable
<1>2. /\ pos \in Injection(T, 0 .. (n - 1))
      /\ \A a, b \in T : Precedes(a, b, ascending) => pos[a] < pos[b]
    BY DEF Orders
<1>3. IsFiniteSet(0 .. (n - 1)) /\ Cardinality(0 .. (n - 1)) = n
    BY <1>1, PositionsBelow
<1>4. pos \in Surjection(T, 0 .. (n - 1))
    BY <1>2, <1>3, FS_Injection
<1>5. /\ pos \in [T -> 0 .. (n - 1)]
      /\ \A q, r \in T : pos[q] = pos[r] => q = r
      /\ \A j \in 0 .. (n - 1) : \E r \in T : pos[r] = j
    BY <1>2, <1>4 DEF Injection, Surjection, IsInjective
<1> HIDE DEF n
<1>6. ASSUME NEW r \in T PROVE pos[r] = Rank(T, r, ascending)
    <2> DEFINE B == Before(T, r, ascending)
               S == 0 .. (pos[r] - 1)
               f == [q \in B |-> pos[q]]
    <2>1. pos[r] \in Nat /\ pos[r] < n
        BY <1>1, <1>5
    <2>2. \A q \in B : q \in T /\ pos[q] \in S
        <3> SUFFICES ASSUME NEW q \in B PROVE q \in T /\ pos[q] \in S
            OBVIOUS
        <3>1. q \in T /\ pos[q] < pos[r]
            BY <1>2 DEF Before
        <3>2. pos[q] \in Nat
            BY <1>1, <1>5, <3>1
        <3> QED BY <2>1, <3>1, <3>2
    <2>3. f \in Injection(B, S)
        BY <1>5, <2>2 DEF Injection, IsInjective
    <2>4. ASSUME NEW j \in S PROVE \E q \in B : f[q] = j
        <3>1. j \in 0 .. (n - 1) /\ j < pos[r]
            BY <1>1, <2>1
        <3>2. PICK q \in T : pos[q] = j
            BY <1>5, <3>1
        <3>3. q # r /\ ~ (pos[r] < pos[q])
            BY <2>1, <3>1, <3>2
        <3>4. Precedes(q, r, ascending)
            BY <1>2, <3>3, OrderIsTotal
        <3>5. q \in B
            BY <3>4 DEF Before
        <3> QED BY <3>2, <3>5
    <2>5. f \in Surjection(B, S)
        BY <2>2, <2>4 DEF Surjection
    <2>6. IsFiniteSet(S) /\ Cardinality(S) = pos[r]
        BY <2>1, PositionsBelow
    <2>7. Cardinality(B) = Cardinality(S)
        BY <2>3, <2>5, <2>6, FS_Injection
    <2> QED BY <2>6, <2>7 DEF Rank, Before
<1> QED BY <1>5, <1>6 DEF n

\* A row is at least as far back as one before it was of which all
\* predecessors are there.
LEMMA RowsInFront ==
    ASSUME NEW T, IsTable(T), NEW U, IsTable(U), NEW r \in U, NEW g \in T, r \in T,
           NEW ascending \in BOOLEAN, Precedes(g, r, ascending),
           \A q \in T : Precedes(q, g, ascending) => q \in U
    PROVE  Rank(T, g, ascending) <= Rank(U, r, ascending)
<1>1. ASSUME NEW q \in T, Precedes(q, g, ascending) PROVE Precedes(q, r, ascending)
    <2>1. /\ q.key \in Nat /\ q.at \in Nat /\ g.key \in Nat /\ g.at \in Nat
          /\ r.key \in Nat /\ r.at \in Nat
        BY DEF IsTable
    <2> QED BY <1>1, <2>1 DEF Precedes, SortsBefore
<1>2. Before(T, g, ascending) \subseteq Before(U, r, ascending)
    BY <1>1 DEF Before
<1>3. IsFiniteSet(Before(U, r, ascending))
    BY RankIsBounded
<1>4. Cardinality(Before(T, g, ascending)) <= Cardinality(Before(U, r, ascending))
    BY <1>2, <1>3, FS_Subset
<1> QED BY <1>4 DEF Rank, Before

\* A row keeps or raises its rank when every row before it is followed by one
\* of the same key that is still before it.
LEMMA RankGrows ==
    ASSUME NEW T, IsTable(T), NEW U, IsTable(U), NEW r \in T, r \in U, NEW ascending \in BOOLEAN,
           \A q \in T : Precedes(q, r, ascending) =>
               \E p \in U : p.key = q.key /\ Precedes(p, r, ascending)
    PROVE  Rank(T, r, ascending) <= Rank(U, r, ascending)
<1> DEFINE B == Before(T, r, ascending)
           C == Before(U, r, ascending)
           f == [q \in B |-> CHOOSE p \in C : p.key = q.key]
<1>1. \A q \in B : q \in T /\ \E p \in C : p.key = q.key
    BY DEF Before
<1>2. \A q \in B : f[q] \in C /\ f[q].key = q.key
    BY <1>1
<1>3. \A q, p \in B : q.key = p.key => q = p
    BY <1>1 DEF IsTable
<1>4. f \in Injection(B, C)
    BY <1>2, <1>3 DEF Injection, IsInjective
<1>5. IsFiniteSet(C)
    BY RankIsBounded
<1> QED BY <1>4, <1>5, FS_Injection DEF Rank, Before

-----------------------------------------------------------------------------
(***************************************************************************)
(* Pages.                                                                  *)
(***************************************************************************)
\* Products grow with their factors.
LEMMA ProductsGrow ==
    ASSUME NEW a \in Nat, NEW b \in Nat, NEW c \in Nat, a <= b
    PROVE  a * c \in Nat /\ b * c \in Nat /\ a * c <= b * c /\ (a + 1) * c = a * c + c
OBVIOUS

\* The announced pages are as few as hold the rows, and at least one.
LEMMA PagesForHolds ==
    ASSUME NEW n \in Nat, NEW size \in Nat \ {0}
    PROVE  /\ PagesFor(n, size) \in Nat \ {0}
           /\ n <= PagesFor(n, size) * size
           /\ n > 0 => (PagesFor(n, size) - 1) * size < n
           /\ PagesFor(n, size) <= n + 1
<1>1. CASE n = 0
    BY <1>1 DEF PagesFor
<1>2. CASE n > 0
    <2> DEFINE p == (n + size - 1) \div size
    <2>1. p \in Int /\ p * size <= n + size - 1 /\ n + size - 1 < p * size + size
        OBVIOUS
    <2>2. PagesFor(n, size) = p
        BY <1>2 DEF PagesFor
    <2> HIDE DEF p
    <2>3. p * size >= n /\ n >= 1
        BY <1>2, <2>1
    <2>4. p >= 1
        BY <2>1, <2>3
    <2>5. (p - 1) * size = p * size - size
        BY <2>1
    <2>6. (p - 1) * size < n
        BY <2>1, <2>5
    <2>7. p <= n
        <3>1. p - 1 <= (p - 1) * size
            BY <2>1, <2>4
        <3> QED BY <2>1, <2>6, <3>1
    <2> QED BY <1>2, <2>1, <2>2, <2>3, <2>4, <2>6, <2>7
<1> QED BY <1>1, <1>2

\* Every page that is announced begins at one of the counted rows.
LEMMA PagesBeginAtRows ==
    ASSUME NEW n \in Nat, n > 0, NEW size \in Nat \ {0}, NEW page \in Nat,
           page < PagesFor(n, size)
    PROVE  /\ page * size \in Nat /\ page * size < n
           /\ page + 1 < PagesFor(n, size) => page * size + size < n
<1>1. /\ PagesFor(n, size) \in Nat \ {0}
      /\ (PagesFor(n, size) - 1) * size < n
    BY PagesForHolds
<1> DEFINE last == PagesFor(n, size) - 1
<1>2. last \in Nat /\ page <= last /\ last * size < n
    BY <1>1
<1>3. page + 1 < PagesFor(n, size) => page + 1 <= last
    BY <1>1
<1> HIDE DEF last
<1>4. page * size \in Nat /\ page * size <= last * size /\ last * size \in Nat
    BY <1>2, ProductsGrow
<1>5. page + 1 <= last => page * size + size <= last * size
    BY <1>2, ProductsGrow
<1> QED BY <1>2, <1>3, <1>4, <1>5

\* An int that is small enough does not wrap.
LEMMA SmallOffsetsAreExact ==
    ASSUME NEW page \in Nat, NEW size \in Nat, page * size \in Nat, page * size <= MaxInt
    PROVE  Offset(page, size) = page * size
<1> DEFINE n == page * size
           m == 2 * MaxInt + 2
<1>1. MaxInt \in Nat
    BY ReadAssumption
<1>2. \A x, y \in Nat : x < y => x % y = x
    OBVIOUS
<1>3. n + MaxInt + 1 \in Nat /\ m \in Nat /\ n + MaxInt + 1 < m
    BY <1>1
<1>4. (n + MaxInt + 1) % m = n + MaxInt + 1
    BY <1>2, <1>3
<1>5. n \in Nat
    OBVIOUS
<1> HIDE DEF n
<1>6. Wrap(n) = n
    BY <1>1, <1>4, <1>5 DEF Wrap, m
<1> QED BY <1>6 DEF Offset, n

\* The rows LIMIT and OFFSET take.
Slice(T, pos, offset, size) == {r \in T : pos[r] \in offset .. (offset + size - 1)}

\* A slice that begins at a row is not empty, and full when the rows suffice.
LEMMA SlicesAreFull ==
    ASSUME NEW T, IsTable(T), NEW ascending \in BOOLEAN, NEW pos \in Orders(T, ascending),
           NEW offset \in Nat, NEW size \in Nat \ {0}, offset < Cardinality(T)
    PROVE  /\ Slice(T, pos, offset, size) # {}
           /\ offset + size <= Cardinality(T) => Cardinality(Slice(T, pos, offset, size)) = size
<1> DEFINE n == Cardinality(T)
           page == Slice(T, pos, offset, size)
<1>1. /\ \A j \in 0 .. (n - 1) : \E r \in T : pos[r] = j
      /\ \A q, r \in T : pos[q] = pos[r] => q = r
    BY RankIsPosition
<1>2. n \in Nat
    BY FS_CardinalityType DEF IsTable
<1> HIDE DEF n
<1>3. page # {}
    <2>1. offset \in 0 .. (n - 1) /\ offset \in offset .. (offset + size - 1)
        BY <1>2 DEF n
    <2>2. PICK r \in T : pos[r] = offset
        BY <1>1, <2>1
    <2> QED BY <2>1, <2>2 DEF Slice
<1>4. ASSUME offset + size <= n PROVE Cardinality(page) = size
    <2> DEFINE S == offset .. (offset + size - 1)
               f == [r \in page |-> pos[r]]
    <2>1. \A r \in page : r \in T /\ pos[r] \in S
        BY DEF Slice
    <2>2. f \in Injection(page, S)
        BY <1>1, <2>1 DEF Injection, IsInjective
    <2>3. ASSUME NEW j \in S PROVE \E r \in page : f[r] = j
        <3>1. j \in 0 .. (n - 1)
            BY <1>2, <1>4
        <3>2. PICK r \in T : pos[r] = j
            BY <1>1, <3>1
        <3>3. r \in page
            BY <3>2 DEF Slice
        <3> QED BY <3>2, <3>3
    <2>4. f \in Surjection(page, S)
        BY <2>1, <2>3 DEF Surjection
    <2>5. IsFiniteSet(S) /\ Cardinality(S) = size
        <3>1. offset \in Int /\ offset + size - 1 \in Int
            OBVIOUS
        <3>2. /\ IsFiniteSet(S)
              /\ Cardinality(S) =
                     IF offset > offset + size - 1 THEN 0 ELSE (offset + size - 1) - offset + 1
            BY <3>1, FS_Interval
        <3>3. (IF offset > offset + size - 1 THEN 0 ELSE (offset + size - 1) - offset + 1) = size
            OBVIOUS
        <3> QED BY <3>2, <3>3
    <2> QED BY <2>2, <2>4, <2>5, FS_Injection
<1> QED BY <1>3, <1>4 DEF n

-----------------------------------------------------------------------------
(***************************************************************************)
(* The invariant.                                                          *)
(***************************************************************************)
\* Events have ids of their own, and an IMSI has a latest row only if it has
\* events.
Tables ==
    /\ history \subseteq [id : Nat, imsi : Imsis, at : Times]
    /\ \A r \in history : r.id \in 1 .. lastId
    /\ \A r, q \in history : r.id = q.id => r = q
    /\ \A event \in batch : /\ event.imsi \in Imsis /\ event.at \in Times /\ event.text \in Texts
                            /\ \E r \in history : r.imsi = event.imsi
    /\ DOMAIN latest \subseteq Imsis
    /\ \A i \in DOMAIN latest : latest[i].at \in Times /\ \E r \in history : r.imsi = i
    /\ lastId \in 0 .. MaxRows

IsWalk(w) ==
    /\ w = [start |-> w.start, seen |-> w.seen, twice |-> w.twice, moved |-> w.moved,
            shifted |-> w.shifted, quiet |-> w.quiet, raced |-> w.raced, left |-> w.left]
    /\ w.twice \in BOOLEAN /\ w.shifted \in BOOLEAN /\ w.quiet \in BOOLEAN
    /\ w.raced \in BOOLEAN /\ w.left \in BOOLEAN
    /\ w.quiet => ~ w.raced

\* What a request, or a client without one, can look for.
Queries ==
    [table : {"latest", "history"}, filter : [imsis : SUBSET Imsis, texts : SUBSET Texts]]

\* A walk asks for pages that do not wrap.
Client ==
    /\ req \in [target : Queries, ascending : BOOLEAN, page : Int, size : Int, walking : BOOLEAN]
    /\ total \in 0 .. MaxRows
    /\ IsWalk(walk)
    /\ req.walking => /\ pc \in {"count", "read", "answered"}
                      /\ req.page \in Nat /\ req.size \in Nat \ {0}
                      /\ req.page * req.size \in Nat /\ req.page * req.size <= MaxInt

\* The table of the request.
Table == Rows(req.target)

\* Where no write lowers a rank but by taking a row out of the filter.
Steady == req.target.table = "history" \/ ~ req.ascending

\* A row the walk has still to deliver is still to come.
StillToCome ==
    req.walking /\ Steady /\ ~ walk.shifted =>
        \A r \in walk.start :
            \/ r.key \in walk.seen \cup walk.moved
            \/ r \in Table /\ Rank(Table, r, req.ascending) >= Reached

\* While nothing is written, the delivered rows are those of lower ranks.
DeliveredInOrder ==
    req.walking /\ walk.quiet =>
        /\ Table = walk.start /\ ~ walk.twice
        /\ \A k \in walk.seen : \E r \in walk.start : r.key = k
        /\ \A r \in walk.start : r.key \in walk.seen <=> Rank(Table, r, req.ascending) < Reached

\* What a count says of the table that is read after it.
Counted ==
    pc = "read" => /\ req.walking /\ ~ walk.raced => total = Cardinality(Table)
                   /\ ~ walk.left => total <= Cardinality(Table)

Answered ==
    pc = "answered" => /\ reply.total \in 0 .. MaxRows
                       /\ req.size > 0 => reply.totalPages = PagesFor(reply.total, req.size)
                       /\ req.walking /\ ~ walk.raced => reply.total = Cardinality(Table)
                       /\ AnnouncedPagesHoldRows

Stats ==
    /\ pc = "stats" /\ ~ walk.left => total <= Cardinality(history)
    /\ StatsInOrder

IInv ==
    /\ Tables /\ Client /\ StillToCome /\ DeliveredInOrder /\ Counted /\ Answered /\ Stats

\* There are no more events than ids, nor IMSIs with a latest row than events.
LEMMA TablesAreCounted ==
    ASSUME Tables
    PROVE  /\ IsFiniteSet(history) /\ Cardinality(history) \in Nat
           /\ Cardinality(history) <= lastId
           /\ IsFiniteSet(DOMAIN latest) /\ Cardinality(DOMAIN latest) \in Nat
           /\ Cardinality(DOMAIN latest) <= Cardinality(history)
<1> DEFINE f == [r \in history |-> r.id]
           g == [i \in DOMAIN latest |-> CHOOSE r \in history : r.imsi = i]
<1>1. f \in Injection(history, 1 .. lastId)
    BY DEF Tables, Injection, IsInjective
<1>2. lastId \in Nat
    BY ReadAssumption DEF Tables
<1>3. IsFiniteSet(1 .. lastId) /\ Cardinality(1 .. lastId) = lastId
    BY <1>2, FS_Interval
<1>4. IsFiniteSet(history) /\ Cardinality(history) <= lastId
    BY <1>1, <1>3, FS_Injection
<1>5. \A i \in DOMAIN latest : g[i] \in history /\ g[i].imsi = i
    BY DEF Tables
<1>6. g \in Injection(DOMAIN latest, history)
    BY <1>5 DEF Injection, IsInjective
<1>7. IsFiniteSet(DOMAIN latest) /\ Cardinality(DOMAIN latest) <= Cardinality(history)
    BY <1>4, <1>6, FS_Injection
<1> QED BY <1>4, <1>7, FS_CardinalityType

\* The IMSIs whose latest rows a filter finds.
Matching(target) ==
    {i \in DOMAIN latest : i \in target.filter.imsis /\ latest[i].text \in target.filter.texts}

\* What a query reads is a table.
LEMMA RowsAreATable ==
    ASSUME Tables, NEW target \in Queries
    PROVE  /\ IsTable(Rows(target))
           /\ Cardinality(Rows(target)) \in 0 .. MaxRows
<1> DEFINE T == Rows(target)
           f == [q \in T |-> q.key]
<1>1. /\ IsFiniteSet(history) /\ Cardinality(history) \in Nat /\ Cardinality(history) <= lastId
      /\ IsFiniteSet(DOMAIN latest) /\ Cardinality(DOMAIN latest) \in Nat
      /\ Cardinality(DOMAIN latest) <= Cardinality(history)
    BY TablesAreCounted
<1>2. lastId \in Nat /\ lastId <= MaxRows /\ MaxRows \in Nat
    BY ReadAssumption DEF Tables
<1>3. CASE target.table = "latest"
    <2>1. T = {[key |-> i, at |-> latest[i].at] : i \in Matching(target)}
        BY <1>3 DEF Rows, Matching
    <2>2. \A q \in T : q.key \in DOMAIN latest /\ q = [key |-> q.key, at |-> latest[q.key].at]
        BY <2>1 DEF Matching
    <2>3. \A q \in T : q.key \in Nat /\ q.at \in Nat
        BY <2>2, ReadAssumption DEF Tables
    <2>4. \A q, r \in T : q.key = r.key => q = r
        BY <2>2
    <2> HIDE DEF T
    <2>5. f \in Injection(T, DOMAIN latest)
        BY <2>2, <2>4 DEF Injection, IsInjective
    <2>6. IsFiniteSet(T) /\ Cardinality(T) <= Cardinality(DOMAIN latest)
        BY <1>1, <2>5, FS_Injection
    <2>7. Cardinality(T) \in Nat
        BY <2>6, FS_CardinalityType
    <2> QED BY <1>1, <1>2, <2>3, <2>4, <2>6, <2>7 DEF IsTable, T
<1>4. CASE target.table = "history"
    <2>1. T = {[key |-> r.id, at |-> r.at] : r \in {r \in history : r.imsi \in target.filter.imsis}}
        BY <1>4 DEF Rows
    <2>2. \A q \in T : \E r \in history : q = [key |-> r.id, at |-> r.at]
        BY <2>1
    <2>3. \A q \in T : q.key \in 1 .. lastId /\ q.key \in Nat /\ q.at \in Nat
        <3> SUFFICES ASSUME NEW q \in T
                     PROVE  q.key \in 1 .. lastId /\ q.key \in Nat /\ q.at \in Nat
            OBVIOUS
        <3>1. PICK r \in history : q = [key |-> r.id, at |-> r.at]
            BY <2>2
        <3>2. r.id \in 1 .. lastId /\ r.id \in Nat /\ r.at \in Times
            BY DEF Tables
        <3> QED BY <3>1, <3>2, ReadAssumption
    <2>4. \A q, r \in T : q.key = r.key => q = r
        BY <2>2 DEF Tables
    <2> HIDE DEF T
    <2>5. f \in Injection(T, 1 .. lastId)
        BY <2>3, <2>4 DEF Injection, IsInjective
    <2>6. IsFiniteSet(1 .. lastId) /\ Cardinality(1 .. lastId) = lastId
        BY <1>2, FS_Interval
    <2>7. IsFiniteSet(T) /\ Cardinality(T) <= lastId
        BY <2>5, <2>6, FS_Injection
    <2>8. Cardinality(T) \in Nat
        BY <2>7, FS_CardinalityType
    <2> QED BY <1>2, <2>3, <2>4, <2>7, <2>8 DEF IsTable, T
<1> QED BY <1>3, <1>4 DEF Queries

\* The same of all queries, to be said of the next state too.
AllAreTables == \A target \in Queries : IsTable(Rows(target)) /\ Cardinality(Rows(target)) \in 0 .. MaxRows

\* Before and after a step.
LEMMA RowsAreATableNext == Tables' => AllAreTables'
<1>1. Tables => AllAreTables
    BY RowsAreATable DEF AllAreTables
<1> QED BY <1>1, PTL

\* The history is finite before and after a step.
LEMMA HistoryIsFiniteNext == Tables' => IsFiniteSet(history)'
<1>1. Tables => IsFiniteSet(history)
    BY TablesAreCounted
<1> QED BY <1>1, PTL

-----------------------------------------------------------------------------
(***************************************************************************)
(* Writes.                                                                 *)
(***************************************************************************)
\* No target is both kinds of query.
LEMMA TargetKinds ==
    ASSUME NEW target \in Queries
    PROVE  target.table \in {"latest", "history"}
BY DEF Queries

\* A new event is there for every history that has its IMSI.
LEMMA EventsAreAdded ==
    ASSUME NEW target \in Queries, target.table = "history", history \subseteq history'
    PROVE  Rows(target) \subseteq Rows(target)'
<1>1. /\ Rows(target) =
            {[key |-> r.id, at |-> r.at] : r \in {r \in history : r.imsi \in target.filter.imsis}}
      /\ Rows(target)' =
            {[key |-> r.id, at |-> r.at] : r \in {r \in history' : r.imsi \in target.filter.imsis}}
    BY DEF Rows
<1> QED BY <1>1

\* Rows of a table that grew kept or raised their ranks.
LEMMA AddingRaisesRanks ==
    ASSUME NEW T, NEW U, IsTable(T), IsTable(U), T \subseteq U, NEW ascending \in BOOLEAN
    PROVE  /\ Cardinality(T) <= Cardinality(U)
           /\ \A r \in T : Rank(T, r, ascending) <= Rank(U, r, ascending)
<1>1. Cardinality(T) <= Cardinality(U)
    BY FS_Subset DEF IsTable
<1>2. ASSUME NEW r \in T PROVE Rank(T, r, ascending) <= Rank(U, r, ascending)
    <2>1. \A q \in T : Precedes(q, r, ascending) =>
              \E p \in U : p.key = q.key /\ Precedes(p, r, ascending)
        OBVIOUS
    <2> QED BY <2>1, RankGrows
<1> QED BY <1>1, <1>2

\* Rows of T whose keys U has not.
Gone(T, U) == {r \in T : \A q \in U : q.key # r.key}

\* Rows that stay keep their distance: what is before one of them now is what
\* was, or at least what was before a row that is gone.
KeepTheirDistance(T, U, ascending) ==
    \A r \in T \cap U :
        \/ Rank(T, r, ascending) <= Rank(U, r, ascending)
        \/ \E g \in Gone(T, U) : Rank(T, g, ascending) <= Rank(U, r, ascending)

\* An upsert moves the row of its IMSI towards the newest, adds it to what a
\* filter finds, or takes it out.
LEMMA UpsertRaisesRanks ==
    ASSUME Tables, Tables', NEW target \in Queries, target.table = "latest",
           NEW i \in Imsis, NEW at \in Times, NEW text \in Texts, latest' = Upsert(i, at, text)
    PROVE  /\ Gone(Rows(target), Rows(target)') = {} =>
                  Cardinality(Rows(target)) <= Cardinality(Rows(target)')
           /\ KeepTheirDistance(Rows(target), Rows(target)', FALSE)
<1> DEFINE T == Rows(target)
           U == Rows(target)'
           f == [q \in T |-> [key |-> q.key, at |-> latest'[q.key].at]]
<1>1. /\ T = {[key |-> j, at |-> latest[j].at] : j \in Matching(target)}
      /\ U = {[key |-> j, at |-> latest'[j].at] : j \in Matching(target)'}
    BY DEF Rows, Matching
<1>2. IsTable(T) /\ IsTable(U)
    BY RowsAreATable, RowsAreATableNext DEF AllAreTables
<1>3. /\ \A q \in T : q.key \in Matching(target) /\ q = [key |-> q.key, at |-> latest[q.key].at]
      /\ \A p \in U : p.key \in Matching(target)' /\ p = [key |-> p.key, at |-> latest'[p.key].at]
    BY <1>1
<1>4. /\ DOMAIN latest' = DOMAIN latest \cup {i}
      /\ \A j \in DOMAIN latest : j # i => latest'[j] = latest[j]
    BY DEF Upsert
<1>5. i \in DOMAIN latest =>
          latest'[i].at \in Nat /\ latest[i].at \in Nat /\ latest'[i].at >= latest[i].at
    <2> SUFFICES ASSUME i \in DOMAIN latest
                 PROVE  latest'[i].at \in Nat /\ latest[i].at \in Nat /\ latest'[i].at >= latest[i].at
        OBVIOUS
    <2>1. latest[i].at \in Nat /\ at \in Nat
        BY ReadAssumption DEF Tables
    <2>2. latest'[i] = IF at >= latest[i].at THEN [at |-> at, text |-> text] ELSE latest[i]
        BY DEF Upsert
    <2> QED BY <2>1, <2>2
<1>6. \A q \in T : q.key # i => q \in U
    <2> SUFFICES ASSUME NEW q \in T, q.key # i PROVE q \in U
        OBVIOUS
    <2>1. q.key \in Matching(target) /\ q = [key |-> q.key, at |-> latest[q.key].at]
        BY <1>3
    <2>2. latest'[q.key] = latest[q.key] /\ q.key \in DOMAIN latest'
        BY <1>4, <2>1 DEF Matching
    <2>3. q.key \in Matching(target)'
        BY <2>1, <2>2 DEF Matching
    <2> QED BY <1>1, <2>1, <2>2, <2>3
<1>7. \A q \in T \ Gone(T, U) : f[q] \in U /\ f[q].key = q.key /\ (q.key # i => f[q] = q)
    <2> SUFFICES ASSUME NEW q \in T, q \notin Gone(T, U)
                 PROVE  f[q] \in U /\ f[q].key = q.key /\ (q.key # i => f[q] = q)
        OBVIOUS
    <2>1. PICK p \in U : p.key = q.key
        BY DEF Gone
    <2>2. f[q] = p
        BY <1>3, <2>1
    <2>3. q.key # i => q \in U
        BY <1>6
    <2> QED BY <1>2, <2>1, <2>2, <2>3 DEF IsTable
<1>8. \A q \in T : f[q].at = latest'[q.key].at
    OBVIOUS
<1>9. f = [q \in T |-> f[q]]
    OBVIOUS
<1> HIDE DEF f, T, U
<1>10. ASSUME Gone(T, U) = {} PROVE Cardinality(T) <= Cardinality(U)
    <2>1. f \in Injection(T, U)
        BY <1>2, <1>7, <1>9, <1>10 DEF Injection, IsInjective, IsTable
    <2> QED BY <1>2, <2>1, FS_Injection DEF IsTable
<1>11. ASSUME NEW r \in T, r \in U, NEW g \in Gone(T, U), Precedes(g, r, FALSE)
       PROVE  Rank(T, g, FALSE) <= Rank(U, r, FALSE)
    <2>1. g \in T /\ g.key = i
        BY <1>6 DEF Gone
    <2>2. ASSUME NEW q \in T, Precedes(q, g, FALSE) PROVE q \in U
        <3>1. q # g
            BY <1>2, <2>1, <2>2, OrderIsTotal
        <3>2. q.key # i
            BY <1>2, <2>1, <3>1 DEF IsTable
        <3> QED BY <1>6, <3>2
    <2> QED BY <1>2, <1>11, <2>1, <2>2, RowsInFront
<1>12. ASSUME NEW r \in T, r \in U, \A g \in Gone(T, U) : ~ Precedes(g, r, FALSE)
       PROVE  Rank(T, r, FALSE) <= Rank(U, r, FALSE)
    <2>1. ASSUME NEW q \in T, Precedes(q, r, FALSE)
          PROVE  \E p \in U : p.key = q.key /\ Precedes(p, r, FALSE)
        <3>1. f[q] \in U /\ f[q].key = q.key /\ (q.key # i => f[q] = q)
            BY <1>7, <1>12, <2>1
        <3>2. CASE q.key # i
            BY <2>1, <3>1, <3>2
        <3>3. CASE q.key = i
            <4>1. i \in DOMAIN latest /\ q.at = latest[i].at
                BY <1>3, <3>3 DEF Matching
            <4>2. f[q].at = latest'[i].at
                BY <1>8, <3>3
            <4>3. r.at \in Nat /\ r.key \in Nat /\ q.key \in Nat
                BY <1>2 DEF IsTable
            <4>4. r.at < q.at \/ (r.at = q.at /\ r.key < q.key)
                BY <2>1 DEF Precedes, SortsBefore
            <4>5. r.at < f[q].at \/ (r.at = f[q].at /\ r.key < f[q].key)
                BY <1>5, <3>1, <4>1, <4>2, <4>3, <4>4
            <4> QED BY <3>1, <4>5 DEF Precedes, SortsBefore
        <3> QED BY <3>2, <3>3
    <2> QED BY <1>2, <1>12, <2>1, RankGrows
<1>13. KeepTheirDistance(T, U, FALSE)
    BY <1>11, <1>12 DEF KeepTheirDistance
<1> QED BY <1>10, <1>13 DEF T, U

\* What a write notes makes up for what it does to the tables.
LEMMA NotesKeep ==
    ASSUME IInv, Tables', NEW cleared \in BOOLEAN, Notes(cleared),
           UNCHANGED <<pc, req, total, reply>>,
           ~ cleared => /\ Cardinality(history) <= Cardinality(history')
                        /\ Gone(Table, Table') = {} => Cardinality(Table) <= Cardinality(Table'),
           Steady => KeepTheirDistance(Table, Table', req.ascending)
    PROVE  IInv'
<1>1. Tables /\ Client
    BY DEF IInv
<1>2. /\ req.target \in Queries /\ req.ascending \in BOOLEAN /\ IsWalk(walk)
      /\ total \in Nat /\ total <= MaxRows
    BY <1>1, ReadAssumption DEF Client
<1>3. /\ IsTable(Table) /\ Cardinality(Table) \in Nat
      /\ IsTable(Table') /\ Cardinality(Table') \in Nat
    <2>1. AllAreTables /\ AllAreTables'
        BY <1>1, RowsAreATable, RowsAreATableNext DEF AllAreTables
    <2>2. Table' = Rows(req.target)'
        BY DEF Table
    <2> QED BY <1>2, <2>1, FS_CardinalityType DEF Table, AllAreTables, IsTable
<1>4. Cardinality(history) \in Nat /\ Cardinality(history') \in Nat
    BY <1>1, TablesAreCounted, HistoryIsFiniteNext, FS_CardinalityType
<1> DEFINE left == walk.left \/ cleared \/ Gone(Table, Table') # {}
           moved == walk.moved \cup {r.key : r \in walk.start \ Table'}
           shifted == walk.shifted \/ \E r \in Gone(Table, Table') :
                          Rank(Table, r, req.ascending) < Reached
<1>5. /\ pc \in {"idle", "failed", "statsAnswered"} => walk' = walk
      /\ (pc \notin {"idle", "failed", "statsAnswered"} /\ req.walking) =>
             walk' = [walk EXCEPT !.moved = moved, !.shifted = shifted,
                                  !.quiet = FALSE, !.raced = TRUE, !.left = left]
      /\ (pc \notin {"idle", "failed", "statsAnswered"} /\ ~ req.walking) =>
             walk' = [walk EXCEPT !.left = left]
    <2>1. CASE pc \in {"idle", "failed", "statsAnswered"}
        BY <2>1 DEF Notes
    <2>2. CASE pc \notin {"idle", "failed", "statsAnswered"} /\ req.walking
        BY <2>2 DEF Notes, Gone, Table
    <2>3. CASE pc \notin {"idle", "failed", "statsAnswered"} /\ ~ req.walking
        BY <2>3 DEF Notes, Gone, Table
    <2> QED BY <2>1, <2>2, <2>3
<1>6. left \in BOOLEAN /\ shifted \in BOOLEAN
    BY Zenon
<1>7. left = FALSE => /\ ~ walk.left /\ ~ cleared
                      /\ Cardinality(Table) <= Cardinality(Table')
                      /\ Cardinality(history) <= Cardinality(history')
    OBVIOUS
<1>8. \A r \in walk.start : r \in Table' \/ r.key \in moved
    OBVIOUS
<1>9. ~ shifted => /\ ~ walk.shifted
                   /\ \A r \in Gone(Table, Table') : ~ (Rank(Table, r, req.ascending) < Reached)
    OBVIOUS
<1>10. walk.moved \subseteq moved
    OBVIOUS
<1> HIDE DEF left, moved, shifted
<1>11. CASE pc \in {"idle", "failed", "statsAnswered"}
    <2>1. walk' = walk /\ ~ req.walking
        BY <1>1, <1>5, <1>11 DEF Client
    <2>2. Client'
        BY <1>1, <2>1 DEF Client
    <2>3. StillToCome' /\ DeliveredInOrder' /\ Counted' /\ Answered'
        BY <1>11, <2>1 DEF StillToCome, DeliveredInOrder, Counted, Answered
    <2>4. Stats'
        BY <1>11, <2>1 DEF IInv, Stats, StatsInOrder
    <2> QED BY <2>2, <2>3, <2>4 DEF IInv
<1>12. CASE pc \notin {"idle", "failed", "statsAnswered"}
    <2>1. /\ walk'.start = walk.start /\ walk'.seen = walk.seen
          /\ walk'.left = left
          /\ req.walking => /\ walk'.moved = moved /\ walk'.shifted = shifted
                            /\ walk'.quiet = FALSE /\ walk'.raced = TRUE
          /\ IsWalk(walk')
        <3>1. CASE req.walking
            <4>1. walk' = [start |-> walk.start, seen |-> walk.seen, twice |-> walk.twice,
                           moved |-> moved, shifted |-> shifted,
                           quiet |-> FALSE, raced |-> TRUE, left |-> left]
                BY <1>2, <1>5, <1>12, <3>1 DEF IsWalk
            <4> QED BY <1>2, <1>6, <4>1 DEF IsWalk
        <3>2. CASE ~ req.walking
            <4>1. walk' = [start |-> walk.start, seen |-> walk.seen, twice |-> walk.twice,
                           moved |-> walk.moved, shifted |-> walk.shifted,
                           quiet |-> walk.quiet, raced |-> walk.raced, left |-> left]
                BY <1>2, <1>5, <1>12, <3>2 DEF IsWalk
            <4> QED BY <1>2, <1>6, <3>2, <4>1 DEF IsWalk
        <3> QED BY <3>1, <3>2
    <2>2. Client'
        BY <1>1, <2>1 DEF Client
    <2>3. StillToCome'
        <3> SUFFICES ASSUME req.walking, Steady, ~ shifted, NEW r \in walk.start,
                            r.key \notin walk.seen, r.key \notin moved
                     PROVE  r \in Table' /\ Rank(Table', r, req.ascending) >= Reached'
            BY <2>1 DEF StillToCome, Steady
        <3>1. r \in Table /\ Rank(Table, r, req.ascending) >= Reached
            BY <1>9, <1>10 DEF IInv, StillToCome
        <3>2. r \in Table'
            BY <1>8
        <3>3. Reached' = Reached /\ Reached \in Int
            BY <1>1 DEF Reached, Client
        <3>4. /\ Rank(Table', r, req.ascending) \in Nat
              /\ \A q \in Table : Rank(Table, q, req.ascending) \in Nat
            BY <1>2, <1>3, <3>2, RankIsBounded
        <3>5. CASE Rank(Table, r, req.ascending) <= Rank(Table', r, req.ascending)
            BY <3>1, <3>2, <3>3, <3>4, <3>5
        <3>6. ASSUME NEW g \in Gone(Table, Table'),
                     Rank(Table, g, req.ascending) <= Rank(Table', r, req.ascending)
              PROVE  Rank(Table', r, req.ascending) >= Reached'
            <4>1. g \in Table /\ ~ (Rank(Table, g, req.ascending) < Reached)
                BY <1>9 DEF Gone
            <4>2. Rank(Table, g, req.ascending) \in Nat
                BY <3>4, <4>1
            <4> QED BY <3>3, <3>4, <3>6, <4>1, <4>2
        <3> QED BY <3>1, <3>2, <3>5, <3>6 DEF KeepTheirDistance
    <2>4. DeliveredInOrder'
        BY <2>1 DEF DeliveredInOrder
    <2>5. Counted'
        <3> SUFFICES ASSUME pc = "read", ~ walk'.left PROVE total <= Cardinality(Table')
            BY <2>1 DEF Counted
        <3>1. ~ walk.left /\ Cardinality(Table) <= Cardinality(Table')
            BY <1>6, <1>7, <2>1
        <3>2. total <= Cardinality(Table)
            BY <3>1 DEF IInv, Counted
        <3> QED BY <1>2, <1>3, <3>1, <3>2
    <2>6. Answered'
        <3>1. ~ walk'.left => ~ walk.left
            BY <1>6, <1>7, <2>1
        <3> QED BY <2>1, <3>1 DEF IInv, Answered, AnnouncedPagesHoldRows
    <2>7. Stats'
        <3> SUFFICES ASSUME pc = "stats", ~ walk'.left PROVE total <= Cardinality(history')
            BY <1>12 DEF Stats, StatsInOrder
        <3>1. ~ walk.left /\ Cardinality(history) <= Cardinality(history')
            BY <1>6, <1>7, <2>1
        <3>2. total <= Cardinality(history)
            BY <3>1 DEF IInv, Stats
        <3> QED BY <1>2, <1>4, <3>1, <3>2
    <2> QED BY <2>2, <2>3, <2>4, <2>5, <2>6, <2>7 DEF IInv
<1> QED BY <1>11, <1>12

\* Inserts and upserts leave the rows of a query where they are or move them
\* back, if they do not take one out of what the filter finds.
LEMMA InsertsAndUpserts ==
    ASSUME IInv, Tables', history \subseteq history', req' = req,
           NEW i \in Imsis, NEW at \in Times, NEW text \in Texts,
           latest' = latest \/ latest' = Upsert(i, at, text)
    PROVE  /\ Cardinality(history) <= Cardinality(history')
           /\ Gone(Table, Table') = {} => Cardinality(Table) <= Cardinality(Table')
           /\ Steady => KeepTheirDistance(Table, Table', req.ascending)
<1>1. Tables /\ req.target \in Queries /\ req.ascending \in BOOLEAN
    BY DEF IInv, Client
<1>2. Cardinality(history) <= Cardinality(history')
    BY HistoryIsFiniteNext, FS_Subset
<1>3. Table = Rows(req.target) /\ Table' = Rows(req.target)'
    BY DEF Table
<1>4. IsTable(Table) /\ IsTable(Table') /\ Cardinality(Table) \in Nat
    BY <1>1, <1>3, RowsAreATable, RowsAreATableNext, FS_CardinalityType DEF AllAreTables, IsTable
<1>5. CASE Table \subseteq Table'
    <2>1. /\ Cardinality(Table) <= Cardinality(Table')
          /\ \A r \in Table : Rank(Table, r, req.ascending) <= Rank(Table', r, req.ascending)
        BY <1>1, <1>4, <1>5, AddingRaisesRanks
    <2> QED BY <1>2, <2>1 DEF KeepTheirDistance
<1>6. CASE req.target.table = "history"
    <2>1. Rows(req.target) \subseteq Rows(req.target)'
        <3>1. \A target \in Queries : target.table = "history" => Rows(target) \subseteq Rows(target)'
            BY EventsAreAdded
        <3> QED BY <1>1, <1>6, <3>1
    <2> QED BY <1>3, <1>5, <2>1
<1>7. CASE req.target.table = "latest" /\ latest' = latest
    <2>1. Rows(req.target)' = Rows(req.target)
        BY <1>7 DEF Rows
    <2> QED BY <1>3, <1>5, <2>1
<1>8. CASE req.target.table = "latest" /\ latest' = Upsert(i, at, text)
    <2>1. \A target \in Queries : target.table = "latest" =>
              /\ Gone(Rows(target), Rows(target)') = {} =>
                     Cardinality(Rows(target)) <= Cardinality(Rows(target)')
              /\ KeepTheirDistance(Rows(target), Rows(target)', FALSE)
        BY <1>1, <1>8, UpsertRaisesRanks
    <2>2. /\ Gone(Table, Table') = {} => Cardinality(Table) <= Cardinality(Table')
          /\ KeepTheirDistance(Table, Table', FALSE)
        BY <1>1, <1>3, <1>8, <2>1
    <2>3. Steady => req.ascending = FALSE
        BY <1>1, <1>8 DEF Steady
    <2> QED BY <1>2, <2>2, <2>3
<1> QED BY <1>1, <1>6, <1>7, <1>8, TargetKinds

\* A new event.
LEMMA WriteKeeps ==
    ASSUME IInv, NEW i \in Imsis, NEW at \in Times, NEW text \in Texts, Write(i, at, text)
    PROVE  IInv'
<1> DEFINE row == [id |-> lastId + 1, imsi |-> i, at |-> at]
           event == [imsi |-> i, at |-> at, text |-> text]
<1>1. /\ batch = {} /\ lastId < MaxRows /\ history' = history \cup {row} /\ lastId' = lastId + 1
      /\ Notes(FALSE) /\ UNCHANGED <<pc, req, total, reply>>
      /\ \/ latest' = Upsert(i, at, text) /\ batch' = {}
         \/ latest' = latest /\ batch' = {event}
    BY DEF Write
<1>2. Tables /\ MaxRows \in Nat
    BY ReadAssumption DEF IInv
<1>3. lastId \in Nat /\ lastId' \in 0 .. MaxRows
    BY <1>1, <1>2 DEF Tables
<1>4. row \in [id : Nat, imsi : Imsis, at : Times] /\ row.id = lastId + 1 /\ row.imsi = i
    BY <1>3
<1>5. event.imsi = i /\ event.at = at /\ event.text = text
    OBVIOUS
<1> HIDE DEF row, event
<1>6. Tables'
    <2>1. history' \subseteq [id : Nat, imsi : Imsis, at : Times]
        BY <1>1, <1>2, <1>4 DEF Tables
    <2>2. \A r \in history' : r.id \in 1 .. lastId'
        BY <1>1, <1>2, <1>3, <1>4 DEF Tables
    <2>3. \A r, q \in history' : r.id = q.id => r = q
        <3>1. \A r \in history : r.id # row.id
            BY <1>2, <1>3, <1>4 DEF Tables
        <3> QED BY <1>1, <1>2, <3>1 DEF Tables
    <2>4. /\ DOMAIN latest' \subseteq Imsis
          /\ \A j \in DOMAIN latest' : latest'[j].at \in Times /\ \E r \in history' : r.imsi = j
        BY <1>1, <1>2, <1>4 DEF Tables, Upsert
    <2>5. \A e \in batch' : /\ e.imsi \in Imsis /\ e.at \in Times /\ e.text \in Texts
                            /\ \E r \in history' : r.imsi = e.imsi
        BY <1>1, <1>4, <1>5
    <2> QED BY <1>3, <2>1, <2>2, <2>3, <2>4, <2>5 DEF Tables
<1>7. /\ Cardinality(history) <= Cardinality(history')
      /\ Gone(Table, Table') = {} => Cardinality(Table) <= Cardinality(Table')
      /\ Steady => KeepTheirDistance(Table, Table', req.ascending)
    <2>1. latest' = latest \/ latest' = Upsert(i, at, text)
        BY <1>1
    <2>2. history \subseteq history' /\ req' = req
        BY <1>1
    <2> QED BY <1>6, <2>1, <2>2, InsertsAndUpserts
<1> QED BY <1>1, <1>6, <1>7, NotesKeep

\* The projector's upsert.
LEMMA ProjectLatestKeeps ==
    ASSUME IInv, ProjectLatest
    PROVE  IInv'
<1>1. PICK event \in batch :
        /\ latest' = Upsert(event.imsi, event.at, event.text)
        /\ batch' = batch \ {event}
    BY DEF ProjectLatest
<1>2. Notes(FALSE) /\ UNCHANGED <<history, lastId, pc, req, total, reply>>
    BY DEF ProjectLatest
<1>3. Tables
    BY DEF IInv
<1>4. /\ event.imsi \in Imsis /\ event.at \in Times /\ event.text \in Texts
      /\ \E r \in history : r.imsi = event.imsi
    BY <1>3 DEF Tables
<1>5. Tables'
    <2>1. /\ DOMAIN latest' \subseteq Imsis
          /\ \A j \in DOMAIN latest' : latest'[j].at \in Times /\ \E r \in history : r.imsi = j
        BY <1>1, <1>3, <1>4 DEF Tables, Upsert
    <2> QED BY <1>1, <1>2, <1>3, <2>1 DEF Tables
<1>6. /\ Cardinality(history) <= Cardinality(history')
      /\ Gone(Table, Table') = {} => Cardinality(Table) <= Cardinality(Table')
      /\ Steady => KeepTheirDistance(Table, Table', req.ascending)
    BY <1>1, <1>2, <1>4, <1>5, InsertsAndUpserts
<1> QED BY <1>2, <1>5, <1>6, NotesKeep

\* TRUNCATE
LEMMA ClearKeeps ==
    ASSUME IInv, Clear
    PROVE  IInv'
<1>1. /\ batch = {} /\ history' = {} /\ latest' = <<>> /\ Notes(TRUE)
      /\ UNCHANGED <<batch, lastId, pc, req, total, reply>>
    BY DEF Clear
<1>2. DOMAIN latest' = {}
    BY <1>1
<1>3. Tables'
    BY <1>1, <1>2 DEF IInv, Tables
<1>4. Table' = {}
    BY <1>1, <1>2 DEF Table, Rows
<1>5. KeepTheirDistance(Table, Table', req.ascending)
    BY <1>4 DEF KeepTheirDistance
<1> QED BY <1>1, <1>3, <1>5, NotesKeep

-----------------------------------------------------------------------------
(***************************************************************************)
(* Calls.                                                                  *)
(***************************************************************************)
\* Steps of the client leave the tables alone.
LEMMA TablesKeep ==
    ASSUME Tables, UNCHANGED tables
    PROVE  Tables' /\ \A target \in Queries : Rows(target)' = Rows(target)
<1> USE DEF tables
<1>1. Tables'
    BY DEF Tables
<1>2. \A target \in Queries : Rows(target)' = Rows(target)
    BY DEF Rows
<1> QED BY <1>1, <1>2

\* The first call of a walk, or a call for any page.
LEMMA AskKeeps ==
    ASSUME IInv, NEW target \in Targets, NEW ascending \in BOOLEAN, NEW page \in Int,
           NEW size \in Int, NEW walking \in BOOLEAN,
           walking => page = 0 /\ size > 0,
           Ask([target |-> target, ascending |-> ascending, page |-> page, size |-> size,
                walking |-> walking])
    PROVE  IInv'
<1> target \in Queries
    BY ReadAssumption DEF Targets, Queries
<1>1. /\ pc' = "count"
      /\ req' = [target |-> target, ascending |-> ascending, page |-> page, size |-> size,
                 walking |-> walking]
      /\ walk' = [NoWalk EXCEPT !.start = IF walking THEN Rows(target) ELSE {}]
      /\ UNCHANGED <<tables, total, reply>>
    BY DEF Ask
<1>2. Tables' /\ Rows(target)' = Rows(target)
    BY <1>1, TablesKeep DEF IInv
<1>3. walk' = [start |-> IF walking THEN Rows(target) ELSE {}, seen |-> {}, twice |-> FALSE,
               moved |-> {}, shifted |-> FALSE, quiet |-> TRUE, raced |-> FALSE, left |-> FALSE]
    BY <1>1 DEF NoWalk
<1>4. IsWalk(walk')
    BY <1>3 DEF IsWalk
<1>5. walking => page * size = 0
    OBVIOUS
<1>6. Client'
    <2>1. req' \in [target : Queries, ascending : BOOLEAN, page : Int, size : Int, walking : BOOLEAN]
        BY <1>1
    <2>2. total' \in 0 .. MaxRows
        BY <1>1 DEF IInv, Client
    <2>3. walking => /\ page \in Nat /\ size \in Nat \ {0}
                     /\ page * size \in Nat /\ page * size <= MaxInt
        BY <1>5, ReadAssumption
    <2> QED BY <1>1, <1>4, <2>1, <2>2, <2>3 DEF Client
<1>7. walking => Table' = walk'.start /\ Reached' = 0 /\ IsTable(Table')
    <2>1. Table' = Rows(target)'
        BY <1>1 DEF Table
    <2>2. IsTable(Rows(target))
        BY RowsAreATable DEF IInv
    <2> QED BY <1>1, <1>2, <1>3, <1>5, <2>1, <2>2 DEF Reached
<1>8. StillToCome' /\ DeliveredInOrder'
    <2> SUFFICES ASSUME walking PROVE StillToCome' /\ DeliveredInOrder'
        BY <1>1 DEF StillToCome, DeliveredInOrder
    <2>1. \A r \in walk'.start : Rank(Table', r, req'.ascending) \in Nat
        BY <1>1, <1>7, RankIsBounded
    <2>2. \A r \in walk'.start : Rank(Table', r, req'.ascending) >= 0 /\ ~ (Rank(Table', r, req'.ascending) < 0)
        BY <2>1
    <2>3. StillToCome'
        BY <1>7, <2>2 DEF StillToCome
    <2>4. DeliveredInOrder'
        BY <1>3, <1>7, <2>2 DEF DeliveredInOrder
    <2> QED BY <2>3, <2>4
<1>9. Counted' /\ Answered' /\ Stats'
    BY <1>1 DEF Counted, Answered, Stats, StatsInOrder
<1> QED BY <1>2, <1>6, <1>8, <1>9 DEF IInv

\* SELECT count(*)
LEMMA CountKeeps ==
    ASSUME IInv, Count
    PROVE  IInv'
<1>1. /\ pc = "count" /\ pc' = "read" /\ total' = Cardinality(Table)
      /\ walk' = [walk EXCEPT !.raced = FALSE, !.left = FALSE]
      /\ UNCHANGED <<tables, req, reply>>
    BY DEF Count, Table
<1>2. Client /\ Tables /\ req.target \in Queries
    BY DEF IInv, Client
<1>3. Tables' /\ Table' = Table
    BY <1>1, <1>2, TablesKeep DEF Table
<1>4. Cardinality(Table) \in 0 .. MaxRows
    BY <1>2, RowsAreATable DEF Table
<1>5. walk' = [start |-> walk.start, seen |-> walk.seen, twice |-> walk.twice, moved |-> walk.moved,
               shifted |-> walk.shifted, quiet |-> walk.quiet, raced |-> FALSE, left |-> FALSE]
    BY <1>1, <1>2 DEF Client, IsWalk
<1>6. IsWalk(walk')
    BY <1>2, <1>5 DEF Client, IsWalk
<1>7. Client'
    BY <1>1, <1>2, <1>4, <1>6 DEF Client
<1>8. Reached' = Reached
    BY <1>1 DEF Reached
<1>9. StillToCome' /\ DeliveredInOrder'
    BY <1>1, <1>3, <1>5, <1>8 DEF IInv, StillToCome, DeliveredInOrder, Steady
<1>10. Counted'
    <2>1. Cardinality(Table) <= Cardinality(Table)
        BY <1>4, ReadAssumption
    <2> QED BY <1>1, <1>3, <2>1 DEF Counted
<1>11. Answered' /\ Stats'
    BY <1>1 DEF Answered, Stats, StatsInOrder
<1> QED BY <1>3, <1>7, <1>9, <1>10, <1>11 DEF IInv

\* A page that is refused.
LEMMA RefusalKeeps ==
    ASSUME IInv, ReadPage, pc' = "failed"
    PROVE  IInv'
<1>1. /\ pc = "read" /\ UNCHANGED <<tables, req, total>>
      /\ Offset(req.page, req.size) < 0 \/ req.size < 0
      /\ UNCHANGED <<reply, walk>>
    BY DEF ReadPage
<1>2. Client /\ Tables
    BY DEF IInv
<1>3. ~ req.walking
    <2> SUFFICES ASSUME req.walking PROVE FALSE
        OBVIOUS
    <2>1. /\ req.page \in Nat /\ req.size \in Nat
          /\ req.page * req.size \in Nat /\ req.page * req.size <= MaxInt
        BY <1>2 DEF Client
    <2>2. Offset(req.page, req.size) \in Nat
        BY <2>1, SmallOffsetsAreExact
    <2> QED BY <1>1, <2>1, <2>2
<1>4. Tables'
    BY <1>1, <1>2, TablesKeep
<1>5. Client'
    BY <1>1, <1>2, <1>3 DEF Client
<1>6. StillToCome' /\ DeliveredInOrder'
    BY <1>1, <1>3 DEF StillToCome, DeliveredInOrder
<1>7. Counted' /\ Answered' /\ Stats'
    BY DEF Counted, Answered, Stats, StatsInOrder
<1> QED BY <1>4, <1>5, <1>6, <1>7 DEF IInv

\* A page that is answered has the rows of its ranks.
LEMMA PageKeeps ==
    ASSUME IInv, ReadPage, pc' = "answered"
    PROVE  IInv'
<1> DEFINE offset == Offset(req.page, req.size)
           asc == req.ascending
           rank(r) == Rank(Table, r, asc)
<1>1. /\ pc = "read" /\ UNCHANGED <<tables, req, total>> /\ ~ (offset < 0 \/ req.size < 0)
    BY DEF ReadPage
<1>2. PICK pos \in Orders(Table, asc) :
        /\ reply' = [rows |-> Slice(Table, pos, offset, req.size), total |-> total,
                     totalPages |-> PagesFor(total, req.size),
                     page |-> req.page, there |-> Cardinality(Table)]
        /\ walk' = [walk EXCEPT
              !.seen = @ \cup {r.key : r \in Slice(Table, pos, offset, req.size)},
              !.twice = @ \/ walk.seen \cap {r.key : r \in Slice(Table, pos, offset, req.size)} # {}]
    BY DEF ReadPage, Table, Slice
<1> DEFINE slice == Slice(Table, pos, offset, req.size)
           keys == {r.key : r \in slice}
<1>3. Client /\ Tables /\ req.target \in Queries /\ asc \in BOOLEAN /\ IsWalk(walk)
    BY DEF IInv, Client
<1>4. Tables' /\ Table' = Table
    BY <1>1, <1>3, TablesKeep DEF Table
<1>5. IsTable(Table) /\ Cardinality(Table) \in 0 .. MaxRows /\ Cardinality(Table) \in Nat
    BY <1>3, RowsAreATable, ReadAssumption DEF Table
<1>6. \A r \in Table : pos[r] = rank(r) /\ rank(r) \in Nat
    BY <1>3, <1>5, RankIsPosition, RankIsBounded
<1>7. total \in 0 .. MaxRows /\ total \in Nat /\ total <= MaxInt
    BY <1>3, ReadAssumption DEF Client
<1>8. walk' = [start |-> walk.start, seen |-> walk.seen \cup keys,
               twice |-> walk.twice \/ walk.seen \cap keys # {}, moved |-> walk.moved,
               shifted |-> walk.shifted, quiet |-> walk.quiet, raced |-> walk.raced,
               left |-> walk.left]
    BY <1>2, <1>3 DEF IsWalk
<1>9. IsWalk(walk')
    <2>1. (walk.twice \/ walk.seen \cap keys # {}) \in BOOLEAN
        BY Zenon
    <2> QED BY <1>3, <1>8, <2>1 DEF IsWalk
<1>10. Client'
    BY <1>1, <1>3, <1>9 DEF Client
<1>11. \A r \in Table : r \in slice <=> pos[r] \in offset .. (offset + req.size - 1)
    BY DEF Slice
<1>12. slice \subseteq Table /\ \A k \in keys : \E r \in slice : r.key = k
    BY DEF Slice
<1>13. /\ reply'.rows = slice /\ reply'.total = total
       /\ reply'.totalPages = PagesFor(total, req.size)
    BY <1>2
<1>14. \A r \in slice : r.key \in keys
    OBVIOUS
<1> HIDE DEF slice, keys, rank, offset
<1>15. ASSUME req.walking
       PROVE  /\ offset = req.page * req.size /\ offset \in Nat /\ req.size \in Nat \ {0}
              /\ Reached = offset /\ Reached' = offset + req.size
              /\ \A r \in Table : r \in slice <=> rank(r) >= offset /\ rank(r) < offset + req.size
    <2>1. /\ req.page \in Nat /\ req.size \in Nat \ {0}
          /\ req.page * req.size \in Nat /\ req.page * req.size <= MaxInt
        BY <1>3, <1>15 DEF Client
    <2>2. offset = req.page * req.size
        BY <2>1, SmallOffsetsAreExact DEF offset
    <2>3. Reached = offset /\ Reached' = offset + req.size
        BY <1>1, <2>2 DEF Reached
    <2>4. ASSUME NEW r \in Table
          PROVE  r \in slice <=> rank(r) >= offset /\ rank(r) < offset + req.size
        <3>1. rank(r) \in Nat /\ (r \in slice <=> rank(r) \in offset .. (offset + req.size - 1))
            BY <1>6, <1>11
        <3> QED BY <2>1, <2>2, <3>1
    <2> QED BY <2>1, <2>2, <2>3, <2>4
<1>16. StillToCome'
    <2> SUFFICES ASSUME req.walking, Steady, ~ walk.shifted, NEW r \in walk.start,
                        r.key \notin walk.seen \cup keys, r.key \notin walk.moved
                 PROVE  r \in Table /\ rank(r) >= offset + req.size
        BY <1>1, <1>4, <1>8, <1>15 DEF StillToCome, Steady, rank
    <2>1. r \in Table /\ rank(r) >= offset
        BY <1>15 DEF IInv, StillToCome, rank
    <2>2. r \notin slice
        BY <1>14
    <2>3. rank(r) \in Nat /\ offset \in Nat /\ req.size \in Nat
        BY <1>6, <1>15, <2>1
    <2> QED BY <1>15, <2>1, <2>2, <2>3
<1>17. DeliveredInOrder'
    <2> SUFFICES ASSUME req.walking, walk.quiet PROVE DeliveredInOrder'
        BY <1>1, <1>8 DEF DeliveredInOrder
    <2>1. /\ Table = walk.start /\ ~ walk.twice
          /\ \A k \in walk.seen : \E r \in walk.start : r.key = k
          /\ \A r \in walk.start : r.key \in walk.seen <=> rank(r) < offset
        BY <1>15 DEF IInv, DeliveredInOrder, rank
    <2>2. \A r \in Table : r.key \in keys <=> r \in slice
        BY <1>5, <1>12, <1>14 DEF IsTable
    <2>3. \A k \in keys : k \notin walk.seen
        <3> SUFFICES ASSUME NEW k \in keys, k \in walk.seen PROVE FALSE
            OBVIOUS
        <3>1. PICK r \in slice : r.key = k
            BY <1>12
        <3>2. r \in Table /\ rank(r) >= offset /\ rank(r) < offset
            BY <1>12, <1>15, <2>1, <3>1
        <3>3. rank(r) \in Nat /\ offset \in Nat
            BY <1>6, <1>15, <3>2
        <3> QED BY <3>2, <3>3
    <2>4. ~ walk'.twice
        BY <1>8, <2>1, <2>3
    <2>5. \A k \in walk'.seen : \E r \in walk.start : r.key = k
        BY <1>8, <1>12, <2>1
    <2>6. ASSUME NEW r \in walk.start
          PROVE  r.key \in walk'.seen <=> rank(r) < offset + req.size
        <3>1. r.key \in walk'.seen <=> rank(r) < offset \/ r \in slice
            BY <1>8, <2>1, <2>2
        <3>2. r \in slice <=> rank(r) >= offset /\ rank(r) < offset + req.size
            BY <1>15, <2>1
        <3>3. rank(r) \in Nat /\ offset \in Nat /\ req.size \in Nat
            BY <1>6, <1>15, <2>1
        <3> QED BY <3>1, <3>2, <3>3
    <2> QED BY <1>1, <1>4, <1>8, <1>15, <2>1, <2>4, <2>5, <2>6 DEF DeliveredInOrder, rank
<1>18. AnnouncedPagesHoldRows'
    <2> SUFFICES ASSUME req.size > 0, total > 0, ~ walk.left,
                        req.page \in 0 .. (PagesFor(total, req.size) - 1)
                 PROVE  /\ slice # {}
                        /\ req.page + 1 < PagesFor(total, req.size) => Cardinality(slice) = req.size
                        /\ total <= PagesFor(total, req.size) * req.size
        BY <1>1, <1>8, <1>13 DEF AnnouncedPagesHoldRows
    <2>1. req.size \in Nat \ {0}
        BY <1>3 DEF Client
    <2>2. PagesFor(total, req.size) \in Nat \ {0} /\ total <= PagesFor(total, req.size) * req.size
        BY <1>7, <2>1, PagesForHolds
    <2>3. req.page \in Nat /\ req.page < PagesFor(total, req.size)
        BY <2>2
    <2>4. /\ req.page * req.size \in Nat /\ req.page * req.size < total
          /\ req.page + 1 < PagesFor(total, req.size) => req.page * req.size + req.size < total
        BY <1>7, <2>1, <2>3, PagesBeginAtRows
    <2>5. offset = req.page * req.size
        <3>1. req.page * req.size <= MaxInt
            BY <1>7, <2>4, ReadAssumption
        <3> QED BY <2>1, <2>3, <2>4, <3>1, SmallOffsetsAreExact DEF offset
    <2>6. total <= Cardinality(Table)
        BY <1>1 DEF IInv, Counted
    <2>7. offset \in Nat /\ offset < Cardinality(Table)
        BY <1>5, <1>7, <2>4, <2>5, <2>6
    <2>8. req.page + 1 < PagesFor(total, req.size) => offset + req.size <= Cardinality(Table)
        BY <1>5, <1>7, <2>1, <2>4, <2>5, <2>6
    <2>9. /\ Slice(Table, pos, offset, req.size) # {}
          /\ offset + req.size <= Cardinality(Table) =>
                 Cardinality(Slice(Table, pos, offset, req.size)) = req.size
        BY <1>3, <1>5, <2>1, <2>7, SlicesAreFull
    <2> QED BY <2>2, <2>8, <2>9 DEF slice
<1>19. Answered'
    <2>1. req.walking /\ ~ walk.raced => total = Cardinality(Table)
        BY <1>1 DEF IInv, Counted
    <2> QED BY <1>1, <1>4, <1>7, <1>8, <1>13, <1>18, <2>1 DEF Answered
<1>20. Counted' /\ Stats'
    BY DEF Counted, Stats, StatsInOrder
<1> QED BY <1>4, <1>10, <1>16, <1>17, <1>19, <1>20 DEF IInv

\* A page is refused or answered.
LEMMA ReadPageKeeps ==
    ASSUME IInv, ReadPage
    PROVE  IInv'
<1>1. pc' = "failed" \/ pc' = "answered"
    BY DEF ReadPage
<1> QED BY <1>1, RefusalKeeps, PageKeeps

\* An announced next page begins at a counted row, so its offset is exact,
\* and it goes on where the page before it ended.
LEMMA NextPageKeeps ==
    ASSUME IInv, NextPage
    PROVE  IInv'
<1>1. /\ pc = "answered" /\ req.walking /\ req.page + 1 < reply.totalPages
      /\ pc' = "count" /\ req' = [req EXCEPT !.page = @ + 1]
      /\ UNCHANGED <<tables, total, reply, walk>>
    BY DEF NextPage
<1>2. Client /\ Tables /\ req.target \in Queries /\ req.ascending \in BOOLEAN
    BY DEF IInv, Client
<1>3. req.page \in Nat /\ req.size \in Nat \ {0}
    BY <1>1, <1>2 DEF Client
<1>4. reply.total \in 0 .. MaxRows /\ reply.totalPages = PagesFor(reply.total, req.size)
    BY <1>1, <1>3 DEF IInv, Answered
<1> DEFINE next == req.page + 1
<1>5. next \in Nat /\ next < PagesFor(reply.total, req.size) /\ next > 0
    BY <1>1, <1>3, <1>4
<1>6. reply.total \in Nat /\ reply.total <= MaxInt
    BY <1>4, ReadAssumption
<1>7. reply.total > 0
    <2>1. reply.total = 0 => PagesFor(reply.total, req.size) = 1
        BY <1>3 DEF PagesFor
    <2> QED BY <1>5, <1>6, <2>1
<1>8. next * req.size \in Nat /\ next * req.size < reply.total
    BY <1>3, <1>5, <1>6, <1>7, PagesBeginAtRows
<1>9. next * req.size <= MaxInt
    BY <1>6, <1>8, ReadAssumption
<1>10. next * req.size = req.page * req.size + req.size
    BY <1>3, ProductsGrow
<1>11. req' = [req EXCEPT !.page = next] /\ next \in Int
    BY <1>1, <1>5
<1> HIDE DEF next
<1>12. /\ req'.page = next /\ req'.size = req.size /\ req'.walking = req.walking
       /\ req'.target = req.target /\ req'.ascending = req.ascending
       /\ req' \in [target : Queries, ascending : BOOLEAN, page : Int, size : Int, walking : BOOLEAN]
    BY <1>2, <1>11 DEF Client
<1>13. Tables' /\ Table' = Table
    BY <1>1, <1>2, <1>12, TablesKeep DEF Table
<1>14. Client'
    BY <1>1, <1>2, <1>3, <1>5, <1>8, <1>9, <1>12 DEF Client
<1>15. Reached' = Reached
    BY <1>1, <1>10, <1>12 DEF Reached
<1>16. StillToCome' /\ DeliveredInOrder'
    BY <1>1, <1>12, <1>13, <1>15 DEF IInv, StillToCome, DeliveredInOrder, Steady
<1>17. Counted' /\ Answered' /\ Stats'
    BY <1>1 DEF Counted, Answered, Stats, StatsInOrder
<1> QED BY <1>13, <1>14, <1>16, <1>17 DEF IInv

\* A client without a request.
LEMMA NoRequestIsTyped ==
    /\ NoRequest \in [target : Queries, ascending : BOOLEAN, page : Int, size : Int, walking : BOOLEAN]
    /\ ~ NoRequest.walking
    /\ IsWalk(NoWalk)
<1>1. [imsis |-> {}, texts |-> {}] \in [imsis : SUBSET Imsis, texts : SUBSET Texts]
    OBVIOUS
<1>2. [table |-> "latest", filter |-> [imsis |-> {}, texts |-> {}]] \in Queries
    BY <1>1 DEF Queries
<1> QED BY <1>2 DEF NoRequest, NoWalk, IsWalk

\* The first count of stats, of the latest table.
LEMMA FirstCountKeeps ==
    ASSUME IInv, FirstCount
    PROVE  IInv'
<1>1. /\ pc = "idle" /\ pc' = "stats" /\ total' = Cardinality(DOMAIN latest)
      /\ walk' = NoWalk /\ UNCHANGED <<tables, req, reply>>
    BY DEF FirstCount, CountOf, CountsOfStats
<1>2. Client /\ Tables
    BY DEF IInv
<1>3. Tables'
    BY <1>1, <1>2, TablesKeep
<1>4. /\ total' <= Cardinality(history) /\ total' \in 0 .. MaxRows
    <2>1. lastId \in 0 .. MaxRows /\ MaxRows \in Nat
        BY <1>2, ReadAssumption DEF Tables
    <2> QED BY <1>1, <1>2, <2>1, TablesAreCounted
<1>5. ~ req.walking
    BY <1>1, <1>2 DEF Client
<1>6. Client'
    BY <1>1, <1>2, <1>4, <1>5, NoRequestIsTyped DEF Client
<1>7. StillToCome' /\ DeliveredInOrder'
    BY <1>1, <1>5 DEF StillToCome, DeliveredInOrder
<1>8. history' = history
    BY <1>1 DEF tables
<1>9. Counted' /\ Answered' /\ Stats'
    BY <1>1, <1>4, <1>8 DEF Counted, Answered, Stats, StatsInOrder
<1> QED BY <1>3, <1>6, <1>7, <1>9 DEF IInv

\* The second count of stats, of the history.
LEMMA SecondCountKeeps ==
    ASSUME IInv, SecondCount
    PROVE  IInv'
<1>1. /\ pc = "stats" /\ pc' = "statsAnswered"
      /\ reply' = [NoReply EXCEPT !.total = total, !.there = Cardinality(history)]
      /\ UNCHANGED <<tables, req, total, walk>>
    BY DEF SecondCount, CountOf, CountsOfStats
<1>2. Client /\ Tables
    BY DEF IInv
<1>3. Tables'
    BY <1>1, <1>2, TablesKeep
<1>4. ~ req.walking
    BY <1>1, <1>2 DEF Client
<1>5. Client'
    BY <1>1, <1>2, <1>4 DEF Client
<1>6. StillToCome' /\ DeliveredInOrder'
    BY <1>1, <1>4 DEF StillToCome, DeliveredInOrder
<1>7. reply'.total = total /\ reply'.there = Cardinality(history)
    BY <1>1 DEF NoReply
<1>8. ~ walk.left => total <= Cardinality(history)
    BY <1>1 DEF IInv, Stats
<1>9. Counted' /\ Answered' /\ Stats'
    BY <1>1, <1>7, <1>8 DEF Counted, Answered, Stats, StatsInOrder
<1> QED BY <1>3, <1>5, <1>6, <1>9 DEF IInv

\* A client that is done.
LEMMA LeaveKeeps ==
    ASSUME IInv, Leave
    PROVE  IInv'
<1>1. /\ pc' = "idle" /\ req' = NoRequest /\ total' = 0 /\ walk' = NoWalk
      /\ UNCHANGED tables
    BY DEF Leave
<1>2. Tables'
    BY <1>1, TablesKeep DEF IInv
<1>3. Client'
    BY <1>1, NoRequestIsTyped, ReadAssumption DEF Client
<1>4. StillToCome' /\ DeliveredInOrder'
    BY <1>1, NoRequestIsTyped DEF StillToCome, DeliveredInOrder
<1>5. Counted' /\ Answered' /\ Stats'
    BY <1>1 DEF Counted, Answered, Stats, StatsInOrder
<1> QED BY <1>2, <1>3, <1>4, <1>5 DEF IInv

\* The invariant, and with it that StatsInOrder and AnnouncedPagesHoldRows
\* hold in every reachable state.
THEOREM ReadInvariant == Spec => []IInv
<1>1. Init => IInv
    <2> SUFFICES ASSUME Init PROVE IInv
        OBVIOUS
    <2>1. Tables
        BY ReadAssumption DEF Init, Tables
    <2>2. Client
        BY NoRequestIsTyped, ReadAssumption DEF Init, Client
    <2>3. StillToCome /\ DeliveredInOrder
        BY NoRequestIsTyped DEF Init, StillToCome, DeliveredInOrder
    <2>4. Counted /\ Answered /\ Stats
        BY DEF Init, Counted, Answered, Stats, StatsInOrder
    <2> QED BY <2>1, <2>2, <2>3, <2>4 DEF IInv
<1>2. IInv /\ [Next]_vars => IInv'
    <2> SUFFICES ASSUME IInv, [Next]_vars PROVE IInv'
        OBVIOUS
    <2>1. CASE \E i \in Imsis, at \in Times, text \in Texts : Write(i, at, text)
        BY <2>1, WriteKeeps
    <2>2. CASE ProjectLatest
        BY <2>2, ProjectLatestKeeps
    <2>3. CASE Clear
        BY <2>3, ClearKeeps
    <2>4. ASSUME NEW target \in Targets, NEW ascending \in BOOLEAN, NEW size \in Sizes,
                 BeginWalk(target, ascending, size)
          PROVE  IInv'
        <3>1. size \in Int /\ 0 \in Int /\ size > 0
            BY ReadAssumption DEF Ints
        <3> QED BY <2>4, <3>1, AskKeeps DEF BeginWalk
    <2>5. ASSUME NEW target \in Targets, NEW ascending \in BOOLEAN, NEW asked \in Asked,
                 AskFor(target, ascending, asked[1], asked[2])
          PROVE  IInv'
        <3>1. asked[1] \in Int /\ asked[2] \in Int
            BY ReadAssumption DEF Ints
        <3> QED BY <2>5, <3>1, AskKeeps DEF AskFor
    <2>6. CASE Count \/ ReadPage \/ NextPage
        BY <2>6, CountKeeps, ReadPageKeeps, NextPageKeeps
    <2>7. CASE FirstCount \/ SecondCount \/ Leave
        BY <2>7, FirstCountKeeps, SecondCountKeeps, LeaveKeeps
    <2>8. CASE UNCHANGED vars
        <3> USE <2>8 DEF vars, tables, client
        <3>1. Tables'
            BY TablesKeep DEF IInv
        <3>2. Client'
            BY DEF IInv, Client
        <3>3. Table' = Table /\ Reached' = Reached
            BY DEF Table, Rows, Reached
        <3>4. StillToCome' /\ DeliveredInOrder'
            BY <3>3 DEF IInv, StillToCome, DeliveredInOrder, Steady
        <3>5. Counted' /\ Answered' /\ Stats'
            BY <3>3 DEF IInv, Counted, Answered, AnnouncedPagesHoldRows, Stats, StatsInOrder
        <3> QED BY <3>1, <3>2, <3>4, <3>5 DEF IInv
    <2> QED BY <2>1, <2>2, <2>3, <2>4, <2>5, <2>6, <2>7, <2>8 DEF Next
<1> QED BY <1>1, <1>2, PTL DEF Spec

-----------------------------------------------------------------------------
(***************************************************************************)
(* What the invariant gives.                                               *)
(***************************************************************************)
\* At the last announced page of a walk whose count is as old as its page,
\* every row of the table has a rank below the positions the walk has read.
LEMMA LastPageReachesAll ==
    ASSUME IInv, pc = "answered", req.walking, req.page + 1 >= reply.totalPages, ~ walk.raced
    PROVE  \A r \in Table : Rank(Table, r, req.ascending) < Reached
<1>1. Client /\ Tables /\ req.target \in Queries /\ req.ascending \in BOOLEAN
    BY DEF IInv, Client
<1>2. req.page \in Nat /\ req.size \in Nat \ {0}
    BY <1>1 DEF Client
<1>3. /\ reply.total = Cardinality(Table) /\ reply.total \in Nat
      /\ reply.totalPages = PagesFor(reply.total, req.size)
    BY <1>2, ReadAssumption DEF IInv, Answered
<1>4. reply.totalPages \in Nat /\ reply.total <= reply.totalPages * req.size
    BY <1>2, <1>3, PagesForHolds
<1>5. /\ reply.totalPages * req.size <= (req.page + 1) * req.size
      /\ reply.totalPages * req.size \in Nat
      /\ (req.page + 1) * req.size = req.page * req.size + req.size
      /\ req.page * req.size \in Nat
    <2>1. req.page + 1 \in Nat /\ reply.totalPages <= req.page + 1
        BY <1>2, <1>4
    <2> QED BY <1>2, <1>4, <2>1, ProductsGrow
<1>6. Reached = req.page * req.size + req.size
    BY DEF Reached
<1>7. IsTable(Table)
    BY <1>1, RowsAreATable DEF Table
<1>8. ASSUME NEW r \in Table PROVE Rank(Table, r, req.ascending) < Reached
    <2>1. /\ Rank(Table, r, req.ascending) \in Nat
          /\ Rank(Table, r, req.ascending) < Cardinality(Table)
        BY <1>1, <1>7, RankIsBounded
    <2> QED BY <1>2, <1>3, <1>4, <1>5, <1>6, <2>1
<1> QED BY <1>8

\* A walk that has read its last announced page has seen every row that was
\* there when it began and that no write has moved or taken out of the filter
\* (EventQuery.page under writes, newest first or in a history), unless an
\* update took a row out of the filter from among those already read.
THEOREM WalksMissNothing == Spec => []WalkMissesNothing
<1>1. IInv => WalkMissesNothing
    <2> SUFFICES ASSUME IInv, pc = "answered", req.walking,
                        req.page + 1 >= reply.totalPages, ~ walk.raced, ~ walk.shifted, Steady,
                        NEW r \in walk.start
                 PROVE  r.key \in walk.seen \cup walk.moved
        BY DEF WalkMissesNothing, Steady
    <2> SUFFICES ASSUME r.key \notin walk.seen \cup walk.moved PROVE FALSE
        OBVIOUS
    <2>1. r \in Table /\ Rank(Table, r, req.ascending) >= Reached
        BY DEF IInv, StillToCome
    <2>2. Rank(Table, r, req.ascending) < Reached
        BY <2>1, LastPageReachesAll
    <2>3. Rank(Table, r, req.ascending) \in Nat /\ Reached \in Nat
        <3>1. IsTable(Table) /\ req.ascending \in BOOLEAN
            BY RowsAreATable DEF IInv, Client, Table
        <3>2. req.page * req.size \in Nat /\ req.size \in Nat
            BY DEF IInv, Client
        <3> QED BY <2>1, <3>1, <3>2, RankIsBounded DEF Reached
    <2> QED BY <2>1, <2>2, <2>3
<1> QED BY <1>1, ReadInvariant, PTL

\* While nothing is written a walk delivers every row once, in both
\* directions and whatever ties on updated_at (EventQuery.page).
THEOREM QuietWalksAreExact == Spec => []QuietWalkIsExact
<1>1. IInv => QuietWalkIsExact
    <2> SUFFICES ASSUME IInv, req.walking, walk.quiet
                 PROVE  /\ ~ walk.twice
                        /\ (pc = "answered" /\ req.page + 1 >= reply.totalPages)
                              => walk.seen = {r.key : r \in walk.start}
        BY DEF QuietWalkIsExact
    <2>1. /\ Table = walk.start /\ ~ walk.twice
          /\ \A k \in walk.seen : \E r \in walk.start : r.key = k
          /\ \A r \in walk.start : r.key \in walk.seen <=> Rank(Table, r, req.ascending) < Reached
        BY DEF IInv, DeliveredInOrder
    <2>2. ~ walk.raced
        BY DEF IInv, Client, IsWalk
    <2>3. ASSUME pc = "answered", req.page + 1 >= reply.totalPages
          PROVE  walk.seen = {r.key : r \in walk.start}
        <3>1. \A r \in walk.start : r.key \in walk.seen
            BY <2>1, <2>2, <2>3, LastPageReachesAll
        <3> QED BY <2>1, <3>1
    <2> QED BY <2>1, <2>3
<1> QED BY <1>1, ReadInvariant, PTL

\* An announced page is there, and full unless it is the last (EventQuery.page's
\* totalPages against its OFFSET and LIMIT), unless a clear or an update of the
\* columns it is filtered by took a row away between count and page.
THEOREM AnnouncedPagesAreThere == Spec => []AnnouncedPagesHoldRows
<1>1. IInv => AnnouncedPagesHoldRows
    BY DEF IInv, Answered, AnnouncedPagesHoldRows
<1> QED BY <1>1, ReadInvariant, PTL

\* stats never reports more IMSIs than events unless a clear comes between
\* its two counts (the stores' stats methods).
THEOREM StatsAreInOrder == Spec => []StatsInOrder
<1>1. IInv => StatsInOrder
    BY DEF IInv, Stats
<1> QED BY <1>1, ReadInvariant, PTL
=============================================================================
