--------------------------- MODULE TableLocks_proofs ---------------------------
(***************************************************************************)
(* Proofs about TableLocks, for any writers, IMSIs and number of copies.   *)
(*                                                                         *)
(* Writers take the rows of a latest table in ascending order, so one that *)
(* waits for another waits for a row below all that the other has yet to   *)
(* take: no circle closes without a clear.  The projector excludes a clear *)
(* by its own lock and conflicts with nothing else.                        *)
(***************************************************************************)
EXTENDS TableLocks, FiniteSetTheorems, SequenceTheorems, TLAPS

Tables == {"ue_events", "ue_events_history", "cqrs_write_latest", "cqrs_write_history",
           "cqrs_outbox"}
Modes == {"AccessShare", "RowExclusive", "AccessExclusive", "Row"}
AnyLock == [table : Tables, row : Nat, mode : Modes]
Shared == {l \in AnyLock : l.mode # "AccessExclusive"}

\* The locks a process may come to take.
Kind(p) ==
    IF p = Clear THEN {l \in AnyLock : l.row = 0 /\ l.mode = "AccessExclusive"}
    ELSE IF p = Drain THEN {l \in Shared : l.row = 0}
    ELSE Shared

Types ==
    /\ script \in [Processes -> Seq(AnyLock)] /\ held \in [Processes -> SUBSET AnyLock]
    /\ \A p \in Processes : script[p] \in Seq(Kind(p)) /\ held[p] \subseteq Kind(p)

\* A process outside a transaction has and wants no locks.
Idle == \A p \in Processes \ running : script[p] = <<>> /\ held[p] = {}

\* a and b are rows of one table, a before b.
Below(a, b) == a.row # 0 /\ b.row # 0 => a.table = b.table /\ a.row < b.row

\* The rows a process holds and those it has yet to take come in ascending order.
Ascending(p) ==
    /\ \A i, j \in 1 .. Len(script[p]) : i < j => Below(script[p][i], script[p][j])
    /\ \A l \in held[p], j \in 1 .. Len(script[p]) : Below(l, script[p][j])

\* Clear and Drain run with the projector's lock, through their statements.
Stages ==
    /\ \A p \in {Clear, Drain} : p \in running => owner = p
    /\ owner = "none" => stage = 0
    /\ \A p \in {Clear, Drain} :
          owner = p => stage \in Nat /\ stage + 1 <= Len(Statements(p))

\* A TRUNCATE takes the locks of all its tables.
Together ==
    Clear \in running => held[Clear] \cup Range(script[Clear]) = Range(Truncates[stage + 1])

TablesType == DOMAIN latest = Models /\ DOMAIN history = Models

IInv ==
    /\ Types /\ Idle /\ (\A w \in Writers : Ascending(w))
    /\ Stages /\ Together /\ TablesType /\ LatestHasHistory

-----------------------------------------------------------------------------
(***************************************************************************)
(* The transactions.                                                       *)
(***************************************************************************)
\* Clear, Drain and the writers are different processes.
LEMMA ProcessesDiffer ==
    /\ Clear # Drain /\ Clear # "none" /\ Drain # "none"
    /\ \A w \in Writers : w # Clear /\ w # Drain
BY LocksAssumption DEF Clear, Drain

\* A lock on a table.
LEMMA TableLockType ==
    ASSUME NEW t \in Tables, NEW m \in Modes
    PROVE  /\ OnTable(t, m) \in AnyLock
           /\ OnTable(t, m).row = 0 /\ OnTable(t, m).mode = m /\ OnTable(t, m).table = t
BY DEF OnTable, Lock, AnyLock

\* What Clear and Drain run: two and three statements.
LEMMA StatementsType ==
    /\ Len(Truncates) = 2 /\ Len(DrainStatements) = 3
    /\ \A p \in {Clear, Drain} : Len(Statements(p)) \in {2, 3}
    /\ \A p \in {Clear, Drain} : \A i \in 1 .. Len(Statements(p)) :
          Statements(p)[i] \in Seq(Kind(p))
<1>1. \A t \in Tables : OnTable(t, "AccessExclusive") \in Kind(Clear)
    BY TableLockType DEF Kind, Modes
<1>2. \A t \in Tables, m \in {"AccessShare", "RowExclusive"} : OnTable(t, m) \in Kind(Drain)
    BY TableLockType, ProcessesDiffer DEF Kind, Shared, Modes
<1>3. /\ Len(Truncates) = 2
      /\ Truncates[1] = <<OnTable("ue_events", "AccessExclusive"),
                          OnTable("ue_events_history", "AccessExclusive")>>
      /\ Truncates[2] = <<OnTable("cqrs_write_latest", "AccessExclusive"),
                          OnTable("cqrs_write_history", "AccessExclusive"),
                          OnTable(Outbox, "AccessExclusive")>>
    BY DEF Truncates
<1>4. /\ Len(DrainStatements) = 3
      /\ DrainStatements[1] = <<OnTable(Outbox, "AccessShare")>>
      /\ DrainStatements[2] = <<OnTable(Outbox, "AccessShare"),
                                OnTable("cqrs_write_history", "AccessShare")>>
      /\ DrainStatements[3] = <<OnTable(Outbox, "RowExclusive")>>
    BY DEF DrainStatements
<1>5. Outbox \in Tables  BY DEF Outbox, Tables
<1>6. Truncates[1] \in Seq(Kind(Clear)) /\ Truncates[2] \in Seq(Kind(Clear))
    <2>1. {"ue_events", "ue_events_history", "cqrs_write_latest", "cqrs_write_history"}
             \subseteq Tables
        BY DEF Tables
    <2> QED  BY <2>1, <1>1, <1>3, <1>5
<1>7. /\ DrainStatements[1] \in Seq(Kind(Drain)) /\ DrainStatements[2] \in Seq(Kind(Drain))
      /\ DrainStatements[3] \in Seq(Kind(Drain))
    <2>1. "cqrs_write_history" \in Tables  BY DEF Tables
    <2> QED  BY <2>1, <1>2, <1>4, <1>5
<1>8. Statements(Clear) = Truncates /\ Statements(Drain) = DrainStatements
    BY ProcessesDiffer DEF Statements
<1>9. \A i \in 1 .. Len(Truncates) : Truncates[i] \in Seq(Kind(Clear))
    <2>1. \A i \in 1 .. Len(Truncates) : i = 1 \/ i = 2  BY <1>3
    <2> QED  BY <2>1, <1>6
<1>10. \A i \in 1 .. Len(DrainStatements) : DrainStatements[i] \in Seq(Kind(Drain))
    <2>1. \A i \in 1 .. Len(DrainStatements) : i = 1 \/ i = 2 \/ i = 3  BY <1>4
    <2> QED  BY <2>1, <1>7
<1> QED  BY <1>3, <1>4, <1>8, <1>9, <1>10

\* The order in which an upsert reaches its rows.
LEMMA OrderType ==
    ASSUME NEW order \in Orders
    PROVE  \E n \in Nat : order \in [1 .. n -> Imsis]
<1>1. Cardinality(Imsis) \in Nat  BY LocksAssumption, FS_CardinalityType
<1> QED  BY <1>1 DEF Orders

\* A copyIn locks rows of one table, in ascending order, and tables.
LEMMA CopyInLocks ==
    ASSUME NEW model \in Models, NEW order \in Orders, ByImsi(order)
    PROVE  /\ CopyIn(model, order) \in Seq(Shared)
           /\ \A i, j \in 1 .. Len(CopyIn(model, order)) :
                 i < j => Below(CopyIn(model, order)[i], CopyIn(model, order)[j])
<1> DEFINE T == Latest[model]
           R == RowsOf(T, order)
           A == <<OnTable(History[model], "RowExclusive")>>
           B == <<OnTable(T, "RowExclusive")>>
           C == IF model = "CQRS" THEN <<OnTable(Outbox, "RowExclusive")>> ELSE <<>>
<1>1. PICK n \in Nat : order \in [1 .. n -> Imsis]  BY OrderType
<1>2. T \in Tables /\ History[model] \in Tables /\ Outbox \in Tables
    BY DEF Models, Latest, History, Outbox, Tables
<1>3. \A i \in 1 .. n : order[i] \in Nat /\ order[i] # 0
    BY <1>1, LocksAssumption
<1>4. R \in [1 .. n -> Shared] /\ \A i \in 1 .. n : R[i].table = T /\ R[i].row = order[i]
    BY <1>1, <1>2, <1>3 DEF RowsOf, Lock, Shared, AnyLock, Modes
<1>5. R \in Seq(Shared) /\ Len(R) = n
    <2>1. R \in Seq(Shared)  BY <1>4, SeqDef
    <2>2. DOMAIN R = 1 .. n  BY <1>4
    <2> HIDE DEF R
    <2> QED  BY <2>1, <2>2, LenProperties
<1>6. /\ A \in Seq(Shared) /\ Len(A) = 1 /\ A[1].row = 0
      /\ B \in Seq(Shared) /\ Len(B) = 1 /\ B[1].row = 0
    <2>1. \A t \in Tables : OnTable(t, "RowExclusive") \in Shared
                            /\ OnTable(t, "RowExclusive").row = 0
        BY TableLockType DEF Shared, Modes
    <2> QED  BY <1>2, <2>1
<1>7. C \in Seq(Shared) /\ \A i \in 1 .. Len(C) : C[i].row = 0
    <2>1. OnTable(Outbox, "RowExclusive") \in Shared /\ OnTable(Outbox, "RowExclusive").row = 0
        BY <1>2, TableLockType DEF Shared, Modes
    <2>2. CASE model = "CQRS"
        BY <2>1, <2>2
    <2>3. CASE model # "CQRS"
        BY <2>3
    <2> QED  BY <2>2, <2>3
<1>8. CopyIn(model, order) = (A \o (B \o R)) \o C
    BY DEF CopyIn, UpsertLatest
<1> HIDE DEF A, B, C, R, T
<1> DEFINE BR == B \o R
           ABR == A \o BR
           S == ABR \o C
<1>9. /\ BR \in Seq(Shared) /\ Len(BR) = n + 1
      /\ \A i \in 1 .. n + 1 : BR[i] = IF i <= 1 THEN B[i] ELSE R[i - 1]
    <2>1. /\ BR \in Seq(Shared) /\ Len(BR) = Len(B) + Len(R)
          /\ \A i \in 1 .. Len(B) + Len(R) :
                BR[i] = IF i <= Len(B) THEN B[i] ELSE R[i - Len(B)]
        <3>1. B \in Seq(Shared) /\ R \in Seq(Shared)  BY <1>5, <1>6
        <3> QED  BY <3>1, ConcatProperties
    <2> HIDE DEF BR
    <2>2. Len(B) = 1 /\ Len(R) = n /\ Len(B) + Len(R) = n + 1  BY <1>5, <1>6
    <2> QED  BY <2>1, <2>2
<1> HIDE DEF BR
<1>10. /\ ABR \in Seq(Shared) /\ Len(ABR) = n + 2
       /\ \A i \in 1 .. n + 2 : ABR[i] = IF i <= 1 THEN A[i] ELSE BR[i - 1]
    <2>1. /\ ABR \in Seq(Shared) /\ Len(ABR) = Len(A) + Len(BR)
          /\ \A i \in 1 .. Len(A) + Len(BR) :
                ABR[i] = IF i <= Len(A) THEN A[i] ELSE BR[i - Len(A)]
        <3>1. A \in Seq(Shared) /\ BR \in Seq(Shared)  BY <1>6, <1>9
        <3> QED  BY <3>1, ConcatProperties
    <2> HIDE DEF ABR
    <2>2. Len(A) = 1 /\ Len(BR) = n + 1 /\ Len(A) + Len(BR) = n + 2  BY <1>6, <1>9
    <2> QED  BY <2>1, <2>2
<1> HIDE DEF ABR
<1>11. Len(C) \in Nat  BY <1>7, LenProperties
<1>12. /\ S \in Seq(Shared) /\ Len(S) = n + 2 + Len(C)
       /\ \A i \in 1 .. Len(S) : S[i] = IF i <= n + 2 THEN ABR[i] ELSE C[i - (n + 2)]
    <2>1. /\ S \in Seq(Shared) /\ Len(S) = Len(ABR) + Len(C)
          /\ \A i \in 1 .. Len(ABR) + Len(C) :
                S[i] = IF i <= Len(ABR) THEN ABR[i] ELSE C[i - Len(ABR)]
        <3>1. ABR \in Seq(Shared) /\ C \in Seq(Shared)  BY <1>7, <1>10
        <3> QED  BY <3>1, ConcatProperties
    <2> HIDE DEF S
    <2>2. Len(ABR) = n + 2  BY <1>10
    <2> QED  BY <2>1, <2>2
<1> HIDE DEF S
<1>13. ASSUME NEW i \in 1 .. Len(S), S[i].row # 0
       PROVE  i - 2 \in 1 .. n /\ S[i] = R[i - 2]
    <2>1. i <= n + 2
        <3> SUFFICES ASSUME ~ (i <= n + 2) PROVE FALSE  OBVIOUS
        <3>1. S[i] = C[i - (n + 2)] /\ i - (n + 2) \in 1 .. Len(C)  BY <1>11, <1>12
        <3> QED  BY <3>1, <1>7, <1>13
    <2>2. S[i] = ABR[i] /\ i \in 1 .. n + 2  BY <2>1, <1>12, <1>11
    <2>3. i # 1  BY <2>2, <1>10, <1>6, <1>13
    <2>4. S[i] = BR[i - 1] /\ i - 1 \in 1 .. n + 1  BY <2>2, <2>3, <1>10
    <2>5. i # 2  BY <2>4, <1>9, <1>6, <1>13
    <2> QED  BY <2>2, <2>3, <2>4, <2>5, <1>9
<1>14. ASSUME NEW i \in 1 .. Len(S), NEW j \in 1 .. Len(S), i < j,
              S[i].row # 0, S[j].row # 0
       PROVE  S[i].table = S[j].table /\ S[i].row < S[j].row
    <2>1. i - 2 \in 1 .. n /\ S[i] = R[i - 2] /\ j - 2 \in 1 .. n /\ S[j] = R[j - 2]
        BY <1>13, <1>14
    <2>2. i - 2 < j - 2  BY <1>14, <1>11, <1>12
    <2>3. order[i - 2] < order[j - 2]
        BY <2>1, <2>2, <1>1 DEF ByImsi
    <2> QED  BY <2>1, <2>3, <1>4
<1>15. CopyIn(model, order) = S  BY <1>8 DEF S, ABR, BR
<1> QED  BY <1>12, <1>14, <1>15 DEF Below

-----------------------------------------------------------------------------
(***************************************************************************)
(* Who waits for whom.                                                     *)
(***************************************************************************)
\* A process that waits is inside a transaction and has a lock to take.
LEMMA WaitingIsRunning ==
    ASSUME Idle, NEW p \in Processes, Blockers(p) # {}
    PROVE  p \in running /\ script[p] # <<>>
BY DEF Idle, Blockers

\* A deadlocked process waits.
LEMMA DeadlockedWaits ==
    ASSUME NEW p \in Deadlocked
    PROVE  p \in Processes /\ Blockers(p) # {}
<1>1. p \in Processes /\ WaitsForItself(p)  BY DEF Deadlocked
<1>2. SUFFICES ASSUME Blockers(p) = {} PROVE FALSE  BY <1>1
<1>3. p \in {}  BY <1>1, <1>2 DEF WaitsForItself
<1> QED  BY <1>3

\* The next lock of a process, and what the process holds, are of its kind.
LEMMA LocksOfKind ==
    ASSUME Types, NEW p \in Processes
    PROVE  /\ script[p] # <<>> => /\ Head(script[p]) \in Kind(p)
                                  /\ Head(script[p]) = script[p][1]
                                  /\ Len(script[p]) \in Nat /\ Len(script[p]) >= 1
           /\ held[p] \subseteq Kind(p)
           /\ Kind(p) \subseteq AnyLock
<1>1. script[p] \in Seq(Kind(p)) /\ held[p] \subseteq Kind(p)  BY DEF Types
<1>2. Kind(p) \subseteq AnyLock  BY DEF Kind, Shared
<1>3. ASSUME script[p] # <<>>
      PROVE  /\ Head(script[p]) \in Kind(p) /\ Head(script[p]) = script[p][1]
             /\ Len(script[p]) \in Nat /\ Len(script[p]) >= 1
    <2>1. Len(script[p]) \in Nat \ {0}  BY <1>1, <1>3, EmptySeq
    <2>2. Head(script[p]) \in Kind(p)  BY <1>1, <1>3, HeadTailProperties
    <2>3. Head(script[p]) = script[p][1]  BY <1>1, <1>3
    <2> QED  BY <2>1, <2>2, <2>3
<1> QED  BY <1>1, <1>2, <1>3

\* Nothing but a TRUNCATE and a row keeps anyone waiting.
LEMMA WhoBlocks ==
    ASSUME Types, NEW p \in Processes, NEW q \in Blockers(p)
    PROVE  /\ q \in Processes /\ q # p /\ script[p] # <<>>
           /\ \/ q = Clear \/ p = Clear
              \/ /\ p \in Writers /\ q \in Writers
                 /\ \E l \in held[q] :
                       /\ l \in AnyLock /\ l.row # 0
                       /\ l.table = Head(script[p]).table /\ l.row = Head(script[p]).row
<1>1. /\ script[p] # <<>> /\ q \in Processes /\ q # p
      /\ \E l \in held[q] : Conflict(l, Head(script[p]))
    BY DEF Blockers
<1>2. PICK l \in held[q] : Conflict(l, Head(script[p]))  BY <1>1
<1> DEFINE h == Head(script[p])
<1>3. h \in Kind(p) /\ l \in Kind(q) /\ h \in AnyLock /\ l \in AnyLock
    BY <1>1, LocksOfKind
<1>4. ASSUME p # Clear, q # Clear
      PROVE  /\ p \in Writers /\ q \in Writers
             /\ l.row # 0 /\ l.table = h.table /\ l.row = h.row
    <2>1. h.mode # "AccessExclusive" /\ l.mode # "AccessExclusive"
        BY <1>3, <1>4 DEF Kind, Shared
    <2>2. l.row # 0 /\ l.table = h.table /\ l.row = h.row
        BY <1>2, <2>1 DEF Conflict
    <2>3. p # Drain /\ q # Drain
        BY <1>3, <1>4, <2>2 DEF Kind
    <2> QED  BY <1>1, <1>4, <2>2, <2>3 DEF Processes
<1> QED  BY <1>1, <1>3, <1>4

\* The projector waits for nobody: it only conflicts with a clear, which its
\* lock excludes.
LEMMA DrainNeverWaits ==
    ASSUME IInv
    PROVE  Blockers(Drain) = {}
<1> SUFFICES ASSUME NEW q \in Blockers(Drain) PROVE FALSE  OBVIOUS
<1>1. Types /\ Idle /\ Stages /\ Drain \in Processes  BY DEF IInv, Processes
<1>2. q = Clear
    BY <1>1, WhoBlocks, ProcessesDiffer
<1>3. held[Clear] # {} /\ Clear \in Processes
    BY <1>2 DEF Blockers
<1>4. Clear \in running
    BY <1>1, <1>3 DEF Idle
<1>5. Drain \in running
    BY <1>1, WaitingIsRunning
<1> QED  BY <1>1, <1>4, <1>5, ProcessesDiffer DEF Stages

\* Writers whose next lock is no row, or a row of the table of h above it.
Later(h) ==
    {q \in Writers :
        script[q] # <<>> /\ Head(script[q]).row # 0
            => /\ h.row # 0 /\ Head(script[q]).table = h.table
               /\ Head(script[q]).row > h.row}

\* Whoever has the row that another writer waits for is later than that one.
LEMMA BlockersAreLater ==
    ASSUME IInv, NEW p \in Writers, NEW q \in Writers, NEW l \in held[q],
           script[p] # <<>>, l.row # 0,
           l.table = Head(script[p]).table, l.row = Head(script[p]).row
    PROVE  q \in Later(Head(script[p]))
<1>1. Types /\ Ascending(q) /\ p \in Processes /\ q \in Processes
    BY DEF IInv, Processes
<1>2. SUFFICES ASSUME script[q] # <<>>, Head(script[q]).row # 0
              PROVE  /\ Head(script[p]).row # 0
                     /\ Head(script[q]).table = Head(script[p]).table
                     /\ Head(script[q]).row > Head(script[p]).row
    BY DEF Later
<1>3. /\ Head(script[q]) = script[q][1] /\ Len(script[q]) \in Nat /\ Len(script[q]) >= 1
      /\ Head(script[q]) \in AnyLock /\ l \in AnyLock
    BY <1>1, <1>2, LocksOfKind
<1>4. Below(l, Head(script[q]))
    BY <1>1, <1>3 DEF Ascending
<1> QED  BY <1>2, <1>3, <1>4 DEF Below, AnyLock

\* A circle that has a process of ours in it has a clear in it.
LEMMA CircleHasClear ==
    ASSUME IInv, NEW p \in Writers, p \in Deadlocked
    PROVE  Clear \in Deadlocked
<1>1. /\ Types /\ p \in Processes /\ Clear \in Processes /\ WaitsForItself(p)
      /\ Blockers(p) # {}
    BY DeadlockedWaits DEF IInv, Processes, Deadlocked
<1>2. SUFFICES ASSUME ~ WaitsForItself(Clear) PROVE FALSE
    BY <1>1 DEF Deadlocked
<1>3. PICK S \in SUBSET Processes :
         /\ Blockers(Clear) \subseteq S /\ \A q \in S : Blockers(q) \subseteq S
         /\ Clear \notin S
    BY <1>2 DEF WaitsForItself
<1> DEFINE h == Head(script[p])
           L == IF h.row = 0 THEN {} ELSE Later(h)
<1>4. script[p] # <<>> /\ h \in AnyLock
    BY <1>1, WhoBlocks, LocksOfKind
<1>5. p \notin L
    BY <1>4 DEF Later, AnyLock
<1>6. L \subseteq Processes \ {Clear}
    BY ProcessesDiffer DEF Later, Processes
<1>7. Blockers(p) \subseteq {Clear} \cup L
    <2> SUFFICES ASSUME NEW q \in Blockers(p), q # Clear PROVE q \in L
        OBVIOUS
    <2>1. PICK l \in held[q] : /\ l \in AnyLock /\ l.row # 0 /\ q \in Writers
                               /\ l.table = h.table /\ l.row = h.row
        BY <1>1, WhoBlocks, ProcessesDiffer
    <2>2. q \in Later(h)
        BY <2>1, <1>4, BlockersAreLater
    <2> QED  BY <2>1, <2>2
<1>8. ASSUME NEW q \in L
      PROVE  Blockers(q) \subseteq {Clear} \cup L
    <2>1. h.row # 0 /\ L = Later(h) /\ q \in Later(h) /\ q \in Writers /\ q \in Processes
        BY <1>8 DEF Later, Processes
    <2> SUFFICES ASSUME NEW x \in Blockers(q), x # Clear PROVE x \in Later(h)
        BY <2>1
    <2> DEFINE g == Head(script[q])
    <2>2. PICK l \in held[x] : /\ l \in AnyLock /\ l.row # 0 /\ x \in Writers
                               /\ l.table = g.table /\ l.row = g.row
        BY <1>1, <2>1, WhoBlocks, ProcessesDiffer
    <2>3. script[q] # <<>> /\ g \in AnyLock
        BY <1>1, <2>1, WhoBlocks, LocksOfKind
    <2>4. x \in Later(g)
        BY <2>1, <2>2, <2>3, BlockersAreLater
    <2>5. g.table = h.table /\ g.row > h.row
        BY <2>1, <2>2, <2>3 DEF Later
    <2>6. x \in Writers /\ x \in Processes  BY <2>2 DEF Processes
    <2>7. CASE script[x] # <<>> /\ Head(script[x]).row # 0
        <3>1. Head(script[x]).table = g.table /\ Head(script[x]).row > g.row
            BY <2>4, <2>7 DEF Later
        <3>2. Head(script[x]) \in AnyLock
            BY <1>1, <2>6, <2>7, LocksOfKind
        <3>3. Head(script[x]).row > h.row
            BY <1>4, <2>3, <2>5, <3>1, <3>2 DEF AnyLock
        <3> QED  BY <2>1, <2>5, <2>6, <3>1, <3>3 DEF Later
    <2>8. CASE ~ (script[x] # <<>> /\ Head(script[x]).row # 0)
        BY <2>6, <2>8 DEF Later
    <2> QED  BY <2>7, <2>8
<1> HIDE DEF L, h
<1>9. CASE p \in S
    <2> DEFINE T == S \cap L
    <2>1. Blockers(p) \subseteq T  BY <1>3, <1>7, <1>9
    <2>2. \A q \in T : Blockers(q) \subseteq T  BY <1>3, <1>8
    <2>3. T \in SUBSET Processes  BY <1>3
    <2> QED  BY <1>1, <1>5, <2>1, <2>2, <2>3 DEF WaitsForItself
<1>10. CASE p \notin S
    <2> DEFINE T == S \cup {Clear} \cup L
    <2>1. Blockers(p) \subseteq T  BY <1>7
    <2>2. \A q \in T : Blockers(q) \subseteq T  BY <1>3, <1>8
    <2>3. T \in SUBSET Processes  BY <1>1, <1>3, <1>6
    <2>4. p \notin T  BY <1>5, <1>10, ProcessesDiffer
    <2> QED  BY <1>1, <2>1, <2>2, <2>3, <2>4 DEF WaitsForItself
<1> QED  BY <1>9, <1>10

\* So the invariant makes deadlocks a matter of clears.
LEMMA DeadlocksHaveClear == IInv => OnlyClearsDeadlock
<1> SUFFICES ASSUME IInv, NEW p \in Deadlocked
            PROVE  Clear \in Deadlocked /\ Drain \notin Deadlocked
    BY DEF OnlyClearsDeadlock
<1>1. Drain \notin Deadlocked
    BY DrainNeverWaits, DeadlockedWaits
<1>2. p = Clear \/ p \in Writers
    BY <1>1, DeadlockedWaits DEF Processes
<1> QED  BY <1>1, <1>2, CircleHasClear

-----------------------------------------------------------------------------
(***************************************************************************)
(* What a step changes and leaves alone.                                   *)
(***************************************************************************)
\* p comes to have the locks H and the locks s before it, the others stay.
Becomes(p, s, H) == script' = [script EXCEPT ![p] = s] /\ held' = [held EXCEPT ![p] = H]

LEMMA OneChanges ==
    ASSUME Types, NEW p \in Processes, NEW s \in Seq(Kind(p)), NEW H \in SUBSET Kind(p),
           Becomes(p, s, H)
    PROVE  /\ Types' /\ script'[p] = s /\ held'[p] = H
           /\ \A q \in Processes \ {p} : script'[q] = script[q] /\ held'[q] = held[q]
<1>1. Kind(p) \subseteq AnyLock  BY DEF Kind, Shared
<1>2. s \in Seq(AnyLock) /\ H \subseteq AnyLock  BY <1>1, SeqMonotonic
<1>3. /\ script' \in [Processes -> Seq(AnyLock)] /\ held' \in [Processes -> SUBSET AnyLock]
      /\ script'[p] = s /\ held'[p] = H
      /\ \A q \in Processes \ {p} : script'[q] = script[q] /\ held'[q] = held[q]
    BY <1>2 DEF Types, Becomes
<1>4. \A q \in Processes : script'[q] \in Seq(Kind(q)) /\ held'[q] \subseteq Kind(q)
    BY <1>3 DEF Types
<1> QED  BY <1>3, <1>4 DEF Types

\* The order in which a process takes its rows depends on its own locks only.
LEMMA SameOrder ==
    ASSUME NEW q, Ascending(q), script'[q] = script[q], held'[q] = held[q]
    PROVE  Ascending(q)'
BY DEF Ascending

\* Nothing in the order of a process without locks can be wrong.
LEMMA EmptyOrder ==
    ASSUME NEW q, script'[q] = <<>>
    PROVE  Ascending(q)'
<1>1. Len(<<>>) = 0  OBVIOUS
<1> QED  BY <1>1 DEF Ascending

\* The invariant at the beginning.
LEMMA InitIInv == Init => IInv
<1> SUFFICES ASSUME Init PROVE IInv  OBVIOUS
<1>1. script = [p \in Processes |-> <<>>] /\ held = [p \in Processes |-> {}]  BY DEF Init
<1>2. \A S : <<>> \in Seq(S)  BY EmptySeq
<1>3. Types  BY <1>1, <1>2 DEF Types
<1>4. Idle  BY <1>1 DEF Idle
<1>5. \A w \in Writers : Ascending(w)
    <2>1. Len(<<>>) = 0  OBVIOUS
    <2>2. \A w \in Writers : w \in Processes  BY DEF Processes
    <2> QED  BY <1>1, <2>1, <2>2 DEF Ascending
<1>6. Stages  BY ProcessesDiffer DEF Init, Stages
<1>7. Together /\ TablesType /\ LatestHasHistory
    BY DEF Init, Together, TablesType, LatestHasHistory
<1> QED  BY <1>3, <1>4, <1>5, <1>6, <1>7 DEF IInv

\* A copy that begins keeps the invariant.
LEMMA BeginCopyStep ==
    ASSUME IInv, NEW w \in Writers, NEW model \in Models, NEW order \in Orders,
           BeginCopy(w, model, order)
    PROVE  IInv'
<1> DEFINE s == CopyIn(model, order)
<1>1. /\ w \notin running /\ running' = running \cup {w} /\ ByImsi(order)
      /\ script' = [script EXCEPT ![w] = s] /\ held' = held
      /\ owner' = owner /\ stage' = stage /\ latest' = latest /\ history' = history
    BY DEF BeginCopy, Begin, tables
<1>2. w \in Processes /\ w # Clear /\ w # Drain /\ Clear \in Processes
    BY ProcessesDiffer DEF Processes
<1>3. held[w] = {} /\ held \in [Processes -> SUBSET AnyLock]
    BY <1>1, <1>2 DEF IInv, Idle, Types
<1>4. Kind(w) = Shared  BY <1>2 DEF Kind
<1>5. s \in Seq(Kind(w)) /\ Types  BY <1>1, <1>4, CopyInLocks DEF IInv
<1>6. Becomes(w, s, {})  BY <1>1, <1>2, <1>3 DEF Becomes
<1> HIDE DEF s
<1>7. /\ Types' /\ script'[w] = s /\ held'[w] = {}
      /\ \A q \in Processes \ {w} : script'[q] = script[q] /\ held'[q] = held[q]
    BY <1>2, <1>5, <1>6, OneChanges
<1>8. Idle'  BY <1>1, <1>7 DEF IInv, Idle
<1>9. ASSUME NEW v \in Writers PROVE Ascending(v)'
    <2>1. CASE v = w
        <3>1. \A i, j \in 1 .. Len(s) : i < j => Below(s[i], s[j])
            BY <1>1, CopyInLocks DEF s
        <3> QED  BY <2>1, <3>1, <1>7 DEF Ascending, Below
    <2>2. CASE v # w
        BY <2>2, <1>7, SameOrder DEF IInv, Processes
    <2> QED  BY <2>1, <2>2
<1>10. Stages'  BY <1>1, <1>2 DEF IInv, Stages
<1>11. Together'  BY <1>1, <1>2, <1>7 DEF IInv, Together
<1>12. TablesType' /\ LatestHasHistory'
    BY <1>1 DEF IInv, TablesType, LatestHasHistory
<1> QED  BY <1>7, <1>8, <1>9, <1>10, <1>11, <1>12 DEF IInv

\* A clear or a drain that begins.
LEMMA BeginCallStep ==
    ASSUME IInv, NEW p \in {Clear, Drain}, BeginCall(p)
    PROVE  IInv'
<1> DEFINE s == Statements(p)[1]
<1>1. /\ owner = "none" /\ owner' = p /\ running' = running \cup {p}
      /\ script' = [script EXCEPT ![p] = s] /\ held' = held
      /\ stage' = stage /\ latest' = latest /\ history' = history
    BY DEF BeginCall, Begin, tables
<1>2. p \in Processes /\ Clear \in Processes /\ p \notin Writers /\ p # "none"
    BY ProcessesDiffer DEF Processes
<1>3. stage = 0 /\ Clear \notin running /\ Drain \notin running
    BY <1>1, ProcessesDiffer DEF IInv, Stages
<1>4. held[p] = {} /\ held \in [Processes -> SUBSET AnyLock]
    BY <1>2, <1>3 DEF IInv, Idle, Types
<1>5. Len(Statements(p)) \in {2, 3} /\ s \in Seq(Kind(p)) /\ Types
    <2>1. Len(Statements(p)) \in {2, 3}  BY StatementsType
    <2>2. 1 \in 1 .. Len(Statements(p))  BY <2>1
    <2> QED  BY <2>1, <2>2, StatementsType DEF IInv
<1>6. Becomes(p, s, {})  BY <1>1, <1>2, <1>4 DEF Becomes
<1>7. p = Clear => s = Truncates[1]  BY DEF Statements
<1> HIDE DEF s
<1>8. /\ Types' /\ script'[p] = s /\ held'[p] = {}
      /\ \A q \in Processes \ {p} : script'[q] = script[q] /\ held'[q] = held[q]
    BY <1>2, <1>5, <1>6, OneChanges
<1>9. Idle'  BY <1>1, <1>8 DEF IInv, Idle
<1>10. \A v \in Writers : Ascending(v)'
    BY <1>2, <1>8, SameOrder DEF IInv, Processes
<1>11. Stages'
    <2>1. \A q \in {Clear, Drain} : q \in running' => q = p  BY <1>1, <1>3
    <2>2. \A q \in {Clear, Drain} : owner' = q => q = p  BY <1>1
    <2>3. stage' \in Nat /\ stage' + 1 <= Len(Statements(p))  BY <1>1, <1>3, <1>5
    <2>4. owner' # "none"  BY <1>1, <1>2
    <2> QED  BY <1>1, <2>1, <2>2, <2>3, <2>4 DEF Stages
<1>12. Together'
    <2>1. CASE p = Clear
        <3>1. stage' + 1 = 1  BY <1>1, <1>3
        <3> QED  BY <2>1, <3>1, <1>7, <1>8 DEF Together
    <2>2. CASE p # Clear
        BY <2>2, <1>1, <1>3 DEF Together
    <2> QED  BY <2>1, <2>2
<1>13. TablesType' /\ LatestHasHistory'
    BY <1>1 DEF IInv, TablesType, LatestHasHistory
<1> QED  BY <1>8, <1>9, <1>10, <1>11, <1>12, <1>13 DEF IInv

\* A lock that is granted.
LEMMA AcquireStep ==
    ASSUME IInv, NEW p \in Processes, Acquire(p)
    PROVE  IInv'
<1> DEFINE h == Head(script[p])
           t == Tail(script[p])
           H == held[p] \cup {h}
<1>1. /\ script[p] # <<>>
      /\ held' = [held EXCEPT ![p] = H] /\ script' = [script EXCEPT ![p] = t]
      /\ running' = running /\ owner' = owner /\ stage' = stage
      /\ latest' = latest /\ history' = history
    <2>1. held' = [held EXCEPT ![p] = H]  BY DEF Acquire, IInv, Types
    <2> QED  BY <2>1 DEF Acquire, tables
<1>2. Types /\ script[p] \in Seq(Kind(p)) /\ held[p] \subseteq Kind(p)
    BY DEF IInv, Types
<1>3. /\ h \in Kind(p) /\ t \in Seq(Kind(p)) /\ Len(t) = Len(script[p]) - 1
      /\ \A i \in 1 .. Len(t) : t[i] = script[p][i + 1]
    BY <1>1, <1>2, HeadTailProperties
<1>4. h = script[p][1] /\ Len(script[p]) \in Nat /\ Len(script[p]) >= 1
    BY <1>1, <1>2, LocksOfKind
<1>5. Becomes(p, t, H) /\ H \in SUBSET Kind(p)  BY <1>1, <1>2, <1>3 DEF Becomes
<1>6. p \in running  BY <1>1 DEF IInv, Idle
<1>7. Range(script[p]) = {h} \cup Range(t)
    <2>1. Range(script[p]) = {script[p][i] : i \in 1 .. Len(script[p])}
        BY <1>2, RangeEquality
    <2>2. Range(t) = {t[i] : i \in 1 .. Len(t)}
        BY <1>3, RangeEquality
    <2>3. ASSUME NEW i \in 1 .. Len(script[p])
          PROVE  script[p][i] \in {h} \cup Range(t)
        <3>1. CASE i = 1  BY <3>1, <1>4
        <3>2. CASE i # 1
            <4>1. i - 1 \in 1 .. Len(t) /\ (i - 1) + 1 = i  BY <3>2, <1>3, <1>4
            <4>2. t[i - 1] = script[p][i]  BY <4>1, <1>3
            <4> QED  BY <4>1, <4>2, <2>2
        <3> QED  BY <3>1, <3>2
    <2>4. h \in Range(script[p])
        <3>1. 1 \in 1 .. Len(script[p])  BY <1>4
        <3> QED  BY <3>1, <2>1, <1>4
    <2>5. ASSUME NEW i \in 1 .. Len(t) PROVE t[i] \in Range(script[p])
        <3>1. i + 1 \in 1 .. Len(script[p]) /\ t[i] = script[p][i + 1]  BY <1>3, <1>4
        <3> QED  BY <3>1, <2>1
    <2> HIDE DEF h, t
    <2>6. Range(script[p]) \subseteq {h} \cup Range(t)  BY <2>1, <2>3
    <2>7. Range(t) \subseteq Range(script[p])  BY <2>2, <2>5
    <2> QED  BY <2>4, <2>6, <2>7
<1> HIDE DEF h, t, H
<1>8. /\ Types' /\ script'[p] = t /\ held'[p] = H
      /\ \A q \in Processes \ {p} : script'[q] = script[q] /\ held'[q] = held[q]
    BY <1>2, <1>3, <1>5, OneChanges
<1>9. Idle'  BY <1>1, <1>6, <1>8 DEF IInv, Idle
<1>10. ASSUME NEW v \in Writers PROVE Ascending(v)'
    <2>1. CASE v = p
        <3>1. Ascending(p)  BY <2>1 DEF IInv
        <3>2. \A i, j \in 1 .. Len(t) : i < j => Below(t[i], t[j])
            <4> SUFFICES ASSUME NEW i \in 1 .. Len(t), NEW j \in 1 .. Len(t), i < j
                         PROVE  Below(t[i], t[j])
                OBVIOUS
            <4>1. /\ i + 1 \in 1 .. Len(script[p]) /\ j + 1 \in 1 .. Len(script[p])
                  /\ i + 1 < j + 1 /\ t[i] = script[p][i + 1] /\ t[j] = script[p][j + 1]
                BY <1>3, <1>4
            <4>2. Below(script[p][i + 1], script[p][j + 1])  BY <3>1, <4>1 DEF Ascending
            <4> QED  BY <4>1, <4>2
        <3>3. \A l \in H, j \in 1 .. Len(t) : Below(l, t[j])
            <4> SUFFICES ASSUME NEW l \in H, NEW j \in 1 .. Len(t) PROVE Below(l, t[j])
                OBVIOUS
            <4>1. /\ j + 1 \in 1 .. Len(script[p]) /\ 1 \in 1 .. Len(script[p]) /\ 1 < j + 1
                  /\ t[j] = script[p][j + 1]
                BY <1>3, <1>4
            <4>2. CASE l = h
                <5>1. Below(script[p][1], script[p][j + 1])  BY <3>1, <4>1 DEF Ascending
                <5> QED  BY <4>1, <4>2, <5>1, <1>4
            <4>3. CASE l \in held[p]
                <5>1. Below(l, script[p][j + 1])  BY <3>1, <4>1, <4>3 DEF Ascending
                <5> QED  BY <4>1, <5>1
            <4> QED  BY <4>2, <4>3 DEF H
        <3> QED  BY <2>1, <3>2, <3>3, <1>8 DEF Ascending, Below
    <2>2. CASE v # p
        BY <2>2, <1>8, SameOrder DEF IInv, Processes
    <2> QED  BY <2>1, <2>2
<1>11. Stages'  BY <1>1 DEF IInv, Stages
<1>12. Together'
    <2>1. Clear \in Processes  BY DEF Processes
    <2>2. CASE p = Clear
        <3>1. held'[Clear] \cup Range(script'[Clear]) = held[Clear] \cup Range(script[Clear])
            BY <2>2, <1>7, <1>8 DEF H
        <3> QED  BY <3>1, <1>1 DEF IInv, Together
    <2>3. CASE p # Clear
        BY <2>1, <2>3, <1>1, <1>8 DEF IInv, Together
    <2> QED  BY <2>2, <2>3
<1>13. TablesType' /\ LatestHasHistory'
    BY <1>1 DEF IInv, TablesType, LatestHasHistory
<1> QED  BY <1>8, <1>9, <1>10, <1>11, <1>12, <1>13 DEF IInv

\* A process leaves its transaction, by a commit or a rollback.
LEMMA EndStep ==
    ASSUME IInv, NEW p \in Processes, End(p)
    PROVE  /\ Types' /\ Idle' /\ \A v \in Writers : Ascending(v)'
           /\ p # Clear => script'[Clear] = script[Clear] /\ held'[Clear] = held[Clear]
           /\ running' = running \ {p}
<1>1. Becomes(p, <<>>, {}) /\ running' = running \ {p}  BY DEF End, Becomes
<1>2. <<>> \in Seq(Kind(p)) /\ {} \in SUBSET Kind(p) /\ Types  BY EmptySeq DEF IInv
<1>3. /\ Types' /\ script'[p] = <<>> /\ held'[p] = {}
      /\ \A q \in Processes \ {p} : script'[q] = script[q] /\ held'[q] = held[q]
    BY <1>1, <1>2, OneChanges
<1>4. Idle'  BY <1>1, <1>3 DEF IInv, Idle
<1>5. ASSUME NEW v \in Writers PROVE Ascending(v)'
    BY <1>3, SameOrder, EmptyOrder DEF IInv, Processes
<1>6. Clear \in Processes  BY DEF Processes
<1> QED  BY <1>1, <1>3, <1>4, <1>5, <1>6

\* A copy that commits.
LEMMA CommitCopyStep ==
    ASSUME IInv, NEW w \in Writers, CommitCopy(w)
    PROVE  IInv'
<1>1. /\ End(w) /\ owner' = owner /\ stage' = stage
      /\ history' = [history EXCEPT ![work[w].model] = @ \cup work[w].imsis]
      /\ latest' = [latest EXCEPT ![work[w].model] = @ \cup work[w].imsis]
    BY DEF CommitCopy
<1>2. w \in Processes /\ w # Clear /\ w # Drain  BY ProcessesDiffer DEF Processes
<1>3. /\ Types' /\ Idle' /\ \A v \in Writers : Ascending(v)'
      /\ script'[Clear] = script[Clear] /\ held'[Clear] = held[Clear]
      /\ running' = running \ {w}
    BY <1>1, <1>2, EndStep
<1>4. Stages'  BY <1>1, <1>3 DEF IInv, Stages
<1>5. Together'  BY <1>1, <1>3 DEF IInv, Together
<1>6. TablesType'  BY <1>1 DEF IInv, TablesType
<1>7. LatestHasHistory'
    <2> SUFFICES ASSUME NEW m \in Models PROVE latest'[m] \subseteq history'[m]
        BY DEF LatestHasHistory
    <2>1. latest[m] \subseteq history[m] /\ m \in DOMAIN latest /\ m \in DOMAIN history
        BY DEF IInv, LatestHasHistory, TablesType
    <2>2. CASE m = work[w].model  BY <1>1, <2>1, <2>2
    <2>3. CASE m # work[w].model  BY <1>1, <2>1, <2>3
    <2> QED  BY <2>2, <2>3
<1> QED  BY <1>3, <1>4, <1>5, <1>6, <1>7 DEF IInv

\* The tables whose rows go when a statement of p commits.
Gone(p) == {l.table : l \in {l \in held[p] : l.mode = "AccessExclusive"}}

\* Where a model's history goes, its latest table goes too.
LEMMA GoneTogether ==
    ASSUME IInv, NEW p \in {Clear, Drain}, p \in running, script[p] = <<>>, NEW m \in Models
    PROVE  History[m] \in Gone(p) => Latest[m] \in Gone(p)
<1>1. CASE p = Drain
    <2>1. held[p] \subseteq Kind(p)  BY DEF IInv, Types, Processes
    <2>2. Gone(p) = {}  BY <1>1, <2>1, ProcessesDiffer DEF Kind, Shared, Gone
    <2> QED  BY <2>2
<1>2. CASE p = Clear
    <2>1. Range(<<>>) = {}  BY DEF Range
    <2>2. held[Clear] = Range(Truncates[stage + 1])  BY <1>2, <2>1 DEF IInv, Together
    <2>3. stage \in {0, 1}
        <3>1. owner = Clear  BY <1>2 DEF IInv, Stages
        <3>2. stage \in Nat /\ stage + 1 <= Len(Statements(Clear))
            BY <3>1 DEF IInv, Stages
        <3>3. Len(Statements(Clear)) = 2  BY StatementsType DEF Statements
        <3> QED  BY <3>2, <3>3
    <2> DEFINE X(t) == OnTable(t, "AccessExclusive")
    <2>4. \A t : X(t).table = t /\ X(t).mode = "AccessExclusive"  BY DEF OnTable, Lock
    <2>5. CASE stage = 0
        <3>1. Truncates[stage + 1] = <<X("ue_events"), X("ue_events_history")>>
            BY <2>5 DEF Truncates
        <3>2. held[Clear] = {X("ue_events"), X("ue_events_history")}
            BY <2>2, <3>1 DEF Range
        <3> HIDE DEF X
        <3>3. Gone(Clear) = {"ue_events", "ue_events_history"}
            BY <2>4, <3>2 DEF Gone
        <3> QED  BY <3>3, <1>2 DEF Latest, History, Models
    <2>6. CASE stage = 1
        <3>1. Truncates[stage + 1]
                = <<X("cqrs_write_latest"), X("cqrs_write_history"), X(Outbox)>>
            BY <2>6 DEF Truncates
        <3>2. held[Clear] = {X("cqrs_write_latest"), X("cqrs_write_history"), X(Outbox)}
            BY <2>2, <3>1 DEF Range
        <3> HIDE DEF X
        <3>3. Gone(Clear) = {"cqrs_write_latest", "cqrs_write_history", Outbox}
            BY <2>4, <3>2 DEF Gone
        <3> QED  BY <3>3, <1>2 DEF Latest, History, Models, Outbox
    <2> QED  BY <2>3, <2>5, <2>6
<1> QED  BY <1>1, <1>2

\* A statement of Clear or Drain that commits.
LEMMA CommitStatementStep ==
    ASSUME IInv, NEW p \in {Clear, Drain}, CommitStatement(p)
    PROVE  IInv'
<1>1. p \in running /\ script[p] = <<>> /\ held' = [held EXCEPT ![p] = {}]
    BY DEF CommitStatement
<1>2. /\ latest' = [m \in Models |-> IF Latest[m] \in Gone(p) THEN {} ELSE latest[m]]
      /\ history' = [m \in Models |-> IF History[m] \in Gone(p) THEN {} ELSE history[m]]
    BY DEF CommitStatement, Gone
<1>3. p \in Processes /\ Clear \in Processes /\ p \notin Writers
    BY ProcessesDiffer DEF Processes
<1>4. owner = p /\ stage \in Nat /\ stage + 1 <= Len(Statements(p)) /\ owner # "none"
    BY <1>1, ProcessesDiffer DEF IInv, Stages
<1>5. \A q \in {Clear, Drain} : q \in running => q = p
    BY <1>4 DEF IInv, Stages
<1>6. TablesType'  BY <1>2 DEF TablesType
<1>7. LatestHasHistory'
    <2> SUFFICES ASSUME NEW m \in Models PROVE latest'[m] \subseteq history'[m]
        BY DEF LatestHasHistory
    <2>1. latest[m] \subseteq history[m]  BY DEF IInv, LatestHasHistory
    <2>2. History[m] \in Gone(p) => Latest[m] \in Gone(p)
        BY <1>1, GoneTogether
    <2> QED  BY <1>2, <2>1, <2>2
<1>8. CASE /\ stage + 1 < Len(Statements(p)) /\ stage' = stage + 1
           /\ script' = [script EXCEPT ![p] = Statements(p)[stage + 2]]
           /\ running' = running /\ owner' = owner
    <2> DEFINE s == Statements(p)[stage + 2]
    <2>1. stage + 2 \in 1 .. Len(Statements(p)) /\ stage' + 1 = stage + 2
        <3>1. Len(Statements(p)) \in {2, 3}  BY StatementsType
        <3> QED  BY <3>1, <1>4, <1>8
    <2>2. s \in Seq(Kind(p))  BY <2>1, StatementsType
    <2>3. p = Clear => s = Truncates[stage' + 1]  BY <2>1 DEF Statements
    <2>4. Becomes(p, s, {}) /\ Types  BY <1>1, <1>8 DEF Becomes, IInv
    <2> HIDE DEF s
    <2>5. /\ Types' /\ script'[p] = s /\ held'[p] = {}
          /\ \A q \in Processes \ {p} : script'[q] = script[q] /\ held'[q] = held[q]
        BY <1>3, <2>2, <2>4, OneChanges
    <2>6. Idle'  BY <1>1, <1>8, <2>5 DEF IInv, Idle
    <2>7. \A v \in Writers : Ascending(v)'
        BY <1>3, <2>5, SameOrder DEF IInv, Processes
    <2>8. Stages'
        <3>1. \A q \in {Clear, Drain} : q \in running' => owner' = q  BY <1>4, <1>5, <1>8
        <3>2. stage' \in Nat /\ stage' + 1 <= Len(Statements(p))  BY <1>4, <1>8, <2>1
        <3> QED  BY <1>4, <1>8, <3>1, <3>2 DEF Stages
    <2>9. Together'
        BY <1>5, <1>8, <2>3, <2>5 DEF Together
    <2> QED  BY <1>6, <1>7, <2>5, <2>6, <2>7, <2>8, <2>9 DEF IInv
<1>9. CASE /\ stage' = 0 /\ owner' = "none" /\ running' = running \ {p}
           /\ script' = script
    <2>1. Becomes(p, <<>>, {}) /\ Types  BY <1>1, <1>3, <1>9 DEF Becomes, IInv, Types
    <2>2. <<>> \in Seq(Kind(p))  BY EmptySeq
    <2>3. /\ Types' /\ script'[p] = <<>> /\ held'[p] = {}
          /\ \A q \in Processes \ {p} : script'[q] = script[q] /\ held'[q] = held[q]
        BY <1>3, <2>1, <2>2, OneChanges
    <2>4. Idle'  BY <1>9, <2>3 DEF IInv, Idle
    <2>5. \A v \in Writers : Ascending(v)'
        BY <1>3, <2>3, SameOrder DEF IInv, Processes
    <2>6. Stages' /\ Together'
        BY <1>5, <1>9, ProcessesDiffer DEF Stages, Together
    <2> QED  BY <1>6, <1>7, <2>3, <2>4, <2>5, <2>6 DEF IInv
<1> QED  BY <1>8, <1>9 DEF CommitStatement

\* The deadlock detector's victim.
LEMMA AbortStep ==
    ASSUME IInv, NEW p \in Processes, Abort(p)
    PROVE  IInv'
<1>1. p \in Deadlocked /\ End(p) /\ latest' = latest /\ history' = history
    BY DEF Abort, tables
<1>2. p \in running
    BY <1>1, DeadlockedWaits, WaitingIsRunning DEF IInv
<1>3. /\ Types' /\ Idle' /\ \A v \in Writers : Ascending(v)'
      /\ p # Clear => script'[Clear] = script[Clear] /\ held'[Clear] = held[Clear]
      /\ running' = running \ {p}
    BY <1>1, EndStep
<1>4. TablesType' /\ LatestHasHistory'
    BY <1>1 DEF IInv, TablesType, LatestHasHistory
<1>5. CASE p \in Writers
    <2>1. owner' = owner /\ stage' = stage /\ p # Clear
        BY <1>5, ProcessesDiffer DEF Abort
    <2>2. Stages' /\ Together'
        BY <1>3, <2>1 DEF IInv, Stages, Together
    <2> QED  BY <1>3, <1>4, <2>2 DEF IInv
<1>6. CASE p \notin Writers
    <2>1. owner' = "none" /\ stage' = 0  BY <1>6 DEF Abort
    <2>2. p \in {Clear, Drain}  BY <1>6 DEF Processes
    <2>3. \A q \in {Clear, Drain} : q \in running => q = p
        BY <1>2, <2>2 DEF IInv, Stages
    <2>4. Stages' /\ Together'
        BY <1>3, <2>1, <2>3, ProcessesDiffer DEF Stages, Together
    <2> QED  BY <1>3, <1>4, <2>4 DEF IInv
<1> QED  BY <1>5, <1>6

\* Every step keeps the invariant.
LEMMA StepIInv == IInv /\ [Next]_vars => IInv'
<1> SUFFICES ASSUME IInv, [Next]_vars PROVE IInv'  OBVIOUS
<1>1. ASSUME NEW w \in Writers, NEW model \in Models, NEW order \in Orders,
             BeginCopy(w, model, order)
      PROVE  IInv'
    BY <1>1, BeginCopyStep
<1>2. ASSUME NEW p \in {Clear, Drain}, BeginCall(p) PROVE IInv'
    BY <1>2, BeginCallStep
<1>3. ASSUME NEW p \in Processes, Acquire(p) PROVE IInv'
    BY <1>3, AcquireStep
<1>4. ASSUME NEW p \in Processes, Ends(p) PROVE IInv'
    <2>1. CASE p \in Writers
        BY <1>4, <2>1, CommitCopyStep DEF Ends
    <2>2. CASE p \notin Writers
        BY <1>4, <2>2, CommitStatementStep DEF Ends, Processes
    <2> QED  BY <2>1, <2>2
<1>5. ASSUME NEW p \in Processes, Abort(p) PROVE IInv'
    BY <1>5, AbortStep
<1>6. CASE UNCHANGED vars
    BY <1>6 DEF vars, tables, IInv, Types, Idle, Ascending, Stages, Together, TablesType,
                LatestHasHistory
<1> QED  BY <1>1, <1>2, <1>3, <1>4, <1>5, <1>6 DEF Next

\* The invariant holds throughout.
THEOREM LockInvariant == Spec => []IInv
BY InitIInv, StepIInv, PTL DEF Spec

\* Whatever IMSIs the writers' chunks have in common, only clears deadlock,
\* and the projector never does (EventSql.java:38, UeEventController.java:51).
THEOREM OnlyClearsAreInCircles == Spec => []OnlyClearsDeadlock
<1>1. IInv => OnlyClearsDeadlock  BY DeadlocksHaveClear
<1> QED  BY <1>1, LockInvariant, PTL

\* A clear takes effect between copies (CqrsEventStore.java:36): no IMSI has a
\* latest row and no history.
THEOREM LatestIsExplained == Spec => []LatestHasHistory
<1>1. IInv => LatestHasHistory  BY DEF IInv
<1> QED  BY <1>1, LockInvariant, PTL
=============================================================================
