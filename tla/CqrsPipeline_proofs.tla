------------------------- MODULE CqrsPipeline_proofs -------------------------
(***************************************************************************)
(* Proofs about CqrsPipeline, for any writers, clearers, events, batch     *)
(* size, chunk bound and number of faults.                                 *)
(***************************************************************************)
EXTENDS CqrsPipeline, FiniteSetTheorems, TLAPS

-----------------------------------------------------------------------------
(***************************************************************************)
(* What the statements of EventSql return, for any tables and any events.  *)
(***************************************************************************)
\* A latest table is a function on some IMSIs with latest rows as values.
LEMMA LatestTableIntro ==
    ASSUME NEW D \in SUBSET Imsi, NEW t \in [D -> LatestRow]
    PROVE  t \in LatestTable
BY DEF LatestTable

\* And conversely.
LEMMA LatestTableElim ==
    ASSUME NEW t \in LatestTable
    PROVE  /\ DOMAIN t \in SUBSET Imsi
           /\ t \in [DOMAIN t -> LatestRow]
           /\ \A i \in DOMAIN t : t[i].cur \in Event /\ t[i].ins \in Event
BY DEF LatestTable, LatestRow

\* A table without rows is a latest table.
LEMMA EmptyTableType == EmptyTable \in LatestTable /\ DOMAIN EmptyTable = {}
<1>1. EmptyTable \in [{} -> LatestRow]  BY DEF EmptyTable
<1>2. DOMAIN EmptyTable = {}  BY DEF EmptyTable
<1> QED  BY <1>1, <1>2, LatestTableIntro

\* updated_at orders events.
LEMMA NotOlderOrder ==
    ASSUME NEW e \in Event, NEW f \in Event, NEW g \in Event
    PROVE  /\ NotOlder(e, e)
           /\ NotOlder(e, f) \/ NotOlder(f, e)
           /\ NotOlder(e, f) /\ NotOlder(f, g) => NotOlder(e, g)
           /\ NotOlder(e, f) /\ NotOlder(f, e) => UpdatedAt[e] = UpdatedAt[f]
BY EventAssumption DEF NotOlder

\* The values nextval hands out are new, and each row gets its own.
LEMMA NextValsAreNew ==
    ASSUME NEW last \in Nat, NEW S, IsFiniteSet(S), NEW f \in NextVals(last, S)
    PROVE  /\ f \in [S -> Nat]
           /\ \A x \in S : f[x] > last /\ f[x] <= last + Cardinality(S)
           /\ \A x, y \in S : f[x] = f[y] => x = y
           /\ last + Cardinality(S) \in Nat
           /\ last + Cardinality(S) >= last
<1>1. Cardinality(S) \in Nat  BY FS_CardinalityType
<1>2. f \in [S -> (last + 1) .. (last + Cardinality(S))] /\ IsInjective(f)
  BY DEF NextVals, Injection
<1> QED  BY <1>1, <1>2 DEF IsInjective

\* What DISTINCT ON can return: one event for each IMSI of E, a newest one.
LEMMA NewestPerImsiPick ==
    ASSUME NEW E \in SUBSET Event, NEW pick \in NewestPerImsi(E)
    PROVE  /\ DOMAIN pick = {ImsiOf[e] : e \in E}
           /\ DOMAIN pick \in SUBSET Imsi
           /\ \A i \in DOMAIN pick : pick[i] \in E /\ ImsiOf[pick[i]] = i
           /\ \A e \in E : ImsiOf[e] \in DOMAIN pick
                           /\ NotOlder(pick[ImsiOf[e]], e)
BY EventAssumption DEF NewestPerImsi

\* The upsert u of one event per IMSI into t: nothing disappears or gets
\* older, every event picked shows, columns come from t or the events picked.
UpsertOutcome(t, pick, u) ==
    /\ u \in LatestTable
    /\ DOMAIN u = DOMAIN t \cup DOMAIN pick
    /\ \A i \in DOMAIN t : NotOlder(u[i].cur, t[i].cur)
    /\ \A i \in DOMAIN pick : NotOlder(u[i].cur, pick[i])
    /\ \A i \in DOMAIN u :
          /\ \/ i \in DOMAIN t /\ u[i].cur = t[i].cur
             \/ i \in DOMAIN pick /\ u[i].cur = pick[i]
          /\ \/ i \in DOMAIN t /\ u[i].ins = t[i].ins
             \/ i \in DOMAIN pick /\ u[i].ins = pick[i]

\* Upsert has that outcome.
LEMMA UpsertResult ==
    ASSUME NEW t \in LatestTable, NEW pick,
           DOMAIN pick \in SUBSET Imsi,
           \A i \in DOMAIN pick : pick[i] \in Event /\ ImsiOf[pick[i]] = i
    PROVE  UpsertOutcome(t, pick, Upsert(t, pick))
<1> DEFINE u == Upsert(t, pick)
           D == DOMAIN t \cup DOMAIN pick
<1>1. D \in SUBSET Imsi /\ \A i \in DOMAIN t : t[i] \in LatestRow
  BY LatestTableElim
<1>2. DOMAIN u = D  BY DEF Upsert
<1>3. ASSUME NEW i \in DOMAIN t, i \in DOMAIN pick
      PROVE  /\ u[i] \in LatestRow
             /\ NotOlder(u[i].cur, t[i].cur)
             /\ NotOlder(u[i].cur, pick[i])
             /\ u[i].cur \in {t[i].cur, pick[i]}
             /\ u[i].ins = t[i].ins
  <2>1. u[i] = Merge(t[i], pick[i])  BY <1>3 DEF Upsert
  <2>2. t[i] \in [cur : Event, ins : Event] /\ pick[i] \in Event
    BY <1>1, <1>3 DEF LatestRow
  <2>3. CASE NotOlder(pick[i], t[i].cur)
    <3>1. u[i] = [t[i] EXCEPT !.cur = pick[i]]  BY <2>1, <2>3 DEF Merge
    <3>2. u[i] \in LatestRow /\ u[i].cur = pick[i] /\ u[i].ins = t[i].ins
      BY <3>1, <2>2 DEF LatestRow
    <3> QED  BY <3>2, <2>2, <2>3, NotOlderOrder
  <2>4. CASE ~ NotOlder(pick[i], t[i].cur)
    <3>1. u[i] = t[i]  BY <2>1, <2>4 DEF Merge
    <3> QED  BY <3>1, <2>2, <2>4, NotOlderOrder DEF LatestRow
  <2> QED  BY <2>3, <2>4
<1>4. ASSUME NEW i \in DOMAIN t, i \notin DOMAIN pick
      PROVE  u[i] = t[i]
  BY <1>4 DEF Upsert
<1>5. ASSUME NEW i \in DOMAIN pick, i \notin DOMAIN t
      PROVE  /\ u[i] \in LatestRow
             /\ u[i].cur = pick[i] /\ u[i].ins = pick[i]
             /\ NotOlder(u[i].cur, pick[i])
  <2>1. u[i] = [cur |-> pick[i], ins |-> pick[i]]  BY <1>5 DEF Upsert
  <2> QED  BY <2>1, <1>5, NotOlderOrder DEF LatestRow
<1>6. u \in LatestTable
  <2>1. \A i \in D : u[i] \in LatestRow  BY <1>1, <1>3, <1>4, <1>5
  <2>2. u = [i \in D |-> u[i]]  BY DEF Upsert
  <2>3. u \in [D -> LatestRow]  BY <2>1, <2>2
  <2> QED  BY <1>1, <2>3, LatestTableIntro
<1>7. \A i \in DOMAIN t : NotOlder(u[i].cur, t[i].cur)
  BY <1>1, <1>3, <1>4, NotOlderOrder DEF LatestRow
<1>8. \A i \in DOMAIN pick : NotOlder(u[i].cur, pick[i])
  BY <1>3, <1>5
<1>9. \A i \in D :
         \/ i \in DOMAIN t /\ u[i].cur = t[i].cur
         \/ i \in DOMAIN pick /\ u[i].cur = pick[i]
  BY <1>3, <1>4, <1>5
<1>10. \A i \in D :
         \/ i \in DOMAIN t /\ u[i].ins = t[i].ins
         \/ i \in DOMAIN pick /\ u[i].ins = pick[i]
  BY <1>3, <1>4, <1>5
<1> HIDE DEF u
<1>11. UpsertOutcome(t, pick, u)
  BY <1>2, <1>6, <1>7, <1>8, <1>9, <1>10 DEF UpsertOutcome
<1> QED  BY <1>11 DEF u

\* Restrict keeps the values of the keys it keeps.
LEMMA RestrictResult ==
    ASSUME NEW f, NEW D
    PROVE  /\ DOMAIN Restrict(f, D) = D
           /\ \A x \in D : Restrict(f, D)[x] = f[x]
BY DEF Restrict

\* Some of the rows of a latest table are a latest table.
LEMMA RestrictType ==
    ASSUME NEW t \in LatestTable, NEW D \in SUBSET DOMAIN t
    PROVE  Restrict(t, D) \in LatestTable
<1>1. \A i \in D : t[i] \in LatestRow  BY LatestTableElim
<1>2. Restrict(t, D) \in [D -> LatestRow]  BY <1>1 DEF Restrict
<1> QED  BY <1>2, LatestTableElim, LatestTableIntro

\* ON CONFLICT DO NOTHING adds some of the rows and forgets none; when a row
\* shares its id with no other row, it adds all of them.
LEMMA InsertDoNothingResult ==
    ASSUME NEW table, NEW new
    PROVE  /\ table \subseteq InsertDoNothing(table, new)
           /\ InsertDoNothing(table, new) \subseteq table \cup new
           /\ (\A r \in new, q \in table : r.id = q.id => r = q)
                 => InsertDoNothing(table, new) = table \cup new
BY DEF InsertDoNothing, SameKey

-----------------------------------------------------------------------------
(***************************************************************************)
(* Tables and rows of the pipeline.                                        *)
(***************************************************************************)
\* A commit puts the rows a transaction wrote in place of the old ones.
LEMMA OverwriteResult ==
    ASSUME NEW t \in LatestTable, NEW u \in LatestTable
    PROVE  /\ Overwrite(t, u) \in LatestTable
           /\ DOMAIN Overwrite(t, u) = DOMAIN t \cup DOMAIN u
           /\ \A i \in DOMAIN u : Overwrite(t, u)[i] = u[i]
           /\ \A i \in DOMAIN t \ DOMAIN u : Overwrite(t, u)[i] = t[i]
<1> DEFINE D == DOMAIN t \cup DOMAIN u
<1>1. /\ D \in SUBSET Imsi
      /\ \A i \in DOMAIN t : t[i] \in LatestRow
      /\ \A i \in DOMAIN u : u[i] \in LatestRow
  BY LatestTableElim
<1>2. Overwrite(t, u) \in [D -> LatestRow]  BY <1>1 DEF Overwrite
<1> QED  BY <1>1, <1>2, LatestTableIntro DEF Overwrite

\* The values a function takes on a finite set are finitely many.
LEMMA FiniteRange ==
    ASSUME NEW f, IsFiniteSet(DOMAIN f), f = [x \in DOMAIN f |-> f[x]]
    PROVE  IsFiniteSet({f[x] : x \in DOMAIN f})
<1> DEFINE T == {f[x] : x \in DOMAIN f}
<1>1. f \in Surjection(DOMAIN f, T)  BY DEF Surjection
<1> QED  BY <1>1, FS_Surjection

\* The events of history rows are events, their ids numbers.
LEMMA EventsOfRows ==
    ASSUME NEW S \in SUBSET HistoryRow
    PROVE  EventsOf(S) \in SUBSET Event /\ Ids(S) \in SUBSET Nat
BY DEF HistoryRow, EventsOf, Ids

\* What an upsert of the newest of some rows gives, whatever it picked.
LEMMA UpsertNewest ==
    ASSUME NEW t \in LatestTable, NEW S \in SUBSET HistoryRow,
           NEW pick \in NewestPerImsi(EventsOf(S))
    PROVE  /\ Upsert(t, pick) \in LatestTable
           /\ DOMAIN pick \in SUBSET DOMAIN Upsert(t, pick)
           /\ \A D \in SUBSET DOMAIN pick :
                Upsert(t, Restrict(pick, D)) \in LatestTable
<1> DEFINE E == EventsOf(S)
<1>0. E \in SUBSET Event  BY EventsOfRows
<1> HIDE DEF E
<1>1. /\ DOMAIN pick \in SUBSET Imsi
      /\ \A i \in DOMAIN pick : pick[i] \in Event /\ ImsiOf[pick[i]] = i
  BY <1>0, NewestPerImsiPick DEF E
<1>2. UpsertOutcome(t, pick, Upsert(t, pick))  BY <1>1, UpsertResult
<1>3. /\ Upsert(t, pick) \in LatestTable
      /\ DOMAIN Upsert(t, pick) = DOMAIN t \cup DOMAIN pick
  BY <1>2 DEF UpsertOutcome
<1>4. ASSUME NEW D \in SUBSET DOMAIN pick
      PROVE  Upsert(t, Restrict(pick, D)) \in LatestTable
  <2>1. DOMAIN Restrict(pick, D) = D
        /\ \A i \in D : Restrict(pick, D)[i] = pick[i]
    BY RestrictResult
  <2>2. UpsertOutcome(t, Restrict(pick, D), Upsert(t, Restrict(pick, D)))
    BY <1>1, <2>1, UpsertResult
  <2> QED  BY <2>2 DEF UpsertOutcome
<1> QED  BY <1>3, <1>4

-----------------------------------------------------------------------------
(***************************************************************************)
(* The statement "every variable has its type", split by who writes what.  *)
(***************************************************************************)
\* The types hold at the start.
LEMMA TypeInit == Init => TypeOK
BY EmptyTableType, BoundAssumption, ThreadAssumption
   DEF Init, TypeOK, WriterPc, ProjectorPc, ClearerPc

\* A transaction's end leaves its local state typed.
LEMMA EndTransactionType ==
    ASSUME TypeOK, NEW w \in Writer, EndTransaction(w)
    PROVE  /\ wpc' \in [Writer -> WriterPc]
           /\ wrows' \in [Writer -> SUBSET HistoryRow]
           /\ wlatest' \in [Writer -> LatestTable]
           /\ wentries' \in [Writer -> SUBSET OutboxEntry]
BY EmptyTableType DEF TypeOK, EndTransaction, WriterPc

\* The rows a transaction inserts are history rows.
LEMMA InsertHistoryType ==
    ASSUME TypeOK, NEW w \in Writer, InsertHistory(w)
    PROVE  TypeOK'
<1>1. PICK S \in Chunk : \E id \in NextVals(historySeq, S) :
        /\ wrows' = [wrows EXCEPT ![w] = {[id |-> id[e], event |-> e] : e \in S}]
        /\ historySeq' = historySeq + Cardinality(S)
        /\ sent' = sent \cup S
  BY DEF InsertHistory
<1>2. PICK id \in NextVals(historySeq, S) :
        /\ wrows' = [wrows EXCEPT ![w] = {[id |-> id[e], event |-> e] : e \in S}]
        /\ historySeq' = historySeq + Cardinality(S)
        /\ sent' = sent \cup S
  BY <1>1
<1>3. S \in SUBSET Event /\ IsFiniteSet(S)  BY DEF Chunk
<1>4. id \in [S -> Nat] /\ historySeq + Cardinality(S) \in Nat
  BY <1>3, NextValsAreNew DEF TypeOK
<1>5. {[id |-> id[e], event |-> e] : e \in S} \in SUBSET HistoryRow
  BY <1>3, <1>4 DEF HistoryRow
<1>6. wrows' \in [Writer -> SUBSET HistoryRow]  BY <1>2, <1>5 DEF TypeOK
<1>7. wpc' \in [Writer -> WriterPc]  BY DEF TypeOK, InsertHistory, WriterPc
<1> QED  BY <1>2, <1>3, <1>4, <1>6, <1>7
     DEF TypeOK, InsertHistory, primary, readDb, threads

\* The latest rows it writes form a latest table.
LEMMA UpsertWriteLatestType ==
    ASSUME TypeOK, NEW w \in Writer, UpsertWriteLatest(w)
    PROVE  TypeOK'
<1>1. PICK pick \in NewestPerImsi(EventsOf(wrows[w])) :
        wlatest' = [wlatest EXCEPT ![w] =
                      Restrict(Upsert(writeLatest, pick), DOMAIN pick)]
  BY DEF UpsertWriteLatest
<1>2. wrows[w] \in SUBSET HistoryRow /\ writeLatest \in LatestTable
  BY DEF TypeOK
<1>3. Restrict(Upsert(writeLatest, pick), DOMAIN pick) \in LatestTable
  BY <1>2, UpsertNewest, RestrictType
<1>4. wlatest' \in [Writer -> LatestTable]  BY <1>1, <1>3 DEF TypeOK
<1>5. wpc' \in [Writer -> WriterPc]  BY DEF TypeOK, UpsertWriteLatest, WriterPc
<1> QED  BY <1>4, <1>5
     DEF TypeOK, UpsertWriteLatest, primary, sequences, readDb, threads

\* The entries it inserts are outbox entries.
LEMMA InsertOutboxType ==
    ASSUME TypeOK, NEW w \in Writer, IsFiniteSet(wrows[w]), InsertOutbox(w)
    PROVE  TypeOK'
<1>1. PICK seq \in NextVals(outboxSeq, wrows[w]) :
        wentries' = [wentries EXCEPT ![w] =
                        {[seq |-> seq[r], hid |-> r.id] : r \in wrows[w]}]
  BY DEF InsertOutbox
<1>2. seq \in [wrows[w] -> Nat] /\ outboxSeq + Cardinality(wrows[w]) \in Nat
  BY NextValsAreNew DEF TypeOK
<1>3. {[seq |-> seq[r], hid |-> r.id] : r \in wrows[w]} \in SUBSET OutboxEntry
  BY <1>2 DEF TypeOK, HistoryRow, OutboxEntry
<1>4. wentries' \in [Writer -> SUBSET OutboxEntry]  BY <1>1, <1>3 DEF TypeOK
<1>5. wpc' \in [Writer -> WriterPc]  BY DEF TypeOK, InsertOutbox, WriterPc
<1> QED  BY <1>2, <1>4, <1>5
     DEF TypeOK, InsertOutbox, primary, readDb, threads

\* Committing typed rows leaves typed tables.
LEMMA CommitType ==
    ASSUME TypeOK, NEW w \in Writer, Commit(w)
    PROVE  TypeOK'
<1>1. writeHistory' \in SUBSET HistoryRow /\ outbox' \in SUBSET OutboxEntry
  BY DEF TypeOK, Commit
<1>2. writeLatest' \in LatestTable  BY OverwriteResult DEF TypeOK, Commit
<1>3. EndTransaction(w)  BY DEF Commit
<1> QED  BY <1>1, <1>2, <1>3, EndTransactionType
     DEF TypeOK, Commit, sequences, readDb, threads

\* Upserting fetched rows, all of them or a few, leaves a latest table.
LEMMA FetchedPickType ==
    ASSUME TypeOK, NEW pick \in LatestArgs
    PROVE  /\ Upsert(readLatest, pick) \in LatestTable
           /\ \A D \in SUBSET DOMAIN pick :
                 Upsert(readLatest, Restrict(pick, D)) \in LatestTable
BY UpsertNewest DEF TypeOK, LatestArgs

\* Inserting fetched rows leaves a history table.
LEMMA InsertDoNothingType ==
    ASSUME TypeOK, NEW S \in SUBSET rows
    PROVE  InsertDoNothing(readHistory, S) \in SUBSET HistoryRow
BY InsertDoNothingResult DEF TypeOK

\* The projector keeps the types.
LEMMA DrainStepType ==
    ASSUME TypeOK, FiniteTables, DrainStep
    PROVE  TypeOK'
<1>1. CASE Tick
  BY <1>1 DEF TypeOK, Tick, ProjectorPc, primary, sequences, readDb, transactions
<1>2. CASE CheckQueue
  BY <1>2 DEF TypeOK, CheckQueue, ProjectorPc, primary, sequences, readDb,
              transactions
<1>3. CASE TryLock
  BY <1>3 DEF TypeOK, TryLock, ProjectorPc, primary, sequences, readDb,
              transactions
<1>4. CASE Claim
  <2>1. Oldest(Seqs(outbox), BatchSize) \in SUBSET Nat
    BY DEF TypeOK, Oldest, Seqs, OutboxEntry
  <2> QED  BY <1>4, <2>1 DEF TypeOK, Claim, Leave, ProjectorPc, primary,
                             sequences, readDb, transactions
<1>5. CASE Fetch
  BY <1>5 DEF TypeOK, Fetch, Joined, ProjectorPc, primary, sequences, readDb,
              transactions
<1>6. CASE InsertReadHistory
  BY <1>6, InsertDoNothingType
     DEF TypeOK, InsertReadHistory, ProjectorPc, primary, sequences, transactions
<1>7. CASE UpsertReadLatest
  BY <1>7, FetchedPickType
     DEF TypeOK, UpsertReadLatest, ProjectorPc, primary, sequences, transactions
<1>8. CASE DeleteOutbox
  <2>1. Cardinality(claimed) \in Nat  BY FS_CardinalityType DEF FiniteTables
  <2> QED  BY <1>8, <2>1 DEF TypeOK, DeleteOutbox, Leave, Without, ProjectorPc,
                             sequences, readDb, transactions
<1> QED  BY <1>1, <1>2, <1>3, <1>4, <1>5, <1>6, <1>7, <1>8 DEF DrainStep

\* A clear keeps the types.
LEMMA ClearType ==
    ASSUME TypeOK, NEW c \in Clearer, RequestClear(c) \/ ClearStep(c)
    PROVE  TypeOK'
<1>1. CASE RequestClear(c)
  BY <1>1 DEF TypeOK, RequestClear, ClearerPc, primary, sequences, readDb,
              transactions, drain
<1>2. CASE AcquireLock(c)
  BY <1>2 DEF TypeOK, AcquireLock, ClearerPc, primary, sequences, readDb,
              transactions, drain
<1>3. CASE TruncatePrimary(c)
  BY <1>3, EmptyTableType
     DEF TypeOK, TruncatePrimary, ClearerPc, sequences, readDb, transactions,
         drain
<1>4. CASE TruncateRead(c)
  BY <1>4, EmptyTableType
     DEF TypeOK, TruncateRead, ClearerPc, primary, sequences, transactions, drain
<1> QED  BY <1>1, <1>2, <1>3, <1>4 DEF ClearStep

\* A fault keeps the types.
LEMMA FaultType ==
    ASSUME TypeOK, FaultStep
    PROVE  TypeOK'
<1>0. ASSUME Fault PROVE faults' \in 0 .. MaxFaults
  BY <1>0, BoundAssumption DEF TypeOK, Fault
<1>1. ASSUME NEW w \in Writer, Abort(w) PROVE TypeOK'
  <2>1. EndTransaction(w)  BY <1>1 DEF Abort
  <2> QED  BY <1>0, <1>1, <2>1, EndTransactionType
         DEF TypeOK, Abort, primary, sequences, readDb, threads
<1>2. CASE DrainFails
  <2>1. readHistory' \in SUBSET HistoryRow
    BY <1>2, InsertDoNothingType DEF TypeOK, DrainFails, readDb
  <2>2. readLatest' \in LatestTable
    BY <1>2, FetchedPickType DEF TypeOK, DrainFails, readDb
  <2>3. outbox' \in SUBSET OutboxEntry
    BY <1>2 DEF TypeOK, DrainFails, Without
  <2> QED  BY <1>0, <1>2, <2>1, <2>2, <2>3
         DEF TypeOK, DrainFails, Leave, ProjectorPc, sequences, transactions
<1>3. ASSUME NEW c \in Clearer, ClearFails(c) PROVE TypeOK'
  BY <1>0, <1>3 DEF TypeOK, ClearFails, ClearerPc, primary, sequences, readDb,
                    transactions, drain
<1>4. CASE Crash
  BY <1>0, <1>4, EmptyTableType
     DEF TypeOK, Crash, Leave, WriterPc, ProjectorPc, ClearerPc, primary,
         sequences, readDb
<1> QED  BY <1>1, <1>2, <1>3, <1>4 DEF FaultStep

\* Every step keeps the types.
LEMMA TypeStep == TypeOK /\ FiniteTables /\ [Next]_vars => TypeOK'
<1> SUFFICES ASSUME TypeOK, FiniteTables, [Next]_vars PROVE TypeOK'
  OBVIOUS
<1>1. ASSUME NEW w \in Writer, InsertHistory(w) \/ WriterStep(w) PROVE TypeOK'
  BY <1>1, InsertHistoryType, UpsertWriteLatestType, InsertOutboxType, CommitType
     DEF WriterStep, FiniteTables
<1>2. CASE UNCHANGED vars
  BY <1>2 DEF TypeOK, vars, primary, sequences, readDb, transactions,
              drain
<1> QED  BY <1>1, <1>2, DrainStepType, ClearType, FaultType DEF Next

-----------------------------------------------------------------------------
(***************************************************************************)
(* What the steps of one thread leave alone.  All later step lemmas start  *)
(* from these instead of from the actions.                                 *)
(***************************************************************************)
DrainAny == DrainStep \/ DrainFails
ClearAny == \E c \in Clearer : RequestClear(c) \/ ClearStep(c) \/ ClearFails(c)

\* What a step of the projector, failed or not, can change at all.
LEMMA DrainFrame ==
    ASSUME DrainAny
    PROVE  /\ UNCHANGED <<writeHistory, writeLatest, historySeq, outboxSeq, wpc,
                          wrows, wlatest, wentries, cpc, sent>>
           /\ outbox' = outbox \/ outbox' = Without(outbox, claimed)
           /\ readHistory \subseteq readHistory'
           /\ readHistory' \subseteq readHistory \cup rows
           /\ readHistory' = readHistory \/ dpc = "history"
<1>1. CASE Tick \/ CheckQueue \/ TryLock \/ Claim \/ Fetch
  BY <1>1 DEF Tick, CheckQueue, TryLock, Claim, Fetch, Leave, primary, sequences,
              readDb, transactions
<1>2. CASE InsertReadHistory
  BY <1>2, InsertDoNothingResult
     DEF InsertReadHistory, primary, sequences, transactions
<1>3. CASE UpsertReadLatest
  BY <1>3 DEF UpsertReadLatest, primary, sequences, transactions
<1>4. CASE DeleteOutbox
  BY <1>4 DEF DeleteOutbox, sequences, readDb, transactions
<1>5. CASE DrainFails
  <2>1. CASE dpc = "history" /\ \E done \in SUBSET rows :
                 readHistory' = InsertDoNothing(readHistory, done)
    BY <1>5, <2>1, InsertDoNothingResult
       DEF DrainFails, sequences, transactions, readDb
  <2>2. CASE readHistory' = readHistory
    BY <1>5, <2>2 DEF DrainFails, sequences, transactions, readDb
  <2> QED  BY <1>5, <2>1, <2>2 DEF DrainFails, readDb
<1> QED  BY <1>1, <1>2, <1>3, <1>4, <1>5 DEF DrainAny, DrainStep

\* What a step of a clear, failed or not, can change at all.
LEMMA ClearFrame ==
    ASSUME ClearAny
    PROVE  /\ UNCHANGED <<historySeq, outboxSeq, wpc, wrows, wlatest, wentries,
                          dpc, claimed, rows, sent>>
           /\ \/ UNCHANGED <<writeHistory, writeLatest, outbox>>
              \/ /\ writeHistory' = {} /\ writeLatest' = EmptyTable /\ outbox' = {}
                 /\ \A w \in Writer : wpc[w] = "idle"
           /\ \/ UNCHANGED <<readHistory, readLatest>>
              \/ readHistory' = {} /\ readLatest' = EmptyTable
BY DEF ClearAny, RequestClear, ClearStep, AcquireLock, TruncatePrimary,
       TruncateRead, ClearFails, primary, sequences, readDb, transactions, drain

\* The kinds of step a proof by cases goes through.
LEMMA StepKinds ==
    ASSUME [Next]_vars
    PROVE  \/ \E w \in Writer : \/ InsertHistory(w)
                                \/ UpsertWriteLatest(w)
                                \/ InsertOutbox(w)
                                \/ Commit(w)
                                \/ Abort(w)
           \/ DrainAny
           \/ ClearAny
           \/ Crash
           \/ UNCHANGED vars
BY DEF Next, WriterStep, FaultStep, DrainAny, ClearAny

-----------------------------------------------------------------------------
\* Every step keeps the counted sets finite.
LEMMA FiniteStep == TypeOK /\ FiniteTables /\ [Next]_vars => FiniteTables'
<1> SUFFICES ASSUME TypeOK, FiniteTables, [Next]_vars PROVE FiniteTables'
  OBVIOUS
<1> USE FS_EmptySet
<1>1. ASSUME NEW w \in Writer, InsertHistory(w) PROVE FiniteTables'
  <2>1. PICK S \in Chunk : \E id \in NextVals(historySeq, S) :
          wrows' = [wrows EXCEPT ![w] = {[id |-> id[e], event |-> e] : e \in S}]
    BY <1>1 DEF InsertHistory
  <2>2. PICK id \in NextVals(historySeq, S) :
          wrows' = [wrows EXCEPT ![w] = {[id |-> id[e], event |-> e] : e \in S}]
    BY <2>1
  <2> DEFINE f == [e \in S |-> [id |-> id[e], event |-> e]]
  <2>3. IsFiniteSet({f[e] : e \in DOMAIN f})  BY FiniteRange DEF Chunk
  <2>4. IsFiniteSet({[id |-> id[e], event |-> e] : e \in S})  BY <2>3
  <2>5. \A v \in Writer : IsFiniteSet(wrows'[v])
    BY <2>2, <2>4 DEF TypeOK, FiniteTables
  <2> QED  BY <1>1, <2>5 DEF FiniteTables, InsertHistory, primary, threads
<1>2. ASSUME NEW w \in Writer, UpsertWriteLatest(w) PROVE FiniteTables'
  BY <1>2 DEF FiniteTables, UpsertWriteLatest, primary, threads
<1>3. ASSUME NEW w \in Writer, InsertOutbox(w) PROVE FiniteTables'
  <2>1. PICK seq \in NextVals(outboxSeq, wrows[w]) :
          wentries' = [wentries EXCEPT ![w] =
                         {[seq |-> seq[r], hid |-> r.id] : r \in wrows[w]}]
    BY <1>3 DEF InsertOutbox
  <2> DEFINE f == [r \in wrows[w] |-> [seq |-> seq[r], hid |-> r.id]]
  <2>2. IsFiniteSet({f[r] : r \in DOMAIN f})  BY FiniteRange DEF FiniteTables
  <2>3. IsFiniteSet({[seq |-> seq[r], hid |-> r.id] : r \in wrows[w]})  BY <2>2
  <2>4. \A v \in Writer : IsFiniteSet(wentries'[v])
    BY <2>1, <2>3 DEF TypeOK, FiniteTables
  <2> QED  BY <1>3, <2>4 DEF FiniteTables, InsertOutbox, primary, threads
<1>4. ASSUME NEW w \in Writer, Commit(w) PROVE FiniteTables'
  <2>1. IsFiniteSet(outbox \cup wentries[w])  BY FS_Union DEF FiniteTables
  <2> QED  BY <1>4, <2>1
         DEF TypeOK, FiniteTables, Commit, EndTransaction, threads
<1>5. ASSUME NEW w \in Writer, Abort(w) PROVE FiniteTables'
  BY <1>5 DEF TypeOK, FiniteTables, Abort, EndTransaction, primary, threads
<1>6. CASE DrainAny
  <2>1. IsFiniteSet(outbox')
    BY <1>6, DrainFrame, FS_Subset DEF FiniteTables, Without
  <2> DEFINE f == [o \in outbox |-> o.seq]
  <2>2. IsFiniteSet({f[o] : o \in DOMAIN f})  BY FiniteRange DEF FiniteTables
  <2>3. IsFiniteSet(Seqs(outbox))  BY <2>2 DEF Seqs
  <2>4. IsFiniteSet(Oldest(Seqs(outbox), BatchSize))
    BY <2>3, FS_Subset DEF Oldest
  <2>5. claimed' \in {claimed, {}, Oldest(Seqs(outbox), BatchSize)}
    BY <1>6 DEF DrainAny, DrainStep, Tick, CheckQueue, TryLock, Claim, Fetch,
                InsertReadHistory, UpsertReadLatest, DeleteOutbox, DrainFails,
                Leave
  <2> QED  BY <1>6, <2>1, <2>4, <2>5, DrainFrame DEF FiniteTables
<1>7. CASE ClearAny
  BY <1>7, ClearFrame DEF FiniteTables
<1>8. CASE Crash
  BY <1>8 DEF FiniteTables, Crash, Leave, primary
<1>9. CASE UNCHANGED vars
  BY <1>9 DEF FiniteTables, vars, primary, transactions, drain
<1> QED  BY <1>1, <1>2, <1>3, <1>4, <1>5, <1>6, <1>7, <1>8, <1>9, StepKinds

\* Every step keeps the lock with the thread that took it.
LEMMA LockStep ==
    TypeOK /\ LockDiscipline /\ [Next]_vars => LockDiscipline'
<1> SUFFICES ASSUME TypeOK, LockDiscipline, [Next]_vars PROVE LockDiscipline'
  OBVIOUS
<1> USE ThreadAssumption DEF LockDiscipline, Draining, Clearing
<1>1. ASSUME NEW w \in Writer,
             InsertHistory(w) \/ UpsertWriteLatest(w) \/ InsertOutbox(w)
               \/ Commit(w) \/ Abort(w)
      PROVE  LockDiscipline'
  BY <1>1 DEF InsertHistory, UpsertWriteLatest, InsertOutbox, Commit, Abort,
              threads
<1>2. CASE DrainAny
  BY <1>2 DEF DrainAny, DrainStep, Tick, CheckQueue, TryLock, Claim, Fetch,
              InsertReadHistory, UpsertReadLatest, DeleteOutbox, DrainFails, Leave
<1>3. ASSUME NEW c \in Clearer,
             RequestClear(c) \/ ClearStep(c) \/ ClearFails(c)
      PROVE  LockDiscipline'
  BY <1>3 DEF TypeOK, RequestClear, ClearStep, AcquireLock, TruncatePrimary,
              TruncateRead, ClearFails, drain
<1>4. CASE Crash
  BY <1>4 DEF Crash, Leave
<1>5. CASE UNCHANGED vars
  BY <1>5 DEF vars, drain
<1> QED  BY <1>1, <1>2, <1>3, <1>4, <1>5, StepKinds DEF ClearAny

\* Every step leaves what a transaction wrote in step with its next statement.
LEMMA ShapeStep ==
    TypeOK /\ TransactionShape /\ [Next]_vars => TransactionShape'
<1> SUFFICES ASSUME TypeOK, TransactionShape, [Next]_vars PROVE TransactionShape'
  OBVIOUS
<1> USE DEF TypeOK, TransactionShape
<1>1. ASSUME NEW w \in Writer, InsertHistory(w) PROVE TransactionShape'
  BY <1>1 DEF InsertHistory
<1>2. ASSUME NEW w \in Writer, UpsertWriteLatest(w) PROVE TransactionShape'
  BY <1>2 DEF UpsertWriteLatest
<1>3. ASSUME NEW w \in Writer, InsertOutbox(w) PROVE TransactionShape'
  <2>1. PICK seq \in NextVals(outboxSeq, wrows[w]) :
          wentries' = [wentries EXCEPT ![w] =
                         {[seq |-> seq[r], hid |-> r.id] : r \in wrows[w]}]
    BY <1>3 DEF InsertOutbox
  <2>2. HistoryIdsOf({[seq |-> seq[r], hid |-> r.id] : r \in wrows[w]})
          = Ids(wrows[w])
    <3> DEFINE entry(r) == [seq |-> seq[r], hid |-> r.id]
               T == {entry(r) : r \in wrows[w]}
    <3>1. \A r \in wrows[w] : entry(r).hid = r.id
      OBVIOUS
    <3> HIDE DEF entry
    <3>2. HistoryIdsOf(T) \subseteq Ids(wrows[w])
      BY <3>1 DEF HistoryIdsOf, Ids
    <3>3. Ids(wrows[w]) \subseteq HistoryIdsOf(T)
      <4>1. ASSUME NEW r \in wrows[w] PROVE r.id \in HistoryIdsOf(T)
        <5>1. entry(r) \in T  OBVIOUS
        <5> QED  BY <3>1, <5>1 DEF HistoryIdsOf
      <4> QED  BY <4>1 DEF Ids
    <3> QED  BY <3>2, <3>3 DEF entry
  <2> QED  BY <1>3, <2>1, <2>2 DEF InsertOutbox
<1>4. ASSUME NEW w \in Writer, Commit(w) \/ Abort(w) PROVE TransactionShape'
  BY <1>4 DEF Commit, Abort, EndTransaction
<1>5. CASE DrainAny
  BY <1>5, DrainFrame
<1>6. CASE ClearAny
  BY <1>6, ClearFrame
<1>7. CASE Crash
  BY <1>7 DEF Crash
<1>8. CASE UNCHANGED vars
  BY <1>8 DEF vars, transactions
<1> QED  BY <1>1, <1>2, <1>3, <1>4, <1>5, <1>6, <1>7, <1>8, StepKinds

\* A step that only moves or drops rows keeps them fresh.
LEMMA MovingRows ==
    ASSUME RowsAreFresh, AllRows' \subseteq AllRows,
           historySeq' = historySeq, sent' = sent,
           \A w \in Writer : wrows'[w] \cap (writeHistory' \cup readHistory') = {},
           \A v, w \in Writer : v # w => wrows'[v] \cap wrows'[w] = {}
    PROVE  RowsAreFresh'
BY DEF RowsAreFresh

\* Every step keeps ids and events of rows distinct and handed out.
LEMMA FreshRowsStep ==
    TypeOK /\ TransactionShape /\ RowsAreFresh /\ JoinCoversClaim /\ [Next]_vars
        => RowsAreFresh'
<1> SUFFICES ASSUME TypeOK, TransactionShape, RowsAreFresh, JoinCoversClaim,
                    [Next]_vars
             PROVE  RowsAreFresh'
  OBVIOUS
<1>1. ASSUME NEW w \in Writer, InsertHistory(w) PROVE RowsAreFresh'
  <2>1. PICK S \in Chunk : \E id \in NextVals(historySeq, S) :
          /\ wrows' = [wrows EXCEPT ![w] = {[id |-> id[e], event |-> e] : e \in S}]
          /\ historySeq' = historySeq + Cardinality(S)
          /\ sent' = sent \cup S
    BY <1>1 DEF InsertHistory
  <2>2. PICK id \in NextVals(historySeq, S) :
          /\ wrows' = [wrows EXCEPT ![w] = {[id |-> id[e], event |-> e] : e \in S}]
          /\ historySeq' = historySeq + Cardinality(S)
          /\ sent' = sent \cup S
    BY <2>1
  <2> DEFINE new == {[id |-> id[e], event |-> e] : e \in S}
  <2>3. S \cap sent = {} /\ IsFiniteSet(S)  BY DEF Chunk
  <2>4. /\ id \in [S -> Nat]
        /\ \A e \in S : id[e] > historySeq /\ id[e] <= historySeq'
        /\ \A e, f \in S : id[e] = id[f] => e = f
        /\ historySeq' \in Nat /\ historySeq' >= historySeq
    BY <2>2, <2>3, NextValsAreNew DEF TypeOK
  <2>5. \A r \in new : /\ r.id \in Nat /\ r.id > historySeq /\ r.id <= historySeq'
                       /\ r.event \in S
    BY <2>4
  <2>6. \A r, q \in new : r.id = q.id \/ r.event = q.event => r = q
    BY <2>4
  <2>7. /\ wrows[w] = {}
        /\ wrows'[w] = new
        /\ \A v \in Writer \ {w} : wrows'[v] = wrows[v]
        /\ writeHistory' = writeHistory /\ readHistory' = readHistory
    BY <1>1, <2>2 DEF InsertHistory, TransactionShape, TypeOK, primary, readDb
  <2> HIDE DEF new
  <2>8. AllRows' \subseteq AllRows \cup new
    BY <2>7 DEF AllRows
  <2>9. \A r \in AllRows : r.id \in Nat /\ r.id <= historySeq /\ r.event \in sent
    BY DEF RowsAreFresh, AllRows, TypeOK, HistoryRow
  <2>10. new \cap AllRows = {}
    BY <2>3, <2>5, <2>9
  <2>11. \A r \in AllRows' : r.id <= historySeq' /\ r.event \in sent'
    BY <2>2, <2>4, <2>5, <2>8, <2>9 DEF TypeOK
  <2>12. ASSUME NEW r \in AllRows, NEW q \in new
         PROVE  r.id # q.id /\ r.event # q.event
    BY <2>3, <2>5, <2>9 DEF TypeOK
  <2>13. \A r, q \in AllRows' : r.id = q.id \/ r.event = q.event => r = q
    BY <2>6, <2>8, <2>12 DEF RowsAreFresh
  <2>14. \A v \in Writer : wrows[v] \subseteq AllRows
    BY DEF AllRows
  <2>15. \A v \in Writer : wrows'[v] \cap (writeHistory' \cup readHistory') = {}
    BY <2>7, <2>10 DEF AllRows, RowsAreFresh
  <2>16. \A u, v \in Writer : u # v => wrows'[u] \cap wrows'[v] = {}
    BY <2>7, <2>10, <2>14 DEF RowsAreFresh
  <2> QED  BY <2>11, <2>13, <2>15, <2>16 DEF RowsAreFresh
<1>2. ASSUME NEW w \in Writer, UpsertWriteLatest(w) \/ InsertOutbox(w)
      PROVE  RowsAreFresh'
  BY <1>2, MovingRows DEF RowsAreFresh, AllRows, UpsertWriteLatest, InsertOutbox,
                          primary, sequences, readDb
<1>3. ASSUME NEW w \in Writer, Commit(w) PROVE RowsAreFresh'
  <2>1. /\ writeHistory' = writeHistory \cup wrows[w]
        /\ readHistory' = readHistory
        /\ wrows'[w] = {}
        /\ \A v \in Writer \ {w} : wrows'[v] = wrows[v]
        /\ historySeq' = historySeq /\ sent' = sent
    BY <1>3 DEF TypeOK, Commit, EndTransaction, sequences, readDb
  <2>2. AllRows' \subseteq AllRows  BY <2>1 DEF AllRows
  <2>3. \A v \in Writer : wrows'[v] \cap (writeHistory' \cup readHistory') = {}
    BY <2>1 DEF RowsAreFresh
  <2>4. \A u, v \in Writer : u # v => wrows'[u] \cap wrows'[v] = {}
    BY <2>1 DEF RowsAreFresh
  <2> QED  BY <2>1, <2>2, <2>3, <2>4, MovingRows
<1>4. ASSUME NEW w \in Writer, Abort(w) PROVE RowsAreFresh'
  <2>1. \A v \in Writer : wrows'[v] \subseteq wrows[v]
    BY <1>4 DEF TypeOK, Abort, EndTransaction
  <2>2. UNCHANGED <<writeHistory, readHistory, historySeq, sent>>
    BY <1>4 DEF Abort, primary, sequences, readDb
  <2>3. AllRows' \subseteq AllRows  BY <2>1, <2>2 DEF AllRows
  <2> QED  BY <2>1, <2>2, <2>3, MovingRows DEF RowsAreFresh
<1>5. CASE DrainAny
  <2>1. /\ readHistory' \subseteq readHistory \cup writeHistory
        /\ UNCHANGED <<writeHistory, wrows, historySeq, sent>>
    BY <1>5, DrainFrame DEF JoinCoversClaim, Joined
  <2>2. AllRows' \subseteq AllRows  BY <2>1 DEF AllRows
  <2> QED  BY <2>1, <2>2, MovingRows DEF RowsAreFresh
<1>6. CASE ClearAny
  <2>1. /\ UNCHANGED <<wrows, historySeq, sent>>
        /\ writeHistory' \subseteq writeHistory
        /\ readHistory' \subseteq readHistory
    BY <1>6, ClearFrame
  <2>2. AllRows' \subseteq AllRows  BY <2>1 DEF AllRows
  <2> QED  BY <2>1, <2>2, MovingRows DEF RowsAreFresh
<1>7. CASE Crash
  <2>1. /\ \A w \in Writer : wrows'[w] = {}
        /\ UNCHANGED <<writeHistory, readHistory, historySeq, sent>>
    BY <1>7 DEF Crash, primary, sequences, readDb
  <2>2. AllRows' \subseteq AllRows  BY <2>1 DEF AllRows
  <2> QED  BY <2>1, <2>2, MovingRows
<1>8. CASE UNCHANGED vars
  BY <1>8, MovingRows DEF RowsAreFresh, AllRows, vars, primary, sequences,
                          readDb, transactions
<1> QED  BY <1>1, <1>2, <1>3, <1>4, <1>5, <1>6, <1>7, <1>8, StepKinds

\* Every step keeps the seqs of entries distinct and handed out.
LEMMA FreshEntriesStep ==
    TypeOK /\ TransactionShape /\ FiniteTables /\ EntriesAreFresh /\ [Next]_vars
        => EntriesAreFresh'
<1> SUFFICES ASSUME TypeOK, TransactionShape, FiniteTables, EntriesAreFresh,
                    [Next]_vars
             PROVE  EntriesAreFresh'
  OBVIOUS
<1>1. ASSUME NEW w \in Writer, InsertOutbox(w) PROVE EntriesAreFresh'
  <2>1. PICK seq \in NextVals(outboxSeq, wrows[w]) :
          wentries' = [wentries EXCEPT ![w] =
                         {[seq |-> seq[r], hid |-> r.id] : r \in wrows[w]}]
    BY <1>1 DEF InsertOutbox
  <2> DEFINE new == {[seq |-> seq[r], hid |-> r.id] : r \in wrows[w]}
  <2>2. /\ \A r \in wrows[w] : /\ seq[r] \in Nat /\ seq[r] > outboxSeq
                               /\ seq[r] <= outboxSeq'
        /\ outboxSeq' \in Nat /\ outboxSeq' >= outboxSeq
    BY <1>1, NextValsAreNew DEF TypeOK, FiniteTables, InsertOutbox
  <2>3. \A o \in new : o.seq \in Nat /\ o.seq > outboxSeq /\ o.seq <= outboxSeq'
    BY <2>2
  <2>4. /\ wentries'[w] = new
        /\ \A v \in Writer \ {w} : wentries'[v] = wentries[v]
        /\ outbox' = outbox
    BY <1>1, <2>1 DEF TypeOK, InsertOutbox, primary
  <2> HIDE DEF new
  <2>5. /\ \A o \in outbox : o.seq \in Nat /\ o.seq <= outboxSeq
        /\ \A v \in Writer : \A o \in wentries[v] :
              o.seq \in Nat /\ o.seq <= outboxSeq /\ o.seq \notin Seqs(outbox)
    BY DEF EntriesAreFresh, TypeOK, OutboxEntry
  <2>6. \A o \in outbox' : o.seq <= outboxSeq'
    BY <2>2, <2>4, <2>5 DEF TypeOK
  <2>7. \A v \in Writer : \A o \in wentries'[v] :
          o.seq <= outboxSeq' /\ o.seq \notin Seqs(outbox')
    <3>1. \A o \in new : o.seq \notin Seqs(outbox)
      BY <2>3, <2>5 DEF Seqs, TypeOK
    <3> QED  BY <2>2, <2>3, <2>4, <2>5, <3>1 DEF TypeOK
  <2>8. \A v \in Writer \ {w} : Seqs(wentries[v]) \cap Seqs(new) = {}
    BY <2>3, <2>5 DEF Seqs, TypeOK
  <2>9. \A u, v \in Writer :
          u # v => Seqs(wentries'[u]) \cap Seqs(wentries'[v]) = {}
    BY <2>4, <2>8 DEF EntriesAreFresh
  <2> QED  BY <2>6, <2>7, <2>9 DEF EntriesAreFresh
<1>2. ASSUME NEW w \in Writer, InsertHistory(w) \/ UpsertWriteLatest(w)
      PROVE  EntriesAreFresh'
  BY <1>2 DEF EntriesAreFresh, InsertHistory, UpsertWriteLatest, primary, sequences
<1>3. ASSUME NEW w \in Writer, Commit(w) PROVE EntriesAreFresh'
  <2>1. /\ outbox' = outbox \cup wentries[w]
        /\ wentries'[w] = {}
        /\ \A v \in Writer \ {w} : wentries'[v] = wentries[v]
        /\ outboxSeq' = outboxSeq
    BY <1>3 DEF TypeOK, Commit, EndTransaction, sequences
  <2>2. Seqs(outbox') = Seqs(outbox) \cup Seqs(wentries[w])  BY <2>1 DEF Seqs
  <2>3. \A v \in Writer \ {w} : \A o \in wentries[v] : o.seq \in Seqs(wentries[v])
    BY DEF Seqs
  <2>4. \A v \in Writer : \A o \in wentries'[v] :
          o.seq <= outboxSeq' /\ o.seq \notin Seqs(outbox')
    BY <2>1, <2>2, <2>3 DEF EntriesAreFresh
  <2>5. \A u, v \in Writer :
          u # v => Seqs(wentries'[u]) \cap Seqs(wentries'[v]) = {}
    BY <2>1 DEF EntriesAreFresh, Seqs
  <2> QED  BY <2>1, <2>4, <2>5 DEF EntriesAreFresh
<1>4. ASSUME \A w \in Writer : wentries'[w] \subseteq wentries[w],
             outbox' \subseteq outbox, outboxSeq' = outboxSeq
      PROVE  EntriesAreFresh'
  BY <1>4 DEF EntriesAreFresh, Seqs
<1>5. ASSUME NEW w \in Writer, Abort(w) PROVE EntriesAreFresh'
  BY <1>4, <1>5 DEF TypeOK, Abort, EndTransaction, primary, sequences
<1>6. CASE DrainAny
  BY <1>4, <1>6, DrainFrame DEF Without
<1>7. CASE ClearAny
  BY <1>4, <1>7, ClearFrame
<1>8. CASE Crash
  BY <1>4, <1>8 DEF Crash, primary, sequences
<1>9. CASE UNCHANGED vars
  BY <1>4, <1>9 DEF vars, primary, sequences, transactions
<1> QED  BY <1>1, <1>2, <1>3, <1>5, <1>6, <1>7, <1>8, <1>9, StepKinds

\* Every step keeps a row for every entry of the outbox.
LEMMA EntriesHaveRowsStep ==
    TypeOK /\ TransactionShape /\ EntriesHaveRows /\ [Next]_vars
        => EntriesHaveRows'
<1> SUFFICES ASSUME TypeOK, TransactionShape, EntriesHaveRows, [Next]_vars
             PROVE  EntriesHaveRows'
  OBVIOUS
<1> USE DEF EntriesHaveRows
<1>1. ASSUME NEW w \in Writer,
             InsertHistory(w) \/ UpsertWriteLatest(w) \/ InsertOutbox(w)
               \/ Abort(w)
      PROVE  EntriesHaveRows'
  BY <1>1 DEF InsertHistory, UpsertWriteLatest, InsertOutbox, Abort, primary
<1>2. ASSUME NEW w \in Writer, Commit(w) PROVE EntriesHaveRows'
  <2>1. /\ HistoryIdsOf(outbox') = HistoryIdsOf(outbox) \cup HistoryIdsOf(wentries[w])
        /\ Ids(writeHistory') = Ids(writeHistory) \cup Ids(wrows[w])
    BY <1>2 DEF Commit, HistoryIdsOf, Ids
  <2>2. HistoryIdsOf(wentries[w]) = Ids(wrows[w])
    BY <1>2 DEF Commit, TransactionShape
  <2> QED  BY <2>1, <2>2
<1>3. CASE DrainAny
  <2>1. outbox' \subseteq outbox  BY <1>3, DrainFrame DEF Without
  <2>2. HistoryIdsOf(outbox') \subseteq HistoryIdsOf(outbox)
    BY <2>1 DEF HistoryIdsOf
  <2> QED  BY <1>3, <2>2, DrainFrame
<1>4. CASE ClearAny
  BY <1>4, ClearFrame DEF HistoryIdsOf, Ids
<1>5. CASE Crash \/ UNCHANGED vars
  BY <1>5 DEF Crash, vars, primary
<1> QED  BY <1>1, <1>2, <1>3, <1>4, <1>5, StepKinds

-----------------------------------------------------------------------------
(***************************************************************************)
(* The write side's latest table.                                          *)
(***************************************************************************)
\* A table drawn from some events is drawn from more events.
LEMMA DrawnFromMore ==
    ASSUME NEW t, NEW E, NEW F, E \subseteq F, DrawnFrom(t, E)
    PROVE  DrawnFrom(t, F)
BY DEF DrawnFrom

\* The events of two sets of rows together.
LEMMA EventsOfUnion ==
    ASSUME NEW S, NEW T
    PROVE  EventsOf(S \cup T) = EventsOf(S) \cup EventsOf(T)
BY DEF EventsOf

\* An upsert keeps the table drawn from the events it saw.
LEMMA UpsertDrawn ==
    ASSUME NEW t \in LatestTable, NEW E \in SUBSET Event, DrawnFrom(t, E),
           NEW pick, DOMAIN pick \in SUBSET Imsi,
           \A i \in DOMAIN pick : pick[i] \in E /\ ImsiOf[pick[i]] = i
    PROVE  DrawnFrom(Upsert(t, pick), E)
<1>1. \A i \in DOMAIN pick : pick[i] \in Event /\ ImsiOf[pick[i]] = i
  OBVIOUS
<1> DEFINE u == Upsert(t, pick)
<1>2. UpsertOutcome(t, pick, u)  BY <1>1, UpsertResult
<1> HIDE DEF u
<1>3. DrawnFrom(u, E)  BY <1>2 DEF DrawnFrom, UpsertOutcome
<1> QED  BY <1>3 DEF u

\* What a transaction with rows S writes in its upsert: one row per IMSI of
\* its chunk, as new as every event of the chunk and as the committed row of t
\* it replaces.
OpenOutcome(t, H, S, new) ==
    /\ DrawnFrom(new, EventsOf(H \cup S))
    /\ \A i \in DOMAIN new \cap DOMAIN t : NotOlder(new[i].cur, t[i].cur)
    /\ \A r \in S : Shows(new, r.event)

\* The upsert of a transaction's newest rows has that outcome.
LEMMA OpenUpsert ==
    ASSUME NEW t \in LatestTable, NEW H \in SUBSET HistoryRow,
           DrawnFrom(t, EventsOf(H)),
           NEW S \in SUBSET HistoryRow, NEW pick \in NewestPerImsi(EventsOf(S)),
           NEW new, new = Restrict(Upsert(t, pick), DOMAIN pick)
    PROVE  DOMAIN new = DOMAIN pick /\ OpenOutcome(t, H, S, new)
<1> DEFINE E == EventsOf(S)
           F == EventsOf(H \cup S)
           u == Upsert(t, pick)
<1>1. E \in SUBSET Event /\ F \in SUBSET Event  BY EventsOfRows
<1>2. E \subseteq F /\ DrawnFrom(t, F)  BY EventsOfUnion, DrawnFromMore
<1>3. /\ DOMAIN pick \in SUBSET Imsi
      /\ \A i \in DOMAIN pick : pick[i] \in E /\ ImsiOf[pick[i]] = i
      /\ \A e \in E : ImsiOf[e] \in DOMAIN pick /\ NotOlder(pick[ImsiOf[e]], e)
  BY <1>1, NewestPerImsiPick
<1> HIDE DEF E, F
<1>4. DrawnFrom(u, F)  BY <1>1, <1>2, <1>3, UpsertDrawn
<1>5. \A i \in DOMAIN pick : pick[i] \in Event /\ ImsiOf[pick[i]] = i
  BY <1>1, <1>3
<1>6. UpsertOutcome(t, pick, u)  BY <1>3, <1>5, UpsertResult
<1>7. DOMAIN u = DOMAIN t \cup DOMAIN pick  BY <1>6 DEF UpsertOutcome
<1>8. \A i \in DOMAIN pick : NotOlder(u[i].cur, pick[i])
  BY <1>6 DEF UpsertOutcome
<1> HIDE DEF u
<1>9. DOMAIN new = DOMAIN pick /\ \A i \in DOMAIN pick : new[i] = u[i]
  BY RestrictResult DEF u
<1>10. DrawnFrom(new, F)  BY <1>4, <1>7, <1>9 DEF DrawnFrom
<1>11. ASSUME NEW r \in S PROVE Shows(new, r.event)
  <2>1. r.event \in E  BY DEF E, EventsOf
  <2> DEFINE i == ImsiOf[r.event]
  <2>2. i \in DOMAIN pick /\ NotOlder(pick[i], r.event)  BY <1>3, <2>1
  <2>3. new[i].cur \in Event /\ NotOlder(new[i].cur, pick[i])
    BY <1>1, <1>8, <1>9, <1>10, <2>2 DEF DrawnFrom
  <2>4. NotOlder(new[i].cur, r.event)
    BY <1>1, <1>5, <2>1, <2>2, <2>3, NotOlderOrder
  <2> QED  BY <1>9, <2>2, <2>4 DEF Shows
<1>12. \A i \in DOMAIN new \cap DOMAIN t : NotOlder(new[i].cur, t[i].cur)
  BY <1>6, <1>9 DEF UpsertOutcome
<1> QED  BY <1>9, <1>10, <1>11, <1>12 DEF F, OpenOutcome

LatestLayer == UpsertsAreNewest /\ WriteLatestIsNewest

\* Every step keeps committed and uncommitted latest rows newest.
LEMMA LatestStep ==
    TypeOK /\ TransactionShape /\ LatestLayer /\ [Next]_vars => LatestLayer'
<1> SUFFICES ASSUME TypeOK, TransactionShape, UpsertsAreNewest,
                    WriteLatestIsNewest, [Next]_vars
             PROVE  UpsertsAreNewest' /\ WriteLatestIsNewest'
  BY DEF LatestLayer
<1> USE EmptyTableType
<1>1. ASSUME NEW w \in Writer, InsertHistory(w)
      PROVE  UpsertsAreNewest' /\ WriteLatestIsNewest'
  <2>1. /\ UNCHANGED <<writeHistory, writeLatest, wlatest>>
        /\ wlatest[w] = EmptyTable
        /\ wpc'[w] = "latest"
        /\ \A v \in Writer \ {w} : wpc'[v] = wpc[v] /\ wrows'[v] = wrows[v]
    BY <1>1 DEF InsertHistory, primary, TransactionShape, TypeOK
  <2>2. DrawnFrom(wlatest'[w], EventsOf(writeHistory' \cup wrows'[w]))
    BY <2>1 DEF DrawnFrom
  <2> QED  BY <2>1, <2>2 DEF UpsertsAreNewest, WriteLatestIsNewest
<1>2. ASSUME NEW w \in Writer, UpsertWriteLatest(w)
      PROVE  UpsertsAreNewest' /\ WriteLatestIsNewest'
  <2>1. PICK pick \in NewestPerImsi(EventsOf(wrows[w])) :
          /\ RowsFree(w, DOMAIN pick)
          /\ wlatest' = [wlatest EXCEPT ![w] =
                            Restrict(Upsert(writeLatest, pick), DOMAIN pick)]
    BY <1>2 DEF UpsertWriteLatest
  <2>2. /\ UNCHANGED <<writeHistory, writeLatest, wrows>>
        /\ \A v \in Writer \ {w} : wpc'[v] = wpc[v] /\ wlatest'[v] = wlatest[v]
        /\ wlatest'[w] = Restrict(Upsert(writeLatest, pick), DOMAIN pick)
    BY <1>2, <2>1 DEF UpsertWriteLatest, primary, TypeOK
  <2> DEFINE new == Restrict(Upsert(writeLatest, pick), DOMAIN pick)
  <2>3. /\ writeLatest \in LatestTable /\ writeHistory \in SUBSET HistoryRow
        /\ wrows[w] \in SUBSET HistoryRow
        /\ DrawnFrom(writeLatest, EventsOf(writeHistory))
    BY DEF TypeOK, WriteLatestIsNewest
  <2>4. DOMAIN new = DOMAIN pick /\ OpenOutcome(writeLatest, writeHistory, wrows[w], new)
    BY <2>3, OpenUpsert
  <2> HIDE DEF new
  <2>5. /\ DOMAIN wlatest'[w] = DOMAIN pick
        /\ DrawnFrom(wlatest'[w], EventsOf(writeHistory \cup wrows[w]))
        /\ \A i \in DOMAIN wlatest'[w] \cap DOMAIN writeLatest :
              NotOlder(wlatest'[w][i].cur, writeLatest[i].cur)
        /\ \A r \in wrows[w] : Shows(wlatest'[w], r.event)
    BY <2>2, <2>4 DEF new, OpenOutcome
  <2>6. \A v \in Writer \ {w} : DOMAIN wlatest'[v] \cap DOMAIN wlatest'[w] = {}
    BY <2>1, <2>2, <2>5 DEF RowsFree
  <2> QED  BY <2>2, <2>5, <2>6 DEF UpsertsAreNewest, WriteLatestIsNewest
<1>3. ASSUME NEW w \in Writer, InsertOutbox(w)
      PROVE  UpsertsAreNewest' /\ WriteLatestIsNewest'
  BY <1>3 DEF UpsertsAreNewest, WriteLatestIsNewest, InsertOutbox, primary, TypeOK
<1>4. ASSUME NEW w \in Writer, Commit(w)
      PROVE  UpsertsAreNewest' /\ WriteLatestIsNewest'
  <2>1. /\ writeHistory' = writeHistory \cup wrows[w]
        /\ writeLatest' = Overwrite(writeLatest, wlatest[w])
        /\ wpc'[w] = "idle" /\ wlatest'[w] = EmptyTable /\ wrows'[w] = {}
        /\ \A v \in Writer \ {w} : /\ wpc'[v] = wpc[v] /\ wrows'[v] = wrows[v]
                                   /\ wlatest'[v] = wlatest[v]
    BY <1>4 DEF Commit, EndTransaction, TypeOK
  <2>2. writeLatest \in LatestTable /\ wlatest[w] \in LatestTable
    BY DEF TypeOK
  <2> DEFINE over == Overwrite(writeLatest, wlatest[w])
  <2>3. DOMAIN over = DOMAIN writeLatest \cup DOMAIN wlatest[w]
    BY <2>2, OverwriteResult
  <2>4. \A i \in DOMAIN wlatest[w] : over[i] = wlatest[w][i]
    BY <2>2, OverwriteResult
  <2>5. \A i \in DOMAIN writeLatest \ DOMAIN wlatest[w] : over[i] = writeLatest[i]
    BY <2>2, OverwriteResult
  <2> HIDE DEF over
  <2>6. /\ DOMAIN writeLatest' = DOMAIN writeLatest \cup DOMAIN wlatest[w]
        /\ \A i \in DOMAIN wlatest[w] : writeLatest'[i] = wlatest[w][i]
        /\ \A i \in DOMAIN writeLatest \ DOMAIN wlatest[w] :
              writeLatest'[i] = writeLatest[i]
    BY <2>1, <2>3, <2>4, <2>5 DEF over
  <2>7. EventsOf(writeHistory') = EventsOf(writeHistory) \cup EventsOf(wrows[w])
    BY <2>1, EventsOfUnion
  <2>8. DrawnFrom(writeLatest', EventsOf(writeHistory'))
    <3>1. /\ DrawnFrom(writeLatest, EventsOf(writeHistory'))
          /\ DrawnFrom(wlatest[w], EventsOf(writeHistory'))
      BY <2>1, <2>7, DrawnFromMore DEF UpsertsAreNewest, WriteLatestIsNewest
    <3> QED  BY <2>6, <3>1 DEF DrawnFrom
  <2>9. ASSUME NEW r \in writeHistory' PROVE Shows(writeLatest', r.event)
    <3> DEFINE i == ImsiOf[r.event]
    <3>1. r.event \in Event  BY <2>1 DEF TypeOK, HistoryRow
    <3>2. CASE r \in wrows[w]
      <4>1. Shows(wlatest[w], r.event)
        BY <1>4, <3>2 DEF Commit, UpsertsAreNewest
      <4> QED  BY <2>6, <4>1 DEF Shows
    <3>3. CASE r \in writeHistory
      <4>1. i \in DOMAIN writeLatest /\ NotOlder(writeLatest[i].cur, r.event)
        BY <3>3 DEF WriteLatestIsNewest, Shows
      <4>2. CASE i \in DOMAIN wlatest[w]
        <5>1. NotOlder(wlatest[w][i].cur, writeLatest[i].cur)
          BY <4>1, <4>2 DEF UpsertsAreNewest
        <5>2. wlatest[w][i].cur \in Event /\ writeLatest[i].cur \in Event
          BY <4>1, <4>2, LatestTableElim DEF TypeOK
        <5>3. NotOlder(wlatest[w][i].cur, r.event)
          BY <3>1, <4>1, <5>1, <5>2, NotOlderOrder
        <5> QED  BY <2>6, <4>2, <5>3 DEF Shows
      <4>3. CASE i \notin DOMAIN wlatest[w]
        BY <2>6, <4>1, <4>3 DEF Shows
      <4> QED  BY <4>2, <4>3
    <3> QED  BY <2>1, <3>2, <3>3
  <2>10. ASSUME NEW v \in Writer
        PROVE  /\ DrawnFrom(wlatest'[v], EventsOf(writeHistory' \cup wrows'[v]))
               /\ \A i \in DOMAIN wlatest'[v] \cap DOMAIN writeLatest' :
                     NotOlder(wlatest'[v][i].cur, writeLatest'[i].cur)
               /\ wpc'[v] \in {"outbox", "commit"} =>
                     \A r \in wrows'[v] : Shows(wlatest'[v], r.event)
    <3>1. CASE v = w
      BY <2>1, <3>1 DEF DrawnFrom
    <3>2. CASE v # w
      <4>1. EventsOf(writeHistory \cup wrows[v])
              \subseteq EventsOf(writeHistory' \cup wrows'[v])
        BY <2>1, <3>2 DEF EventsOf
      <4>2. DrawnFrom(wlatest'[v], EventsOf(writeHistory' \cup wrows'[v]))
        BY <2>1, <3>2, <4>1, DrawnFromMore DEF UpsertsAreNewest
      <4>3. \A i \in DOMAIN wlatest[v] : i \notin DOMAIN wlatest[w]
        BY <3>2 DEF UpsertsAreNewest
      <4> QED  BY <2>1, <2>6, <3>2, <4>2, <4>3 DEF UpsertsAreNewest
    <3> QED  BY <3>1, <3>2
  <2>11. \A u, v \in Writer :
          u # v => DOMAIN wlatest'[u] \cap DOMAIN wlatest'[v] = {}
    BY <2>1 DEF UpsertsAreNewest
  <2> QED  BY <2>8, <2>9, <2>10, <2>11 DEF UpsertsAreNewest, WriteLatestIsNewest
<1>5. ASSUME NEW w \in Writer, Abort(w)
      PROVE  UpsertsAreNewest' /\ WriteLatestIsNewest'
  <2>1. /\ UNCHANGED <<writeHistory, writeLatest>>
        /\ wpc'[w] = "idle" /\ wlatest'[w] = EmptyTable /\ wrows'[w] = {}
        /\ \A v \in Writer \ {w} : /\ wpc'[v] = wpc[v] /\ wrows'[v] = wrows[v]
                                   /\ wlatest'[v] = wlatest[v]
    BY <1>5 DEF Abort, EndTransaction, primary, TypeOK
  <2>2. DrawnFrom(wlatest'[w], EventsOf(writeHistory' \cup wrows'[w]))
    BY <2>1 DEF DrawnFrom
  <2> QED  BY <2>1, <2>2 DEF UpsertsAreNewest, WriteLatestIsNewest
<1>6. CASE DrainAny
  BY <1>6, DrainFrame DEF UpsertsAreNewest, WriteLatestIsNewest
<1>7. CASE ClearAny
  <2>1. CASE UNCHANGED <<writeHistory, writeLatest, outbox>>
    BY <1>7, <2>1, ClearFrame DEF UpsertsAreNewest, WriteLatestIsNewest
  <2>2. CASE /\ writeHistory' = {} /\ writeLatest' = EmptyTable
             /\ \A w \in Writer : wpc[w] = "idle"
    <3>1. \A w \in Writer : wlatest'[w] = EmptyTable /\ wpc'[w] = "idle"
      BY <1>7, <2>2, ClearFrame DEF TransactionShape
    <3> QED  BY <2>2, <3>1
           DEF UpsertsAreNewest, WriteLatestIsNewest, DrawnFrom
  <2> QED  BY <1>7, <2>1, <2>2, ClearFrame
<1>8. CASE Crash
  <2>1. /\ \A w \in Writer : wlatest'[w] = EmptyTable /\ wpc'[w] = "idle"
        /\ UNCHANGED <<writeHistory, writeLatest>>
    BY <1>8 DEF Crash, primary
  <2> QED  BY <2>1 DEF UpsertsAreNewest, WriteLatestIsNewest, DrawnFrom
<1>9. CASE UNCHANGED vars
  BY <1>9 DEF UpsertsAreNewest, WriteLatestIsNewest, vars, primary, transactions
<1> QED  BY <1>1, <1>2, <1>3, <1>4, <1>5, <1>6, <1>7, <1>8, <1>9, StepKinds

-----------------------------------------------------------------------------
(***************************************************************************)
(* The drain and the clears.                                               *)
(***************************************************************************)
\* An upsert shows what the table showed.
LEMMA NotBehindShows ==
    ASSUME NEW t \in LatestTable, NEW u \in LatestTable, NotBehind(u, t),
           NEW e \in Event, Shows(t, e)
    PROVE  Shows(u, e)
<1> DEFINE i == ImsiOf[e]
<1>1. i \in DOMAIN t /\ i \in DOMAIN u  BY DEF Shows, NotBehind
<1>2. t[i].cur \in Event /\ u[i].cur \in Event  BY <1>1, LatestTableElim
<1>3. NotOlder(u[i].cur, t[i].cur) /\ NotOlder(t[i].cur, e)
  BY <1>1 DEF Shows, NotBehind
<1>4. NotOlder(u[i].cur, e)  BY <1>2, <1>3, NotOlderOrder
<1> QED  BY <1>1, <1>4 DEF Shows

\* No table is behind itself.
LEMMA NotBehindSelf ==
    ASSUME NEW t \in LatestTable
    PROVE  NotBehind(t, t)
BY LatestTableElim, NotOlderOrder DEF NotBehind

\* The rows a drain works on are rows of the write history.
LEMMA FetchedAreWritten ==
    ASSUME JoinCoversClaim, dpc \in {"history", "latest", "delete"}
    PROVE  rows \subseteq writeHistory
BY DEF JoinCoversClaim, Joined

\* The upsert of some of the fetched events, as a whole or a failed batch.
LEMMA ReadUpsert ==
    ASSUME TypeOK, DrainProgress, ReadLatestHasHistory, dpc = "latest",
           NEW pick \in LatestArgs, NEW p,
           DOMAIN p \in SUBSET DOMAIN pick,
           \A i \in DOMAIN p : p[i] = pick[i]
    PROVE  /\ UpsertOutcome(readLatest, p, Upsert(readLatest, p))
           /\ NotBehind(Upsert(readLatest, p), readLatest)
           /\ DrawnFrom(Upsert(readLatest, p), EventsOf(readHistory))
<1> DEFINE E == EventsOf(rows)
           F == EventsOf(readHistory)
           u == Upsert(readLatest, p)
<1>1. E \in SUBSET Event /\ F \in SUBSET Event  BY EventsOfRows DEF TypeOK
<1>2. E \subseteq F  BY DEF DrainProgress, EventsOf
<1>3. pick \in NewestPerImsi(E)  BY DEF LatestArgs
<1> HIDE DEF E
<1>4. /\ DOMAIN pick \in SUBSET Imsi
      /\ \A i \in DOMAIN pick : pick[i] \in E /\ ImsiOf[pick[i]] = i
  BY <1>1, <1>3, NewestPerImsiPick
<1>5. /\ readLatest \in LatestTable /\ DrawnFrom(readLatest, F)
      /\ DOMAIN p \in SUBSET Imsi
      /\ \A i \in DOMAIN p : p[i] \in F /\ p[i] \in Event /\ ImsiOf[p[i]] = i
  BY <1>1, <1>2, <1>4 DEF TypeOK, ReadLatestHasHistory
<1> HIDE DEF F
<1>6. UpsertOutcome(readLatest, p, u)  BY <1>5, UpsertResult
<1>7. DrawnFrom(u, F)  BY <1>1, <1>5, UpsertDrawn
<1>8. NotBehind(u, readLatest)  BY <1>6 DEF UpsertOutcome, NotBehind
<1> QED  BY <1>6, <1>7, <1>8 DEF F

\* No step of the drain, nor its failure, takes a reader back in time.
LEMMA DrainReads ==
    ASSUME TypeOK, DrainProgress, ReadLatestHasHistory, DrainAny
    PROVE  /\ NotBehind(readLatest', readLatest)
           /\ DrawnFrom(readLatest', EventsOf(readHistory'))
<1>1. CASE readLatest' = readLatest
  <2>1. EventsOf(readHistory) \subseteq EventsOf(readHistory')
    BY DrainFrame DEF EventsOf
  <2> QED  BY <1>1, <2>1, NotBehindSelf, DrawnFromMore
         DEF TypeOK, ReadLatestHasHistory
<1>2. CASE dpc = "latest" /\ readHistory' = readHistory
           /\ \E pick \in LatestArgs : readLatest' = Upsert(readLatest, pick)
  <2>1. PICK pick \in LatestArgs : readLatest' = Upsert(readLatest, pick)
    BY <1>2
  <2> QED  BY <1>2, <2>1, ReadUpsert
<1>3. CASE dpc = "latest" /\ readHistory' = readHistory
           /\ \E pick \in LatestArgs : \E D \in SUBSET DOMAIN pick :
                 readLatest' = Upsert(readLatest, Restrict(pick, D))
  <2>1. PICK pick \in LatestArgs : \E D \in SUBSET DOMAIN pick :
                 readLatest' = Upsert(readLatest, Restrict(pick, D))
    BY <1>3
  <2>2. PICK D \in SUBSET DOMAIN pick :
                 readLatest' = Upsert(readLatest, Restrict(pick, D))
    BY <2>1
  <2> DEFINE p == Restrict(pick, D)
  <2>3. DOMAIN p = D /\ \A i \in D : p[i] = pick[i]  BY RestrictResult
  <2> HIDE DEF p
  <2>4. /\ NotBehind(Upsert(readLatest, p), readLatest)
        /\ DrawnFrom(Upsert(readLatest, p), EventsOf(readHistory))
    BY <1>3, <2>3, ReadUpsert
  <2> QED  BY <1>3, <2>2, <2>4 DEF p
<1>4. \/ readLatest' = readLatest
      \/ dpc = "latest" /\ readHistory' = readHistory
           /\ \E pick \in LatestArgs : readLatest' = Upsert(readLatest, pick)
      \/ dpc = "latest" /\ readHistory' = readHistory
           /\ \E pick \in LatestArgs : \E D \in SUBSET DOMAIN pick :
                 readLatest' = Upsert(readLatest, Restrict(pick, D))
  BY DEF DrainAny, DrainStep, Tick, CheckQueue, TryLock, Claim, Fetch,
         InsertReadHistory, UpsertReadLatest, DeleteOutbox, DrainFails, readDb
<1> QED  BY <1>1, <1>2, <1>3, <1>4

\* While the projector is in its locked section no clear truncates.
LEMMA ClearWhileDraining ==
    ASSUME LockDiscipline, dpc \in Draining, ClearAny
    PROVE  UNCHANGED <<writeHistory, writeLatest, outbox, readHistory, readLatest>>
BY ThreadAssumption
   DEF LockDiscipline, Clearing, ClearAny, RequestClear, ClearStep, AcquireLock,
       TruncatePrimary, TruncateRead, ClearFails, primary, readDb

\* A commit adds rows and entries, and changes nothing about the entries that
\* were there: a claim joins the same rows afterwards.
LEMMA CommitFrame ==
    ASSUME IInv, NEW w \in Writer, Commit(w)
    PROVE  /\ writeHistory' = writeHistory \cup wrows[w]
           /\ outbox' = outbox \cup wentries[w]
           /\ UNCHANGED <<readHistory, readLatest, dpc, claimed, rows, cpc>>
           /\ HistoryIdsOf(outbox') = HistoryIdsOf(outbox) \cup Ids(wrows[w])
           /\ claimed \subseteq Seqs(outbox) =>
                 \A o \in outbox' : o.seq \in claimed => o \in outbox
           /\ claimed \subseteq Seqs(outbox) => Joined(claimed)' = Joined(claimed)
<1>1. /\ writeHistory' = writeHistory \cup wrows[w]
      /\ outbox' = outbox \cup wentries[w]
      /\ UNCHANGED <<readHistory, readLatest, dpc, claimed, rows, cpc>>
  BY DEF Commit, readDb, threads
<1>2. HistoryIdsOf(outbox') = HistoryIdsOf(outbox) \cup Ids(wrows[w])
  <2>1. HistoryIdsOf(wentries[w]) = Ids(wrows[w])
    BY DEF IInv, TransactionShape, Commit
  <2> QED  BY <1>1, <2>1 DEF HistoryIdsOf
<1>3. ASSUME claimed \subseteq Seqs(outbox), NEW o \in outbox', o.seq \in claimed
      PROVE  o \in outbox
  BY <1>1, <1>3 DEF IInv, EntriesAreFresh
<1>4. ASSUME claimed \subseteq Seqs(outbox)
      PROVE  Joined(claimed)' = Joined(claimed)
  <2>1. ASSUME NEW r \in writeHistory', NEW o \in outbox', o.seq \in claimed,
               o.hid = r.id
        PROVE  r \in writeHistory /\ o \in outbox
    <3>1. o \in outbox  BY <1>3, <1>4, <2>1
    <3>2. r.id \in Ids(writeHistory)
      BY <2>1, <3>1 DEF IInv, EntriesHaveRows, HistoryIdsOf
    <3>3. PICK q \in writeHistory : q.id = r.id  BY <3>2 DEF Ids
    <3>4. q \in AllRows /\ r \in AllRows  BY <1>1 DEF AllRows
    <3>5. r = q  BY <3>3, <3>4 DEF IInv, RowsAreFresh
    <3> QED  BY <3>1, <3>3, <3>5
  <2>2. claimed' = claimed  BY <1>1
  <2> QED  BY <1>1, <2>1, <2>2 DEF Joined
<1> QED  BY <1>1, <1>2, <1>3, <1>4

\* Every step keeps a row for each claimed entry.
LEMMA JoinStep == IInv /\ [Next]_vars => JoinCoversClaim'
<1> SUFFICES ASSUME IInv, [Next]_vars PROVE JoinCoversClaim'
  OBVIOUS
<1>0. JoinCoversClaim  BY DEF IInv
<1>1. ASSUME NEW w \in Writer,
             InsertHistory(w) \/ UpsertWriteLatest(w) \/ InsertOutbox(w)
               \/ Abort(w)
      PROVE  JoinCoversClaim'
  BY <1>0, <1>1 DEF JoinCoversClaim, Joined, InsertHistory, UpsertWriteLatest,
                    InsertOutbox, Abort, primary, threads
<1>2. ASSUME NEW w \in Writer, Commit(w) PROVE JoinCoversClaim'
  <2>1. SUFFICES ASSUME dpc' \in {"history", "latest", "delete"}
                 PROVE  /\ claimed' \subseteq Seqs(outbox')
                        /\ rows' = Joined(claimed)'
                        /\ \A o \in outbox' : o.seq \in claimed' => o.hid \in Ids(rows')
    BY DEF JoinCoversClaim
  <2>2. /\ claimed \subseteq Seqs(outbox) /\ rows = Joined(claimed)
        /\ \A o \in outbox : o.seq \in claimed => o.hid \in Ids(rows)
    BY <1>0, <1>2, <2>1, CommitFrame DEF JoinCoversClaim
  <2>3. Seqs(outbox) \subseteq Seqs(outbox')
    BY <1>2, CommitFrame DEF Seqs
  <2> QED  BY <1>2, <2>2, <2>3, CommitFrame
<1>3. CASE Fetch
  <2>1. claimed \subseteq Seqs(outbox)
    BY <1>3 DEF IInv, DrainProgress, Fetch
  <2>2. /\ rows' = Joined(claimed)
        /\ UNCHANGED <<writeHistory, outbox, claimed>>
    BY <1>3 DEF Fetch, primary
  <2>3. ASSUME NEW o \in outbox, o.seq \in claimed PROVE o.hid \in Ids(rows')
    <3>1. PICK r \in writeHistory : r.id = o.hid
      BY DEF IInv, EntriesHaveRows, HistoryIdsOf, Ids
    <3>2. r \in rows'  BY <2>2, <2>3, <3>1 DEF Joined
    <3> QED  BY <3>1, <3>2 DEF Ids
  <2> QED  BY <2>1, <2>2, <2>3 DEF JoinCoversClaim, Joined
<1>4. CASE InsertReadHistory \/ UpsertReadLatest
  BY <1>0, <1>4 DEF JoinCoversClaim, Joined, InsertReadHistory,
                    UpsertReadLatest, primary
<1>5. CASE Tick \/ CheckQueue \/ TryLock \/ Claim \/ DeleteOutbox \/ DrainFails
           \/ Crash
  BY <1>5 DEF JoinCoversClaim, Tick, CheckQueue, TryLock, Claim, DeleteOutbox,
              DrainFails, Crash, Leave
<1>6. CASE ClearAny
  <2>1. UNCHANGED <<dpc, claimed, rows>>  BY <1>6, ClearFrame
  <2>2. CASE dpc \in {"history", "latest", "delete"}
    <3>1. UNCHANGED <<writeHistory, outbox>>
      BY <1>6, <2>2, ClearWhileDraining DEF IInv, Draining
    <3> QED  BY <1>0, <2>1, <3>1 DEF JoinCoversClaim, Joined
  <2> QED  BY <2>1, <2>2 DEF JoinCoversClaim
<1>7. CASE UNCHANGED vars
  BY <1>0, <1>7 DEF JoinCoversClaim, Joined, vars, primary, drain
<1> QED  BY <1>1, <1>2, <1>3, <1>4, <1>5, <1>6, <1>7, StepKinds
       DEF DrainAny, DrainStep

\* Every step leaves what the drain did in step with its next statement.
LEMMA ProgressStep == IInv /\ [Next]_vars => DrainProgress'
<1> SUFFICES ASSUME IInv, [Next]_vars PROVE DrainProgress'
  OBVIOUS
<1>0. DrainProgress  BY DEF IInv
<1>1. ASSUME NEW w \in Writer,
             InsertHistory(w) \/ UpsertWriteLatest(w) \/ InsertOutbox(w)
               \/ Abort(w)
      PROVE  DrainProgress'
  BY <1>0, <1>1 DEF DrainProgress, InsertHistory, UpsertWriteLatest,
                    InsertOutbox, Abort, primary, readDb, threads
<1>2. ASSUME NEW w \in Writer, Commit(w) PROVE DrainProgress'
  <2>1. Seqs(outbox) \subseteq Seqs(outbox')
    BY <1>2, CommitFrame DEF Seqs
  <2> QED  BY <1>0, <1>2, <2>1, CommitFrame DEF DrainProgress
<1>3. CASE Claim
  BY <1>3 DEF DrainProgress, Claim, Leave, Oldest, primary, Seqs
<1>4. CASE Fetch
  BY <1>4 DEF DrainProgress, Fetch
<1>5. CASE InsertReadHistory
  <2>1. rows \subseteq writeHistory
    BY <1>5, FetchedAreWritten DEF IInv, InsertReadHistory
  <2>2. \A r \in rows, q \in readHistory : r.id = q.id => r = q
    BY <2>1 DEF IInv, RowsAreFresh, AllRows
  <2>3. InsertDoNothing(readHistory, rows) = readHistory \cup rows
    BY <2>2, InsertDoNothingResult
  <2> QED  BY <1>5, <2>3 DEF DrainProgress, InsertReadHistory
<1>6. CASE UpsertReadLatest
  <2>1. PICK pick \in LatestArgs : readLatest' = Upsert(readLatest, pick)
    BY <1>6 DEF UpsertReadLatest
  <2>2. UpsertOutcome(readLatest, pick, readLatest')
    BY <1>6, <2>1, ReadUpsert DEF IInv, UpsertReadLatest
  <2> DEFINE E == EventsOf(rows)
  <2>3. E \in SUBSET Event /\ pick \in NewestPerImsi(E)
    BY <2>1, EventsOfRows DEF LatestArgs, IInv, TypeOK
  <2>4. \A r \in rows : r.event \in E  BY DEF EventsOf
  <2> HIDE DEF E
  <2>5. ASSUME NEW r \in rows PROVE Shows(readLatest', r.event)
    <3> DEFINE i == ImsiOf[r.event]
    <3>1. r.event \in Event  BY <2>3, <2>4
    <3>2. i \in DOMAIN pick /\ NotOlder(pick[i], r.event) /\ pick[i] \in Event
      BY <2>3, <2>4, NewestPerImsiPick
    <3>3. i \in DOMAIN readLatest' /\ NotOlder(readLatest'[i].cur, pick[i])
      BY <2>2, <3>2 DEF UpsertOutcome
    <3>4. readLatest'[i].cur \in Event
      BY <2>2, <3>3, LatestTableElim DEF UpsertOutcome
    <3>5. NotOlder(readLatest'[i].cur, r.event)
      BY <3>1, <3>2, <3>3, <3>4, NotOlderOrder
    <3> QED  BY <3>3, <3>5 DEF Shows
  <2> QED  BY <1>0, <1>6, <2>5 DEF DrainProgress, UpsertReadLatest
<1>7. CASE Tick \/ CheckQueue \/ TryLock \/ DeleteOutbox \/ DrainFails \/ Crash
  BY <1>7 DEF DrainProgress, Tick, CheckQueue, TryLock, DeleteOutbox,
              DrainFails, Crash, Leave
<1>8. CASE ClearAny
  <2>1. UNCHANGED <<dpc, claimed, rows>>  BY <1>8, ClearFrame
  <2>2. CASE dpc \in Draining
    BY <1>0, <1>8, <2>1, <2>2, ClearWhileDraining DEF DrainProgress, IInv
  <2>3. CASE dpc \notin Draining
    BY <2>1, <2>3 DEF DrainProgress, Draining
  <2> QED  BY <2>2, <2>3
<1>9. CASE UNCHANGED vars
  BY <1>0, <1>9 DEF DrainProgress, vars, primary, readDb, drain
<1> QED  BY <1>1, <1>2, <1>3, <1>4, <1>5, <1>6, <1>7, <1>8, <1>9, StepKinds
       DEF DrainAny, DrainStep

\* Every step keeps what is written during a clear pending.
LEMMA HalfwayStep == IInv /\ [Next]_vars => ClearHalfway'
<1> SUFFICES ASSUME IInv, [Next]_vars, NEW c \in Clearer, cpc'[c] = "read"
             PROVE  writeHistory' \subseteq Pending'
  BY DEF ClearHalfway
<1>0. cpc[c] = "read" => writeHistory \subseteq Pending
  BY DEF IInv, ClearHalfway
<1>1. ASSUME NEW w \in Writer,
             InsertHistory(w) \/ UpsertWriteLatest(w) \/ InsertOutbox(w)
               \/ Abort(w)
      PROVE  writeHistory' \subseteq Pending'
  BY <1>0, <1>1 DEF Pending, InsertHistory, UpsertWriteLatest, InsertOutbox,
                    Abort, primary, threads
<1>2. ASSUME NEW w \in Writer, Commit(w) PROVE writeHistory' \subseteq Pending'
  <2>1. cpc[c] = "read"  BY <1>2, CommitFrame
  <2>2. \A r \in wrows[w] : r.id \in Ids(wrows[w])  BY DEF Ids
  <2> QED  BY <1>0, <1>2, <2>1, <2>2, CommitFrame DEF Pending
<1>3. CASE DrainAny
  <2>1. cpc[c] = "read" /\ writeHistory' = writeHistory
    BY <1>3, DrainFrame
  <2>2. dpc \notin Draining
    BY <2>1, ThreadAssumption DEF IInv, LockDiscipline, Clearing
  <2>3. outbox' = outbox
    BY <1>3, <2>2 DEF DrainAny, DrainStep, Draining, Tick, CheckQueue, TryLock,
                      Claim, Fetch, InsertReadHistory, UpsertReadLatest,
                      DeleteOutbox, DrainFails, primary
  <2> QED  BY <1>0, <2>1, <2>3 DEF Pending
<1>4. CASE ClearAny
  <2>1. CASE writeHistory' = {}  BY <2>1
  <2>2. CASE UNCHANGED <<writeHistory, outbox>> /\ cpc[c] = "read"
    BY <1>0, <2>2 DEF Pending
  <2>3. writeHistory' = {} \/ (UNCHANGED <<writeHistory, outbox>> /\ cpc[c] = "read")
    BY <1>4 DEF ClearAny, RequestClear, ClearStep, AcquireLock, TruncatePrimary,
                TruncateRead, ClearFails, primary, IInv, TypeOK
  <2> QED  BY <2>1, <2>2, <2>3
<1>5. CASE Crash
  BY <1>5 DEF Crash
<1>6. CASE UNCHANGED vars
  BY <1>0, <1>6 DEF Pending, vars, primary
<1> QED  BY <1>1, <1>2, <1>3, <1>4, <1>5, <1>6, StepKinds

\* A row whose entry a drain deletes was projected by that drain.
LEMMA DeletedAreProjected ==
    ASSUME IInv, dpc = "delete", NEW r \in Pending,
           r.id \notin HistoryIdsOf(Without(outbox, claimed))
    PROVE  r \in readHistory /\ Shows(readLatest, r.event)
<1>1. PICK o \in outbox : o.hid = r.id  BY DEF Pending, HistoryIdsOf
<1>2. o.seq \in claimed  BY <1>1 DEF Without, HistoryIdsOf
<1>3. r \in rows
  BY <1>1, <1>2 DEF IInv, JoinCoversClaim, Joined, Pending
<1> QED  BY <1>3 DEF IInv, DrainProgress

\* No step acknowledges what the read side does not show, or unshows it.
LEMMA AcknowledgedStep == IInv /\ [Next]_vars => AcknowledgedIsProjected'
<1> SUFFICES ASSUME IInv, [Next]_vars PROVE AcknowledgedIsProjected'
  OBVIOUS
<1>0. AcknowledgedIsProjected /\ TypeOK  BY DEF IInv
<1>1. ASSUME NEW w \in Writer,
             InsertHistory(w) \/ UpsertWriteLatest(w) \/ InsertOutbox(w)
               \/ Abort(w)
      PROVE  AcknowledgedIsProjected'
  BY <1>0, <1>1 DEF AcknowledgedIsProjected, Pending, InsertHistory,
                    UpsertWriteLatest, InsertOutbox, Abort, primary, readDb
<1>2. ASSUME NEW w \in Writer, Commit(w) PROVE AcknowledgedIsProjected'
  <2>1. \A r \in wrows[w] : r.id \in Ids(wrows[w])  BY DEF Ids
  <2>2. writeHistory' \ Pending' \subseteq writeHistory \ Pending
    BY <1>2, <2>1, CommitFrame DEF Pending
  <2> QED  BY <1>0, <1>2, <2>2, CommitFrame DEF AcknowledgedIsProjected
<1>3. CASE DrainAny
  <2> SUFFICES ASSUME NEW r \in writeHistory' \ Pending'
               PROVE  r \in readHistory' /\ Shows(readLatest', r.event)
    BY DEF AcknowledgedIsProjected
  <2>1. r \in writeHistory /\ r.event \in Event
    BY <1>0, <1>3, DrainFrame DEF TypeOK, HistoryRow
  <2>2. r \in readHistory /\ Shows(readLatest, r.event)
    <3>1. CASE r \notin Pending
      BY <1>0, <2>1, <3>1 DEF AcknowledgedIsProjected
    <3>2. CASE r \in Pending
      <4>1. r.id \notin HistoryIdsOf(outbox')
        BY <1>3, <2>1, DrainFrame DEF Pending
      <4>2. outbox' # outbox  BY <3>2, <4>1 DEF Pending
      <4>3. dpc = "delete" /\ outbox' = Without(outbox, claimed)
        BY <1>3, <4>2
           DEF DrainAny, DrainStep, Tick, CheckQueue, TryLock, Claim, Fetch,
               InsertReadHistory, UpsertReadLatest, DeleteOutbox, DrainFails,
               primary
      <4> QED  BY <3>2, <4>1, <4>3, DeletedAreProjected
    <3> QED  BY <3>1, <3>2
  <2>3. readHistory \subseteq readHistory'  BY <1>3, DrainFrame
  <2>4. readLatest \in LatestTable /\ readLatest' \in LatestTable
    BY <1>0, TypeStep DEF IInv, TypeOK
  <2>5. NotBehind(readLatest', readLatest)  BY <1>3, DrainReads DEF IInv
  <2> QED  BY <2>1, <2>2, <2>3, <2>4, <2>5, NotBehindShows
<1>4. CASE ClearAny
  <2>1. CASE writeHistory' = {}
    BY <2>1 DEF AcknowledgedIsProjected
  <2>2. CASE UNCHANGED <<writeHistory, outbox, readHistory, readLatest>>
    BY <1>0, <2>2 DEF AcknowledgedIsProjected, Pending
  <2>3. CASE UNCHANGED <<writeHistory, outbox>> /\ \E c \in Clearer : cpc[c] = "read"
    BY <2>3 DEF IInv, ClearHalfway, AcknowledgedIsProjected, Pending
  <2> QED  BY <1>4, <2>1, <2>2, <2>3
         DEF ClearAny, RequestClear, ClearStep, AcquireLock, TruncatePrimary,
             TruncateRead, ClearFails, primary, readDb
<1>5. CASE Crash \/ UNCHANGED vars
  BY <1>0, <1>5 DEF AcknowledgedIsProjected, Pending, Crash, vars, primary, readDb
<1> QED  BY <1>1, <1>2, <1>3, <1>4, <1>5, StepKinds

\* Every step keeps the latest rows backed by the read history.
LEMMA ReadHistoryStep == IInv /\ [Next]_vars => ReadLatestHasHistory'
<1> SUFFICES ASSUME IInv, [Next]_vars PROVE ReadLatestHasHistory'
  OBVIOUS
<1>0. ReadLatestHasHistory  BY DEF IInv
<1>1. CASE UNCHANGED <<readHistory, readLatest>>
  BY <1>0, <1>1 DEF ReadLatestHasHistory
<1>2. CASE DrainAny
  BY <1>2, DrainReads DEF IInv, ReadLatestHasHistory
<1>3. CASE ClearAny
  BY <1>1, <1>3, ClearFrame, EmptyTableType DEF ReadLatestHasHistory, DrawnFrom
<1>4. ASSUME NEW w \in Writer,
             InsertHistory(w) \/ UpsertWriteLatest(w) \/ InsertOutbox(w)
               \/ Commit(w) \/ Abort(w)
      PROVE  UNCHANGED <<readHistory, readLatest>>
  BY <1>4 DEF InsertHistory, UpsertWriteLatest, InsertOutbox, Commit, Abort, readDb
<1>5. CASE Crash \/ UNCHANGED vars
  BY <1>1, <1>5 DEF Crash, vars, readDb
<1> QED  BY <1>1, <1>2, <1>3, <1>4, <1>5, StepKinds

-----------------------------------------------------------------------------
(***************************************************************************)
(* The theorems.                                                           *)
(***************************************************************************)
\* The invariant holds at the start.
LEMMA InvInit == Init => IInv
<1> SUFFICES ASSUME Init PROVE IInv
  OBVIOUS
<1>1. TypeOK  BY TypeInit
<1>2. FiniteTables  BY FS_EmptySet DEF Init, FiniteTables
<1>3. LockDiscipline
  BY ThreadAssumption DEF Init, LockDiscipline, Draining, Clearing
<1>4. TransactionShape  BY DEF Init, TransactionShape
<1>5. RowsAreFresh  BY DEF Init, RowsAreFresh, AllRows
<1>6. EntriesAreFresh /\ EntriesHaveRows
  BY DEF Init, EntriesAreFresh, EntriesHaveRows, Seqs, HistoryIdsOf, Ids
<1>7. UpsertsAreNewest /\ WriteLatestIsNewest
  BY EmptyTableType DEF Init, UpsertsAreNewest, WriteLatestIsNewest, DrawnFrom
<1>8. JoinCoversClaim /\ DrainProgress /\ ClearHalfway
  BY DEF Init, JoinCoversClaim, DrainProgress, ClearHalfway
<1>9. AcknowledgedIsProjected /\ ReadLatestHasHistory
  BY EmptyTableType
     DEF Init, AcknowledgedIsProjected, ReadLatestHasHistory, DrawnFrom
<1> QED  BY <1>1, <1>2, <1>3, <1>4, <1>5, <1>6, <1>7, <1>8, <1>9 DEF IInv

\* Every step keeps the invariant.
LEMMA InvStep == IInv /\ [Next]_vars => IInv'
<1> SUFFICES ASSUME IInv, [Next]_vars PROVE IInv'
  OBVIOUS
<1>1. TypeOK' /\ FiniteTables'  BY TypeStep, FiniteStep DEF IInv
<1>2. LockDiscipline' /\ TransactionShape'  BY LockStep, ShapeStep DEF IInv
<1>3. RowsAreFresh'  BY FreshRowsStep DEF IInv
<1>4. EntriesAreFresh' /\ EntriesHaveRows'
  BY FreshEntriesStep, EntriesHaveRowsStep DEF IInv
<1>5. UpsertsAreNewest' /\ WriteLatestIsNewest'
  BY LatestStep DEF IInv, LatestLayer
<1>6. JoinCoversClaim' /\ DrainProgress' /\ ClearHalfway'
  BY JoinStep, ProgressStep, HalfwayStep
<1>7. AcknowledgedIsProjected' /\ ReadLatestHasHistory'
  BY AcknowledgedStep, ReadHistoryStep
<1> QED  BY <1>1, <1>2, <1>3, <1>4, <1>5, <1>6, <1>7 DEF IInv

\* The inductive invariant holds of every behaviour: of any number of writers
\* and clears, any batch and chunk size, and any number of faults.
THEOREM Invariance == Spec => []IInv
<1> QED  BY InvInit, InvStep, PTL DEF Spec

\* Every variable keeps its type.
THEOREM TypeCorrectness == Spec => []TypeOK
<1>1. IInv => TypeOK  BY DEF IInv
<1> QED  BY <1>1, Invariance, PTL

\* No committed write is lost: once drainOnce has deleted its outbox entry the
\* read side shows it, whatever failed, crashed or was retried on the way.
THEOREM NoWriteIsLost == Spec => []AcknowledgedIsProjected
<1>1. IInv => AcknowledgedIsProjected  BY DEF IInv
<1> QED  BY <1>1, Invariance, PTL

\* Whatever latest row a reader sees, its event is in the read history.
THEOREM LatestIsBackedByHistory == Spec => []ReadLatestHasHistory
<1>1. IInv => ReadLatestHasHistory  BY DEF IInv
<1> QED  BY <1>1, Invariance, PTL

\* However transactions overlap, cqrs_write_latest holds a newest event of the
\* write history for every IMSI.
THEOREM WriteSideIsNewest == Spec => []WriteLatestIsNewest
<1>1. IInv => WriteLatestIsNewest  BY DEF IInv
<1> QED  BY <1>1, Invariance, PTL

\* drainOnce never deletes an entry whose row its join did not return.
THEOREM JoinIsComplete == Spec => []JoinCoversClaim
<1>1. IInv => JoinCoversClaim  BY DEF IInv
<1> QED  BY <1>1, Invariance, PTL

\* Ids identify events on both sides for good, across clears and retries.
THEOREM IdsIdentifyEvents == Spec => []OneRowPerEvent
<1>1. IInv => OneRowPerEvent
  BY DEF IInv, RowsAreFresh, OneRowPerEvent, AllRows
<1> QED  BY <1>1, Invariance, PTL

\* A drained backlog means equal histories and equally fresh latest tables.
THEOREM SettledAgreement == Spec => []SettledViewsAgree
<1>1. IInv => SettledViewsAgree
  <2> SUFFICES ASSUME IInv, outbox = {}, readHistory \subseteq writeHistory
               PROVE  /\ readHistory = writeHistory
                      /\ SameTimestamps(readLatest, writeLatest)
    BY DEF SettledViewsAgree, Settled
  <2>1. Pending = {}  BY DEF Pending, HistoryIdsOf
  <2>2. \A r \in writeHistory : r \in readHistory /\ Shows(readLatest, r.event)
    BY <2>1 DEF IInv, AcknowledgedIsProjected
  <2>3. readHistory = writeHistory  BY <2>2
  <2> DEFINE E == EventsOf(writeHistory)
  <2>4. E \in SUBSET Event  BY EventsOfRows DEF IInv, TypeOK
  <2>5. DrawnFrom(readLatest, E) /\ DrawnFrom(writeLatest, E)
    BY <2>3 DEF IInv, ReadLatestHasHistory, WriteLatestIsNewest
  <2>6. \A e \in E : Shows(readLatest, e) /\ Shows(writeLatest, e)
    BY <2>2 DEF EventsOf, IInv, WriteLatestIsNewest
  <2> HIDE DEF E
  <2>7. DOMAIN readLatest = DOMAIN writeLatest
    BY <2>5, <2>6 DEF DrawnFrom, Shows
  <2>8. ASSUME NEW i \in DOMAIN readLatest
        PROVE  UpdatedAt[readLatest[i].cur] = UpdatedAt[writeLatest[i].cur]
    <3>1. /\ readLatest[i].cur \in E /\ ImsiOf[readLatest[i].cur] = i
          /\ writeLatest[i].cur \in E /\ ImsiOf[writeLatest[i].cur] = i
      BY <2>5, <2>7 DEF DrawnFrom
    <3>2. /\ NotOlder(readLatest[i].cur, writeLatest[i].cur)
          /\ NotOlder(writeLatest[i].cur, readLatest[i].cur)
      BY <2>6, <3>1 DEF Shows
    <3> QED  BY <2>4, <3>1, <3>2, NotOlderOrder
  <2> QED  BY <2>3, <2>7, <2>8 DEF SameTimestamps
<1> QED  BY <1>1, Invariance, PTL

\* A drain that began before a clear never brings back what it truncated.
THEOREM NothingIsResurrected == Spec => NoResurrection
<1>1. IInv /\ [Next]_vars => [readHistory' \ readHistory \subseteq writeHistory]_vars
  <2> SUFFICES ASSUME IInv, [Next]_vars
               PROVE  readHistory' \ readHistory \subseteq writeHistory
    OBVIOUS
  <2>1. CASE DrainAny
    BY <2>1, DrainFrame, FetchedAreWritten DEF IInv
  <2>2. CASE ClearAny
    BY <2>2, ClearFrame
  <2>3. ASSUME NEW w \in Writer,
               InsertHistory(w) \/ UpsertWriteLatest(w) \/ InsertOutbox(w)
                 \/ Commit(w) \/ Abort(w)
        PROVE  readHistory' = readHistory
    BY <2>3 DEF InsertHistory, UpsertWriteLatest, InsertOutbox, Commit, Abort,
                readDb
  <2>4. CASE Crash \/ UNCHANGED vars
    BY <2>4 DEF Crash, vars, readDb
  <2> QED  BY <2>1, <2>2, <2>3, <2>4, StepKinds
<1> QED  BY <1>1, Invariance, PTL DEF Spec, NoResurrection

\* A reader of the read side never goes back in time, except through a clear,
\* and then nothing that was written is missing for good.
THEOREM ReadersNeverGoBack == Spec => ReadSideNeverGoesBack
<1> DEFINE Forward == /\ readHistory \subseteq readHistory'
                      /\ NotBehind(readLatest', readLatest)
           Emptied == /\ readHistory' = {}
                      /\ readLatest' = EmptyTable
                      /\ writeHistory' \subseteq Pending'
<1>1. IInv /\ [Next]_vars => [Forward \/ Emptied]_vars
  <2> SUFFICES ASSUME IInv, [Next]_vars PROVE Forward \/ Emptied
    OBVIOUS
  <2>1. CASE UNCHANGED <<readHistory, readLatest>>
    BY <2>1, NotBehindSelf DEF IInv, TypeOK
  <2>2. CASE DrainAny
    BY <2>2, DrainFrame, DrainReads DEF IInv
  <2>3. CASE ClearAny
    <3>1. CASE /\ readHistory' = {} /\ readLatest' = EmptyTable
               /\ UNCHANGED <<writeHistory, outbox>>
               /\ \E c \in Clearer : cpc[c] = "read"
      BY <3>1 DEF IInv, ClearHalfway, Pending
    <3> QED  BY <2>1, <2>3, <3>1
           DEF ClearAny, RequestClear, ClearStep, AcquireLock, TruncatePrimary,
               TruncateRead, ClearFails, primary, readDb
  <2>4. ASSUME NEW w \in Writer,
               InsertHistory(w) \/ UpsertWriteLatest(w) \/ InsertOutbox(w)
                 \/ Commit(w) \/ Abort(w)
        PROVE  UNCHANGED <<readHistory, readLatest>>
    BY <2>4 DEF InsertHistory, UpsertWriteLatest, InsertOutbox, Commit, Abort,
                readDb
  <2>5. CASE Crash \/ UNCHANGED vars
    BY <2>1, <2>5 DEF Crash, vars, readDb
  <2> QED  BY <2>1, <2>2, <2>3, <2>4, <2>5, StepKinds
<1> QED  BY <1>1, Invariance, PTL DEF Spec, ReadSideNeverGoesBack

-----------------------------------------------------------------------------
(***************************************************************************)
(* The counter.  What has been counted is a set of seqs that are neither   *)
(* in the outbox nor in an open transaction, so no entry is counted twice. *)
(***************************************************************************)
Numbered(entries) ==
    /\ \A o \in entries : o.seq > 0
    /\ \A o, p \in entries : o.seq = p.seq => o = p

CountedSeqs(P) ==
    /\ P \in SUBSET (1 .. outboxSeq)
    /\ Cardinality(P) = projectedRows
    /\ P \cap Seqs(outbox) = {}
    /\ \A w \in Writer : P \cap Seqs(wentries[w]) = {}

CounterInv ==
    /\ Numbered(outbox) /\ \A w \in Writer : Numbered(wentries[w])
    /\ \E P \in SUBSET (1 .. outboxSeq) : CountedSeqs(P)

\* Before the first write nothing is counted.
LEMMA CounterInit == Init => CounterInv
<1> SUFFICES ASSUME Init PROVE CounterInv
  OBVIOUS
<1>1. CountedSeqs({})
  BY FS_EmptySet DEF Init, CountedSeqs
<1>2. {} \in SUBSET (1 .. outboxSeq)
  OBVIOUS
<1> QED  BY <1>1, <1>2 DEF Init, CounterInv, Numbered

\* Every step keeps counted seqs apart from those that are still to be counted.
LEMMA CounterStep == IInv /\ CounterInv /\ [Next]_vars => CounterInv'
<1> SUFFICES ASSUME IInv, CounterInv, [Next]_vars PROVE CounterInv'
  OBVIOUS
<1>1. PICK P \in SUBSET (1 .. outboxSeq) : CountedSeqs(P)
  BY DEF CounterInv
<1>2. ASSUME \A w \in Writer : wentries'[w] \subseteq wentries[w],
             outbox' \subseteq outbox, UNCHANGED <<outboxSeq, projectedRows>>
      PROVE  CounterInv'
  <2>1. CountedSeqs(P)'
    BY <1>1, <1>2 DEF CountedSeqs, Seqs
  <2>2. Numbered(outbox') /\ \A w \in Writer : Numbered(wentries'[w])
    BY <1>2 DEF CounterInv, Numbered
  <2> QED  BY <1>2, <2>1, <2>2 DEF CounterInv
<1>3. ASSUME NEW w \in Writer, InsertHistory(w) \/ UpsertWriteLatest(w) PROVE CounterInv'
  BY <1>2, <1>3 DEF InsertHistory, UpsertWriteLatest, primary, sequences
<1>4. ASSUME NEW w \in Writer, Abort(w) PROVE CounterInv'
  BY <1>2, <1>4 DEF IInv, TypeOK, Abort, EndTransaction, primary, sequences
<1>5. ASSUME NEW w \in Writer, Commit(w) PROVE CounterInv'
  <2>1. /\ outbox' = outbox \cup wentries[w]
        /\ wentries'[w] = {}
        /\ \A v \in Writer \ {w} : wentries'[v] = wentries[v]
        /\ outboxSeq' = outboxSeq /\ projectedRows' = projectedRows
    BY <1>5 DEF IInv, TypeOK, Commit, EndTransaction, sequences
  <2>2. Seqs(outbox') = Seqs(outbox) \cup Seqs(wentries[w]) /\ Seqs({}) = {}
    BY <2>1 DEF Seqs
  <2>3. CountedSeqs(P)'
    BY <1>1, <2>1, <2>2 DEF CountedSeqs
  <2>4. \A o \in outbox, p \in wentries[w] : o.seq # p.seq
    BY DEF IInv, EntriesAreFresh, Seqs
  <2>5. Numbered(outbox') /\ \A v \in Writer : Numbered(wentries'[v])
    BY <2>1, <2>4 DEF CounterInv, Numbered
  <2> QED  BY <2>1, <2>3, <2>5 DEF CounterInv
<1>6. ASSUME NEW w \in Writer, InsertOutbox(w) PROVE CounterInv'
  <2>1. PICK seq \in NextVals(outboxSeq, wrows[w]) :
          wentries' = [wentries EXCEPT ![w] =
                         {[seq |-> seq[r], hid |-> r.id] : r \in wrows[w]}]
    BY <1>6 DEF InsertOutbox
  <2> DEFINE new == {[seq |-> seq[r], hid |-> r.id] : r \in wrows[w]}
  <2>2. /\ \A r \in wrows[w] : seq[r] \in Nat /\ seq[r] > outboxSeq
        /\ \A r, q \in wrows[w] : seq[r] = seq[q] => r = q
        /\ outboxSeq \in Nat /\ outboxSeq' \in Nat /\ outboxSeq' >= outboxSeq
    BY <1>6, NextValsAreNew DEF IInv, TypeOK, FiniteTables, InsertOutbox
  <2>3. \A o \in new : o.seq \in Nat /\ o.seq > outboxSeq
    BY <2>2
  <2>4. \A o, p \in new : o.seq = p.seq => o = p
    BY <2>2
  <2>5. /\ wentries'[w] = new
        /\ \A v \in Writer \ {w} : wentries'[v] = wentries[v]
        /\ outbox' = outbox /\ projectedRows' = projectedRows
    BY <1>6, <2>1 DEF IInv, TypeOK, InsertOutbox, primary
  <2> HIDE DEF new
  <2>6. P \in SUBSET (1 .. outboxSeq') /\ P \cap Seqs(new) = {}
    BY <2>2, <2>3 DEF Seqs
  <2>7. CountedSeqs(P)'
    BY <1>1, <2>5, <2>6 DEF CountedSeqs
  <2>8. Numbered(new)
    BY <2>2, <2>3, <2>4 DEF Numbered
  <2> QED  BY <2>5, <2>6, <2>7, <2>8 DEF CounterInv
<1>7. CASE DeleteOutbox
  <2>1. /\ dpc = "delete" /\ outbox' = Without(outbox, claimed)
        /\ projectedRows' = projectedRows + Cardinality(claimed)
        /\ outboxSeq' = outboxSeq /\ wentries' = wentries
    BY <1>7 DEF DeleteOutbox, sequences, transactions
  <2>2. claimed \subseteq Seqs(outbox)
    BY <2>1 DEF IInv, JoinCoversClaim
  <2>3. Seqs(outbox) \subseteq 1 .. outboxSeq
    BY DEF IInv, TypeOK, OutboxEntry, EntriesAreFresh, CounterInv, Numbered, Seqs
  <2>4. IsFiniteSet(P) /\ IsFiniteSet(claimed) /\ P \cap claimed = {}
    <3>1. 1 \in Int /\ outboxSeq \in Int
      BY DEF IInv, TypeOK
    <3>2. IsFiniteSet(1 .. outboxSeq)
      BY <3>1, FS_Interval
    <3>3. claimed \subseteq 1 .. outboxSeq /\ P \subseteq 1 .. outboxSeq
      BY <2>2, <2>3
    <3>4. IsFiniteSet(P) /\ IsFiniteSet(claimed)
      BY <3>2, <3>3, FS_Subset
    <3> QED  BY <1>1, <2>2, <3>4 DEF CountedSeqs
  <2>5. PICK Q : Q = P \cup claimed
    OBVIOUS
  <2>6. Cardinality(Q) = projectedRows'
    <3>1. Cardinality(P) = projectedRows /\ projectedRows \in Nat
      BY <1>1 DEF CountedSeqs, IInv, TypeOK
    <3>2. Cardinality(Q) = Cardinality(P) + Cardinality(claimed) - Cardinality(P \cap claimed)
      BY <2>4, <2>5, FS_Union
    <3>3. Cardinality(P \cap claimed) = 0 /\ Cardinality(claimed) \in Nat
      BY <2>4, FS_EmptySet, FS_CardinalityType
    <3> QED  BY <2>1, <3>1, <3>2, <3>3
  <2>7. Q \cap Seqs(outbox') = {}
    BY <1>1, <2>1, <2>5 DEF CountedSeqs, Seqs, Without
  <2>8. \A w \in Writer : Q \cap Seqs(wentries'[w]) = {}
    <3>1. \A w \in Writer : Seqs(outbox) \cap Seqs(wentries[w]) = {}
      BY DEF IInv, EntriesAreFresh, Seqs
    <3> QED  BY <1>1, <2>1, <2>2, <2>5, <3>1 DEF CountedSeqs
  <2>9. Q \in SUBSET (1 .. outboxSeq')
    BY <2>1, <2>2, <2>3, <2>5
  <2>10. CountedSeqs(Q)'
    BY <2>6, <2>7, <2>8, <2>9 DEF CountedSeqs
  <2>11. Numbered(outbox') /\ \A w \in Writer : Numbered(wentries'[w])
    BY <2>1 DEF CounterInv, Numbered, Without
  <2> QED  BY <2>9, <2>10, <2>11 DEF CounterInv
<1>8. CASE DrainAny /\ ~ DeleteOutbox
  <2>1. projectedRows' = projectedRows
    BY <1>8 DEF DrainAny, DrainStep, Tick, CheckQueue, TryLock, Claim, Fetch,
                InsertReadHistory, UpsertReadLatest, DrainFails
  <2> QED  BY <1>2, <1>8, <2>1, DrainFrame DEF Without
<1>9. CASE ClearAny
  <2>1. projectedRows' = projectedRows
    BY <1>9 DEF ClearAny, RequestClear, ClearStep, AcquireLock, TruncatePrimary,
                TruncateRead, ClearFails
  <2> QED  BY <1>2, <1>9, <2>1, ClearFrame
<1>10. CASE Crash
  <2>1. /\ projectedRows' = 0 /\ outbox' = outbox
        /\ \A w \in Writer : wentries'[w] = {}
    BY <1>10 DEF Crash, primary
  <2>2. CountedSeqs({})'
    BY <2>1, FS_EmptySet DEF CountedSeqs
  <2>3. Numbered(outbox') /\ \A w \in Writer : Numbered(wentries'[w])
    BY <2>1 DEF CounterInv, Numbered
  <2> QED  BY <2>2, <2>3 DEF CounterInv
<1>11. CASE UNCHANGED vars
  BY <1>2, <1>11 DEF vars, primary, sequences, transactions
<1> QED  BY <1>3, <1>4, <1>5, <1>6, <1>7, <1>8, <1>9, <1>10, <1>11, StepKinds

\* The counter of the projector never exceeds the entries ever written that
\* are no longer in the backlog, whatever fails, is retried or is cleared.
THEOREM EntriesAreCountedOnce == Spec => []CountedAtMostOnce
<1>1. IInv /\ CounterInv => CountedAtMostOnce
  <2> SUFFICES ASSUME IInv, CounterInv PROVE CountedAtMostOnce
    OBVIOUS
  <2>1. PICK P \in SUBSET (1 .. outboxSeq) : CountedSeqs(P)
    BY DEF CounterInv
  <2> DEFINE S == Seqs(outbox)
             f == [o \in outbox |-> o.seq]
  <2>2. S \subseteq 1 .. outboxSeq
    BY DEF IInv, TypeOK, OutboxEntry, EntriesAreFresh, CounterInv, Numbered, Seqs
  <2>3. outboxSeq \in Nat /\ IsFiniteSet(1 .. outboxSeq) /\ Cardinality(1 .. outboxSeq) = outboxSeq
    <3>1. outboxSeq \in Nat
      BY DEF IInv, TypeOK
    <3>2. /\ IsFiniteSet(1 .. outboxSeq)
          /\ Cardinality(1 .. outboxSeq) = IF 1 > outboxSeq THEN 0 ELSE outboxSeq - 1 + 1
      BY <3>1, FS_Interval
    <3>3. (IF 1 > outboxSeq THEN 0 ELSE outboxSeq - 1 + 1) = outboxSeq
      BY <3>1
    <3> QED  BY <3>1, <3>2, <3>3
  <2>4. IsFiniteSet(S) /\ IsFiniteSet(P) /\ P \cap S = {}
    BY <2>1, <2>2, <2>3, FS_Subset DEF CountedSeqs
  <2>5. f \in Injection(outbox, S)
    BY DEF CounterInv, Numbered, Seqs, Injection, IsInjective
  <2>6. Cardinality(outbox) <= Cardinality(S)
    BY <2>4, <2>5, FS_Injection
  <2> HIDE DEF S
  <2>7. Cardinality(P \cup S) = Cardinality(P) + Cardinality(S) - Cardinality(P \cap S)
    BY <2>4, FS_Union
  <2>8. Cardinality(P \cap S) = 0
    BY <2>4, FS_EmptySet
  <2>9. Cardinality(P \cup S) <= outboxSeq
    BY <2>2, <2>3, FS_Subset
  <2>10. IsFiniteSet(outbox) /\ Cardinality(outbox) \in Nat
    BY FS_CardinalityType DEF IInv, FiniteTables
  <2>11. Cardinality(P) = projectedRows /\ projectedRows \in Nat /\ Cardinality(S) \in Nat
    BY <2>1, <2>4, FS_CardinalityType DEF CountedSeqs, IInv, TypeOK
  <2> QED  BY <2>3, <2>6, <2>7, <2>8, <2>9, <2>10, <2>11 DEF CountedAtMostOnce
<1> QED  BY <1>1, CounterInit, CounterStep, Invariance, PTL DEF Spec

-----------------------------------------------------------------------------
(***************************************************************************)
(* The refinement: every step is a step of OutboxFeed or changes nothing   *)
(* it can see.                                                             *)
(***************************************************************************)
\* The pipeline starts as the feed does.
LEMMA FeedInit == Init => Feed!Init
BY DEF Init, Feed!Init, Pending

\* Every step is one of the feed's or changes nothing it speaks of.
LEMMA FeedStep == IInv /\ [Next]_vars => [Feed!Next]_(Feed!feedVars)
<1> SUFFICES ASSUME IInv, [Next]_vars
             PROVE  Feed!Next \/ UNCHANGED <<writeHistory, Pending, readHistory>>
  BY DEF Feed!feedVars
<1>1. ASSUME UNCHANGED <<writeHistory, outbox, readHistory>>
      PROVE  UNCHANGED <<writeHistory, Pending, readHistory>>
  BY <1>1 DEF Pending
<1>2. ASSUME NEW w \in Writer,
             InsertHistory(w) \/ UpsertWriteLatest(w) \/ InsertOutbox(w)
               \/ Abort(w)
      PROVE  UNCHANGED <<writeHistory, outbox, readHistory>>
  BY <1>2 DEF InsertHistory, UpsertWriteLatest, InsertOutbox, Abort, primary, readDb
<1>3. ASSUME NEW w \in Writer, Commit(w) PROVE Feed!Next
  <2>1. wrows[w] \cap (writeHistory \cup readHistory) = {}
    BY DEF IInv, RowsAreFresh
  <2>2. writeHistory' \ writeHistory = wrows[w]  BY <1>3, <2>1, CommitFrame
  <2>3. \A r \in writeHistory : r.id \notin Ids(wrows[w])
    BY <2>1 DEF IInv, RowsAreFresh, AllRows, Ids
  <2>4. \A r \in wrows[w] : r.id \in Ids(wrows[w])  BY DEF Ids
  <2>5. Pending' = Pending \cup wrows[w]
    BY <1>3, <2>3, <2>4, CommitFrame DEF Pending
  <2>6. Feed!Append(wrows[w])
    BY <1>3, <2>1, <2>5, CommitFrame DEF Feed!Append
  <2> QED  BY <2>2, <2>6 DEF Feed!Next
<1>4. CASE DrainAny
  <2>1. CASE readHistory' # readHistory
    <3>1. dpc = "history" /\ readHistory \subseteq readHistory'
          /\ readHistory' \subseteq readHistory \cup rows
          /\ writeHistory' = writeHistory
      BY <1>4, <2>1, DrainFrame
    <3>2. rows \subseteq Pending
      BY <3>1 DEF IInv, JoinCoversClaim, Joined, Pending, HistoryIdsOf
    <3>3. outbox' = outbox
      BY <1>4, <2>1, <3>1
         DEF DrainAny, DrainStep, Tick, CheckQueue, TryLock, Claim, Fetch,
             InsertReadHistory, UpsertReadLatest, DeleteOutbox, DrainFails,
             primary
    <3>4. Pending' = Pending  BY <3>1, <3>3 DEF Pending
    <3> DEFINE S == readHistory' \ readHistory
    <3>5. S \in SUBSET Pending /\ Feed!Deliver(S)
      BY <3>1, <3>2, <3>4 DEF Feed!Deliver
    <3> QED  BY <3>5 DEF Feed!Next
  <2>2. CASE outbox' # outbox
    <3>1. dpc = "delete" /\ outbox' = Without(outbox, claimed)
          /\ UNCHANGED <<writeHistory, readHistory>>
      BY <1>4, <2>2
         DEF DrainAny, DrainStep, Tick, CheckQueue, TryLock, Claim, Fetch,
             InsertReadHistory, UpsertReadLatest, DeleteOutbox, DrainFails,
             primary, readDb
    <3> DEFINE S == Pending \ Pending'
    <3>2. S \subseteq readHistory
      BY <3>1, DeletedAreProjected DEF Pending
    <3>3. Pending' \subseteq Pending
      BY <3>1 DEF Pending, HistoryIdsOf, Without
    <3>4. S \in SUBSET Pending /\ Feed!Acknowledge(S)
      BY <3>1, <3>2, <3>3 DEF Feed!Acknowledge
    <3> QED  BY <3>4 DEF Feed!Next
  <2>3. CASE readHistory' = readHistory /\ outbox' = outbox
    BY <1>1, <1>4, <2>3, DrainFrame
  <2> QED  BY <2>1, <2>2, <2>3
<1>5. ASSUME NEW c \in Clearer, TruncatePrimary(c) PROVE Feed!Next
  BY <1>5 DEF TruncatePrimary, readDb, Pending, Feed!Next, Feed!ResetLog
<1>6. ASSUME NEW c \in Clearer, TruncateRead(c) PROVE Feed!Next
  <2>1. writeHistory \subseteq Pending
    BY <1>6 DEF IInv, ClearHalfway, TruncateRead
  <2>2. readHistory' = {} /\ UNCHANGED <<writeHistory, Pending>>
    BY <1>6 DEF TruncateRead, primary, Pending
  <2> QED  BY <2>1, <2>2 DEF Feed!Next, Feed!ResetView
<1>7. ASSUME NEW c \in Clearer, RequestClear(c) \/ AcquireLock(c) \/ ClearFails(c)
      PROVE  UNCHANGED <<writeHistory, outbox, readHistory>>
  BY <1>7 DEF RequestClear, AcquireLock, ClearFails, primary, readDb
<1>8. CASE Crash \/ UNCHANGED vars
  BY <1>1, <1>8 DEF Crash, vars, primary, readDb
<1> QED  BY <1>1, <1>2, <1>3, <1>4, <1>5, <1>6, <1>7, <1>8, StepKinds
       DEF ClearAny, ClearStep

\* The pipeline implements at-least-once, idempotent delivery.
THEOREM PipelineIsAFeed == Spec => FeedSpec
<1> QED  BY FeedInit, FeedStep, Invariance, PTL DEF Spec, FeedSpec, Feed!Spec

\* And what a feed promises: a record that is no longer pending is in the view
\* until the log forgets it, which the acknowledgement in
\* CqrsProjectorService.drainOnce rests on.
THEOREM FeedKeepsItsPromise == FeedSpec => []Feed!AcknowledgedIsInView
<1>1. Feed!Init => Feed!AcknowledgedIsInView
    BY DEF Feed!Init, Feed!AcknowledgedIsInView
<1>2. Feed!AcknowledgedIsInView /\ [Feed!Next]_(Feed!feedVars) => Feed!AcknowledgedIsInView'
    <2> SUFFICES ASSUME Feed!AcknowledgedIsInView, [Feed!Next]_(Feed!feedVars)
                 PROVE  Feed!AcknowledgedIsInView'
        OBVIOUS
    <2>1. ASSUME NEW S, Feed!Append(S) PROVE Feed!AcknowledgedIsInView'
        BY <2>1 DEF Feed!AcknowledgedIsInView, Feed!Append
    <2>2. ASSUME NEW S, Feed!Deliver(S) \/ Feed!Acknowledge(S)
          PROVE  Feed!AcknowledgedIsInView'
        BY <2>2 DEF Feed!AcknowledgedIsInView, Feed!Deliver, Feed!Acknowledge
    <2>3. ASSUME Feed!ResetLog \/ Feed!ResetView PROVE Feed!AcknowledgedIsInView'
        BY <2>3 DEF Feed!AcknowledgedIsInView, Feed!ResetLog, Feed!ResetView
    <2>4. ASSUME UNCHANGED Feed!feedVars PROVE Feed!AcknowledgedIsInView'
        BY <2>4 DEF Feed!AcknowledgedIsInView, Feed!feedVars
    <2> QED  BY <2>1, <2>2, <2>3, <2>4 DEF Feed!Next
<1> QED  BY <1>1, <1>2, PTL DEF FeedSpec, Feed!Spec
=============================================================================
