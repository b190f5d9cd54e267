---------------------------- MODULE CqrsPipeline ----------------------------
(***************************************************************************)
(* The CQRS model of the UE tracker: transactions that write events and    *)
(* outbox entries on the primary database (CqrsEventStore.copyIn), the     *)
(* scheduled projector that drains the outbox into the read database in    *)
(* autocommit statements (CqrsProjectorService), and clears that truncate  *)
(* first one side and then the other under the projector's lock            *)
(* (UeEventController.clear, CqrsEventStore.clear).                        *)
(*                                                                         *)
(* A step is one SQL statement or one operation on the lock.  A statement  *)
(* takes effect at once; what it can fail or be cut short by is a Fault    *)
(* action, and a process crash drops every thread and rolls back every     *)
(* open transaction.  MaxFaults bounds the faults of a behaviour.          *)
(***************************************************************************)
EXTENDS EventSql

CONSTANTS
    Writer,         \* connections that run copyIn
    Clearer,        \* request threads that run POST /clear
    Projector,      \* the scheduler thread
    Nobody,         \* the lock's holder when it is free
    BatchSize,      \* benchmark.projector.batch-size
    MaxChunk,       \* bound: events in one copyIn (benchmark.generation.chunk-size)
    MaxFaults       \* bound: faults in one behaviour

ASSUME ThreadAssumption ==
    /\ Projector \notin Clearer
    /\ Nobody \notin Clearer \cup {Projector}

ASSUME BoundAssumption ==
    /\ BatchSize \in Nat \ {0}
    /\ MaxChunk \in Nat \ {0}
    /\ MaxFaults \in Nat

VARIABLES
    \* committed state of the primary database
    writeHistory,   \* cqrs_write_history
    writeLatest,    \* cqrs_write_latest
    outbox,         \* cqrs_outbox: entries [seq, hid]
    historySeq,     \* last value of cqrs_write_history_seq
    outboxSeq,      \* last value of cqrs_outbox_seq
    \* committed state of the read database
    readHistory,    \* cqrs_read_history
    readLatest,     \* cqrs_read_latest
    \* open transactions, by writer
    wpc,            \* the statement a writer runs next
    wrows,          \* history rows it inserted, also its new_ids
    wlatest,        \* latest rows it wrote, and so holds the row locks of
    wentries,       \* outbox entries it inserted
    \* the projector
    dpc,            \* its next step
    claimed,        \* drainOnce's claimed seqs
    rows,           \* drainOnce's fetched rows
    projectedRows,  \* the counter since startup
    \* clears, and the lock they share with the projector
    cpc,            \* a clearer's next step
    holder,         \* who holds the ReentrantLock
    \* the run
    sent,           \* events handed to some copyIn
    faults          \* faults so far

primary == <<writeHistory, writeLatest, outbox>>
sequences == <<historySeq, outboxSeq>>
readDb == <<readHistory, readLatest>>
transactions == <<wpc, wrows, wlatest, wentries>>
drain == <<dpc, claimed, rows>>
threads == <<dpc, claimed, rows, cpc, holder>>
vars == <<primary, sequences, readDb, transactions, drain, projectedRows,
          cpc, holder, sent, faults>>

OutboxEntry == [seq : Nat, hid : Nat]

WriterPc == {"idle", "latest", "outbox", "commit"}
ProjectorPc == {"asleep", "check", "trylock", "claim", "fetch", "history",
                "latest", "delete"}
ClearerPc == {"idle", "queued", "primary", "read"}

Draining == {"claim", "fetch", "history", "latest", "delete"}
Clearing == {"primary", "read"}

Seqs(entries) == {o.seq : o \in entries}
HistoryIdsOf(entries) == {o.hid : o \in entries}

TypeOK ==
    /\ writeHistory \in SUBSET HistoryRow
    /\ writeLatest \in LatestTable
    /\ outbox \in SUBSET OutboxEntry
    /\ historySeq \in Nat
    /\ outboxSeq \in Nat
    /\ readHistory \in SUBSET HistoryRow
    /\ readLatest \in LatestTable
    /\ wpc \in [Writer -> WriterPc]
    /\ wrows \in [Writer -> SUBSET HistoryRow]
    /\ wlatest \in [Writer -> LatestTable]
    /\ wentries \in [Writer -> SUBSET OutboxEntry]
    /\ dpc \in ProjectorPc
    /\ claimed \in SUBSET Nat
    /\ rows \in SUBSET HistoryRow
    /\ projectedRows \in Nat
    /\ cpc \in [Clearer -> ClearerPc]
    /\ holder \in Clearer \cup {Projector, Nobody}
    /\ sent \in SUBSET Event
    /\ faults \in 0 .. MaxFaults

Init ==
    /\ writeHistory = {}
    /\ writeLatest = EmptyTable
    /\ outbox = {}
    /\ historySeq = 0
    /\ outboxSeq = 0
    /\ readHistory = {}
    /\ readLatest = EmptyTable
    /\ wpc = [w \in Writer |-> "idle"]
    /\ wrows = [w \in Writer |-> {}]
    /\ wlatest = [w \in Writer |-> EmptyTable]
    /\ wentries = [w \in Writer |-> {}]
    /\ dpc = "asleep"
    /\ claimed = {}
    /\ rows = {}
    /\ projectedRows = 0
    /\ cpc = [c \in Clearer |-> "idle"]
    /\ holder = Nobody
    /\ sent = {}
    /\ faults = 0

-----------------------------------------------------------------------------
(***************************************************************************)
(* Writers.  One copyIn is one transaction; other connections see nothing *)
(* of it before the commit, but the values it drew from the sequences are  *)
(* gone whatever becomes of it.                                            *)
(***************************************************************************)
Chunk == {S \in SUBSET (Event \ sent) :
             S # {} /\ IsFiniteSet(S) /\ Cardinality(S) <= MaxChunk}

InsertHistory(w) ==
    /\ wpc[w] = "idle"
    /\ \E S \in Chunk : \E id \in NextVals(historySeq, S) :
        /\ wrows' = [wrows EXCEPT ![w] = {[id |-> id[e], event |-> e] : e \in S}]
        /\ historySeq' = historySeq + Cardinality(S)
        /\ sent' = sent \cup S
    /\ wpc' = [wpc EXCEPT ![w] = "latest"]
    /\ UNCHANGED <<primary, outboxSeq, readDb, wlatest, wentries, threads,
                   projectedRows, faults>>

\* The upsert waits for a transaction that wrote a row of one of its IMSIs,
\* and then sees what that transaction committed.
RowsFree(w, imsis) ==
    \A v \in Writer \ {w} : DOMAIN wlatest[v] \cap imsis = {}

UpsertWriteLatest(w) ==
    /\ wpc[w] = "latest"
    /\ \E pick \in NewestPerImsi(EventsOf(wrows[w])) :
        /\ RowsFree(w, DOMAIN pick)
        /\ wlatest' = [wlatest EXCEPT ![w] =
                          Restrict(Upsert(writeLatest, pick), DOMAIN pick)]
    /\ wpc' = [wpc EXCEPT ![w] = "outbox"]
    /\ UNCHANGED <<primary, sequences, readDb, wrows, wentries, threads,
                   projectedRows, sent, faults>>

\* A mistake: one entry per IMSI instead of one per row.
InsertOutboxPerImsi(w) ==
    /\ wpc[w] = "outbox"
    /\ \E pick \in NewestPerImsi(EventsOf(wrows[w])) :
        LET S == {r \in wrows[w] : r.event \in Range(pick)}
        IN  \E seq \in NextVals(outboxSeq, S) :
                /\ wentries' = [wentries EXCEPT ![w] =
                                   {[seq |-> seq[r], hid |-> r.id] : r \in S}]
                /\ outboxSeq' = outboxSeq + Cardinality(S)
    /\ wpc' = [wpc EXCEPT ![w] = "commit"]
    /\ UNCHANGED <<primary, historySeq, readDb, wrows, wlatest, threads,
                   projectedRows, sent, faults>>

InsertOutbox(w) ==
    /\ wpc[w] = "outbox"
    /\ \E seq \in NextVals(outboxSeq, wrows[w]) :
        wentries' = [wentries EXCEPT ![w] =
                        {[seq |-> seq[r], hid |-> r.id] : r \in wrows[w]}]
    /\ outboxSeq' = outboxSeq + Cardinality(wrows[w])
    /\ wpc' = [wpc EXCEPT ![w] = "commit"]
    /\ UNCHANGED <<primary, historySeq, readDb, wrows, wlatest, threads,
                   projectedRows, sent, faults>>

EndTransaction(w) ==
    /\ wpc' = [wpc EXCEPT ![w] = "idle"]
    /\ wrows' = [wrows EXCEPT ![w] = {}]
    /\ wlatest' = [wlatest EXCEPT ![w] = EmptyTable]
    /\ wentries' = [wentries EXCEPT ![w] = {}]

Overwrite(table, new) ==
    [i \in DOMAIN table \cup DOMAIN new |->
        IF i \in DOMAIN new THEN new[i] ELSE table[i]]

Commit(w) ==
    /\ wpc[w] = "commit"
    /\ writeHistory' = writeHistory \cup wrows[w]
    /\ writeLatest' = Overwrite(writeLatest, wlatest[w])
    /\ outbox' = outbox \cup wentries[w]
    /\ EndTransaction(w)
    /\ UNCHANGED <<sequences, readDb, threads, projectedRows, sent, faults>>

-----------------------------------------------------------------------------
(***************************************************************************)
(* The projector.  Its lock spans one batch; every statement commits by    *)
(* itself.                                                                 *)
(***************************************************************************)
Queued == \E c \in Clearer : cpc[c] = "queued"

\* The fixed delay is over: scheduledDrain is called.
Tick ==
    /\ dpc = "asleep"
    /\ dpc' = "check"
    /\ UNCHANGED <<primary, sequences, readDb, transactions, claimed, rows,
                   projectedRows, cpc, holder, sent, faults>>

\* A mistake: the projector does not look at the lock's queue.
IgnoreQueue ==
    /\ dpc = "check"
    /\ dpc' = "trylock"
    /\ UNCHANGED <<primary, sequences, readDb, transactions, claimed, rows,
                   projectedRows, cpc, holder, sent, faults>>

\* lock.hasQueuedThreads()
CheckQueue ==
    /\ dpc = "check"
    /\ dpc' = IF Queued THEN "asleep" ELSE "trylock"
    /\ UNCHANGED <<primary, sequences, readDb, transactions, claimed, rows,
                   projectedRows, cpc, holder, sent, faults>>

\* A mistake: draining without the lock.
SkipLock ==
    /\ dpc = "trylock"
    /\ dpc' = "claim"
    /\ UNCHANGED <<primary, sequences, readDb, transactions, claimed, rows,
                   projectedRows, cpc, holder, sent, faults>>

\* lock.tryLock() takes a free lock whoever waits for it.
TryLock ==
    /\ dpc = "trylock"
    /\ IF holder = Nobody
       THEN dpc' = "claim" /\ holder' = Projector
       ELSE dpc' = "asleep" /\ UNCHANGED holder
    /\ UNCHANGED <<primary, sequences, readDb, transactions, claimed, rows,
                   projectedRows, cpc, sent, faults>>

\* drainOnce returned or threw: unlock, and loop or return to the scheduler.
Leave(pc) ==
    /\ dpc' = pc
    /\ claimed' = {}
    /\ rows' = {}
    /\ holder' = Nobody

\* SELECT seq FROM cqrs_outbox ORDER BY seq LIMIT ?
Oldest(seqs, n) == {s \in seqs : Cardinality({t \in seqs : t < s}) < n}

\* A mistake: returning before the try, so that an empty drain never unlocks.
ClaimKeepingLock ==
    /\ dpc = "claim"
    /\ \/ /\ outbox = {}
          /\ dpc' = "asleep"
          /\ UNCHANGED claimed
       \/ /\ outbox # {}
          /\ claimed' = Oldest(Seqs(outbox), BatchSize)
          /\ dpc' = "fetch"
    /\ UNCHANGED <<primary, sequences, readDb, transactions, rows,
                   projectedRows, cpc, holder, sent, faults>>

Claim ==
    /\ dpc = "claim"
    /\ \/ /\ outbox = {}
          /\ Leave("asleep")
       \/ /\ outbox # {}
          /\ claimed' = Oldest(Seqs(outbox), BatchSize)
          /\ dpc' = "fetch"
          /\ UNCHANGED <<rows, holder>>
    /\ UNCHANGED <<primary, sequences, readDb, transactions, projectedRows,
                   cpc, sent, faults>>

\* SELECT ... FROM cqrs_outbox o JOIN cqrs_write_history wh ... WHERE o.seq IN
Joined(seqs) ==
    {r \in writeHistory : \E o \in outbox : o.seq \in seqs /\ o.hid = r.id}

Fetch ==
    /\ dpc = "fetch"
    /\ rows' = Joined(claimed)
    /\ dpc' = IF rows' = {} THEN "delete" ELSE "history"
    /\ UNCHANGED <<primary, sequences, readDb, transactions, claimed,
                   projectedRows, cpc, holder, sent, faults>>

\* A mistake: the id is left to the default of cqrs_read_history.id.
InsertWithNewIds ==
    /\ dpc = "history"
    /\ \E id \in NextVals(Cardinality(readHistory), rows) :
          readHistory' = InsertDoNothing(readHistory,
                            {[id |-> id[r], event |-> r.event] : r \in rows})
    /\ dpc' = "latest"
    /\ UNCHANGED <<primary, sequences, readLatest, transactions, claimed, rows,
                   projectedRows, cpc, holder, sent, faults>>

InsertReadHistory ==
    /\ dpc = "history"
    /\ readHistory' = InsertDoNothing(readHistory, rows)
    /\ dpc' = "latest"
    /\ UNCHANGED <<primary, sequences, readLatest, transactions, claimed, rows,
                   projectedRows, cpc, holder, sent, faults>>

\* A mistake: whichever row of an IMSI comes first is kept.
FirstPerImsi ==
    {pick \in [{ImsiOf[e] : e \in EventsOf(rows)} -> EventsOf(rows)] :
        \A i \in DOMAIN pick : ImsiOf[pick[i]] = i}

\* One row per IMSI, the newest fetched; of several newest the last in the
\* order the rows happened to arrive.
LatestArgs == NewestPerImsi(EventsOf(rows))

UpsertReadLatest ==
    /\ dpc = "latest"
    /\ \E pick \in LatestArgs : readLatest' = Upsert(readLatest, pick)
    /\ dpc' = "delete"
    /\ UNCHANGED <<primary, sequences, readHistory, transactions, claimed, rows,
                   projectedRows, cpc, holder, sent, faults>>

\* A mistake: deleting up to the highest claimed seq, as if seq order were
\* commit order.
Above(entries, seqs) == {o \in entries : \A s \in seqs : s < o.seq}

Without(entries, seqs) == {o \in entries : o.seq \notin seqs}

\* A mistake: counting the batch asked for, not the batch claimed.
DeleteCountingBatch ==
    /\ dpc = "delete"
    /\ outbox' = Without(outbox, claimed)
    /\ projectedRows' = projectedRows + BatchSize
    /\ Leave("check")
    /\ UNCHANGED <<writeHistory, writeLatest, sequences, readDb, transactions,
                   cpc, sent, faults>>

DeleteOutbox ==
    /\ dpc = "delete"
    /\ outbox' = Without(outbox, claimed)
    /\ projectedRows' = projectedRows + Cardinality(claimed)
    /\ Leave("check")
    /\ UNCHANGED <<writeHistory, writeLatest, sequences, readDb, transactions,
                   cpc, sent, faults>>

-----------------------------------------------------------------------------
(***************************************************************************)
(* Clears.  TRUNCATE takes ACCESS EXCLUSIVE locks, so on the primary it    *)
(* waits until no transaction has written one of its tables.               *)
(***************************************************************************)
\* lock.lock() of a nonfair lock: taken at once when free, else wait in line.
RequestClear(c) ==
    /\ cpc[c] = "idle"
    /\ IF holder = Nobody
       THEN /\ holder' = c
            /\ cpc' = [cpc EXCEPT ![c] = "primary"]
       ELSE /\ cpc' = [cpc EXCEPT ![c] = "queued"]
            /\ UNCHANGED holder
    /\ UNCHANGED <<primary, sequences, readDb, transactions, drain,
                   projectedRows, sent, faults>>

AcquireLock(c) ==
    /\ cpc[c] = "queued"
    /\ holder = Nobody
    /\ holder' = c
    /\ cpc' = [cpc EXCEPT ![c] = "primary"]
    /\ UNCHANGED <<primary, sequences, readDb, transactions, drain,
                   projectedRows, sent, faults>>

\* A mistake: the read database is truncated first.
TruncateReadFirst(c) ==
    /\ cpc[c] = "primary"
    /\ readHistory' = {}
    /\ readLatest' = EmptyTable
    /\ cpc' = [cpc EXCEPT ![c] = "read"]
    /\ UNCHANGED <<primary, sequences, transactions, drain, projectedRows,
                   holder, sent, faults>>

TruncatePrimary(c) ==
    /\ cpc[c] = "primary"
    /\ \A w \in Writer : wpc[w] = "idle"
    /\ writeHistory' = {}
    /\ writeLatest' = EmptyTable
    /\ outbox' = {}
    /\ cpc' = [cpc EXCEPT ![c] = "read"]
    /\ UNCHANGED <<sequences, readDb, transactions, drain, projectedRows,
                   holder, sent, faults>>

\* The last statement; runExclusive's finally releases the lock.
TruncateRead(c) ==
    /\ cpc[c] = "read"
    /\ readHistory' = {}
    /\ readLatest' = EmptyTable
    /\ cpc' = [cpc EXCEPT ![c] = "idle"]
    /\ holder' = Nobody
    /\ UNCHANGED <<primary, sequences, transactions, drain, projectedRows,
                   sent, faults>>

-----------------------------------------------------------------------------
(***************************************************************************)
(* Faults: a statement throws, or the process dies.                        *)
(***************************************************************************)
Fault ==
    /\ faults < MaxFaults
    /\ faults' = faults + 1

\* withStaging's connection is closed without a commit.
Abort(w) ==
    /\ Fault
    /\ wpc[w] # "idle"
    /\ EndTransaction(w)
    /\ UNCHANGED <<primary, sequences, readDb, threads, projectedRows, sent>>

\* A statement of drainOnce throws.  A JDBC batch may have been applied in
\* part, a DELETE in full although its answer was lost; the exception leaves
\* scheduledDrain, whose finally unlocks, and the scheduler tries again later.
DrainFails ==
    /\ Fault
    /\ dpc \in Draining
    /\ \/ /\ dpc = "history"
          /\ \E done \in SUBSET rows :
                readHistory' = InsertDoNothing(readHistory, done)
          /\ UNCHANGED <<readLatest, outbox>>
       \/ /\ dpc = "latest"
          /\ \E pick \in LatestArgs : \E done \in SUBSET DOMAIN pick :
                readLatest' = Upsert(readLatest, Restrict(pick, done))
          /\ UNCHANGED <<readHistory, outbox>>
       \/ /\ dpc = "delete"
          /\ outbox' = Without(outbox, claimed)
          /\ UNCHANGED readDb
       \/ UNCHANGED <<readDb, outbox>>
    /\ Leave("asleep")
    /\ UNCHANGED <<writeHistory, writeLatest, sequences, transactions,
                   projectedRows, cpc, sent>>

\* A TRUNCATE throws (the NORMAL store's, which comes first and touches
\* nothing here, included); the request ends and the lock is released.
ClearFails(c) ==
    /\ Fault
    /\ cpc[c] \in Clearing
    /\ cpc' = [cpc EXCEPT ![c] = "idle"]
    /\ holder' = Nobody
    /\ UNCHANGED <<primary, sequences, readDb, transactions, drain,
                   projectedRows, sent>>

Crash ==
    /\ Fault
    /\ wpc' = [w \in Writer |-> "idle"]
    /\ wrows' = [w \in Writer |-> {}]
    /\ wlatest' = [w \in Writer |-> EmptyTable]
    /\ wentries' = [w \in Writer |-> {}]
    /\ Leave("asleep")
    /\ projectedRows' = 0
    /\ cpc' = [c \in Clearer |-> "idle"]
    /\ UNCHANGED <<primary, sequences, readDb, sent>>

-----------------------------------------------------------------------------
WriterStep(w) ==
    \/ UpsertWriteLatest(w)
    \/ InsertOutbox(w)
    \/ Commit(w)

DrainStep ==
    \/ Tick
    \/ CheckQueue
    \/ TryLock
    \/ Claim
    \/ Fetch
    \/ InsertReadHistory
    \/ UpsertReadLatest
    \/ DeleteOutbox

ClearStep(c) ==
    \/ AcquireLock(c)
    \/ TruncatePrimary(c)
    \/ TruncateRead(c)

FaultStep ==
    \/ \E w \in Writer : Abort(w)
    \/ DrainFails
    \/ \E c \in Clearer : ClearFails(c)
    \/ Crash

Next ==
    \/ \E w \in Writer : InsertHistory(w) \/ WriterStep(w)
    \/ DrainStep
    \/ \E c \in Clearer : RequestClear(c) \/ ClearStep(c)
    \/ FaultStep

Spec == Init /\ [][Next]_vars

\* The scheduler calls again after every return, threads run, the databases
\* answer and end transactions: every step but the arrival of a request and
\* a fault.  The lock is nonfair, so a queued thread gets it only if it stays
\* free long enough: weak fairness of AcquireLock promises no more.
Fairness ==
    /\ \A w \in Writer : /\ WF_vars(UpsertWriteLatest(w))
                         /\ WF_vars(InsertOutbox(w))
                         /\ WF_vars(Commit(w))
    /\ WF_vars(DrainStep)
    /\ \A c \in Clearer : WF_vars(ClearStep(c))

FairSpec == Spec /\ Fairness

-----------------------------------------------------------------------------
(***************************************************************************)
(* Safety.                                                                 *)
(***************************************************************************)
\* The rows the outbox still has an entry for.
Pending == {r \in writeHistory : r.id \in HistoryIdsOf(outbox)}

\* No write is lost: a committed event whose outbox entry is gone is in the
\* read history, and the read latest row of its IMSI is at least as new.
\* drainOnce must delete exactly the entries whose rows it inserted, although
\* entries commit out of seq order, drains fail halfway and clears intervene.
AcknowledgedIsProjected ==
    \A r \in writeHistory \ Pending :
        r \in readHistory /\ Shows(readLatest, r.event)

\* What GET /events shows for an IMSI is also in its history page: the read
\* latest table never runs ahead of the read history, even when a drain fails
\* between its statements or a clear ends halfway.
ReadLatestHasHistory == DrawnFrom(readLatest, EventsOf(readHistory))

\* The upsert of concurrent transactions keeps the newest event of the
\* write history per IMSI, whichever commits last.
WriteLatestIsNewest ==
    /\ DrawnFrom(writeLatest, EventsOf(writeHistory))
    /\ \A r \in writeHistory : Shows(writeLatest, r.event)

\* An event has one row, with one id, on both sides, and no id is used again:
\* what makes "ON CONFLICT (imsi_or_supi, id) DO NOTHING" an idempotent retry
\* and never the loss of another event.
OneRowPerEvent ==
    \A r, q \in writeHistory \cup readHistory :
        r.id = q.id \/ r.event = q.event => r = q

\* The join finds a row for every claimed entry until the entries are
\* deleted, so drainOnce deletes no entry it did not project.  It holds
\* because the lock keeps a clear from truncating under a drain.
JoinCoversClaim ==
    dpc \in {"history", "latest", "delete"} =>
        /\ claimed \subseteq Seqs(outbox)
        /\ rows = Joined(claimed)
        /\ \A o \in outbox : o.seq \in claimed => o.hid \in Ids(rows)

\* Since startup at most every entry ever written is counted as projected,
\* and never one that is still in the backlog.
CountedAtMostOnce == projectedRows + Cardinality(outbox) <= outboxSeq

\* Once the backlog is drained, and unless a clear stopped halfway left rows
\* behind, both sides hold the same history, and latest rows of the same
\* IMSIs with the same updated_at.
Settled == outbox = {} /\ readHistory \subseteq writeHistory

SettledViewsAgree ==
    Settled => /\ readHistory = writeHistory
               /\ SameTimestamps(readLatest, writeLatest)

-----------------------------------------------------------------------------
(***************************************************************************)
(* What a step may never do.                                               *)
(***************************************************************************)
\* Nothing appears on the read side that is not in the write history at that
\* moment: no drain that began before a clear brings back what it truncated.
NoResurrection == [][readHistory' \ readHistory \subseteq writeHistory]_vars

\* A reader never sees the read side lose a row or return to an older latest
\* event, but for a clear that empties it, and then everything the write
\* side holds is still to be projected.
ReadSideNeverGoesBack ==
    [][\/ /\ readHistory \subseteq readHistory'
          /\ NotBehind(readLatest', readLatest)
       \/ /\ readHistory' = {}
          /\ readLatest' = EmptyTable
          /\ writeHistory' \subseteq Pending']_vars

\* The pipeline is an outbox feed: at-least-once delivery that is idempotent.
Feed == INSTANCE OutboxFeed WITH log <- writeHistory,
                                 pending <- Pending,
                                 view <- readHistory

FeedSpec == Feed!Spec

-----------------------------------------------------------------------------
(***************************************************************************)
(* What the safety properties rest on: the inductive invariant, in parts.  *)
(***************************************************************************)
\* Sets that are counted are finite.
FiniteTables ==
    /\ IsFiniteSet(outbox)
    /\ IsFiniteSet(claimed)
    /\ \A w \in Writer : IsFiniteSet(wrows[w]) /\ IsFiniteSet(wentries[w])

\* The holder of the lock is the one thread between its lock and unlock.
LockDiscipline ==
    /\ dpc \in Draining <=> holder = Projector
    /\ \A c \in Clearer : cpc[c] \in Clearing <=> holder = c

\* What a transaction has written follows from the statement it runs next.
TransactionShape ==
    \A w \in Writer :
        /\ wpc[w] = "idle" => wrows[w] = {}
        /\ wpc[w] \in {"idle", "latest"} => wlatest[w] = EmptyTable
        /\ wpc[w] # "commit" => wentries[w] = {}
        /\ wpc[w] = "commit" => HistoryIdsOf(wentries[w]) = Ids(wrows[w])

\* Rows anywhere carry ids and events already handed out, and an uncommitted
\* row shares neither with any other row.
AllRows == writeHistory \cup readHistory \cup UNION {wrows[w] : w \in Writer}

RowsAreFresh ==
    /\ \A r \in AllRows : r.id <= historySeq /\ r.event \in sent
    /\ \A r, q \in AllRows : r.id = q.id \/ r.event = q.event => r = q
    /\ \A w \in Writer : wrows[w] \cap (writeHistory \cup readHistory) = {}
    /\ \A v, w \in Writer : v # w => wrows[v] \cap wrows[w] = {}

\* So do entries: a seq that is claimed never comes back in a later commit.
EntriesAreFresh ==
    /\ \A o \in outbox : o.seq <= outboxSeq
    /\ \A w \in Writer : \A o \in wentries[w] :
          o.seq <= outboxSeq /\ o.seq \notin Seqs(outbox)
    /\ \A v, w \in Writer :
          v # w => Seqs(wentries[v]) \cap Seqs(wentries[w]) = {}

EntriesHaveRows == HistoryIdsOf(outbox) \subseteq Ids(writeHistory)

\* A transaction past its upsert holds the row locks of its IMSIs, and what
\* it will commit is newest among its own rows and what is committed.
UpsertsAreNewest ==
    /\ \A v, w \in Writer :
          v # w => DOMAIN wlatest[v] \cap DOMAIN wlatest[w] = {}
    /\ \A w \in Writer :
          /\ DrawnFrom(wlatest[w], EventsOf(writeHistory \cup wrows[w]))
          /\ \A i \in DOMAIN wlatest[w] \cap DOMAIN writeLatest :
                NotOlder(wlatest[w][i].cur, writeLatest[i].cur)
          /\ wpc[w] \in {"outbox", "commit"} =>
                \A r \in wrows[w] : Shows(wlatest[w], r.event)

\* What the drain has done follows from the statement it runs next.
DrainProgress ==
    /\ dpc = "fetch" => claimed \subseteq Seqs(outbox)
    /\ dpc \in {"latest", "delete"} => rows \subseteq readHistory
    /\ dpc = "delete" => \A r \in rows : Shows(readLatest, r.event)

\* Between the two halves of a clear everything written is still pending.
ClearHalfway == (\E c \in Clearer : cpc[c] = "read") => writeHistory \subseteq Pending

IInv ==
    /\ TypeOK
    /\ FiniteTables
    /\ LockDiscipline
    /\ TransactionShape
    /\ RowsAreFresh
    /\ EntriesAreFresh
    /\ EntriesHaveRows
    /\ UpsertsAreNewest
    /\ WriteLatestIsNewest
    /\ JoinCoversClaim
    /\ DrainProgress
    /\ ClearHalfway
    /\ AcknowledgedIsProjected
    /\ ReadLatestHasHistory

-----------------------------------------------------------------------------
(***************************************************************************)
(* Liveness, under FairSpec.                                               *)
(***************************************************************************)
\* A committed event reaches the read history, unless a clear truncates it:
\* no fault, retry or clear leaves an entry behind for good.
EveryWriteReachesReadSide ==
    \A e \in Event : e \in EventsOf(writeHistory)
        ~> (e \in EventsOf(readHistory) \/ e \notin EventsOf(writeHistory))

\* A clear that waits for the lock gets it (or dies in a crash), although the
\* projector could take the lock again and again: it yields to the queue.
QueuedClearRuns == \A c \in Clearer : cpc[c] = "queued" ~> cpc[c] # "queued"

-----------------------------------------------------------------------------
(***************************************************************************)
(* Statements of the documentation that the code does not meet.            *)
(***************************************************************************)
\* "Latest event per IMSI" (EventStore.getLatest): a latest row is one event.
LatestRowIsOneEvent ==
    \A i \in DOMAIN readLatest : readLatest[i].cur = readLatest[i].ins

\* "no double-projection" (README): no row is inserted into the read history
\* a second time.
NoDoubleProjection == dpc = "history" => rows \cap readHistory = {}
=============================================================================
