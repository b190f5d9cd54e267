------------------------------ MODULE TableLocks ------------------------------
(***************************************************************************)
(* The locks that copyIn, clear and drainOnce take on the primary database *)
(* (NormalEventStore, CqrsEventStore, CqrsProjectorService), and who waits *)
(* for whom.  PostgreSQL is external: a statement takes its table locks as *)
(* it names the tables and its row locks as it reaches the rows, keeps     *)
(* them to the end of its transaction, and a transaction that waits in a   *)
(* cycle is aborted by the deadlock detector.  The order in which waiting  *)
(* transactions are served is left open.                                   *)
(***************************************************************************)
EXTENDS Integers, Sequences, FiniteSets, Functions

CONSTANTS
    Writers,        \* threads that call copyIn: generation and benchmark load
    Imsis,          \* as positive numbers, in their order as text
    MaxCopies       \* bound: chunks copied in

Clear == "clear"
Drain == "drain"

ASSUME LocksAssumption ==
    /\ Clear \notin Writers /\ Drain \notin Writers
    /\ Imsis \subseteq Nat \ {0} /\ IsFiniteSet(Imsis)
    /\ MaxCopies \in Nat

Processes == Writers \cup {Clear, Drain}

Models == {"NORMAL", "CQRS"}
Latest == [NORMAL |-> "ue_events", CQRS |-> "cqrs_write_latest"]
History == [NORMAL |-> "ue_events_history", CQRS |-> "cqrs_write_history"]
Outbox == "cqrs_outbox"

VARIABLES
    script,     \* the locks each process has yet to take in its transaction
    held,       \* the locks each process holds
    running,    \* processes inside a transaction
    work,       \* what a writer copies: a model and the IMSIs of the chunk
    owner,      \* who has the projector's lock
    stage,      \* transactions Clear and Drain have ended in this call
    latest,     \* committed rows of the latest tables: their IMSIs
    history,    \* the same of the history tables
    copies      \* chunks begun

vars == <<script, held, running, work, owner, stage, latest, history, copies>>
tables == <<latest, history>>

Chunk == [model : Models, imsis : SUBSET Imsis]
NoChunk == [imsis |-> {}]

-----------------------------------------------------------------------------
(***************************************************************************)
(* Locks.  Row 0 stands for the table itself.                              *)
(***************************************************************************)
Lock(table, row, mode) == [table |-> table, row |-> row, mode |-> mode]
OnTable(table, mode) == Lock(table, 0, mode)

\* ACCESS EXCLUSIVE (TRUNCATE) conflicts with all, ROW EXCLUSIVE (INSERT,
\* DELETE) and ACCESS SHARE (SELECT) with nothing else; a row has one writer.
Conflict(a, b) ==
    /\ a.table = b.table /\ a.row = b.row
    /\ "AccessExclusive" \in {a.mode, b.mode} \/ a.row # 0

Blockers(p) ==
    IF script[p] = <<>> THEN {}
    ELSE {q \in Processes \ {p} : \E l \in held[q] : Conflict(l, Head(script[p]))}

\* p waits in a circle: it is among those its blockers wait for, directly or
\* through others.
WaitsForItself(p) ==
    \A S \in SUBSET Processes :
        (Blockers(p) \subseteq S /\ \A q \in S : Blockers(q) \subseteq S) => p \in S

Deadlocked == {p \in Processes : WaitsForItself(p)}

-----------------------------------------------------------------------------
(***************************************************************************)
(* Transactions and the locks they take, in order.                         *)
(***************************************************************************)
RowsOf(table, order) == [i \in DOMAIN order |-> Lock(table, order[i], "Row")]

\* The IMSIs of a chunk, in the order in which the upsert reaches their rows.
Orders == {order \in UNION {[1 .. n -> Imsis] : n \in 1 .. Cardinality(Imsis)} :
              IsInjective(order)}

\* A mistake: the order of the chunk, no DISTINCT ON .. ORDER BY.
AnyOrder(order) == TRUE

\* upsertLatestFromStaging: DISTINCT ON sorts the chunk by IMSI.
ByImsi(order) == \A i, j \in DOMAIN order : i < j => order[i] < order[j]

UpsertLatest(model, order) ==
    <<OnTable(Latest[model], "RowExclusive")>> \o RowsOf(Latest[model], order)

CopyIn(model, order) ==
    <<OnTable(History[model], "RowExclusive")>>
        \o UpsertLatest(model, order)
        \o IF model = "CQRS" THEN <<OnTable(Outbox, "RowExclusive")>> ELSE <<>>

\* A mistake: a TRUNCATE for each table.
TruncatesEach ==
    <<<<OnTable("ue_events", "AccessExclusive")>>,
      <<OnTable("ue_events_history", "AccessExclusive")>>,
      <<OnTable("cqrs_write_latest", "AccessExclusive")>>,
      <<OnTable("cqrs_write_history", "AccessExclusive")>>,
      <<OnTable(Outbox, "AccessExclusive")>>>>

\* clear of each store: one TRUNCATE.
Truncates ==
    <<<<OnTable("ue_events", "AccessExclusive"), OnTable("ue_events_history", "AccessExclusive")>>,
      <<OnTable("cqrs_write_latest", "AccessExclusive"),
        OnTable("cqrs_write_history", "AccessExclusive"), OnTable(Outbox, "AccessExclusive")>>>>

\* drainOnce: claim, fetch, delete, each a transaction of its own.
DrainStatements ==
    <<<<OnTable(Outbox, "AccessShare")>>,
      <<OnTable(Outbox, "AccessShare"), OnTable("cqrs_write_history", "AccessShare")>>,
      <<OnTable(Outbox, "RowExclusive")>>>>

Statements(p) == IF p = Clear THEN Truncates ELSE DrainStatements

Init ==
    /\ script = [p \in Processes |-> <<>>] /\ held = [p \in Processes |-> {}]
    /\ running = {}
    /\ work = [w \in Writers |-> NoChunk]
    /\ owner = "none" /\ stage = 0
    /\ latest = [m \in Models |-> {}] /\ history = [m \in Models |-> {}]
    /\ copies = 0

Begin(p, locks) ==
    /\ running' = running \cup {p}
    /\ script' = [script EXCEPT ![p] = locks]
    /\ UNCHANGED held

End(p) ==
    /\ running' = running \ {p}
    /\ script' = [script EXCEPT ![p] = <<>>]
    /\ held' = [held EXCEPT ![p] = {}]

\* copyIn of a chunk with events of these IMSIs.
BeginCopy(w, model, order) ==
    /\ w \notin running /\ copies < MaxCopies
    /\ ByImsi(order)
    /\ copies' = copies + 1
    /\ work' = [work EXCEPT ![w] = [model |-> model, imsis |-> Range(order)]]
    /\ Begin(w, CopyIn(model, order))
    /\ UNCHANGED <<owner, stage, tables>>

\* runExclusive waits for the lock, scheduledDrain tries it.
BeginCall(p) ==
    /\ owner = "none"
    /\ owner' = p
    /\ Begin(p, Statements(p)[1])
    /\ UNCHANGED <<work, stage, tables, copies>>

Acquire(p) ==
    /\ script[p] # <<>>
    /\ Blockers(p) = {}
    /\ held' = [held EXCEPT ![p] = @ \cup {Head(script[p])}]
    /\ script' = [script EXCEPT ![p] = Tail(@)]
    /\ UNCHANGED <<running, work, owner, stage, tables, copies>>

\* A mistake: the connection is neither committed nor closed.
CommitCopyLeaking(w) ==
    /\ w \in running /\ script[w] = <<>>
    /\ UNCHANGED vars

CommitCopy(w) ==
    /\ w \in running /\ script[w] = <<>>
    /\ history' = [history EXCEPT ![work[w].model] = @ \cup work[w].imsis]
    /\ latest' = [latest EXCEPT ![work[w].model] = @ \cup work[w].imsis]
    /\ work' = [work EXCEPT ![w] = NoChunk]
    /\ End(w)
    /\ UNCHANGED <<owner, stage, copies>>

\* The effect of the statement, and the next one or the unlock.
CommitStatement(p) ==
    /\ p \in running /\ script[p] = <<>>
    /\ LET gone == {l.table : l \in {l \in held[p] : l.mode = "AccessExclusive"}}
       IN  /\ latest' = [m \in Models |-> IF Latest[m] \in gone THEN {} ELSE latest[m]]
           /\ history' = [m \in Models |-> IF History[m] \in gone THEN {} ELSE history[m]]
    /\ held' = [held EXCEPT ![p] = {}]
    /\ \/ /\ stage + 1 < Len(Statements(p))
          /\ stage' = stage + 1
          /\ script' = [script EXCEPT ![p] = Statements(p)[stage + 2]]
          /\ UNCHANGED <<running, owner>>
       \/ /\ stage + 1 = Len(Statements(p))
          /\ stage' = 0 /\ owner' = "none"
          /\ running' = running \ {p}
          /\ UNCHANGED script
    /\ UNCHANGED <<work, copies>>

\* The detector picks a victim: its statement throws and its transaction is
\* rolled back.  Clear and Drain throw on, through the finally that unlocks.
Abort(p) ==
    /\ p \in Deadlocked
    /\ End(p)
    /\ IF p \in Writers
       THEN work' = [work EXCEPT ![p] = NoChunk] /\ UNCHANGED <<owner, stage>>
       ELSE owner' = "none" /\ stage' = 0 /\ UNCHANGED work
    /\ UNCHANGED <<tables, copies>>

Ends(p) == IF p \in Writers THEN CommitCopy(p) ELSE CommitStatement(p)

Next ==
    \/ \E w \in Writers, model \in Models, order \in Orders : BeginCopy(w, model, order)
    \/ \E p \in {Clear, Drain} : BeginCall(p)
    \/ \E p \in Processes : Acquire(p) \/ Ends(p) \/ Abort(p)

Spec == Init /\ [][Next]_vars

\* PostgreSQL queues the requests for a lock, so that later ones cannot keep
\* one waiting for ever; a transaction goes on; the detector finds what is
\* deadlocked.
FairSpec ==
    /\ Spec
    /\ \A p \in Processes : SF_vars(Acquire(p)) /\ WF_vars(Ends(p))
    /\ WF_vars(\E p \in Processes : Abort(p))

-----------------------------------------------------------------------------
(***************************************************************************)
(* Properties.                                                             *)
(***************************************************************************)
TypeOK ==
    /\ DOMAIN script = Processes /\ DOMAIN held = Processes
    /\ running \subseteq Processes
    /\ \A w \in Writers : work[w] = NoChunk \/ work[w] \in Chunk
    /\ owner \in {"none", Clear, Drain} /\ stage \in 0 .. 2
    /\ latest \in [Models -> SUBSET Imsis] /\ history \in [Models -> SUBSET Imsis]
    /\ copies \in 0 .. MaxCopies

\* Writers never wait for each other in a circle, however the IMSIs of their
\* chunks overlap: only a TRUNCATE makes a deadlock, and never one with the
\* projector in it (UeEventController.java:51).
OnlyClearsDeadlock ==
    Deadlocked # {} => Clear \in Deadlocked /\ Drain \notin Deadlocked

\* A clear takes effect between two copies and not inside one: an IMSI in a
\* latest table has its events in the history table.
LatestHasHistory == \A m \in Models : latest[m] \subseteq history[m]

\* Every transaction ends, committed or aborted, and the projector's lock is
\* given back, deadlocks included.
WorkEnds ==
    /\ \A w \in Writers : w \in running ~> w \notin running
    /\ owner # "none" ~> owner = "none"
=============================================================================
