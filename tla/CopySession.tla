----------------------------- MODULE CopySession -----------------------------
(***************************************************************************)
(* copyIn on pooled connections (CopySupport.withStaging, NormalEventStore *)
(* and CqrsEventStore), statement by statement.  staging_events belongs to *)
(* the connection's session and survives the transaction; new_ids is       *)
(* created in the transaction and dropped when it commits.  What a failed  *)
(* call did is undone when its connection is closed, in the session too;   *)
(* the pool hands the connection to the next call, of any thread.          *)
(*                                                                         *)
(* External: PostgreSQL's transactional DDL, TRUNCATE and COPY, and        *)
(* HikariCP's rollback of a connection that is returned uncommitted.       *)
(* Latest tables, and waiting for locks, are in CqrsPipeline and           *)
(* TableLocks.                                                             *)
(***************************************************************************)
EXTENDS Integers, FiniteSets

CONSTANTS
    Connection,     \* of the primary pool
    Call, Model, Events,
    MaxFaults       \* bound: failing statements and retired connections

ASSUME CopyAssumption ==
    /\ Model \in [Call -> {"NORMAL", "CQRS"}]
    /\ \A c \in Call : IsFiniteSet(Events[c])
    /\ \A c, d \in Call : c # d => Events[c] \cap Events[d] = {}
    /\ MaxFaults \in Nat

VARIABLES
    session,    \* temporary tables of each connection
    saved,      \* the same when its transaction began
    step,       \* the statement it runs next, "idle" in the pool
    call,       \* the call it serves, or served last
    rows,       \* history rows its transaction inserted
    entries,    \* outbox entries its transaction inserted
    history, outbox, done,  \* committed
    lastId, lastSeq,        \* of the sequences
    began,      \* calls that got a connection
    faults

open == <<session, saved, step, call, rows, entries>>
committed == <<history, outbox, done>>
vars == <<open, committed, lastId, lastSeq, began, faults>>

NoTable == [exists |-> FALSE, rows |-> {}]
Holding(S) == [exists |-> TRUE, rows |-> S]
NewSession == [staging |-> NoTable, newIds |-> NoTable]

Init ==
    /\ session = [k \in Connection |-> NewSession] /\ saved = session
    /\ step = [k \in Connection |-> "idle"]
    /\ call \in [Connection -> Call]
    /\ rows = [k \in Connection |-> {}] /\ entries = rows
    /\ history = {} /\ outbox = {} /\ done = {}
    /\ lastId = 0 /\ lastSeq = 0 /\ began = {} /\ faults = 0

Goes(k, from, to) == step[k] = from /\ step' = [step EXCEPT ![k] = to]

\* CREATE TEMP TABLE IF NOT EXISTS
Created(table) == Holding(table.rows)

\* Numbers for the members of S, in any order: one nextval for each.
Numbering(S, last) ==
    {f \in [S -> (last + 1) .. (last + Cardinality(S))] :
        \A a, b \in S : f[a] = f[b] => a = b}

Borrow(k, c) ==
    /\ c \notin began
    /\ Goes(k, "idle", "create")
    /\ began' = began \cup {c}
    /\ call' = [call EXCEPT ![k] = c]
    /\ saved' = [saved EXCEPT ![k] = session[k]]
    /\ UNCHANGED <<session, rows, entries, committed, lastId, lastSeq, faults>>

CreateStaging(k) ==
    /\ Goes(k, "create", "truncate")
    /\ session' = [session EXCEPT ![k].staging = Created(@)]
    /\ UNCHANGED <<saved, call, rows, entries, committed, lastId, lastSeq, began, faults>>

\* A mistake: the table is taken to be empty.
LeaveStaging(k) ==
    /\ Goes(k, "truncate", "copy")
    /\ UNCHANGED <<session, saved, call, rows, entries, committed, lastId, lastSeq, began, faults>>

TruncateStaging(k) ==
    /\ Goes(k, "truncate", "copy")
    /\ session' = [session EXCEPT ![k].staging = Holding({})]
    /\ UNCHANGED <<saved, call, rows, entries, committed, lastId, lastSeq, began, faults>>

\* COPY staging_events FROM STDIN
CopyChunk(k) ==
    /\ Goes(k, "copy", IF Model[call[k]] = "CQRS" THEN "createIds" ELSE "insert")
    /\ session' = [session EXCEPT ![k].staging.rows = @ \cup Events[call[k]]]
    /\ UNCHANGED <<saved, call, rows, entries, committed, lastId, lastSeq, began, faults>>

CreateNewIds(k) ==
    /\ Goes(k, "createIds", "insert")
    /\ session' = [session EXCEPT ![k].newIds = Created(@)]
    /\ UNCHANGED <<saved, call, rows, entries, committed, lastId, lastSeq, began, faults>>

\* INSERT INTO history SELECT FROM staging_events, RETURNING the ids into
\* new_ids for CQRS.
InsertHistory(k) ==
    /\ Goes(k, "insert", IF Model[call[k]] = "CQRS" THEN "outbox" ELSE "commit")
    /\ \E id \in Numbering(session[k].staging.rows, lastId) :
          LET new == {[id |-> id[e], event |-> e, model |-> Model[call[k]]] :
                         e \in session[k].staging.rows}
          IN  /\ rows' = [rows EXCEPT ![k] = new]
              /\ session' = IF Model[call[k]] = "CQRS"
                            THEN [session EXCEPT ![k].newIds.rows = @ \cup {r.id : r \in new}]
                            ELSE session
    /\ lastId' = lastId + Cardinality(session[k].staging.rows)
    /\ UNCHANGED <<saved, call, entries, committed, lastSeq, began, faults>>

\* INSERT INTO cqrs_outbox SELECT FROM new_ids
InsertOutbox(k) ==
    /\ Goes(k, "outbox", "commit")
    /\ \E seq \in Numbering(session[k].newIds.rows, lastSeq) :
          entries' = [entries EXCEPT
              ![k] = {[seq |-> seq[i], id |-> i] : i \in session[k].newIds.rows}]
    /\ lastSeq' = lastSeq + Cardinality(session[k].newIds.rows)
    /\ UNCHANGED <<session, saved, call, rows, committed, lastId, began, faults>>

\* A mistake: new_ids without ON COMMIT DROP.
KeepTemporary(s) == s

\* ON COMMIT DROP
DropOnCommit(s) == [s EXCEPT !.newIds = NoTable]

\* The connection goes back to the pool, and its transaction is over.
Return(k) ==
    /\ rows' = [rows EXCEPT ![k] = {}] /\ entries' = [entries EXCEPT ![k] = {}]
    /\ UNCHANGED <<call, lastId, lastSeq, began>>

Commit(k) ==
    /\ Goes(k, "commit", "idle")
    /\ history' = history \cup rows[k] /\ outbox' = outbox \cup entries[k]
    /\ done' = done \cup {call[k]}
    /\ session' = [session EXCEPT ![k] = DropOnCommit(@)]
    /\ saved' = [saved EXCEPT ![k] = session'[k]]
    /\ Return(k)
    /\ UNCHANGED faults

\* A statement throws: the try closes the connection, uncommitted.
Fail(k) ==
    /\ step[k] # "idle" /\ faults < MaxFaults
    /\ faults' = faults + 1
    /\ step' = [step EXCEPT ![k] = "idle"]
    /\ session' = [session EXCEPT ![k] = saved[k]]
    /\ Return(k)
    /\ UNCHANGED <<saved, committed>>

\* The pool replaces an idle connection (or one that broke).
Retire(k) ==
    /\ step[k] = "idle" /\ session[k] # NewSession /\ faults < MaxFaults
    /\ faults' = faults + 1
    /\ session' = [session EXCEPT ![k] = NewSession]
    /\ saved' = [saved EXCEPT ![k] = NewSession]
    /\ UNCHANGED <<step, call, rows, entries, committed, lastId, lastSeq, began>>

Statement(k) ==
    \/ CreateStaging(k) \/ TruncateStaging(k) \/ CopyChunk(k) \/ CreateNewIds(k)
    \/ InsertHistory(k) \/ InsertOutbox(k) \/ Commit(k)

Next ==
    \E k \in Connection :
        \/ \E c \in Call : Borrow(k, c)
        \/ Statement(k) \/ Fail(k) \/ Retire(k)

Spec == Init /\ [][Next]_vars

-----------------------------------------------------------------------------
(***************************************************************************)
(* Properties.                                                             *)
(***************************************************************************)
TypeOK ==
    /\ DOMAIN session = Connection /\ DOMAIN saved = Connection
    /\ DOMAIN rows = Connection /\ DOMAIN entries = Connection
    /\ DOMAIN step = Connection
    /\ call \in [Connection -> Call]
    /\ \A k \in Connection : step[k] = "idle" => rows[k] = {} /\ entries[k] = {}
    /\ began \subseteq Call /\ done \subseteq began
    /\ lastId \in Nat /\ lastSeq \in Nat /\ faults \in 0 .. MaxFaults
    /\ \A r \in history : r.id \in 1 .. lastId
    /\ \A e \in outbox : e.seq \in 1 .. lastSeq

\* A call that committed inserted the events of its chunk into its model,
\* each once, and a call that failed none: nothing that an earlier call of
\* the connection left in staging_events is inserted again.
EachCallInsertsItsChunk ==
    /\ {r.event : r \in history} = UNION {Events[c] : c \in done}
    /\ \A r, q \in history : r.event = q.event \/ r.id = q.id => r = q
    /\ \A c \in Call : \A r \in history : r.event \in Events[c] => r.model = Model[c]

\* Every committed row of the CQRS history got one outbox entry and no other
\* row did: a new_ids that outlived its transaction would repeat entries.
OutboxNamesNewRows ==
    /\ {e.id : e \in outbox} = {r.id : r \in {r \in history : r.model = "CQRS"}}
    /\ \A e, f \in outbox : e.id = f.id \/ e.seq = f.seq => e = f

\* A copyIn happens at its commit and not before or in parts.
Atomic == INSTANCE AtomicCopy
CopiesAreAtomic == Atomic!Spec
=============================================================================
