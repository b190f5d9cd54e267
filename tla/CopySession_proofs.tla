-------------------------- MODULE CopySession_proofs --------------------------
(***************************************************************************)
(* Proofs about CopySession, for any connections, calls and chunks.        *)
(***************************************************************************)
EXTENDS CopySession, FiniteSetTheorems, TLAPS

AllEvents == UNION {Events[c] : c \in Call}
ModelNames == {"NORMAL", "CQRS"}
Row == [id : Nat, event : AllEvents, model : ModelNames]
Entry == [seq : Nat, id : Nat]
Session ==
    [staging : [exists : BOOLEAN, rows : SUBSET AllEvents],
     newIds : [exists : BOOLEAN, rows : SUBSET Nat]]
Steps == {"idle", "create", "truncate", "copy", "createIds", "insert", "outbox", "commit"}

\* Types of the connections.
OpenTypes ==
    /\ session \in [Connection -> Session] /\ saved \in [Connection -> Session]
    /\ step \in [Connection -> Steps] /\ call \in [Connection -> Call]
    /\ rows \in [Connection -> SUBSET Row] /\ entries \in [Connection -> SUBSET Entry]

\* Types of what is shared.
SharedTypes ==
    /\ history \subseteq Row /\ outbox \subseteq Entry
    /\ began \subseteq Call /\ done \subseteq began
    /\ lastId \in Nat /\ lastSeq \in Nat /\ faults \in 0 .. MaxFaults

Types == OpenTypes /\ SharedTypes

\* A connection in the pool has nothing of a transaction left, in its session
\* or in what it will go back to.
Pooled(k) == step[k] = "idle" => rows[k] = {} /\ entries[k] = {} /\ session[k].newIds = NoTable
Restorable(k) == step[k] # "idle" => saved[k].newIds = NoTable

\* A transaction serves a call that has begun and not committed.
Serving(k) == step[k] # "idle" => call[k] \in began /\ call[k] \notin done

\* Before its INSERT a transaction has inserted nothing.
Fresh(k) ==
    step[k] \in {"create", "truncate", "copy", "createIds", "insert"} =>
        rows[k] = {} /\ entries[k] = {} /\ session[k].newIds.rows = {}
Unqueued(k) == step[k] = "outbox" => entries[k] = {}

\* What is staged is the chunk.
Emptied(k) == step[k] = "copy" => session[k].staging.rows = {}
Staged(k) ==
    step[k] \in {"createIds", "insert", "outbox", "commit"} =>
        session[k].staging.rows = Events[call[k]]
ForCqrs(k) == step[k] \in {"createIds", "outbox"} => Model[call[k]] = "CQRS"
ForCommit(k) == step[k] = "commit" => Model[call[k]] = "CQRS" \/ entries[k] = {}

\* What is inserted is the chunk, a row for each event.
Inserted(k) ==
    step[k] \in {"outbox", "commit"} =>
        /\ {r.event : r \in rows[k]} = Events[call[k]]
        /\ \A r \in rows[k] : r.model = Model[call[k]]
        /\ \A r, q \in rows[k] : r.event = q.event => r = q

\* new_ids has the ids of the inserted rows.
Returning(k) ==
    step[k] \in {"outbox", "commit"} =>
        /\ session[k].newIds.rows =
               IF Model[call[k]] = "CQRS" THEN {r.id : r \in rows[k]} ELSE {}
        /\ IsFiniteSet(session[k].newIds.rows)

\* And the entries are one for each of them.
Queued(k) ==
    step[k] = "commit" =>
        /\ {e.id : e \in entries[k]} = session[k].newIds.rows
        /\ \A e, f \in entries[k] : e.id = f.id => e = f

\* Numbers are drawn once.
Drawn(k) ==
    /\ \A r \in rows[k] : r.id \in 1 .. lastId
    /\ \A e \in entries[k] : e.seq \in 1 .. lastSeq

Transaction(k) ==
    /\ Pooled(k) /\ Restorable(k) /\ Serving(k) /\ Fresh(k) /\ Unqueued(k)
    /\ Emptied(k) /\ Staged(k) /\ ForCqrs(k) /\ ForCommit(k)
    /\ Inserted(k) /\ Returning(k) /\ Queued(k) /\ Drawn(k)

\* Two connections serve different calls and hold different numbers.
CallsDiffer ==
    \A k, l \in Connection :
        k # l /\ step[k] # "idle" /\ step[l] # "idle" => call[k] # call[l]
IdsDiffer ==
    /\ \A k, l \in Connection : \A r \in rows[k], q \in rows[l] :
          r.id = q.id => k = l /\ r = q
    /\ \A k \in Connection : \A r \in rows[k], q \in history : r.id # q.id
SeqsDiffer ==
    /\ \A k, l \in Connection : \A e \in entries[k], f \in entries[l] :
          e.seq = f.seq => k = l /\ e = f
    /\ \A k \in Connection : \A e \in entries[k], f \in outbox : e.seq # f.seq

\* What is committed.
Committed ==
    /\ \A r \in history : r.id \in 1 .. lastId
    /\ \A e \in outbox : e.seq \in 1 .. lastSeq
    /\ EachCallInsertsItsChunk
    /\ OutboxNamesNewRows

IInv ==
    /\ Types /\ (\A k \in Connection : Transaction(k))
    /\ CallsDiffer /\ IdsDiffer /\ SeqsDiffer /\ Committed

-----------------------------------------------------------------------------
(***************************************************************************)
(* What a step leaves alone.                                               *)
(***************************************************************************)
\* The part of a connection that its own steps change.
Same(k) ==
    /\ session'[k] = session[k] /\ saved'[k] = saved[k]
    /\ step'[k] = step[k] /\ call'[k] = call[k]
    /\ rows'[k] = rows[k] /\ entries'[k] = entries[k]

\* A transaction does not notice the steps of another connection, unless
\* they commit its call.
LEMMA OthersKeep ==
    ASSUME NEW l \in Connection, Types, Transaction(l), Same(l),
           began \subseteq began',
           step[l] # "idle" => call[l] \notin done' \ done,
           lastId' \in Nat, lastSeq' \in Nat, lastId <= lastId', lastSeq <= lastSeq'
    PROVE  Transaction(l)'
<1>1. (Pooled(l) /\ Restorable(l) /\ Serving(l) /\ Fresh(l) /\ Unqueued(l))'
    BY DEF Transaction, Same, Pooled, Restorable, Serving, Fresh, Unqueued
<1>2. (Emptied(l) /\ Staged(l) /\ ForCqrs(l) /\ ForCommit(l))'
    BY DEF Transaction, Same, Emptied, Staged, ForCqrs, ForCommit
<1>3. (Inserted(l) /\ Returning(l) /\ Queued(l))'
    BY DEF Transaction, Same, Inserted, Returning, Queued
<1>4. Drawn(l)'
    BY DEF Transaction, Same, Drawn, Types, SharedTypes
<1> QED BY <1>1, <1>2, <1>3, <1>4 DEF Transaction

\* Steps that start no transaction keep their calls apart.
LEMMA CallsKeep ==
    ASSUME CallsDiffer, call' = call,
           \A l \in Connection : step'[l] # "idle" => step[l] # "idle"
    PROVE  CallsDiffer'
BY DEF CallsDiffer

\* Steps that insert and commit nothing.
LEMMA QuietKeeps ==
    ASSUME IdsDiffer, SeqsDiffer, Committed,
           UNCHANGED <<rows, entries, committed, lastId, lastSeq>>
    PROVE  IdsDiffer' /\ SeqsDiffer' /\ Committed'
<1> USE DEF committed
<1>1. IdsDiffer'
    BY DEF IdsDiffer
<1>2. SeqsDiffer'
    BY DEF SeqsDiffer
<1>3. Committed'
    BY DEF Committed, EachCallInsertsItsChunk, OutboxNamesNewRows
<1> QED BY <1>1, <1>2, <1>3

\* A step of one connection.
LEMMA OneMoves ==
    ASSUME Types, NEW k \in Connection, \A l \in Connection : Transaction(l),
           Transaction(k)',
           \A l \in Connection \ {k} : Same(l),
           began \subseteq began',
           \A l \in Connection \ {k} : step[l] # "idle" => call[l] \notin done' \ done,
           lastId' \in Nat, lastSeq' \in Nat, lastId <= lastId', lastSeq <= lastSeq'
    PROVE  \A l \in Connection : Transaction(l)'
<1> SUFFICES ASSUME NEW l \in Connection, l # k PROVE Transaction(l)'
    OBVIOUS
<1> QED BY OthersKeep

-----------------------------------------------------------------------------
(***************************************************************************)
(* One lemma for each action.                                              *)
(***************************************************************************)
\* Nothing is begun.
LEMMA SessionInit == Init => IInv
<1> SUFFICES ASSUME Init PROVE IInv
    OBVIOUS
<1> USE DEF Init
<1>1. NewSession \in Session
    BY DEF NewSession, Session, NoTable
<1>2. OpenTypes
    BY <1>1 DEF OpenTypes, Steps
<1>3. SharedTypes
    BY CopyAssumption DEF SharedTypes
<1>4. ASSUME NEW k \in Connection PROVE Transaction(k)
    BY DEF Transaction, Pooled, Restorable, Serving, Fresh, Unqueued, Emptied, Staged, ForCqrs,
           ForCommit, Inserted, Returning, Queued, Drawn, NewSession
<1>5. CallsDiffer /\ IdsDiffer /\ SeqsDiffer
    BY DEF CallsDiffer, IdsDiffer, SeqsDiffer
<1>6. Committed
    BY DEF Committed, EachCallInsertsItsChunk, OutboxNamesNewRows
<1> QED BY <1>2, <1>3, <1>4, <1>5, <1>6 DEF IInv, Types

\* A pooled connection starts a transaction for a new call.
LEMMA BorrowKeeps ==
    ASSUME IInv, NEW k \in Connection, NEW c \in Call, Borrow(k, c)
    PROVE  IInv'
<1>1. Types /\ (\A l \in Connection : Transaction(l))
    BY DEF IInv
<1>2. /\ step[k] = "idle" /\ c \notin began
      /\ step' = [step EXCEPT ![k] = "create"] /\ began' = began \cup {c}
      /\ call' = [call EXCEPT ![k] = c] /\ saved' = [saved EXCEPT ![k] = session[k]]
      /\ UNCHANGED <<session, rows, entries, committed, lastId, lastSeq, faults>>
    BY DEF Borrow, Goes
<1>3. /\ step'[k] = "create" /\ call'[k] = c /\ saved'[k] = session[k]
      /\ session'[k] = session[k] /\ rows'[k] = rows[k] /\ entries'[k] = entries[k]
      /\ \A l \in Connection \ {k} : Same(l)
    BY <1>1, <1>2 DEF Types, OpenTypes, Same
<1>4. Types'
    <2>1. OpenTypes'
        BY <1>1, <1>2 DEF Types, OpenTypes, Steps
    <2>2. SharedTypes'
        BY <1>1, <1>2 DEF Types, SharedTypes, committed
    <2> QED BY <2>1, <2>2 DEF Types
<1>5. Transaction(k)'
    <2>1. c \in began' /\ c \notin done'
        BY <1>1, <1>2 DEF Types, SharedTypes, committed
    <2>2. rows[k] = {} /\ entries[k] = {} /\ session[k].newIds = NoTable
        BY <1>1, <1>2 DEF Transaction, Pooled
    <2>3. session[k].newIds.rows = {}
        BY <2>2 DEF NoTable
    <2>4. (Pooled(k) /\ Restorable(k) /\ Serving(k) /\ Fresh(k) /\ Unqueued(k))'
        BY <1>3, <2>1, <2>2, <2>3 DEF Pooled, Restorable, Serving, Fresh, Unqueued
    <2>5. (Emptied(k) /\ Staged(k) /\ ForCqrs(k) /\ ForCommit(k))'
        BY <1>3 DEF Emptied, Staged, ForCqrs, ForCommit
    <2>6. (Inserted(k) /\ Returning(k) /\ Queued(k) /\ Drawn(k))'
        BY <1>3, <2>2 DEF Inserted, Returning, Queued, Drawn
    <2> QED BY <2>4, <2>5, <2>6 DEF Transaction
<1>6. \A l \in Connection : Transaction(l)'
    <2>1. began \subseteq began' /\ done' = done /\ lastId' = lastId /\ lastSeq' = lastSeq
        BY <1>2 DEF committed
    <2>2. lastId \in Nat /\ lastSeq \in Nat
        BY <1>1 DEF Types, SharedTypes
    <2> QED BY <1>1, <1>3, <1>5, <2>1, <2>2, OneMoves
<1>7. CallsDiffer'
    <2>1. \A l \in Connection \ {k} : step[l] # "idle" => call[l] # c
        BY <1>1, <1>2 DEF Transaction, Serving
    <2>2. \A l \in Connection \ {k} : step'[l] = step[l] /\ call'[l] = call[l]
        BY <1>3 DEF Same
    <2> QED BY <1>3, <2>1, <2>2 DEF IInv, CallsDiffer
<1>8. IdsDiffer' /\ SeqsDiffer' /\ Committed'
    BY <1>2, QuietKeeps DEF IInv
<1> QED BY <1>4, <1>6, <1>7, <1>8 DEF IInv

\* A statement that works on the session alone.
LEMMA SessionStepKeeps ==
    ASSUME IInv, NEW k \in Connection, step[k] # "idle",
           NEW next \in Steps, step' = [step EXCEPT ![k] = next],
           NEW s \in Session, session' = [session EXCEPT ![k] = s],
           UNCHANGED <<saved, call, rows, entries, committed, lastId, lastSeq, began, faults>>,
           next # "idle", rows[k] = {}, entries[k] = {}, s.newIds.rows = {},
           next \in {"truncate", "copy", "createIds", "insert"},
           next = "copy" => s.staging.rows = {},
           next \in {"createIds", "insert"} => s.staging.rows = Events[call[k]],
           next = "createIds" => Model[call[k]] = "CQRS"
    PROVE  IInv'
<1>1. Types /\ (\A l \in Connection : Transaction(l))
    BY DEF IInv
<1>2. /\ step'[k] = next /\ session'[k] = s
      /\ saved'[k] = saved[k] /\ call'[k] = call[k] /\ rows'[k] = {} /\ entries'[k] = {}
      /\ began' = began /\ done' = done
      /\ \A l \in Connection \ {k} : Same(l)
    BY <1>1 DEF Types, OpenTypes, Same, committed
<1>3. Types'
    <2>1. OpenTypes'
        BY <1>1 DEF Types, OpenTypes
    <2>2. SharedTypes'
        BY <1>1 DEF Types, SharedTypes, committed
    <2> QED BY <2>1, <2>2 DEF Types
<1>4. Transaction(k)'
    <2>1. saved[k].newIds = NoTable /\ call[k] \in began /\ call[k] \notin done
        BY <1>1 DEF Transaction, Restorable, Serving
    <2>2. (Pooled(k) /\ Restorable(k) /\ Serving(k) /\ Fresh(k) /\ Unqueued(k))'
        BY <1>2, <2>1 DEF Pooled, Restorable, Serving, Fresh, Unqueued
    <2>3. (Emptied(k) /\ Staged(k) /\ ForCqrs(k) /\ ForCommit(k))'
        BY <1>2 DEF Emptied, Staged, ForCqrs, ForCommit
    <2>4. (Inserted(k) /\ Returning(k) /\ Queued(k) /\ Drawn(k))'
        BY <1>2 DEF Inserted, Returning, Queued, Drawn
    <2> QED BY <2>2, <2>3, <2>4 DEF Transaction
<1>5. \A l \in Connection : Transaction(l)'
    <2>1. lastId \in Nat /\ lastSeq \in Nat
        BY <1>1 DEF Types, SharedTypes
    <2> QED BY <1>1, <1>2, <1>4, <2>1, OneMoves
<1>6. CallsDiffer'
    <2>1. \A l \in Connection : step'[l] # "idle" => step[l] # "idle"
        BY <1>2 DEF Same
    <2> QED BY <2>1, CallsKeep DEF IInv
<1>7. IdsDiffer' /\ SeqsDiffer' /\ Committed'
    BY QuietKeeps DEF IInv
<1> QED BY <1>3, <1>5, <1>6, <1>7 DEF IInv

\* CREATE TEMP TABLE IF NOT EXISTS staging_events
LEMMA CreateStagingKeeps ==
    ASSUME IInv, NEW k \in Connection, CreateStaging(k)
    PROVE  IInv'
<1> DEFINE s == [session[k] EXCEPT !.staging = Created(@)]
<1>1. session[k] \in Session /\ Transaction(k) /\ session \in [Connection -> Session]
    BY DEF IInv, Types, OpenTypes
<1>2. /\ step[k] = "create" /\ step' = [step EXCEPT ![k] = "truncate"]
      /\ session' = [session EXCEPT ![k] = s]
      /\ UNCHANGED <<saved, call, rows, entries, committed, lastId, lastSeq, began, faults>>
    BY <1>1 DEF CreateStaging, Goes
<1>3. s \in Session /\ s.newIds = session[k].newIds
    BY <1>1 DEF Session, Created, Holding
<1>4. rows[k] = {} /\ entries[k] = {} /\ session[k].newIds.rows = {}
    BY <1>1, <1>2 DEF Transaction, Fresh
<1> HIDE DEF s
<1> QED BY <1>2, <1>3, <1>4, SessionStepKeeps DEF Steps

\* TRUNCATE staging_events
LEMMA TruncateStagingKeeps ==
    ASSUME IInv, NEW k \in Connection, TruncateStaging(k)
    PROVE  IInv'
<1> DEFINE s == [session[k] EXCEPT !.staging = Holding({})]
<1>1. session[k] \in Session /\ Transaction(k) /\ session \in [Connection -> Session]
    BY DEF IInv, Types, OpenTypes
<1>2. /\ step[k] = "truncate" /\ step' = [step EXCEPT ![k] = "copy"]
      /\ session' = [session EXCEPT ![k] = s]
      /\ UNCHANGED <<saved, call, rows, entries, committed, lastId, lastSeq, began, faults>>
    BY <1>1 DEF TruncateStaging, Goes
<1>3. s \in Session /\ s.newIds = session[k].newIds /\ s.staging.rows = {}
    BY <1>1 DEF Session, Holding
<1>4. rows[k] = {} /\ entries[k] = {} /\ session[k].newIds.rows = {}
    BY <1>1, <1>2 DEF Transaction, Fresh
<1> HIDE DEF s
<1> QED BY <1>2, <1>3, <1>4, SessionStepKeeps DEF Steps

\* COPY staging_events FROM STDIN
LEMMA CopyChunkKeeps ==
    ASSUME IInv, NEW k \in Connection, CopyChunk(k)
    PROVE  IInv'
<1> DEFINE s == [session[k] EXCEPT !.staging.rows = @ \cup Events[call[k]]]
           next == IF Model[call[k]] = "CQRS" THEN "createIds" ELSE "insert"
<1>1. /\ session[k] \in Session /\ Transaction(k) /\ session \in [Connection -> Session]
      /\ call[k] \in Call
    BY DEF IInv, Types, OpenTypes
<1>2. /\ step[k] = "copy" /\ step' = [step EXCEPT ![k] = next]
      /\ session' = [session EXCEPT ![k] = s]
      /\ UNCHANGED <<saved, call, rows, entries, committed, lastId, lastSeq, began, faults>>
    BY <1>1 DEF CopyChunk, Goes
<1>3. session[k].staging.rows = {}
    BY <1>1, <1>2 DEF Transaction, Emptied
<1>4. Events[call[k]] \subseteq AllEvents
    BY <1>1 DEF AllEvents
<1>5. s \in Session /\ s.newIds = session[k].newIds /\ s.staging.rows = Events[call[k]]
    BY <1>1, <1>3, <1>4 DEF Session
<1>6. rows[k] = {} /\ entries[k] = {} /\ session[k].newIds.rows = {}
    BY <1>1, <1>2 DEF Transaction, Fresh
<1>7. next \in {"createIds", "insert"} /\ (next = "createIds" => Model[call[k]] = "CQRS")
    OBVIOUS
<1> HIDE DEF s, next
<1> QED BY <1>2, <1>5, <1>6, <1>7, SessionStepKeeps DEF Steps

\* CREATE TEMP TABLE IF NOT EXISTS new_ids
LEMMA CreateNewIdsKeeps ==
    ASSUME IInv, NEW k \in Connection, CreateNewIds(k)
    PROVE  IInv'
<1> DEFINE s == [session[k] EXCEPT !.newIds = Created(@)]
<1>1. session[k] \in Session /\ Transaction(k) /\ session \in [Connection -> Session]
    BY DEF IInv, Types, OpenTypes
<1>2. /\ step[k] = "createIds" /\ step' = [step EXCEPT ![k] = "insert"]
      /\ session' = [session EXCEPT ![k] = s]
      /\ UNCHANGED <<saved, call, rows, entries, committed, lastId, lastSeq, began, faults>>
    BY <1>1 DEF CreateNewIds, Goes
<1>3. /\ s \in Session /\ s.newIds.rows = session[k].newIds.rows
      /\ s.staging.rows = session[k].staging.rows
    BY <1>1 DEF Session, Created, Holding
<1>4. rows[k] = {} /\ entries[k] = {} /\ session[k].newIds.rows = {}
    BY <1>1, <1>2 DEF Transaction, Fresh
<1>5. session[k].staging.rows = Events[call[k]]
    BY <1>1, <1>2 DEF Transaction, Staged
<1> HIDE DEF s
<1> QED BY <1>2, <1>3, <1>4, <1>5, SessionStepKeeps DEF Steps

\* Numbers drawn for the members of S, and rows made of both.
Numbers(f, S) == {f[a] : a \in S}
RowsFor(S, m, id) == {[id |-> id[e], event |-> e, model |-> m] : e \in S}

\* The numbers of a set of rows are new, and finitely many where it is finite.
LEMMA NumberingIsNew ==
    ASSUME NEW S, IsFiniteSet(S), NEW last \in Nat, NEW f \in Numbering(S, last)
    PROVE  /\ Cardinality(S) \in Nat
           /\ f \in [S -> (last + 1) .. (last + Cardinality(S))]
           /\ \A a, b \in S : f[a] = f[b] => a = b
           /\ IsFiniteSet(Numbers(f, S))
<1>1. Cardinality(S) \in Nat
    BY FS_CardinalityType
<1>2. /\ f \in [S -> (last + 1) .. (last + Cardinality(S))]
      /\ \A a, b \in S : f[a] = f[b] => a = b
    BY DEF Numbering
<1>3. IsFiniteSet((last + 1) .. (last + Cardinality(S)))
    BY <1>1, FS_Interval
<1>4. Numbers(f, S) \subseteq (last + 1) .. (last + Cardinality(S))
    BY <1>2 DEF Numbers
<1>5. IsFiniteSet(Numbers(f, S))
    BY <1>3, <1>4, FS_Subset
<1> QED BY <1>1, <1>2, <1>5

\* Rows made of the members of S and their numbers: one for each.
LEMMA RowsOfEvents ==
    ASSUME NEW S, NEW m, NEW id, \A a, b \in S : id[a] = id[b] => a = b,
           NEW new, new = RowsFor(S, m, id)
    PROVE  /\ \A r \in new : r.event \in S /\ r.model = m /\ r.id = id[r.event]
           /\ \A r, q \in new : r.id = q.id \/ r.event = q.event => r = q
           /\ {r.event : r \in new} = S
           /\ {r.id : r \in new} = Numbers(id, S)
<1> USE DEF RowsFor
<1>1. \A r \in new : /\ r.event \in S /\ r.model = m /\ r.id = id[r.event]
                     /\ r = [id |-> id[r.event], event |-> r.event, model |-> m]
    OBVIOUS
<1>2. ASSUME NEW e \in S PROVE \E r \in new : r.event = e /\ r.id = id[e]
    <2>1. [id |-> id[e], event |-> e, model |-> m] \in new
        OBVIOUS
    <2> QED BY <2>1
<1>3. \A r, q \in new : r.id = q.id \/ r.event = q.event => r = q
    BY <1>1
<1>4. {r.event : r \in new} = S
    BY <1>1, <1>2
<1>5. {r.id : r \in new} = Numbers(id, S)
    BY <1>1, <1>2 DEF Numbers
<1> QED BY <1>1, <1>3, <1>4, <1>5

\* INSERT INTO history SELECT FROM staging_events
LEMMA InsertHistoryKeeps ==
    ASSUME IInv, NEW k \in Connection, InsertHistory(k)
    PROVE  IInv'
<1> DEFINE chunk == session[k].staging.rows
           model == Model[call[k]]
           next == IF model = "CQRS" THEN "outbox" ELSE "commit"
<1>1. Types /\ (\A l \in Connection : Transaction(l))
    BY DEF IInv
<1>2. PICK id \in Numbering(chunk, lastId) :
          LET new == {[id |-> id[e], event |-> e, model |-> model] : e \in chunk}
          IN  /\ rows' = [rows EXCEPT ![k] = new]
              /\ session' = IF model = "CQRS"
                            THEN [session EXCEPT ![k].newIds.rows = @ \cup {r.id : r \in new}]
                            ELSE session
    BY DEF InsertHistory
<1> DEFINE new == {[id |-> id[e], event |-> e, model |-> model] : e \in chunk}
           ids == IF model = "CQRS" THEN Numbers(id, chunk) ELSE {}
           s == [session[k] EXCEPT !.newIds.rows = ids]
<1>3. /\ step[k] = "insert" /\ step' = [step EXCEPT ![k] = next]
      /\ lastId' = lastId + Cardinality(chunk)
      /\ UNCHANGED <<saved, call, entries, committed, lastSeq, began, faults>>
    BY DEF InsertHistory, Goes
<1>4. /\ session[k] \in Session /\ session \in [Connection -> Session]
      /\ call[k] \in Call /\ lastId \in Nat /\ lastSeq \in Nat
    BY <1>1 DEF Types, OpenTypes, SharedTypes
<1>5. chunk = Events[call[k]] /\ IsFiniteSet(chunk) /\ chunk \subseteq AllEvents
    <2>1. chunk = Events[call[k]]
        BY <1>1, <1>3 DEF Transaction, Staged
    <2> QED BY <2>1, <1>4, CopyAssumption DEF AllEvents
<1>6. model \in ModelNames
    BY <1>4, CopyAssumption DEF ModelNames
<1>7. /\ Cardinality(chunk) \in Nat
      /\ id \in [chunk -> (lastId + 1) .. (lastId + Cardinality(chunk))]
      /\ \A a, b \in chunk : id[a] = id[b] => a = b
      /\ IsFiniteSet(Numbers(id, chunk))
    <2>1. \A S, last, f : IsFiniteSet(S) /\ last \in Nat /\ f \in Numbering(S, last) =>
              /\ Cardinality(S) \in Nat
              /\ f \in [S -> (last + 1) .. (last + Cardinality(S))]
              /\ \A a, b \in S : f[a] = f[b] => a = b
              /\ IsFiniteSet(Numbers(f, S))
        BY NumberingIsNew
    <2> HIDE DEF chunk
    <2>2. IsFiniteSet(chunk) /\ lastId \in Nat /\ id \in Numbering(chunk, lastId)
        BY <1>2, <1>4, <1>5
    <2> QED BY <2>1, <2>2
<1>8. rows[k] = {} /\ entries[k] = {} /\ session[k].newIds.rows = {}
    BY <1>1, <1>3 DEF Transaction, Fresh
<1>8a. new = RowsFor(chunk, model, id)
    BY DEF RowsFor
<1>9. rows' = [rows EXCEPT ![k] = new] /\ session' = [session EXCEPT ![k] = s]
    <2>1. {r.id : r \in new} = Numbers(id, chunk)
        BY <1>8a, <1>7, RowsOfEvents
    <2>2. CASE model = "CQRS"
        BY <1>2, <1>4, <1>8, <2>1, <2>2
    <2>3. CASE model # "CQRS"
        <3>1. s = session[k]
            BY <1>4, <1>8, <2>3 DEF Session
        <3> QED BY <1>2, <1>4, <2>3, <3>1
    <2> QED BY <2>2, <2>3
<1>10. /\ \A r \in new : r \in Row /\ r.id \in (lastId + 1) .. (lastId + Cardinality(chunk))
       /\ \A r \in new : r.event \in chunk /\ r.model = model /\ r.id = id[r.event]
       /\ \A r, q \in new : r.id = q.id \/ r.event = q.event => r = q
       /\ {r.event : r \in new} = chunk /\ {r.id : r \in new} = Numbers(id, chunk)
    <2>1. /\ \A r \in new : r.event \in chunk /\ r.model = model /\ r.id = id[r.event]
          /\ \A r, q \in new : r.id = q.id \/ r.event = q.event => r = q
          /\ {r.event : r \in new} = chunk /\ {r.id : r \in new} = Numbers(id, chunk)
        BY <1>8a, <1>7, RowsOfEvents
    <2>2. \A e \in chunk : id[e] \in Nat /\ id[e] \in (lastId + 1) .. (lastId + Cardinality(chunk))
        BY <1>4, <1>7
    <2>3. \A r \in new : r \in Row
        BY <1>5, <1>6, <2>2 DEF Row
    <2> QED BY <2>1, <2>2, <2>3
<1>11. ids \subseteq Nat /\ IsFiniteSet(ids)
    <2>1. IsFiniteSet({})
        BY FS_EmptySet
    <2>2. Numbers(id, chunk) \subseteq Nat
        BY <1>4, <1>7 DEF Numbers
    <2> QED BY <1>7, <2>1, <2>2
<1>12. s \in Session /\ s.newIds.rows = ids /\ s.staging.rows = chunk
    BY <1>4, <1>11 DEF Session
<1> DEFINE n == Cardinality(chunk)
<1>13. ids = IF model = "CQRS" THEN {r.id : r \in new} ELSE {}
    BY <1>10
<1>14. next \in {"outbox", "commit"} /\ (next = "outbox" <=> model = "CQRS")
    OBVIOUS
<1> HIDE DEF new, ids, s, next
<1>15. /\ step'[k] = next /\ session'[k] = s /\ rows'[k] = new /\ entries'[k] = {}
       /\ saved'[k] = saved[k] /\ call'[k] = call[k] /\ began' = began /\ done' = done
       /\ \A l \in Connection \ {k} : Same(l)
    BY <1>1, <1>3, <1>8, <1>9 DEF Types, OpenTypes, Same, committed
<1>16. Types'
    <2>1. OpenTypes'
        BY <1>1, <1>3, <1>9, <1>10, <1>12, <1>14 DEF Types, OpenTypes, Steps
    <2>2. SharedTypes'
        BY <1>1, <1>3, <1>7 DEF Types, SharedTypes, committed
    <2> QED BY <2>1, <2>2 DEF Types
<1>17. Transaction(k)'
    <2>1. saved[k].newIds = NoTable /\ call[k] \in began /\ call[k] \notin done
        BY <1>1, <1>3 DEF Transaction, Restorable, Serving
    <2>2. (Pooled(k) /\ Restorable(k) /\ Serving(k) /\ Fresh(k) /\ Unqueued(k))'
        BY <1>14, <1>15, <2>1 DEF Pooled, Restorable, Serving, Fresh, Unqueued
    <2>3. UNCHANGED <<Events, Model>>
        OBVIOUS
    <2>4. (Emptied(k) /\ Staged(k) /\ ForCqrs(k) /\ ForCommit(k))'
        BY <1>5, <1>12, <1>14, <1>15 DEF Emptied, Staged, ForCqrs, ForCommit
    <2>5. Inserted(k)' /\ Returning(k)'
        BY <1>5, <1>10, <1>11, <1>12, <1>13, <1>15 DEF Inserted, Returning
    <2>6. Queued(k)'
        BY <1>12, <1>13, <1>14, <1>15 DEF Queued
    <2>7. Drawn(k)'
        BY <1>3, <1>4, <1>7, <1>10, <1>15 DEF Drawn
    <2> QED BY <2>2, <2>4, <2>5, <2>6, <2>7 DEF Transaction
<1>18. \A l \in Connection : Transaction(l)'
    BY <1>1, <1>3, <1>4, <1>7, <1>15, <1>17, OneMoves
<1>19. CallsDiffer'
    <2>1. \A l \in Connection : step'[l] # "idle" => step[l] # "idle"
        BY <1>3, <1>15 DEF Same
    <2> QED BY <1>3, <2>1, CallsKeep DEF IInv
<1>20. IdsDiffer'
    <2>1. \A l \in Connection \ {k} : rows'[l] = rows[l] /\ \A r \in rows[l] : r.id \in 1 .. lastId
        BY <1>1, <1>15 DEF Same, Transaction, Drawn
    <2>2. history' = history /\ \A r \in history : r.id \in 1 .. lastId
        BY <1>3 DEF IInv, Committed, committed
    <2>3. \A i \in 1 .. lastId, j \in (lastId + 1) .. (lastId + Cardinality(chunk)) : i # j
        BY <1>4, <1>7
    <2>4. ASSUME NEW a \in Connection, NEW b \in Connection, NEW r \in rows'[a], NEW q \in rows'[b],
                 r.id = q.id
          PROVE  a = b /\ r = q
        <3>1. CASE a = k /\ b = k
            BY <1>10, <1>15, <2>4, <3>1
        <3>2. CASE a = k /\ b # k
            BY <1>10, <1>15, <2>1, <2>3, <2>4, <3>2
        <3>3. CASE a # k /\ b = k
            BY <1>10, <1>15, <2>1, <2>3, <2>4, <3>3
        <3>4. CASE a # k /\ b # k
            BY <2>1, <2>4, <3>4 DEF IInv, IdsDiffer
        <3> QED BY <3>1, <3>2, <3>3, <3>4
    <2>5. ASSUME NEW a \in Connection, NEW r \in rows'[a], NEW q \in history'
          PROVE  r.id # q.id
        <3>1. CASE a = k
            BY <1>10, <1>15, <2>2, <2>3, <3>1
        <3>2. CASE a # k
            BY <2>1, <2>2, <3>2 DEF IInv, IdsDiffer
        <3> QED BY <3>1, <3>2
    <2> QED BY <2>4, <2>5 DEF IdsDiffer
<1>21. SeqsDiffer'
    BY <1>3 DEF IInv, SeqsDiffer, committed
<1>22. Committed'
    <2>1. \A r \in history : r.id \in 1 .. lastId'
        BY <1>3, <1>4, <1>7 DEF IInv, Committed
    <2> QED BY <1>3, <2>1 DEF IInv, Committed, committed, EachCallInsertsItsChunk, OutboxNamesNewRows
<1> QED BY <1>16, <1>18, <1>19, <1>20, <1>21, <1>22 DEF IInv

\* Entries for a set of row ids and the numbers drawn for them: one for each.
EntriesFor(S, seq) == {[seq |-> seq[i], id |-> i] : i \in S}

\* An entry has an id of the set and its number.
LEMMA EntriesOfIds ==
    ASSUME NEW S, NEW seq, \A a, b \in S : seq[a] = seq[b] => a = b,
           NEW new, new = EntriesFor(S, seq)
    PROVE  /\ \A e \in new : e.id \in S /\ e.seq = seq[e.id] /\ e = [seq |-> e.seq, id |-> e.id]
           /\ \A e, f \in new : e.id = f.id \/ e.seq = f.seq => e = f
           /\ {e.id : e \in new} = S
<1> USE DEF EntriesFor
<1>1. \A e \in new : e.id \in S /\ e.seq = seq[e.id] /\ e = [seq |-> e.seq, id |-> e.id]
    OBVIOUS
<1>2. ASSUME NEW i \in S PROVE \E e \in new : e.id = i
    <2>1. [seq |-> seq[i], id |-> i] \in new
        OBVIOUS
    <2> QED BY <2>1
<1>3. \A e, f \in new : e.id = f.id \/ e.seq = f.seq => e = f
    BY <1>1
<1>4. {e.id : e \in new} = S
    BY <1>1, <1>2
<1> QED BY <1>1, <1>3, <1>4

\* INSERT INTO cqrs_outbox SELECT FROM new_ids
LEMMA InsertOutboxKeeps ==
    ASSUME IInv, NEW k \in Connection, InsertOutbox(k)
    PROVE  IInv'
<1> DEFINE ids == session[k].newIds.rows
<1>1. Types /\ (\A l \in Connection : Transaction(l))
    BY DEF IInv
<1>2. PICK seq \in Numbering(ids, lastSeq) :
          entries' = [entries EXCEPT ![k] = {[seq |-> seq[i], id |-> i] : i \in ids}]
    BY DEF InsertOutbox
<1> DEFINE new == {[seq |-> seq[i], id |-> i] : i \in ids}
<1>3. /\ step[k] = "outbox" /\ step' = [step EXCEPT ![k] = "commit"]
      /\ lastSeq' = lastSeq + Cardinality(ids)
      /\ UNCHANGED <<session, saved, call, rows, committed, lastId, began, faults>>
    BY DEF InsertOutbox, Goes
<1>4. lastId \in Nat /\ lastSeq \in Nat /\ ids \subseteq Nat
    BY <1>1 DEF Types, OpenTypes, SharedTypes, Session
<1>5. IsFiniteSet(ids)
    BY <1>1, <1>3 DEF Transaction, Returning
<1>6. /\ Cardinality(ids) \in Nat
      /\ seq \in [ids -> (lastSeq + 1) .. (lastSeq + Cardinality(ids))]
      /\ \A a, b \in ids : seq[a] = seq[b] => a = b
    <2>1. \A S, last, f : IsFiniteSet(S) /\ last \in Nat /\ f \in Numbering(S, last) =>
              /\ Cardinality(S) \in Nat
              /\ f \in [S -> (last + 1) .. (last + Cardinality(S))]
              /\ \A a, b \in S : f[a] = f[b] => a = b
        BY NumberingIsNew
    <2> HIDE DEF ids
    <2>2. seq \in Numbering(ids, lastSeq)
        BY <1>2
    <2> QED BY <1>4, <1>5, <2>1, <2>2
<1>7. entries[k] = {}
    BY <1>1, <1>3 DEF Transaction, Unqueued
<1>8. new = EntriesFor(ids, seq)
    BY DEF EntriesFor
<1>9. /\ \A e \in new : e \in Entry /\ e.seq \in (lastSeq + 1) .. (lastSeq + Cardinality(ids))
      /\ \A e, f \in new : e.id = f.id \/ e.seq = f.seq => e = f
      /\ {e.id : e \in new} = ids
    <2>1. /\ \A e \in new : e.id \in ids /\ e.seq = seq[e.id] /\ e = [seq |-> e.seq, id |-> e.id]
          /\ \A e, f \in new : e.id = f.id \/ e.seq = f.seq => e = f
          /\ {e.id : e \in new} = ids
        BY <1>6, <1>8, EntriesOfIds
    <2>2. \A i \in ids : /\ seq[i] \in Nat /\ i \in Nat
                         /\ seq[i] \in (lastSeq + 1) .. (lastSeq + Cardinality(ids))
        BY <1>4, <1>6
    <2>3. \A e \in new : e \in Entry
        BY <2>1, <2>2 DEF Entry
    <2> QED BY <2>1, <2>2, <2>3
<1>10. entries' = [entries EXCEPT ![k] = new]
    BY <1>2
<1> HIDE DEF new, ids
<1>11. /\ step'[k] = "commit" /\ session'[k] = session[k] /\ rows'[k] = rows[k] /\ entries'[k] = new
       /\ saved'[k] = saved[k] /\ call'[k] = call[k] /\ began' = began /\ done' = done
       /\ \A l \in Connection \ {k} : Same(l)
    BY <1>1, <1>3, <1>10 DEF Types, OpenTypes, Same, committed
<1>12. Types'
    <2>1. OpenTypes'
        BY <1>1, <1>3, <1>9, <1>10 DEF Types, OpenTypes, Steps
    <2>2. SharedTypes'
        BY <1>1, <1>3, <1>4, <1>6 DEF Types, SharedTypes, committed
    <2> QED BY <2>1, <2>2 DEF Types
<1>13. Transaction(k)'
    <2>1. (Pooled(k) /\ Restorable(k) /\ Serving(k) /\ Fresh(k) /\ Unqueued(k))'
        BY <1>1, <1>3, <1>11 DEF Transaction, Pooled, Restorable, Serving, Fresh, Unqueued
    <2>2. (Emptied(k) /\ Staged(k) /\ ForCqrs(k) /\ ForCommit(k))'
        BY <1>1, <1>3, <1>11 DEF Transaction, Emptied, Staged, ForCqrs, ForCommit
    <2>3. (Inserted(k) /\ Returning(k))'
        BY <1>1, <1>3, <1>11 DEF Transaction, Inserted, Returning
    <2>4. Queued(k)'
        BY <1>9, <1>11 DEF Queued, ids
    <2>5. Drawn(k)'
        <3>1. \A r \in rows[k] : r.id \in 1 .. lastId
            BY <1>1 DEF Transaction, Drawn
        <3>2. \A e \in new : e.seq \in 1 .. lastSeq'
            BY <1>3, <1>4, <1>6, <1>9
        <3> QED BY <1>3, <1>11, <3>1, <3>2 DEF Drawn
    <2> QED BY <2>1, <2>2, <2>3, <2>4, <2>5 DEF Transaction
<1>14. \A l \in Connection : Transaction(l)'
    BY <1>1, <1>3, <1>4, <1>6, <1>11, <1>13, OneMoves
<1>15. CallsDiffer'
    <2>1. \A l \in Connection : step'[l] # "idle" => step[l] # "idle"
        BY <1>3, <1>11 DEF Same
    <2> QED BY <1>3, <2>1, CallsKeep DEF IInv
<1>16. IdsDiffer'
    BY <1>3 DEF IInv, IdsDiffer, committed
<1>17. SeqsDiffer'
    <2>1. \A l \in Connection \ {k} : entries'[l] = entries[l] /\ \A e \in entries[l] : e.seq \in 1 .. lastSeq
        BY <1>1, <1>11 DEF Same, Transaction, Drawn
    <2>2. outbox' = outbox /\ \A e \in outbox : e.seq \in 1 .. lastSeq
        BY <1>3 DEF IInv, Committed, committed
    <2>3. \A i \in 1 .. lastSeq, j \in (lastSeq + 1) .. (lastSeq + Cardinality(ids)) : i # j
        BY <1>4, <1>6
    <2>4. ASSUME NEW a \in Connection, NEW b \in Connection,
                 NEW e \in entries'[a], NEW f \in entries'[b], e.seq = f.seq
          PROVE  a = b /\ e = f
        <3>1. CASE a = k /\ b = k
            BY <1>9, <1>11, <2>4, <3>1
        <3>2. CASE a = k /\ b # k
            BY <1>9, <1>11, <2>1, <2>3, <2>4, <3>2
        <3>3. CASE a # k /\ b = k
            BY <1>9, <1>11, <2>1, <2>3, <2>4, <3>3
        <3>4. CASE a # k /\ b # k
            BY <2>1, <2>4, <3>4 DEF IInv, SeqsDiffer
        <3> QED BY <3>1, <3>2, <3>3, <3>4
    <2>5. ASSUME NEW a \in Connection, NEW e \in entries'[a], NEW f \in outbox'
          PROVE  e.seq # f.seq
        <3>1. CASE a = k
            BY <1>9, <1>11, <2>2, <2>3, <3>1
        <3>2. CASE a # k
            BY <2>1, <2>2, <3>2 DEF IInv, SeqsDiffer
        <3> QED BY <3>1, <3>2
    <2> QED BY <2>4, <2>5 DEF SeqsDiffer
<1>18. Committed'
    <2>1. \A e \in outbox : e.seq \in 1 .. lastSeq'
        BY <1>3, <1>4, <1>6 DEF IInv, Committed
    <2> QED BY <1>3, <2>1 DEF IInv, Committed, committed, EachCallInsertsItsChunk, OutboxNamesNewRows
<1> QED BY <1>12, <1>14, <1>15, <1>16, <1>17, <1>18 DEF IInv

\* A connection that goes back to the pool.
LEMMA ReturnKeeps ==
    ASSUME IInv, NEW k \in Connection, NEW s \in Session, s.newIds = NoTable,
           step' = [step EXCEPT ![k] = "idle"], session' = [session EXCEPT ![k] = s],
           saved' \in [Connection -> Session],
           \A l \in Connection \ {k} : saved'[l] = saved[l],
           rows' = [rows EXCEPT ![k] = {}], entries' = [entries EXCEPT ![k] = {}],
           UNCHANGED <<call, lastId, lastSeq, began>>,
           \A l \in Connection \ {k} : step[l] # "idle" => call[l] \notin done' \ done
    PROVE  /\ OpenTypes' /\ (\A l \in Connection : Transaction(l)') /\ CallsDiffer'
           /\ \A l \in Connection : rows'[l] \subseteq rows[l] /\ entries'[l] \subseteq entries[l]
<1>1. Types /\ (\A l \in Connection : Transaction(l))
    BY DEF IInv
<1>2. OpenTypes'
    BY <1>1 DEF Types, OpenTypes, Steps
<1>3. /\ step'[k] = "idle" /\ session'[k] = s /\ rows'[k] = {} /\ entries'[k] = {}
      /\ \A l \in Connection \ {k} : Same(l)
    BY <1>1 DEF Types, OpenTypes, Same
<1>4. Transaction(k)'
    BY <1>3 DEF Transaction, Pooled, Restorable, Serving, Fresh, Unqueued, Emptied, Staged, ForCqrs,
                ForCommit, Inserted, Returning, Queued, Drawn
<1>5. \A l \in Connection : Transaction(l)'
    <2>1. lastId \in Nat /\ lastSeq \in Nat
        BY <1>1 DEF Types, SharedTypes
    <2> QED BY <1>1, <1>3, <1>4, <2>1, OneMoves
<1>6. CallsDiffer'
    <2>1. \A l \in Connection : step'[l] # "idle" => step[l] # "idle"
        BY <1>3 DEF Same
    <2> QED BY <2>1, CallsKeep DEF IInv
<1>7. \A l \in Connection : rows'[l] \subseteq rows[l] /\ entries'[l] \subseteq entries[l]
    BY <1>3 DEF Same
<1> QED BY <1>2, <1>5, <1>6, <1>7

\* A statement throws, or the pool replaces a connection.
LEMMA FailKeeps ==
    ASSUME IInv, NEW k \in Connection, Fail(k) \/ Retire(k)
    PROVE  IInv'
<1>1. Types /\ Transaction(k)
    BY DEF IInv
<1>2. UNCHANGED <<call, committed, lastId, lastSeq, began>> /\ faults' \in 0 .. MaxFaults
    BY <1>1, CopyAssumption DEF Fail, Retire, Return, Types, SharedTypes
<1>3. /\ OpenTypes' /\ (\A l \in Connection : Transaction(l)') /\ CallsDiffer'
      /\ \A l \in Connection : rows'[l] \subseteq rows[l] /\ entries'[l] \subseteq entries[l]
    <2>1. CASE Fail(k)
        <3>1. saved[k] \in Session /\ saved[k].newIds = NoTable
            BY <1>1, <2>1 DEF Fail, Types, OpenTypes, Transaction, Restorable
        <3>2. saved' \in [Connection -> Session] /\ \A l \in Connection : saved'[l] = saved[l]
            BY <1>1, <2>1 DEF Fail, Types, OpenTypes
        <3>3. /\ step' = [step EXCEPT ![k] = "idle"] /\ session' = [session EXCEPT ![k] = saved[k]]
              /\ rows' = [rows EXCEPT ![k] = {}] /\ entries' = [entries EXCEPT ![k] = {}]
            BY <2>1 DEF Fail, Return
        <3> QED BY <1>2, <3>1, <3>2, <3>3, ReturnKeeps DEF committed
    <2>2. CASE Retire(k)
        <3>1. NewSession \in Session /\ NewSession.newIds = NoTable
            BY DEF NewSession, Session, NoTable
        <3>2. saved' = [saved EXCEPT ![k] = NewSession] /\ session' = [session EXCEPT ![k] = NewSession]
            BY <2>2 DEF Retire
        <3>3. saved' \in [Connection -> Session] /\ \A l \in Connection \ {k} : saved'[l] = saved[l]
            BY <1>1, <3>1, <3>2 DEF Types, OpenTypes
        <3>4. step[k] = "idle" /\ rows[k] = {} /\ entries[k] = {}
            BY <1>1, <2>2 DEF Retire, Transaction, Pooled
        <3>5. /\ step' = [step EXCEPT ![k] = "idle"]
              /\ rows' = [rows EXCEPT ![k] = {}] /\ entries' = [entries EXCEPT ![k] = {}]
            BY <1>1, <2>2, <3>4 DEF Retire, Types, OpenTypes
        <3> QED BY <1>2, <3>1, <3>2, <3>3, <3>5, ReturnKeeps DEF committed
    <2> QED BY <2>1, <2>2
<1>4. SharedTypes'
    BY <1>1, <1>2 DEF Types, SharedTypes, committed
<1>5. IdsDiffer' /\ SeqsDiffer'
    <2>1. IdsDiffer'
        BY <1>2, <1>3 DEF IInv, IdsDiffer, committed
    <2>2. SeqsDiffer'
        BY <1>2, <1>3 DEF IInv, SeqsDiffer, committed
    <2> QED BY <2>1, <2>2
<1>6. Committed'
    BY <1>2 DEF IInv, Committed, committed, EachCallInsertsItsChunk, OutboxNamesNewRows
<1> QED BY <1>3, <1>4, <1>5, <1>6 DEF IInv, Types

\* What a transaction is about to commit: rows for its chunk, in its model,
\* each with an id of its own, and an entry for each row of the CQRS model.
LEMMA AboutToCommit ==
    ASSUME IInv, NEW k \in Connection, step[k] = "commit"
    PROVE  /\ call[k] \in began /\ call[k] \in Call /\ call[k] \notin done
           /\ {r.event : r \in rows[k]} = Events[call[k]]
           /\ \A r \in rows[k] : r.model = Model[call[k]] /\ r.event \in Events[call[k]]
           /\ \A r, q \in rows[k] : r.event = q.event \/ r.id = q.id => r = q
           /\ {e.id : e \in entries[k]} =
                  IF Model[call[k]] = "CQRS" THEN {r.id : r \in rows[k]} ELSE {}
           /\ \A e, f \in entries[k] : e.id = f.id \/ e.seq = f.seq => e = f
<1>1. Types /\ Transaction(k)
    BY DEF IInv
<1>2. call[k] \in began /\ call[k] \in Call /\ call[k] \notin done
    BY <1>1 DEF Transaction, Serving, Types, OpenTypes
<1>3. /\ {r.event : r \in rows[k]} = Events[call[k]]
      /\ \A r \in rows[k] : r.model = Model[call[k]]
      /\ \A r, q \in rows[k] : r.event = q.event => r = q
    BY <1>1 DEF Transaction, Inserted
<1>4. \A r \in rows[k] : r.event \in Events[call[k]]
    BY <1>3
<1>5. \A r, q \in rows[k] : r.id = q.id => r = q
    BY DEF IInv, IdsDiffer
<1>6. {e.id : e \in entries[k]} = IF Model[call[k]] = "CQRS" THEN {r.id : r \in rows[k]} ELSE {}
    BY <1>1 DEF Transaction, Queued, Returning
<1>7. \A e, f \in entries[k] : e.id = f.id \/ e.seq = f.seq => e = f
    BY <1>1 DEF Transaction, Queued, IInv, SeqsDiffer
<1> QED BY <1>2, <1>3, <1>4, <1>5, <1>6, <1>7

\* COMMIT: the chunk becomes part of the tables.
LEMMA CommitKeeps ==
    ASSUME IInv, NEW k \in Connection, Commit(k)
    PROVE  IInv'
<1> DEFINE s == DropOnCommit(session[k])
           c == call[k]
<1>1. Types /\ (\A l \in Connection : Transaction(l))
    BY DEF IInv
<1>2. /\ step[k] = "commit" /\ step' = [step EXCEPT ![k] = "idle"]
      /\ history' = history \cup rows[k] /\ outbox' = outbox \cup entries[k]
      /\ done' = done \cup {c}
      /\ session' = [session EXCEPT ![k] = s] /\ saved' = [saved EXCEPT ![k] = session'[k]]
      /\ rows' = [rows EXCEPT ![k] = {}] /\ entries' = [entries EXCEPT ![k] = {}]
      /\ UNCHANGED <<call, lastId, lastSeq, began, faults>>
    BY <1>1 DEF Commit, Goes, Return, Types, OpenTypes
<1>3. s \in Session /\ s.newIds = NoTable
    BY <1>1 DEF DropOnCommit, Types, OpenTypes, Session, NoTable
<1> HIDE DEF s
<1>4. saved' \in [Connection -> Session] /\ \A l \in Connection \ {k} : saved'[l] = saved[l]
    BY <1>1, <1>2, <1>3 DEF Types, OpenTypes
<1>5. \A l \in Connection \ {k} : step[l] # "idle" => call[l] \notin done' \ done
    BY <1>2 DEF IInv, CallsDiffer
<1>6. /\ OpenTypes' /\ (\A l \in Connection : Transaction(l)') /\ CallsDiffer'
      /\ \A l \in Connection : rows'[l] \subseteq rows[l] /\ entries'[l] \subseteq entries[l]
    BY <1>2, <1>3, <1>4, <1>5, ReturnKeeps
<1>7. /\ c \in began /\ c \in Call /\ c \notin done
      /\ {r.event : r \in rows[k]} = Events[c]
      /\ \A r \in rows[k] : r.model = Model[c] /\ r.event \in Events[c]
      /\ \A r, q \in rows[k] : r.event = q.event \/ r.id = q.id => r = q
      /\ {e.id : e \in entries[k]} = IF Model[c] = "CQRS" THEN {r.id : r \in rows[k]} ELSE {}
      /\ \A e, f \in entries[k] : e.id = f.id \/ e.seq = f.seq => e = f
    BY <1>2, AboutToCommit
<1>8. SharedTypes'
    BY <1>1, <1>2, <1>7 DEF Types, OpenTypes, SharedTypes
<1>9. rows'[k] = {} /\ entries'[k] = {}
    BY <1>1, <1>2 DEF Types, OpenTypes
<1>10. IdsDiffer'
    <2>1. ASSUME NEW a \in Connection, NEW b \in Connection, NEW r \in rows'[a], NEW q \in rows'[b],
                 r.id = q.id
          PROVE  a = b /\ r = q
        BY <1>6, <2>1 DEF IInv, IdsDiffer
    <2>2. ASSUME NEW a \in Connection, NEW r \in rows'[a], NEW q \in history'
          PROVE  r.id # q.id
        <3>1. a # k /\ r \in rows[a]
            BY <1>6, <1>9
        <3>2. CASE q \in history
            BY <3>1, <3>2 DEF IInv, IdsDiffer
        <3>3. CASE q \in rows[k]
            BY <3>1, <3>3 DEF IInv, IdsDiffer
        <3> QED BY <1>2, <3>2, <3>3
    <2> QED BY <2>1, <2>2 DEF IdsDiffer
<1>11. SeqsDiffer'
    <2>1. ASSUME NEW a \in Connection, NEW b \in Connection,
                 NEW e \in entries'[a], NEW f \in entries'[b], e.seq = f.seq
          PROVE  a = b /\ e = f
        BY <1>6, <2>1 DEF IInv, SeqsDiffer
    <2>2. ASSUME NEW a \in Connection, NEW e \in entries'[a], NEW f \in outbox'
          PROVE  e.seq # f.seq
        <3>1. a # k /\ e \in entries[a]
            BY <1>6, <1>9
        <3>2. CASE f \in outbox
            BY <3>1, <3>2 DEF IInv, SeqsDiffer
        <3>3. CASE f \in entries[k]
            BY <3>1, <3>3 DEF IInv, SeqsDiffer
        <3> QED BY <1>2, <3>2, <3>3
    <2> QED BY <2>1, <2>2 DEF SeqsDiffer
<1>12. /\ \A r \in history' : r.id \in 1 .. lastId'
       /\ \A e \in outbox' : e.seq \in 1 .. lastSeq'
    BY <1>1, <1>2 DEF IInv, Committed, Transaction, Drawn
<1>13. EachCallInsertsItsChunk'
    <2>1. EachCallInsertsItsChunk
        BY DEF IInv, Committed
    <2>2. {r.event : r \in history'} = UNION {Events[d] : d \in done'}
        <3>1. {r.event : r \in history'} = {r.event : r \in history} \cup Events[c]
            BY <1>2, <1>7
        <3>2. UNION {Events[d] : d \in done'} = (UNION {Events[d] : d \in done}) \cup Events[c]
            BY <1>2
        <3> QED BY <2>1, <3>1, <3>2 DEF EachCallInsertsItsChunk
    <2>3. \A r \in history, q \in rows[k] : r.event # q.event /\ r.id # q.id
        <3> SUFFICES ASSUME NEW r \in history, NEW q \in rows[k] PROVE r.event # q.event /\ r.id # q.id
            OBVIOUS
        <3>1. PICK d \in done : r.event \in Events[d]
            BY <2>1 DEF EachCallInsertsItsChunk
        <3>2. d \in Call /\ d # c
            BY <1>1, <1>7 DEF Types, SharedTypes
        <3>3. r.event # q.event
            BY <1>7, <3>1, <3>2, CopyAssumption
        <3> QED BY <3>3 DEF IInv, IdsDiffer
    <2>4. \A r, q \in history' : r.event = q.event \/ r.id = q.id => r = q
        BY <1>2, <1>7, <2>1, <2>3 DEF EachCallInsertsItsChunk
    <2>5. \A d \in Call : \A r \in history' : r.event \in Events[d] => r.model = Model[d]
        <3> SUFFICES ASSUME NEW d \in Call, NEW r \in rows[k], r.event \in Events[d]
                     PROVE  r.model = Model[d]
            BY <1>2, <2>1 DEF EachCallInsertsItsChunk
        <3>1. d = c
            BY <1>7, CopyAssumption
        <3> QED BY <1>7, <3>1
    <2> QED BY <2>2, <2>4, <2>5 DEF EachCallInsertsItsChunk
<1>14. OutboxNamesNewRows'
    <2>1. OutboxNamesNewRows
        BY DEF IInv, Committed
    <2>2. {r \in history' : r.model = "CQRS"} =
              {r \in history : r.model = "CQRS"} \cup IF Model[c] = "CQRS" THEN rows[k] ELSE {}
        BY <1>2, <1>7
    <2>3. {e.id : e \in outbox'} = {e.id : e \in outbox} \cup {e.id : e \in entries[k]}
        BY <1>2
    <2>4. {e.id : e \in outbox'} = {r.id : r \in {r \in history' : r.model = "CQRS"}}
        BY <1>7, <2>1, <2>2, <2>3 DEF OutboxNamesNewRows
    <2>5. \A e \in outbox, f \in entries[k] : e.id # f.id /\ e.seq # f.seq
        <3> SUFFICES ASSUME NEW e \in outbox, NEW f \in entries[k] PROVE e.id # f.id /\ e.seq # f.seq
            OBVIOUS
        <3>1. \E r \in history : r.id = e.id
            BY <2>1 DEF OutboxNamesNewRows
        <3>2. \E q \in rows[k] : q.id = f.id
            BY <1>7
        <3> QED BY <3>1, <3>2 DEF IInv, IdsDiffer, SeqsDiffer
    <2>6. \A e, f \in outbox' : e.id = f.id \/ e.seq = f.seq => e = f
        BY <1>2, <1>7, <2>1, <2>5 DEF OutboxNamesNewRows
    <2> QED BY <2>4, <2>6 DEF OutboxNamesNewRows
<1> QED BY <1>6, <1>8, <1>10, <1>11, <1>12, <1>13, <1>14 DEF IInv, Types, Committed

-----------------------------------------------------------------------------
(***************************************************************************)
(* The theorems.                                                           *)
(***************************************************************************)
\* Steps that change nothing.
LEMMA SessionStutter == IInv /\ UNCHANGED vars => IInv'
<1> SUFFICES ASSUME IInv, UNCHANGED vars PROVE IInv'
    OBVIOUS
<1> USE DEF vars, open, committed
<1>1. Types'
    BY DEF IInv, Types, OpenTypes, SharedTypes
<1>2. \A k \in Connection : Transaction(k)'
    <2> SUFFICES ASSUME NEW k \in Connection PROVE Transaction(k)'
        OBVIOUS
    <2>1. Types /\ Transaction(k) /\ Same(k)
        BY DEF IInv, Same
    <2>2. lastId \in Nat /\ lastSeq \in Nat
        BY <2>1 DEF Types, SharedTypes
    <2> QED BY <2>1, <2>2, OthersKeep
<1>3. CallsDiffer'
    BY CallsKeep DEF IInv
<1>4. IdsDiffer' /\ SeqsDiffer' /\ Committed'
    BY QuietKeeps DEF IInv
<1> QED BY <1>1, <1>2, <1>3, <1>4 DEF IInv

\* Every step keeps the invariant.
LEMMA SessionNext == IInv /\ [Next]_vars => IInv'
<1> SUFFICES ASSUME IInv, Next PROVE IInv'
    BY SessionStutter
<1>1. PICK k \in Connection :
        \/ \E c \in Call : Borrow(k, c)
        \/ Statement(k) \/ Fail(k) \/ Retire(k)
    BY DEF Next
<1>2. CASE \E c \in Call : Borrow(k, c)
    BY <1>2, BorrowKeeps
<1>3. CASE Statement(k)
    BY <1>3, CreateStagingKeeps, TruncateStagingKeeps, CopyChunkKeeps, CreateNewIdsKeeps,
       InsertHistoryKeeps, InsertOutboxKeeps, CommitKeeps DEF Statement
<1>4. CASE Fail(k) \/ Retire(k)
    BY <1>4, FailKeeps
<1> QED BY <1>1, <1>2, <1>3, <1>4

\* The invariant holds whatever statements of whatever calls fail, and on
\* whichever connections the calls are served.
THEOREM SessionInvariant == Spec => []IInv
BY SessionInit, SessionNext, PTL DEF Spec

\* The history is the chunks of the calls that committed, each event once.
THEOREM ChunksAreInsertedOnce == Spec => []EachCallInsertsItsChunk
<1>1. IInv => EachCallInsertsItsChunk
    BY DEF IInv, Committed
<1> QED BY <1>1, SessionInvariant, PTL

\* The outbox has an entry for each row of the CQRS history and no other.
THEOREM OutboxIsTheNewRows == Spec => []OutboxNamesNewRows
<1>1. IInv => OutboxNamesNewRows
    BY DEF IInv, Committed
<1> QED BY <1>1, SessionInvariant, PTL

\* The commit of a transaction is the whole of an abstract copy.
LEMMA CommitIsACopy ==
    ASSUME IInv, NEW k \in Connection, Commit(k)
    PROVE  Atomic!Next
<1>1. /\ step[k] = "commit"
      /\ history' = history \cup rows[k] /\ outbox' = outbox \cup entries[k]
      /\ done' = done \cup {call[k]}
    BY DEF Commit, Goes
<1>2. /\ call[k] \in Call /\ call[k] \notin done
      /\ {r.event : r \in rows[k]} = Events[call[k]]
      /\ \A r \in rows[k] : r.model = Model[call[k]]
      /\ \A r, q \in rows[k] : r.event = q.event => r = q
      /\ {e.id : e \in entries[k]} =
             IF Model[call[k]] = "CQRS" THEN {r.id : r \in rows[k]} ELSE {}
      /\ \A e, f \in entries[k] : e.id = f.id => e = f
    BY <1>1, AboutToCommit
<1>3. history \cap rows[k] = {} /\ outbox \cap entries[k] = {}
    BY DEF IInv, IdsDiffer, SeqsDiffer
<1>4. Atomic!OneEach(entries[k], IF Model[call[k]] = "CQRS" THEN Atomic!Ids(rows[k]) ELSE {})
    BY <1>2 DEF Atomic!OneEach, Atomic!Ids
<1>5. rows[k] \in SUBSET history' /\ entries[k] \in SUBSET outbox'
    BY <1>1
<1>6. Atomic!Copy(call[k])
    BY <1>1, <1>2, <1>3, <1>4, <1>5 DEF Atomic!Copy
<1> QED BY <1>2, <1>6 DEF Atomic!Next

\* A copyIn is atomic: it happens when its transaction commits.
THEOREM SessionsImplementAtomicCopies == Spec => CopiesAreAtomic
<1>1. Init => Atomic!Init
    BY DEF Init, Atomic!Init
<1>2. IInv /\ [Next]_vars => [Atomic!Next]_(Atomic!vars)
    <2> SUFFICES ASSUME IInv, [Next]_vars PROVE Atomic!Next \/ UNCHANGED Atomic!vars
        OBVIOUS
    <2>1. CASE UNCHANGED vars
        BY <2>1 DEF vars, committed, Atomic!vars
    <2>2. ASSUME NEW k \in Connection, NEW c \in Call, Borrow(k, c) PROVE UNCHANGED Atomic!vars
        BY <2>2 DEF Borrow, committed, Atomic!vars
    <2>3. ASSUME NEW k \in Connection, Statement(k) PROVE Atomic!Next \/ UNCHANGED Atomic!vars
        <3>1. CASE Commit(k)
            BY <3>1, CommitIsACopy
        <3>2. CASE ~ Commit(k)
            BY <2>3, <3>2 DEF Statement, CreateStaging, TruncateStaging, CopyChunk, CreateNewIds,
                InsertHistory, InsertOutbox, committed, Atomic!vars
        <3> QED BY <3>1, <3>2
    <2>4. ASSUME NEW k \in Connection, Fail(k) \/ Retire(k) PROVE UNCHANGED Atomic!vars
        BY <2>4 DEF Fail, Retire, committed, Atomic!vars
    <2> QED BY <2>1, <2>2, <2>3, <2>4 DEF Next
<1> QED BY <1>1, <1>2, SessionInvariant, PTL DEF Spec, CopiesAreAtomic, Atomic!Spec
=============================================================================
