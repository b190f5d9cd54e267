------------------------------ MODULE EventSql ------------------------------
(***************************************************************************)
(* The statements on the event tables that the two stores and the         *)
(* projector share (store/EventSql.java, the projector's own INSERTs, and  *)
(* the tables of V1__benchmark_schema.sql), as operators on table values.  *)
(*                                                                         *)
(* An event is a value with an IMSI and an updated_at; every other column  *)
(* is determined by the event it came from.                                *)
(*                                                                         *)
(*   history table   a set of rows [id, event]; its key is (IMSI, id)      *)
(*   latest table    a function from the IMSIs it has a row for to rows    *)
(*                   [cur, ins].  The upsert's SET clause names eight of   *)
(*                   the 28 columns, so a row can carry columns of two     *)
(*                   events: updated_at and the other SET columns are      *)
(*                   those of cur, the columns no UPDATE touches are those *)
(*                   of ins, the event the row was inserted for.           *)
(***************************************************************************)
EXTENDS Integers, FiniteSets, Functions

CONSTANTS
    Imsi,       \* subscriber identities (imsi_or_supi)
    Event,      \* the events ever generated; no two are the same event
    ImsiOf,     \* ImsiOf[e]: the IMSI of event e
    UpdatedAt   \* UpdatedAt[e]: its updated_at; two events may tie

ASSUME EventAssumption ==
    /\ ImsiOf \in [Event -> Imsi]
    /\ UpdatedAt \in [Event -> Nat]

HistoryRow == [id : Nat, event : Event]
LatestRow == [cur : Event, ins : Event]
LatestTable == UNION {[D -> LatestRow] : D \in SUBSET Imsi}

EmptyTable == [i \in {} |-> 0]

Ids(rows) == {r.id : r \in rows}
EventsOf(rows) == {r.event : r \in rows}

NotOlder(e, f) == UpdatedAt[e] >= UpdatedAt[f]

(***************************************************************************)
(* The values n calls of nextval hand to the rows of S, the last value of  *)
(* the sequence being last: SQL promises no order between the rows.        *)
(***************************************************************************)
NextVals(last, S) == Injection(S, (last + 1) .. (last + Cardinality(S)))

(***************************************************************************)
(* SELECT DISTINCT ON (imsi_or_supi) ... ORDER BY imsi_or_supi, updated_at *)
(* DESC: one event per IMSI, a newest one.  Which of several newest is     *)
(* left open, so this is the set of the possible results.                  *)
(***************************************************************************)
NewestPerImsi(E) ==
    {pick \in [{ImsiOf[e] : e \in E} -> E] :
        \A i \in DOMAIN pick :
            /\ ImsiOf[pick[i]] = i
            /\ \A e \in E : ImsiOf[e] = i => NotOlder(pick[i], e)}

(***************************************************************************)
(* INSERT INTO latest ... ON CONFLICT (imsi_or_supi) DO UPDATE SET ...     *)
(* WHERE EXCLUDED.updated_at >= table.updated_at, for one event per IMSI.  *)
(***************************************************************************)
\* A mistake: no WHERE clause, the last write wins.
MergeAlways(row, e) == [row EXCEPT !.cur = e]

Merge(row, e) == IF NotOlder(e, row.cur) THEN [row EXCEPT !.cur = e] ELSE row

Upsert(table, pick) ==
    [i \in DOMAIN table \cup DOMAIN pick |->
        IF i \notin DOMAIN table THEN [cur |-> pick[i], ins |-> pick[i]]
        ELSE IF i \in DOMAIN pick THEN Merge(table[i], pick[i])
        ELSE table[i]]

(***************************************************************************)
(* INSERT INTO history ... ON CONFLICT (imsi_or_supi, id) DO NOTHING.      *)
(***************************************************************************)
\* A mistake: the conflict target is the IMSI alone.
SameImsi(r, q) == ImsiOf[r.event] = ImsiOf[q.event]

SameKey(r, q) == r.id = q.id /\ ImsiOf[r.event] = ImsiOf[q.event]

InsertDoNothing(table, rows) ==
    table \cup {r \in rows : \A q \in table : ~ SameKey(r, q)}

(***************************************************************************)
(* Relations between tables that the properties are made of.               *)
(***************************************************************************)
\* The table has a row for e's IMSI that is at least as new as e.
Shows(table, e) ==
    /\ ImsiOf[e] \in DOMAIN table
    /\ NotOlder(table[ImsiOf[e]].cur, e)

\* Every row's columns come from events of E of the row's own IMSI.
DrawnFrom(table, E) ==
    \A i \in DOMAIN table :
        /\ table[i].cur \in E /\ ImsiOf[table[i].cur] = i
        /\ table[i].ins \in E /\ ImsiOf[table[i].ins] = i

\* No row of new is missing or older than in old.
NotBehind(new, old) ==
    \A i \in DOMAIN old : i \in DOMAIN new /\ NotOlder(new[i].cur, old[i].cur)

\* The same IMSIs with the same updated_at.
SameTimestamps(t, u) ==
    /\ DOMAIN t = DOMAIN u
    /\ \A i \in DOMAIN t : UpdatedAt[t[i].cur] = UpdatedAt[u[i].cur]
=============================================================================
