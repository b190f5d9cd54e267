------------------------------ MODULE AtomicCopy ------------------------------
(***************************************************************************)
(* What the pipeline modules take a copyIn for: one step that adds rows    *)
(* for its own events and nothing else, and for each new row of the CQRS   *)
(* history one outbox entry.  CopySession implements it.                   *)
(***************************************************************************)
CONSTANTS
    Call,       \* calls of copyIn
    Model,      \* Model[c]: the model c writes to
    Events      \* Events[c]: the events of its chunk

VARIABLES
    history,    \* rows [id, event, model]
    outbox,     \* entries [seq, id]
    done        \* calls that committed

vars == <<history, outbox, done>>

Init == history = {} /\ outbox = {} /\ done = {}

Ids(rows) == {r.id : r \in rows}

\* The entries are one for each of the ids.
OneEach(entries, ids) ==
    /\ {e.id : e \in entries} = ids
    /\ \A e, f \in entries : e.id = f.id => e = f

Copy(c) ==
    /\ c \notin done
    /\ done' = done \cup {c}
    /\ \E rows \in SUBSET history', entries \in SUBSET outbox' :
          /\ history' = history \cup rows /\ history \cap rows = {}
          /\ outbox' = outbox \cup entries /\ outbox \cap entries = {}
          /\ {r.event : r \in rows} = Events[c]
          /\ \A r, q \in rows : r.event = q.event => r = q
          /\ \A r \in rows : r.model = Model[c]
          /\ OneEach(entries, IF Model[c] = "CQRS" THEN Ids(rows) ELSE {})

Next == \E c \in Call : Copy(c)

Spec == Init /\ [][Next]_vars
=============================================================================
