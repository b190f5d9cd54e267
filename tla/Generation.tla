----------------------------- MODULE Generation -----------------------------
(***************************************************************************)
(* Generating events into both models (GenerationService): a request       *)
(* splits its IMSI indices over threads, each thread writes its events in  *)
(* chunks, every chunk first to the NORMAL store and then to the CQRS      *)
(* store, and the request waits for the threads in turn.  POST /clear      *)
(* truncates the stores in the same order while all this goes on.          *)
(*                                                                         *)
(* A copyIn is one step here, committed or not: CqrsPipeline has its       *)
(* statements.  The event at offset s of request r is <<r, s>>; its        *)
(* updated_at is s seconds after the request's base, its IMSI is that of   *)
(* index s \div MaxEvents.  How many events an IMSI gets is drawn at       *)
(* random, here all at once when the request arrives.                      *)
(***************************************************************************)
EXTENDS Integers, FiniteSets

CONSTANTS
    Request,        \* POST /generate requests
    Clearer,        \* POST /clear requests
    Threads,        \* benchmark.generation.threads
    MinEvents,      \* GenerationService.MIN_EVENTS
    MaxEvents,      \* GenerationService.MAX_EVENTS
    ChunkSize,      \* benchmark.generation.chunk-size
    MaxImsis,       \* bound: the count a request asks for
    MaxFaults       \* bound: faults in one behaviour

ASSUME SizeAssumption ==
    /\ Threads \in Nat \ {0}
    /\ MinEvents \in Nat \ {0} /\ MaxEvents \in Nat /\ MinEvents <= MaxEvents
    /\ ChunkSize \in Nat \ {0}
    /\ MaxImsis \in Nat /\ MaxFaults \in Nat

Models == {"NORMAL", "CQRS"}

-----------------------------------------------------------------------------
(***************************************************************************)
(* Who generates what.                                                     *)
(***************************************************************************)
\* Math.max(1, Math.min(threads, uniqueImsis))
NThreads(n) == IF n <= 1 THEN 1 ELSE IF n < Threads THEN n ELSE Threads

\* A mistake: equal shares, the remainder forgotten.
EqualShare(n, t) == (n \div NThreads(n)) * t

From(n, t) == (n * t) \div NThreads(n)

To(n, t) == From(n, t + 1)

IndexRange(n, t) == From(n, t) .. (To(n, t) - 1)

\* The offsets of the events of IMSI index k when it gets count of them.
OffsetsAt(k, count) == {k * MaxEvents + j : j \in 0 .. (count - 1)}

Offsets(K, counts) == UNION {OffsetsAt(k, counts[k]) : k \in K}

\* What flush finds in the buffer when S is still to be written: a full
\* chunk in the order of generation, or the rest.
Buffer(S) == {s \in S : Cardinality({u \in S : u < s}) < ChunkSize}

-----------------------------------------------------------------------------
VARIABLES
    rpc,        \* a request: "idle", "waiting", "returned" or "failed"
    counts,     \* its events by IMSI index
    waitsFor,   \* the thread whose future it waits for
    tpc,        \* its threads: the store they write next, "done" or "failed"
    todo,       \* their events not yet written to both stores
    total,      \* its counter of events
    table,      \* the history rows of each model
    written,    \* history: all rows ever committed to each model
    cpc,        \* a clear: "idle" or the model it truncates next
    faults      \* faults so far

request == <<rpc, counts, waitsFor>>
threads == <<tpc, todo, total>>
stores == <<table, written>>
vars == <<request, threads, stores, cpc, faults>>

ThreadOf(n) == 0 .. (NThreads(n) - 1)
AllThreads == 0 .. (Threads - 1)
Size(r) == Cardinality(DOMAIN counts[r])

\* The numbers of events a request can draw, one per IMSI it asks for.
Draws == UNION {[0 .. (n - 1) -> MinEvents .. MaxEvents] : n \in 0 .. MaxImsis}

Rows(r, S) == {<<r, s>> : s \in S}

TypeOK ==
    /\ rpc \in [Request -> {"idle", "waiting", "returned", "failed"}]
    /\ counts \in [Request -> Draws]
    /\ waitsFor \in [Request -> AllThreads]
    /\ tpc \in [Request -> [AllThreads -> Models \cup {"done", "failed"}]]
    /\ todo \in [Request -> [AllThreads -> SUBSET Nat]]
    /\ total \in [Request -> Nat]
    /\ table \in [Models -> SUBSET (Request \X Nat)]
    /\ written \in [Models -> SUBSET (Request \X Nat)]
    /\ cpc \in [Clearer -> Models \cup {"idle"}]
    /\ faults \in 0 .. MaxFaults

Init ==
    /\ rpc = [r \in Request |-> "idle"]
    /\ counts = [r \in Request |-> [k \in {} |-> 0]]
    /\ waitsFor = [r \in Request |-> 0]
    /\ tpc = [r \in Request |-> [t \in AllThreads |-> "done"]]
    /\ todo = [r \in Request |-> [t \in AllThreads |-> {}]]
    /\ total = [r \in Request |-> 0]
    /\ table = [m \in Models |-> {}]
    /\ written = [m \in Models |-> {}]
    /\ cpc = [c \in Clearer |-> "idle"]
    /\ faults = 0

-----------------------------------------------------------------------------
Owned(n, c, t) == IF t \in ThreadOf(n) THEN Offsets(IndexRange(n, t), c) ELSE {}

HandOut(r, n, c) ==
    /\ counts' = [counts EXCEPT ![r] = c]
    /\ todo' = [todo EXCEPT ![r] = [t \in AllThreads |-> Owned(n, c, t)]]
    /\ tpc' = [tpc EXCEPT ![r] = [t \in AllThreads |->
                  IF Owned(n, c, t) = {} THEN "done" ELSE "NORMAL"]]

Generate(r) ==
    /\ rpc[r] = "idle"
    /\ \E n \in 0 .. MaxImsis :
          \E c \in [0 .. (n - 1) -> MinEvents .. MaxEvents] : HandOut(r, n, c)
    /\ rpc' = [rpc EXCEPT ![r] = "waiting"]
    /\ UNCHANGED <<waitsFor, total, stores, cpc, faults>>

CommitRows(m, R) ==
    /\ table' = [table EXCEPT ![m] = @ \cup R]
    /\ written' = [written EXCEPT ![m] = @ \cup R]

\* flush: normal.copyIn(buf)
FlushNormal(r, t) ==
    /\ tpc[r][t] = "NORMAL"
    /\ CommitRows("NORMAL", Rows(r, Buffer(todo[r][t])))
    /\ tpc' = [tpc EXCEPT ![r][t] = "CQRS"]
    /\ UNCHANGED <<request, todo, total, cpc, faults>>

\* A mistake: the buffer is not cleared after the flush.
FlushKeepingBuffer(r, t) ==
    /\ tpc[r][t] = "CQRS"
    /\ CommitRows("CQRS", Rows(r, Buffer(todo[r][t])))
    /\ total' = [total EXCEPT ![r] = @ + Cardinality(Buffer(todo[r][t]))]
    /\ tpc' = [tpc EXCEPT ![r][t] = "NORMAL"]
    /\ UNCHANGED <<request, todo, cpc, faults>>

\* flush: cqrs.copyIn(buf); total.addAndGet(...); buf.clear()
FlushCqrs(r, t) ==
    /\ tpc[r][t] = "CQRS"
    /\ CommitRows("CQRS", Rows(r, Buffer(todo[r][t])))
    /\ total' = [total EXCEPT ![r] = @ + Cardinality(Buffer(todo[r][t]))]
    /\ todo' = [todo EXCEPT ![r][t] = @ \ Buffer(@)]
    /\ tpc' = [tpc EXCEPT ![r][t] = IF todo'[r][t] = {} THEN "done" ELSE "NORMAL"]
    /\ UNCHANGED <<request, cpc, faults>>

\* A mistake: only a thread that finished is noticed.
GetDone(r) ==
    /\ rpc[r] = "waiting"
    /\ tpc[r][waitsFor[r]] = "done"
    /\ IF waitsFor[r] + 1 < NThreads(Size(r))
       THEN /\ waitsFor' = [waitsFor EXCEPT ![r] = @ + 1]
            /\ UNCHANGED rpc
       ELSE /\ rpc' = [rpc EXCEPT ![r] = "returned"]
            /\ UNCHANGED waitsFor
    /\ UNCHANGED <<counts, threads, stores, cpc, faults>>

\* f.get() on one future after the other; the first that threw fails the
\* request, and shutdownNow interrupts the threads that still run.
Get(r) ==
    /\ rpc[r] = "waiting"
    /\ \/ /\ tpc[r][waitsFor[r]] = "done"
          /\ IF waitsFor[r] + 1 < NThreads(Size(r))
             THEN /\ waitsFor' = [waitsFor EXCEPT ![r] = @ + 1]
                  /\ UNCHANGED rpc
             ELSE /\ rpc' = [rpc EXCEPT ![r] = "returned"]
                  /\ UNCHANGED waitsFor
       \/ /\ tpc[r][waitsFor[r]] = "failed"
          /\ rpc' = [rpc EXCEPT ![r] = "failed"]
          /\ UNCHANGED waitsFor
    /\ UNCHANGED <<counts, threads, stores, cpc, faults>>

-----------------------------------------------------------------------------
(***************************************************************************)
(* Clears: runExclusive, then the stores in the order of EventModel.       *)
(***************************************************************************)
StartClear(c) ==
    /\ \A d \in Clearer : cpc[d] = "idle"
    /\ cpc' = [cpc EXCEPT ![c] = "NORMAL"]
    /\ UNCHANGED <<request, threads, stores, faults>>

Truncate(c) ==
    /\ cpc[c] \in Models
    /\ table' = [table EXCEPT ![cpc[c]] = {}]
    /\ cpc' = [cpc EXCEPT ![c] = IF @ = "NORMAL" THEN "CQRS" ELSE "idle"]
    /\ UNCHANGED <<request, threads, written, faults>>

-----------------------------------------------------------------------------
(***************************************************************************)
(* Faults.                                                                 *)
(***************************************************************************)
Fault ==
    /\ faults < MaxFaults
    /\ faults' = faults + 1

\* A mistake: the thread swallows the exception and goes on with its range.
SkipFailedChunk(r, t) ==
    /\ Fault
    /\ tpc[r][t] \in Models
    /\ todo' = [todo EXCEPT ![r][t] = @ \ Buffer(@)]
    /\ tpc' = [tpc EXCEPT ![r][t] = IF todo'[r][t] = {} THEN "done" ELSE "NORMAL"]
    /\ UNCHANGED <<request, total, stores, cpc>>

\* A copyIn throws; its transaction was rolled back, or committed although
\* the answer was lost.
ThreadFails(r, t) ==
    /\ Fault
    /\ tpc[r][t] \in Models
    /\ \/ UNCHANGED stores
       \/ CommitRows(tpc[r][t], Rows(r, Buffer(todo[r][t])))
    /\ tpc' = [tpc EXCEPT ![r][t] = "failed"]
    /\ UNCHANGED <<request, todo, total, cpc>>

\* A thread of a failed request notices the interrupt where it waits for a
\* connection; it need not come to that, and then it writes its whole range.
ThreadInterrupted(r, t) ==
    /\ rpc[r] = "failed"
    /\ tpc[r][t] \in Models
    /\ tpc' = [tpc EXCEPT ![r][t] = "failed"]
    /\ UNCHANGED <<request, todo, total, stores, cpc, faults>>

\* A TRUNCATE throws.
ClearFails(c) ==
    /\ Fault
    /\ cpc[c] \in Models
    /\ cpc' = [cpc EXCEPT ![c] = "idle"]
    /\ UNCHANGED <<request, threads, stores>>

Crash ==
    /\ Fault
    /\ rpc' = [r \in Request |-> IF rpc[r] = "waiting" THEN "failed" ELSE rpc[r]]
    /\ tpc' = [r \in Request |-> [t \in AllThreads |->
                  IF tpc[r][t] \in Models THEN "failed" ELSE tpc[r][t]]]
    /\ cpc' = [c \in Clearer |-> "idle"]
    /\ UNCHANGED <<counts, waitsFor, todo, total, stores>>

-----------------------------------------------------------------------------
ThreadStep(r, t) == FlushNormal(r, t) \/ FlushCqrs(r, t)

FaultStep ==
    \/ \E r \in Request, t \in AllThreads : ThreadFails(r, t) \/ ThreadInterrupted(r, t)
    \/ \E c \in Clearer : ClearFails(c)
    \/ Crash

Next ==
    \/ \E r \in Request : Generate(r) \/ Get(r)
    \/ \E r \in Request, t \in AllThreads : ThreadStep(r, t)
    \/ \E c \in Clearer : StartClear(c) \/ Truncate(c)
    \/ FaultStep

Spec == Init /\ [][Next]_vars

\* Threads of the pool and of the request run; databases answer.
Fairness ==
    /\ \A r \in Request : WF_vars(Get(r))
    /\ \A r \in Request, t \in AllThreads : WF_vars(ThreadStep(r, t))

FairSpec == Spec /\ Fairness

-----------------------------------------------------------------------------
(***************************************************************************)
(* Properties.                                                             *)
(***************************************************************************)
\* All events of a request, and those among them that model m ever got.
EventsOf(r) == Offsets(DOMAIN counts[r], counts[r])
WrittenOf(r, m) == {s \in EventsOf(r) : <<r, s>> \in written[m]}

\* No event is inserted twice: no two threads own it, and no flush repeats
\* what an earlier one wrote.  (The history tables would not notice: the
\* second row gets an id of its own.)
EventsWrittenOnce ==
    \A r \in Request : \A t \in AllThreads :
        tpc[r][t] \in Models =>
            Rows(r, Buffer(todo[r][t])) \cap written[tpc[r][t]] = {}

\* A request that returned wrote all events of all its IMSIs to both models,
\* and totalEvents says how many: no index falls between two ranges, no rest
\* stays in a buffer, and no thread is left behind.
ReturnedIsComplete ==
    \A r \in Request : rpc[r] = "returned" =>
        /\ \A m \in Models : WrittenOf(r, m) = EventsOf(r)
        /\ total[r] = Cardinality(EventsOf(r))

\* What one model got and the other did not is the chunk a thread has in
\* hand or failed with; nothing gets into the CQRS model alone.
DifferencesExplained ==
    /\ written["CQRS"] \subseteq written["NORMAL"]
    /\ \A e \in written["NORMAL"] \ written["CQRS"] :
          \E t \in AllThreads :
             /\ tpc[e[1]][t] \in {"CQRS", "failed"}
             /\ e[2] \in Buffer(todo[e[1]][t])

-----------------------------------------------------------------------------
(***************************************************************************)
(* What the safety properties rest on: the inductive invariant, in parts.  *)
(***************************************************************************)
OwnedBy(r, t) == Owned(Size(r), counts[r], t)

\* Whatever is still to be written or was written belongs to one thread.
WorkIsOwned ==
    /\ \A r \in Request : \A t \in AllThreads : todo[r][t] \subseteq OwnedBy(r, t)
    /\ \A m \in Models : \A e \in written[m] :
          \E t \in AllThreads : e[2] \in OwnedBy(e[1], t)

\* How far a thread got follows from the store it writes next.
Progress(r, t) ==
    LET left == todo[r][t]
        Got(m, S) == \A s \in S : <<r, s>> \in written[m]
        Lacks(m, S) == \A s \in S : <<r, s>> \notin written[m]
    IN  /\ tpc[r][t] = "done" <=> left = {}
        /\ tpc[r][t] = "NORMAL" => Lacks("NORMAL", left)
        /\ tpc[r][t] = "CQRS" => Got("NORMAL", Buffer(left))
        /\ tpc[r][t] \in Models => Lacks("CQRS", left)
        /\ Lacks("NORMAL", left \ Buffer(left))
        /\ Got("CQRS", OwnedBy(r, t) \ left)

ThreadProgress == \A r \in Request, t \in AllThreads : Progress(r, t)

NormalFirst == written["CQRS"] \subseteq written["NORMAL"]

\* A request has waited for the threads before the one it waits for.
Waited(r) ==
    /\ rpc[r] = "idle" => counts[r] = [k \in {} |-> 0] /\ waitsFor[r] = 0
    /\ rpc[r] = "waiting" =>
          /\ waitsFor[r] < NThreads(Size(r))
          /\ \A t \in AllThreads : t < waitsFor[r] => tpc[r][t] = "done"
    /\ rpc[r] = "returned" => \A t \in AllThreads : tpc[r][t] = "done"

WaitOrder == \A r \in Request : Waited(r)

\* The counter is exact as long as no thread failed: a commit whose answer
\* was lost is not counted.
Counted(r) ==
    (\A t \in AllThreads : tpc[r][t] # "failed")
        => total[r] = Cardinality(WrittenOf(r, "CQRS"))

TotalIsExact == \A r \in Request : Counted(r)

GInv ==
    /\ TypeOK
    /\ WorkIsOwned
    /\ ThreadProgress
    /\ NormalFirst
    /\ WaitOrder
    /\ TotalIsExact

-----------------------------------------------------------------------------
(***************************************************************************)
(* Liveness, and a statement of the documentation.                         *)
(***************************************************************************)
\* A request is answered: a thread that fails does not leave it waiting, nor
\* does one that is far behind.
EveryRequestIsAnswered ==
    \A r \in Request : rpc[r] = "waiting" ~> rpc[r] \in {"returned", "failed"}

\* "loaded into both models ... truncates both models" (README): when nothing
\* runs and nothing failed, both models hold the same events.
ModelsHoldTheSame ==
    /\ \A r \in Request : rpc[r] \in {"idle", "returned"}
    /\ \A c \in Clearer : cpc[c] = "idle"
    /\ faults = 0
    => table["NORMAL"] = table["CQRS"]
=============================================================================
