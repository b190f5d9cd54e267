# Verification of the UE event tracker

TLA+ modules, TLC configurations and TLAPS proofs for the UE event tracker: a
Spring Boot service that stores synthetic subscriber events in two ways, plain
("NORMAL") and with separate write and read sides ("CQRS"), and a dashboard in
the browser that shows and compares them. File names below are relative to
`src/backend/src/main/java/com/example/ue_tracker/` unless they start
otherwise; `Dashboard.tsx`, `api.ts` and `proto.js` are in
`src/frontend/src/`.

Contents: [inventory](#1-inventory) · [modules](#2-modules) ·
[state and actions against the code](#3-state-and-actions-against-the-code) ·
[runs](#4-runs) · [bounds](#5-bounds) · [fairness](#6-fairness) ·
[proofs](#7-proofs) · [where code and documents differ](#8-where-code-and-documents-differ) ·
[not modelled](#9-not-modelled) · [plan](#10-plan)

## 1. Inventory

### Components

| component | state | operations | talks to |
|---|---|---|---|
| Event tables (`store/EventSql`, `V1__benchmark_schema.sql`) | NORMAL: `ue_events`, `ue_events_history`; CQRS: `cqrs_write_latest`, `cqrs_write_history`, `cqrs_outbox` on the primary, `cqrs_read_latest`, `cqrs_read_history` on the read database; four sequences | latest-wins upsert, history insert | all below |
| Staging (`store/CopySupport`) | temporary table `staging_events` of a pooled connection | `withStaging`: truncate, COPY, caller's SQL, commit | both stores |
| NORMAL store (`store/NormalEventStore`) | – | `copyIn`, `clear`, `stats`, `getLatest`, `getHistory` | staging, queries |
| CQRS store (`store/CqrsEventStore`) | temporary table `new_ids` | the same; `copyIn` also writes the outbox, `clear` works on two databases, reads go to the read database | staging, queries |
| Projector (`cqrs/CqrsProjectorService`) | a `ReentrantLock`, the counter `projectedRows` | `scheduledDrain`, `drainOnce`, `runExclusive`, `backlog` | both databases |
| Generation (`generator/GenerationService`, `EventFactory`) | thread pool, buffers and three counters per request | `generate`: IMSI ranges over threads, chunks flushed to both stores | both stores |
| Queries (`store/EventQuery`) | – | `page`, `count` | read tables |
| Benchmark (`benchmark/BenchmarkService`) | load threads, counters, samples | `run`: background load, measured reads, percentiles | both stores, projector |
| Controller (`controller/UeEventController`), protobuf adapter (`adapter/UeEventAdapter`) | – | `/generate`, `/clear`, `/stats`, `/projection/status`, `/events/...`, `/benchmark`; `fromRow` | all above |
| Dashboard (`Dashboard.tsx`, `api.ts`) | state hooks: model, page, filters, order, rows, flags, messages, backlog | toggle, sort, search, page, refresh, generate, clear, history dialog, poll, benchmark | controller |
| Generated protobuf code (`proto.js`) | messages: own properties and unknown records | `encode`, `decode`, `verify`, `fromObject`, `toObject` | dashboard |

Wiring (`config/`), scaffolding of the frontend and `src/run.sh` hold no state
of the application.

### Interactions

`POST /generate` starts threads; each flush commits one chunk to the NORMAL
store and then, in another transaction, to the CQRS store, where history rows,
latest rows and outbox entries commit together. Once a second the scheduler
calls `scheduledDrain`, which takes the lock, claims the oldest outbox entries,
joins them with the write history, writes the read tables and deletes the
entries, statement by statement and on two databases, and repeats until the
outbox is empty. `POST /clear` takes the same lock and truncates all tables,
the primary's CQRS tables in one statement and the read database's in another.
`POST /benchmark` starts six load threads of its own and measures reads next to
them. Readers look at any moment: a page is a count and a SELECT, statistics
are two counts. The dashboard has any number of such calls in flight and takes
their answers, protobuf messages, in the order in which they arrive.

### What is hard

* *Ordering.* Sequence values are drawn before the commit, so outbox entries
  appear out of seq order; several events of one IMSI arrive in any order;
  answers overtake each other on the way to the browser; records of a message
  may come in any order.
* *Atomicity.* A drain is five autocommit statements on two databases, a clear
  two, a page and the statistics two each. Each can fail in between, tables
  change in between, and a JDBC batch can be applied in part.
* *Interleaving.* Transactions overlap each other, the drain and the clear,
  and wait for each other's locks.
* *Stale state.* Temporary tables outlive the call that filled them; a handler
  goes on after an await with the controls of an earlier render.
* *Crashes.* The process can die anywhere; tables stay, threads, transactions,
  the lock and the counter are gone.
* *Limits.* Page and size are any int; a window of the benchmark can have one
  sample or none.
* *Liveness.* A nonfair lock shared by a loop and by waiting requests; load
  threads that only a flag stops; spinners that only an answer ends.

### What makes each component correct

* *Projector and CQRS store*: no committed event is lost on the way to the
  read side; none is duplicated; none comes back after a clear; the read side
  never goes back in time; once the outbox is empty both sides agree; every
  write arrives and every clear gets its turn.
* *Upsert*: the newest event per IMSI wins, whoever commits last.
* *Staging*: a transaction inserts its own chunk and nothing else, whatever an
  earlier one on the connection left behind.
* *Locks*: writers never deadlock; what a TRUNCATE waits for ends.
* *Generation*: every IMSI index is generated by one thread; a failure leaves
  whole chunks; both models hold the same events.
* *Queries*: pages partition the result; announced pages are there; a walk over
  the pages misses nothing.
* *Statistics and benchmark*: no more IMSIs than events; percentiles are those
  of the samples; what is reported as written was written; load threads stop.
* *Dashboard*: what is shown answers the question asked last, or comes to.
* *Protobuf code*: what a page carries survives every conversion, and so does
  what a newer server adds.

The hazards at their lines, with the properties that cover them, are listed in
`PROJECT.json`.

## 2. Modules

| module | what it is |
|---|---|
| `EventSql` | tables as values and SQL statements as operators |
| `CqrsPipeline` | the CQRS store's writes and clear, the projector and the lock: the core |
| `OutboxFeed` | what the outbox promises, without tables, threads or transactions: records are appended, delivered any number of times in any order, acknowledged only when delivered, and forgotten only by a clear |
| `Generation` | requests that generate events: threads, chunks, the two stores as sets of rows, and clears of both |
| `CopySession` | `copyIn` of both stores statement by statement on pooled connections, with the temporary tables that belong to them |
| `AtomicCopy` | what the modules above take a `copyIn` for: one step that adds the rows of its chunk and an outbox entry for each |
| `TableLocks` | the table and row locks of `copyIn`, `clear` and `drainOnce`, taken one by one, and PostgreSQL's deadlock detector |
| `ReadApi` | pages and statistics next to writes, a projector and clears |
| `Benchmark`, `LatencyStats` | benchmark runs with their load and samplers; the indices of the percentiles |
| `DashboardToggle` | the toggle and the clicks, which the next two share |
| `Dashboard` | the table with its controls, the statistics chip, Generate and Clear |
| `DashboardPanels` | the history dialog, the backlog poll and the benchmark panel |
| `Protobuf`, `UeEventSchema` | messages and the functions of `proto.js` as operators over a schema; the schemas of the API, the server's adapter and the cells of the table |
| `PageDecoder` | `decode` of a page and its events, record by record, of bytes from anybody |
| `CodecCalls` | a response from its rows to the cells, through any calls of the generated functions |
| `MCCqrsPipeline`, `MCCopySession`, `MCReadApi`, `MCDashboard`, `MCProtobuf` | constants for TLC; `MCProtobuf` also puts `PageDecoder` and `CodecCalls` side by side |
| `*_proofs` | theorems about the module of that name; `Dashboard_proofs` also about `DashboardPanels`, `Protobuf_proofs` also about `PageDecoder` and `CodecCalls` |

`CqrsPipeline` extends `EventSql` and instantiates `OutboxFeed` with
`log <- writeHistory, pending <- Pending, view <- readHistory`; `Pending` is the
set of history rows that still have an outbox entry.

`CopySession` instantiates `AtomicCopy` with the committed tables. This is the
step by which the other modules abstract: a copy is three statements in
`CqrsPipeline`, where upserts of one IMSI wait for each other; one step in
`Generation`, committed or not, so that threads, chunks and the order of the two
stores can be seen; locks without rows in `TableLocks`; and one row in
`ReadApi`.

Definitions whose comment begins "A mistake:" take no part in a specification.
Each is a plausible error in the definition that follows it, kept to see that a
property notices it. Variables called "history" in their comment record what
happened and influence nothing.

## 3. State and actions against the code

### `CqrsPipeline`

An event is a value with an IMSI and an `updated_at`. A history table is a set
of rows `[id, event]`. A latest table maps an IMSI to a row `[cur, ins]`: the
upsert's SET clause names eight columns, so after an update those are of the
event `cur` and all others still of the event `ins` the row was inserted for.

Every other column is abstracted away. `LatestArgs` leaves open which of several
newest rows wins, as the join returns rows in no particular order.

| variable | code |
|---|---|
| `writeHistory`, `writeLatest`, `outbox`, `historySeq`, `outboxSeq` | committed tables and sequences of the primary |
| `readHistory`, `readLatest` | the read database |
| `wpc`, `wrows`, `wlatest`, `wentries` | an open `copyIn` transaction: its next statement, the rows it inserted (`new_ids`), the latest rows it wrote and so has locked, its outbox entries |
| `dpc`, `claimed`, `rows` | the scheduler thread in `scheduledDrain`/`drainOnce`: next step and locals |
| `projectedRows`, `holder` | fields of the projector |
| `cpc` | request threads in `POST /clear`; `"queued"` is waiting in `lock.lock()` |
| `sent`, `faults` | of the model: events already generated, faults so far |

| action | code |
|---|---|
| `InsertHistory`, `UpsertWriteLatest`, `InsertOutbox`, `Commit` | the statements of `CqrsEventStore.copyIn` and the commit of `CopySupport.withStaging`. COPY into the private staging table is part of the first. Rows get sequence values in any order. The upsert waits for row locks (`RowsFree`) and then sees what the other transaction committed, as READ COMMITTED does |
| `Tick`, `CheckQueue`, `TryLock` | the scheduler's call, `hasQueuedThreads()`, `tryLock()`; these are separate steps because a request can queue between the two calls |
| `Claim`, `Fetch`, `InsertReadHistory`, `UpsertReadLatest`, `DeleteOutbox` | the five statements of `drainOnce`; `Leave` is the `finally` with the unlock, after which the loop goes on or the call returns |
| `RequestClear`, `AcquireLock`, `TruncatePrimary`, `TruncateRead` | `runExclusive` around `CqrsEventStore.clear`. TRUNCATE needs the table to itself, so it waits for every open transaction that has written |
| `Abort` | an SQLException in `withStaging`: connection closed without commit |
| `DrainFails` | a statement of `drainOnce` throws: a JDBC batch applied in part, a DELETE applied although its answer was lost, or no effect |
| `ClearFails` | a TRUNCATE throws; the lock is released by the `finally` |
| `Crash` | the process dies: open transactions roll back, threads, lock and counter start anew, tables and sequences stay |

### `Generation`

An event is a pair of its request and its offset in seconds
from the request's base time, which is unique within a request; offset
`k * MaxEvents + j` is event `j` of the IMSI with index `k`.

| variable | code |
|---|---|
| `rpc`, `waitsFor` | a request thread in `GenerationService.generate`, and the future it waits for |
| `counts` | how many events each IMSI index gets. The code draws the number when it comes to the index, the model when the request arrives, which nobody can tell |
| `tpc`, `todo` | a thread of the request's pool: the store it writes next; its events that are not yet in both stores. The buffer is a function of these (`Buffer`) |
| `total` | the `AtomicLong` |
| `table` | `ue_events_history` and `cqrs_write_history` |
| `cpc` | request threads in `POST /clear` |
| `written`, `faults` | of the model: rows ever committed, cleared ones included; faults so far |

| action | code |
|---|---|
| `Generate` | `generate` up to the last `submit`: the ranges, one thread each |
| `FlushNormal`, `FlushCqrs` | `flush`, with the loop of `generateRange` that fills the buffer before it |
| `Get` | one `f.get()`: the next future, the result, or the exception |
| `StartClear`, `Truncate` | `clear`: `runExclusive`, then one store after the other. `ReentrantLock` admits one clear at a time |
| `ThreadFails` | a `copyIn` throws, with the chunk rolled back or committed |
| `ThreadInterrupted` | `shutdownNow` after a failure. A thread notices it where it waits for a connection and nowhere else, so it may also run to the end of its range: nothing awaits it |
| `ClearFails`, `Crash` | as above |

### `CopySession`

| variable | code |
|---|---|
| `session` | the temporary tables `staging` and `newIds` of each connection of the pool: whether they exist, and their rows |
| `saved` | the same when the open transaction began, to which a rollback goes back |
| `step`, `call` | the next statement of the call that has the connection, and the call |
| `rows`, `entries` | what its transaction inserted |
| `history`, `outbox`, `done`, `lastId`, `lastSeq` | committed tables and calls, sequences |

| action | code |
|---|---|
| `Borrow` | `ds.getConnection()` |
| `CreateStaging`, `TruncateStaging`, `CopyChunk` | the three statements of `withStaging` |
| `CreateNewIds`, `InsertHistory`, `InsertOutbox` | the statements of the two stores' `copyIn`; NORMAL has only the second |
| `Commit` | the commit, with `ON COMMIT DROP` for `new_ids` but not for `staging_events` |
| `Fail` | a statement throws; `try` closes the connection, which rolls back its tables, the temporary ones included |
| `Retire` | the pool replaces an idle connection |

### `TableLocks`

`script[p]` has the locks a process has yet to take in its transaction, in the
order in which PostgreSQL comes to them, `held[p]` those it has. A lock is on a
table (row 0) or on a row of a latest table. `latest` and `history` are the IMSIs
with rows in the tables.

| action | code |
|---|---|
| `BeginCopy` | a writer begins a `copyIn` of events of some IMSIs. `order` is the order in which the upsert reaches their rows; `ByImsi` is what `DISTINCT ON (imsi) ... ORDER BY imsi` makes of it |
| `BeginCall` | `clear` or a drain gets the projector's lock |
| `Acquire` | PostgreSQL grants the next lock when nothing conflicts |
| `CommitCopy`, `CommitStatement` | the transaction ends; a clear has one per store, a drain one per statement |
| `Abort` | the deadlock detector ends a transaction that waits for itself |

`WaitsForItself` is stated without recursion: a process is in a circle when it
belongs to every closed set that has its blockers.

### `ReadApi`

A row is its sort key, `updated_at` and the tie key (IMSI or id), and in a latest
table one text for the columns `msisdn`, `rat`, `provider_name` and
`country_name`. A filter is the set of IMSIs and the set of texts that match. The
upsert replaces the text along with `updated_at`, so a write can take a row out
of a filter or into it. `walk` records what a client has seen since it asked for
its first page, and what writes did meanwhile: `moved` are rows that have changed
place or are gone, `shifted` says that one of the positions already read lost its
row, `left` that a row is gone since the count.

| action | code |
|---|---|
| `Write`, `ProjectLatest`, `Clear` | a NORMAL copy in one step, or the projector's two read-side statements; a TRUNCATE |
| `BeginWalk`, `NextPage` | a client that asks for page after page while the last answer announces more |
| `AskFor` | a single request with any page and size, negative and huge ones included |
| `Count`, `ReadPage` | the two statements of `EventQuery.page`, on two connections, with `int` arithmetic; a negative OFFSET or LIMIT is PostgreSQL's error |
| `FirstCount`, `SecondCount` | the two counts of `stats` |
| `Leave` | the answer is used |

### `Benchmark`

Writes are counted in batches; one that a drain applied in part counts when the
retry has inserted its rest. Time is left out: a window lasts from one step to
a later one, and `awaitTermination` can give up at any moment.

| variable | code |
|---|---|
| `phase`, `outcome`, `running` | where `run` is, how it will end, its `AtomicBoolean` |
| `writer`, `sampler` | the tasks of the two pools |
| `counter`, `projected` | `normalLoadEvents`; the projector's counter |
| `backlog`, `again`, `dpc` | the outbox; those of its batches that a failed drain has left in the read database already; how far `drainOnce` has come with the batch in hand |
| `own`, `landed`, `late`, `lost`, `failed` | history: batches that a run's NORMAL writers committed, those that reached the read database, those after the stop, those whose `copyIn` threw although it committed, drains that failed |

| action | code |
|---|---|
| `Start`, `Warm`, `WarmFails`, `GetNormal`, `GetCqrs` | `run` from the `submit`s through the two warm-up reads to the two `get`s |
| `Stop` (in several of these), `Finish` | the `finally`, and the end of `awaitTermination` with or without the writers |
| `BeginWindow`, `EndWindow`, `SamplerFails` | `measureFor` |
| `Loop`, `CopyIn`, `AddToCounter` | a load thread: the flag, the batch, the counter. `Commits` is the commit of a batch, early or late |
| `CopyFails` | the swallowed exception: the batch was rolled back, or committed and the answer lost, or `shutdownNow` interrupted the wait for a connection |
| `Project`, `DeleteOutbox`, `CountProjected` | `drainOnce`: the inserts of a batch, new or left by a failed drain; the DELETE; the counter |
| `DrainFails` | a statement of `drainOnce` throws: the batch is projected again or, when only the answer of the DELETE was lost, gone and never counted |
| `OtherWrite`, `Clear` | generations and `POST /clear` |

`LatencyStats` has the index arithmetic of the percentiles, and `NearestRanks`,
their definition.

### `Dashboard` and `DashboardPanels`

A handler runs to its first await without interruption, and so does what follows
an await; state updates of a run apply together, then the effects run. So each
handler is one action, each answer or error another. `pending` keeps the calls
of `fetchLatest` in the order in which they were made and an answer can come for
any of them. `excuse` records why the table may not answer the controls;
section 8 says more.

| action | code |
|---|---|
| `ToggleModel`, `ToggleSort`, `SetFilter`, `RunSearch`, `RunSearchAgain`, `ClearSearch`, `OnPage`, `Refresh` | the handlers of the controls, with the effect they trigger. `RunSearchAgain` is a search with the object that is already active: React sees no change |
| `AnswerLatest`, `LatestFails`, `AnswerStats`, `StatsFail` | `loadLatest` and `loadStats` after their await |
| `StartOp`, `OpSucceeds`, `OpFails` | `onGenerate` and `onClear` before and after their await, with the controls of the render they belong to |
| `OpenHistory`, `CloseHistory`, `AnswerHistory`, `HistoryFails` | the dialog |
| `Tick`, `AnswerPoll`, `PollFails` | the interval of the poll effect and its calls; `ToggleWithPoll`, the same toggle, starts and stops it. `OutboxChanges` is the server |
| `OnBenchmark`, `BenchmarkAnswers`, `BenchmarkFails` | the panel |

### Protobuf code

The generated functions differ from message to message only in their fields, so
each is one operator with the schema as argument: `DecodeRecord`, `Encode`,
`Verify`, `ToObject`, `FromObject`. A message is the properties it owns and its
unknown records. A record is a number, a wire type and a value before it is cut
to the field's kind; how bytes spell it is left out.

| action | code |
|---|---|
| `PageRecord`, `EnterEvent`, `EventRecord`, `LeaveEvent` | the loops of `UeEventPageResponse.decode` and, inside, of `UeEvent.decode` |
| `Return`, `Throw` | its end, or a record that cannot be read |
| `Reencode`, `Convert`, `Assign` (`CodecCalls`) | `decode(encode(m))`, `fromObject(toObject(m, options))`, an assignment to a property |

## 4. Runs

| run | module | distinct states | asks |
|---|---|---|---|
| `cqrs` | `MCCqrsPipeline` | 275,890 | does the pipeline keep, order and deliver every event, through faults and a clear? |
| `generation` | `Generation` | 553,837 | does a generation write every event once to both models, or say that it failed? |
| `copy_session` | `MCCopySession` | 688,144 | is a `copyIn` one step, although its temporary tables outlive it? |
| `table_locks` | `TableLocks` | 16,000 | who can deadlock, and what does a TRUNCATE meet? |
| `read_api` | `MCReadApi` | 3,285,064 | what do pages and statistics say while tables change? |
| `benchmark` | `Benchmark` | 78,033 | what does a window count, and does the load stop? |
| `dashboard` | `MCDashboard` | 243,482 | does the table show what the controls ask for? |
| `panels` | `DashboardPanels` | 320,512 | the same of dialog, backlog chip and benchmark panel |
| `protobuf` | `MCProtobuf` | 441,589 | does a page survive the generated code? |
| `doc_latest_row`, `doc_double_projection`, `doc_models_same` | | | section 8: each ends in a counterexample |

Properties, and what each would catch:

`cqrs`

* `AcknowledgedIsProjected` – an event whose outbox entry is gone is in the read
  history and its IMSI's read latest row is at least as new. Broken, for
  example, by deleting "everything up to the last claimed seq": a transaction
  that drew a lower seq and commits later would vanish.
* `ReadLatestHasHistory` – whatever the list view shows, the history view can
  explain. Depends on the order of the two read-side inserts and of the two
  tables' truncation.
* `WriteLatestIsNewest` – overlapping upserts of one IMSI keep the newest event.
* `OneRowPerEvent` – an id is one event and an event one id on both sides
  together, across retries and half-done clears. This is what makes the retry's
  `ON CONFLICT DO NOTHING` correct; it relies on TRUNCATE leaving the sequences
  alone and on the projector carrying ids over.
* `CountedAtMostOnce` – what the benchmark reports as projected never exceeds
  what was written and is no longer waiting.
* `SettledViewsAgree` – with an empty outbox, and unless a clear stopped
  halfway, both sides hold the same history and equally new latest rows.
* `NoResurrection` – a drain that began before a clear brings nothing back.
* `ReadSideNeverGoesBack` – readers see the read side grow and get newer, or be
  emptied, and then all that is written is still to be projected.
* `FeedSpec` – the pipeline implements `OutboxFeed`.
* `EveryWriteReachesReadSide` – a committed event reaches the read side unless
  it is cleared first.
* `QueuedClearRuns` – a waiting clear gets the lock although the drain could
  take it again and again.

`generation`

* `EventsWrittenOnce` – no event is inserted into a model a second time. The
  history tables would take it, under an id of its own. Depends on disjoint
  ranges and on the buffer being cleared.
* `ReturnedIsComplete` – a request that returned has written all events of all
  its IMSIs to both models, and `totalEvents` is their number: no index between
  two ranges, no rest in a buffer, no thread that failed unseen.
* `DifferencesExplained` – what one model was given and the other was not is
  the chunk a thread has in hand or failed with, and the CQRS model is never
  ahead.
* `EveryRequestIsAnswered` – a failing thread, or one far behind, leaves no
  request waiting.

`copy_session`, `table_locks`

* `EachCallInsertsItsChunk` – a call that committed inserted its events, each
  once, into its model, and a call that failed none, whatever it found in
  `staging_events`.
* `CopiesAreAtomic` – copies implement `AtomicCopy`; in particular `new_ids`
  has the ids of this call only, so no row gets two outbox entries.
* `OnlyClearsDeadlock` – writers never wait for each other in a circle, however
  their IMSIs overlap; what deadlocks has a clear in it and never the drain. A
  clear and a copy do deadlock, as TRUNCATE takes a model's tables in the other
  order; PostgreSQL aborts one of them.
* `LatestHasHistory` – a TRUNCATE in the middle of a copy takes effect before or
  after it: no IMSI is left with a latest row and no history.
* `WorkEnds` – every transaction ends and the projector's lock is given back,
  deadlocks included.

`read_api`, `benchmark`

* `WalkMissesNothing` – in a history, and newest first, a client that reached
  the last announced page has seen every row that was there when it began and
  that no write moved or took out of the filter. Depends on new rows coming
  first: in ascending order of a latest table rows can be missed, and the
  property does not speak of it. Nor does it of a walk during which an update
  took a row out of the filter from among those already read, nor of a last
  answer whose count is older than its page: section 8.
* `QuietWalkIsExact` – while nothing is written every row is on exactly one
  page, ties on `updated_at` included.
* `AnnouncedPagesHoldRows` – every page below `totalPages` is there and full
  unless it is the last, although `page * size` wraps around, and no page too
  many is announced; unless a clear comes, or an update takes a row out of the
  filter, between the count and the page.
* `StatsInOrder` – never more IMSIs than events, wherever the projector's two
  statements fall between the two counts.
* `OneLateBatch` – a load thread commits at most the batch it had in hand after
  the benchmark stopped it.
* `CountsTheWindow` – what a window reports as written was written in it, up to
  one batch per thread between commit and count, one for each commit or DELETE
  whose answer was lost, and one for each drain that failed after its inserts and
  is counted when it is tried again. On the CQRS side this is everyone's writes.
* `PercentilesAreNearestRanks` – for 1 to 101 samples, and no index leaves the
  array. The property says nothing of a window without a sample: the code
  answers it with zeros (`benchmark/BenchmarkService.java:159`) and picks nothing.
* `RunsAndWritersEnd` – however a run ends, it ends, and its threads with it.

`dashboard`, `panels`

* `TableAnswersControls`, `StatsAnswerModel` – once every call is answered the
  table shows the query on the controls and data no older than the last
  operation, with the exceptions of section 8, and the chip the model.
* `HistoryIsOfItsTitle` – the same of the dialog and its title.
* `BacklogSettles` – an outbox that stays empty is shown as such in the end.
* `SpinnersEnd`, `PanelSpinnersEnd` – no spinner and no "Generating" stays.

`protobuf`

* `MessagesAreTheirRecords` – of every field the last record counts, in any
  order and repeated; each event is made of its own records alone.
* `UnknownsAreKept` – what the schema does not know is kept, once and in order.
* `PagesSurviveCalls` – the cells show the rows, and later fields are still
  there, after any calls of the generated functions.
* `NoDefaultIsWritten` – what was decoded or converted is written without
  defaults, as protobuf-java would, also after assignments of values that fit
  their fields.
* `VerifyMeansNamed` – `verify` accepts exactly the pages whose enums all have
  names here.

The type invariants say what the variables hold; no run lists them, since all
of them are proved. So are `JoinCoversClaim`, `SpinnerHasACall`,
`ProgressIsTrue`, `PanelsAreBacked` and `OutboxNamesNewRows`, on which properties
of the runs rest.

## 5. Bounds

* `cqrs`: three events of two IMSIs, two writers, one clearer. A hazard of
  ordering needs a transaction overtaken by another and an entry left over for
  the next batch; that takes two transactions of which one has two events.
  `MaxChunk = BatchSize = 2`: several events, and several of one IMSI, in a
  transaction; a full batch, a short one and an empty one. One fault. Events
  tied on `updated_at`, a clear that waits for a clear and a fault while
  recovering from a fault are left to the theorems.
* `generation`: up to four IMSIs on three threads, so that ranges differ in
  length and counts above and below the number of threads occur; one or two
  events per IMSI in chunks of two, so that chunks end within an IMSI and leave
  rests. One request, as requests share nothing but the tables, where their
  events differ; one clear, as the lock excludes clears from each other; one
  fault, after which a request is over.
* `copy_session`: four calls on two connections, so that a connection serves
  calls of both models one after the other next to another connection at work;
  two failures, so that a rollback meets what a failed call left.
* `table_locks`: two IMSIs and two copies. A circle of writers needs two rows,
  one with a clear two tables of a model or of both; the drain and the clear
  repeat for ever.
* `read_api`: three rows, two IMSIs, two values of `updated_at` and two texts,
  four filters (everything, one text, one text of one IMSI, nothing), one clear;
  eight pairs of page and size, from below zero to the largest int. `Width = 3`
  makes that 3, so `page * size` wraps; `MaxRows` does not exceed it, as tables
  stay below 2^31. For a walk to lose a row to the filter it takes an update of a
  row already read, and a second IMSI behind it.
* `benchmark`: one run, one load thread per model, two batches among
  everyone, so that one is in the window and one before it or late; two failures,
  so that a lost answer meets a retry; 101 samples, the first number at which p99 is not the
  largest. More runs and threads are in the theorems.
* `dashboard`: two clicks, each with its own call, next to the two calls of a
  mount under StrictMode: four calls in flight. `panels`: five clicks, two polls
  in flight, one of which can fail.
* `protobuf`: pages of two events with two records each, from six kinds of
  records (a field, another field of its number and wrong type, one that is cut
  to its default, a bool that is read as 1, an unknown one); `Int32Range` is 64
  instead of 2^32, and the values around it are among the records. Two calls in
  a row.

Each event, copy, click or batch happens once and the system may then stop, so
the deadlock check is off where nothing else goes on; it is on in `cqrs`,
`generation`, `table_locks`, `read_api`, `dashboard` and `panels`.

The theorems of section 7 need none of these bounds.

## 6. Fairness

In `CqrsPipeline`, `FairSpec` assumes weak fairness of every statement of an
open transaction, of the scheduler thread (`@Scheduled` calls again one delay
after every return, normal or not), and of a clear that has been requested. It
does not assume that requests arrive, nor that faults happen. `ReentrantLock` is
nonfair, so `AcquireLock` gets weak fairness only, which promises nothing to a
thread that sees the lock free only now and then: that `QueuedClearRuns` holds
is due to `hasQueuedThreads()` in the drain and to the clear being queued at a
moment when the drain must come back to look. One clearer takes part: among
several, a nonfair lock may prefer newly arriving clears for ever. A TRUNCATE
waits for open transactions behind PostgreSQL's lock queue; here the finite
number of events plays the queue's part.

In `Generation`, weak fairness of the threads of the pool and of the request's
own thread, and nothing of clears.

In `TableLocks`, strong fairness of `Acquire`: PostgreSQL queues the requests
for a lock, so one that is granted again and again to others comes to the one
that waits. Weak fairness of ending a transaction, and of the deadlock detector,
which PostgreSQL runs after `deadlock_timeout`.

In `Benchmark`, weak fairness of each thread: statements end, as a statement or
a connection that does not comes back with an error, and the window's time runs
out. Failures are bounded.

In `Dashboard` and `DashboardPanels`, the oldest call in flight of each kind is
answered or fails in the end, as a connection that breaks is an error to the
browser (only the benchmark's call has a timeout of its own), and the interval
ticks. Nothing is assumed of the order of answers, nor of the
user. `BacklogSettles` also needs that polls do not fail for ever
(`MaxFailures`).

## 7. Proofs

`tlapm` proves the theorems below for any values of the constants that satisfy
the modules' assumptions, which TLC evaluates in every run. Each module has an
inductive invariant that is a conjunction of named parts, with a lemma that
every step preserves each part; its theorems follow from it.

`CqrsPipeline_proofs` (any writers, clearers, IMSIs and events, any batch size,
chunk bound and number of faults; `IInv`):

| part | why it is needed |
|---|---|
| `TypeOK`, `FiniteTables` | cardinalities are numbers |
| `LockDiscipline` | the lock's holder is the thread between lock and unlock, so a drain and a clear exclude each other |
| `TransactionShape` | what an open transaction holds follows from its next statement |
| `RowsAreFresh`, `EntriesAreFresh` | ids and seqs are below the sequences and distinct, uncommitted ones included: a late commit cannot collide with what is claimed or projected |
| `EntriesHaveRows` | the join cannot miss |
| `UpsertsAreNewest`, `WriteLatestIsNewest` | an open transaction has its IMSIs locked and will commit rows at least as new as those it replaces |
| `JoinCoversClaim`, `DrainProgress` | what a drain has fetched and already written, statement by statement |
| `ClearHalfway` | between the two TRUNCATEs everything written is pending, so emptying the read side loses nothing |
| `AcknowledgedIsProjected`, `ReadLatestHasHistory` | the goals themselves |

From `Invariance` follow `TypeCorrectness`, `NoWriteIsLost`,
`LatestIsBackedByHistory`, `WriteSideIsNewest`, `JoinIsComplete`,
`IdsIdentifyEvents`, `SettledAgreement`, `NothingIsResurrected`,
`ReadersNeverGoBack`, and `PipelineIsAFeed`, the refinement.
`EntriesAreCountedOnce` has an invariant of its own on top: the counter is the
size of a set of seqs that are neither in the outbox nor in an open transaction,
so counting a batch twice would need a seq to be in it and in the outbox.
`FeedKeepsItsPromise` says what the refinement is good for: a record that is no
longer pending is in the view. The first section of the module has the lemmas
about `EventSql`'s operators: what DISTINCT ON can return, what an upsert keeps
and gains, that `nextval` is new.

`Generation_proofs` (any requests, threads, IMSIs, chunk size and counts;
`GInv`). The first half is arithmetic: `RangesPartition` says that the ranges
`n*t/T .. n*(t+1)/T - 1` cut `0 .. n-1` into disjoint pieces; index `k` belongs
to thread `(T*(k+1) - 1) \div n`. With `OffsetTellsIndex` it follows that each
event has one owner.

| part | why it is needed |
|---|---|
| `TypeOK` | – |
| `WorkIsOwned` | what is left and what was written belongs to one thread, so no other thread's step disturbs it |
| `ThreadProgress` | the store a thread writes next tells which of its events are in which model |
| `NormalFirst` | the CQRS model is never ahead |
| `WaitOrder` | the threads before the awaited one are done, and after the last one all are |
| `TotalIsExact` | the counter equals what is written, as long as no thread failed |

Theorems: `TypeCorrect`, `WrittenOnce`, `ReturnedComplete`,
`DifferencesAreChunks`.

`CopySession_proofs` (any calls, connections, finite chunks and faults; `IInv`):
`Transaction` says for each connection what its temporary tables, its rows and
its entries are at each statement; `CallsDiffer`, that no call is at work twice;
`IdsDiffer` and `SeqsDiffer`, that numbers drawn and not yet committed are
nobody else's; `Committed` is the goal. The part of `Transaction` that matters
most is the one about `"insert"`: whatever was in `staging_events`, after
TRUNCATE and COPY it is the chunk. Theorems: `ChunksAreInsertedOnce`,
`OutboxIsTheNewRows`, and the refinement `SessionsImplementAtomicCopies`.

`TableLocks_proofs` (any writers, IMSIs and copies; `IInv`): `Ascending` says
that the rows a writer has and those it has yet to take are of one table and in
ascending order, so whoever holds the row that a writer waits for waits, if at
all, for a row above it (`BlockersAreLater`). A circle without a clear would have
to come back down. To refute that a process is in a circle it is enough to show
a closed set of processes without it; `CircleHasClear` builds that set from the
writers above and from a set that shows that the clear is in no circle.
`Stages` excludes clear and drain from each other, `Together` says that a TRUNCATE
has or wants the locks of all its tables. Theorems: `OnlyClearsAreInCircles`,
`LatestIsExplained`.

`ReadApi_proofs` (any IMSIs, times, bounds, pages, sizes and width of int;
`IInv`). A row's rank is the number of rows before it, and every ORDER BY puts
it at that position (`SortsBefore` is a strict total order, which is what the
tie key is for). While pages are walked newest first, a write adds a row, moves
one to the front, or takes one out of the filter, and only the last lowers the
rank of another: of those behind the row that is gone (`RowsInFront`,
`KeepTheirDistance`). As long as no such row was among those read (`shifted`), a
row that is still to come never drops below the offset already delivered:
`StillToCome`, of which `WalksMissNothing` is the end. `DeliveredInOrder` says
that as long as nothing is written what was seen are the ranks below the offset,
hence `QuietWalksAreExact`. `Counted` and `Answered` compare what was counted
with what is there when the page is read, with the offset's wrap-around
(`AnnouncedPagesAreThere`), and `Stats` the two counts (`StatsAreInOrder`).

`Benchmark_proofs` (any runs, threads, batches and faults; `IInv`): `Orderly`
bounds what a writer does after its run stopped. `OwnAreCounted` says that a
run's counter is behind its commits by exactly the threads between the two and
the commits whose answer was lost, and `NormalWindow` carries that from the
beginning of a window to its end. On the CQRS side retries let the counter catch
up, so the difference of `landed` and `projected` has two bounds: `Most`, what it
is at most due to, less the failed drains, only falls; `Least`, less the batches
that wait to be counted, only rises. `CqrsWindow` compares both with their values
at the beginning of the window, and `InBoth` says what of the outbox is in the
read database. Theorems: `AtMostOneLateBatch`, `WindowsAreCounted`, and
`AnswersAreNearestRanks` about `Index` for any
number of samples from one on.

`Dashboard_proofs` (any filters, pages and clicks; `DInv`): `LatestOnItsWay` and
`StatsOnTheirWay` say that as long as nothing excuses the screen the newest call
in flight asks what the controls ask, or its answer is shown. Theorems:
`DashboardTypeCorrect`, `SpinnerIsBacked`, `TableIsCurrent`, `ChipIsCurrent`,
`ProgressIsBacked`.

Its last section is about `DashboardPanels` (any IMSIs, polls, failures and
clicks; `PanelsInv`). `TitleIsAskedFor` is the same idea for the dialog: the
newest call is for the title and the model of the toggle, which nobody can touch
while the modal dialog is open. `PanelsAreBacked` counts what is at work: one
interval on CQRS and none otherwise, one call of `runBenchmark` while the button
is disabled, none later; so the result shown is that of the last click. Theorems:
`PanelsTypeCorrect`, `DialogShowsItsTitle`, `PanelsBacked`.

`Protobuf_proofs` has three parts. The first is about the operators, for any
schema whose numbers differ, any message and any wire. `Decode` is a recursive
function of the number of records; `StepsExist` and `StepsAgree` show that there
is one, and `DecodeAppend` what it does with one record more. Statements about
all wires need an induction, which the library offers only for operators as
parameters: `SetInduction` states it for sets of numbers and follows from `<`
being well-founded. Then `DecodeIsSound` (the last record counts, defaults are
not owned, values are cut to their kind, unknown records are kept once and in
order) and `DecodeAfterEncode`: the position `Place` of a field in what `encode`
writes tells which record comes back for which field.

The second part is `PageDecoder` (any records; `DecoderInv`): the invariant is
what the properties say of the messages under construction; the lemmas show that
one more record keeps it. Theorems: `DecoderTypeCorrect`, `LastRecordOfThePage`,
`EventsInOrder`, `NoRecordIsLost`, `MessagesFromTheirRecords`.

The third is `CodecCalls` (any rows, numbers, records of newer servers and
calls; `CallsInv`). That the cells show the rows is not inductive: `encode`
writes what is owned, so what the message reads as has to fit the kinds of its
fields (`Carries`), or the next `decode` would cut it; what a newer server added
is compared only until a plain object drops it (`LaterFieldsSurvive`); and no
default is owned but after an assignment (`OwnsNoDefault`). `CallsAssumption`
asks that rows and numbers fit their columns' kinds, as the server's adapter
puts only such in. Theorems: `CallsTyped`, `PagesKeepWhatTheyCarry`,
`NothingIsWrittenForADefault`, `VerifyIsForNames`.

Only model-checked are the liveness properties, since the prover handles neither
ENABLED nor fairness: `EveryWriteReachesReadSide`, `QueuedClearRuns`,
`EveryRequestIsAnswered`, `WorkEnds`, `RunsAndWritersEnd`, `SpinnersEnd`,
`PanelSpinnersEnd` and `BacklogSettles`. Every other property of a passing run
is a theorem.

## 8. Where code and documents differ

Each of the first three has a run that ends in a counterexample.

* `LatestRowIsOneEvent` – `store/EventStore.java:24` promises the "Latest event
  per IMSI, optionally filtered (ANDed fields), sorted by updated_at,
  OFFSET-paginated." `EventSql.onConflictUpdate` sets eight columns; `EventFactory`
  draws the others anew for each event. A second event of an IMSI leaves a row
  with columns of both.
* `NoDoubleProjection` – `src/README.md:135` says "Transactional outbox + `FOR
  UPDATE SKIP LOCKED` projector (no double-projection)." The claim is a plain SELECT and a failed
  drain inserts the same rows again. What does hold is that this is harmless:
  `OneRowPerEvent`, `FeedSpec`.
* `ModelsHoldTheSame` – `src/README.md:9` says events are "loaded into **both**
  models" and `src/README.md:10` that clear "truncates both models". `POST
  /clear` excludes the projector but not a generation. Between the two `copyIn`s
  of a flush it leaves a chunk in the CQRS model only; a flush between the two
  TRUNCATEs can leave one in the NORMAL model only. Nothing fails and nothing
  repairs it. What does hold, of all that was ever written, is
  `DifferencesExplained`.

The following need no run to be seen, or are the exceptions that a property
names.

* `src/README.md:18` says the projector "copies into read-tables". It upserts
  per batch, and batches are not transactions, so with the same eight columns
  the two latest tables can differ for good. What does hold is
  `SettledViewsAgree`.
* `store/EventQuery.java:22` says "Counts are exact". The count is, for a moment
  before the page is read (line 56): a page can belong to other tables than its
  `totalElements`. `src/README.md` (lines 22 and 132) speaks of estimated totals
  and no `count(*)`; the code counts.
* `page * size` is an int product (`store/EventQuery.java`): a page far out can
  be answered with rows of the first, and size 0 gives 0 or 2^31 - 1 pages. The
  dashboard asks for neither.
* Walking a latest table in ascending order can miss rows: an update moves a row
  to the end and shifts the others below the offset.
* Under a filter on `msisdn`, `rat`, `provider_name` or `country_name` the same
  happens newest first: an update rewrites these columns (`store/EventSql.java:20`)
  and can take a row that was already read out of the result, and the next page
  begins one row too far. Between the count and the page it can leave an announced
  page short or empty.
* `benchmark/BenchmarkService.java:72` says "Writes that landed". On NORMAL only
  the run's own writers are counted (line 86), on CQRS everybody's.
* `generator/EventFactory.java:44` says that every event becomes the newest for
  its UE. Not when batches overlap: the newer one may commit first.
* The comment at `Dashboard.tsx:80` has the table follow the controls. Answers of
  two calls can come in the other order, and the older one stays on the screen
  until the next call (`excuse = "overtaken"`); after Generate or Clear the
  handler reloads what the controls asked when the button was pressed
  (`"other controls"`, line 102); a search with an unchanged draft on a page
  other than 1 sets the page and starts no call (`"search again"`).
* In the same way a late answer puts one IMSI's history under another's title
  (`Dashboard.tsx:141`).
* `Dashboard.tsx:157` says to page through the dialog's rows; `fetchHistory` is
  always asked for page 0 (line 139).

## 9. Not modelled

* The queue for pooled connections. No call waits for a connection while it
  holds one, so a wait is a slow statement, and a timeout a failing one.
* Rows in `TableLocks`, and what waits in `CqrsPipeline` and `Generation`: there
  a TRUNCATE waits for open transactions at once, or happens when it happens.
* Statements still running in a database after the process died. `Crash` rolls
  back and stops everything at once.
* Indexes, partitions and column types: no statement can tell.
* Values of events besides IMSI and `updated_at`; the CSV text; ILIKE, of which
  a filter keeps the sets of IMSIs and of texts that match.
* In `proto.js`, a reader with `discardUnknown` set (line 761), which nothing in
  the repository sets; assignments of values that do not fit their field, which
  `fromObject` would cut (line 941), down to the default.
* Elapsed times, averages and rounding of the benchmark; layout and wording of
  the dashboard; bytes of a record and the limit on nesting in `proto.js`;
  `EmptyRequest`, the same generated code without fields, which no page uses.
* Wiring (`config/`), `run.sh`, `index.tsx` (that StrictMode mounts twice is
  `Mounts` in `Dashboard`), `App.tsx`, `reportWebVitals.ts`: no state.

## 10. Plan

Done, in this order: `EventSql`, `CqrsPipeline`, `OutboxFeed` and the
refinement, with their proofs; `Generation` with its proof; `TableLocks`;
`CopySession` and `AtomicCopy`; `ReadApi`; `Benchmark`; `Dashboard` and
`DashboardPanels`; the protobuf modules; the proofs of section 7.

Left:

* `Generation` over `CopySession` instead of one step per copy, to have
  deadlocks with clears appear as failing threads.
