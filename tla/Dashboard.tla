------------------------------ MODULE Dashboard ------------------------------
(***************************************************************************)
(* The dashboard in the browser (src/frontend/src/Dashboard.tsx and the    *)
(* calls of api.ts): the controls above the latest table, the table, the   *)
(* statistics chip, and the Generate and Clear buttons.  Dialog, backlog   *)
(* chip and benchmark panel are in DashboardPanels.                        *)
(*                                                                         *)
(* A handler runs to its first await without interruption, and so does a   *)
(* continuation after an await; React applies the state updates of such a  *)
(* run together and then runs the effects they trigger.  Calls in flight   *)
(* are kept in the order in which they were made; an answer can arrive for *)
(* any of them.  The answer to a query is not looked into: it is known by  *)
(* the query and by the state of the server's data it was read from.       *)
(***************************************************************************)
EXTENDS DashboardToggle

CONSTANTS
    Filters,        \* contents of the filter fields
    NoFilters,      \* all fields blank
    Mounts,         \* how often the effects run on mount: 2 under StrictMode in development, else 1
    MaxPages        \* bound: pages of a result

ASSUME DashboardAssumption ==
    /\ NoFilters \in Filters
    /\ Mounts \in 1 .. 2
    /\ MaxPages \in Nat \ {0}
    /\ MaxClicks \in Nat

SortDir == {"asc", "desc"}
Ops == {"generate", "clear"}

VARIABLES
    page, sortDir,                  \* state hooks of these names
    draftFilters, activeFilters,
    sameObject,     \* draftFilters and activeFilters are one object
    loading, totalPages, genMsg,    \* state hooks of these names
    shown,          \* the rows of the table: the query they answer and their age
    pending,        \* calls of fetchLatest in flight, oldest first
    stats,          \* the model whose numbers the statistics chip shows
    statsPending,   \* calls of fetchStats in flight: the model asked about
    ops,            \* calls of generateData and clearData in flight
    db,             \* the server: how often its data has changed
    excuse,         \* history: why the table may not answer the controls
    statsExcuse     \* history: the same of the statistics chip

controls == <<model, page, sortDir, draftFilters, activeFilters, sameObject>>
table == <<loading, totalPages, shown, pending, excuse>>
chip == <<stats, statsPending, statsExcuse>>
vars == <<controls, table, chip, genMsg, ops, db, clicks>>

Query == [model : Model, page : Nat \ {0}, filters : Filters, sort : SortDir]
QueryFor(m, p, f, s) == [model |-> m, page |-> p, filters |-> f, sort |-> s]
Nothing == [page |-> 0]

\* What the controls on the screen ask for.
Asked == QueryFor(model, page, activeFilters, sortDir)

Working(op) == IF op = "generate" THEN "Generating" ELSE "Clearing"
Done(op) == IF op = "generate" THEN "Generated" ELSE "Cleared"
Failed(op) == IF op = "generate" THEN "Generation failed" ELSE "Clear failed"

LatestCall == [query : Query, since : Nat, statsAfter : BOOLEAN]
OpCall == [op : Ops, model : Model, filters : Filters, sort : SortDir]
Messages == {""} \cup UNION {{Working(o), Done(o), Failed(o)} : o \in Ops}
Excuses == {"none", "failed", "overtaken", "other controls", "search again"}

TypeOK ==
    /\ model \in Model /\ page \in 1 .. MaxPages /\ sortDir \in SortDir
    /\ draftFilters \in Filters /\ activeFilters \in Filters
    /\ sameObject \in BOOLEAN /\ loading \in BOOLEAN
    /\ totalPages \in 1 .. MaxPages
    /\ shown = Nothing \/ shown \in [query : Query, asOf : Nat]
    /\ pending \in Seq(LatestCall)
    /\ stats \in Model \cup {"none"} /\ statsPending \in Seq(Model)
    /\ ops \in Seq(OpCall) /\ genMsg \in Messages
    /\ db \in Nat
    /\ excuse \in Excuses /\ statsExcuse \in Excuses
    /\ clicks \in 0 .. MaxClicks

-----------------------------------------------------------------------------
(***************************************************************************)
(* The two loaders.  Each is a closure of the render it was created in: m, *)
(* f and s are the model, the filters and the order of that render.  A     *)
(* handler that means to ask for the controls as they are ends an excuse.  *)
(***************************************************************************)
LoadLatest(q, version, after, why) ==
    /\ loading' = TRUE
    /\ pending' = Append(pending, [query |-> q, since |-> version, statsAfter |-> after])
    /\ excuse' = why
    /\ UNCHANGED <<totalPages, shown>>

LoadStats(m, why) ==
    /\ statsPending' = Append(statsPending, m)
    /\ statsExcuse' = why
    /\ UNCHANGED stats

Init ==
    /\ model = "NORMAL" /\ page = 1 /\ sortDir = "desc"
    /\ draftFilters = NoFilters /\ activeFilters = NoFilters
    /\ sameObject = FALSE
    /\ loading = TRUE /\ totalPages = 1 /\ shown = Nothing
    /\ pending = [i \in 1 .. Mounts |->
                    [query |-> Asked, since |-> 0, statsAfter |-> FALSE]]
    /\ stats = "none" /\ statsPending = [i \in 1 .. Mounts |-> "NORMAL"]
    /\ ops = <<>> /\ genMsg = "" /\ db = 0
    /\ excuse = "none" /\ statsExcuse = "none"
    /\ clicks = 0

Click ==
    /\ clicks < MaxClicks
    /\ clicks' = clicks + 1

\* A mistake: loadStats not listed in the effect's dependencies, nor the
\* model in those of loadStats.
ReloadWithOldStats ==
    /\ page' = 1
    /\ LoadLatest(QueryFor(model', 1, activeFilters', sortDir'), db, FALSE, "none")
    /\ LoadStats(model, "none")

\* The effect on model, activeFilters and sortDir.
Reload ==
    /\ page' = 1
    /\ LoadLatest(QueryFor(model', 1, activeFilters', sortDir'), db, FALSE, "none")
    /\ LoadStats(model', "none")

-----------------------------------------------------------------------------
(***************************************************************************)
(* What the user does.                                                     *)
(***************************************************************************)
ToggleModel ==
    /\ Click
    /\ model' \in Model \ {model}
    /\ UNCHANGED <<sortDir, draftFilters, activeFilters, sameObject>>
    /\ Reload
    /\ UNCHANGED <<genMsg, ops, db>>

ToggleSort ==
    /\ Click
    /\ sortDir' \in SortDir \ {sortDir}
    /\ UNCHANGED <<model, draftFilters, activeFilters, sameObject>>
    /\ Reload
    /\ UNCHANGED <<genMsg, ops, db>>

\* setFilter: every keystroke makes a new object.
SetFilter ==
    /\ draftFilters' \in Filters
    /\ sameObject' = FALSE
    /\ UNCHANGED <<model, page, sortDir, activeFilters, table, chip, genMsg, ops, db, clicks>>

\* runSearch with a draft that is not the active object.
RunSearch ==
    /\ Click
    /\ ~sameObject
    /\ activeFilters' = draftFilters
    /\ sameObject' = TRUE
    /\ UNCHANGED <<model, sortDir, draftFilters>>
    /\ Reload
    /\ UNCHANGED <<genMsg, ops, db>>

\* runSearch with nothing typed since the last one: setActiveFilters gets
\* the object it has, the effect does not run, and only the page changes.
RunSearchAgain ==
    /\ Click
    /\ sameObject
    /\ page' = 1
    /\ excuse' = IF page = 1 THEN excuse ELSE "search again"
    /\ UNCHANGED <<model, sortDir, draftFilters, activeFilters, sameObject>>
    /\ UNCHANGED <<loading, totalPages, shown, pending, chip, genMsg, ops, db>>

\* clearSearch; its button is disabled unless a filter is active.
ClearSearch ==
    /\ Click
    /\ activeFilters # NoFilters
    /\ draftFilters' = NoFilters /\ activeFilters' = NoFilters
    /\ sameObject' = FALSE
    /\ UNCHANGED <<model, sortDir>>
    /\ Reload
    /\ UNCHANGED <<genMsg, ops, db>>

\* A mistake: the page of the last render, not the one clicked.
OnPageStale(value) ==
    /\ Click
    /\ value <= totalPages
    /\ page' = value
    /\ UNCHANGED <<model, sortDir, draftFilters, activeFilters, sameObject>>
    /\ LoadLatest(Asked, db, FALSE, "none")
    /\ UNCHANGED <<chip, genMsg, ops, db>>

OnPage(value) ==
    /\ Click
    /\ value <= totalPages
    /\ page' = value
    /\ UNCHANGED <<model, sortDir, draftFilters, activeFilters, sameObject>>
    /\ LoadLatest(QueryFor(model, value, activeFilters, sortDir), db, FALSE, "none")
    /\ UNCHANGED <<chip, genMsg, ops, db>>

Refresh ==
    /\ Click
    /\ UNCHANGED controls
    /\ LoadLatest(Asked, db, FALSE, "none")
    /\ UNCHANGED <<chip, genMsg, ops, db>>

\* onGenerate, onClear up to the await.  The rest of the handler keeps the
\* controls of this render.
StartOp(op) ==
    /\ Click
    /\ genMsg' = Working(op)
    /\ ops' = Append(ops, [op |-> op, model |-> model, filters |-> activeFilters, sort |-> sortDir])
    /\ UNCHANGED <<controls, table, chip, db>>

-----------------------------------------------------------------------------
(***************************************************************************)
(* Answers.                                                                *)
(***************************************************************************)
\* The newest call is what the screen waits for.  Its answer is lost when
\* it fails, and when an older answer comes after it.
Newest(i, calls) == i = Len(calls)

\* The excuse of a handler that awaited something before it made its call.
OldControls(current) == IF current THEN "none" ELSE "other controls"

\* After a reload that onGenerate or onClear awaited, loadStats.
ThenStats(call) ==
    IF call.statsAfter THEN LoadStats(call.query.model, OldControls(call.query.model = model))
    ELSE UNCHANGED chip

AnswerLatest(i) ==
    /\ i \in DOMAIN pending
    /\ \E v \in pending[i].since .. db : shown' = [query |-> pending[i].query, asOf |-> v]
    /\ totalPages' \in 1 .. MaxPages
    /\ loading' = FALSE
    /\ pending' = RemoveAt(pending, i)
    /\ excuse' = IF Newest(i, pending) /\ i > 1 THEN "overtaken" ELSE excuse
    /\ UNCHANGED <<controls, genMsg, ops, db, clicks>>
    /\ ThenStats(pending[i])

\* A mistake: no finally.
LatestFailsSpinning(i) ==
    /\ i \in DOMAIN pending
    /\ pending' = RemoveAt(pending, i)
    /\ excuse' = IF Newest(i, pending) THEN "failed" ELSE excuse
    /\ UNCHANGED <<controls, loading, shown, totalPages, genMsg, ops, db, clicks>>
    /\ ThenStats(pending[i])

\* The call fails or its answer cannot be decoded.
LatestFails(i) ==
    /\ i \in DOMAIN pending
    /\ loading' = FALSE
    /\ pending' = RemoveAt(pending, i)
    /\ excuse' = IF Newest(i, pending) THEN "failed" ELSE excuse
    /\ UNCHANGED <<controls, shown, totalPages, genMsg, ops, db, clicks>>
    /\ ThenStats(pending[i])

AnswerStats(i) ==
    /\ i \in DOMAIN statsPending
    /\ stats' = statsPending[i]
    /\ statsPending' = RemoveAt(statsPending, i)
    /\ statsExcuse' = IF Newest(i, statsPending) /\ i > 1 THEN "overtaken" ELSE statsExcuse
    /\ UNCHANGED <<controls, table, genMsg, ops, db, clicks>>

StatsFail(i) ==
    /\ i \in DOMAIN statsPending
    /\ statsPending' = RemoveAt(statsPending, i)
    /\ statsExcuse' = IF Newest(i, statsPending) THEN "failed" ELSE statsExcuse
    /\ UNCHANGED <<controls, table, stats, genMsg, ops, db, clicks>>

\* onGenerate, onClear: the server is done, and the handler goes on to its
\* own reload.
OpSucceeds(i) ==
    /\ i \in DOMAIN ops
    /\ db' = db + 1
    /\ genMsg' = Done(ops[i].op)
    /\ page' = 1
    /\ UNCHANGED <<model, sortDir, draftFilters, activeFilters, sameObject>>
    /\ LET q == QueryFor(ops[i].model, 1, ops[i].filters, ops[i].sort)
       IN  LoadLatest(q, db', TRUE, OldControls(q = Asked'))
    /\ ops' = RemoveAt(ops, i)
    /\ UNCHANGED <<chip, clicks>>

\* The call fails, though the server may have changed its data.
OpFails(i) ==
    /\ i \in DOMAIN ops
    /\ db' \in {db, db + 1}
    /\ excuse' = IF db' = db THEN excuse ELSE "failed"
    /\ genMsg' = Failed(ops[i].op)
    /\ ops' = RemoveAt(ops, i)
    /\ UNCHANGED <<controls, loading, totalPages, shown, pending, chip, clicks>>

-----------------------------------------------------------------------------
User ==
    \/ ToggleModel \/ ToggleSort \/ SetFilter
    \/ RunSearch \/ RunSearchAgain \/ ClearSearch
    \/ \E value \in 1 .. MaxPages : OnPage(value)
    \/ Refresh
    \/ \E op \in Ops : StartOp(op)

LatestAnswered(i) == AnswerLatest(i) \/ LatestFails(i)
StatsAnswered(i) == AnswerStats(i) \/ StatsFail(i)
OpAnswered(i) == OpSucceeds(i) \/ OpFails(i)

Next ==
    \/ User
    \/ \E i \in DOMAIN pending : LatestAnswered(i)
    \/ \E i \in DOMAIN statsPending : StatsAnswered(i)
    \/ \E i \in DOMAIN ops : OpAnswered(i)

Spec == Init /\ [][Next]_vars

\* Every call is answered or fails in the end.
FairSpec ==
    /\ Spec
    /\ WF_vars(LatestAnswered(1))
    /\ WF_vars(StatsAnswered(1))
    /\ WF_vars(OpAnswered(1))

-----------------------------------------------------------------------------
(***************************************************************************)
(* Properties.                                                             *)
(***************************************************************************)
\* The spinner in place of the table stands for a call in flight: no error
\* path of loadLatest leaves it spinning.
SpinnerHasACall == loading => pending # <<>>

\* Once every call is answered, the table shows the model, page, filters and
\* order on the controls, and data no older than the last thing the user did
\* to it, with four exceptions: the newest call failed, or was overtaken by an
\* older answer; Generate or Clear reloaded for the controls of the moment
\* they were clicked; or Search was pressed again on a page other than 1.
TableAnswersControls ==
    excuse = "none" /\ pending = <<>> => shown = [query |-> Asked, asOf |-> db]

\* The same of the statistics chip and the model.
StatsAnswerModel ==
    statsExcuse = "none" /\ statsPending = <<>> => stats = model

\* "Generating" and "Clearing" are shown only while such a call is running,
\* whatever other calls were answered in between.
ProgressIsTrue ==
    \A o \in Ops : genMsg = Working(o) => \E i \in DOMAIN ops : ops[i].op = o

\* The spinner goes away, answers, errors and further clicks notwithstanding,
\* and a message of progress is replaced by an outcome.
SpinnersEnd ==
    /\ loading ~> ~loading
    /\ \A o \in Ops : genMsg = Working(o) ~> genMsg # Working(o)
=============================================================================
