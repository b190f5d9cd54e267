--------------------------- MODULE DashboardPanels ---------------------------
(***************************************************************************)
(* The parts of the dashboard around the table (Dashboard.tsx, api.ts):    *)
(* the history dialog, the chip with the projection backlog and the        *)
(* benchmark panel.  They share the model toggle with Dashboard; the page, *)
(* the filters and the order, which they only pass on, are left out.       *)
(*                                                                         *)
(* As in Dashboard a handler runs to its first await without interruption, *)
(* and the answers to calls in flight can arrive in any order.             *)
(***************************************************************************)
EXTENDS DashboardToggle

CONSTANTS
    Imsis,          \* the IMSIs with a row in the table
    MaxBacklog,     \* bound: length of the outbox
    MaxPolls,       \* bound: polls in flight
    MaxFailures     \* bound: polls that fail

ASSUME PanelsAssumption ==
    /\ MaxBacklog \in Nat /\ MaxPolls \in Nat \ {0}
    /\ MaxFailures \in Nat /\ MaxClicks \in Nat

NoImsi == "null"
NoRows == [imsi |-> NoImsi]

VARIABLES
    historyOpen, selectedImsi, historyLoading,  \* state hooks of these names
    historyShown,       \* whose history the rows in the dialog are, read from which model
    historyPending,     \* calls of fetchHistory in flight, oldest first
    historyExcuse,      \* history: why the rows may not be those of the title
    timers,             \* intervals the poll effect has running
    polls,              \* calls of fetchProjectionStatus in flight: the lengths
                        \* the outbox has had since each was made
    backlog,            \* state hook of this name
    outbox,             \* the server: rows in the outbox
    failures,           \* polls that failed
    benchRunning,       \* state hook of this name
    bench,              \* the click whose result the panel shows, 0 for none
    benchCalls,         \* clicks whose call of runBenchmark is in flight
    benchClicks         \* clicks on "Compare under load"

dialog == <<historyOpen, selectedImsi, historyLoading, historyShown, historyPending, historyExcuse>>
poll == <<timers, polls, backlog, outbox, failures>>
panel == <<benchRunning, bench, benchCalls, benchClicks>>
panelsVars == <<model, dialog, poll, panel, clicks>>

HistoryQuery == [imsi : Imsis, model : Model]

PanelsTypeOK ==
    /\ model \in Model
    /\ historyOpen \in BOOLEAN /\ historyLoading \in BOOLEAN
    /\ selectedImsi \in Imsis \cup {NoImsi}
    /\ historyShown = NoRows \/ historyShown \in HistoryQuery
    /\ historyPending \in Seq(HistoryQuery)
    /\ historyExcuse \in {"none", "failed", "overtaken"}
    /\ timers \in Nat
    /\ polls \in Seq(SUBSET (0 .. MaxBacklog))
    /\ backlog \in 0 .. MaxBacklog /\ outbox \in 0 .. MaxBacklog
    /\ failures \in 0 .. MaxFailures
    /\ benchRunning \in BOOLEAN
    /\ benchClicks \in 0 .. MaxClicks /\ clicks \in 0 .. MaxClicks
    /\ bench \in 0 .. MaxClicks
    /\ benchCalls \in SUBSET (1 .. MaxClicks)

PanelsInit ==
    /\ model = "NORMAL"
    /\ historyOpen = FALSE /\ selectedImsi = NoImsi /\ historyLoading = FALSE
    /\ historyShown = NoRows /\ historyPending = <<>> /\ historyExcuse = "none"
    /\ timers = 0 /\ polls = <<>> /\ backlog = 0
    /\ outbox \in 0 .. MaxBacklog /\ failures = 0
    /\ benchRunning = FALSE /\ bench = 0 /\ benchCalls = {} /\ benchClicks = 0
    /\ clicks = 0

\* The dialog is modal: nothing else can be clicked while it is open.
ClickOutside ==
    /\ ~historyOpen
    /\ clicks < MaxClicks
    /\ clicks' = clicks + 1

-----------------------------------------------------------------------------
(***************************************************************************)
(* The backlog poll.  Leaving CQRS clears the interval and the number, but *)
(* not the calls in flight.                                                *)
(***************************************************************************)
PollEffect ==
    IF model' = "CQRS" THEN timers' = timers + 1 /\ UNCHANGED backlog
    ELSE backlog' = 0 /\ timers' = timers - 1

ToggleWithPoll ==
    /\ ClickOutside
    /\ model' \in Model \ {model}
    /\ PollEffect
    /\ UNCHANGED <<dialog, polls, outbox, failures, panel>>

Tick ==
    /\ timers > 0
    /\ Len(polls) < MaxPolls
    /\ polls' = Append(polls, {outbox})
    /\ UNCHANGED <<model, dialog, timers, backlog, outbox, failures, panel, clicks>>

\* A mistake: a chip that never goes down.
AnswerPollHighest(i) ==
    /\ i \in DOMAIN polls
    /\ \E n \in polls[i] : backlog' = IF n > backlog THEN n ELSE backlog
    /\ polls' = RemoveAt(polls, i)
    /\ UNCHANGED <<model, dialog, timers, outbox, failures, panel, clicks>>

AnswerPoll(i) ==
    /\ i \in DOMAIN polls
    /\ backlog' \in polls[i]
    /\ polls' = RemoveAt(polls, i)
    /\ UNCHANGED <<model, dialog, timers, outbox, failures, panel, clicks>>

PollFails(i) ==
    /\ i \in DOMAIN polls
    /\ failures < MaxFailures
    /\ failures' = failures + 1
    /\ polls' = RemoveAt(polls, i)
    /\ UNCHANGED <<model, dialog, timers, backlog, outbox, panel, clicks>>

\* Writers and the projector at work.
OutboxChanges ==
    /\ outbox' \in 0 .. MaxBacklog \ {outbox}
    /\ polls' = [i \in DOMAIN polls |-> polls[i] \cup {outbox'}]
    /\ UNCHANGED <<model, dialog, timers, backlog, failures, panel, clicks>>

-----------------------------------------------------------------------------
(***************************************************************************)
(* The history dialog.  Closing it does not cancel its call.               *)
(***************************************************************************)
\* A mistake: the model of the first render, openHistory kept in a callback.
OpenHistoryStale(imsi) ==
    /\ ClickOutside
    /\ selectedImsi' = imsi /\ historyOpen' = TRUE /\ historyLoading' = TRUE
    /\ historyPending' = Append(historyPending, [imsi |-> imsi, model |-> "NORMAL"])
    /\ historyExcuse' = "none"
    /\ UNCHANGED <<model, historyShown, poll, panel>>

OpenHistory(imsi) ==
    /\ ClickOutside
    /\ selectedImsi' = imsi /\ historyOpen' = TRUE /\ historyLoading' = TRUE
    /\ historyPending' = Append(historyPending, [imsi |-> imsi, model |-> model])
    /\ historyExcuse' = "none"
    /\ UNCHANGED <<model, historyShown, poll, panel>>

CloseHistory ==
    /\ historyOpen
    /\ historyOpen' = FALSE
    /\ UNCHANGED <<model, selectedImsi, historyLoading, historyShown, historyPending, historyExcuse>>
    /\ UNCHANGED <<poll, panel, clicks>>

AnswerHistory(i) ==
    /\ i \in DOMAIN historyPending
    /\ historyShown' = historyPending[i]
    /\ historyLoading' = FALSE
    /\ historyPending' = RemoveAt(historyPending, i)
    /\ historyExcuse' = IF i = Len(historyPending) /\ i > 1 THEN "overtaken" ELSE historyExcuse
    /\ UNCHANGED <<model, historyOpen, selectedImsi, poll, panel, clicks>>

\* A mistake: no finally.
HistoryFailsSpinning(i) ==
    /\ i \in DOMAIN historyPending
    /\ historyPending' = RemoveAt(historyPending, i)
    /\ historyExcuse' = IF i = Len(historyPending) THEN "failed" ELSE historyExcuse
    /\ UNCHANGED <<historyLoading, model, historyOpen, selectedImsi, historyShown>>
    /\ UNCHANGED <<poll, panel, clicks>>

HistoryFails(i) ==
    /\ i \in DOMAIN historyPending
    /\ historyLoading' = FALSE
    /\ historyPending' = RemoveAt(historyPending, i)
    /\ historyExcuse' = IF i = Len(historyPending) THEN "failed" ELSE historyExcuse
    /\ UNCHANGED <<model, historyOpen, selectedImsi, historyShown, poll, panel, clicks>>

-----------------------------------------------------------------------------
(***************************************************************************)
(* The benchmark panel.                                                    *)
(***************************************************************************)
OnBenchmark ==
    /\ ClickOutside
    /\ ~benchRunning
    /\ benchRunning' = TRUE /\ bench' = 0
    /\ benchClicks' = benchClicks + 1
    /\ benchCalls' = benchCalls \cup {benchClicks'}
    /\ UNCHANGED <<model, dialog, poll>>

BenchmarkAnswers(n) ==
    /\ n \in benchCalls
    /\ bench' = n
    /\ benchRunning' = FALSE
    /\ benchCalls' = benchCalls \ {n}
    /\ UNCHANGED <<model, dialog, poll, benchClicks, clicks>>

\* An error, or the timeout of 120 s after which axios gives the call up.
BenchmarkFails(n) ==
    /\ n \in benchCalls
    /\ benchRunning' = FALSE
    /\ benchCalls' = benchCalls \ {n}
    /\ UNCHANGED <<model, dialog, poll, bench, benchClicks, clicks>>

-----------------------------------------------------------------------------
HistoryAnswered(i) == AnswerHistory(i) \/ HistoryFails(i)
PollAnswered(i) == AnswerPoll(i) \/ PollFails(i)
BenchmarkEnds(n) == BenchmarkAnswers(n) \/ BenchmarkFails(n)

PanelsNext ==
    \/ ToggleWithPoll \/ OnBenchmark \/ CloseHistory
    \/ \E imsi \in Imsis : OpenHistory(imsi)
    \/ Tick \/ OutboxChanges
    \/ \E i \in DOMAIN polls : PollAnswered(i)
    \/ \E i \in DOMAIN historyPending : HistoryAnswered(i)
    \/ \E n \in benchCalls : BenchmarkEnds(n)

PanelsSpec == PanelsInit /\ [][PanelsNext]_panelsVars

\* The interval ticks and every call is answered or fails in the end; polls
\* do not fail for ever.
PanelsFairSpec ==
    /\ PanelsSpec
    /\ WF_panelsVars(Tick)
    /\ WF_panelsVars(PollAnswered(1))
    /\ WF_panelsVars(HistoryAnswered(1))
    /\ WF_panelsVars(\E n \in benchCalls : BenchmarkEnds(n))

-----------------------------------------------------------------------------
(***************************************************************************)
(* Properties.                                                             *)
(***************************************************************************)
\* An open dialog with no call in flight shows the rows of the IMSI in its
\* title, read from the model on the toggle, unless the call for them failed
\* or an answer to an earlier call arrived after theirs.
HistoryIsOfItsTitle ==
    historyOpen /\ historyPending = <<>> /\ historyExcuse = "none" =>
        historyShown = [imsi |-> selectedImsi, model |-> model]

\* When the user stays on CQRS and the outbox stays empty, the chip comes to
\* say so and keeps saying so, polls answered late and out of order included.
BacklogSettles == <>[](model = "CQRS" /\ outbox = 0) => <>[](backlog = 0)

\* The spinners of the dialog and of the panel go away.
PanelSpinnersEnd ==
    /\ historyLoading ~> ~historyLoading
    /\ benchRunning ~> ~benchRunning
=============================================================================
