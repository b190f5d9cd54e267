------------------------------- MODULE Benchmark -------------------------------
(***************************************************************************)
(* POST /benchmark (BenchmarkService.run): writer threads load both models *)
(* while two samplers read the latest tables over a window; the answer     *)
(* has the writes counted in each window; a finally stops the writers.     *)
(* Nothing keeps two runs apart, nor a run from a generation: all write to *)
(* the same tables and share the projector and its counter.                *)
(*                                                                         *)
(* Writes are counted in batches; one that is applied in part counts when  *)
(* the retry has inserted its rest.  Time is left out: a window lasts from *)
(* one step to a later one, awaitTermination can give up at any moment.    *)
(* What is computed from the samples is in LatencyStats.                   *)
(***************************************************************************)
EXTENDS Integers, FiniteSets, LatencyStats

CONSTANTS
    Run,            \* calls of run
    WriterThreads,  \* BenchmarkService.WRITER_THREADS, per model
    MaxBatches,     \* bound: batches anyone writes
    MaxFaults,      \* bound: statements that fail
    MaxSamples      \* bound: reads of a sampler

ASSUME BenchmarkAssumption ==
    /\ WriterThreads \in Nat \ {0} /\ MaxBatches \in Nat
    /\ MaxFaults \in Nat /\ MaxSamples \in Nat

Models == {"NORMAL", "CQRS"}
Writer == Run \X Models \X (1 .. WriterThreads)
Sampler == Run \X Models

VARIABLES
    phase,      \* a run: "idle", "warming", "getNormal", "getCqrs", "stopping",
                \* "answered" or "failed"
    outcome,    \* how it will end
    running,    \* its flag
    writer,     \* its writers: "none", "loop", "copying", "counting", "ended"
    sampler,    \* its samplers
    counter,    \* its normalLoadEvents
    backlog,    \* batches in the outbox
    again,      \* those of them that are in the read database already
    dpc,        \* the projector: "idle", "inserted" or "deleted" a batch
    projected,  \* CqrsProjectorService.projectedRows
    own,        \* history: batches that a run's NORMAL writers committed
    landed,     \* history: batches that reached the read database
    late,       \* history: batches a writer committed after the stop
    lost,       \* history: batches of own whose copyIn threw
    failed,     \* history: drains that failed
    batches, faults

run == <<phase, outcome, running>>
counters == <<counter, projected>>
drain == <<backlog, again, dpc>>
ghosts == <<own, landed, late, lost, failed>>
bounds == <<batches, faults>>
vars == <<run, writer, sampler, counters, drain, ghosts, bounds>>

NoWindow == [pc |-> "none", before |-> 0, delta |-> 0, landed |-> 0, missed |-> 0, stuck |-> 0]

Init ==
    /\ phase = [r \in Run |-> "idle"] /\ outcome = [r \in Run |-> "answered"]
    /\ running = [r \in Run |-> FALSE]
    /\ writer = [w \in Writer |-> "none"]
    /\ sampler = [s \in Sampler |-> NoWindow]
    /\ counter = [r \in Run |-> 0] /\ projected = 0
    /\ backlog = 0 /\ again = 0 /\ dpc = "idle"
    /\ own = [r \in Run |-> 0] /\ landed = 0
    /\ late = [w \in Writer |-> 0] /\ lost = [r \in Run |-> 0] /\ failed = 0
    /\ batches = 0 /\ faults = 0

Fault == faults < MaxFaults /\ faults' = faults + 1 /\ UNCHANGED batches

-----------------------------------------------------------------------------
(***************************************************************************)
(* run                                                                     *)
(***************************************************************************)
\* The writers are submitted.
Start(r) ==
    /\ phase[r] = "idle"
    /\ phase' = [phase EXCEPT ![r] = "warming"]
    /\ running' = [running EXCEPT ![r] = TRUE]
    /\ writer' = [w \in Writer |-> IF w[1] = r THEN "loop" ELSE writer[w]]
    /\ UNCHANGED <<outcome, sampler, counters, drain, ghosts, bounds>>

\* Both warm-up reads are done and the samplers submitted.
Warm(r) ==
    /\ phase[r] = "warming"
    /\ phase' = [phase EXCEPT ![r] = "getNormal"]
    /\ sampler' = [s \in Sampler |-> IF s[1] = r THEN [sampler[s] EXCEPT !.pc = "submitted"]
                                     ELSE sampler[s]]
    /\ UNCHANGED <<outcome, running, writer, counters, drain, ghosts, bounds>>

\* A mistake: the writers are stopped after the return and not in a finally.
StopOnSuccess(r, how) ==
    /\ phase' = [phase EXCEPT ![r] = IF how = "failed" THEN "failed" ELSE "stopping"]
    /\ outcome' = [outcome EXCEPT ![r] = how]
    /\ running' = [running EXCEPT ![r] = (how = "failed")]

\* The finally, up to awaitTermination.
Stop(r, how) ==
    /\ phase' = [phase EXCEPT ![r] = "stopping"]
    /\ outcome' = [outcome EXCEPT ![r] = how]
    /\ running' = [running EXCEPT ![r] = FALSE]

WarmFails(r) ==
    /\ phase[r] = "warming"
    /\ Fault
    /\ Stop(r, "failed")
    /\ UNCHANGED <<writer, sampler, counters, drain, ghosts>>

\* nf.get()
GetNormal(r) ==
    /\ phase[r] = "getNormal"
    /\ \/ /\ sampler[<<r, "NORMAL">>].pc = "done"
          /\ phase' = [phase EXCEPT ![r] = "getCqrs"]
          /\ UNCHANGED <<outcome, running>>
       \/ sampler[<<r, "NORMAL">>].pc = "failed" /\ Stop(r, "failed")
    /\ UNCHANGED <<writer, sampler, counters, drain, ghosts, bounds>>

\* cf.get()
GetCqrs(r) ==
    /\ phase[r] = "getCqrs"
    /\ \/ sampler[<<r, "CQRS">>].pc = "done" /\ Stop(r, "answered")
       \/ sampler[<<r, "CQRS">>].pc = "failed" /\ Stop(r, "failed")
    /\ UNCHANGED <<writer, sampler, counters, drain, ghosts, bounds>>

\* awaitTermination returns, the writers all ended or not.
Finish(r) ==
    /\ phase[r] = "stopping"
    /\ phase' = [phase EXCEPT ![r] = outcome[r]]
    /\ UNCHANGED <<outcome, running, writer, sampler, counters, drain, ghosts, bounds>>

-----------------------------------------------------------------------------
(***************************************************************************)
(* measureFor                                                              *)
(***************************************************************************)
CountedBy(s) == IF s[2] = "NORMAL" THEN counter[s[1]] ELSE projected

\* What it should count, what can keep a batch from being counted, and the
\* batches that failed drains have left to be counted later.
Landed(s) == IF s[2] = "NORMAL" THEN own[s[1]] ELSE landed
Missed(s) == IF s[2] = "NORMAL" THEN lost[s[1]] ELSE failed
Stuck == IF dpc = "inserted" THEN again - 1 ELSE again

BeginWindow(s) ==
    /\ sampler[s].pc = "submitted"
    /\ sampler' = [sampler EXCEPT ![s] =
          [pc |-> "sampling", before |-> CountedBy(s), delta |-> 0,
           landed |-> Landed(s), missed |-> Missed(s),
           stuck |-> IF s[2] = "NORMAL" THEN 0 ELSE Stuck]]
    /\ UNCHANGED <<run, writer, counters, drain, ghosts, bounds>>

\* landed and missed become those of the window.
EndWindow(s) ==
    /\ sampler[s].pc = "sampling"
    /\ sampler' = [sampler EXCEPT ![s].pc = "done", ![s].delta = CountedBy(s) - sampler[s].before,
                                  ![s].landed = Landed(s) - @, ![s].missed = Missed(s) - @]
    /\ UNCHANGED <<run, writer, counters, drain, ghosts, bounds>>

SamplerFails(s) ==
    /\ sampler[s].pc = "sampling"
    /\ Fault
    /\ sampler' = [sampler EXCEPT ![s].pc = "failed"]
    /\ UNCHANGED <<run, writer, counters, drain, ghosts>>

-----------------------------------------------------------------------------
(***************************************************************************)
(* loadLoop                                                                *)
(***************************************************************************)
Moves(w, from, to) == writer[w] = from /\ writer' = [writer EXCEPT ![w] = to]

\* A mistake: while (true)
LoopForEver(w) ==
    /\ Moves(w, "loop", "copying") /\ batches < MaxBatches
    /\ batches' = batches + 1
    /\ UNCHANGED <<run, sampler, counters, drain, ghosts, faults>>

Loop(w) ==
    /\ \/ /\ running[w[1]] /\ batches < MaxBatches
          /\ Moves(w, "loop", "copying") /\ batches' = batches + 1
       \/ /\ ~ running[w[1]]
          /\ Moves(w, "loop", "ended") /\ UNCHANGED batches
    /\ UNCHANGED <<run, sampler, counters, drain, ghosts, faults>>

\* copyIn commits.
Commits(w) ==
    /\ IF w[2] = "NORMAL"
       THEN own' = [own EXCEPT ![w[1]] = @ + 1] /\ UNCHANGED backlog
       ELSE backlog' = backlog + 1 /\ UNCHANGED own
    /\ late' = IF running[w[1]] THEN late ELSE [late EXCEPT ![w] = @ + 1]
    /\ UNCHANGED <<again, dpc, landed, failed>>

CopyIn(w) ==
    /\ Moves(w, "copying", IF w[2] = "NORMAL" THEN "counting" ELSE "loop")
    /\ Commits(w)
    /\ UNCHANGED <<run, sampler, counters, lost, bounds>>

\* counter.addAndGet
AddToCounter(w) ==
    /\ Moves(w, "counting", "loop")
    /\ counter' = [counter EXCEPT ![w[1]] = @ + 1]
    /\ UNCHANGED <<run, sampler, projected, drain, ghosts, bounds>>

\* A mistake: the batch is counted in any case.
CopyFailsCounted(w) ==
    /\ Moves(w, "copying", IF w[2] = "NORMAL" THEN "counting" ELSE "loop")
    /\ Fault
    /\ UNCHANGED <<run, sampler, counters, drain, ghosts>>

\* copyIn throws, with the batch rolled back or, when only the answer of the
\* commit was lost, committed.  Or shutdownNow interrupts its wait for a
\* connection.  The loop goes on, past the counter.
CopyFails(w) ==
    /\ Moves(w, "copying", "loop")
    /\ \/ Fault /\ UNCHANGED <<drain, ghosts>>
       \/ /\ Fault /\ Commits(w)
          /\ lost' = IF w[2] = "NORMAL" THEN [lost EXCEPT ![w[1]] = @ + 1] ELSE lost
       \/ phase[w[1]] \in {"answered", "failed"} /\ UNCHANGED <<drain, ghosts, bounds>>
    /\ UNCHANGED <<run, sampler, counters>>

-----------------------------------------------------------------------------
(***************************************************************************)
(* Everyone else.                                                          *)
(***************************************************************************)
\* A chunk of POST /generate; what it adds on NORMAL no run counts.
OtherWrite ==
    /\ batches < MaxBatches /\ batches' = batches + 1
    /\ backlog' = backlog + 1
    /\ UNCHANGED <<run, writer, sampler, counters, again, dpc, ghosts, faults>>

\* drainOnce writes a batch to the read database; the batch of a drain that
\* failed is there already and changes nothing.
Project ==
    /\ dpc = "idle" /\ dpc' = "inserted"
    /\ \/ again < backlog /\ again' = again + 1 /\ landed' = landed + 1
       \/ again > 0 /\ UNCHANGED <<again, landed>>
    /\ UNCHANGED <<run, writer, sampler, counters, backlog, own, late, lost, failed, bounds>>

LeavesOutbox == backlog' = backlog - 1 /\ again' = again - 1

DeleteOutbox ==
    /\ dpc = "inserted" /\ dpc' = "deleted"
    /\ LeavesOutbox
    /\ UNCHANGED <<run, writer, sampler, counters, ghosts, bounds>>

CountProjected ==
    /\ dpc = "deleted" /\ dpc' = "idle"
    /\ projected' = projected + 1
    /\ UNCHANGED <<run, writer, sampler, counter, backlog, again, ghosts, bounds>>

\* The DELETE, or a statement before it, throws: the batch is projected again,
\* or, when only the answer of the DELETE was lost, never counted.
DrainFails ==
    /\ dpc = "inserted" /\ dpc' = "idle"
    /\ Fault
    /\ failed' = failed + 1
    /\ LeavesOutbox \/ UNCHANGED <<backlog, again>>
    /\ UNCHANGED <<run, writer, sampler, counters, own, landed, late, lost>>

\* POST /clear, which a drain excludes.
Clear ==
    /\ dpc = "idle" /\ backlog > 0
    /\ backlog' = 0 /\ again' = 0
    /\ UNCHANGED <<run, writer, sampler, counters, dpc, ghosts, bounds>>

RunStep(r) == Warm(r) \/ GetNormal(r) \/ GetCqrs(r) \/ Finish(r)
SamplerStep(s) == BeginWindow(s) \/ EndWindow(s)
WriterStep(w) == Loop(w) \/ CopyIn(w) \/ AddToCounter(w)

Next ==
    \/ \E r \in Run : Start(r) \/ RunStep(r) \/ WarmFails(r)
    \/ \E s \in Sampler : SamplerStep(s) \/ SamplerFails(s)
    \/ \E w \in Writer : WriterStep(w) \/ CopyFails(w)
    \/ OtherWrite \/ Clear
    \/ Project \/ DeleteOutbox \/ CountProjected \/ DrainFails

Spec == Init /\ [][Next]_vars

\* Threads are scheduled, statements end, the window's time runs out.
FairSpec ==
    /\ Spec
    /\ \A r \in Run : WF_vars(RunStep(r))
    /\ \A s \in Sampler : WF_vars(SamplerStep(s))
    /\ \A w \in Writer : WF_vars(WriterStep(w))

-----------------------------------------------------------------------------
(***************************************************************************)
(* Properties.                                                             *)
(***************************************************************************)
TypeOK ==
    /\ phase \in [Run -> {"idle", "warming", "getNormal", "getCqrs", "stopping",
                          "answered", "failed"}]
    /\ outcome \in [Run -> {"answered", "failed"}]
    /\ running \in [Run -> BOOLEAN]
    /\ writer \in [Writer -> {"none", "loop", "copying", "counting", "ended"}]
    /\ sampler \in [Sampler ->
          [pc : {"none", "submitted", "sampling", "done", "failed"},
           before : Nat, delta : Nat, landed : Nat, missed : Nat, stuck : Nat]]
    /\ counter \in [Run -> Nat] /\ projected \in Nat
    /\ backlog \in Nat /\ again \in 0 .. backlog /\ dpc \in {"idle", "inserted", "deleted"}
    /\ own \in [Run -> Nat] /\ landed \in Nat
    /\ late \in [Writer -> Nat] /\ lost \in [Run -> Nat] /\ failed \in Nat
    /\ batches \in 0 .. MaxBatches /\ faults \in 0 .. MaxFaults

\* Even a writer that awaitTermination gave up on commits only the batch it
\* was in when the run stopped.
OneLateBatch == \A w \in Writer : late[w] <= 1

\* The writes of a window are those that landed in it: of the run's own
\* writers on NORMAL, of the projector, whoever wrote, on CQRS.  None is counted
\* that did not land, none of an earlier window but the batch that each thread
\* had committed and not yet counted when this one began, and those of drains
\* that had failed by then.  None is missing but the batch in hand when the
\* window ends, and a batch each for a copyIn that threw although it committed
\* and for a drain that failed in the window.
CountsTheWindow ==
    \A r \in Run :
        LET normal == sampler[<<r, "NORMAL">>]  cqrs == sampler[<<r, "CQRS">>]
        IN  /\ normal.pc = "done" =>
                  normal.delta - normal.landed
                      \in (- (WriterThreads + normal.missed)) .. WriterThreads
            /\ cqrs.pc = "done" =>
                  cqrs.delta - cqrs.landed \in (- (1 + cqrs.missed)) .. (1 + cqrs.stuck)

\* However many reads a sampler made while the rest of the run took its
\* course, the percentiles of the answer are nearest ranks of them.
PercentilesAreNearestRanks ==
    (\E r \in Run : phase[r] = "answered") => \A n \in 1 .. MaxSamples : NearestRanks(n)

\* Every run comes to an end, whatever fails, and so do its writers, whatever
\* the run came to: no load goes on for a benchmark nobody waits for.
RunsAndWritersEnd ==
    /\ \A r \in Run : phase[r] # "idle" ~> phase[r] \in {"answered", "failed"}
    /\ \A w \in Writer : writer[w] # "none" ~> writer[w] = "ended"
=============================================================================
