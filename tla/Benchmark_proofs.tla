--------------------------- MODULE Benchmark_proofs ---------------------------
(***************************************************************************)
(* Proofs about Benchmark, for any number of runs, writers and batches:    *)
(* the percentiles, the counted window, the batch after the stop.          *)
(***************************************************************************)
EXTENDS Benchmark, FiniteSetTheorems, TLAPS

\* pct picks the nearest rank, whatever is clamped, of a sample or more.
LEMMA IndexIsNearestRank ==
    ASSUME NEW n \in Nat \ {0}, NEW p \in 1 .. 100
    PROVE  NearestRank(Index(n, p), n, p)
<1> DEFINE rank == (p * n + 99) \div 100
<1>1. p * n \in Nat /\ p * n >= 1 /\ p * n <= 100 * n
    <2>1. p * n \in Nat /\ p * n >= n
        OBVIOUS
    <2>2. p * n <= 100 * n
        OBVIOUS
    <2> QED BY <2>1, <2>2
<1>2. rank \in Int /\ 100 * rank <= p * n + 99 /\ p * n + 99 < 100 * rank + 100
    BY <1>1
<1>3. rank >= 1 /\ rank <= n
    BY <1>1, <1>2
<1>4. Index(n, p) = rank - 1
    BY <1>2, <1>3 DEF Index
<1> HIDE DEF rank
<1> QED BY <1>1, <1>2, <1>3, <1>4 DEF NearestRank

\* A higher percentile is never a smaller sample.
LEMMA NearestRanksAreInOrder ==
    ASSUME NEW n \in Nat \ {0}, NEW p \in 1 .. 100, NEW q \in 1 .. 100, p <= q,
           NEW i \in Int, NEW j \in Int, NearestRank(i, n, p), NearestRank(j, n, q)
    PROVE  i <= j
<1>1. p * n \in Nat /\ q * n \in Nat /\ p * n <= q * n
    OBVIOUS
<1>2. 100 * i < p * n /\ 100 * (j + 1) >= q * n
    BY DEF NearestRank
<1> QED BY <1>1, <1>2

\* The percentiles of the answer, for any number of samples from 1 on.
LEMMA PickedAreNearestRanks ==
    ASSUME NEW n \in Nat \ {0}
    PROVE  NearestRanks(n)
<1>1. /\ NearestRank(Index(n, 50), n, 50)
      /\ NearestRank(Index(n, 95), n, 95)
      /\ NearestRank(Index(n, 99), n, 99)
    BY IndexIsNearestRank
<1>2. /\ Index(n, 50) \in Int /\ Index(n, 95) \in Int /\ Index(n, 99) \in Int
      /\ Index(n, 99) <= n - 1
    BY <1>1 DEF NearestRank
<1>3. \A p, q \in 1 .. 100 : p <= q => \A i, j \in Int :
          NearestRank(i, n, p) /\ NearestRank(j, n, q) => i <= j
    BY NearestRanksAreInOrder
<1>4. Index(n, 50) <= Index(n, 95) /\ Index(n, 95) <= Index(n, 99)
    BY <1>1, <1>2, <1>3
<1> QED BY <1>1, <1>2, <1>3, <1>4 DEF NearestRanks, Picked

\* Every answer is made of nearest ranks, however many reads were sampled.
THEOREM AnswersAreNearestRanks == Spec => []PercentilesAreNearestRanks
<1>1. PercentilesAreNearestRanks
    <2>1. 1 .. MaxSamples \subseteq Nat \ {0}
        BY BenchmarkAssumption
    <2> QED BY <2>1, PickedAreNearestRanks DEF PercentilesAreNearestRanks
<1> QED BY <1>1, PTL

-----------------------------------------------------------------------------
(***************************************************************************)
(* The invariant.                                                          *)
(***************************************************************************)
Phases == {"idle", "warming", "getNormal", "getCqrs", "stopping", "answered", "failed"}
Outcomes == {"answered", "failed"}
Writing == {"none", "loop", "copying", "counting", "ended"}
Sampling == {"none", "submitted", "sampling", "done", "failed"}
Window == [pc : Sampling, before : Int, delta : Int, landed : Int, missed : Int, stuck : Int]

Types ==
    /\ phase \in [Run -> Phases] /\ outcome \in [Run -> Outcomes] /\ running \in [Run -> BOOLEAN]
    /\ writer \in [Writer -> Writing] /\ sampler \in [Sampler -> Window]
    /\ counter \in [Run -> Int] /\ projected \in Int
    /\ own \in [Run -> Int] /\ landed \in Int
    /\ late \in [Writer -> Int] /\ lost \in [Run -> Int] /\ failed \in Int

\* A batch that is inserted and not deleted is in both databases.
InBoth == again \in Nat /\ (dpc = "inserted" => again >= 1)

\* Before its run starts a writer is not there, and only those of NORMAL count
\* what they write.  A writer that committed after
\* the stop is not in a batch any more, and nothing starts its run again.
Orderly(w) ==
    /\ phase[w[1]] = "idle" => writer[w] = "none"
    /\ writer[w] = "counting" => w[2] = "NORMAL"
    /\ late[w] = 0 \/ (late[w] = 1 /\ ~ running[w[1]] /\ phase[w[1]] # "idle" /\ writer[w] # "copying")

\* The NORMAL writers of a run that have committed a batch they have not counted.
Uncounted(r) == {i \in 1 .. WriterThreads : writer[<<r, "NORMAL", i>>] = "counting"}

\* What has landed is what was counted, those batches and the lost answers apart.
OwnAreCounted(r) == own[r] = counter[r] + lost[r] + Cardinality(Uncounted(r))

\* The projected batches that are not counted: without the one in hand and one
\* for each failed drain they only get fewer, without those that may still be
\* counted only more.
Most == (landed - projected) - failed - (IF dpc = "idle" THEN 0 ELSE 1)
Least == (landed - projected) - again - (IF dpc = "deleted" THEN 1 ELSE 0)

\* A window that is open remembers how things stood when it began, one that
\* ended has the difference.
NormalWindow(r) ==
    LET s == sampler[<<r, "NORMAL">>]
    IN  /\ s.pc = "sampling" => /\ s.landed - s.before - s.missed \in 0 .. WriterThreads
                                /\ s.missed <= lost[r]
        /\ s.pc = "done" => s.delta - s.landed \in (- (WriterThreads + s.missed)) .. WriterThreads

CqrsWindow(r) ==
    LET s == sampler[<<r, "CQRS">>]
    IN  /\ s.pc = "sampling" => /\ Most <= (s.landed - s.before) - s.missed
                                /\ (s.landed - s.before) - s.stuck - 1 <= Least
        /\ s.pc = "done" => s.delta - s.landed \in (- (1 + s.missed)) .. (1 + s.stuck)

IInv ==
    /\ Types /\ InBoth /\ (\A w \in Writer : Orderly(w))
    /\ \A r \in Run : OwnAreCounted(r) /\ NormalWindow(r) /\ CqrsWindow(r)

\* No more writers of a run are between commit and count than it has.
LEMMA UncountedIsBounded ==
    ASSUME NEW r \in Run
    PROVE  IsFiniteSet(Uncounted(r)) /\ Cardinality(Uncounted(r)) \in 0 .. WriterThreads
<1>1. WriterThreads \in Nat /\ WriterThreads >= 1
    BY BenchmarkAssumption
<1>2. IsFiniteSet(1 .. WriterThreads) /\ Cardinality(1 .. WriterThreads) = WriterThreads
    BY <1>1, FS_Interval
<1>3. Uncounted(r) \subseteq 1 .. WriterThreads
    BY DEF Uncounted
<1>4. IsFiniteSet(Uncounted(r)) /\ Cardinality(Uncounted(r)) <= WriterThreads
    BY <1>2, <1>3, FS_Subset
<1> QED BY <1>1, <1>4, FS_CardinalityType

\* The two samplers of a run.
LEMMA Samplers ==
    ASSUME NEW r \in Run, sampler \in [Sampler -> Window]
    PROVE  /\ <<r, "NORMAL">> \in Sampler /\ <<r, "CQRS">> \in Sampler
           /\ sampler[<<r, "NORMAL">>] \in Window /\ sampler[<<r, "CQRS">>] \in Window
<1>1. <<r, "NORMAL">> \in Sampler /\ <<r, "CQRS">> \in Sampler
    BY DEF Sampler, Models
<1> QED BY <1>1

\* The bounds are numbers.
LEMMA BoundsAreNumbers ==
    ASSUME landed \in Int, projected \in Int, failed \in Int, again \in Int
    PROVE  Most \in Int /\ Least \in Int
BY DEF Most, Least

\* What a step does not touch.
LEMMA NormalKeeps ==
    ASSUME NEW r \in Run, Types, NormalWindow(r), sampler' = sampler,
           lost'[r] \in Int, lost[r] <= lost'[r]
    PROVE  NormalWindow(r)'
<1> DEFINE s == sampler[<<r, "NORMAL">>]
<1>1. s.missed \in Int /\ lost[r] \in Int
    BY Samplers DEF Types, Window
<1>2. s.pc = "sampling" => s.missed <= lost[r]
    BY DEF NormalWindow
<1>3. s.pc = "sampling" => s.missed <= lost'[r]
    BY <1>1, <1>2
<1> QED BY <1>3 DEF NormalWindow

LEMMA CqrsKeeps ==
    ASSUME NEW r \in Run, Types, InBoth, CqrsWindow(r), sampler' = sampler,
           Most' \in Int, Least' \in Int, Most' <= Most, Least <= Least'
    PROVE  CqrsWindow(r)'
<1> DEFINE s == sampler[<<r, "CQRS">>]
<1>1. s.landed \in Int /\ s.before \in Int /\ s.missed \in Int /\ s.stuck \in Int
    BY Samplers DEF Types, Window
<1>2. Most \in Int /\ Least \in Int
    BY BoundsAreNumbers DEF Types, InBoth
<1>3. s.pc = "sampling" => /\ Most <= (s.landed - s.before) - s.missed
                           /\ (s.landed - s.before) - s.stuck - 1 <= Least
    BY DEF CqrsWindow
<1>4. s.pc = "sampling" => /\ Most' <= (s.landed - s.before) - s.missed
                           /\ (s.landed - s.before) - s.stuck - 1 <= Least'
    BY <1>1, <1>2, <1>3
<1>5. s.pc = "done" => s.delta - s.landed \in (- (1 + s.missed)) .. (1 + s.stuck)
    BY DEF CqrsWindow
<1> HIDE DEF s
<1>6. s' = s
    BY DEF s
<1> QED BY <1>4, <1>5, <1>6 DEF CqrsWindow, s

LEMMA WindowsKeep ==
    ASSUME IInv, sampler' = sampler, UNCHANGED <<lost, failed, landed, projected, again, dpc>>
    PROVE  \A r \in Run : NormalWindow(r)' /\ CqrsWindow(r)'
BY DEF IInv, NormalWindow, CqrsWindow, Most, Least

LEMMA CountsKeep ==
    ASSUME NEW r \in Run, OwnAreCounted(r), Uncounted(r)' = Uncounted(r),
           counter'[r] = counter[r], own'[r] = own[r], lost'[r] = lost[r]
    PROVE  OwnAreCounted(r)'
BY DEF OwnAreCounted

\* A step of a run that is under way.
LEMMA RunMoves ==
    ASSUME IInv, NEW r \in Run, phase[r] # "idle",
           NEW p \in Phases, p # "idle", phase' = [phase EXCEPT ![r] = p],
           running' = running \/ running' = [running EXCEPT ![r] = FALSE],
           outcome' \in [Run -> Outcomes],
           sampler' \in [Sampler -> Window], \A q \in Run : NormalWindow(q)' /\ CqrsWindow(q)',
           UNCHANGED <<writer, counters, drain, ghosts>>
    PROVE  IInv'
<1>1. Types /\ \A w \in Writer : Orderly(w)
    BY DEF IInv
<1>2. Types'
    BY <1>1 DEF Types, counters, ghosts
<1>3. \A w \in Writer : Orderly(w)'
    <2> SUFFICES ASSUME NEW w \in Writer PROVE Orderly(w)'
        OBVIOUS
    <2>1. w[1] \in Run
        BY DEF Writer
    <2> QED BY <1>1, <2>1 DEF Orderly, Types, ghosts
<1>4. \A q \in Run : OwnAreCounted(q)'
    BY DEF IInv, OwnAreCounted, Uncounted, counters, ghosts
<1>5. InBoth'
    BY DEF IInv, InBoth, drain
<1> QED BY <1>2, <1>3, <1>4, <1>5 DEF IInv

\* A step of a writer that neither commits nor counts.
LEMMA WriterMoves ==
    ASSUME IInv, NEW w \in Writer, writer[w] # "counting", writer[w] # "none",
           NEW p \in Writing, p \notin {"counting", "none"}, writer' = [writer EXCEPT ![w] = p],
           p = "copying" => running[w[1]],
           UNCHANGED <<run, sampler, counters, drain, ghosts>>
    PROVE  IInv'
<1>1. Types /\ \A v \in Writer : Orderly(v)
    BY DEF IInv
<1>2. Types' /\ InBoth'
    BY <1>1 DEF IInv, Types, InBoth, run, counters, drain, ghosts
<1>3. \A v \in Writer : Orderly(v)'
    BY <1>1 DEF Orderly, Types, run, ghosts
<1>4. \A q \in Run : OwnAreCounted(q)'
    <2> SUFFICES ASSUME NEW q \in Run PROVE OwnAreCounted(q)'
        OBVIOUS
    <2>1. Uncounted(q)' = Uncounted(q)
        BY <1>1 DEF Types, Uncounted
    <2> QED BY <2>1, CountsKeep DEF IInv, counters, ghosts
<1>5. \A q \in Run : NormalWindow(q)' /\ CqrsWindow(q)'
    BY WindowsKeep DEF counters, drain, ghosts
<1> QED BY <1>2, <1>3, <1>4, <1>5 DEF IInv

-----------------------------------------------------------------------------
(***************************************************************************)
(* One lemma for each kind of step.                                        *)
(***************************************************************************)
\* No run has started.
LEMMA BenchmarkInit == Init => IInv
<1> SUFFICES ASSUME Init PROVE IInv
    OBVIOUS
<1> USE DEF Init
<1>1. Types
    <2>1. NoWindow \in Window
        BY DEF Window, NoWindow, Sampling
    <2>2. /\ phase \in [Run -> Phases] /\ outcome \in [Run -> Outcomes]
          /\ writer \in [Writer -> Writing] /\ sampler \in [Sampler -> Window]
        BY <2>1 DEF Phases, Outcomes, Writing
    <2>3. running \in [Run -> BOOLEAN]
        OBVIOUS
    <2>4. /\ counter \in [Run -> Int] /\ projected \in Int /\ landed \in Int /\ failed \in Int
          /\ own \in [Run -> Int] /\ late \in [Writer -> Int] /\ lost \in [Run -> Int]
        OBVIOUS
    <2> QED BY <2>2, <2>3, <2>4 DEF Types
<1>2. \A w \in Writer : Orderly(w)
    BY DEF Orderly, Writer
<1>3. \A r \in Run : OwnAreCounted(r)
    <2> SUFFICES ASSUME NEW r \in Run PROVE OwnAreCounted(r)
        OBVIOUS
    <2>1. Uncounted(r) = {}
        BY DEF Uncounted, Writer, Models
    <2> QED BY <2>1, FS_EmptySet DEF OwnAreCounted
<1>4. \A r \in Run : NormalWindow(r) /\ CqrsWindow(r)
    BY DEF NormalWindow, CqrsWindow, NoWindow, Sampler, Models
<1>5. InBoth
    BY DEF InBoth
<1> QED BY <1>1, <1>2, <1>3, <1>4, <1>5 DEF IInv

\* The writers of a run are submitted.
LEMMA StartKeeps ==
    ASSUME IInv, NEW r \in Run, Start(r)
    PROVE  IInv'
<1>1. Types /\ \A w \in Writer : Orderly(w)
    BY DEF IInv
<1>2. Types' /\ InBoth'
    <2>1. UNCHANGED <<sampler, counters, drain, ghosts>>
        BY DEF Start
    <2>2. phase' \in [Run -> Phases] /\ outcome' \in [Run -> Outcomes]
          /\ running' \in [Run -> BOOLEAN] /\ writer' \in [Writer -> Writing]
        BY <1>1 DEF Start, Types, Phases, Writing
    <2> QED BY <1>1, <2>1, <2>2 DEF IInv, Types, InBoth, counters, drain, ghosts
<1>3. \A w \in Writer : Orderly(w)'
    BY <1>1 DEF Start, Orderly, Types, ghosts, Writer
<1>4. \A q \in Run : OwnAreCounted(q)'
    <2> SUFFICES ASSUME NEW q \in Run PROVE OwnAreCounted(q)'
        OBVIOUS
    <2>1. \A i \in 1 .. WriterThreads : <<q, "NORMAL", i>> \in Writer
        BY DEF Writer, Models
    <2>2. q = r => \A i \in 1 .. WriterThreads : writer[<<q, "NORMAL", i>>] = "none"
        BY <1>1, <2>1 DEF Start, Orderly
    <2>3. Uncounted(q)' = Uncounted(q)
        BY <1>1, <2>1, <2>2 DEF Start, Uncounted
    <2> QED BY <2>3, CountsKeep DEF Start, IInv, counters, ghosts
<1>5. \A q \in Run : NormalWindow(q)' /\ CqrsWindow(q)'
    BY WindowsKeep DEF Start, counters, drain, ghosts
<1> QED BY <1>2, <1>3, <1>4, <1>5 DEF IInv

\* The warm-up is over, and the samplers have a window to come.
LEMMA WarmKeeps ==
    ASSUME IInv, NEW r \in Run, Warm(r)
    PROVE  IInv'
<1>1. sampler \in [Sampler -> Window] /\ \A q \in Run : NormalWindow(q) /\ CqrsWindow(q)
    BY DEF IInv, Types
<1>2. sampler' \in [Sampler -> Window]
    BY <1>1 DEF Warm, Window, Sampling
<1>3. ASSUME NEW q \in Run PROVE NormalWindow(q)' /\ CqrsWindow(q)'
    <2>1. <<q, "NORMAL">> \in Sampler /\ <<q, "CQRS">> \in Sampler
        BY DEF Sampler, Models
    <2>2. CASE q = r
        <3>1. sampler'[<<q, "NORMAL">>].pc = "submitted" /\ sampler'[<<q, "CQRS">>].pc = "submitted"
            BY <1>1, <2>1, <2>2 DEF Warm, Window
        <3> QED BY <3>1 DEF NormalWindow, CqrsWindow
    <2>3. CASE q # r
        <3>1. /\ sampler'[<<q, "NORMAL">>] = sampler[<<q, "NORMAL">>]
              /\ sampler'[<<q, "CQRS">>] = sampler[<<q, "CQRS">>]
            BY <2>1, <2>3 DEF Warm
        <3>2. lost' = lost /\ Most' = Most /\ Least' = Least
            BY DEF Warm, Most, Least, counters, drain, ghosts
        <3> QED BY <1>1, <3>1, <3>2 DEF NormalWindow, CqrsWindow
    <2> QED BY <2>2, <2>3
<1> QED BY <1>2, <1>3, RunMoves DEF Warm, Phases, IInv, Types

\* The other steps of run.
LEMMA RunStepKeeps ==
    ASSUME IInv, NEW r \in Run, WarmFails(r) \/ GetNormal(r) \/ GetCqrs(r) \/ Finish(r)
    PROVE  IInv'
<1>1. sampler' = sampler /\ UNCHANGED <<writer, counters, drain, ghosts>> /\ phase[r] # "idle"
      /\ outcome \in [Run -> Outcomes]
    BY DEF IInv, Types, WarmFails, GetNormal, GetCqrs, Finish
<1>2. sampler' \in [Sampler -> Window] /\ \A q \in Run : NormalWindow(q)' /\ CqrsWindow(q)'
    BY <1>1, WindowsKeep DEF IInv, Types, counters, drain, ghosts
<1>3. PICK p \in {"getCqrs", "stopping", "answered", "failed"} :
        /\ phase' = [phase EXCEPT ![r] = p]
        /\ running' = running \/ running' = [running EXCEPT ![r] = FALSE]
        /\ outcome' \in [Run -> Outcomes]
    <2>1. CASE Finish(r)
        <3>1. outcome[r] \in {"answered", "failed"}
            BY <1>1 DEF Outcomes
        <3> QED BY <1>1, <2>1, <3>1 DEF Finish
    <2>2. CASE WarmFails(r) \/ GetNormal(r) \/ GetCqrs(r)
        BY <1>1, <2>2 DEF WarmFails, GetNormal, GetCqrs, Stop, Outcomes
    <2> QED BY <2>1, <2>2
<1> QED BY <1>1, <1>2, <1>3, RunMoves DEF Phases

\* A NORMAL window begins with what the threads have not counted yet, and what
\* it ends with it has not counted either.
LEMMA NormalSamplerKeeps ==
    ASSUME IInv, NEW r \in Run, NEW s \in Sampler, s = <<r, "NORMAL">>,
           BeginWindow(s) \/ EndWindow(s) \/ SamplerFails(s)
    PROVE  NormalWindow(r)'
<1> DEFINE w == sampler[s]
<1>1. Types /\ OwnAreCounted(r) /\ NormalWindow(r)
    BY DEF IInv
<1>2. w \in Window /\ own[r] \in Int /\ counter[r] \in Int /\ lost[r] \in Int
    BY <1>1 DEF Types
<1>3. own[r] - counter[r] - lost[r] \in 0 .. WriterThreads
    <2>1. Cardinality(Uncounted(r)) \in 0 .. WriterThreads
        BY UncountedIsBounded
    <2> QED BY <1>1, <1>2, <2>1, BenchmarkAssumption DEF OwnAreCounted
<1>4. lost' = lost
    BY DEF BeginWindow, EndWindow, SamplerFails, ghosts
<1>5. CASE BeginWindow(s)
    <2>1. sampler'[s] = [pc |-> "sampling", before |-> counter[r], delta |-> 0,
                         landed |-> own[r], missed |-> lost[r], stuck |-> 0]
        BY <1>1, <1>5 DEF BeginWindow, CountedBy, Landed, Missed, Types
    <2> QED BY <1>2, <1>3, <1>4, <2>1 DEF NormalWindow
<1>6. CASE EndWindow(s)
    <2>1. /\ w.pc = "sampling" /\ sampler'[s].pc = "done"
          /\ sampler'[s].delta = counter[r] - w.before
          /\ sampler'[s].landed = own[r] - w.landed
          /\ sampler'[s].missed = lost[r] - w.missed
        BY <1>1, <1>2, <1>6 DEF EndWindow, CountedBy, Landed, Missed, Types, Window
    <2>2. w.before \in Int /\ w.landed \in Int /\ w.missed \in Int
        BY <1>2 DEF Window
    <2>3. w.landed - w.before - w.missed \in 0 .. WriterThreads /\ w.missed <= lost[r]
        BY <1>1, <2>1 DEF NormalWindow
    <2> HIDE DEF w
    <2>4. sampler'[s].delta - sampler'[s].landed
              \in (- (WriterThreads + sampler'[s].missed)) .. WriterThreads
        BY <1>2, <1>3, <2>1, <2>2, <2>3, BenchmarkAssumption
    <2> QED BY <2>1, <2>4 DEF NormalWindow
<1>7. CASE SamplerFails(s)
    <2>1. sampler'[s].pc = "failed"
        BY <1>1, <1>2, <1>7 DEF SamplerFails, Types, Window
    <2> QED BY <2>1 DEF NormalWindow
<1> QED BY <1>5, <1>6, <1>7

\* A CQRS window begins with Most and Least around it, and the counter can only
\* have gone as far from what has landed as they have moved apart.
LEMMA CqrsSamplerKeeps ==
    ASSUME IInv, NEW r \in Run, NEW s \in Sampler, s = <<r, "CQRS">>,
           BeginWindow(s) \/ EndWindow(s) \/ SamplerFails(s)
    PROVE  CqrsWindow(r)'
<1> DEFINE w == sampler[s]
<1>1. Types /\ InBoth /\ CqrsWindow(r)
    BY DEF IInv
<1>2. w \in Window /\ landed \in Int /\ projected \in Int /\ failed \in Int /\ again \in Nat
    BY <1>1 DEF Types, InBoth
<1>3. Most' = Most /\ Least' = Least
    BY DEF BeginWindow, EndWindow, SamplerFails, counters, drain, ghosts, Most, Least
<1>4. CASE BeginWindow(s)
    <2>1. sampler'[s] = [pc |-> "sampling", before |-> projected, delta |-> 0,
                         landed |-> landed, missed |-> failed, stuck |-> Stuck]
        BY <1>1, <1>4 DEF BeginWindow, CountedBy, Landed, Missed, Types
    <2>2. Most <= (landed - projected) - failed
        BY <1>2 DEF Most
    <2>3. (landed - projected) - Stuck - 1 <= Least
        BY <1>2 DEF Least, Stuck
    <2> QED BY <1>3, <2>1, <2>2, <2>3 DEF CqrsWindow
<1>5. CASE EndWindow(s)
    <2>1. /\ w.pc = "sampling" /\ sampler'[s].pc = "done"
          /\ sampler'[s].delta = projected - w.before
          /\ sampler'[s].landed = landed - w.landed
          /\ sampler'[s].missed = failed - w.missed
          /\ sampler'[s].stuck = w.stuck
        BY <1>1, <1>2, <1>5 DEF EndWindow, CountedBy, Landed, Missed, Types, Window
    <2>2. w.before \in Int /\ w.landed \in Int /\ w.missed \in Int /\ w.stuck \in Int
        BY <1>2 DEF Window
    <2>3. Most <= (w.landed - w.before) - w.missed /\ (w.landed - w.before) - w.stuck - 1 <= Least
        BY <1>1, <2>1 DEF CqrsWindow
    <2>4. Most \in Int /\ Least \in Int
        BY <1>2, BoundsAreNumbers
    <2>5. (landed - projected) - failed - 1 <= Most /\ Least <= landed - projected
        BY <1>2 DEF Most, Least
    <2> HIDE DEF w
    <2>6. sampler'[s].delta - sampler'[s].landed
              \in (- (1 + sampler'[s].missed)) .. (1 + sampler'[s].stuck)
        BY <1>2, <2>1, <2>2, <2>3, <2>4, <2>5
    <2> QED BY <2>1, <2>6 DEF CqrsWindow
<1>6. CASE SamplerFails(s)
    <2>1. sampler'[s].pc = "failed"
        BY <1>1, <1>2, <1>6 DEF SamplerFails, Types, Window
    <2> QED BY <2>1 DEF CqrsWindow
<1> QED BY <1>4, <1>5, <1>6

\* The samplers' steps: a window begins, ends or fails.
LEMMA SamplerKeeps ==
    ASSUME IInv, NEW s \in Sampler, BeginWindow(s) \/ EndWindow(s) \/ SamplerFails(s)
    PROVE  IInv'
<1>1. Types /\ InBoth
    BY DEF IInv
<1>2. /\ UNCHANGED <<run, writer, counters, drain, ghosts>>
      /\ \A t \in Sampler : t # s => sampler'[t] = sampler[t]
    BY <1>1 DEF BeginWindow, EndWindow, SamplerFails, Types
<1>3. s[1] \in Run /\ s[2] \in Models /\ s = <<s[1], s[2]>> /\ sampler[s] \in Window
    BY <1>1 DEF Sampler, Types
<1>4. CountedBy(s) \in Int /\ Landed(s) \in Int /\ Missed(s) \in Int /\ Stuck \in Int
    BY <1>1, <1>3 DEF CountedBy, Landed, Missed, Stuck, Types, InBoth
<1>5. sampler' \in [Sampler -> Window]
    <2>1. CASE BeginWindow(s)
        <3> DEFINE stuck == IF s[2] = "NORMAL" THEN 0 ELSE Stuck
                   window == [pc |-> "sampling", before |-> CountedBy(s), delta |-> 0,
                              landed |-> Landed(s), missed |-> Missed(s), stuck |-> stuck]
        <3>1. sampler' = [sampler EXCEPT ![s] = window]
            BY <2>1 DEF BeginWindow
        <3>2. stuck \in Int
            BY <1>4
        <3> HIDE DEF stuck
        <3>3. window \in Window
            BY <1>4, <3>2 DEF Window, Sampling
        <3> HIDE DEF window
        <3> QED BY <1>1, <3>1, <3>3 DEF Types
    <2>2. CASE EndWindow(s)
        <3> DEFINE d == CountedBy(s) - sampler[s].before
                   l == Landed(s) - sampler[s].landed
                   m == Missed(s) - sampler[s].missed
                   window == [sampler[s] EXCEPT !.pc = "done", !.delta = d, !.landed = l, !.missed = m]
        <3>1. sampler' = [sampler EXCEPT ![s] = window]
            BY <1>1, <2>2 DEF EndWindow, Types
        <3>2. sampler[s].before \in Int /\ sampler[s].landed \in Int /\ sampler[s].missed \in Int
            BY <1>3 DEF Window
        <3>3. d \in Int /\ l \in Int /\ m \in Int
            BY <1>4, <3>2
        <3> HIDE DEF d, l, m
        <3>4. window \in Window
            BY <1>3, <3>3 DEF Window, Sampling
        <3> HIDE DEF window
        <3> QED BY <1>1, <3>1, <3>4 DEF Types
    <2>3. CASE SamplerFails(s)
        BY <1>1, <1>3, <2>3 DEF SamplerFails, Types, Window, Sampling
    <2> QED BY <2>1, <2>2, <2>3
<1>6. Types' /\ InBoth'
    BY <1>1, <1>2, <1>5 DEF Types, InBoth, run, counters, drain, ghosts
<1>7. \A w \in Writer : Orderly(w)'
    BY <1>2 DEF IInv, Orderly, run, ghosts
<1>8. \A q \in Run : OwnAreCounted(q)'
    BY <1>2 DEF IInv, OwnAreCounted, Uncounted, counters, ghosts
<1>9. lost' = lost /\ Most' = Most /\ Least' = Least
    BY <1>2 DEF Most, Least, counters, drain, ghosts
<1>10. ASSUME NEW q \in Run PROVE NormalWindow(q)'
    <2>1. CASE s = <<q, "NORMAL">>
        BY <2>1, NormalSamplerKeeps
    <2>2. CASE s # <<q, "NORMAL">>
        <3>1. sampler'[<<q, "NORMAL">>] = sampler[<<q, "NORMAL">>]
            BY <1>1, <1>2, <2>2, Samplers DEF Types
        <3> QED BY <1>9, <3>1 DEF IInv, NormalWindow
    <2> QED BY <2>1, <2>2
<1>11. ASSUME NEW q \in Run PROVE CqrsWindow(q)'
    <2>1. CASE s = <<q, "CQRS">>
        BY <2>1, CqrsSamplerKeeps
    <2>2. CASE s # <<q, "CQRS">>
        <3>1. sampler'[<<q, "CQRS">>] = sampler[<<q, "CQRS">>]
            BY <1>1, <1>2, <2>2, Samplers DEF Types
        <3> QED BY <1>9, <3>1 DEF IInv, CqrsWindow
    <2> QED BY <2>1, <2>2
<1> QED BY <1>6, <1>7, <1>8, <1>10, <1>11 DEF IInv

\* The loop of a writer, and a batch that is rolled back.
LEMMA LoopKeeps ==
    ASSUME IInv, NEW w \in Writer, Loop(w) \/ (CopyFails(w) /\ UNCHANGED <<drain, ghosts>>)
    PROVE  IInv'
<1>1. /\ writer[w] \in {"loop", "copying"}
      /\ UNCHANGED <<run, sampler, counters, drain, ghosts>>
    BY DEF Loop, CopyFails, Moves
<1>2. PICK p \in {"loop", "copying", "ended"} :
        writer' = [writer EXCEPT ![w] = p] /\ (p = "copying" => running[w[1]])
    BY DEF Loop, CopyFails, Moves
<1> QED BY <1>1, <1>2, WriterMoves DEF Writing

\* A batch commits, and the writer goes on to count it, or, on CQRS or when the
\* answer was lost, not.
LEMMA CommitKeeps ==
    ASSUME IInv, NEW w \in Writer, writer[w] = "copying", Commits(w),
           NEW p \in {"counting", "loop"}, writer' = [writer EXCEPT ![w] = p],
           IF w[2] = "NORMAL" /\ p = "loop" THEN lost' = [lost EXCEPT ![w[1]] = @ + 1]
                                            ELSE lost' = lost,
           p = "counting" => w[2] = "NORMAL",
           UNCHANGED <<run, sampler, counters>>
    PROVE  IInv'
<1>1. Types /\ \A v \in Writer : Orderly(v)
    BY DEF IInv
<1>2. PICK r \in Run, m \in Models, i \in 1 .. WriterThreads : w = <<r, m, i>>
    BY DEF Writer
<1>3. /\ late' = IF running[r] THEN late ELSE [late EXCEPT ![w] = @ + 1]
      /\ own' = IF m = "NORMAL" THEN [own EXCEPT ![r] = @ + 1] ELSE own
      /\ lost' = IF m = "NORMAL" /\ p = "loop" THEN [lost EXCEPT ![r] = @ + 1] ELSE lost
      /\ UNCHANGED <<again, dpc, landed, failed>>
    BY <1>2 DEF Commits
<1>4. own' \in [Run -> Int] /\ lost' \in [Run -> Int] /\ late' \in [Writer -> Int]
    BY <1>1, <1>3 DEF Types
<1>5. writer' \in [Writer -> Writing]
    BY <1>1 DEF Types, Writing
<1>6. Types' /\ InBoth'
    BY <1>1, <1>3, <1>4, <1>5 DEF IInv, Types, InBoth, run, counters
<1>7. ASSUME NEW v \in Writer PROVE Orderly(v)'
    <2>1. CASE v # w
        <3>1. writer'[v] = writer[v] /\ late'[v] = late[v]
            BY <1>1, <1>3, <2>1 DEF Types
        <3> QED BY <1>1, <3>1 DEF Orderly, run
    <2>2. CASE v = w
        <3>1. late[w] = 0 /\ phase[r] # "idle" /\ w[1] = r
            BY <1>1, <1>2 DEF Orderly
        <3>2. writer'[w] = p
            BY <1>1 DEF Types
        <3>3. late'[w] = IF running[r] THEN 0 ELSE 1
            BY <1>1, <1>3, <3>1 DEF Types
        <3> QED BY <2>2, <3>1, <3>2, <3>3 DEF Orderly, run
    <2> QED BY <2>1, <2>2
<1>8. ASSUME NEW q \in Run PROVE OwnAreCounted(q)'
    <2>1. /\ OwnAreCounted(q) /\ counter'[q] = counter[q]
          /\ counter[q] \in Int /\ own[q] \in Int /\ lost[q] \in Int
        BY <1>1 DEF IInv, Types, counters
    <2>2. IsFiniteSet(Uncounted(q)) /\ Cardinality(Uncounted(q)) \in Int
        BY UncountedIsBounded, BenchmarkAssumption
    <2>3. CASE q = r /\ m = "NORMAL" /\ p = "counting"
        <3>1. i \notin Uncounted(q) /\ Uncounted(q)' = Uncounted(q) \cup {i}
            BY <1>1, <1>2, <2>3 DEF Types, Uncounted
        <3>2. Cardinality(Uncounted(q)') = Cardinality(Uncounted(q)) + 1
            <4>1. IsFiniteSet(Uncounted(q)) /\ i \notin Uncounted(q)
                BY <2>2, <3>1
            <4>2. Cardinality(Uncounted(q) \cup {i}) = Cardinality(Uncounted(q)) + 1
                BY <4>1, FS_AddElement
            <4> QED BY <3>1, <4>2
        <3>3. own'[q] = own[q] + 1 /\ lost'[q] = lost[q]
            BY <1>1, <1>3, <2>3 DEF Types
        <3> QED BY <2>1, <2>2, <3>2, <3>3 DEF OwnAreCounted
    <2>4. CASE q = r /\ m = "NORMAL" /\ p = "loop"
        <3>1. Uncounted(q)' = Uncounted(q)
            BY <1>1, <1>2, <2>4 DEF Types, Uncounted
        <3>2. own'[q] = own[q] + 1 /\ lost'[q] = lost[q] + 1
            BY <1>1, <1>3, <2>4 DEF Types
        <3> QED BY <2>1, <2>2, <3>1, <3>2 DEF OwnAreCounted
    <2>5. CASE q # r \/ m # "NORMAL"
        <3>1. Uncounted(q)' = Uncounted(q)
            BY <1>1, <1>2, <2>5 DEF Types, Uncounted
        <3>2. own'[q] = own[q] /\ lost'[q] = lost[q]
            BY <1>1, <1>3, <2>5 DEF Types
        <3> QED BY <2>1, <3>1, <3>2, CountsKeep
    <2> QED BY <2>3, <2>4, <2>5
<1>9. ASSUME NEW q \in Run PROVE NormalWindow(q)' /\ CqrsWindow(q)'
    <2>1. lost'[q] \in Int /\ lost[q] <= lost'[q]
        BY <1>1, <1>3 DEF Types
    <2>2. Most' = Most /\ Least' = Least
        BY <1>3 DEF Most, Least, counters
    <2>3. NormalWindow(q)'
        BY <1>1, <2>1, NormalKeeps DEF IInv
    <2> QED BY <2>2, <2>3 DEF IInv, CqrsWindow
<1> QED BY <1>6, <1>7, <1>8, <1>9 DEF IInv

\* A NORMAL writer counts its batch.
LEMMA AddToCounterKeeps ==
    ASSUME IInv, NEW w \in Writer, AddToCounter(w), w[2] = "NORMAL"
    PROVE  IInv'
<1>1. Types /\ \A v \in Writer : Orderly(v)
    BY DEF IInv
<1>2. PICK r \in Run, i \in 1 .. WriterThreads : w = <<r, "NORMAL", i>>
    BY DEF Writer
<1>3. /\ writer[w] = "counting" /\ writer' = [writer EXCEPT ![w] = "loop"]
      /\ counter' = [counter EXCEPT ![r] = @ + 1]
      /\ UNCHANGED <<run, sampler, projected, drain, ghosts>>
    BY <1>2 DEF AddToCounter, Moves
<1>4. Types' /\ InBoth'
    <2>1. counter' \in [Run -> Int] /\ writer' \in [Writer -> Writing]
        BY <1>1, <1>3 DEF Types, Writing
    <2> QED BY <1>1, <1>3, <2>1 DEF IInv, Types, InBoth, run, drain, ghosts
<1>5. \A v \in Writer : Orderly(v)'
    BY <1>1, <1>3 DEF Orderly, Types, run, ghosts
<1>6. ASSUME NEW q \in Run PROVE OwnAreCounted(q)'
    <2>1. /\ OwnAreCounted(q) /\ own'[q] = own[q] /\ lost'[q] = lost[q]
          /\ counter[q] \in Int /\ own[q] \in Int /\ lost[q] \in Int
        BY <1>1, <1>3 DEF IInv, Types, ghosts
    <2>2. CASE q = r
        <3>1. i \in Uncounted(q) /\ Uncounted(q)' = Uncounted(q) \ {i}
            BY <1>1, <1>2, <1>3, <2>2 DEF Types, Uncounted
        <3>2. IsFiniteSet(Uncounted(q)) /\ Cardinality(Uncounted(q)) \in Int
            BY UncountedIsBounded, BenchmarkAssumption
        <3>3. Cardinality(Uncounted(q)') = Cardinality(Uncounted(q)) - 1
            <4>1. IsFiniteSet(Uncounted(q)) /\ i \in Uncounted(q)
                BY <3>1, <3>2
            <4>2. Cardinality(Uncounted(q) \ {i}) = Cardinality(Uncounted(q)) - 1
                BY <4>1, FS_RemoveElement
            <4> QED BY <3>1, <4>2
        <3>4. counter'[q] = counter[q] + 1
            BY <1>1, <1>3, <2>2 DEF Types
        <3> QED BY <2>1, <3>2, <3>3, <3>4 DEF OwnAreCounted
    <2>3. CASE q # r
        <3>1. Uncounted(q)' = Uncounted(q) /\ counter'[q] = counter[q]
            BY <1>1, <1>2, <1>3, <2>3 DEF Types, Uncounted
        <3> QED BY <2>1, <3>1, CountsKeep
    <2> QED BY <2>2, <2>3
<1>7. \A q \in Run : NormalWindow(q)' /\ CqrsWindow(q)'
    BY <1>3, WindowsKeep DEF drain, ghosts
<1> QED BY <1>4, <1>5, <1>6, <1>7 DEF IInv

\* Everyone else, of whom the projector and the clear move the bounds of the
\* open windows apart.
LEMMA OthersKeep ==
    ASSUME IInv,
           OtherWrite \/ Clear \/ Project \/ DeleteOutbox \/ CountProjected \/ DrainFails
    PROVE  IInv'
<1>1. Types /\ InBoth
    BY DEF IInv
<1>2. landed \in Int /\ projected \in Int /\ failed \in Int /\ again \in Nat
    BY <1>1 DEF Types, InBoth
<1>3. UNCHANGED <<run, writer, sampler, counter, own, late, lost>>
    BY DEF OtherWrite, Clear, Project, DeleteOutbox, CountProjected, DrainFails, counters, ghosts
<1>4. InBoth' /\ landed' \in Int /\ projected' \in Int /\ failed' \in Int
    BY <1>1, <1>2 DEF OtherWrite, Clear, Project, DeleteOutbox, CountProjected, DrainFails,
                      LeavesOutbox, InBoth, counters, ghosts
<1>5. Types'
    BY <1>1, <1>3, <1>4 DEF Types, run
<1>6. Most' <= Most /\ Least <= Least'
    BY <1>1, <1>2 DEF OtherWrite, Clear, Project, DeleteOutbox, CountProjected, DrainFails,
                      LeavesOutbox, InBoth, Most, Least, counters, ghosts
<1>7. Most' \in Int /\ Least' \in Int
    BY <1>4 DEF Most, Least, InBoth
<1>8. \A w \in Writer : Orderly(w)'
    BY <1>3 DEF IInv, Orderly, run
<1>9. ASSUME NEW r \in Run PROVE NormalWindow(r)' /\ CqrsWindow(r)'
    <2>1. NormalWindow(r)'
        BY <1>3 DEF IInv, NormalWindow
    <2>2. CqrsWindow(r)'
        BY <1>1, <1>3, <1>6, <1>7, CqrsKeeps DEF IInv
    <2> QED BY <2>1, <2>2
<1>10. \A r \in Run : OwnAreCounted(r)'
    BY <1>3 DEF IInv, OwnAreCounted, Uncounted
<1> QED BY <1>4, <1>5, <1>8, <1>9, <1>10 DEF IInv

-----------------------------------------------------------------------------
(***************************************************************************)
(* The theorems.                                                           *)
(***************************************************************************)
\* Every step keeps the invariant.
LEMMA BenchmarkNext == IInv /\ [Next]_vars => IInv'
<1> SUFFICES ASSUME IInv, [Next]_vars PROVE IInv'
    OBVIOUS
<1>1. CASE \E r \in Run : Start(r) \/ RunStep(r) \/ WarmFails(r)
    BY <1>1, StartKeeps, WarmKeeps, RunStepKeeps DEF RunStep
<1>2. CASE \E s \in Sampler : SamplerStep(s) \/ SamplerFails(s)
    BY <1>2, SamplerKeeps DEF SamplerStep
<1>3. ASSUME NEW w \in Writer, WriterStep(w) \/ CopyFails(w) PROVE IInv'
    <2>1. CASE AddToCounter(w)
        <3>1. w[2] = "NORMAL"
            BY <2>1 DEF AddToCounter, Moves, IInv, Orderly
        <3> QED BY <2>1, <3>1, AddToCounterKeeps
    <2>2. CASE CopyIn(w)
        <3>1. /\ writer[w] = "copying" /\ Commits(w) /\ lost' = lost
              /\ UNCHANGED <<run, sampler, counters>>
            BY <2>2 DEF CopyIn, Moves
        <3>2. CASE w[2] = "NORMAL"
            <4>1. writer' = [writer EXCEPT ![w] = "counting"]
                BY <2>2, <3>2 DEF CopyIn, Moves
            <4> QED BY <3>1, <3>2, <4>1, CommitKeeps
        <3>3. CASE w[2] # "NORMAL"
            <4>1. writer' = [writer EXCEPT ![w] = "loop"]
                BY <2>2, <3>3 DEF CopyIn, Moves
            <4> QED BY <3>1, <3>3, <4>1, CommitKeeps
        <3> QED BY <3>2, <3>3
    <2>3. CASE CopyFails(w) /\ ~ UNCHANGED <<drain, ghosts>>
        <3>1. /\ writer[w] = "copying" /\ writer' = [writer EXCEPT ![w] = "loop"]
              /\ Commits(w) /\ UNCHANGED <<run, sampler, counters>>
              /\ lost' = IF w[2] = "NORMAL" THEN [lost EXCEPT ![w[1]] = @ + 1] ELSE lost
            BY <2>3 DEF CopyFails, Moves
        <3> QED BY <3>1, CommitKeeps
    <2> QED BY <1>3, <2>1, <2>2, <2>3, LoopKeeps DEF WriterStep
<1>4. CASE OtherWrite \/ Clear \/ Project \/ DeleteOutbox \/ CountProjected \/ DrainFails
    BY <1>4, OthersKeep
<1>5. CASE UNCHANGED vars
    <2> USE <1>5 DEF vars, run, counters, drain, ghosts
    <2>1. Types' /\ InBoth' /\ (\A w \in Writer : Orderly(w)')
        BY DEF IInv, Types, InBoth, Orderly
    <2>2. \A r \in Run : OwnAreCounted(r)' /\ NormalWindow(r)' /\ CqrsWindow(r)'
        BY WindowsKeep DEF IInv, OwnAreCounted, Uncounted
    <2> QED BY <2>1, <2>2 DEF IInv
<1> QED BY <1>1, <1>2, <1>3, <1>4, <1>5 DEF Next

\* The invariant holds for any number of runs at once, writers and batches.
THEOREM BenchmarkInvariant == Spec => []IInv
BY BenchmarkInit, BenchmarkNext, PTL DEF Spec

\* After the stop a writer commits the batch it was in, if any, whether its
\* copyIn returns or throws.
THEOREM AtMostOneLateBatch == Spec => []OneLateBatch
<1>1. IInv => OneLateBatch
    BY DEF IInv, Orderly, OneLateBatch
<1> QED BY <1>1, BenchmarkInvariant, PTL

\* The counted writes are those of the window, give or take a batch for each
\* thread that counts, for each answer of a commit that was lost and for each
\* drain that failed in it, or had failed when it began.
THEOREM WindowsAreCounted == Spec => []CountsTheWindow
<1>1. IInv => CountsTheWindow
    BY DEF IInv, NormalWindow, CqrsWindow, CountsTheWindow
<1> QED BY <1>1, BenchmarkInvariant, PTL
=============================================================================
