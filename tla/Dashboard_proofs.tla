-------------------------- MODULE Dashboard_proofs --------------------------
(***************************************************************************)
(* Proofs about Dashboard, for any filters, number of pages and clicks,    *)
(* and about DashboardPanels.                                              *)
(***************************************************************************)
EXTENDS Dashboard, DashboardPanels, SequenceTheorems, TLAPS

\* A list of calls after one of them was answered.
LEMMA RemoveAtFacts ==
    ASSUME NEW S, NEW s \in Seq(S), NEW i \in DOMAIN s
    PROVE  /\ RemoveAt(s, i) \in Seq(S)
           /\ Len(RemoveAt(s, i)) = Len(s) - 1
           /\ \A j \in 1 .. (Len(s) - 1) :
                 RemoveAt(s, i)[j] = IF j < i THEN s[j] ELSE s[j + 1]
<1> DEFINE a == SubSeq(s, 1, i - 1)
<1> DEFINE b == SubSeq(s, i + 1, Len(s))
<1>1. i \in 1 .. Len(s) /\ Len(s) \in Nat /\ i \in Int  OBVIOUS
<1>2. a \in Seq(S) /\ Len(a) = i - 1 /\ \A j \in 1 .. (i - 1) : a[j] = s[j]
  BY <1>1, SubSeqProperties
<1>3. b \in Seq(S) /\ Len(b) = Len(s) - i
  BY <1>1, SubSeqProperties
<1>4. \A j \in 1 .. (Len(s) - i) : b[j] = s[i + j]
  BY <1>1, SubSeqProperties
<1>5. RemoveAt(s, i) = a \o b  BY DEF RemoveAt
<1> HIDE DEF a, b
<1>6. a \o b \in Seq(S) /\ Len(a \o b) = Len(s) - 1
  BY <1>1, <1>2, <1>3, ConcatProperties
<1>7. \A j \in 1 .. (Len(s) - 1) : (a \o b)[j] = IF j <= i - 1 THEN a[j] ELSE b[j - (i - 1)]
  BY <1>1, <1>2, <1>3, ConcatProperties
<1>8. ASSUME NEW j \in 1 .. (Len(s) - 1)
      PROVE  (a \o b)[j] = IF j < i THEN s[j] ELSE s[j + 1]
  <2>1. CASE j < i
    <3>1. j \in 1 .. (i - 1) /\ j <= i - 1  BY <1>1, <2>1
    <3>2. (a \o b)[j] = a[j]  BY <1>7, <3>1
    <3>3. a[j] = s[j]  BY <1>2, <3>1
    <3> QED  BY <2>1, <3>2, <3>3
  <2>2. CASE ~(j < i)
    <3>1. j - (i - 1) \in 1 .. (Len(s) - i) /\ i + (j - (i - 1)) = j + 1
      BY <1>1, <2>2
    <3>2. b[j - (i - 1)] = s[j + 1]  BY <1>4, <3>1
    <3>3. ~(j <= i - 1)  BY <1>1, <2>2
    <3>4. (a \o b)[j] = b[j - (i - 1)]  BY <1>7, <3>3
    <3> QED  BY <2>2, <3>2, <3>4
  <2> QED  BY <2>1, <2>2
<1> QED  BY <1>5, <1>6, <1>8

\* Unless the newest call was the one answered, it is still the newest; if it
\* was, and nothing overtook it, no call is left.
LEMMA NewestStays ==
    ASSUME NEW S, NEW s \in Seq(S), NEW i \in DOMAIN s
    PROVE  /\ ~Newest(i, s) => /\ RemoveAt(s, i) # <<>>
                               /\ RemoveAt(s, i)[Len(RemoveAt(s, i))] = s[Len(s)]
           /\ Newest(i, s) /\ ~(i > 1) => RemoveAt(s, i) = <<>>
<1> DEFINE r == RemoveAt(s, i)
<1>1. r \in Seq(S) /\ Len(r) = Len(s) - 1
  BY RemoveAtFacts
<1>2. \A j \in 1 .. (Len(s) - 1) : r[j] = IF j < i THEN s[j] ELSE s[j + 1]
  BY RemoveAtFacts
<1>3. i \in 1 .. Len(s) /\ Len(s) \in Nat  OBVIOUS
<1> HIDE DEF r
<1>4. ASSUME ~Newest(i, s) PROVE r # <<>> /\ r[Len(r)] = s[Len(s)]
  <2>1. Len(s) - 1 \in 1 .. (Len(s) - 1) /\ ~(Len(s) - 1 < i)
    BY <1>3, <1>4 DEF Newest
  <2> QED  BY <1>1, <1>2, <1>3, <2>1
<1>5. ASSUME Newest(i, s), ~(i > 1) PROVE r = <<>>
  BY <1>1, <1>3, <1>5 DEF Newest
<1> QED  BY <1>4, <1>5 DEF r
-----------------------------------------------------------------------------
(***************************************************************************)
(* The inductive invariant: what the newest call in flight is for.         *)
(***************************************************************************)
LatestOnItsWay ==
    excuse = "none" =>
        IF pending = <<>> THEN shown = [query |-> Asked, asOf |-> db]
        ELSE /\ pending[Len(pending)].query = Asked
             /\ pending[Len(pending)].since = db

StatsOnTheirWay ==
    statsExcuse = "none" =>
        IF statsPending = <<>> THEN stats = model
        ELSE statsPending[Len(statsPending)] = model

DInv ==
    /\ TypeOK
    /\ SpinnerHasACall
    /\ LatestOnItsWay
    /\ StatsOnTheirWay
    /\ ProgressIsTrue
\* Type of what the controls ask for.
LEMMA AskedType == TypeOK => Asked \in Query
BY DashboardAssumption DEF TypeOK, Asked, Query, QueryFor

\* A call of loadLatest leaves the newest call for what the controls ask, or an
\* excuse.
LEMMA LoadLatestStep ==
    ASSUME TypeOK, NEW q \in Query, NEW v \in Nat, NEW after \in BOOLEAN,
           NEW why \in Excuses, why = "none" => q = Asked',
           v = db', LoadLatest(q, v, after, why)
    PROVE  /\ pending' \in Seq(LatestCall)
           /\ loading' \in BOOLEAN
           /\ excuse' \in Excuses
           /\ UNCHANGED <<totalPages, shown>>
           /\ SpinnerHasACall'
           /\ LatestOnItsWay'
<1> DEFINE c == [query |-> q, since |-> v, statsAfter |-> after]
<1>1. c \in LatestCall  BY DEF LatestCall
<1>2. pending \in Seq(LatestCall)  BY DEF TypeOK
<1>3. pending' = Append(pending, c)  BY DEF LoadLatest
<1>4. c.query = q /\ c.since = v  OBVIOUS
<1> HIDE DEF c
<1>5. /\ pending' \in Seq(LatestCall)
      /\ pending' # <<>>
      /\ pending'[Len(pending')] = c
  BY <1>1, <1>2, <1>3, AppendProperties
<1>6. loading' \in BOOLEAN /\ excuse' \in Excuses /\ UNCHANGED <<totalPages, shown>>
  BY DEF LoadLatest
<1>7. excuse' = "none" => q = Asked'  BY DEF LoadLatest
<1> QED  BY <1>4, <1>5, <1>6, <1>7 DEF SpinnerHasACall, LatestOnItsWay

\* The same of loadStats.
LEMMA LoadStatsStep ==
    ASSUME TypeOK, NEW m \in Model, NEW why \in Excuses, why = "none" => m = model',
           LoadStats(m, why)
    PROVE  /\ statsPending' \in Seq(Model)
           /\ statsExcuse' \in Excuses
           /\ stats' \in Model \cup {"none"}
           /\ StatsOnTheirWay'
<1>1. statsPending \in Seq(Model)  BY DEF TypeOK
<1>4. statsPending' = Append(statsPending, m)  BY DEF LoadStats
<1>2. /\ statsPending' \in Seq(Model)
      /\ statsPending' # <<>>
      /\ statsPending'[Len(statsPending')] = m
  BY <1>1, <1>4, AppendProperties
<1>3. /\ statsExcuse' \in Excuses /\ stats' \in Model \cup {"none"}
      /\ statsExcuse' = "none" => m = model'
  BY DEF LoadStats, TypeOK
<1> QED  BY <1>2, <1>3 DEF StatsOnTheirWay

\* The effect on model, activeFilters and sortDir.
LEMMA ReloadStep ==
    ASSUME DInv, Reload, UNCHANGED <<genMsg, ops, db>>, clicks' \in 0 .. MaxClicks,
           model' \in Model, sortDir' \in SortDir, sameObject' \in BOOLEAN,
           draftFilters' \in Filters, activeFilters' \in Filters
    PROVE  DInv'
<1> DEFINE q == QueryFor(model', 1, activeFilters', sortDir')
<1>1. TypeOK  BY DEF DInv
<1>2. q \in Query  BY DEF Query, QueryFor
<1>3. page' = 1 /\ LoadLatest(q, db, FALSE, "none") /\ LoadStats(model', "none")
  BY DEF Reload
<1>4. db \in Nat /\ db = db'  BY <1>1 DEF TypeOK
<1>9. q = Asked'  BY <1>3 DEF Asked
<1>10. "none" \in Excuses  BY DEF Excuses
<1> HIDE DEF q
<1>5. /\ pending' \in Seq(LatestCall) /\ loading' \in BOOLEAN /\ excuse' \in Excuses
      /\ UNCHANGED <<totalPages, shown>>
      /\ SpinnerHasACall' /\ LatestOnItsWay'
  BY <1>1, <1>2, <1>3, <1>4, <1>9, <1>10, LoadLatestStep
<1>6. /\ statsPending' \in Seq(Model) /\ statsExcuse' \in Excuses
      /\ stats' \in Model \cup {"none"} /\ StatsOnTheirWay'
  BY <1>1, <1>3, <1>10, LoadStatsStep
<1>7. TypeOK'
  BY <1>1, <1>3, <1>5, <1>6, DashboardAssumption DEF TypeOK
<1>8. ProgressIsTrue'  BY DEF DInv, ProgressIsTrue
<1> QED  BY <1>5, <1>6, <1>7, <1>8 DEF DInv
\* Initially the calls of the mount are in flight.
LEMMA InitDInv == Init => DInv
<1> SUFFICES ASSUME Init PROVE DInv  OBVIOUS
<1>1. Mounts \in 1 .. 2 /\ MaxPages \in Nat \ {0} /\ NoFilters \in Filters
      /\ MaxClicks \in Nat
  BY DashboardAssumption
<1>a. /\ model = "NORMAL" /\ page = 1 /\ sortDir = "desc"
      /\ activeFilters = NoFilters /\ draftFilters = NoFilters
  BY DEF Init
<1>b. model \in Model /\ page \in 1 .. MaxPages /\ page \in Nat \ {0} /\ sortDir \in SortDir
  BY <1>1, <1>a DEF Model, SortDir
<1>2. Asked \in Query  BY <1>1, <1>a, <1>b DEF Asked, Query, QueryFor
<1> DEFINE c == [query |-> Asked, since |-> 0, statsAfter |-> FALSE]
<1>3. c \in LatestCall  BY <1>2 DEF LatestCall
<1>4. c.query = Asked /\ c.since = 0  OBVIOUS
<1>5. pending = [i \in 1 .. Mounts |-> c]  BY DEF Init
<1> HIDE DEF c
<1>6. /\ pending \in Seq(LatestCall) /\ Len(pending) = Mounts
      /\ pending # <<>> /\ pending[Len(pending)] = c
  BY <1>1, <1>3, <1>5
<1>7. statsPending = [i \in 1 .. Mounts |-> "NORMAL"]  BY DEF Init
<1>8. /\ statsPending \in Seq(Model) /\ Len(statsPending) = Mounts
      /\ statsPending # <<>> /\ statsPending[Len(statsPending)] = "NORMAL"
  BY <1>1, <1>7 DEF Model
<1>c. /\ sameObject \in BOOLEAN /\ loading \in BOOLEAN
      /\ totalPages \in 1 .. MaxPages /\ shown = Nothing
      /\ stats \in Model \cup {"none"} /\ db \in Nat
      /\ excuse \in Excuses /\ statsExcuse \in Excuses
      /\ clicks \in 0 .. MaxClicks
  <2>1. /\ sameObject = FALSE /\ loading = TRUE /\ totalPages = 1 /\ shown = Nothing
        /\ stats = "none" /\ db = 0 /\ excuse = "none" /\ statsExcuse = "none"
        /\ clicks = 0
    BY DEF Init
  <2>2. totalPages \in 1 .. MaxPages  BY <1>1, <2>1
  <2>3. clicks \in 0 .. MaxClicks  BY <1>1, <2>1
  <2>4. excuse \in Excuses /\ statsExcuse \in Excuses  BY <2>1 DEF Excuses
  <2>5. db \in Nat /\ stats \in Model \cup {"none"}  BY <2>1
  <2> QED  BY <2>1, <2>2, <2>3, <2>4, <2>5
<1>d. ops \in Seq(OpCall) /\ genMsg \in Messages
  <2>1. ops = <<>> /\ genMsg = ""  BY DEF Init
  <2>2. <<>> \in Seq(OpCall)  OBVIOUS
  <2>3. "" \in Messages  BY DEF Messages
  <2> QED  BY <2>1, <2>2, <2>3
<1>9. TypeOK
  BY <1>1, <1>a, <1>b, <1>c, <1>d, <1>6, <1>8 DEF TypeOK
<1>10. SpinnerHasACall /\ LatestOnItsWay /\ StatsOnTheirWay
  BY <1>4, <1>6, <1>8 DEF Init, SpinnerHasACall, LatestOnItsWay, StatsOnTheirWay
<1>11. ProgressIsTrue  BY DEF Init, ProgressIsTrue, Working
<1> QED  BY <1>9, <1>10, <1>11 DEF DInv

\* A click stays within the bound.
LEMMA ClickBound == TypeOK /\ Click => clicks' \in 0 .. MaxClicks
<1> SUFFICES ASSUME TypeOK, Click PROVE clicks' \in 0 .. MaxClicks  OBVIOUS
<1>1. clicks \in 0 .. MaxClicks  BY DEF TypeOK
<1>2. clicks < MaxClicks /\ clicks' = clicks + 1  BY DEF Click
<1>3. MaxClicks \in Nat  BY DashboardAssumption
<1> QED  BY <1>1, <1>2, <1>3

\* Clicks that reload through the effect.
LEMMA ReloadClicks ==
    ASSUME DInv, ToggleModel \/ ToggleSort \/ RunSearch \/ ClearSearch
    PROVE  DInv'
<1>1. TypeOK  BY DEF DInv
<1>2. clicks' \in 0 .. MaxClicks
  BY <1>1, DashboardAssumption DEF TypeOK, Click, ToggleModel, ToggleSort, RunSearch, ClearSearch
<1>3. CASE ToggleModel  BY <1>1, <1>2, <1>3, ReloadStep DEF ToggleModel, TypeOK
<1>4. CASE ToggleSort  BY <1>1, <1>2, <1>4, ReloadStep DEF ToggleSort, TypeOK
<1>5. CASE RunSearch  BY <1>1, <1>2, <1>5, ReloadStep DEF RunSearch, TypeOK
<1>6. CASE ClearSearch
  BY <1>1, <1>2, <1>6, ReloadStep, DashboardAssumption DEF ClearSearch, TypeOK
<1> QED  BY <1>3, <1>4, <1>5, <1>6

\* Clicks that load one page.
LEMMA PageClicks ==
    ASSUME DInv, Refresh \/ \E value \in 1 .. MaxPages : OnPage(value)
    PROVE  DInv'
<1>1. TypeOK  BY DEF DInv
<1>2. PICK q \in Query : LoadLatest(q, db, FALSE, "none") /\ q = Asked'
  <2>1. CASE Refresh  BY <1>1, <2>1, AskedType DEF Refresh, Asked, controls
  <2>2. ASSUME NEW value \in 1 .. MaxPages, OnPage(value)
        PROVE  \E q \in Query : LoadLatest(q, db, FALSE, "none") /\ q = Asked'
    <3>1. QueryFor(model, value, activeFilters, sortDir) \in Query
      BY <1>1, DashboardAssumption DEF TypeOK, Query, QueryFor
    <3>2. QueryFor(model, value, activeFilters, sortDir) = Asked'
      BY <2>2 DEF OnPage, Asked
    <3> QED  BY <2>2, <3>1, <3>2 DEF OnPage
  <2> QED  BY <2>1, <2>2
<1>3. /\ clicks' \in 0 .. MaxClicks /\ page' \in 1 .. MaxPages
      /\ UNCHANGED <<model, sortDir, draftFilters, activeFilters, sameObject, chip, genMsg, ops, db>>
  <2>1. CASE Refresh
    BY <1>1, <2>1, DashboardAssumption DEF TypeOK, Click, Refresh, controls
  <2>2. ASSUME NEW value \in 1 .. MaxPages, OnPage(value)
        PROVE  /\ clicks' \in 0 .. MaxClicks /\ page' \in 1 .. MaxPages
               /\ UNCHANGED <<model, sortDir, draftFilters, activeFilters, sameObject,
                              chip, genMsg, ops, db>>
    BY <1>1, <2>2, DashboardAssumption DEF TypeOK, Click, OnPage
  <2> QED  BY <2>1, <2>2
<1>4. db \in Nat /\ db = db'  BY <1>1, <1>3 DEF TypeOK
<1>5. /\ pending' \in Seq(LatestCall) /\ loading' \in BOOLEAN /\ excuse' \in Excuses
      /\ UNCHANGED <<totalPages, shown>>
      /\ SpinnerHasACall' /\ LatestOnItsWay'
  <2>1. "none" \in Excuses  BY DEF Excuses
  <2> QED  BY <1>1, <1>2, <1>4, <2>1, LoadLatestStep
<1>6. TypeOK'  BY <1>1, <1>3, <1>5 DEF TypeOK, chip
<1>7. StatsOnTheirWay' /\ ProgressIsTrue'
  BY <1>3 DEF DInv, StatsOnTheirWay, ProgressIsTrue, chip
<1> QED  BY <1>5, <1>6, <1>7 DEF DInv

\* Typing, and a Search that changes only the page.
LEMMA QuietClicks ==
    ASSUME DInv, SetFilter \/ RunSearchAgain
    PROVE  DInv'
<1>1. TypeOK  BY DEF DInv
<1>2. /\ clicks' \in 0 .. MaxClicks /\ page' \in 1 .. MaxPages
      /\ draftFilters' \in Filters /\ sameObject' \in BOOLEAN /\ excuse' \in Excuses
      /\ excuse' = "none" => excuse = "none" /\ page' = page
      /\ UNCHANGED <<model, sortDir, activeFilters, loading, totalPages, shown, pending,
                     chip, genMsg, ops, db>>
  <2>1. CASE SetFilter
    BY <1>1, <2>1 DEF TypeOK, SetFilter, table
  <2>2. CASE RunSearchAgain
    <3>1. excuse' = (IF page = 1 THEN excuse ELSE "search again") /\ page' = 1
      BY <2>2 DEF RunSearchAgain
    <3>2. clicks' \in 0 .. MaxClicks  BY <1>1, <2>2, ClickBound DEF RunSearchAgain
    <3>5. 1 \in 1 .. MaxPages  BY DashboardAssumption
    <3>3. excuse' \in Excuses /\ (excuse' = "none" => excuse = "none" /\ page' = page)
      BY <1>1, <3>1 DEF TypeOK, Excuses
    <3>4. /\ draftFilters' \in Filters /\ sameObject' \in BOOLEAN
          /\ UNCHANGED <<model, sortDir, activeFilters, loading, totalPages, shown, pending,
                         chip, genMsg, ops, db>>
      BY <1>1, <2>2 DEF TypeOK, RunSearchAgain
    <3> QED  BY <3>1, <3>2, <3>3, <3>4, <3>5
  <2> QED  BY <2>1, <2>2
<1>3. TypeOK'  BY <1>1, <1>2 DEF TypeOK, chip
<1>4. excuse' = "none" => Asked' = Asked  BY <1>2 DEF Asked
<1>5. SpinnerHasACall' /\ LatestOnItsWay'
  BY <1>2, <1>4 DEF DInv, SpinnerHasACall, LatestOnItsWay
<1>6. StatsOnTheirWay' /\ ProgressIsTrue'
  BY <1>2 DEF DInv, StatsOnTheirWay, ProgressIsTrue, chip
<1> QED  BY <1>3, <1>5, <1>6 DEF DInv
\* The click on Generate or Clear.
LEMMA StartOpStep ==
    ASSUME DInv, NEW op \in Ops, StartOp(op)
    PROVE  DInv'
<1>1. TypeOK  BY DEF DInv
<1> DEFINE c == [op |-> op, model |-> model, filters |-> activeFilters, sort |-> sortDir]
<1>2. c \in OpCall /\ c.op = op  BY <1>1 DEF TypeOK, OpCall
<1>3. ops' = Append(ops, c) /\ genMsg' = Working(op) /\ UNCHANGED <<controls, table, chip, db>>
  BY DEF StartOp
<1>4. ops \in Seq(OpCall)  BY <1>1 DEF TypeOK
<1> HIDE DEF c
<1>5. ops' \in Seq(OpCall) /\ Len(ops) + 1 \in DOMAIN ops' /\ ops'[Len(ops) + 1] = c
  BY <1>2, <1>3, <1>4, AppendProperties
<1>6. clicks' \in 0 .. MaxClicks  BY <1>1, ClickBound DEF StartOp
<1>7. genMsg' \in Messages  BY <1>3 DEF Messages
<1>8. TypeOK'  BY <1>1, <1>3, <1>5, <1>6, <1>7 DEF TypeOK, controls, table, chip
<1>9. \A o \in Ops : genMsg' = Working(o) => o = op  BY <1>3 DEF Working, Ops
<1>10. ProgressIsTrue'  BY <1>2, <1>5, <1>9 DEF ProgressIsTrue
<1>11. SpinnerHasACall' /\ LatestOnItsWay' /\ StatsOnTheirWay'
  BY <1>3 DEF DInv, SpinnerHasACall, LatestOnItsWay, StatsOnTheirWay, Asked, controls, table, chip
<1> QED  BY <1>8, <1>10, <1>11 DEF DInv

\* loadStats after a reload that an operation awaited.
LEMMA ThenStatsStep ==
    ASSUME DInv, NEW call \in LatestCall, ThenStats(call), UNCHANGED model
    PROVE  /\ statsPending' \in Seq(Model)
           /\ statsExcuse' \in Excuses
           /\ stats' \in Model \cup {"none"}
           /\ StatsOnTheirWay'
<1>1. TypeOK  BY DEF DInv
<1>2. CASE call.statsAfter
  <2>1. call.query.model \in Model  BY DEF LatestCall, Query
  <2>2. LET why == OldControls(call.query.model = model)
        IN  /\ LoadStats(call.query.model, why) /\ why \in Excuses
            /\ why = "none" => call.query.model = model'
    BY <1>2 DEF ThenStats, OldControls, Excuses
  <2> QED  BY <1>1, <2>1, <2>2, LoadStatsStep
<1>3. CASE ~call.statsAfter
  BY <1>1, <1>3 DEF ThenStats, chip, TypeOK, DInv, StatsOnTheirWay
<1> QED  BY <1>2, <1>3

\* An answer to fetchLatest, or its failure.
LEMMA LatestStep ==
    ASSUME DInv, NEW i \in DOMAIN pending, LatestAnswered(i)
    PROVE  DInv'
<1>1. TypeOK  BY DEF DInv
<1>2. pending \in Seq(LatestCall) /\ i \in 1 .. Len(pending) /\ Len(pending) \in Nat
  BY <1>1 DEF TypeOK
<1>3. pending[i] \in LatestCall  BY <1>2
<1>4. pending' = RemoveAt(pending, i) /\ loading' = FALSE
  BY DEF LatestAnswered, AnswerLatest, LatestFails
<1>5. UNCHANGED <<controls, genMsg, ops, db, clicks>> /\ ThenStats(pending[i])
  BY DEF LatestAnswered, AnswerLatest, LatestFails
<1>6. pending' \in Seq(LatestCall)  BY <1>2, <1>4, RemoveAtFacts
<1>7. /\ statsPending' \in Seq(Model) /\ statsExcuse' \in Excuses
      /\ stats' \in Model \cup {"none"} /\ StatsOnTheirWay'
  BY <1>3, <1>5, ThenStatsStep DEF controls
<1>8. /\ shown' = Nothing \/ shown' \in [query : Query, asOf : Nat]
      /\ totalPages' \in 1 .. MaxPages /\ excuse' \in Excuses
  <2>1. CASE AnswerLatest(i)
    <3>1. PICK v \in pending[i].since .. db :
             shown' = [query |-> pending[i].query, asOf |-> v]
      BY <2>1 DEF AnswerLatest
    <3>2. pending[i].since \in Nat /\ pending[i].query \in Query /\ db \in Nat
      BY <1>1, <1>3 DEF LatestCall, TypeOK
    <3>3. v \in Nat  BY <3>2
    <3> QED  BY <1>1, <2>1, <3>1, <3>2, <3>3 DEF AnswerLatest, TypeOK, Excuses
  <2>2. CASE LatestFails(i)  BY <1>1, <2>2 DEF LatestFails, TypeOK, Excuses
  <2> QED  BY <2>1, <2>2 DEF LatestAnswered
<1>9. TypeOK'  BY <1>1, <1>4, <1>5, <1>6, <1>7, <1>8 DEF TypeOK, controls
<1>10. LatestOnItsWay'
  <2> SUFFICES ASSUME excuse' = "none" PROVE LatestOnItsWay'  BY DEF LatestOnItsWay
  <2>1. excuse = "none" /\ Asked' = Asked /\ db' = db
    BY <1>5 DEF LatestAnswered, AnswerLatest, LatestFails, controls, Asked
  <2>2. /\ pending[Len(pending)].query = Asked
        /\ pending[Len(pending)].since = db
    BY <1>2, <2>1 DEF DInv, LatestOnItsWay
  <2>3. CASE ~Newest(i, pending)
    <3>1. pending' # <<>> /\ pending'[Len(pending')] = pending[Len(pending)]
      BY <1>2, <1>4, <2>3, NewestStays
    <3> QED  BY <2>1, <2>2, <3>1 DEF LatestOnItsWay
  <2>4. CASE Newest(i, pending)
    <3>1. AnswerLatest(i) /\ ~(i > 1)
      BY <2>4 DEF LatestAnswered, AnswerLatest, LatestFails
    <3>2. pending' = <<>>  BY <1>2, <1>4, <2>4, <3>1, NewestStays
    <3>3. PICK v \in pending[i].since .. db :
             shown' = [query |-> pending[i].query, asOf |-> v]
      BY <3>1 DEF AnswerLatest
    <3>4. pending[i].query = Asked /\ pending[i].since = db
      BY <2>2, <2>4 DEF Newest
    <3>5. db \in Nat  BY <1>1 DEF TypeOK
    <3>6. v = db  BY <3>4, <3>5
    <3> QED  BY <2>1, <3>2, <3>3, <3>4, <3>6 DEF LatestOnItsWay
  <2> QED  BY <2>3, <2>4
<1>11. SpinnerHasACall' /\ ProgressIsTrue'
  BY <1>4, <1>5 DEF DInv, SpinnerHasACall, ProgressIsTrue
<1> QED  BY <1>7, <1>9, <1>10, <1>11 DEF DInv

\* An answer to fetchStats, or its failure.
LEMMA StatsStep ==
    ASSUME DInv, NEW i \in DOMAIN statsPending, StatsAnswered(i)
    PROVE  DInv'
<1>1. TypeOK  BY DEF DInv
<1>2. /\ statsPending \in Seq(Model) /\ i \in 1 .. Len(statsPending)
      /\ Len(statsPending) \in Nat
  BY <1>1 DEF TypeOK
<1>3. statsPending[i] \in Model  BY <1>2
<1>4. /\ statsPending' = RemoveAt(statsPending, i)
      /\ UNCHANGED <<controls, table, genMsg, ops, db, clicks>>
  BY DEF StatsAnswered, AnswerStats, StatsFail
<1>5. statsPending' \in Seq(Model)  BY <1>2, <1>4, RemoveAtFacts
<1>6. stats' \in Model \cup {"none"} /\ statsExcuse' \in Excuses
  BY <1>1, <1>3 DEF StatsAnswered, AnswerStats, StatsFail, TypeOK, Excuses
<1>7. TypeOK'  BY <1>1, <1>4, <1>5, <1>6 DEF TypeOK, controls, table
<1>8. StatsOnTheirWay'
  <2> SUFFICES ASSUME statsExcuse' = "none" PROVE StatsOnTheirWay'  BY DEF StatsOnTheirWay
  <2>1. statsExcuse = "none" /\ model' = model
    BY <1>4 DEF StatsAnswered, AnswerStats, StatsFail, controls
  <2>2. statsPending[Len(statsPending)] = model
    BY <1>2, <2>1 DEF DInv, StatsOnTheirWay
  <2>3. CASE ~Newest(i, statsPending)
    <3>1. /\ statsPending' # <<>>
          /\ statsPending'[Len(statsPending')] = statsPending[Len(statsPending)]
      BY <1>2, <1>4, <2>3, NewestStays
    <3> QED  BY <2>1, <2>2, <3>1 DEF StatsOnTheirWay
  <2>4. CASE Newest(i, statsPending)
    <3>1. AnswerStats(i) /\ ~(i > 1)
      BY <2>4 DEF StatsAnswered, AnswerStats, StatsFail
    <3>2. statsPending' = <<>>  BY <1>2, <1>4, <2>4, <3>1, NewestStays
    <3>3. stats' = model  BY <2>2, <2>4, <3>1 DEF AnswerStats, Newest
    <3> QED  BY <2>1, <3>2, <3>3 DEF StatsOnTheirWay
  <2> QED  BY <2>3, <2>4
<1>9. SpinnerHasACall' /\ LatestOnItsWay' /\ ProgressIsTrue'
  BY <1>4 DEF DInv, SpinnerHasACall, LatestOnItsWay, ProgressIsTrue, Asked, controls, table
<1> QED  BY <1>7, <1>8, <1>9 DEF DInv

\* The answer to generateData or clearData, or its failure.
LEMMA OpStep ==
    ASSUME DInv, NEW i \in DOMAIN ops, OpAnswered(i)
    PROVE  DInv'
<1>1. TypeOK  BY DEF DInv
<1>2. ops \in Seq(OpCall) /\ db \in Nat  BY <1>1 DEF TypeOK
<1>3. ops[i] \in OpCall  BY <1>2
<1>4. ops' = RemoveAt(ops, i) /\ UNCHANGED <<chip, clicks>>
  BY DEF OpAnswered, OpSucceeds, OpFails
<1>5. ops' \in Seq(OpCall)  BY <1>2, <1>4, RemoveAtFacts
<1>6. genMsg' \in Messages /\ \A o \in Ops : genMsg' # Working(o)
  <2>1. ops[i].op \in Ops  BY <1>3 DEF OpCall
  <2>2. genMsg' \in {Done(ops[i].op), Failed(ops[i].op)}
    BY DEF OpAnswered, OpSucceeds, OpFails
  <2>3. genMsg' \in Messages
    <3>1. \A o \in Ops : Done(o) \in Messages /\ Failed(o) \in Messages  BY DEF Messages
    <3> QED  BY <2>1, <2>2, <3>1
  <2>4. genMsg' \in {"Generated", "Cleared", "Generation failed", "Clear failed"}
    BY <2>2 DEF Done, Failed
  <2>5. \A o \in Ops : Working(o) \in {"Generating", "Clearing"}  BY DEF Working
  <2> QED  BY <2>3, <2>4, <2>5
<1>7. ProgressIsTrue'  BY <1>6 DEF ProgressIsTrue
<1>8. CASE OpSucceeds(i)
  <2> DEFINE q == QueryFor(ops[i].model, 1, ops[i].filters, ops[i].sort)
  <2>1. q \in Query  BY <1>3 DEF OpCall, Query, QueryFor
  <2>2. /\ db' = db + 1 /\ page' = 1 /\ LoadLatest(q, db', TRUE, OldControls(q = Asked'))
        /\ UNCHANGED <<model, sortDir, draftFilters, activeFilters, sameObject>>
    BY <1>8 DEF OpSucceeds
  <2> HIDE DEF q
  <2>3. db' \in Nat  BY <1>2, <2>2
  <2>8. /\ OldControls(q = Asked') \in Excuses
        /\ OldControls(q = Asked') = "none" => q = Asked'
    BY DEF OldControls, Excuses
  <2>4. /\ pending' \in Seq(LatestCall) /\ loading' \in BOOLEAN /\ excuse' \in Excuses
        /\ UNCHANGED <<totalPages, shown>>
        /\ SpinnerHasACall' /\ LatestOnItsWay'
    BY <1>1, <2>1, <2>2, <2>3, <2>8, LoadLatestStep
  <2>5. page' \in 1 .. MaxPages  BY <2>2, DashboardAssumption
  <2>6. TypeOK'
    BY <1>1, <1>4, <1>5, <1>6, <2>2, <2>3, <2>4, <2>5 DEF TypeOK, chip
  <2>7. StatsOnTheirWay'  BY <1>4, <2>2 DEF DInv, StatsOnTheirWay, chip
  <2> QED  BY <1>7, <2>4, <2>6, <2>7 DEF DInv
<1>9. CASE OpFails(i)
  <2>1. /\ db' \in {db, db + 1} /\ excuse' = IF db' = db THEN excuse ELSE "failed"
        /\ UNCHANGED <<controls, loading, totalPages, shown, pending, chip, clicks>>
    BY <1>9 DEF OpFails
  <2>2. db' \in Nat /\ excuse' \in Excuses /\ (excuse' = "none" => excuse = "none" /\ db' = db)
    <3>1. db' \in Nat  BY <1>2, <2>1
    <3>2. excuse' \in Excuses  BY <1>1, <2>1 DEF TypeOK, Excuses
    <3>3. excuse' = "none" => excuse = "none" /\ db' = db  BY <2>1
    <3> QED  BY <3>1, <3>2, <3>3
  <2>3. TypeOK'  BY <1>1, <1>4, <1>5, <1>6, <2>1, <2>2 DEF TypeOK, controls, chip
  <2>4. SpinnerHasACall' /\ LatestOnItsWay' /\ StatsOnTheirWay'
    BY <2>1, <2>2 DEF DInv, SpinnerHasACall, LatestOnItsWay, StatsOnTheirWay, Asked, controls, chip
  <2> QED  BY <1>7, <2>3, <2>4 DEF DInv
<1> QED  BY <1>8, <1>9 DEF OpAnswered

\* The invariant is inductive.
THEOREM DashboardInvariant == Spec => []DInv
<1>1. DInv /\ [Next]_vars => DInv'
  <2> SUFFICES ASSUME DInv, [Next]_vars PROVE DInv'  OBVIOUS
  <2>1. CASE UNCHANGED vars
    BY <2>1 DEF DInv, TypeOK, SpinnerHasACall, LatestOnItsWay, StatsOnTheirWay,
                ProgressIsTrue, Asked, vars, controls, table, chip
  <2>2. CASE User
    BY <2>2, ReloadClicks, PageClicks, QuietClicks, StartOpStep DEF User
  <2>3. CASE \E i \in DOMAIN pending : LatestAnswered(i)  BY <2>3, LatestStep
  <2>4. CASE \E i \in DOMAIN statsPending : StatsAnswered(i)  BY <2>4, StatsStep
  <2>5. CASE \E i \in DOMAIN ops : OpAnswered(i)  BY <2>5, OpStep
  <2> QED  BY <2>1, <2>2, <2>3, <2>4, <2>5 DEF Next
<1> QED  BY <1>1, InitDInv, PTL DEF Spec

\* The state hooks keep their types.
THEOREM DashboardTypeCorrect == Spec => []TypeOK
<1>1. DInv => TypeOK  BY DEF DInv
<1> QED  BY <1>1, DashboardInvariant, PTL

\* loadLatest never leaves a spinner behind (the finally of Dashboard.tsx:72).
THEOREM SpinnerIsBacked == Spec => []SpinnerHasACall
<1>1. DInv => SpinnerHasACall  BY DEF DInv
<1> QED  BY <1>1, DashboardInvariant, PTL

\* The four exceptions are all there are: otherwise the rows are those the
\* controls ask for, and up to date.
THEOREM TableIsCurrent == Spec => []TableAnswersControls
<1>1. DInv => TableAnswersControls  BY DEF DInv, LatestOnItsWay, TableAnswersControls
<1> QED  BY <1>1, DashboardInvariant, PTL

\* The same of the statistics chip.
THEOREM ChipIsCurrent == Spec => []StatsAnswerModel
<1>1. DInv => StatsAnswerModel  BY DEF DInv, StatsOnTheirWay, StatsAnswerModel
<1> QED  BY <1>1, DashboardInvariant, PTL

\* A message of progress has a call behind it.
THEOREM ProgressIsBacked == Spec => []ProgressIsTrue
<1>1. DInv => ProgressIsTrue  BY DEF DInv
<1> QED  BY <1>1, DashboardInvariant, PTL

-----------------------------------------------------------------------------
(***************************************************************************)
(* DashboardPanels, which shares the model toggle and the clicks.          *)
(***************************************************************************)
\* A call at work is in flight, an interval runs for as long as the toggle is on
\* CQRS, and the benchmark that runs, or whose result is shown, is the last one
\* asked for.
PanelsAreBacked ==
    /\ historyLoading => historyPending # <<>>
    /\ timers = IF model = "CQRS" THEN 1 ELSE 0
    /\ benchCalls = IF benchRunning THEN {benchClicks} ELSE {}
    /\ bench \in {0, benchClicks}

\* The newest call is for the dialog's title; when it was answered, so are
\* the rows.
TitleIsAskedFor ==
    historyOpen /\ historyExcuse = "none" =>
        [imsi |-> selectedImsi, model |-> model] =
            IF historyPending = <<>> THEN historyShown ELSE historyPending[Len(historyPending)]

PanelsInv == PanelsTypeOK /\ PanelsAreBacked /\ TitleIsAskedFor /\ benchClicks <= clicks

LEMMA PanelsInitially ==
    ASSUME PanelsInit
    PROVE  PanelsInv
<1>1. PanelsTypeOK
    <2>1. /\ historyPending = <<>> /\ polls = <<>> /\ benchCalls = {}
          /\ outbox \in 0 .. MaxBacklog
        BY DEF PanelsInit
    <2>2. historyPending \in Seq(HistoryQuery) /\ polls \in Seq(SUBSET (0 .. MaxBacklog))
        BY <2>1
    <2>3. /\ 0 \in 0 .. MaxBacklog /\ 0 \in 0 .. MaxFailures /\ 0 \in 0 .. MaxClicks
        BY PanelsAssumption
    <2> QED BY <2>1, <2>2, <2>3 DEF PanelsInit, PanelsTypeOK, Model
<1>2. PanelsAreBacked /\ TitleIsAskedFor /\ benchClicks <= clicks
    BY DEF PanelsInit, PanelsAreBacked, TitleIsAskedFor
<1> QED BY <1>1, <1>2 DEF PanelsInv

\* What the answer to a call of the dialog leaves of the others.
LEMMA HistoryAnsweredStep ==
    ASSUME PanelsInv, NEW i \in DOMAIN historyPending, HistoryAnswered(i)
    PROVE  PanelsInv'
<1> DEFINE r == RemoveAt(historyPending, i)
           s == historyPending
<1>0. PanelsTypeOK /\ TitleIsAskedFor /\ PanelsAreBacked
    BY DEF PanelsInv
<1>1. s \in Seq(HistoryQuery) /\ i \in DOMAIN s /\ Len(s) \in Nat
    BY <1>0 DEF PanelsTypeOK
<1>2. /\ historyPending' = r /\ historyLoading' = FALSE
      /\ UNCHANGED <<model, historyOpen, selectedImsi, timers, polls, backlog, outbox, failures,
                     benchRunning, bench, benchCalls, benchClicks, clicks>>
    BY DEF HistoryAnswered, AnswerHistory, HistoryFails,
           RemoveAt, RemoveAt, poll, panel
<1>3. r \in Seq(HistoryQuery)
    BY <1>1, RemoveAtFacts
<1>4. TitleIsAskedFor'
    <2>1. CASE i = Len(s)
        <3> SUFFICES ASSUME historyExcuse' = "none"
                     PROVE  historyShown' = s[i] /\ historyExcuse = "none" /\ r = <<>>
            BY <1>0, <1>1, <1>2, <1>3, <2>1 DEF TitleIsAskedFor
        <3>1. historyShown' = s[i] /\ historyExcuse = "none" /\ ~(i > 1)
            BY <2>1 DEF HistoryAnswered, AnswerHistory, HistoryFails
        <3>2. r = <<>>
            BY <1>1, <2>1, <3>1, NewestStays DEF Newest
        <3> QED BY <3>1, <3>2
    <2>2. CASE i # Len(s)
        <3>1. r # <<>> /\ r[Len(r)] = s[Len(s)] /\ s # <<>>
            BY <1>1, <2>2, NewestStays DEF Newest
        <3>2. historyExcuse' = historyExcuse
            BY <1>1, <2>2 DEF HistoryAnswered, AnswerHistory, HistoryFails
        <3> QED BY <1>0, <1>2, <3>1, <3>2 DEF TitleIsAskedFor
    <2> QED BY <2>1, <2>2
<1>5. PanelsTypeOK'
    <2>1. historyShown' = historyShown \/ historyShown' \in HistoryQuery
        BY <1>1 DEF HistoryAnswered, AnswerHistory, HistoryFails
    <2>2. historyExcuse' \in {"none", "failed", "overtaken"}
        BY <1>0 DEF HistoryAnswered, AnswerHistory, HistoryFails, PanelsTypeOK
    <2> QED BY <1>0, <1>2, <1>3, <2>1, <2>2 DEF PanelsTypeOK
<1>6. PanelsAreBacked'
    BY <1>0, <1>2 DEF PanelsAreBacked
<1> QED BY <1>2, <1>4, <1>5, <1>6 DEF PanelsInv

\* Opening the dialog asks for its title; nothing else is clicked while it is
\* open.
LEMMA DialogStep ==
    ASSUME PanelsInv,
           CloseHistory \/ \E imsi \in Imsis : OpenHistory(imsi)
    PROVE  PanelsInv'
<1>1. /\ PanelsTypeOK /\ PanelsAreBacked /\ TitleIsAskedFor /\ benchClicks <= clicks
      /\ historyPending \in Seq(HistoryQuery) /\ model \in Model
      /\ clicks \in 0 .. MaxClicks /\ benchClicks \in 0 .. MaxClicks /\ MaxClicks \in Nat
    BY PanelsAssumption DEF PanelsInv, PanelsTypeOK
<1>2. CASE CloseHistory
    <2>1. /\ historyOpen' = FALSE
          /\ UNCHANGED <<model, selectedImsi, historyLoading, historyShown, historyPending,
                         historyExcuse, timers, polls, backlog, outbox, failures,
                         benchRunning, bench, benchCalls, benchClicks, clicks>>
        BY <1>2 DEF CloseHistory, poll, panel
    <2>2. PanelsTypeOK'
        BY <1>1, <2>1 DEF PanelsTypeOK
    <2> QED BY <1>1, <2>1, <2>2 DEF PanelsInv, PanelsAreBacked, TitleIsAskedFor
<1>3. ASSUME NEW imsi \in Imsis, OpenHistory(imsi)
      PROVE  PanelsInv'
    <2> DEFINE title == [imsi |-> imsi, model |-> model]
    <2>1. /\ selectedImsi' = imsi /\ historyOpen' = TRUE /\ historyLoading' = TRUE
          /\ historyPending' = Append(historyPending, title) /\ historyExcuse' = "none"
          /\ clicks < MaxClicks /\ clicks' = clicks + 1
          /\ UNCHANGED <<model, historyShown, timers, polls, backlog, outbox, failures,
                         benchRunning, bench, benchCalls, benchClicks>>
        BY <1>3 DEF OpenHistory, ClickOutside, poll, panel
    <2>2. title \in HistoryQuery
        BY <1>1 DEF HistoryQuery
    <2> HIDE DEF title
    <2>3. /\ historyPending' \in Seq(HistoryQuery) /\ historyPending' # <<>>
          /\ historyPending'[Len(historyPending')] = title
        BY <1>1, <2>1, <2>2
    <2>4. clicks' \in 0 .. MaxClicks /\ benchClicks' <= clicks'
        BY <1>1, <2>1
    <2>5. PanelsTypeOK'
        BY <1>1, <2>1, <2>3, <2>4 DEF PanelsTypeOK
    <2>6. TitleIsAskedFor'
        BY <2>1, <2>3 DEF TitleIsAskedFor, title
    <2>7. PanelsAreBacked'
        BY <1>1, <2>1, <2>3 DEF PanelsAreBacked
    <2> QED BY <2>4, <2>5, <2>6, <2>7 DEF PanelsInv
<1> QED BY <1>2, <1>3

\* The toggle starts an interval or ends the one there is.
LEMMA ToggleStep ==
    ASSUME PanelsInv, ToggleWithPoll
    PROVE  PanelsInv'
<1>1. /\ PanelsTypeOK /\ PanelsAreBacked /\ benchClicks <= clicks /\ model \in Model
      /\ clicks \in 0 .. MaxClicks /\ benchClicks \in 0 .. MaxClicks /\ MaxClicks \in Nat
      /\ MaxBacklog \in Nat
    BY PanelsAssumption DEF PanelsInv, PanelsTypeOK
<1>2. /\ ~historyOpen /\ clicks < MaxClicks /\ clicks' = clicks + 1
      /\ model' \in Model \ {model} /\ PollEffect
      /\ UNCHANGED <<historyOpen, selectedImsi, historyLoading, historyShown, historyPending,
                     historyExcuse, polls, outbox, failures,
                     benchRunning, bench, benchCalls, benchClicks>>
    BY DEF ToggleWithPoll, ClickOutside, dialog, panel
<1>3. timers' = (IF model' = "CQRS" THEN 1 ELSE 0) /\ backlog' \in 0 .. MaxBacklog
    BY <1>1, <1>2 DEF PollEffect, PanelsTypeOK, PanelsAreBacked, Model
<1>4. clicks' \in 0 .. MaxClicks /\ benchClicks' <= clicks'
    BY <1>1, <1>2
<1>5. PanelsTypeOK'
    BY <1>1, <1>2, <1>3, <1>4 DEF PanelsTypeOK
<1> QED BY <1>1, <1>2, <1>3, <1>4, <1>5 DEF PanelsInv, PanelsAreBacked, TitleIsAskedFor

\* The polls and the server touch neither the dialog nor the panel.
LEMMA PollStep ==
    ASSUME PanelsInv,
           Tick \/ OutboxChanges \/ \E i \in DOMAIN polls : PollAnswered(i)
    PROVE  PanelsInv'
<1> DEFINE Lengths == SUBSET (0 .. MaxBacklog)
<1>1. /\ PanelsTypeOK /\ PanelsAreBacked /\ TitleIsAskedFor /\ benchClicks <= clicks
      /\ polls \in Seq(Lengths) /\ outbox \in 0 .. MaxBacklog /\ backlog \in 0 .. MaxBacklog
      /\ failures \in 0 .. MaxFailures /\ MaxFailures \in Nat
    BY PanelsAssumption DEF PanelsInv, PanelsTypeOK
<1>2. /\ UNCHANGED <<model, historyOpen, selectedImsi, historyLoading, historyShown, historyPending,
                     historyExcuse, timers, benchRunning, bench, benchCalls, benchClicks, clicks>>
    BY DEF Tick, OutboxChanges, PollAnswered, AnswerPoll,
           PollFails, dialog, panel
<1> DEFINE Typed == /\ polls' \in Seq(Lengths) /\ outbox' \in 0 .. MaxBacklog
                    /\ backlog' \in 0 .. MaxBacklog /\ failures' \in 0 .. MaxFailures
<1>3. Typed
    <2>1. CASE Tick
        <3>1. {outbox} \in Lengths
            BY <1>1
        <3> QED BY <1>1, <2>1, <3>1 DEF Tick
    <2>2. CASE OutboxChanges
        <3>1. /\ outbox' \in 0 .. MaxBacklog /\ UNCHANGED <<backlog, failures>>
              /\ polls' = [i \in DOMAIN polls |-> polls[i] \cup {outbox'}]
            BY <2>2 DEF OutboxChanges
        <3>2. DOMAIN polls = 1 .. Len(polls) /\ Len(polls) \in Nat
            BY <1>1
        <3>3. \A i \in 1 .. Len(polls) : polls[i] \cup {outbox'} \in Lengths
            BY <1>1, <3>1, <3>2
        <3> HIDE DEF Lengths
        <3>4. polls' \in Seq(Lengths)
            BY <3>1, <3>2, <3>3
        <3> QED BY <1>1, <3>1, <3>4
    <2>3. ASSUME NEW i \in DOMAIN polls, PollAnswered(i)
          PROVE  Typed
        <3>1. polls' = RemoveAt(polls, i) /\ outbox' = outbox
            BY <2>3 DEF PollAnswered, AnswerPoll, PollFails,
                        RemoveAt, RemoveAt
        <3>2. polls[i] \in Lengths
            BY <1>1
        <3>3. backlog' \in 0 .. MaxBacklog /\ failures' \in 0 .. MaxFailures
            BY <1>1, <2>3, <3>2 DEF PollAnswered, AnswerPoll, PollFails
        <3> HIDE DEF Lengths
        <3> QED BY <1>1, <3>1, <3>3, RemoveAtFacts
    <2> QED BY <2>1, <2>2, <2>3
<1>4. PanelsTypeOK'
    BY <1>1, <1>2, <1>3 DEF PanelsTypeOK
<1> QED BY <1>1, <1>2, <1>4 DEF PanelsInv, PanelsAreBacked, TitleIsAskedFor

\* One benchmark at a time.
LEMMA BenchmarkStep ==
    ASSUME PanelsInv,
           OnBenchmark \/ \E n \in benchCalls : BenchmarkEnds(n)
    PROVE  PanelsInv'
<1>1. /\ PanelsTypeOK /\ PanelsAreBacked /\ TitleIsAskedFor /\ benchClicks <= clicks
      /\ clicks \in 0 .. MaxClicks /\ benchClicks \in 0 .. MaxClicks /\ MaxClicks \in Nat
    BY PanelsAssumption DEF PanelsInv, PanelsTypeOK
<1>2. UNCHANGED <<model, historyOpen, selectedImsi, historyLoading, historyShown, historyPending,
                  historyExcuse, timers, polls, backlog, outbox, failures>>
    BY DEF OnBenchmark, BenchmarkEnds, BenchmarkAnswers,
           BenchmarkFails, dialog, poll
<1> DEFINE Backed ==
        /\ benchRunning' \in BOOLEAN /\ bench' \in {0, benchClicks'}
        /\ benchCalls' = IF benchRunning' THEN {benchClicks'} ELSE {}
        /\ clicks' \in 0 .. MaxClicks /\ benchClicks' \in 0 .. MaxClicks /\ benchClicks' <= clicks'
<1>3. Backed
    <2>1. CASE OnBenchmark
        <3>1. /\ benchCalls = {} /\ benchRunning' = TRUE /\ bench' = 0
              /\ benchClicks' = benchClicks + 1 /\ benchCalls' = benchCalls \cup {benchClicks'}
              /\ clicks < MaxClicks /\ clicks' = clicks + 1
            BY <1>1, <2>1 DEF OnBenchmark, ClickOutside, PanelsAreBacked
        <3> QED BY <1>1, <3>1
    <2>2. ASSUME NEW n \in benchCalls, BenchmarkEnds(n)
          PROVE  Backed
        <3>1. benchRunning = TRUE /\ n = benchClicks /\ benchCalls = {n}
            BY <1>1, <2>2 DEF PanelsAreBacked, PanelsTypeOK
        <3>2. /\ benchRunning' = FALSE /\ benchCalls' = benchCalls \ {n}
              /\ bench' \in {n, bench} /\ UNCHANGED <<benchClicks, clicks>>
            BY <2>2 DEF BenchmarkEnds, BenchmarkAnswers, BenchmarkFails
        <3>3. bench \in {0, benchClicks}
            BY <1>1 DEF PanelsAreBacked
        <3> QED BY <1>1, <3>1, <3>2, <3>3
    <2> QED BY <2>1, <2>2
<1>4. benchCalls' \in SUBSET (1 .. MaxClicks) /\ bench' \in 0 .. MaxClicks
    <2>1. benchRunning' => benchClicks' # 0
        BY <1>1, <1>3 DEF OnBenchmark, BenchmarkEnds, BenchmarkAnswers,
                          BenchmarkFails
    <2> QED BY <1>1, <1>3, <2>1
<1>5. PanelsTypeOK'
    BY <1>1, <1>2, <1>3, <1>4 DEF PanelsTypeOK
<1> QED BY <1>1, <1>2, <1>3, <1>5 DEF PanelsInv, PanelsAreBacked, TitleIsAskedFor

\* Panels in every state.
THEOREM PanelsInvariant == PanelsSpec => []PanelsInv
<1>1. PanelsInit => PanelsInv
    BY PanelsInitially
<1>2. PanelsInv /\ [PanelsNext]_panelsVars => PanelsInv'
    <2> SUFFICES ASSUME PanelsInv, [PanelsNext]_panelsVars PROVE PanelsInv'
        OBVIOUS
    <2>1. CASE UNCHANGED panelsVars
        BY <2>1 DEF PanelsInv, PanelsAreBacked, TitleIsAskedFor, PanelsTypeOK, panelsVars,
                    dialog, poll, panel
    <2> QED BY <2>1, ToggleStep, DialogStep, PollStep, BenchmarkStep, HistoryAnsweredStep
            DEF PanelsNext
<1> QED BY <1>1, <1>2, PTL DEF PanelsSpec

\* The variables have their types.
THEOREM PanelsTypeCorrect == PanelsSpec => []PanelsTypeOK
<1>1. PanelsInv => PanelsTypeOK
    BY DEF PanelsInv
<1> QED BY <1>1, PanelsInvariant, PTL

\* The rows in the dialog are those of its title once its call is answered.
THEOREM DialogShowsItsTitle == PanelsSpec => []HistoryIsOfItsTitle
<1>1. PanelsInv => HistoryIsOfItsTitle
    BY DEF PanelsInv, TitleIsAskedFor, HistoryIsOfItsTitle
<1> QED BY <1>1, PanelsInvariant, PTL

\* Spinners, intervals and results belong to the call or click at hand.
THEOREM PanelsBacked == PanelsSpec => []PanelsAreBacked
<1>1. PanelsInv => PanelsAreBacked
    BY DEF PanelsInv
<1> QED BY <1>1, PanelsInvariant, PTL
=============================================================================
