------------------------------- MODULE ReadApi -------------------------------
(***************************************************************************)
(* The reads of the event tables (EventQuery.page, the stores' stats, the  *)
(* GET endpoints) next to what writes them.  A page is two statements on   *)
(* two connections, a count and an OFFSET read, and so are the stats: the  *)
(* tables can change in between.  A client walks the pages of one query    *)
(* while the answers announce more, or asks for any page and size.         *)
(*                                                                         *)
(* A model's latest and history tables are those its reads come from:      *)
(* NORMAL writes both in one transaction, the projector in two statements. *)
(*                                                                         *)
(* Of the columns that a filter can name, the IMSI is a row's key and the  *)
(* others are one text, which a newer event of the IMSI replaces: a row    *)
(* can enter or leave what a filter finds.                                 *)
(***************************************************************************)
EXTENDS Integers, Sequences, FiniteSets, Functions

CONSTANTS
    Imsis,          \* as positive numbers, in their order as text
    Times,          \* values of updated_at
    Texts,          \* values of msisdn, rat, provider_name and country_name
    Filters,        \* what requests look for: the IMSIs and the texts that match
    Asked,          \* pages and sizes they ask for: any ints
    Sizes,          \* sizes of walks
    Width,          \* bits of an int, 32 in the code
    MaxRows,        \* bound: rows ever inserted
    MaxClears       \* bound: calls of clear

MaxInt == 2 ^ (Width - 1) - 1
Ints == (-MaxInt - 1) .. MaxInt

ASSUME ReadAssumption ==
    /\ Filters \subseteq [imsis : SUBSET Imsis, texts : SUBSET Texts]
    /\ Imsis \subseteq Nat \ {0} /\ Times \subseteq Nat
    /\ Width \in Nat \ {0} /\ MaxInt \in Nat
    /\ Asked \subseteq Ints \X Ints /\ Sizes \subseteq Ints \cap (Nat \ {0})
    /\ MaxRows \in 0 .. MaxInt /\ MaxClears \in Nat

Models == {"NORMAL", "CQRS"}
HistoryRow == [id : 1 .. MaxRows, imsi : Imsis, at : Times]
LatestRow == [at : Times, text : Texts]

VARIABLES
    model,      \* the model that is read
    history,    \* its history table; nothing asks for the texts in it
    latest,     \* its latest table, a row for each IMSI it has
    batch,      \* events the projector has yet to upsert
    lastId,     \* of the history's sequence
    clears,     \* calls of clear
    pc,         \* the client's call
    req,        \* its request
    total,      \* the first number its call has read
    reply,      \* its answer
    walk        \* history: what happened since the walk and the call began

tables == <<history, latest, batch, lastId, clears>>
client == <<pc, req, total, reply, walk>>
vars == <<model, tables, client>>

-----------------------------------------------------------------------------
(***************************************************************************)
(* The query.                                                              *)
(***************************************************************************)
\* getLatest with its filters, getHistory of one IMSI.
Targets ==
    [table : {"latest"}, filter : Filters]
        \cup [table : {"history"}, filter : [imsis : {{i} : i \in Imsis}, texts : {Texts}]]

\* The rows that match, by what they are sorted by.
Rows(target) ==
    LET matching == {i \in DOMAIN latest : /\ i \in target.filter.imsis
                                          /\ latest[i].text \in target.filter.texts}
        events == {r \in history : r.imsi \in target.filter.imsis}
    IN  IF target.table = "latest" THEN {[key |-> i, at |-> latest[i].at] : i \in matching}
        ELSE {[key |-> r.id, at |-> r.at] : r \in events}

\* A mistake: no tieKey.
SortsBeforeUntied(a, b) == a.at < b.at

\* ORDER BY updated_at, tieKey.
SortsBefore(a, b) == a.at < b.at \/ (a.at = b.at /\ a.key < b.key)

Precedes(a, b, ascending) == IF ascending THEN SortsBefore(a, b) ELSE SortsBefore(b, a)

\* Rows before a row.
Rank(rows, r, ascending) == Cardinality({q \in rows : Precedes(q, r, ascending)})

\* Positions an ORDER BY may give to rows.
Orders(rows, ascending) ==
    {pos \in Injection(rows, 0 .. (Cardinality(rows) - 1)) :
        \A a, b \in rows : Precedes(a, b, ascending) => pos[a] < pos[b]}

\* int arithmetic
Wrap(n) == ((n + MaxInt + 1) % (2 * MaxInt + 2)) - MaxInt - 1

Offset(page, size) == Wrap(page * size)

\* A mistake: one more than the whole pages.
PagesForRoundedDown(n, size) ==
    IF size = 0 THEN IF n = 0 THEN 0 ELSE MaxInt ELSE n \div size + 1

\* (int) Math.max(1, Math.ceil((double) total / size)): 0 / 0 is NaN and
\* becomes 0, anything else / 0 is infinite and becomes the largest int.
PagesFor(n, size) ==
    IF size = 0 THEN IF n = 0 THEN 0 ELSE MaxInt
    ELSE IF n = 0 THEN 1 ELSE (n + size - 1) \div size

-----------------------------------------------------------------------------
(***************************************************************************)
(* Writes.  Each notes what a client in the middle of a walk or a call     *)
(* would have to know: rows that changed place, rows that are gone from    *)
(* what it reads.                                                          *)
(***************************************************************************)
NoWalk == [start |-> {}, seen |-> {}, twice |-> FALSE, moved |-> {}, shifted |-> FALSE,
           quiet |-> TRUE, raced |-> FALSE, left |-> FALSE]

\* Positions that the walk has read.
Reached == IF pc = "answered" THEN req.page * req.size + req.size ELSE req.page * req.size

\* moved: rows that were there when the walk began and are not where they were.
\* shifted: one of the positions the walk has read lost its row.
\* left: a row is gone since the count.
Notes(cleared) ==
    LET before == Rows(req.target)
        after == Rows(req.target)'
        gone == {r \in before : \A q \in after : q.key # r.key}
        left == walk.left \/ cleared \/ gone # {}
    IN  walk' = IF pc \in {"idle", "failed", "statsAnswered"} THEN walk
                ELSE IF req.walking
                THEN [walk EXCEPT
                        !.moved = @ \cup {r.key : r \in walk.start \ after},
                        !.shifted = @ \/ \E r \in gone : Rank(before, r, req.ascending) < Reached,
                        !.quiet = FALSE, !.raced = TRUE, !.left = left]
                ELSE [walk EXCEPT !.left = left]

\* A mistake: no WHERE in the upsert.
UpsertAlways(i, at, text) ==
    [j \in DOMAIN latest \cup {i} |-> IF j = i THEN [at |-> at, text |-> text] ELSE latest[j]]

Upsert(i, at, text) ==
    [j \in DOMAIN latest \cup {i} |->
        IF j = i /\ (i \notin DOMAIN latest \/ at >= latest[i].at)
        THEN [at |-> at, text |-> text] ELSE latest[j]]

\* NORMAL: one transaction.  CQRS: the projector's first statement.
Write(i, at, text) ==
    /\ batch = {} /\ lastId < MaxRows
    /\ UNCHANGED <<model, clears, pc, req, total, reply>>
    /\ history' = history \cup {[id |-> lastId + 1, imsi |-> i, at |-> at]}
    /\ IF model = "NORMAL"
       THEN latest' = Upsert(i, at, text) /\ UNCHANGED batch
       ELSE batch' = {[imsi |-> i, at |-> at, text |-> text]} /\ UNCHANGED latest
    /\ lastId' = lastId + 1
    /\ Notes(FALSE)

\* The projector's second statement.
ProjectLatest ==
    /\ UNCHANGED <<model, history, lastId, clears, pc, req, total, reply>>
    /\ \E event \in batch :
          /\ latest' = Upsert(event.imsi, event.at, event.text)
          /\ batch' = batch \ {event}
    /\ Notes(FALSE)

\* One TRUNCATE of both tables, while the projector is not draining.
Clear ==
    /\ batch = {} /\ clears < MaxClears
    /\ UNCHANGED <<model, batch, lastId, pc, req, total, reply>>
    /\ history' = {} /\ latest' = <<>>
    /\ clears' = clears + 1
    /\ Notes(TRUE)

-----------------------------------------------------------------------------
(***************************************************************************)
(* Calls.                                                                  *)
(***************************************************************************)
NoReply == [rows |-> {}, total |-> 0, totalPages |-> 0, page |-> -1, there |-> 0]
NoRequest ==
    [target |-> [table |-> "latest", filter |-> [imsis |-> {}, texts |-> {}]], ascending |-> FALSE,
     page |-> 0, size |-> 0, walking |-> FALSE]

Ask(request) ==
    /\ pc = "idle"
    /\ pc' = "count"
    /\ req' = request
    /\ walk' = [NoWalk EXCEPT !.start = IF request.walking THEN Rows(request.target) ELSE {}]
    /\ UNCHANGED <<model, tables, total, reply>>

\* The first page of a walk.
BeginWalk(target, ascending, size) ==
    Ask([target |-> target, ascending |-> ascending, page |-> 0, size |-> size,
         walking |-> TRUE])

\* GET /events/latest and /events/{imsi}/history with any page and size.
AskFor(target, ascending, page, size) ==
    Ask([target |-> target, ascending |-> ascending, page |-> page, size |-> size,
         walking |-> FALSE])

\* SELECT count(*)
Count ==
    /\ pc = "count"
    /\ pc' = "read"
    /\ total' = Cardinality(Rows(req.target))
    /\ walk' = [walk EXCEPT !.raced = FALSE, !.left = FALSE]
    /\ UNCHANGED <<model, tables, req, reply>>

\* SELECT * .. OFFSET ? LIMIT ?, refused when either is negative.
ReadPage ==
    /\ pc = "read"
    /\ LET rows == Rows(req.target)
           offset == Offset(req.page, req.size)
       IN  IF offset < 0 \/ req.size < 0
           THEN pc' = "failed" /\ UNCHANGED <<reply, walk>>
           ELSE /\ pc' = "answered"
                /\ \E pos \in Orders(rows, req.ascending) :
                     LET page == {r \in rows : pos[r] \in offset .. (offset + req.size - 1)}
                         keys == {r.key : r \in page}
                     IN  /\ reply' = [rows |-> page, total |-> total,
                                      totalPages |-> PagesFor(total, req.size),
                                      page |-> req.page, there |-> Cardinality(rows)]
                         /\ walk' = [walk EXCEPT !.seen = @ \cup keys,
                                                 !.twice = @ \/ walk.seen \cap keys # {}]
    /\ UNCHANGED <<model, tables, req, total>>

\* The pager's next page, while the last answer announced one.
NextPage ==
    /\ pc = "answered" /\ req.walking
    /\ req.page + 1 < reply.totalPages
    /\ pc' = "count"
    /\ req' = [req EXCEPT !.page = @ + 1]
    /\ UNCHANGED <<model, tables, total, reply, walk>>

\* A mistake: the history is counted first.
HistoryThenLatest == <<"history", "latest">>

\* stats: a count of each table, a statement each.
CountsOfStats == <<"latest", "history">>

CountOf(table) == Cardinality(IF table = "latest" THEN DOMAIN latest ELSE history)

FirstCount ==
    /\ pc = "idle"
    /\ pc' = "stats"
    /\ total' = CountOf(CountsOfStats[1])
    /\ walk' = NoWalk
    /\ UNCHANGED <<model, tables, req, reply>>

\* The answer's uniqueImsis is in total, its totalEvents in there.
SecondCount ==
    /\ pc = "stats"
    /\ pc' = "statsAnswered"
    /\ LET answer(table) == IF table = CountsOfStats[1] THEN total ELSE CountOf(table)
       IN  reply' = [NoReply EXCEPT !.total = answer("latest"), !.there = answer("history")]
    /\ UNCHANGED <<model, tables, req, total, walk>>

\* The client has used the answer.
Leave ==
    /\ pc \in {"answered", "failed", "statsAnswered"}
    /\ pc' = "idle"
    /\ req' = NoRequest /\ total' = 0 /\ reply' = NoReply /\ walk' = NoWalk
    /\ UNCHANGED <<model, tables>>

Init ==
    /\ model \in Models
    /\ history = {} /\ latest = <<>> /\ batch = {}
    /\ lastId = 0 /\ clears = 0
    /\ pc = "idle" /\ req = NoRequest /\ total = 0 /\ reply = NoReply /\ walk = NoWalk

Next ==
    \/ \E i \in Imsis, at \in Times, text \in Texts : Write(i, at, text)
    \/ ProjectLatest \/ Clear
    \/ \E target \in Targets, ascending \in BOOLEAN :
          \/ \E size \in Sizes : BeginWalk(target, ascending, size)
          \/ \E asked \in Asked : AskFor(target, ascending, asked[1], asked[2])
    \/ Count \/ ReadPage \/ NextPage
    \/ FirstCount \/ SecondCount \/ Leave

Spec == Init /\ [][Next]_vars

-----------------------------------------------------------------------------
(***************************************************************************)
(* Properties.                                                             *)
(***************************************************************************)
TypeOK ==
    /\ model \in Models
    /\ history \subseteq HistoryRow /\ batch \subseteq [imsi : Imsis, at : Times, text : Texts]
    /\ DOMAIN latest \subseteq Imsis /\ \A i \in DOMAIN latest : latest[i] \in LatestRow
    /\ lastId \in 0 .. MaxRows /\ clears \in 0 .. MaxClears
    /\ pc \in {"idle", "count", "read", "answered", "failed", "stats", "statsAnswered"}
    /\ req.page \in Ints /\ req.size \in Ints
    /\ total \in 0 .. MaxRows
    /\ reply.totalPages \in 0 .. MaxInt

\* A walk that reached the last announced page has seen every row that was
\* there when it began and that no write has moved or taken out of the filter
\* since, although OFFSETs shift under it: in a history and newest-first a
\* write that leaves a row in the filter only pushes others to later positions
\* (EventQuery.java:59).  Two exceptions: a last answer whose count is older
\* than its page, and a row that an update took out of the filter from among
\* those already read, as all that follow it then move up by one.
WalkMissesNothing ==
    (/\ pc = "answered" /\ req.walking /\ req.page + 1 >= reply.totalPages
     /\ ~ walk.raced /\ ~ walk.shifted
     /\ req.target.table = "history" \/ ~ req.ascending)
    => {r.key : r \in walk.start} \subseteq walk.seen \cup walk.moved

\* While nothing is written, a walk delivers every row once, in either
\* direction and whatever ties on updated_at: no page repeats a row and the
\* announced pages hold them all.
QuietWalkIsExact ==
    (/\ req.walking /\ walk.quiet)
    => /\ ~ walk.twice
       /\ (pc = "answered" /\ req.page + 1 >= reply.totalPages)
              => walk.seen = {r.key : r \in walk.start}

\* The pages an answer announces hold its rows, and no smaller number of
\* pages would: an announced page is there, and full unless it is the last,
\* unless between the count and the page a clear emptied the tables or an
\* update took a row out of the filter.
AnnouncedPagesHoldRows ==
    (/\ pc = "answered" /\ req.size > 0 /\ reply.total > 0 /\ ~ walk.left
     /\ req.page \in 0 .. (reply.totalPages - 1))
    => /\ reply.rows # {}
       /\ req.page + 1 < reply.totalPages => Cardinality(reply.rows) = req.size
       /\ reply.total <= reply.totalPages * req.size

\* stats never reports more IMSIs than events, however the projector's two
\* statements fall between its two counts, unless a clear does.
StatsInOrder ==
    (pc = "statsAnswered" /\ ~ walk.left) => reply.total <= reply.there
=============================================================================
