----------------------------- MODULE PageDecoder -----------------------------
(***************************************************************************)
(* UeEventPageResponse.decode of proto.js with the UeEvent.decode it calls *)
(* for each event, record by record.  Who sent the bytes is left open: a   *)
(* newer server, a proxy or a test may send any records in any order.      *)
(*                                                                         *)
(* A record that cannot be read (the bytes end, a string is not UTF-8)     *)
(* makes decode throw, and fetchLatest and fetchHistory hand the error to  *)
(* their caller.                                                           *)
(***************************************************************************)
EXTENDS Protobuf

CONSTANTS
    EventFields,    \* schema of an event
    ScalarFields,   \* schema of a page, its events apart
    EventsNumber,   \* number of the events
    Records,        \* records that can be on the wire
    MaxRecords,     \* bound: records of one message, the events apart
    MaxEvents       \* bound: events of a page

ASSUME DecoderAssumption ==
    /\ IsSchema(EventFields) /\ IsSchema(ScalarFields)
    /\ \A n \in DOMAIN ScalarFields : ScalarFields[n].number # EventsNumber
    /\ \A r \in Records : r.number \in Nat /\ r.wireType \in Nat /\ r.value \in Nat
    /\ MaxRecords \in Nat /\ MaxEvents \in Nat

VARIABLES
    status,     \* "page", "event" (inside the decode of an event), "done" or "thrown"
    page,       \* message of the outer decode, with its events
    event,      \* message of the inner decode
    pageWire,   \* history: records the outer decode has read, the events apart
    eventWires  \* history: records read of each event

vars == <<status, page, event, pageWire, eventWires>>

NewPage == [fields |-> <<>>, unknowns |-> <<>>, events |-> <<>>]

Init ==
    /\ status = "page"
    /\ page = NewPage /\ event = NewMessage
    /\ pageWire = <<>> /\ eventWires = <<>>

IsEvents(r) == r.number = EventsNumber /\ r.wireType = 2

PageRecord ==
    /\ status = "page" /\ Len(pageWire) < MaxRecords
    /\ \E r \in Records :
          /\ ~IsEvents(r)
          /\ page' = DecodeRecord(ScalarFields, page, r)
          /\ pageWire' = Append(pageWire, r)
    /\ UNCHANGED <<status, event, eventWires>>

\* A mistake: decode gets the last event as its target.
EnterEventReusing ==
    /\ status = "page" /\ Len(eventWires) < MaxEvents
    /\ status' = "event"
    /\ eventWires' = Append(eventWires, <<>>)
    /\ UNCHANGED <<event, page, pageWire>>

EnterEvent ==
    /\ status = "page" /\ Len(eventWires) < MaxEvents
    /\ status' = "event"
    /\ event' = NewMessage
    /\ eventWires' = Append(eventWires, <<>>)
    /\ UNCHANGED <<page, pageWire>>

EventRecord ==
    /\ status = "event" /\ Len(Last(eventWires)) < MaxRecords
    /\ \E r \in Records :
          /\ event' = DecodeRecord(EventFields, event, r)
          /\ eventWires' = [eventWires EXCEPT ![Len(eventWires)] = Append(@, r)]
    /\ UNCHANGED <<status, page, pageWire>>

LeaveEvent ==
    /\ status = "event"
    /\ status' = "page"
    /\ page' = [page EXCEPT !.events = Append(@, event)]
    /\ UNCHANGED <<event, pageWire, eventWires>>

Return ==
    /\ status = "page"
    /\ status' = "done"
    /\ UNCHANGED <<page, event, pageWire, eventWires>>

Throw ==
    /\ status \in {"page", "event"}
    /\ status' = "thrown"
    /\ UNCHANGED <<page, event, pageWire, eventWires>>

Next == PageRecord \/ EnterEvent \/ EventRecord \/ LeaveEvent \/ Return \/ Throw

Spec == Init /\ [][Next]_vars

-----------------------------------------------------------------------------
(***************************************************************************)
(* Properties.                                                             *)
(***************************************************************************)
IsEvent(m) ==
    /\ m = [fields |-> m.fields, unknowns |-> m.unknowns]
    /\ HasFields(EventFields, m) /\ m.unknowns \in Seq(Records)

TypeOK ==
    /\ status \in {"page", "event", "done", "thrown"}
    /\ page = [fields |-> page.fields, unknowns |-> page.unknowns, events |-> page.events]
    /\ HasFields(ScalarFields, page) /\ page.unknowns \in Seq(Records)
    /\ IsEvent(event)
    /\ page.events \in Seq({page.events[i] : i \in DOMAIN page.events})
    /\ \A i \in DOMAIN page.events : IsEvent(page.events[i])
    /\ pageWire \in Seq(Records) /\ eventWires \in Seq(Seq(Records))

\* The numbers of a page are those of the last records that carry them, in
\* whatever order a sender writes them and however often.
PageIsItsLastRecords == LastRecordWins(ScalarFields, page, pageWire)

\* Every event of the page stands at its place and is made of its own records
\* alone: nothing of the event before it shows through.
EventsAreTheirRecords ==
    /\ \A i \in DOMAIN page.events :
          i \in DOMAIN eventWires /\ LastRecordWins(EventFields, page.events[i], eventWires[i])
    /\ status \in {"page", "done"} => Len(page.events) = Len(eventWires)
    /\ status = "event" =>
          /\ Len(eventWires) = Len(page.events) + 1
          /\ LastRecordWins(EventFields, event, eventWires[Len(eventWires)])

\* Every message decode returns or works on is made of its own records.
MessagesAreTheirRecords == PageIsItsLastRecords /\ EventsAreTheirRecords

\* What the schema of this page does not know, as fields a newer server adds,
\* is kept for encode.
UnknownsAreKept ==
    /\ KeepsUnknowns(ScalarFields, page, pageWire)
    /\ \A i \in DOMAIN page.events : KeepsUnknowns(EventFields, page.events[i], eventWires[i])
    /\ status = "event" => KeepsUnknowns(EventFields, event, eventWires[Len(eventWires)])
=============================================================================
