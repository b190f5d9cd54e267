------------------------------ MODULE CodecCalls ------------------------------
(***************************************************************************)
(* A page of events from the rows of the database to the cells of the      *)
(* dashboard, and through any sequence of calls of the generated functions *)
(* of proto.js in between: encode and decode, toObject and fromObject, and *)
(* assignments to properties.  decode is the whole of PageDecoder at once. *)
(* The limit on the depth of messages is out of reach: they nest once.     *)
(***************************************************************************)
EXTENDS UeEventSchema

CONSTANTS
    Rows,           \* rows of the database
    Numbers,        \* numbers of a page: values of its fields
    NewerRecords,   \* what a newer server adds to an event: a record or none
    MaxRows,        \* bound: rows of a page
    MaxCalls        \* bound: calls in one behaviour

WireRecord == [number : Nat, wireType : Nat, value : Nat]

\* An int32 column holds 32 bits, and the enums fit into them; a bool is 0 or 1.
FitsKind(S, name, value) ==
    /\ value \in Nat
    /\ S[name].kind = "int32" => value < Int32Range
    /\ S[name].kind = "bool" => value \in 0 .. 1

ASSUME CallsAssumption ==
    /\ \A kind \in DOMAIN EnumSize : EnumSize[kind] <= Int32Range
    /\ Rows \subseteq [DOMAIN UeEventFields -> Nat \cup {Null}]
    /\ \A row \in Rows : \A n \in DOMAIN UeEventFields :
          row[n] = Null \/ FitsKind(UeEventFields, n, row[n])
    /\ Numbers \subseteq [DOMAIN PageFields -> Nat]
    /\ \A numbers \in Numbers : \A n \in DOMAIN PageFields : FitsKind(PageFields, n, numbers[n])
    /\ NewerRecords \subseteq Seq(WireRecord)
    /\ MaxRows \in Nat /\ MaxCalls \in Nat

VARIABLES
    message,        \* the page
    values,         \* history: for each event, the value of each of its fields
    totals,         \* history: the same of the page
    added,          \* history: the records the newer server added to each event
    made,           \* history: the call the message comes from
    converted,      \* history: it went through a plain object
    calls           \* calls so far

callVars == <<message, values, totals, added, made, converted, calls>>

-----------------------------------------------------------------------------
(***************************************************************************)
(* The functions of UeEventPageResponse: those of its own fields, and      *)
(* those of UeEvent for each of its events.                                *)
(***************************************************************************)
AsPage(m, events) == [fields |-> m.fields, unknowns |-> m.unknowns, events |-> events]

EncodePage(p) ==
    [events |-> [i \in DOMAIN p.events |-> Encode(UeEventFields, p.events[i])],
     rest |-> Encode(PageFields, p)]

DecodePage(wire) ==
    AsPage(Decode(PageFields, wire.rest),
           [i \in DOMAIN wire.events |-> Decode(UeEventFields, wire.events[i])])

VerifyPage(p) ==
    /\ \A i \in DOMAIN p.events : Verify(UeEventFields, p.events[i])
    /\ Verify(PageFields, p)

ToObjectPage(p, enumNames, defaults) ==
    [events |-> [i \in DOMAIN p.events |->
                    ToObject(UeEventFields, p.events[i], enumNames, defaults)],
     rest |-> ToObject(PageFields, p, enumNames, defaults)]

FromObjectPage(object) ==
    AsPage(FromObject(PageFields, object.rest),
           [i \in DOMAIN object.events |-> FromObject(UeEventFields, object.events[i])])

-----------------------------------------------------------------------------
\* The row's own value of a field: what is null, and a name no enum has,
\* is the default.
ColumnValue(row, name) ==
    LET kind == UeEventFields[name].kind
    IN  IF row[name] = Null \/ (IsEnum(kind) /\ row[name] >= EnumSize[kind]) THEN 0
        ELSE row[name]

\* toProto: the events of the page and its numbers; a newer server adds to
\* each event a record of its own.
Response(rows, numbers, more) ==
    [events |-> [i \in DOMAIN rows |-> Serialize(FromRow(rows[i])) \o more[i]],
     rest |-> Encode(PageFields, [NewMessage EXCEPT !.fields =
                [n \in {n \in DOMAIN numbers : numbers[n] # 0} |-> numbers[n]]])]

\* A number of an enum that this page's schema does not list is a value too.
FieldValue(row, more, name) ==
    IF \E i \in DOMAIN more : IsField(UeEventFields, name, more[i])
    THEN Value(UeEventFields, name,
               more[CHOOSE i \in DOMAIN more : IsLast(UeEventFields, name, more, i)])
    ELSE ColumnValue(row, name)

CallsInit ==
    \E n \in 0 .. MaxRows :
    \E rows \in [1 .. n -> Rows], numbers \in Numbers :
        /\ added \in [1 .. n -> NewerRecords]
        /\ message = DecodePage(Response(rows, numbers, added))
        /\ values = [i \in 1 .. n |-> [f \in DOMAIN UeEventFields |-> FieldValue(rows[i], added[i], f)]]
        /\ totals = numbers
        /\ made = "decode" /\ converted = FALSE /\ calls = 0

Call == calls < MaxCalls /\ calls' = calls + 1

\* decode(encode(message)).
Reencode ==
    /\ Call
    /\ message' = DecodePage(EncodePage(message))
    /\ made' = "decode"
    /\ UNCHANGED <<values, totals, added, converted>>

\* fromObject(toObject(message, options)).
Convert(enumNames, defaults) ==
    /\ Call
    /\ message' = FromObjectPage(ToObjectPage(message, enumNames, defaults))
    /\ made' = "fromObject"
    /\ converted' = TRUE
    /\ UNCHANGED <<values, totals, added>>

\* message.events[i][name] = value, with a value of the field's kind: no number
\* beyond 32 bits for an int32, which fromObject would cut to another or to an
\* own default.
Assign(i, name, value) ==
    /\ Call
    /\ message' = [message EXCEPT !.events[i].fields = With(@, name, value)]
    /\ values' = [values EXCEPT ![i][name] = value]
    /\ made' = "assignment"
    /\ UNCHANGED <<totals, added, converted>>

CallsNext ==
    \/ Reencode
    \/ \E enumNames, defaults \in BOOLEAN : Convert(enumNames, defaults)
    \/ \E i \in DOMAIN message.events, name \in {"rssi", "rat", "target"}, value \in 0 .. 1 :
          Assign(i, name, value)

CallsSpec == CallsInit /\ [][CallsNext]_callVars

-----------------------------------------------------------------------------
(***************************************************************************)
(* Properties.                                                             *)
(***************************************************************************)
IsMessage(S, m) == HasFields(S, m) /\ m.unknowns \in Seq(WireRecord)

CallsTypeOK ==
    /\ DOMAIN message = {"fields", "unknowns", "events"} /\ IsMessage(PageFields, message)
    /\ DOMAIN message.events = 1 .. Len(values)
    /\ \A i \in DOMAIN message.events :
          /\ DOMAIN message.events[i] = {"fields", "unknowns"}
          /\ IsMessage(UeEventFields, message.events[i])
    /\ values \in Seq([DOMAIN UeEventFields -> Nat]) /\ totals \in [DOMAIN PageFields -> Nat]
    /\ added \in [1 .. Len(values) -> Seq(WireRecord)]
    /\ made \in {"decode", "fromObject", "assignment"}
    /\ converted \in BOOLEAN /\ calls \in 0 .. MaxCalls

\* Whatever calls a page went through, each cell of the table shows the value
\* of its row, and the numbers of the page are those of the server: absent
\* fields, own defaults, enum names and numbers of later versions included.
CellsShowTheRows ==
    /\ Len(message.events) = Len(values)
    /\ \A i \in DOMAIN values : \A name \in DOMAIN UeEventFields :
          Cell(message.events[i], name)
            = LET kind == UeEventFields[name].kind
              IN  IF IsEnum(kind) THEN FormatEnum(kind, values[i][name]) ELSE values[i][name]
    /\ \A name \in DOMAIN PageFields : Get(message, name) = totals[name]

\* Fields of later versions outlive decode and encode, in their order; only a
\* plain object loses them.
LaterFieldsSurvive ==
    \A i \in DOMAIN added :
        IF converted THEN message.events[i].unknowns = <<>>
        ELSE KeepsUnknowns(UeEventFields, message.events[i], added[i])

\* So no sequence of calls loses or changes anything a page carries.
PagesSurviveCalls == CellsShowTheRows /\ LaterFieldsSurvive

\* decode and fromObject leave a page without own defaults, so that encode
\* writes what protobuf-java would write: the same event is the same bytes,
\* as long as nothing is assigned that does not fit its field.
NoDefaultIsWritten ==
    made # "assignment" =>
        \A i \in DOMAIN message.events :
            \A r \in ToSet(EncodePage(message).events[i]) : Known(UeEventFields, r) => r.value # 0

\* verify accepts a page exactly when a reader with this schema has a name for
\* every enum in it; what decode takes from a later version it does not.
VerifyMeansNamed ==
    VerifyPage(message) <=>
        \A i \in DOMAIN values :
            values[i].actionTaken \in 0 .. 6 /\ values[i].rat \in 0 .. 4
=============================================================================
