------------------------------- MODULE Protobuf -------------------------------
(***************************************************************************)
(* Messages as proto.js (src/frontend/src/proto.js, generated by pbjs)     *)
(* reads, writes, verifies and converts them.  The generated functions     *)
(* differ from one message to the next only in the table of their fields,  *)
(* so each is one operator here, with that table, its schema, as argument. *)
(*                                                                         *)
(* A schema is a function from field names to a number and a kind.  A      *)
(* value is a natural number: 0 is the default of every kind ("", 0 or     *)
(* false), and a string is a number like any other.  A record on the wire  *)
(* is a number, a wire type and a value before it is cut to its kind.      *)
(***************************************************************************)
EXTENDS Integers, Sequences, SequencesExt, FiniteSets

CONSTANT Int32Range     \* an int32 is read modulo this (2^32)

ASSUME Int32Assumption == Int32Range \in Nat \ {0}

Kinds == {"string", "int32", "int64", "bool", "ActionTaken", "RatType"}
EnumSize == [ActionTaken |-> 7, RatType |-> 5]
IsEnum(kind) == kind \in DOMAIN EnumSize

\* The numbers of a message's fields differ.
IsSchema(S) ==
    /\ \A n \in DOMAIN S : S[n].number \in Nat /\ S[n].kind \in Kinds
    /\ \A a, b \in DOMAIN S : S[a].number = S[b].number => a = b

\* Length-delimited, or a varint.
WireType(kind) == IF kind = "string" THEN 2 ELSE 0

\* A message: the properties it owns itself, and the raw records it does
\* not know.  A property it does not own reads as the prototype's default.
NewMessage == [fields |-> <<>>, unknowns |-> <<>>]
Get(m, name) == IF name \in DOMAIN m.fields THEN m.fields[name] ELSE 0
With(fields, name, value) ==
    [n \in DOMAIN fields \cup {name} |-> IF n = name THEN value ELSE fields[n]]
Without(fields, name) == [n \in DOMAIN fields \ {name} |-> fields[n]]

-----------------------------------------------------------------------------
(***************************************************************************)
(* decode.                                                                 *)
(***************************************************************************)
\* int32() keeps the low bits of a varint, bool() is true if any bit is set.
Cut(kind, value) ==
    IF kind = "int32" THEN value % Int32Range
    ELSE IF kind = "bool" /\ value # 0 THEN 1 ELSE value

\* Enums are read like an int32.
Read(kind, value) == IF IsEnum(kind) THEN value % Int32Range ELSE Cut(kind, value)

\* The case of the switch that takes the record.
IsField(S, name, r) ==
    r.number = S[name].number /\ r.wireType = WireType(S[name].kind)
Known(S, r) == \E name \in DOMAIN S : IsField(S, name, r)

\* A mistake: a default is set like any other value.
SetFieldAlways(m, name, value) == [m EXCEPT !.fields = With(m.fields, name, value)]

\* The body of the case: set the property, or delete it for a default.
SetField(m, name, value) ==
    [m EXCEPT !.fields = IF value = 0 THEN Without(m.fields, name) ELSE With(m.fields, name, value)]

\* A mistake: nothing is kept.
DropUnknown(m, r) == m

\* The lines below the switch; reader.discardUnknown, which nobody sets, is false.
KeepUnknown(m, r) == [m EXCEPT !.unknowns = Append(@, r)]

DecodeRecord(S, m, r) ==
    IF Known(S, r)
    THEN LET name == CHOOSE n \in DOMAIN S : IsField(S, n, r)
         IN  SetField(m, name, Read(S[name].kind, r.value))
    ELSE KeepUnknown(m, r)

\* The message after each of the records, from the first on.
Decode(S, wire) ==
    LET after[n \in 0 .. Len(wire)] ==
            IF n = 0 THEN NewMessage ELSE DecodeRecord(S, after[n - 1], wire[n])
    IN  after[Len(wire)]

-----------------------------------------------------------------------------
(***************************************************************************)
(* encode: own properties in the order of their numbers, defaults too if   *)
(* the message owns them, then the unknown records as they were.           *)
(***************************************************************************)
OwnRecord(S, m, name) ==
    [number |-> S[name].number, wireType |-> WireType(S[name].kind), value |-> m.fields[name]]

\* The place of an own property: how many have its number or a lower one.
Place(S, own, name) == Cardinality({n \in own : S[n].number <= S[name].number})

\* A mistake: the unknown records are not written.
EncodeKnown(S, m) ==
    LET own == DOMAIN m.fields
        place == [n \in own |-> Place(S, own, n)]
    IN  [i \in 1 .. Cardinality(own) |-> OwnRecord(S, m, CHOOSE n \in own : place[n] = i)]

Encode(S, m) ==
    LET own == DOMAIN m.fields
        place == [n \in own |-> Place(S, own, n)]
    IN  [i \in 1 .. Cardinality(own) |-> OwnRecord(S, m, CHOOSE n \in own : place[n] = i)]
            \o m.unknowns

-----------------------------------------------------------------------------
(***************************************************************************)
(* verify, toObject, fromObject.  In a plain object an enum is its number  *)
(* or its name: a value is paired with the form it takes.                  *)
(***************************************************************************)
\* verify rejects what the enum does not list; decode takes any number.
\* A mistake: one number too many.
VerifyOneMore(S, m) ==
    \A n \in DOMAIN m.fields :
        IsEnum(S[n].kind) => m.fields[n] \in 0 .. EnumSize[S[n].kind]

Verify(S, m) ==
    \A n \in DOMAIN m.fields :
        IsEnum(S[n].kind) => m.fields[n] \in 0 .. EnumSize[S[n].kind] - 1

Named(kind, value) == IsEnum(kind) /\ value < EnumSize[kind]

\* options.enums === String and options.defaults.
ToObject(S, m, enumNames, defaults) ==
    [n \in (IF defaults THEN DOMAIN S ELSE {}) \cup DOMAIN m.fields |->
        [form |-> IF enumNames /\ Named(S[n].kind, Get(m, n)) THEN "name" ELSE "value",
         is |-> Get(m, n)]]

\* Defaults are left to the prototype, and so is a name the enum does not
\* have.  An integer is tested before it is cut to 32 bits: one that is cut
\* to 0 becomes a property of its own.
FromObject(S, object) ==
    LET kept(n) == /\ object[n].is # 0
                   /\ object[n].form = "name" => Named(S[n].kind, object[n].is)
    IN  [NewMessage EXCEPT !.fields =
            [n \in {n \in DOMAIN object \cap DOMAIN S : kept(n)} |-> Cut(S[n].kind, object[n].is)]]

-----------------------------------------------------------------------------
(***************************************************************************)
(* What decode promises of a message m and the records it was made of.     *)
(***************************************************************************)
HasFields(S, m) ==
    /\ DOMAIN m.fields \subseteq DOMAIN S
    /\ m.fields \in [DOMAIN m.fields -> Nat]

Value(S, name, r) == Read(S[name].kind, r.value)

\* The i-th record is the last one that is this field's, number and wire type.
IsLast(S, name, wire, i) ==
    /\ IsField(S, name, wire[i])
    /\ \A j \in i + 1 .. Len(wire) : ~IsField(S, name, wire[j])

\* What the format promises of a singular field: the last record of it in
\* the message counts, and where that is the default, or there is none, the
\* message does not own the property.
LastRecordWins(S, m, wire) ==
    \A name \in DOMAIN S :
        /\ \A i \in DOMAIN wire :
              IsLast(S, name, wire, i) =>
                IF Value(S, name, wire[i]) = 0 THEN name \notin DOMAIN m.fields
                ELSE /\ name \in DOMAIN m.fields
                     /\ m.fields[name] = Value(S, name, wire[i])
        /\ (\A i \in DOMAIN wire : ~IsField(S, name, wire[i])) => name \notin DOMAIN m.fields

\* The records no field takes are kept, each once and in the order of the
\* wire: at(k) is the place of the k-th.
KeepsUnknowns(S, m, wire) ==
    \E at \in [DOMAIN m.unknowns -> DOMAIN wire] :
        /\ \A k \in DOMAIN m.unknowns : m.unknowns[k] = wire[at[k]]
        /\ \A k, l \in DOMAIN m.unknowns : k < l => at[k] < at[l]
        /\ \A i \in DOMAIN wire :
              ~Known(S, wire[i]) <=> \E k \in DOMAIN m.unknowns : at[k] = i
=============================================================================
