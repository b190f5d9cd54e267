---------------------------- MODULE Protobuf_proofs ----------------------------
(***************************************************************************)
(* Proofs about proto.js: decode and encode for every schema whose numbers *)
(* differ and for messages of any length, PageDecoder, and CodecCalls.     *)
(***************************************************************************)
EXTENDS PageDecoder, CodecCalls, FunctionTheorems, FiniteSetTheorems,
        WellFoundedInduction, TLAPS

\* A message has the two parts decode works on.
HasParts(m) == "fields" \in DOMAIN m /\ "unknowns" \in DOMAIN m

\* With and Without change one property and leave the others.
LEMMA WithFacts ==
    ASSUME NEW f, NEW name, NEW value
    PROVE  /\ DOMAIN With(f, name, value) = DOMAIN f \cup {name}
           /\ With(f, name, value)[name] = value
           /\ \A n \in DOMAIN f : n # name => With(f, name, value)[n] = f[n]
           /\ DOMAIN Without(f, name) = DOMAIN f \ {name}
           /\ \A n \in DOMAIN f : n # name => Without(f, name)[n] = f[n]
BY DEF With, Without

\* At most one field takes a record, the one its case is chosen for.
LEMMA FieldIsUnique ==
    ASSUME NEW S, IsSchema(S), NEW r, NEW a \in DOMAIN S, NEW b \in DOMAIN S,
           IsField(S, a, r), IsField(S, b, r)
    PROVE  a = b
BY DEF IsSchema, IsField

\* A value read is a natural number.
LEMMA ReadIsNat ==
    ASSUME NEW kind, NEW value \in Nat
    PROVE  Read(kind, value) \in Nat
<1>1. value % Int32Range \in Nat
    BY Int32Assumption
<1> QED BY <1>1 DEF Read, Cut

\* decode of a record some field takes: its property is set or deleted.
LEMMA DecodeKnown ==
    ASSUME NEW S, IsSchema(S), NEW m, HasParts(m), NEW r,
           NEW name \in DOMAIN S, IsField(S, name, r)
    PROVE  LET d == DecodeRecord(S, m, r)
               v == Value(S, name, r)
           IN  /\ d.fields = IF v = 0 THEN Without(m.fields, name) ELSE With(m.fields, name, v)
               /\ d.unknowns = m.unknowns
               /\ DOMAIN d = DOMAIN m
               /\ \A p \in DOMAIN m : p # "fields" => d[p] = m[p]
<1> DEFINE chosen == CHOOSE n \in DOMAIN S : IsField(S, n, r)
<1>1. chosen \in DOMAIN S /\ IsField(S, chosen, r)
    OBVIOUS
<1>2. chosen = name
    BY <1>1, FieldIsUnique
<1>3. Known(S, r)
    BY DEF Known
<1>4. DecodeRecord(S, m, r) = SetField(m, name, Value(S, name, r))
    BY <1>2, <1>3 DEF DecodeRecord, Value
<1> QED BY <1>4 DEF SetField, HasParts

\* decode of a record no field takes keeps it and sets nothing.
LEMMA DecodeUnknown ==
    ASSUME NEW S, NEW m, HasParts(m), NEW r, ~Known(S, r)
    PROVE  /\ DOMAIN DecodeRecord(S, m, r) = DOMAIN m
           /\ \A p \in DOMAIN m : p # "unknowns" => DecodeRecord(S, m, r)[p] = m[p]
<1>1. DecodeRecord(S, m, r) = KeepUnknown(m, r)
    BY DEF DecodeRecord
<1> QED BY <1>1 DEF KeepUnknown, HasParts

\* The properties stay as they are.
LEMMA UnknownSetsNothing ==
    ASSUME NEW S, NEW m, HasParts(m), NEW r, ~Known(S, r)
    PROVE  DecodeRecord(S, m, r).fields = m.fields
BY DecodeUnknown DEF HasParts

\* The record is added at the end.
LEMMA UnknownIsAppended ==
    ASSUME NEW S, NEW m, HasParts(m), NEW r, ~Known(S, r)
    PROVE  DecodeRecord(S, m, r).unknowns = Append(m.unknowns, r)
<1>1. DecodeRecord(S, m, r) = KeepUnknown(m, r)
    BY DEF DecodeRecord
<1> QED BY <1>1 DEF KeepUnknown, HasParts

\* The rule of the last record outlives one more record.
LEMMA LastRecordStep ==
    ASSUME NEW S, IsSchema(S), NEW m, HasParts(m), NEW R, NEW wire \in Seq(R),
           NEW r \in R, LastRecordWins(S, m, wire)
    PROVE  LastRecordWins(S, DecodeRecord(S, m, r), Append(wire, r))
<1> DEFINE d == DecodeRecord(S, m, r)
           w == Append(wire, r)
<1>1. /\ Len(w) = Len(wire) + 1 /\ Len(wire) \in Nat
      /\ DOMAIN w = 1 .. Len(wire) + 1 /\ DOMAIN wire = 1 .. Len(wire)
      /\ \A i \in DOMAIN wire : w[i] = wire[i]
      /\ w[Len(wire) + 1] = r
    OBVIOUS
<1> HIDE DEF w
<1> SUFFICES ASSUME NEW name \in DOMAIN S
             PROVE  /\ \A i \in DOMAIN w :
                          IsLast(S, name, w, i) =>
                            IF Value(S, name, w[i]) = 0 THEN name \notin DOMAIN d.fields
                            ELSE /\ name \in DOMAIN d.fields
                                 /\ d.fields[name] = Value(S, name, w[i])
                    /\ (\A i \in DOMAIN w : ~IsField(S, name, w[i])) => name \notin DOMAIN d.fields
    BY DEF LastRecordWins, w
<1>2. CASE IsField(S, name, r)
    <2>1. d.fields = IF Value(S, name, r) = 0 THEN Without(m.fields, name)
                     ELSE With(m.fields, name, Value(S, name, r))
        BY <1>2, DecodeKnown
    <2> HIDE DEF d
    <2>2. ASSUME NEW i \in DOMAIN w, IsLast(S, name, w, i)
          PROVE  i = Len(wire) + 1
        BY <2>2, <1>1, <1>2 DEF IsLast
    <2>3. IF Value(S, name, r) = 0 THEN name \notin DOMAIN d.fields
          ELSE name \in DOMAIN d.fields /\ d.fields[name] = Value(S, name, r)
        <3>1. CASE Value(S, name, r) = 0
            <4>1. d.fields = Without(m.fields, name)
                BY <2>1, <3>1
            <4> QED BY <4>1, <3>1 DEF Without
        <3>2. CASE Value(S, name, r) # 0
            <4>1. d.fields = With(m.fields, name, Value(S, name, r))
                BY <2>1, <3>2
            <4> QED BY <4>1, <3>2 DEF With
        <3> QED BY <3>1, <3>2
    <2> QED BY <2>2, <2>3, <1>1, <1>2
<1>3. CASE ~IsField(S, name, r)
    <2>1. /\ name \in DOMAIN d.fields <=> name \in DOMAIN m.fields
          /\ name \in DOMAIN m.fields => d.fields[name] = m.fields[name]
        <3>1. CASE Known(S, r)
            <4>1. PICK other \in DOMAIN S : IsField(S, other, r)
                BY <3>1 DEF Known
            <4>2. d.fields = IF Value(S, other, r) = 0 THEN Without(m.fields, other)
                             ELSE With(m.fields, other, Value(S, other, r))
                BY <4>1, DecodeKnown
            <4>3. other # name
                BY <4>1, <1>3
            <4> HIDE DEF d
            <4>4. CASE Value(S, other, r) = 0
                <5>1. d.fields = Without(m.fields, other)
                    BY <4>2, <4>4
                <5> QED BY <5>1, <4>3 DEF Without
            <4>5. CASE Value(S, other, r) # 0
                <5>1. d.fields = With(m.fields, other, Value(S, other, r))
                    BY <4>2, <4>5
                <5> QED BY <5>1, <4>3 DEF With
            <4> QED BY <4>4, <4>5
        <3>2. CASE ~Known(S, r)
            <4>0. HasParts(m) /\ ~Known(S, r)
                BY <3>2
            <4>1. DecodeRecord(S, m, r).fields = m.fields
                BY <4>0, UnknownSetsNothing
            <4> QED BY <4>1
        <3> QED BY <3>1, <3>2
    <2> HIDE DEF d
    <2>2. ASSUME NEW i \in DOMAIN w, IsLast(S, name, w, i)
          PROVE  i \in DOMAIN wire /\ IsLast(S, name, wire, i)
        <3>1. i # Len(wire) + 1
            BY <2>2, <1>1, <1>3 DEF IsLast
        <3>2. i \in DOMAIN wire
            BY <3>1, <1>1
        <3>3. \A j \in i + 1 .. Len(wire) : j \in DOMAIN wire /\ j \in i + 1 .. Len(w)
            BY <3>2, <1>1
        <3> QED BY <2>2, <3>2, <3>3, <1>1 DEF IsLast
    <2>3. ASSUME NEW i \in DOMAIN w, IsLast(S, name, w, i)
          PROVE  IF Value(S, name, w[i]) = 0 THEN name \notin DOMAIN d.fields
                 ELSE name \in DOMAIN d.fields /\ d.fields[name] = Value(S, name, w[i])
        <3>1. i \in DOMAIN wire /\ IsLast(S, name, wire, i) /\ w[i] = wire[i]
            BY <2>2, <2>3, <1>1
        <3>2. IF Value(S, name, wire[i]) = 0 THEN name \notin DOMAIN m.fields
              ELSE name \in DOMAIN m.fields /\ m.fields[name] = Value(S, name, wire[i])
            BY <3>1 DEF LastRecordWins
        <3> QED BY <3>1, <3>2, <2>1
    <2>4. ASSUME \A i \in DOMAIN w : ~IsField(S, name, w[i])
          PROVE  name \notin DOMAIN d.fields
        <3>1. \A i \in DOMAIN wire : ~IsField(S, name, wire[i])
            BY <2>4, <1>1
        <3> QED BY <3>1, <2>1 DEF LastRecordWins
    <2> QED BY <2>3, <2>4
<1> QED BY <1>2, <1>3
\* That unknown records are kept in order outlives one more record.
LEMMA UnknownsStep ==
    ASSUME NEW S, IsSchema(S), NEW m, HasParts(m), NEW R, m.unknowns \in Seq(R),
           NEW wire \in Seq(R), NEW r \in R, KeepsUnknowns(S, m, wire)
    PROVE  KeepsUnknowns(S, DecodeRecord(S, m, r), Append(wire, r))
<1> DEFINE w == Append(wire, r)
           u == DecodeRecord(S, m, r).unknowns
<1>1. /\ Len(w) = Len(wire) + 1 /\ Len(wire) \in Nat
      /\ DOMAIN w = 1 .. Len(wire) + 1 /\ DOMAIN wire = 1 .. Len(wire)
      /\ \A i \in DOMAIN wire : w[i] = wire[i]
      /\ w[Len(wire) + 1] = r
    OBVIOUS
<1>2. PICK at \in [DOMAIN m.unknowns -> DOMAIN wire] :
        /\ \A k \in DOMAIN m.unknowns : m.unknowns[k] = wire[at[k]]
        /\ \A k, l \in DOMAIN m.unknowns : k < l => at[k] < at[l]
        /\ \A i \in DOMAIN wire :
              ~Known(S, wire[i]) <=> \E k \in DOMAIN m.unknowns : at[k] = i
    BY DEF KeepsUnknowns
<1>3. SUFFICES \E a \in [DOMAIN u -> DOMAIN w] :
        /\ \A k \in DOMAIN u : u[k] = w[a[k]]
        /\ \A k, l \in DOMAIN u : k < l => a[k] < a[l]
        /\ \A i \in DOMAIN w : ~Known(S, w[i]) <=> \E k \in DOMAIN u : a[k] = i
    BY DEF KeepsUnknowns
<1>4. CASE Known(S, r)
    <2>1. u = m.unknowns
        <3>1. PICK name \in DOMAIN S : IsField(S, name, r)
            BY <1>4 DEF Known
        <3> QED BY <3>1, DecodeKnown
    <2> HIDE DEF u, w
    <2>2. at \in [DOMAIN u -> DOMAIN w]
        BY <2>1, <1>1, <1>2
    <2>3. \A k \in DOMAIN u : u[k] = w[at[k]]
        BY <2>1, <1>1, <1>2
    <2>4. \A k, l \in DOMAIN u : k < l => at[k] < at[l]
        BY <2>1, <1>2
    <2>5. ASSUME NEW i \in DOMAIN w
          PROVE  ~Known(S, w[i]) <=> \E k \in DOMAIN u : at[k] = i
        <3>1. CASE i \in DOMAIN wire
            BY <3>1, <2>1, <1>1, <1>2
        <3>2. CASE i = Len(wire) + 1
            <4>1. \A k \in DOMAIN u : at[k] # i
                BY <3>2, <2>1, <1>1, <1>2
            <4> QED BY <4>1, <3>2, <1>1, <1>4
        <3> QED BY <3>1, <3>2, <1>1
    <2> QED BY <2>2, <2>3, <2>4, <2>5
<1>5. CASE ~Known(S, r)
    <2>1. u = Append(m.unknowns, r)
        BY <1>5, UnknownIsAppended
    <2>2. /\ DOMAIN u = 1 .. Len(m.unknowns) + 1 /\ Len(m.unknowns) \in Nat
          /\ DOMAIN m.unknowns = 1 .. Len(m.unknowns)
          /\ \A k \in DOMAIN m.unknowns : u[k] = m.unknowns[k]
          /\ u[Len(m.unknowns) + 1] = r
        BY <2>1
    <2> DEFINE a == [k \in DOMAIN u |-> IF k = Len(m.unknowns) + 1 THEN Len(wire) + 1 ELSE at[k]]
    <2> HIDE DEF u, w
    <2>3. /\ \A k \in DOMAIN m.unknowns : k \in DOMAIN u /\ a[k] = at[k] /\ at[k] \in DOMAIN wire
          /\ a[Len(m.unknowns) + 1] = Len(wire) + 1
          /\ \A k \in DOMAIN u : k \in DOMAIN m.unknowns \/ k = Len(m.unknowns) + 1
          /\ Len(m.unknowns) + 1 \in DOMAIN u
        BY <2>2, <1>2
    <2>4. a \in [DOMAIN u -> DOMAIN w]
        BY <2>2, <1>1, <1>2
    <2> HIDE DEF a
    <2>5. \A k \in DOMAIN u : u[k] = w[a[k]]
        BY <2>2, <2>3, <1>1, <1>2
    <2>6. ASSUME NEW k \in DOMAIN u, NEW l \in DOMAIN u, k < l
          PROVE  a[k] < a[l]
        <3>1. k \in DOMAIN m.unknowns
            BY <2>6, <2>2
        <3>2. CASE l \in DOMAIN m.unknowns
            BY <3>1, <3>2, <2>3, <2>6, <1>2
        <3>3. CASE l = Len(m.unknowns) + 1
            BY <3>1, <3>3, <2>3, <1>1
        <3> QED BY <3>2, <3>3, <2>3
    <2>7. ASSUME NEW i \in DOMAIN w
          PROVE  ~Known(S, w[i]) <=> \E k \in DOMAIN u : a[k] = i
        <3>1. CASE i \in DOMAIN wire
            <4>1. \A k \in DOMAIN u : a[k] = i => k \in DOMAIN m.unknowns
                BY <3>1, <2>3, <1>1
            <4>2. (\E k \in DOMAIN u : a[k] = i) <=> \E k \in DOMAIN m.unknowns : at[k] = i
                BY <4>1, <2>3
            <4> QED BY <4>2, <3>1, <1>1, <1>2
        <3>2. CASE i = Len(wire) + 1
            BY <3>2, <2>3, <1>1, <1>5
        <3> QED BY <3>1, <3>2, <1>1
    <2> QED BY <2>4, <2>5, <2>6, <2>7
<1> QED BY <1>4, <1>5

\* decode keeps a message a message.
LEMMA DecodeKeepsFields ==
    ASSUME NEW S, IsSchema(S), NEW m, HasParts(m), HasFields(S, m),
           NEW R, m.unknowns \in Seq(R), NEW r \in R, r.value \in Nat
    PROVE  HasFields(S, DecodeRecord(S, m, r)) /\ DecodeRecord(S, m, r).unknowns \in Seq(R)
<1> DEFINE d == DecodeRecord(S, m, r)
<1>1. CASE Known(S, r)
    <2>1. PICK name \in DOMAIN S : IsField(S, name, r)
        BY <1>1 DEF Known
    <2> DEFINE v == Value(S, name, r)
    <2>2. d.fields = (IF v = 0 THEN Without(m.fields, name) ELSE With(m.fields, name, v))
          /\ d.unknowns = m.unknowns
        BY <2>1, DecodeKnown
    <2>3. v \in Nat
        BY ReadIsNat DEF Value
    <2> HIDE DEF d, v
    <2>4. CASE v = 0
        <3>1. d.fields = Without(m.fields, name)
            BY <2>2, <2>4
        <3> QED BY <3>1, <2>2 DEF HasFields, Without, d
    <2>5. CASE v # 0
        <3>1. d.fields = With(m.fields, name, v)
            BY <2>2, <2>5
        <3> QED BY <3>1, <2>2, <2>3 DEF HasFields, With, d
    <2> QED BY <2>4, <2>5
<1>2. CASE ~Known(S, r)
    <2>1. d.fields = m.fields /\ d.unknowns = Append(m.unknowns, r)
        BY <1>2, UnknownIsAppended, UnknownSetsNothing
    <2> HIDE DEF d
    <2> QED BY <2>1 DEF HasFields, d
<1> QED BY <1>1, <1>2
-----------------------------------------------------------------------------
(***************************************************************************)
(* Decode.  It is a recursive function of the number of records: the first *)
(* lemmas show that there is one, and what it does with one record more.   *)
(* Induction is over a set of numbers.                                     *)
(***************************************************************************)
\* A set with 0 and each successor has every natural number.
LEMMA SetInduction ==
    ASSUME NEW T, 0 \in T, \A n \in Nat : n \in T => n + 1 \in T
    PROVE  Nat \subseteq T
<1> DEFINE R == OpToRel(<, Nat)
<1>1. IsWellFoundedOn(R, Nat)
    BY NatLessThanWellFounded
<1>2. SUFFICES ASSUME Nat \ T # {} PROVE FALSE
    OBVIOUS
<1>3. \A x, y \in Nat : y < x => <<y, x>> \in R
    BY DEF OpToRel
<1> HIDE DEF R
<1>4. PICK x \in Nat \ T : \A y \in Nat \ T : ~ (<<y, x>> \in R)
    BY <1>1, <1>2, WFMin
<1>5. x # 0 /\ x - 1 \in Nat /\ x - 1 < x
    BY <1>4
<1>6. x - 1 \in T
    BY <1>3, <1>4, <1>5
<1> QED BY <1>4, <1>5, <1>6

\* f is the message after each of the first k records.
Steps(S, wire, f, k) ==
    f = [n \in 0 .. k |-> IF n = 0 THEN NewMessage ELSE DecodeRecord(S, f[n - 1], wire[n])]

LEMMA StepsExist ==
    ASSUME NEW S, NEW wire, NEW k \in Nat
    PROVE  \E f : Steps(S, wire, f, k)
<1> DEFINE T == {n \in Nat : \E f : Steps(S, wire, f, n)}
<1>1. 0 \in T
    <2>1. Steps(S, wire, [n \in 0 .. 0 |-> NewMessage], 0)
        BY DEF Steps
    <2> QED BY <2>1
<1>2. ASSUME NEW n \in Nat, n \in T
      PROVE  n + 1 \in T
    <2>1. PICK f : Steps(S, wire, f, n)
        BY <1>2
    <2> DEFINE g == [i \in 0 .. n + 1 |->
                        IF i <= n THEN f[i] ELSE DecodeRecord(S, f[n], wire[n + 1])]
               h == [i \in 0 .. n + 1 |->
                        IF i = 0 THEN NewMessage ELSE DecodeRecord(S, g[i - 1], wire[i])]
    <2>2. ASSUME NEW i \in 0 .. n + 1 PROVE g[i] = h[i]
        <3>1. CASE i <= n
            <4>1. g[i] = f[i] /\ (i # 0 => g[i - 1] = f[i - 1])
                BY <3>1
            <4>2. f[i] = IF i = 0 THEN NewMessage ELSE DecodeRecord(S, f[i - 1], wire[i])
                BY <2>1, <3>1 DEF Steps
            <4> QED BY <4>1, <4>2
        <3>2. CASE i = n + 1
            BY <3>2
        <3> QED BY <3>1, <3>2
    <2>3. Steps(S, wire, g, n + 1)
        BY <2>2 DEF Steps
    <2> HIDE DEF g
    <2> QED BY <2>3
<1> HIDE DEF T
<1>3. k \in T
    BY <1>1, <1>2, SetInduction
<1> QED BY <1>3 DEF T

\* Two such functions agree as far as the records do.
LEMMA StepsAgree ==
    ASSUME NEW S, NEW v, NEW w, NEW f, NEW g, NEW l \in Nat, NEW k \in 0 .. l,
           Steps(S, v, f, k), Steps(S, w, g, l), \A i \in 1 .. k : v[i] = w[i]
    PROVE  f[k] = g[k]
<1> DEFINE T == {n \in Nat : n <= k => f[n] = g[n]}
<1>1. 0 \in T
    BY DEF Steps
<1>2. ASSUME NEW n \in Nat, n \in T
      PROVE  n + 1 \in T
    <2> SUFFICES ASSUME n + 1 <= k PROVE f[n + 1] = g[n + 1]
        OBVIOUS
    <2>1. f[n + 1] = DecodeRecord(S, f[n], v[n + 1])
        BY DEF Steps
    <2>2. g[n + 1] = DecodeRecord(S, g[n], w[n + 1])
        BY DEF Steps
    <2> QED BY <1>2, <2>1, <2>2
<1> HIDE DEF T
<1>3. k \in T
    BY <1>1, <1>2, SetInduction
<1> QED BY <1>3 DEF T

LEMMA DecodeSteps ==
    ASSUME NEW S, NEW R, NEW wire \in Seq(R)
    PROVE  \E f : Steps(S, wire, f, Len(wire)) /\ Decode(S, wire) = f[Len(wire)]
<1> DEFINE after == CHOOSE f : f = [n \in 0 .. Len(wire) |->
                       IF n = 0 THEN NewMessage ELSE DecodeRecord(S, f[n - 1], wire[n])]
<1>0. Len(wire) \in Nat
    OBVIOUS
<1>1. \E f : Steps(S, wire, f, Len(wire))
    BY <1>0, StepsExist
<1>2. Steps(S, wire, after, Len(wire))
    BY <1>1 DEF Steps
<1>3. Decode(S, wire) = after[Len(wire)]
    BY DEF Decode
<1> QED BY <1>2, <1>3

\* Nothing read, nothing set.
LEMMA DecodeEmpty ==
    ASSUME NEW S
    PROVE  Decode(S, <<>>) = NewMessage
<1>1. PICK f : Steps(S, <<>>, f, Len(<<>>)) /\ Decode(S, <<>>) = f[Len(<<>>)]
    <2>1. <<>> \in Seq({})
        OBVIOUS
    <2> QED BY <2>1, DecodeSteps
<1> QED BY <1>1 DEF Steps

\* decode goes on from what it has with the next record.
LEMMA DecodeAppend ==
    ASSUME NEW S, NEW R, NEW wire \in Seq(R), NEW r \in R
    PROVE  Decode(S, Append(wire, r)) = DecodeRecord(S, Decode(S, wire), r)
<1> DEFINE w == Append(wire, r)
           k == Len(wire)
<1>1. k \in Nat /\ k + 1 \in Nat /\ k <= k + 1 /\ Len(w) = k + 1 /\ w \in Seq(R) /\ w[k + 1] = r /\ \A i \in 1 .. k : w[i] = wire[i]
    OBVIOUS
<1>2. PICK f : Steps(S, wire, f, k) /\ Decode(S, wire) = f[k]
    BY DecodeSteps
<1> HIDE DEF w, k
<1>3. PICK g : Steps(S, w, g, k + 1) /\ Decode(S, w) = g[k + 1]
    BY <1>1, DecodeSteps
<1>4. g[k + 1] = DecodeRecord(S, g[k], r)
    BY <1>1, <1>3 DEF Steps
<1>5. f[k] = g[k]
    <2>1. Steps(S, wire, f, k) /\ Steps(S, w, g, k + 1)
        BY <1>2, <1>3
    <2>2. k + 1 \in Nat /\ k \in 0 .. k + 1
        BY <1>1
    <2>3. \A i \in 1 .. k : wire[i] = w[i]
        BY <1>1
    <2> HIDE DEF w, k
    <2> QED BY <2>1, <2>2, <2>3, StepsAgree
<1> QED BY <1>2, <1>3, <1>4, <1>5 DEF w

\* What holds of no records and outlives one more holds of all sequences of
\* records: Good is the set of those it holds of.
LEMMA WireInduction ==
    ASSUME NEW R, NEW Good, <<>> \in Good,
           ASSUME NEW w \in Seq(R), w \in Good, NEW r \in R PROVE Append(w, r) \in Good
    PROVE  Seq(R) \subseteq Good
<1> DEFINE T == {n \in Nat : \A w \in Seq(R) : Len(w) = n => w \in Good}
<1>1. 0 \in T
    <2>1. \A w \in Seq(R) : Len(w) = 0 => w = <<>>
        OBVIOUS
    <2> QED BY <2>1
<1>2. ASSUME NEW n \in Nat, n \in T
      PROVE  n + 1 \in T
    <2> SUFFICES ASSUME NEW w \in Seq(R), Len(w) = n + 1 PROVE w \in Good
        OBVIOUS
    <2> DEFINE v == [i \in 1 .. n |-> w[i]]
    <2>1. v \in Seq(R) /\ Len(v) = n /\ w[n + 1] \in R
        OBVIOUS
    <2>2. w = Append(v, w[n + 1])
        OBVIOUS
    <2>3. v \in Good
        BY <1>2, <2>1
    <2> HIDE DEF v
    <2> QED BY <2>1, <2>2, <2>3
<1> HIDE DEF T
<1>3. Nat \subseteq T
    BY <1>1, <1>2, SetInduction
<1> QED BY <1>3 DEF T

\* The values of a message are as they are read, and not the default.
IsRead(S, m) ==
    \A n \in DOMAIN m.fields : m.fields[n] # 0 /\ Read(S[n].kind, m.fields[n]) = m.fields[n]

\* What decode makes of the records w.
IsDecoded(S, R, m, w) ==
    /\ DOMAIN m = {"fields", "unknowns"} /\ HasFields(S, m) /\ m.unknowns \in Seq(R)
    /\ LastRecordWins(S, m, w) /\ KeepsUnknowns(S, m, w)
    /\ IsRead(S, m)

\* Reading a value twice changes nothing more.
LEMMA ReadTwice ==
    ASSUME NEW kind, NEW value \in Nat
    PROVE  Read(kind, Read(kind, value)) = Read(kind, value)
<1>1. (value % Int32Range) % Int32Range = value % Int32Range
    BY Int32Assumption
<1> QED BY <1>1 DEF Read, Cut

LEMMA IsReadStep ==
    ASSUME NEW S, IsSchema(S), NEW m, HasParts(m), IsRead(S, m), NEW r, r.value \in Nat
    PROVE  IsRead(S, DecodeRecord(S, m, r))
<1> DEFINE d == DecodeRecord(S, m, r)
<1>1. CASE Known(S, r)
    <2>1. PICK name \in DOMAIN S : IsField(S, name, r)
        BY <1>1 DEF Known
    <2> DEFINE v == Value(S, name, r)
    <2>2. d.fields = IF v = 0 THEN Without(m.fields, name) ELSE With(m.fields, name, v)
        BY <2>1, DecodeKnown
    <2>3. Read(S[name].kind, v) = v
        BY ReadTwice DEF Value
    <2> HIDE DEF d, v
    <2>4. CASE v = 0
        <3>1. d.fields = Without(m.fields, name)
            BY <2>2, <2>4
        <3> QED BY <3>1 DEF IsRead, Without, d
    <2>5. CASE v # 0
        <3>1. d.fields = With(m.fields, name, v)
            BY <2>2, <2>5
        <3> QED BY <3>1, <2>3, <2>5 DEF IsRead, With, d
    <2> QED BY <2>4, <2>5
<1>2. CASE ~Known(S, r)
    <2>1. d.fields = m.fields
        BY <1>2, UnknownSetsNothing
    <2> HIDE DEF d
    <2> QED BY <2>1 DEF IsRead, d
<1> QED BY <1>1, <1>2

\* decode, for every schema and any records: the last record of a field wins,
\* a default is not owned, and every record no field takes is kept in order.
THEOREM DecodeIsSound ==
    ASSUME NEW S, IsSchema(S), NEW R, \A r \in R : r.value \in Nat, NEW wire \in Seq(R)
    PROVE  IsDecoded(S, R, Decode(S, wire), wire)
<1> DEFINE Good == {w \in Seq(R) : IsDecoded(S, R, Decode(S, w), w)}
<1>1. <<>> \in Good
    <2>1. NewMessage.fields = <<>> /\ NewMessage.unknowns = <<>> /\ DOMAIN NewMessage = {"fields", "unknowns"}
        BY DEF NewMessage
    <2>2. KeepsUnknowns(S, NewMessage, <<>>)
        <3> DEFINE at == [k \in {} |-> 0]
        <3>1. at \in [DOMAIN <<>> -> DOMAIN <<>>]
            OBVIOUS
        <3> QED BY <2>1, <3>1 DEF KeepsUnknowns
    <2>3. HasFields(S, NewMessage) /\ LastRecordWins(S, NewMessage, <<>>) /\ IsRead(S, NewMessage)
        BY <2>1 DEF HasFields, LastRecordWins, IsRead
    <2>4. <<>> \in Seq(R)
        OBVIOUS
    <2>5. IsDecoded(S, R, NewMessage, <<>>)
        BY <2>1, <2>2, <2>3, <2>4 DEF IsDecoded
    <2> QED BY <2>4, <2>5, DecodeEmpty
<1>2. ASSUME NEW w \in Seq(R), w \in Good, NEW r \in R
      PROVE  Append(w, r) \in Good
    <2> DEFINE m == Decode(S, w)
               d == DecodeRecord(S, m, r)
    <2>1. IsDecoded(S, R, m, w) /\ r.value \in Nat
        BY <1>2
    <2>2. Decode(S, Append(w, r)) = d
        BY DecodeAppend
    <2> HIDE DEF m
    <2>3. HasParts(m)
        BY <2>1 DEF IsDecoded, HasParts
    <2>4. DOMAIN d = {"fields", "unknowns"}
        <3>1. CASE Known(S, r)
            <4>1. PICK name \in DOMAIN S : IsField(S, name, r)
                BY <3>1 DEF Known
            <4> QED BY <4>1, <2>1, <2>3, DecodeKnown DEF IsDecoded
        <3>2. CASE ~Known(S, r)
            BY <3>2, <2>1, <2>3, DecodeUnknown DEF IsDecoded
        <3> QED BY <3>1, <3>2
    <2>5. HasFields(S, d) /\ d.unknowns \in Seq(R)
        BY <2>1, <2>3, DecodeKeepsFields DEF IsDecoded
    <2>6. LastRecordWins(S, d, Append(w, r))
        BY <2>1, <2>3, LastRecordStep DEF IsDecoded
    <2>7. KeepsUnknowns(S, d, Append(w, r))
        BY <2>1, <2>3, UnknownsStep DEF IsDecoded
    <2>8. IsRead(S, d)
        BY <2>1, <2>3, IsReadStep DEF IsDecoded
    <2> HIDE DEF d
    <2>9. IsDecoded(S, R, d, Append(w, r))
        BY <2>4, <2>5, <2>6, <2>7, <2>8 DEF IsDecoded
    <2> QED BY <2>2, <2>9
<1> HIDE DEF Good
<1>3. Seq(R) \subseteq Good
    BY <1>1, <1>2, WireInduction
<1> QED BY <1>3 DEF Good

-----------------------------------------------------------------------------
(***************************************************************************)
(* Encode.  Each own property has a place of its own, and every place has  *)
(* a property.                                                             *)
(***************************************************************************)
\* The fields of a schema are as many as their numbers.
LEMMA PlacesDiffer ==
    ASSUME NEW S, IsSchema(S), NEW own \in SUBSET DOMAIN S, IsFiniteSet(own),
           NEW a \in own, NEW b \in own, S[a].number < S[b].number
    PROVE  Place(S, own, a) < Place(S, own, b)
<1> DEFINE A == {n \in own : S[n].number <= S[a].number}
           B == {n \in own : S[n].number <= S[b].number}
<1>1. \A n \in own : S[n].number \in Nat
    BY DEF IsSchema
<1>2. A \in SUBSET B /\ b \in B /\ b \notin A
    BY <1>1
<1>3. IsFiniteSet(B) /\ B \in SUBSET own
    BY FS_Subset
<1> HIDE DEF A, B
<1>4. /\ Cardinality(A) <= Cardinality(B) /\ Cardinality(A) # Cardinality(B)
      /\ IsFiniteSet(A)
    BY <1>2, <1>3, FS_Subset
<1>5. Cardinality(A) \in Nat /\ Cardinality(B) \in Nat
    BY <1>3, <1>4, FS_CardinalityType
<1> QED BY <1>4, <1>5 DEF Place, A, B

LEMMA Places ==
    ASSUME NEW S, IsSchema(S), NEW own \in SUBSET DOMAIN S, IsFiniteSet(own)
    PROVE  /\ Cardinality(own) \in Nat
           /\ \A n \in own : Place(S, own, n) \in 1 .. Cardinality(own)
           /\ \A a, b \in own : Place(S, own, a) = Place(S, own, b) => a = b
           /\ \A i \in 1 .. Cardinality(own) : \E n \in own : Place(S, own, n) = i
<1> DEFINE c == Cardinality(own)
           f == [n \in own |-> Place(S, own, n)]
<1>1. c \in Nat
    BY FS_CardinalityType
<1>2. ASSUME NEW n \in own PROVE Place(S, own, n) \in 1 .. c
    <2> DEFINE N == {p \in own : S[p].number <= S[n].number}
    <2>1. S[n].number \in Nat
        BY DEF IsSchema
    <2>2. N \in SUBSET own /\ n \in N
        BY <2>1
    <2> HIDE DEF N
    <2>3. IsFiniteSet(N) /\ Cardinality(N) <= c /\ Cardinality(N) \in Nat
        BY <2>2, FS_Subset, FS_CardinalityType
    <2>4. Cardinality(N) # 0
        BY <2>2, <2>3, FS_EmptySet
    <2> QED BY <1>1, <2>3, <2>4 DEF Place, N
<1>3. ASSUME NEW a \in own, NEW b \in own, Place(S, own, a) = Place(S, own, b) PROVE a = b
    <2>1. S[a].number \in Nat /\ S[b].number \in Nat
        BY DEF IsSchema
    <2>2. ~(S[a].number < S[b].number) /\ ~(S[b].number < S[a].number)
        BY <1>2, <1>3, PlacesDiffer
    <2>3. S[a].number = S[b].number
        BY <2>1, <2>2
    <2> QED BY <2>3 DEF IsSchema
<1>4. f \in Injection(own, 1 .. c)
    BY <1>2, <1>3 DEF Injection, IsInjective
<1>5. IsFiniteSet(1 .. c) /\ Cardinality(1 .. c) = c
    BY <1>1, FS_Interval
<1> HIDE DEF f
<1>6. f \in Surjection(own, 1 .. c)
    BY <1>4, <1>5, FS_Injection
<1>7. \A i \in 1 .. c : \E n \in own : f[n] = i
    BY <1>6 DEF Surjection
<1> QED BY <1>1, <1>2, <1>3, <1>7 DEF f

\* One sequence after another.
LEMMA Concatenation ==
    ASSUME NEW R, NEW p \in Seq(R), NEW u \in Seq(R)
    PROVE  /\ p \o u \in Seq(R) /\ Len(p \o u) = Len(p) + Len(u)
           /\ Len(p) \in Nat /\ Len(u) \in Nat
           /\ \A i \in 1 .. Len(p) : (p \o u)[i] = p[i]
           /\ \A k \in 1 .. Len(u) : (p \o u)[Len(p) + k] = u[k]
OBVIOUS

\* A message that can be written.
CanBeWritten(S, m) ==
    /\ "fields" \in DOMAIN m /\ "unknowns" \in DOMAIN m
    /\ HasFields(S, m) /\ IsFiniteSet(DOMAIN m.fields)
    /\ m.unknowns \in Seq(WireRecord)
    /\ \A k \in DOMAIN m.unknowns : ~Known(S, m.unknowns[k])

\* What encode writes: a record of each own property and no other, then the
\* unknown records.
LEMMA EncodeFacts ==
    ASSUME NEW S, IsSchema(S), NEW m, CanBeWritten(S, m)
    PROVE  LET own == DOMAIN m.fields
               c == Cardinality(own)
               w == Encode(S, m)
           IN  /\ c \in Nat /\ w \in Seq(WireRecord) /\ Len(w) = c + Len(m.unknowns)
               /\ \A i \in 1 .. c : \E n \in own : i = Place(S, own, n) /\ w[i] = OwnRecord(S, m, n)
               /\ \A n \in own : Place(S, own, n) \in 1 .. c /\ w[Place(S, own, n)] = OwnRecord(S, m, n)
               /\ \A k \in 1 .. Len(m.unknowns) : w[c + k] = m.unknowns[k]
<1> DEFINE own == DOMAIN m.fields
           c == Cardinality(own)
           place == [n \in own |-> Place(S, own, n)]
           p == [i \in 1 .. c |-> OwnRecord(S, m, CHOOSE n \in own : place[n] = i)]
           u == m.unknowns
<1>1. /\ own \in SUBSET DOMAIN S /\ IsFiniteSet(own) /\ u \in Seq(WireRecord)
      /\ m.fields \in [own -> Nat]
    BY DEF CanBeWritten, HasFields
<1>2. /\ c \in Nat
      /\ \A n \in own : Place(S, own, n) \in 1 .. c
      /\ \A a, b \in own : Place(S, own, a) = Place(S, own, b) => a = b
      /\ \A i \in 1 .. c : \E n \in own : Place(S, own, n) = i
    BY <1>1, Places
<1>3. ASSUME NEW n \in own PROVE OwnRecord(S, m, n) \in WireRecord
    <2>1. S[n].number \in Nat
        BY <1>1 DEF IsSchema
    <2>2. WireType(S[n].kind) \in Nat
        BY DEF WireType
    <2>3. m.fields[n] \in Nat
        BY <1>1
    <2> QED BY <2>1, <2>2, <2>3 DEF OwnRecord, WireRecord
<1>4. Encode(S, m) = p \o u
    BY DEF Encode
<1>5. \A i \in 1 .. c : \E n \in own : i = Place(S, own, n) /\ p[i] = OwnRecord(S, m, n)
    <2> SUFFICES ASSUME NEW i \in 1 .. c
                 PROVE  \E n \in own : i = Place(S, own, n) /\ p[i] = OwnRecord(S, m, n)
        OBVIOUS
    <2> DEFINE n == CHOOSE x \in own : place[x] = i
    <2>1. \E x \in own : place[x] = i
        BY <1>2
    <2>2. n \in own /\ place[n] = i
        BY <2>1
    <2>3. p[i] = OwnRecord(S, m, n)
        OBVIOUS
    <2> HIDE DEF n, p
    <2> QED BY <2>2, <2>3
<1>6. p \in Seq(WireRecord) /\ Len(p) = c
    <2>1. \A i \in 1 .. c : p[i] \in WireRecord
        <3> HIDE DEF p
        <3> QED BY <1>3, <1>5
    <2>2. DOMAIN p = 1 .. c
        OBVIOUS
    <2>3. p = [i \in 1 .. c |-> p[i]]
        OBVIOUS
    <2> HIDE DEF p
    <2> QED BY <1>2, <2>1, <2>2, <2>3
<1> HIDE DEF p
<1>7. /\ p \o u \in Seq(WireRecord) /\ Len(p \o u) = c + Len(u)
      /\ \A i \in 1 .. c : (p \o u)[i] = p[i]
      /\ \A k \in 1 .. Len(u) : (p \o u)[c + k] = u[k]
    <2>1. p \in Seq(WireRecord) /\ u \in Seq(WireRecord) /\ c = Len(p)
        BY <1>1, <1>6
    <2> HIDE DEF c, u
    <2>2. /\ p \o u \in Seq(WireRecord) /\ Len(p \o u) = Len(p) + Len(u)
          /\ \A i \in 1 .. Len(p) : (p \o u)[i] = p[i]
          /\ \A k \in 1 .. Len(u) : (p \o u)[Len(p) + k] = u[k]
        BY <2>1, Concatenation
    <2> QED BY <2>1, <2>2
<1>8. \A n \in own : Place(S, own, n) \in 1 .. c /\ p[Place(S, own, n)] = OwnRecord(S, m, n)
    BY <1>2, <1>5
<1> HIDE DEF c, u, own
<1>9. /\ \A i \in 1 .. c : \E n \in own : i = Place(S, own, n) /\ (p \o u)[i] = OwnRecord(S, m, n)
      /\ \A n \in own : Place(S, own, n) \in 1 .. c /\ (p \o u)[Place(S, own, n)] = OwnRecord(S, m, n)
    BY <1>5, <1>7, <1>8
<1> QED BY <1>2, <1>4, <1>7, <1>9 DEF c, u, own

-----------------------------------------------------------------------------
(***************************************************************************)
(* Decode after encode.                                                    *)
(***************************************************************************)
\* A field with a record has a last one, and only one.
LEMMA LastExists ==
    ASSUME NEW S, NEW name, NEW R, NEW w \in Seq(R),
           \E i \in DOMAIN w : IsField(S, name, w[i])
    PROVE  \E i \in DOMAIN w : IsLast(S, name, w, i)
<1> DEFINE LastUpTo(k, i) == IsField(S, name, w[i]) /\ \A j \in i + 1 .. k : ~IsField(S, name, w[j])
           T == {k \in Nat : (\E i \in 1 .. k : IsField(S, name, w[i]))
                                => \E i \in 1 .. k : LastUpTo(k, i)}
<1>1. 0 \in T
    OBVIOUS
<1>2. ASSUME NEW k \in Nat, k \in T
      PROVE  k + 1 \in T
    <2> SUFFICES ASSUME NEW i \in 1 .. k + 1, IsField(S, name, w[i])
                 PROVE  \E l \in 1 .. k + 1 : LastUpTo(k + 1, l)
        OBVIOUS
    <2>1. CASE IsField(S, name, w[k + 1])
        <3>1. LastUpTo(k + 1, k + 1)
            BY <2>1
        <3> QED BY <3>1
    <2>2. CASE ~IsField(S, name, w[k + 1])
        <3>1. i \in 1 .. k
            BY <2>2
        <3>2. PICK l \in 1 .. k : LastUpTo(k, l)
            BY <1>2, <3>1
        <3>3. \A j \in l + 1 .. k + 1 : j \in l + 1 .. k \/ j = k + 1
            OBVIOUS
        <3> QED BY <2>2, <3>2, <3>3
    <2> QED BY <2>1, <2>2
<1> HIDE DEF T
<1>3. Len(w) \in Nat /\ DOMAIN w = 1 .. Len(w)
    OBVIOUS
<1>4. Len(w) \in T
    BY <1>1, <1>2, <1>3, SetInduction
<1> QED BY <1>3, <1>4 DEF T, IsLast

LEMMA LastIsUnique ==
    ASSUME NEW S, NEW name, NEW R, NEW w \in Seq(R), NEW i \in DOMAIN w, NEW j \in DOMAIN w,
           IsLast(S, name, w, i), IsLast(S, name, w, j)
    PROVE  i = j
<1>1. ~(i < j) /\ ~(j < i)
    BY DEF IsLast
<1> QED BY <1>1

\* Known records before the others do not matter to what is kept.
LEMMA KnownPrefix ==
    ASSUME NEW S, NEW d, NEW R, NEW w \in Seq(R), NEW t \in Seq(R), NEW c \in Nat,
           Len(w) = c + Len(t), \A i \in 1 .. c : Known(S, w[i]),
           \A k \in 1 .. Len(t) : w[c + k] = t[k],
           KeepsUnknowns(S, d, w)
    PROVE  KeepsUnknowns(S, d, t)
<1> DEFINE D == DOMAIN d.unknowns
<1>0. DOMAIN w = 1 .. c + Len(t) /\ DOMAIN t = 1 .. Len(t) /\ Len(t) \in Nat
    OBVIOUS
<1>1. ASSUME NEW i \in DOMAIN t
      PROVE  c + i \in DOMAIN w /\ w[c + i] = t[i]
    <2>1. c + i \in 1 .. c + Len(t) /\ i \in 1 .. Len(t)
        BY <1>0
    <2> QED BY <1>0, <2>1
<1>2. PICK at \in [D -> DOMAIN w] :
        /\ \A k \in D : d.unknowns[k] = w[at[k]]
        /\ \A k, l \in D : k < l => at[k] < at[l]
        /\ \A i \in DOMAIN w : ~Known(S, w[i]) <=> \E k \in D : at[k] = i
    BY DEF KeepsUnknowns
<1>3. ASSUME NEW k \in D
      PROVE  at[k] \in DOMAIN w /\ at[k] - c \in DOMAIN t /\ w[at[k]] = t[at[k] - c]
    <2>1. at[k] \in DOMAIN w /\ ~Known(S, w[at[k]])
        BY <1>2
    <2>2. at[k] \notin 1 .. c
        BY <2>1
    <2>3. at[k] - c \in 1 .. Len(t)
        BY <2>1, <2>2, <1>0
    <2> QED BY <2>1, <2>3, <1>0
<1> DEFINE to == [k \in D |-> at[k] - c]
<1>4. to \in [D -> DOMAIN t] /\ \A k \in D : d.unknowns[k] = t[to[k]]
    BY <1>2, <1>3
<1>5. \A k, l \in D : k < l => to[k] < to[l]
    <2> SUFFICES ASSUME NEW k \in D, NEW l \in D, k < l PROVE at[k] - c < at[l] - c
        OBVIOUS
    <2> QED BY <1>0, <1>2
<1>6. ASSUME NEW i \in DOMAIN t
      PROVE  ~Known(S, t[i]) <=> \E k \in D : to[k] = i
    <2>1. (\E k \in D : at[k] = c + i) <=> \E k \in D : to[k] = i
        <3>1. \A k \in D : at[k] = c + i <=> at[k] - c = i
            BY <1>0, <1>2
        <3> QED BY <3>1
    <2> QED BY <1>1, <1>2, <2>1
<1> HIDE DEF to
<1> QED BY <1>4, <1>5, <1>6 DEF KeepsUnknowns

\* What is kept of what was kept is what is kept at once.
LEMMA KeptTwice ==
    ASSUME NEW S, NEW m, NEW d, NEW R, NEW wire \in Seq(R), m.unknowns \in Seq(R),
           KeepsUnknowns(S, m, wire), KeepsUnknowns(S, d, m.unknowns)
    PROVE  KeepsUnknowns(S, d, wire)
<1> DEFINE M == DOMAIN m.unknowns
           D == DOMAIN d.unknowns
<1>1. PICK a \in [M -> DOMAIN wire] :
        /\ \A k \in M : m.unknowns[k] = wire[a[k]]
        /\ \A k, l \in M : k < l => a[k] < a[l]
        /\ \A i \in DOMAIN wire : ~Known(S, wire[i]) <=> \E k \in M : a[k] = i
    BY DEF KeepsUnknowns
<1>2. PICK b \in [D -> M] :
        /\ \A k \in D : d.unknowns[k] = m.unknowns[b[k]]
        /\ \A k, l \in D : k < l => b[k] < b[l]
        /\ \A i \in M : ~Known(S, m.unknowns[i]) <=> \E k \in D : b[k] = i
    BY DEF KeepsUnknowns
<1> HIDE DEF M, D
<1> DEFINE c == [k \in D |-> a[b[k]]]
<1>3. c \in [D -> DOMAIN wire] /\ \A k \in D : d.unknowns[k] = wire[c[k]]
    BY <1>1, <1>2
<1>4. \A k, l \in D : k < l => c[k] < c[l]
    BY <1>1, <1>2
<1>5. \A i \in M : ~Known(S, m.unknowns[i])
    BY <1>1
<1>6. ASSUME NEW i \in DOMAIN wire
      PROVE  ~Known(S, wire[i]) <=> \E k \in D : c[k] = i
    <2>1. \A j \in M : \E k \in D : b[k] = j
        BY <1>2, <1>5
    <2>2. (\E j \in M : a[j] = i) <=> \E k \in D : c[k] = i
        BY <1>2, <2>1
    <2> QED BY <1>1, <2>2
<1> HIDE DEF c
<1> QED BY <1>3, <1>4, <1>6 DEF KeepsUnknowns, M, D

\* A message encode can write and decode reads back: its values are cut to
\* their kinds already.
Fits(S, m) ==
    /\ CanBeWritten(S, m)
    /\ \A n \in DOMAIN m.fields : Read(S[n].kind, m.fields[n]) = m.fields[n]

\* What decode makes of the records w of a message m and of more records behind
\* them: each field has the value of the message or of its last record in more,
\* and the unknown records are those of the message and of more.
IsReadBack(S, m, more, w, d) ==
    /\ IsDecoded(S, WireRecord, d, w)
    /\ KeepsUnknowns(S, d, m.unknowns \o more)
    /\ \A name \in DOMAIN S :
          /\ \A j \in DOMAIN more :
                IsLast(S, name, more, j) => Get(d, name) = Value(S, name, more[j])
          /\ (\A j \in DOMAIN more : ~IsField(S, name, more[j])) => Get(d, name) = Get(m, name)

\* decode reads back what encode wrote, and takes what a newer server adds as
\* the format says.
THEOREM DecodeAfterEncode ==
    ASSUME NEW S, IsSchema(S), NEW m, Fits(S, m), NEW more \in Seq(WireRecord)
    PROVE  LET w == Encode(S, m) \o more
           IN  IsReadBack(S, m, more, w, Decode(S, w))
<1> DEFINE e == Encode(S, m)
           u == m.unknowns
           w == e \o more
           d == Decode(S, w)
           own == DOMAIN m.fields
           c == Cardinality(own)
<1>0. CanBeWritten(S, m) /\ \A n \in own : Read(S[n].kind, m.fields[n]) = m.fields[n]
    BY DEF Fits
<1>1. /\ c \in Nat /\ e \in Seq(WireRecord) /\ Len(e) = c + Len(u)
      /\ \A i \in 1 .. c : \E n \in own : i = Place(S, own, n) /\ e[i] = OwnRecord(S, m, n)
      /\ \A n \in own : Place(S, own, n) \in 1 .. c /\ e[Place(S, own, n)] = OwnRecord(S, m, n)
      /\ \A k \in 1 .. Len(u) : e[c + k] = u[k]
    BY <1>0, EncodeFacts
<1>2. /\ u \in Seq(WireRecord) /\ own \subseteq DOMAIN S /\ Len(u) \in Nat
      /\ \A k \in 1 .. Len(u) : ~Known(S, u[k])
    BY <1>0 DEF CanBeWritten, HasFields
<1> HIDE DEF c, e, own, u
<1>3. /\ w \in Seq(WireRecord) /\ Len(w) = c + Len(u) + Len(more)
      /\ DOMAIN w = 1 .. c + Len(u) + Len(more)
      /\ \A i \in 1 .. c : w[i] = e[i]
      /\ \A k \in 1 .. Len(u) : w[c + k] = u[k]
      /\ \A k \in 1 .. Len(more) : w[c + Len(u) + k] = more[k]
    <2>1. /\ w \in Seq(WireRecord) /\ Len(w) = Len(e) + Len(more)
          /\ \A i \in 1 .. Len(e) : w[i] = e[i]
          /\ \A k \in 1 .. Len(more) : w[Len(e) + k] = more[k]
        <3>1. e \in Seq(WireRecord)
            BY <1>1
        <3> QED BY ONLY <3>1, more \in Seq(WireRecord), Concatenation
    <2> HIDE DEF w
    <2>2. \A k \in 1 .. Len(u) : c + k \in 1 .. Len(e)
        BY <1>1, <1>2
    <2>3. \A i \in 1 .. c : i \in 1 .. Len(e)
        BY <1>1, <1>2
    <2> QED BY <1>1, <1>2, <2>1, <2>2, <2>3
<1> HIDE DEF w
<1>4. IsDecoded(S, WireRecord, d, w)
    BY <1>3, DecodeIsSound DEF WireRecord
<1> HIDE DEF d
<1>5. ASSUME NEW n \in own, NEW name \in DOMAIN S
      PROVE  IsField(S, name, OwnRecord(S, m, n)) <=> name = n
    BY <1>2 DEF IsField, OwnRecord, IsSchema
<1>6. \A i \in 1 .. c : Known(S, w[i])
    BY <1>1, <1>2, <1>3, <1>5 DEF Known
<1>7. KeepsUnknowns(S, d, u \o more)
    <2> DEFINE t == u \o more
    <2>1. /\ t \in Seq(WireRecord) /\ Len(t) = Len(u) + Len(more) /\ Len(more) \in Nat
          /\ \A k \in 1 .. Len(u) : t[k] = u[k]
          /\ \A k \in 1 .. Len(more) : t[Len(u) + k] = more[k]
        BY <1>2, Concatenation
    <2> HIDE DEF t
    <2>2. ASSUME NEW k \in 1 .. Len(t) PROVE w[c + k] = t[k]
        <3>1. CASE k <= Len(u)
            <4>1. k \in 1 .. Len(u)
                BY <3>1, <2>1, <1>2
            <4>2. w[c + k] = u[k] /\ t[k] = u[k]
                BY ONLY <4>1, <2>1, <1>3
            <4> QED BY ONLY <4>2
        <3>2. CASE k > Len(u)
            <4>1. k - Len(u) \in 1 .. Len(more) /\ k = Len(u) + (k - Len(u))
                  /\ c + k = c + Len(u) + (k - Len(u))
                BY <3>2, <2>1, <1>1, <1>2
            <4> QED BY ONLY <4>1, <2>1, <1>3
        <3> QED BY <3>1, <3>2, <2>1, <1>2
    <2>3. Len(w) = c + Len(t)
        BY <2>1, <1>1, <1>2, <1>3
    <2>4. KeepsUnknowns(S, d, w)
        BY <1>4 DEF IsDecoded
    <2>5. KeepsUnknowns(S, d, t)
        BY <2>1, <2>2, <2>3, <2>4, <1>1, <1>3, <1>6, KnownPrefix
    <2> QED BY <2>5 DEF t
<1>8. ASSUME NEW name \in DOMAIN S, NEW i \in DOMAIN w, IsLast(S, name, w, i)
      PROVE  Get(d, name) = Value(S, name, w[i])
    BY <1>4, <1>8 DEF IsDecoded, LastRecordWins, Get
<1>9. ASSUME NEW name \in DOMAIN S, NEW j \in DOMAIN more, IsLast(S, name, more, j)
      PROVE  Get(d, name) = Value(S, name, more[j])
    <2> DEFINE i == c + Len(u) + j
    <2>0. Len(more) \in Nat /\ DOMAIN more = 1 .. Len(more)
        OBVIOUS
    <2>1. i \in DOMAIN w /\ w[i] = more[j]
        BY <2>0, <1>1, <1>2, <1>3
    <2>2. ASSUME NEW k \in i + 1 .. Len(w) PROVE ~IsField(S, name, w[k])
        <3>1. k - c - Len(u) \in j + 1 .. Len(more) /\ k = c + Len(u) + (k - c - Len(u))
            BY <2>0, <1>1, <1>2, <1>3
        <3>2. k - c - Len(u) \in 1 .. Len(more)
            BY <3>1, <2>0
        <3>3. w[k] = more[k - c - Len(u)]
            BY <3>1, <3>2, <1>3
        <3> QED BY <3>1, <3>3, <1>9 DEF IsLast
    <2>3. IsLast(S, name, w, i)
        BY <2>1, <2>2, <1>9 DEF IsLast
    <2> QED BY <2>1, <2>3, <1>8
<1>10. ASSUME NEW name \in DOMAIN S, \A j \in DOMAIN more : ~IsField(S, name, more[j])
       PROVE  Get(d, name) = Get(m, name)
    <2>0. Len(more) \in Nat /\ DOMAIN more = 1 .. Len(more)
        OBVIOUS
    <2>1. ASSUME NEW k \in c + 1 .. Len(w) PROVE ~IsField(S, name, w[k])
        <3>1. CASE k <= c + Len(u)
            <4>1. k - c \in 1 .. Len(u) /\ k = c + (k - c)
                BY <3>1, <1>1, <1>2, <1>3
            <4>2. w[k] = u[k - c] /\ ~Known(S, u[k - c])
                BY <4>1, <1>2, <1>3
            <4> QED BY <4>2 DEF Known
        <3>2. CASE k > c + Len(u)
            <4>1. k - c - Len(u) \in 1 .. Len(more) /\ k = c + Len(u) + (k - c - Len(u))
                BY <3>2, <2>0, <1>1, <1>2, <1>3
            <4>2. w[k] = more[k - c - Len(u)]
                BY <4>1, <1>3
            <4> QED BY <4>1, <4>2, <2>0, <1>10
        <3> QED BY <3>1, <3>2, <1>1, <1>2, <1>3
    <2>2. CASE name \in own
        <3> DEFINE i == Place(S, own, name)
        <3>1. i \in 1 .. c /\ w[i] = OwnRecord(S, m, name)
            BY <2>2, <1>1, <1>3
        <3> HIDE DEF i
        <3>2. i \in DOMAIN w /\ \A k \in i + 1 .. Len(w) : k \in i + 1 .. c \/ k \in c + 1 .. Len(w)
            BY <3>1, <2>0, <1>1, <1>2, <1>3
        <3>3. ASSUME NEW k \in i + 1 .. c PROVE ~IsField(S, name, w[k])
            <4>0. k \in 1 .. c /\ k # i
                BY <3>1, <1>1
            <4>1. PICK n \in own : k = Place(S, own, n) /\ w[k] = OwnRecord(S, m, n)
                BY <4>0, <1>1, <1>3
            <4>2. n # name
                BY <4>0, <4>1 DEF i
            <4> QED BY <4>1, <4>2, <1>5
        <3>4. IsLast(S, name, w, i)
            BY <3>1, <3>2, <3>3, <2>1, <2>2, <1>5 DEF IsLast
        <3>5. Value(S, name, w[i]) = m.fields[name]
            BY <1>0, <3>1, <2>2 DEF Value, OwnRecord, own
        <3>6. Get(d, name) = m.fields[name]
            BY <3>2, <3>4, <3>5, <1>8
        <3> QED BY <3>6, <2>2 DEF Get, own
    <2>3. CASE name \notin own
        <3>1. \A k \in 1 .. c : ~IsField(S, name, w[k])
            BY <2>3, <1>1, <1>3, <1>5
        <3>2. \A k \in DOMAIN w : k \in 1 .. c \/ k \in c + 1 .. Len(w)
            BY <1>1, <1>2, <1>3
        <3>3. name \notin DOMAIN d.fields
            BY <3>1, <3>2, <2>1, <1>4 DEF IsDecoded, LastRecordWins
        <3> QED BY <3>3, <2>3 DEF Get, own
    <2> QED BY <2>2, <2>3
<1> QED BY <1>4, <1>7, <1>9, <1>10 DEF IsReadBack, d, w, e, u

-----------------------------------------------------------------------------
(***************************************************************************)
(* What each of the generated functions does to a message.                 *)
(***************************************************************************)
\* d has the values of m, and no default of its own.
Same(S, d, m) ==
    /\ \A name \in DOMAIN S : Get(d, name) = Get(m, name)
    /\ \A n \in DOMAIN d.fields : d.fields[n] # 0

\* The schemas of the API.
LEMMA PageIsSchema == IsSchema(PageFields)
BY DEF IsSchema, PageFields, Field, Kinds

LEMMA EventIsSchema == IsSchema(UeEventFields)
<1>2. \A n \in DOMAIN UeEventFields : UeEventFields[n].number \in Nat /\ UeEventFields[n].kind \in Kinds
    BY DEF UeEventFields, Field, Kinds
<1>3. ASSUME NEW a \in DOMAIN UeEventFields, NEW b \in DOMAIN UeEventFields, UeEventFields[a].number = UeEventFields[b].number
      PROVE a = b
    BY <1>3 DEF UeEventFields, Field
<1> QED BY <1>2, <1>3 DEF IsSchema

\* The schemas of the API are schemas, with finitely many fields.
LEMMA FiniteSchema ==
    ASSUME NEW S, IsSchema(S), NEW k \in Nat, \A n \in DOMAIN S : S[n].number \in 1 .. k,
           NEW own \in SUBSET DOMAIN S
    PROVE  IsFiniteSet(own)
<1> DEFINE f == [n \in own |-> S[n].number]
<1>1. f \in Injection(own, 1 .. k)
    BY DEF IsSchema, Injection, IsInjective
<1>2. IsFiniteSet(1 .. k)
    BY FS_Interval
<1> HIDE DEF f
<1> QED BY <1>1, <1>2, FS_Injection

LEMMA TheSchemas ==
    /\ IsSchema(UeEventFields) /\ \A own \in SUBSET DOMAIN UeEventFields : IsFiniteSet(own)
    /\ IsSchema(PageFields) /\ \A own \in SUBSET DOMAIN PageFields : IsFiniteSet(own)
<1>1. \A n \in DOMAIN UeEventFields : UeEventFields[n].number \in 1 .. 28
    BY DEF UeEventFields, Field
<1>2. \A n \in DOMAIN PageFields : PageFields[n].number \in 1 .. 5
    BY DEF PageFields, Field
<1> QED BY <1>1, <1>2, EventIsSchema, PageIsSchema, FiniteSchema

\* What decode returns can be encoded.
LEMMA DecodedFits ==
    ASSUME NEW S, NEW d, NEW w \in Seq(WireRecord), IsDecoded(S, WireRecord, d, w),
           IsFiniteSet(DOMAIN d.fields)
    PROVE  Fits(S, d) /\ \A n \in DOMAIN d.fields : d.fields[n] # 0
<1>1. \A k \in DOMAIN d.unknowns : ~Known(S, d.unknowns[k])
    <2>1. KeepsUnknowns(S, d, w)
        BY DEF IsDecoded
    <2> QED BY <2>1 DEF KeepsUnknowns
<1> QED BY <1>1 DEF IsDecoded, IsRead, Fits, CanBeWritten

\* decode(encode(m)).
LEMMA Reencoded ==
    ASSUME NEW S, IsSchema(S), \A own \in SUBSET DOMAIN S : IsFiniteSet(own), NEW m, Fits(S, m)
    PROVE  LET d == Decode(S, Encode(S, m))
           IN  /\ DOMAIN d = {"fields", "unknowns"} /\ Fits(S, d) /\ Same(S, d, m)
               /\ KeepsUnknowns(S, d, m.unknowns)
<1> DEFINE d == Decode(S, Encode(S, m))
           none == <<>>
<1>1. Encode(S, m) \in Seq(WireRecord) /\ m.unknowns \in Seq(WireRecord)
    BY EncodeFacts DEF Fits, CanBeWritten
<1>2. Encode(S, m) \o none = Encode(S, m) /\ m.unknowns \o none = m.unknowns
    BY <1>1
<1>3. none \in Seq(WireRecord) /\ DOMAIN none = {}
    OBVIOUS
<1> HIDE DEF none
<1>4. IsReadBack(S, m, none, Encode(S, m), d)
    <2>1. IsReadBack(S, m, none, Encode(S, m) \o none, Decode(S, Encode(S, m) \o none))
        BY <1>3, DecodeAfterEncode
    <2> QED BY <1>2, <2>1
<1>5. /\ IsDecoded(S, WireRecord, d, Encode(S, m))
      /\ KeepsUnknowns(S, d, m.unknowns)
      /\ \A name \in DOMAIN S : Get(d, name) = Get(m, name)
    BY <1>2, <1>3, <1>4 DEF IsReadBack
<1> HIDE DEF d
<1>6. IsFiniteSet(DOMAIN d.fields)
    BY <1>5 DEF IsDecoded, HasFields
<1>7. Fits(S, d) /\ \A n \in DOMAIN d.fields : d.fields[n] # 0
    BY <1>1, <1>5, <1>6, DecodedFits
<1> QED BY <1>5, <1>7 DEF Same, IsDecoded, d

\* fromObject(toObject(m, options)): names are found again, and defaults left
\* to the prototype.
LEMMA Converted ==
    ASSUME NEW S, IsSchema(S), \A own \in SUBSET DOMAIN S : IsFiniteSet(own), NEW m, Fits(S, m),
           NEW names \in BOOLEAN, NEW defaults \in BOOLEAN
    PROVE  LET d == FromObject(S, ToObject(S, m, names, defaults))
           IN  /\ DOMAIN d = {"fields", "unknowns"} /\ Fits(S, d) /\ Same(S, d, m)
               /\ d.unknowns = <<>>
<1> DEFINE o == ToObject(S, m, names, defaults)
           d == FromObject(S, o)
           N == {n \in DOMAIN o \cap DOMAIN S : Get(m, n) # 0}
<1>0. /\ DOMAIN m.fields \subseteq DOMAIN S /\ m.fields \in [DOMAIN m.fields -> Nat]
      /\ \A n \in DOMAIN m.fields : Read(S[n].kind, m.fields[n]) = m.fields[n]
    BY DEF Fits, CanBeWritten, HasFields
<1>1. /\ DOMAIN o = (IF defaults THEN DOMAIN S ELSE {}) \cup DOMAIN m.fields
      /\ \A n \in DOMAIN o : /\ o[n].is = Get(m, n)
                             /\ o[n].form = "name" => Named(S[n].kind, Get(m, n))
    BY DEF ToObject
<1> HIDE DEF o
<1>2. \A n \in DOMAIN o : Get(m, n) # 0 => n \in DOMAIN m.fields /\ Get(m, n) = m.fields[n]
    BY DEF Get
<1>3. \A n \in DOMAIN o \cap DOMAIN S :
         (o[n].is # 0 /\ (o[n].form = "name" => Named(S[n].kind, o[n].is))) <=> Get(m, n) # 0
    BY <1>1
<1>4. \A n \in N : Cut(S[n].kind, o[n].is) = m.fields[n]
    <2>1. \A n \in N : IsEnum(S[n].kind) => S[n].kind # "int32" /\ S[n].kind # "bool"
        BY DEF IsEnum, EnumSize
    <2>2. \A n \in N : o[n].is = m.fields[n] /\ n \in DOMAIN m.fields
        BY <1>1, <1>2
    <2> QED BY <1>0, <2>1, <2>2 DEF Read, Cut
<1>5. /\ DOMAIN d = {"fields", "unknowns"} /\ d.unknowns = <<>>
      /\ d.fields = [n \in {n \in DOMAIN o \cap DOMAIN S :
                              o[n].is # 0 /\ (o[n].form = "name" => Named(S[n].kind, o[n].is))} |->
                        Cut(S[n].kind, o[n].is)]
    BY DEF FromObject, NewMessage
<1> HIDE DEF d
<1>6. DOMAIN d.fields = N /\ \A n \in N : d.fields[n] = m.fields[n]
    <2>1. DOMAIN d.fields = N
        BY <1>3, <1>5
    <2>2. \A n \in N : d.fields[n] = Cut(S[n].kind, o[n].is)
        BY <1>5, <2>1
    <2> QED BY <2>1, <2>2, <1>4
<1>7. Same(S, d, m)
    BY <1>1, <1>2, <1>6 DEF Same, Get
<1>8. N \in SUBSET DOMAIN S /\ \A n \in N : m.fields[n] \in Nat /\ n \in DOMAIN m.fields
    BY <1>0, <1>2
<1>9. HasFields(S, d)
    <2>1. d.fields = [n \in N |-> d.fields[n]]
        BY <1>5, <1>6
    <2> HIDE DEF N
    <2>2. \A n \in N : d.fields[n] \in Nat
        BY <1>6, <1>8
    <2> QED BY <2>1, <2>2, <1>6, <1>8 DEF HasFields
<1>10. Fits(S, d)
    <2>1. IsFiniteSet(DOMAIN d.fields)
        BY <1>6, <1>8
    <2>2. \A n \in DOMAIN d.fields : Read(S[n].kind, d.fields[n]) = d.fields[n]
        BY <1>0, <1>6, <1>8
    <2>3. d.unknowns \in Seq(WireRecord) /\ DOMAIN d.unknowns = {}
        BY <1>5
    <2> QED BY <1>5, <1>9, <2>1, <2>2, <2>3 DEF Fits, CanBeWritten
<1> QED BY <1>5, <1>7, <1>10 DEF d, o

\* An assignment to a property.
LEMMA Assigned ==
    ASSUME NEW S, \A own \in SUBSET DOMAIN S : IsFiniteSet(own), NEW m, Fits(S, m),
           NEW name \in DOMAIN S, NEW value \in Nat, Read(S[name].kind, value) = value,
           NEW d, DOMAIN d = DOMAIN m, d.unknowns = m.unknowns,
           d.fields = With(m.fields, name, value)
    PROVE  /\ Fits(S, d) /\ Get(d, name) = value
           /\ \A n \in DOMAIN S : n # name => Get(d, n) = Get(m, n)
<1>1. /\ DOMAIN d.fields = DOMAIN m.fields \cup {name} /\ d.fields[name] = value
      /\ \A n \in DOMAIN m.fields : n # name => d.fields[n] = m.fields[n]
    BY DEF With
<1>2. HasFields(S, m) /\ CanBeWritten(S, m)
    BY DEF Fits, CanBeWritten
<1>3. HasFields(S, d)
    <2>1. d.fields = [n \in DOMAIN m.fields \cup {name} |-> d.fields[n]]
        BY <1>1 DEF With
    <2>2. \A n \in DOMAIN m.fields \cup {name} : d.fields[n] \in Nat
        BY <1>1, <1>2 DEF HasFields
    <2> QED BY <1>1, <1>2, <2>1, <2>2 DEF HasFields
<1>4. Fits(S, d)
    <2>1. IsFiniteSet(DOMAIN d.fields)
        BY <1>3 DEF HasFields
    <2> QED BY <1>1, <1>2, <1>3, <2>1 DEF Fits, CanBeWritten
<1> QED BY <1>1, <1>4 DEF Get

\* A message of the values v without the defaults.
OfValues(v) == [NewMessage EXCEPT !.fields = [n \in {n \in DOMAIN v : v[n] # 0} |-> v[n]]]

\* What is read of it when there are more records behind its own.
IsOfValues(S, v, more, d) ==
    /\ DOMAIN d = {"fields", "unknowns"} /\ Fits(S, d)
    /\ \A n \in DOMAIN d.fields : d.fields[n] # 0
    /\ KeepsUnknowns(S, d, more)
    /\ \A name \in DOMAIN S :
          /\ \A j \in DOMAIN more :
                IsLast(S, name, more, j) => Get(d, name) = Value(S, name, more[j])
          /\ (\A j \in DOMAIN more : ~IsField(S, name, more[j])) => Get(d, name) = v[name]

LEMMA Written ==
    ASSUME NEW S, IsSchema(S), \A own \in SUBSET DOMAIN S : IsFiniteSet(own),
           NEW v, DOMAIN v = DOMAIN S,
           \A n \in DOMAIN S : v[n] \in Nat /\ Read(S[n].kind, v[n]) = v[n],
           NEW more \in Seq(WireRecord)
    PROVE  /\ Encode(S, OfValues(v)) \in Seq(WireRecord)
           /\ IsOfValues(S, v, more, Decode(S, Encode(S, OfValues(v)) \o more))
<1> DEFINE N == {n \in DOMAIN v : v[n] # 0}
           m == OfValues(v)
           w == Encode(S, m) \o more
           d == Decode(S, w)
<1>1. /\ DOMAIN m = {"fields", "unknowns"} /\ m.unknowns = <<>>
      /\ m.fields = [n \in N |-> v[n]]
    BY DEF NewMessage, OfValues
<1> HIDE DEF m
<1>2. N \in SUBSET DOMAIN S /\ \A n \in N : v[n] \in Nat
    OBVIOUS
<1>3. Fits(S, m)
    <2>1. HasFields(S, m)
        BY <1>1, <1>2 DEF HasFields
    <2>2. IsFiniteSet(DOMAIN m.fields)
        BY <1>1, <1>2
    <2>3. m.unknowns \in Seq(WireRecord) /\ DOMAIN m.unknowns = {}
        <3>1. m.unknowns = <<>>
            BY <1>1
        <3> QED BY ONLY <3>1
    <2> QED BY <1>1, <1>2, <2>1, <2>2, <2>3 DEF Fits, CanBeWritten
<1>4. \A name \in DOMAIN S : Get(m, name) = v[name]
    BY <1>1 DEF Get
<1>5. m.unknowns \o more = more
    BY <1>1
<1>6. Encode(S, m) \in Seq(WireRecord)
    BY <1>3, EncodeFacts DEF Fits
<1>7. w \in Seq(WireRecord)
    BY <1>6
<1>8. IsReadBack(S, m, more, w, d)
    BY <1>3, DecodeAfterEncode
<1> HIDE DEF d, w
<1>9. IsFiniteSet(DOMAIN d.fields) /\ DOMAIN d = {"fields", "unknowns"}
    BY <1>8 DEF IsReadBack, IsDecoded, HasFields
<1>10. Fits(S, d) /\ \A n \in DOMAIN d.fields : d.fields[n] # 0
    BY <1>7, <1>8, <1>9, DecodedFits DEF IsReadBack
<1> QED BY <1>4, <1>5, <1>6, <1>8, <1>9, <1>10 DEF IsReadBack, IsOfValues, d, w, m

-----------------------------------------------------------------------------
(***************************************************************************)
(* PageDecoder.                                                            *)
(***************************************************************************)
DecoderInv ==
    TypeOK /\ PageIsItsLastRecords /\ EventsAreTheirRecords /\ UnknownsAreKept

\* What the type invariant says of the two messages under construction.
LEMMA Parts ==
    ASSUME TypeOK
    PROVE  /\ HasParts(page) /\ HasParts(event)
           /\ DOMAIN page = {"fields", "unknowns", "events"}
           /\ DOMAIN event = {"fields", "unknowns"}
<1>1. DOMAIN page = {"fields", "unknowns", "events"}
    <2>1. page = [fields |-> page.fields, unknowns |-> page.unknowns, events |-> page.events]
        BY DEF TypeOK
    <2> QED BY <2>1
<1>2. DOMAIN event = {"fields", "unknowns"}
    <2>1. event = [fields |-> event.fields, unknowns |-> event.unknowns]
        BY DEF TypeOK, IsEvent
    <2> QED BY <2>1
<1> QED BY <1>1, <1>2 DEF HasParts

\* A function on "fields", "unknowns" (and "events") is the record of its parts.
LEMMA IsRecord ==
    ASSUME NEW m, NEW r, HasParts(m)
    PROVE  /\ DOMAIN m = {"fields", "unknowns"} =>
                DOMAIN DecodeRecord(EventFields, m, r) = {"fields", "unknowns"}
           /\ DOMAIN m = {"fields", "unknowns", "events"} =>
                /\ DOMAIN DecodeRecord(ScalarFields, m, r) = {"fields", "unknowns", "events"}
                /\ DecodeRecord(ScalarFields, m, r).events = m.events
<1>0. IsSchema(EventFields) /\ IsSchema(ScalarFields)
    BY DecoderAssumption
<1>1. ASSUME NEW S, IsSchema(S)
      PROVE  /\ DOMAIN DecodeRecord(S, m, r) = DOMAIN m
             /\ "events" \in DOMAIN m => DecodeRecord(S, m, r).events = m.events
    <2>1. CASE Known(S, r)
        <3>1. PICK name \in DOMAIN S : IsField(S, name, r)
            BY <2>1 DEF Known
        <3> QED BY <1>1, <3>1, DecodeKnown
    <2>2. CASE ~Known(S, r)
        BY <2>2, DecodeUnknown
    <2> QED BY <2>1, <2>2
<1> QED BY <1>0, <1>1

\* At the start nothing is read and nothing is set.
LEMMA DecoderInit == Init => DecoderInv
<1> SUFFICES ASSUME Init PROVE DecoderInv
    OBVIOUS
<1>1. /\ status = "page" /\ page = NewPage /\ event = NewMessage
      /\ pageWire = <<>> /\ eventWires = <<>>
    BY DEF Init
<1>2. /\ page.fields = <<>> /\ page.unknowns = <<>> /\ page.events = <<>>
      /\ event.fields = <<>> /\ event.unknowns = <<>>
    BY <1>1 DEF NewPage, NewMessage
<1>3. HasFields(ScalarFields, page) /\ HasFields(EventFields, event)
    BY <1>2 DEF HasFields
<1>4. TypeOK
    BY <1>1, <1>2, <1>3 DEF TypeOK, IsEvent, NewPage, NewMessage
<1>5. PageIsItsLastRecords
    BY <1>1, <1>2 DEF PageIsItsLastRecords, LastRecordWins
<1>6. EventsAreTheirRecords
    BY <1>1, <1>2 DEF EventsAreTheirRecords
<1>7. UnknownsAreKept
    <2>1. KeepsUnknowns(ScalarFields, page, pageWire)
        <3> DEFINE at == [k \in {} |-> 0]
        <3>1. at \in [DOMAIN page.unknowns -> DOMAIN pageWire]
            BY <1>1, <1>2
        <3> QED BY <3>1, <1>1, <1>2 DEF KeepsUnknowns
    <2> QED BY <2>1, <1>1, <1>2 DEF UnknownsAreKept
<1> QED BY <1>4, <1>5, <1>6, <1>7 DEF DecoderInv

\* A record of the page.
LEMMA PageRecordKeeps == DecoderInv /\ PageRecord => DecoderInv'
<1> SUFFICES ASSUME DecoderInv, PageRecord PROVE DecoderInv'
    OBVIOUS
<1>0. TypeOK /\ HasParts(page) /\ IsSchema(ScalarFields)
    BY Parts, DecoderAssumption DEF DecoderInv
<1>1. PICK r \in Records : /\ page' = DecodeRecord(ScalarFields, page, r)
                           /\ pageWire' = Append(pageWire, r)
    BY DEF PageRecord
<1>2. /\ status = "page" /\ UNCHANGED <<status, event, eventWires>>
      /\ pageWire \in Seq(Records) /\ HasFields(ScalarFields, page) /\ page.unknowns \in Seq(Records)
    BY <1>0 DEF PageRecord, TypeOK, HasFields
<1>3. /\ DOMAIN page' = {"fields", "unknowns", "events"} /\ page'.events = page.events
    BY <1>0, <1>1, Parts, IsRecord
<1>4. HasFields(ScalarFields, page') /\ page'.unknowns \in Seq(Records)
    BY <1>0, <1>1, <1>2, DecodeKeepsFields, DecoderAssumption
<1>5. page' = [fields |-> page'.fields, unknowns |-> page'.unknowns, events |-> page'.events]
    <2>1. CASE Known(ScalarFields, r)
        BY <2>1, <1>0, <1>1, <1>3 DEF DecodeRecord, SetField, TypeOK
    <2>2. CASE ~Known(ScalarFields, r)
        BY <2>2, <1>0, <1>1, <1>3 DEF DecodeRecord, KeepUnknown, TypeOK
    <2> QED BY <2>1, <2>2
<1>6. TypeOK'
    <2>1. pageWire' \in Seq(Records)
        BY <1>1, <1>2
    <2> QED BY <2>1, <1>0, <1>2, <1>3, <1>4, <1>5 DEF TypeOK, IsEvent, HasFields
<1>7. PageIsItsLastRecords'
    BY <1>0, <1>1, <1>2, LastRecordStep DEF DecoderInv, PageIsItsLastRecords
<1>8. EventsAreTheirRecords'
    BY <1>2, <1>3 DEF DecoderInv, EventsAreTheirRecords
<1>9. UnknownsAreKept'
    <2>1. KeepsUnknowns(ScalarFields, page', pageWire')
        BY <1>0, <1>1, <1>2, UnknownsStep DEF DecoderInv, UnknownsAreKept
    <2> QED BY <2>1, <1>2, <1>3 DEF DecoderInv, UnknownsAreKept
<1> QED BY <1>6, <1>7, <1>8, <1>9 DEF DecoderInv

\* A new event starts with nothing of the one before it.
LEMMA EnterEventKeeps == DecoderInv /\ EnterEvent => DecoderInv'
<1> SUFFICES ASSUME DecoderInv, EnterEvent PROVE DecoderInv'
    OBVIOUS
<1>1. /\ status = "page" /\ status' = "event" /\ event' = NewMessage
      /\ eventWires' = Append(eventWires, <<>>)
      /\ UNCHANGED <<page, pageWire>>
    BY DEF EnterEvent
<1>2. TypeOK /\ eventWires \in Seq(Seq(Records)) /\ Len(page.events) = Len(eventWires)
    BY <1>1 DEF DecoderInv, TypeOK, EventsAreTheirRecords
<1>3. /\ Len(eventWires') = Len(eventWires) + 1 /\ Len(eventWires) \in Nat
      /\ DOMAIN eventWires = 1 .. Len(eventWires) /\ DOMAIN eventWires' = 1 .. Len(eventWires) + 1
      /\ \A i \in DOMAIN eventWires : eventWires'[i] = eventWires[i]
      /\ eventWires'[Len(eventWires')] = <<>>
      /\ eventWires' \in Seq(Seq(Records))
    BY <1>1, <1>2
<1>4. event'.fields = <<>> /\ event'.unknowns = <<>>
      /\ event' = [fields |-> event'.fields, unknowns |-> event'.unknowns]
    BY <1>1 DEF NewMessage
<1>5. HasFields(EventFields, event')
    BY <1>4 DEF HasFields
<1>6. TypeOK'
    BY <1>1, <1>2, <1>3, <1>4, <1>5 DEF TypeOK, IsEvent, HasFields
<1>7. EventsAreTheirRecords'
    <2>1. LastRecordWins(EventFields, event', <<>>)
        BY <1>4 DEF LastRecordWins
    <2>2. \A i \in DOMAIN page.events :
             i \in DOMAIN eventWires' /\ LastRecordWins(EventFields, page.events[i], eventWires'[i])
        <3> SUFFICES ASSUME NEW i \in DOMAIN page.events
                     PROVE  /\ i \in DOMAIN eventWires'
                            /\ LastRecordWins(EventFields, page.events[i], eventWires'[i])
            OBVIOUS
        <3>1. i \in DOMAIN eventWires /\ LastRecordWins(EventFields, page.events[i], eventWires[i])
            BY DEF DecoderInv, EventsAreTheirRecords
        <3>2. i \in DOMAIN eventWires' /\ eventWires'[i] = eventWires[i]
            BY <3>1, <1>3
        <3> QED BY <3>1, <3>2
    <2> QED BY <2>1, <2>2, <1>1, <1>2, <1>3 DEF EventsAreTheirRecords
<1>8. UnknownsAreKept'
    <2>1. KeepsUnknowns(EventFields, event', <<>>)
        <3> DEFINE at == [k \in {} |-> 0]
        <3>1. at \in [DOMAIN event'.unknowns -> DOMAIN <<>>]
            BY <1>4
        <3> QED BY <3>1, <1>4 DEF KeepsUnknowns
    <2>2. \A i \in DOMAIN page.events : KeepsUnknowns(EventFields, page.events[i], eventWires'[i])
        BY <1>3 DEF DecoderInv, EventsAreTheirRecords, UnknownsAreKept
    <2> QED BY <2>1, <2>2, <1>1, <1>3 DEF DecoderInv, UnknownsAreKept
<1>9. PageIsItsLastRecords'
    BY <1>1 DEF DecoderInv, PageIsItsLastRecords
<1> QED BY <1>6, <1>7, <1>8, <1>9 DEF DecoderInv

\* A record of an event.
LEMMA EventRecordKeeps == DecoderInv /\ EventRecord => DecoderInv'
<1> SUFFICES ASSUME DecoderInv, EventRecord PROVE DecoderInv'
    OBVIOUS
<1> DEFINE n == Len(eventWires)
<1>0. TypeOK /\ HasParts(event) /\ IsSchema(EventFields)
    BY Parts, DecoderAssumption DEF DecoderInv
<1>1. PICK r \in Records : /\ event' = DecodeRecord(EventFields, event, r)
                           /\ eventWires' = [eventWires EXCEPT ![n] = Append(@, r)]
    BY DEF EventRecord
<1>2. /\ status = "event" /\ UNCHANGED <<status, page, pageWire>>
      /\ eventWires \in Seq(Seq(Records)) /\ HasFields(EventFields, event)
      /\ event.unknowns \in Seq(Records)
      /\ n = Len(page.events) + 1
      /\ LastRecordWins(EventFields, event, eventWires[n])
      /\ KeepsUnknowns(EventFields, event, eventWires[n])
    BY <1>0 DEF EventRecord, TypeOK, IsEvent, HasFields, DecoderInv, EventsAreTheirRecords,
                UnknownsAreKept
<1>3. /\ DOMAIN page.events = 1 .. Len(page.events) /\ Len(page.events) \in Nat
      /\ DOMAIN eventWires = 1 .. n /\ n \in DOMAIN eventWires
      /\ eventWires[n] \in Seq(Records)
    BY <1>0, <1>2 DEF TypeOK
<1>4. /\ eventWires' \in Seq(Seq(Records)) /\ Len(eventWires') = n
      /\ DOMAIN eventWires' = DOMAIN eventWires
      /\ eventWires'[n] = Append(eventWires[n], r)
      /\ \A i \in DOMAIN eventWires : i # n => eventWires'[i] = eventWires[i]
    BY <1>1, <1>2, <1>3
<1> HIDE DEF n
<1>5. HasFields(EventFields, event') /\ event'.unknowns \in Seq(Records)
    BY <1>0, <1>1, <1>2, DecodeKeepsFields, DecoderAssumption
<1>6. event' = [fields |-> event'.fields, unknowns |-> event'.unknowns]
    <2>1. DOMAIN event' = {"fields", "unknowns"}
        BY <1>0, <1>1, Parts, IsRecord
    <2>2. CASE Known(EventFields, r)
        BY <2>1, <2>2, <1>0, <1>1 DEF DecodeRecord, SetField, TypeOK, IsEvent
    <2>3. CASE ~Known(EventFields, r)
        BY <2>1, <2>3, <1>0, <1>1 DEF DecodeRecord, KeepUnknown, TypeOK, IsEvent
    <2> QED BY <2>2, <2>3
<1>7. TypeOK'
    BY <1>0, <1>2, <1>4, <1>5, <1>6 DEF TypeOK, IsEvent, HasFields
<1>8. \A i \in DOMAIN page.events : i \in DOMAIN eventWires /\ i # n /\ eventWires'[i] = eventWires[i]
    <2> SUFFICES ASSUME NEW i \in DOMAIN page.events
                 PROVE  i \in DOMAIN eventWires /\ i # n /\ eventWires'[i] = eventWires[i]
        OBVIOUS
    <2>1. i \in 1 .. Len(page.events)
        BY <1>3
    <2>2. i \in 1 .. n /\ i # n
        BY <2>1, <1>2, <1>3
    <2> QED BY <2>2, <1>3, <1>4
<1>9. EventsAreTheirRecords'
    <2>1. LastRecordWins(EventFields, event', eventWires'[n])
        BY <1>0, <1>1, <1>2, <1>3, <1>4, LastRecordStep
    <2> QED BY <2>1, <1>2, <1>4, <1>8 DEF DecoderInv, EventsAreTheirRecords
<1>10. UnknownsAreKept'
    <2>1. KeepsUnknowns(EventFields, event', eventWires'[n])
        BY <1>0, <1>1, <1>2, <1>3, <1>4, UnknownsStep
    <2> QED BY <2>1, <1>2, <1>4, <1>8 DEF DecoderInv, UnknownsAreKept
<1>11. PageIsItsLastRecords'
    BY <1>2 DEF DecoderInv, PageIsItsLastRecords
<1> QED BY <1>7, <1>9, <1>10, <1>11 DEF DecoderInv

\* A finished event takes the place of its records.
LEMMA LeaveEventKeeps == DecoderInv /\ LeaveEvent => DecoderInv'
<1> SUFFICES ASSUME DecoderInv, LeaveEvent PROVE DecoderInv'
    OBVIOUS
<1>0. TypeOK /\ IsEvent(event) /\ DOMAIN page = {"fields", "unknowns", "events"}
    BY Parts DEF DecoderInv, TypeOK
<1>1. /\ status = "event" /\ status' = "page"
      /\ page' = [page EXCEPT !.events = Append(@, event)]
      /\ UNCHANGED <<event, pageWire, eventWires>>
    BY DEF LeaveEvent
<1>2. /\ page'.events = Append(page.events, event)
      /\ page'.fields = page.fields /\ page'.unknowns = page.unknowns
      /\ page' = [fields |-> page'.fields, unknowns |-> page'.unknowns, events |-> page'.events]
    <2>1. page'.events = Append(page.events, event)
        BY <1>0, <1>1
    <2>2. page'.fields = page.fields /\ page'.unknowns = page.unknowns
        BY <1>0, <1>1
    <2>3. page' = [fields |-> page.fields, unknowns |-> page.unknowns, events |-> Append(page.events, event)]
        BY <1>0, <1>1
    <2> QED BY <2>1, <2>2, <2>3
<1> DEFINE all == {page.events[i] : i \in DOMAIN page.events} \cup {event}
<1>3. page.events \in Seq(all) /\ event \in all
    BY <1>0 DEF TypeOK
<1> HIDE DEF all
<1>4. /\ page'.events \in Seq(all)
      /\ Len(page.events) \in Nat /\ Len(page'.events) = Len(page.events) + 1
      /\ DOMAIN page.events = 1 .. Len(page.events)
      /\ DOMAIN page'.events = 1 .. Len(page.events) + 1
      /\ \A i \in DOMAIN page.events : page'.events[i] = page.events[i]
      /\ page'.events[Len(page.events) + 1] = event
    BY <1>2, <1>3
<1>5. page'.events \in Seq({page'.events[i] : i \in DOMAIN page'.events})
    BY <1>4
<1>6. \A i \in DOMAIN page'.events : i \in DOMAIN page.events \/ i = Len(page.events) + 1
    BY <1>4
<1>7. TypeOK'
    <2>1. \A i \in DOMAIN page'.events : IsEvent(page'.events[i])
        BY <1>0, <1>4, <1>6 DEF TypeOK
    <2> QED BY <2>1, <1>0, <1>1, <1>2, <1>5 DEF TypeOK, HasFields, IsEvent
<1>8. /\ Len(eventWires) = Len(page.events) + 1 /\ DOMAIN eventWires = 1 .. Len(eventWires)
      /\ LastRecordWins(EventFields, event, eventWires[Len(eventWires)])
      /\ KeepsUnknowns(EventFields, event, eventWires[Len(eventWires)])
      /\ \A i \in DOMAIN page.events :
            /\ i \in DOMAIN eventWires
            /\ LastRecordWins(EventFields, page.events[i], eventWires[i])
            /\ KeepsUnknowns(EventFields, page.events[i], eventWires[i])
    BY <1>0, <1>1 DEF DecoderInv, TypeOK, EventsAreTheirRecords, UnknownsAreKept
<1>9. \A i \in DOMAIN page'.events :
         /\ i \in DOMAIN eventWires
         /\ LastRecordWins(EventFields, page'.events[i], eventWires[i])
         /\ KeepsUnknowns(EventFields, page'.events[i], eventWires[i])
    BY <1>4, <1>6, <1>8
<1>10. EventsAreTheirRecords'
    BY <1>1, <1>4, <1>8, <1>9 DEF EventsAreTheirRecords
<1>11. UnknownsAreKept'
    <2>1. KeepsUnknowns(ScalarFields, page', pageWire')
        <3>1. KeepsUnknowns(ScalarFields, page, pageWire)
            BY DEF DecoderInv, UnknownsAreKept
        <3>2. page'.unknowns = page.unknowns /\ pageWire' = pageWire
            BY <1>1, <1>2
        <3> QED BY <3>1, <3>2 DEF KeepsUnknowns
    <2> QED BY <2>1, <1>1, <1>9 DEF UnknownsAreKept
<1>12. PageIsItsLastRecords'
    BY <1>1, <1>2 DEF DecoderInv, PageIsItsLastRecords, LastRecordWins
<1> QED BY <1>7, <1>10, <1>11, <1>12 DEF DecoderInv

\* The end, and steps that change nothing.
LEMMA EndKeeps == DecoderInv /\ (Return \/ Throw \/ UNCHANGED vars) => DecoderInv'
<1> SUFFICES ASSUME DecoderInv, Return \/ Throw \/ UNCHANGED vars PROVE DecoderInv'
    OBVIOUS
<1>1. /\ UNCHANGED <<page, event, pageWire, eventWires>>
      /\ status' = status \/ status' = "thrown" \/ (status = "page" /\ status' = "done")
    BY DEF Return, Throw, vars
<1>2. TypeOK'
    BY <1>1 DEF DecoderInv, TypeOK, HasFields, IsEvent
<1>3. PageIsItsLastRecords'
    BY <1>1 DEF DecoderInv, PageIsItsLastRecords
<1>4. EventsAreTheirRecords'
    BY <1>1 DEF DecoderInv, EventsAreTheirRecords
<1>5. UnknownsAreKept'
    BY <1>1 DEF DecoderInv, UnknownsAreKept
<1> QED BY <1>2, <1>3, <1>4, <1>5 DEF DecoderInv

\* The invariant holds in every state of every decode.
THEOREM DecoderInvariant == Spec => []DecoderInv
<1>1. Init => DecoderInv
    BY DecoderInit
<1>2. DecoderInv /\ [Next]_vars => DecoderInv'
    BY PageRecordKeeps, EnterEventKeeps, EventRecordKeeps, LeaveEventKeeps, EndKeeps DEF Next
<1> QED BY <1>1, <1>2, PTL DEF Spec

\* A page under construction is a page and its events are events.
THEOREM DecoderTypeCorrect == Spec => []TypeOK
<1>1. DecoderInv => TypeOK
    BY DEF DecoderInv
<1> QED BY <1>1, DecoderInvariant, PTL

\* The last record of a number wins, defaults included.
THEOREM LastRecordOfThePage == Spec => []PageIsItsLastRecords
<1>1. DecoderInv => PageIsItsLastRecords
    BY DEF DecoderInv
<1> QED BY <1>1, DecoderInvariant, PTL

\* Events come in the order of the wire, each from its own records.
THEOREM EventsInOrder == Spec => []EventsAreTheirRecords
<1>1. DecoderInv => EventsAreTheirRecords
    BY DEF DecoderInv
<1> QED BY <1>1, DecoderInvariant, PTL

\* No record is lost, and none is kept twice.
THEOREM NoRecordIsLost == Spec => []UnknownsAreKept
<1>1. DecoderInv => UnknownsAreKept
    BY DEF DecoderInv
<1> QED BY <1>1, DecoderInvariant, PTL

\* Both hold of the decode that returns and of the one that is under way.
THEOREM MessagesFromTheirRecords == Spec => []MessagesAreTheirRecords
<1>1. DecoderInv => MessagesAreTheirRecords
    BY DEF DecoderInv, MessagesAreTheirRecords
<1> QED BY <1>1, DecoderInvariant, PTL

-----------------------------------------------------------------------------
(***************************************************************************)
(* A page through any sequence of calls.                                   *)
(***************************************************************************)
\* m reads as the values v and has no other surprises for encode.
Carries(S, m, v) ==
    /\ DOMAIN m.fields \subseteq DOMAIN S /\ Fits(S, m)
    /\ \A name \in DOMAIN S : Get(m, name) = v[name]

OwnsNoDefault(m) == \A n \in DOMAIN m.fields : m.fields[n] # 0

\* Messages read as the values of their rows; the rest is what each call needs
\* of the one before.
CallsInv ==
    /\ CallsTypeOK
    /\ Carries(PageFields, message, totals)
    /\ \A i \in 1 .. Len(values) : Carries(UeEventFields, message.events[i], values[i])
    /\ LaterFieldsSurvive
    /\ made # "assignment" => \A i \in 1 .. Len(values) : OwnsNoDefault(message.events[i])

\* Reading a value that fits changes nothing.
LEMMA ReadFits ==
    ASSUME NEW S, NEW name \in DOMAIN S, S[name].kind \in Kinds, NEW value, FitsKind(S, name, value),
           IsEnum(S[name].kind) => value < EnumSize[S[name].kind]
    PROVE  Read(S[name].kind, value) = value
<1>1. Int32Range \in Nat /\ Int32Range # 0 /\ value \in Nat
    BY Int32Assumption DEF FitsKind
<1>2. (S[name].kind = "int32" => value < Int32Range) /\ (S[name].kind = "bool" => value \in 0 .. 1)
    BY DEF FitsKind
<1>3. IsEnum(S[name].kind) => value < Int32Range
    <2>1. \A kind \in DOMAIN EnumSize : EnumSize[kind] \in Nat
        BY DEF EnumSize
    <2> QED BY <2>1, <1>1, CallsAssumption DEF IsEnum
<1>4. value < Int32Range => value % Int32Range = value
    BY <1>1
<1> QED BY <1>1, <1>2, <1>3, <1>4 DEF Read, Cut

\* A row as the server reads it.
LEMMA RowFits ==
    ASSUME NEW row \in Rows
    PROVE  /\ DOMAIN FromRow(row) = DOMAIN UeEventFields
           /\ \A n \in DOMAIN UeEventFields :
                 /\ FromRow(row)[n] = ColumnValue(row, n)
                 /\ FromRow(row)[n] \in Nat
                 /\ Read(UeEventFields[n].kind, FromRow(row)[n]) = FromRow(row)[n]
<1>1. DOMAIN FromRow(row) = DOMAIN UeEventFields
    BY DEF FromRow
<1>2. ASSUME NEW n \in DOMAIN UeEventFields
      PROVE  /\ FromRow(row)[n] = ColumnValue(row, n)
             /\ FromRow(row)[n] \in Nat
             /\ Read(UeEventFields[n].kind, FromRow(row)[n]) = FromRow(row)[n]
    <2> DEFINE kind == UeEventFields[n].kind
               value == FromRow(row)[n]
    <2>1. kind \in Kinds
        BY EventIsSchema DEF IsSchema
    <2>2. row[n] \in Nat \cup {Null} /\ (row[n] = Null \/ FitsKind(UeEventFields, n, row[n]))
        BY CallsAssumption
    <2>3. \A k \in DOMAIN EnumSize : EnumSize[k] \in Nat \ {0}
        BY DEF EnumSize
    <2>4. value = ColumnValue(row, n)
        BY <2>2, <2>3 DEF FromRow, ColumnValue, Named, IsEnum, Null, FitsKind
    <2>5. FitsKind(UeEventFields, n, value) /\ (IsEnum(kind) => value < EnumSize[kind])
        <3>1. \/ value = 0
              \/ row[n] # Null /\ value = row[n] /\ (IsEnum(kind) => Named(kind, value))
            BY DEF FromRow
        <3>2. CASE value = 0
            BY <3>2, <2>3, Int32Assumption DEF FitsKind, IsEnum
        <3>3. CASE row[n] # Null /\ value = row[n] /\ (IsEnum(kind) => Named(kind, value))
            BY <3>3, <2>2 DEF Named
        <3> QED BY <3>1, <3>2, <3>3
    <2> HIDE DEF value
    <2>6. Read(kind, value) = value
        BY <2>1, <2>5, ReadFits
    <2> QED BY <2>4, <2>5, <2>6 DEF FitsKind, value
<1> QED BY <1>1, <1>2

\* An event of a response, with what a newer server adds.
LEMMA FirstEvent ==
    ASSUME NEW row \in Rows, NEW more \in NewerRecords,
           NEW d, d = Decode(UeEventFields, Serialize(FromRow(row)) \o more)
    PROVE  /\ DOMAIN d = {"fields", "unknowns"}
           /\ Carries(UeEventFields, d, [f \in DOMAIN UeEventFields |-> FieldValue(row, more, f)])
           /\ OwnsNoDefault(d) /\ KeepsUnknowns(UeEventFields, d, more)
<1> DEFINE S == UeEventFields
           v == FromRow(row)
<1>1. d = Decode(S, Encode(S, OfValues(v)) \o more)
    BY DEF Serialize, OfValues
<1>2. /\ IsSchema(S) /\ \A own \in SUBSET DOMAIN S : IsFiniteSet(own)
      /\ more \in Seq(WireRecord)
    BY TheSchemas, CallsAssumption
<1>3. /\ DOMAIN v = DOMAIN S
      /\ \A n \in DOMAIN S : v[n] \in Nat /\ Read(S[n].kind, v[n]) = v[n]
      /\ \A n \in DOMAIN S : v[n] = ColumnValue(row, n)
    BY RowFits
<1> HIDE DEF v, S
<1>4. IsOfValues(S, v, more, d)
    BY <1>1, <1>2, <1>3, Written
<1>5. /\ DOMAIN d = {"fields", "unknowns"} /\ Fits(S, d)
      /\ \A n \in DOMAIN d.fields : d.fields[n] # 0
      /\ KeepsUnknowns(S, d, more)
      /\ \A name \in DOMAIN S :
            /\ \A j \in DOMAIN more :
                  IsLast(S, name, more, j) => Get(d, name) = Value(S, name, more[j])
            /\ (\A j \in DOMAIN more : ~IsField(S, name, more[j])) => Get(d, name) = v[name]
    BY <1>4 DEF IsOfValues
<1>6. ASSUME NEW name \in DOMAIN S
      PROVE  Get(d, name) = FieldValue(row, more, name)
    <2>1. CASE \E i \in DOMAIN more : IsField(S, name, more[i])
        <3>1. \E i \in DOMAIN more : IsLast(S, name, more, i)
            BY <2>1, <1>2, LastExists
        <3> DEFINE last == CHOOSE i \in DOMAIN more : IsLast(S, name, more, i)
        <3>2. last \in DOMAIN more /\ IsLast(S, name, more, last)
            BY <3>1
        <3>3. FieldValue(row, more, name) = Value(S, name, more[last])
            BY <2>1 DEF FieldValue, S
        <3> QED BY <3>2, <3>3, <1>5
    <2>2. CASE \A i \in DOMAIN more : ~IsField(S, name, more[i])
        BY <2>2, <1>3, <1>5 DEF FieldValue, S
    <2> QED BY <2>1, <2>2
<1>7. DOMAIN d.fields \subseteq DOMAIN S
    BY <1>5 DEF Fits, CanBeWritten, HasFields
<1> QED BY <1>5, <1>6, <1>7 DEF Carries, OwnsNoDefault, S

\* The numbers of a response.
LEMMA FirstNumbers ==
    ASSUME NEW numbers \in Numbers
    PROVE  /\ numbers \in [DOMAIN PageFields -> Nat]
           /\ Carries(PageFields, Decode(PageFields, Encode(PageFields, OfValues(numbers))), numbers)
<1> DEFINE S == PageFields
           none == <<>>
           d == Decode(S, Encode(S, OfValues(numbers)))
<1>1. IsSchema(S) /\ \A own \in SUBSET DOMAIN S : IsFiniteSet(own)
    BY TheSchemas
<1>2. /\ numbers \in [DOMAIN S -> Nat]
      /\ \A n \in DOMAIN S : FitsKind(S, n, numbers[n])
    BY CallsAssumption
<1>4. \A n \in DOMAIN S : Read(S[n].kind, numbers[n]) = numbers[n]
    <2>1. \A n \in DOMAIN S : S[n].kind \in Kinds /\ ~IsEnum(S[n].kind)
        BY DEF PageFields, Field, Kinds, IsEnum, EnumSize
    <2> HIDE DEF S
    <2> QED BY <1>2, <2>1, ReadFits
<1>5. none \in Seq(WireRecord) /\ DOMAIN none = {}
    OBVIOUS
<1> HIDE DEF S, none
<1>6. Encode(S, OfValues(numbers)) \in Seq(WireRecord)
    BY <1>1, <1>2, <1>4, <1>5, Written
<1>7. Encode(S, OfValues(numbers)) \o none = Encode(S, OfValues(numbers))
    BY <1>6 DEF none
<1>8. IsOfValues(S, numbers, none, Decode(S, Encode(S, OfValues(numbers)) \o none))
    BY <1>1, <1>2, <1>4, <1>5, Written
<1>9. IsOfValues(S, numbers, none, d)
    BY <1>7, <1>8
<1> HIDE DEF d
<1>10. Carries(S, d, numbers)
    BY <1>5, <1>9 DEF IsOfValues, Carries, Fits, CanBeWritten, HasFields
<1> QED BY <1>2, <1>10 DEF S, d

\* What CallsTypeOK says of a message that carries natural numbers.
LEMMA CarriesType ==
    ASSUME NEW S, NEW m, NEW v, Carries(S, m, v)
    PROVE  IsMessage(S, m)
BY DEF Carries, Fits, CanBeWritten, IsMessage

\* A history of k values is a sequence of them.
LEMMA Histories ==
    ASSUME NEW k \in Nat, NEW V, NEW f, f \in [1 .. k -> V]
    PROVE  f \in Seq(V) /\ Len(f) = k
OBVIOUS

\* The page a browser starts with.
LEMMA CallsInitial == CallsInit => CallsInv
<1> SUFFICES ASSUME CallsInit PROVE CallsInv
    OBVIOUS
<1>1. PICK n \in 0 .. MaxRows : \E rows \in [1 .. n -> Rows], numbers \in Numbers :
        /\ added \in [1 .. n -> NewerRecords]
        /\ message = DecodePage(Response(rows, numbers, added))
        /\ values = [i \in 1 .. n |-> [f \in DOMAIN UeEventFields |-> FieldValue(rows[i], added[i], f)]]
        /\ totals = numbers
        /\ made = "decode" /\ converted = FALSE /\ calls = 0
    BY DEF CallsInit
<1>2. PICK rows \in [1 .. n -> Rows], numbers \in Numbers :
        /\ added \in [1 .. n -> NewerRecords]
        /\ message = DecodePage(Response(rows, numbers, added))
        /\ values = [i \in 1 .. n |-> [f \in DOMAIN UeEventFields |-> FieldValue(rows[i], added[i], f)]]
        /\ totals = numbers
        /\ made = "decode" /\ converted = FALSE /\ calls = 0
    BY <1>1
<1> DEFINE Events == [i \in 1 .. n |-> Decode(UeEventFields, Serialize(FromRow(rows[i])) \o added[i])]
           Rest == Decode(PageFields, Encode(PageFields, OfValues(numbers)))
<1>3. /\ DOMAIN message = {"fields", "unknowns", "events"} /\ message.events = Events
      /\ message.fields = Rest.fields /\ message.unknowns = Rest.unknowns
    BY <1>2 DEF DecodePage, Response, AsPage, OfValues
<1>4. n \in Nat
    BY CallsAssumption
<1>5. ASSUME NEW i \in 1 .. n
      PROVE  /\ DOMAIN message.events[i] = {"fields", "unknowns"}
             /\ Carries(UeEventFields, message.events[i], values[i])
             /\ OwnsNoDefault(message.events[i])
             /\ KeepsUnknowns(UeEventFields, message.events[i], added[i])
    <2>1. /\ message.events[i] = Decode(UeEventFields, Serialize(FromRow(rows[i])) \o added[i])
          /\ values[i] = [f \in DOMAIN UeEventFields |-> FieldValue(rows[i], added[i], f)]
          /\ rows[i] \in Rows /\ added[i] \in NewerRecords
        BY <1>2, <1>3
    <2> QED BY <2>1, FirstEvent
<1>6. Carries(PageFields, Rest, numbers) /\ numbers \in [DOMAIN PageFields -> Nat]
    BY FirstNumbers
<1> HIDE DEF Events, Rest
<1>7. Carries(PageFields, message, totals)
    BY <1>2, <1>3, <1>6 DEF Carries, Fits, CanBeWritten, HasFields, Get
<1>8. values \in [1 .. n -> [DOMAIN UeEventFields -> Nat]]
    <2>1. ASSUME NEW i \in 1 .. n, NEW f \in DOMAIN UeEventFields
          PROVE  values[i][f] \in Nat
        BY <1>5 DEF Carries, Fits, CanBeWritten, HasFields, Get
    <2> QED BY <1>2, <2>1
<1>9. values \in Seq([DOMAIN UeEventFields -> Nat]) /\ Len(values) = n
    BY <1>4, <1>8, Histories
<1>10. added \in [1 .. n -> Seq(WireRecord)]
    BY <1>2, CallsAssumption
<1>11. CallsTypeOK
    <2>1. IsMessage(PageFields, message) /\ DOMAIN message.events = 1 .. n
        BY <1>3, <1>7, CarriesType DEF Events
    <2>2. \A i \in 1 .. n : IsMessage(UeEventFields, message.events[i])
        BY <1>5, CarriesType
    <2>3. calls \in 0 .. MaxCalls
        BY <1>2, CallsAssumption
    <2> QED BY <1>2, <1>3, <1>5, <1>6, <1>9, <1>10, <2>1, <2>2, <2>3 DEF CallsTypeOK
<1>12. LaterFieldsSurvive
    BY <1>2, <1>5 DEF LaterFieldsSurvive
<1> QED BY <1>5, <1>7, <1>9, <1>11, <1>12 DEF CallsInv

\* No records to keep, none kept.
LEMMA NothingKept ==
    ASSUME NEW S, NEW d, d.unknowns \in Seq(WireRecord), KeepsUnknowns(S, d, <<>>)
    PROVE  d.unknowns = <<>>
<1>1. DOMAIN <<>> = {}
    OBVIOUS
<1>2. DOMAIN d.unknowns = {}
    BY <1>1 DEF KeepsUnknowns
<1>3. ASSUME NEW u \in Seq(WireRecord), DOMAIN u = {} PROVE u = <<>>
    <2>1. DOMAIN u = 1 .. Len(u) /\ Len(u) \in Nat
        OBVIOUS
    <2>2. Len(u) = 0
        BY <1>3, <2>1
    <2> QED BY <2>2
<1> QED BY <1>2, <1>3

\* A message after each of the calls.
LEMMA MessageReencoded ==
    ASSUME NEW S, IsSchema(S), \A own \in SUBSET DOMAIN S : IsFiniteSet(own),
           NEW m, NEW v, Carries(S, m, v)
    PROVE  LET d == Decode(S, Encode(S, m))
           IN  /\ DOMAIN d = {"fields", "unknowns"} /\ Carries(S, d, v) /\ OwnsNoDefault(d)
               /\ KeepsUnknowns(S, d, m.unknowns)
               /\ m.unknowns = <<>> => d.unknowns = <<>>
<1> DEFINE d == Decode(S, Encode(S, m))
<1>1. /\ DOMAIN d = {"fields", "unknowns"} /\ Fits(S, d) /\ Same(S, d, m)
      /\ KeepsUnknowns(S, d, m.unknowns)
    BY Reencoded DEF Carries
<1> HIDE DEF d
<1>2. d.unknowns \in Seq(WireRecord) /\ DOMAIN d.fields \subseteq DOMAIN S
    BY <1>1 DEF Fits, CanBeWritten, HasFields
<1>3. m.unknowns = <<>> => d.unknowns = <<>>
    BY <1>1, <1>2, NothingKept
<1> QED BY <1>1, <1>2, <1>3 DEF Carries, OwnsNoDefault, Same, d

LEMMA MessageConverted ==
    ASSUME NEW S, IsSchema(S), \A own \in SUBSET DOMAIN S : IsFiniteSet(own),
           NEW m, NEW v, Carries(S, m, v), NEW names \in BOOLEAN, NEW defaults \in BOOLEAN
    PROVE  LET d == FromObject(S, ToObject(S, m, names, defaults))
           IN  /\ DOMAIN d = {"fields", "unknowns"} /\ Carries(S, d, v) /\ OwnsNoDefault(d)
               /\ d.unknowns = <<>>
<1> DEFINE d == FromObject(S, ToObject(S, m, names, defaults))
<1>1. DOMAIN d = {"fields", "unknowns"} /\ Fits(S, d) /\ Same(S, d, m) /\ d.unknowns = <<>>
    BY Converted DEF Carries
<1> HIDE DEF d
<1>2. DOMAIN d.fields \subseteq DOMAIN S
    BY <1>1 DEF Fits, CanBeWritten, HasFields
<1> QED BY <1>1, <1>2 DEF Carries, OwnsNoDefault, Same, d

\* What a step that only works on the messages leaves to be shown.
LEMMA CallsStep ==
    ASSUME CallsInv, Call, UNCHANGED <<values, totals, added>>,
           made' \in {"decode", "fromObject"}, converted' \in BOOLEAN,
           DOMAIN message' = {"fields", "unknowns", "events"},
           DOMAIN message'.events = 1 .. Len(values),
           Carries(PageFields, message', totals),
           \A i \in 1 .. Len(values) :
              /\ DOMAIN message'.events[i] = {"fields", "unknowns"}
              /\ Carries(UeEventFields, message'.events[i], values[i])
              /\ OwnsNoDefault(message'.events[i]),
           LaterFieldsSurvive'
    PROVE  CallsInv'
<1>1. CallsTypeOK
    BY DEF CallsInv
<1>2. IsMessage(PageFields, message')
    BY CarriesType
<1>3. \A i \in 1 .. Len(values) : IsMessage(UeEventFields, message'.events[i])
    BY CarriesType
<1>4. calls' \in 0 .. MaxCalls
    BY <1>1, CallsAssumption DEF Call, CallsTypeOK
<1>5. CallsTypeOK'
    BY <1>1, <1>2, <1>3, <1>4 DEF CallsTypeOK
<1> QED BY <1>5 DEF CallsInv

\* decode(encode(..)).
LEMMA ReencodeStep == CallsInv /\ Reencode => CallsInv'
<1> SUFFICES ASSUME CallsInv, Reencode PROVE CallsInv'
    OBVIOUS
<1> DEFINE New(i) == Decode(UeEventFields, Encode(UeEventFields, message.events[i]))
           Rest == Decode(PageFields, Encode(PageFields, message))
<1>1. /\ CallsTypeOK /\ LaterFieldsSurvive /\ Carries(PageFields, message, totals)
      /\ \A i \in 1 .. Len(values) : Carries(UeEventFields, message.events[i], values[i])
    BY DEF CallsInv
<1>2. DOMAIN message.events = 1 .. Len(values)
    BY <1>1 DEF CallsTypeOK
<1>3. /\ DOMAIN message' = {"fields", "unknowns", "events"}
      /\ message'.events = [i \in 1 .. Len(values) |-> New(i)]
      /\ message'.fields = Rest.fields /\ message'.unknowns = Rest.unknowns
    BY <1>2 DEF Reencode, DecodePage, EncodePage, AsPage
<1>4. ASSUME NEW i \in 1 .. Len(values)
      PROVE  /\ DOMAIN message'.events[i] = {"fields", "unknowns"}
             /\ Carries(UeEventFields, message'.events[i], values[i])
             /\ OwnsNoDefault(message'.events[i])
             /\ KeepsUnknowns(UeEventFields, message'.events[i], message.events[i].unknowns)
             /\ message.events[i].unknowns = <<>> => message'.events[i].unknowns = <<>>
    <2>1. message'.events[i] = New(i)
        BY <1>3
    <2>2. Carries(UeEventFields, message.events[i], values[i])
        BY <1>1
    <2> DEFINE e == message.events[i]
               d == New(i)
    <2>3. d = Decode(UeEventFields, Encode(UeEventFields, e))
        OBVIOUS
    <2> HIDE DEF d, e
    <2>4. Carries(UeEventFields, e, values[i])
        BY <2>2 DEF e
    <2>5. /\ DOMAIN d = {"fields", "unknowns"} /\ Carries(UeEventFields, d, values[i])
          /\ OwnsNoDefault(d) /\ KeepsUnknowns(UeEventFields, d, e.unknowns)
          /\ e.unknowns = <<>> => d.unknowns = <<>>
        BY <2>3, <2>4, TheSchemas, MessageReencoded
    <2> QED BY <2>1, <2>5 DEF d, e
<1>5. Carries(PageFields, Rest, totals)
    BY <1>1, TheSchemas, MessageReencoded
<1>6. /\ Call /\ UNCHANGED <<values, totals, added, converted>> /\ made' = "decode"
    BY DEF Reencode
<1>7. LaterFieldsSurvive'
    <2>1. DOMAIN added = 1 .. Len(values) /\ added' = added /\ converted' = converted
        BY <1>1, <1>6 DEF CallsTypeOK
    <2> SUFFICES ASSUME NEW i \in 1 .. Len(values)
                 PROVE  IF converted THEN message'.events[i].unknowns = <<>>
                        ELSE KeepsUnknowns(UeEventFields, message'.events[i], added[i])
        BY <2>1 DEF LaterFieldsSurvive
    <2>2. IF converted THEN message.events[i].unknowns = <<>>
          ELSE KeepsUnknowns(UeEventFields, message.events[i], added[i])
        BY <1>1, <2>1 DEF LaterFieldsSurvive
    <2>3. added[i] \in Seq(WireRecord) /\ message.events[i].unknowns \in Seq(WireRecord)
        BY <1>1, <1>2 DEF CallsTypeOK, IsMessage
    <2>4. ~converted => KeepsUnknowns(UeEventFields, message'.events[i], added[i])
        BY <1>4, <2>2, <2>3, KeptTwice
    <2> QED BY <1>4, <2>2, <2>4
<1>8. Carries(PageFields, message', totals)
    <2> HIDE DEF Rest
    <2> QED BY <1>3, <1>5 DEF Carries, Fits, CanBeWritten, HasFields, Get
<1>9. DOMAIN message'.events = 1 .. Len(values)
    BY <1>3
<1>10. converted' \in BOOLEAN
    BY <1>1, <1>6 DEF CallsTypeOK
<1> QED BY <1>3, <1>4, <1>6, <1>7, <1>8, <1>9, <1>10, CallsStep

\* fromObject(toObject(..)).
LEMMA ConvertStep ==
    ASSUME CallsInv, NEW names \in BOOLEAN, NEW defaults \in BOOLEAN, Convert(names, defaults)
    PROVE  CallsInv'
<1> DEFINE New(i) == FromObject(UeEventFields, ToObject(UeEventFields, message.events[i], names, defaults))
           Rest == FromObject(PageFields, ToObject(PageFields, message, names, defaults))
<1>1. /\ CallsTypeOK /\ Carries(PageFields, message, totals)
      /\ \A i \in 1 .. Len(values) : Carries(UeEventFields, message.events[i], values[i])
    BY DEF CallsInv
<1>2. DOMAIN message.events = 1 .. Len(values)
    BY <1>1 DEF CallsTypeOK
<1>3. /\ DOMAIN message' = {"fields", "unknowns", "events"}
      /\ message'.events = [i \in 1 .. Len(values) |-> New(i)]
      /\ message'.fields = Rest.fields /\ message'.unknowns = Rest.unknowns
    BY <1>2 DEF Convert, FromObjectPage, ToObjectPage, AsPage
<1>4. ASSUME NEW i \in 1 .. Len(values)
      PROVE  /\ DOMAIN message'.events[i] = {"fields", "unknowns"}
             /\ Carries(UeEventFields, message'.events[i], values[i])
             /\ OwnsNoDefault(message'.events[i])
             /\ message'.events[i].unknowns = <<>>
    <2>1. message'.events[i] = New(i)
        BY <1>3
    <2>2. Carries(UeEventFields, message.events[i], values[i])
        BY <1>1
    <2> QED BY <2>1, <2>2, TheSchemas, MessageConverted
<1>5. Carries(PageFields, Rest, totals)
    BY <1>1, TheSchemas, MessageConverted
<1>6. /\ Call /\ UNCHANGED <<values, totals, added>> /\ made' = "fromObject" /\ converted' = TRUE
    BY DEF Convert
<1>7. LaterFieldsSurvive'
    <2>1. DOMAIN added' = 1 .. Len(values)
        BY <1>1, <1>6 DEF CallsTypeOK
    <2> QED BY <2>1, <1>4, <1>6 DEF LaterFieldsSurvive
<1>8. Carries(PageFields, message', totals)
    <2> HIDE DEF Rest
    <2> QED BY <1>3, <1>5 DEF Carries, Fits, CanBeWritten, HasFields, Get
<1>9. DOMAIN message'.events = 1 .. Len(values)
    BY <1>3
<1> QED BY <1>3, <1>4, <1>6, <1>7, <1>8, <1>9, CallsStep

\* An assignment to a property of an event.
LEMMA AssignStep ==
    ASSUME CallsInv, NEW i \in DOMAIN message.events, NEW name \in {"rssi", "rat", "target"},
           NEW value \in 0 .. 1, Assign(i, name, value)
    PROVE  CallsInv'
<1> DEFINE S == UeEventFields
           e == message.events[i]
           d == message'.events[i]
<1>1. /\ CallsTypeOK /\ LaterFieldsSurvive /\ Carries(PageFields, message, totals)
      /\ \A j \in 1 .. Len(values) : Carries(S, message.events[j], values[j])
    BY DEF CallsInv
<1>2. DOMAIN message.events = 1 .. Len(values) /\ Len(values) \in Nat /\ DOMAIN values = 1 .. Len(values)
    BY <1>1 DEF CallsTypeOK
<1>3. /\ DOMAIN message = {"fields", "unknowns", "events"} /\ DOMAIN e = {"fields", "unknowns"}
      /\ values \in Seq([DOMAIN S -> Nat])
    BY <1>1 DEF CallsTypeOK
<1>4. /\ Call /\ UNCHANGED <<totals, added, converted>> /\ made' = "assignment"
      /\ message' = [message EXCEPT !.events[i].fields = With(@, name, value)]
      /\ values' = [values EXCEPT ![i][name] = value]
    BY DEF Assign
<1>5. /\ DOMAIN message' = {"fields", "unknowns", "events"}
      /\ message'.fields = message.fields /\ message'.unknowns = message.unknowns
      /\ DOMAIN message'.events = 1 .. Len(values)
      /\ \A j \in 1 .. Len(values) : j # i => message'.events[j] = message.events[j]
      /\ DOMAIN d = DOMAIN e /\ d.unknowns = e.unknowns /\ d.fields = With(e.fields, name, value)
    BY <1>2, <1>3, <1>4
<1>6. /\ name \in DOMAIN S /\ value \in Nat /\ Read(S[name].kind, value) = value
    <2>1. name \in DOMAIN S
        BY DEF UeEventFields
    <2>2. EnumSize.ActionTaken = 7 /\ EnumSize.RatType = 5 /\ DOMAIN EnumSize = {"ActionTaken", "RatType"}
        BY DEF EnumSize
    <2>3. Int32Range \in Nat /\ value < Int32Range
        BY <2>2, CallsAssumption, Int32Assumption
    <2>4. FitsKind(S, name, value) /\ (IsEnum(S[name].kind) => value < EnumSize[S[name].kind])
        BY <2>2, <2>3 DEF FitsKind, IsEnum
    <2>5. S[name].kind \in Kinds
        BY <2>1, TheSchemas DEF IsSchema
    <2> QED BY <2>1, <2>4, <2>5, ReadFits
<1>7. /\ Len(values') = Len(values) /\ values' \in Seq([DOMAIN S -> Nat])
      /\ \A j \in 1 .. Len(values) : j # i => values'[j] = values[j]
      /\ \A n \in DOMAIN S : values'[i][n] = IF n = name THEN value ELSE values[i][n]
    <2>1. i \in DOMAIN values /\ values[i] \in [DOMAIN S -> Nat]
        BY <1>2, <1>3
    <2> HIDE DEF S
    <2>2. [values[i] EXCEPT ![name] = value] \in [DOMAIN S -> Nat]
        BY <2>1, <1>6
    <2>3. values' = [values EXCEPT ![i] = [values[i] EXCEPT ![name] = value]]
        BY <1>4
    <2> QED BY <1>3, <1>6, <2>1, <2>2, <2>3
<1> HIDE DEF S, e, d
<1>8. Carries(S, e, values[i])
    BY <1>1, <1>2 DEF e
<1>9. Carries(S, d, values'[i])
    <2>1. Fits(S, d) /\ Get(d, name) = value /\ \A n \in DOMAIN S : n # name => Get(d, n) = Get(e, n)
        <3>1. Fits(S, e) /\ \A own \in SUBSET DOMAIN S : IsFiniteSet(own)
            BY <1>8, TheSchemas DEF Carries, S
        <3> QED BY <3>1, <1>5, <1>6, Assigned
    <2> QED BY <2>1, <1>7, <1>8 DEF Carries, Fits, CanBeWritten, HasFields
<1>10. \A j \in 1 .. Len(values) : /\ Carries(S, message'.events[j], values'[j])
                                   /\ DOMAIN message'.events[j] = {"fields", "unknowns"}
                                   /\ message'.events[j].unknowns = message.events[j].unknowns
    <2>1. ASSUME NEW j \in 1 .. Len(values), j # i
          PROVE  Carries(S, message'.events[j], values'[j])
        BY <2>1, <1>1, <1>5, <1>7 DEF S
    <2>2. \A j \in 1 .. Len(values) : DOMAIN message.events[j] = {"fields", "unknowns"}
        BY <1>1, <1>2 DEF CallsTypeOK
    <2> QED BY <2>1, <2>2, <1>3, <1>5, <1>9 DEF d, e
<1>11. Carries(PageFields, message', totals)
    BY <1>1, <1>5 DEF Carries, Fits, CanBeWritten, HasFields, Get
<1>12. LaterFieldsSurvive'
    <2>1. DOMAIN added = 1 .. Len(values)
        BY <1>1 DEF CallsTypeOK
    <2> QED BY <2>1, <1>1, <1>4, <1>10 DEF LaterFieldsSurvive, KeepsUnknowns
<1>13. CallsTypeOK'
    <2>1. IsMessage(PageFields, message')
        BY <1>11, CarriesType
    <2>2. \A j \in 1 .. Len(values) : IsMessage(UeEventFields, message'.events[j])
        BY <1>10, CarriesType DEF S
    <2>3. calls' \in 0 .. MaxCalls
        BY <1>1, <1>4, CallsAssumption DEF Call, CallsTypeOK
    <2> QED BY <2>1, <2>2, <2>3, <1>1, <1>4, <1>5, <1>7, <1>10 DEF CallsTypeOK, S
<1> QED BY <1>4, <1>7, <1>10, <1>11, <1>12, <1>13 DEF CallsInv, S

LEMMA CallsInductive == CallsInv /\ [CallsNext]_callVars => CallsInv'
<1> SUFFICES ASSUME CallsInv, [CallsNext]_callVars PROVE CallsInv'
    OBVIOUS
<1>1. CASE Reencode
    BY <1>1, ReencodeStep
<1>2. ASSUME NEW enumNames \in BOOLEAN, NEW defaults \in BOOLEAN, Convert(enumNames, defaults)
      PROVE  CallsInv'
    BY <1>2, ConvertStep
<1>3. ASSUME NEW i \in DOMAIN message.events, NEW name \in {"rssi", "rat", "target"},
             NEW value \in 0 .. 1, Assign(i, name, value)
      PROVE  CallsInv'
    BY <1>3, AssignStep
<1>4. CASE UNCHANGED callVars
    BY <1>4 DEF CallsInv, CallsTypeOK, LaterFieldsSurvive, callVars
<1> QED BY <1>1, <1>2, <1>3, <1>4 DEF CallsNext

LEMMA CallsInvariant == CallsSpec => []CallsInv
BY CallsInitial, CallsInductive, PTL DEF CallsSpec

\* Each variable of the calls has its type.
THEOREM CallsTyped == CallsSpec => []CallsTypeOK
<1>1. CallsInv => CallsTypeOK
    BY DEF CallsInv
<1> QED BY <1>1, CallsInvariant, PTL

\* No sequence of calls loses or changes anything a page carries.
THEOREM PagesKeepWhatTheyCarry == CallsSpec => []PagesSurviveCalls
<1>1. CallsInv => PagesSurviveCalls
    <2> SUFFICES ASSUME CallsInv PROVE PagesSurviveCalls
        OBVIOUS
    <2>1. /\ CallsTypeOK /\ LaterFieldsSurvive /\ Carries(PageFields, message, totals)
          /\ \A i \in 1 .. Len(values) : Carries(UeEventFields, message.events[i], values[i])
        BY DEF CallsInv
    <2>2. DOMAIN message.events = 1 .. Len(values) /\ Len(values) \in Nat /\ DOMAIN values = 1 .. Len(values)
        BY <2>1 DEF CallsTypeOK
    <2>3. Len(message.events) = Len(values)
        BY <2>2
    <2>4. \A i \in DOMAIN values : \A name \in DOMAIN UeEventFields :
             Get(message.events[i], name) = values[i][name]
        BY <2>1, <2>2 DEF Carries
    <2>5. CellsShowTheRows
        BY <2>1, <2>3, <2>4 DEF CellsShowTheRows, Cell, Carries
    <2> QED BY <2>1, <2>5 DEF PagesSurviveCalls
<1> QED BY <1>1, CallsInvariant, PTL

\* What decode and fromObject return is written without a default.
THEOREM NothingIsWrittenForADefault == CallsSpec => []NoDefaultIsWritten
<1>1. CallsInv => NoDefaultIsWritten
    <2> SUFFICES ASSUME CallsInv, made # "assignment", NEW i \in DOMAIN message.events,
                        NEW r \in ToSet(EncodePage(message).events[i]), Known(UeEventFields, r)
                 PROVE  r.value # 0
        BY DEF NoDefaultIsWritten
    <2> DEFINE S == UeEventFields
               m == message.events[i]
               w == Encode(S, m)
    <2>1. Carries(S, m, values[i]) /\ OwnsNoDefault(m)
        BY DEF CallsInv, CallsTypeOK
    <2>2. EncodePage(message).events[i] = w
        BY DEF EncodePage
    <2> HIDE DEF S, m
    <2>3. CanBeWritten(S, m) /\ IsSchema(S)
        BY <2>1, TheSchemas DEF Carries, Fits, S
    <2> DEFINE c == Cardinality(DOMAIN m.fields)
    <2>4. /\ c \in Nat /\ w \in Seq(WireRecord) /\ Len(w) = c + Len(m.unknowns)
          /\ \A k \in 1 .. c : \E n \in DOMAIN m.fields : w[k] = OwnRecord(S, m, n)
          /\ \A k \in 1 .. Len(m.unknowns) : w[c + k] = m.unknowns[k]
        BY <2>3, EncodeFacts
    <2>5. m.unknowns \in Seq(WireRecord) /\ \A k \in DOMAIN m.unknowns : ~Known(S, m.unknowns[k])
        BY <2>3 DEF CanBeWritten
    <2> HIDE DEF w, c
    <2>6. PICK k \in 1 .. Len(w) : r = w[k]
        <3>1. r \in ToSet(w)
            BY <2>2
        <3> QED BY <3>1, <2>4 DEF ToSet
    <2>7. CASE k \in 1 .. c
        <3>1. PICK n \in DOMAIN m.fields : w[k] = OwnRecord(S, m, n)
            BY <2>4, <2>7
        <3>2. r.value = m.fields[n]
            BY <3>1, <2>6 DEF OwnRecord
        <3> QED BY <3>2, <2>1 DEF OwnsNoDefault
    <2>8. CASE k \notin 1 .. c
        <3>1. k - c \in 1 .. Len(m.unknowns) /\ k = c + (k - c)
            BY <2>4, <2>5, <2>6, <2>8
        <3>2. r = m.unknowns[k - c] /\ k - c \in DOMAIN m.unknowns
            BY <3>1, <2>4, <2>5, <2>6
        <3> QED BY <3>2, <2>5 DEF S
    <2> QED BY <2>7, <2>8
<1> QED BY <1>1, CallsInvariant, PTL

\* verify accepts a page exactly when each enum in it has a name.
THEOREM VerifyIsForNames == CallsSpec => []VerifyMeansNamed
<1>1. CallsInv => VerifyMeansNamed
    <2> SUFFICES ASSUME CallsInv PROVE VerifyMeansNamed
        OBVIOUS
    <2>1. /\ CallsTypeOK /\ Carries(PageFields, message, totals)
          /\ \A i \in 1 .. Len(values) : Carries(UeEventFields, message.events[i], values[i])
        BY DEF CallsInv
    <2>2. DOMAIN message.events = 1 .. Len(values) /\ DOMAIN values = 1 .. Len(values)
        BY <2>1 DEF CallsTypeOK
    <2>3. Verify(PageFields, message)
        <3>1. \A n \in DOMAIN PageFields : ~IsEnum(PageFields[n].kind)
            BY DEF PageFields, Field, IsEnum, EnumSize
        <3> QED BY <3>1, <2>1 DEF Verify, Carries
    <2>4. ASSUME NEW i \in 1 .. Len(values)
          PROVE  Verify(UeEventFields, message.events[i]) <=>
                    values[i].actionTaken \in 0 .. 6 /\ values[i].rat \in 0 .. 4
        <3> DEFINE m == message.events[i]
        <3>1. /\ DOMAIN m.fields \subseteq DOMAIN UeEventFields
              /\ \A name \in DOMAIN UeEventFields : Get(m, name) = values[i][name]
            BY <2>1 DEF Carries
        <3> HIDE DEF m
        <3>2. \A n \in DOMAIN UeEventFields :
                 IsEnum(UeEventFields[n].kind) <=> n \in {"actionTaken", "rat"}
            <4>1. IsEnum(UeEventFields["actionTaken"].kind) /\ IsEnum(UeEventFields["rat"].kind)
                BY DEF UeEventFields, Field, IsEnum, EnumSize
            <4>2. \A n \in DOMAIN UeEventFields :
                     UeEventFields[n].kind \in {"string", "int32", "bool"} \/ n \in {"actionTaken", "rat"}
                BY SMTT(60) DEF UeEventFields, Field
            <4>3. \A kind \in {"string", "int32", "bool"} : ~IsEnum(kind)
                BY DEF IsEnum, EnumSize
            <4> QED BY <4>1, <4>2, <4>3
        <3>3. /\ EnumSize[UeEventFields["actionTaken"].kind] = 7
              /\ EnumSize[UeEventFields["rat"].kind] = 5
              /\ "actionTaken" \in DOMAIN UeEventFields /\ "rat" \in DOMAIN UeEventFields
            BY DEF UeEventFields, Field, EnumSize
        <3>4. Verify(UeEventFields, m) <=>
                /\ "actionTaken" \in DOMAIN m.fields => m.fields["actionTaken"] \in 0 .. 6
                /\ "rat" \in DOMAIN m.fields => m.fields["rat"] \in 0 .. 4
            BY <3>1, <3>2, <3>3 DEF Verify
        <3>5. /\ values[i].actionTaken = IF "actionTaken" \in DOMAIN m.fields THEN m.fields["actionTaken"] ELSE 0
              /\ values[i].rat = IF "rat" \in DOMAIN m.fields THEN m.fields["rat"] ELSE 0
            BY <3>1, <3>3 DEF Get
        <3> QED BY <3>4, <3>5 DEF m
    <2> QED BY <2>2, <2>3, <2>4 DEF VerifyMeansNamed, VerifyPage
<1> QED BY <1>1, CallsInvariant, PTL
===============================================================================
