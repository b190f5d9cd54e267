------------------------------ MODULE MCProtobuf ------------------------------
(***************************************************************************)
(* The generated code for TLC, with the schemas of the API: a behaviour is *)
(* one of PageDecoder, which decodes anybody's bytes record by record, or  *)
(* one of CodecCalls, which starts with a response of this server.         *)
(***************************************************************************)
EXTENDS PageDecoder, CodecCalls

VARIABLE part

NoCalls ==
    /\ message = NewPage /\ values = <<>> /\ added = <<>>
    /\ totals = [n \in DOMAIN PageFields |-> 0]
    /\ made = "decode" /\ converted = FALSE /\ calls = 0

MCInit ==
    /\ Init
    /\ \/ part = "decoder" /\ NoCalls
       \/ part = "calls" /\ CallsInit

MCNext ==
    \/ part = "decoder" /\ Next /\ UNCHANGED <<part, callVars>>
    \/ part = "calls" /\ CallsNext /\ UNCHANGED <<part, vars>>

MCSpec == MCInit /\ [][MCNext]_<<part, vars, callVars>>

-----------------------------------------------------------------------------
\* Each record is a field of one of the two messages and unknown to the
\* other; the values are the default, one that is cut to the default (64),
\* and others.
R(number, wireType, value) == [number |-> number, wireType |-> wireType, value |-> value]
SomeRecords ==
    {R(2, 0, 64), R(2, 0, 65), R(2, 2, 0), R(2, 2, 3), R(3, 0, 64), R(25, 0, 2)}

\* A row of nulls, a row with a value of its own in each column, and one with
\* names no enum has.
AllNull == [n \in DOMAIN UeEventFields |-> Null]
Full == [n \in DOMAIN UeEventFields |->
            IF n = "rat" THEN 4 ELSE IF n = "actionTaken" THEN 6
            ELSE IF n = "target" THEN 1 ELSE UeEventFields[n].number]
Misnamed == [Full EXCEPT !.rat = 5, !.actionTaken = 9, !.rssi = 0, !.imei = Null]
SomeRows == {AllNull, Full, Misnamed}
SomeNumbers ==
    {[totalPages |-> p, totalElements |-> e, currentPage |-> 0, queryTimeMs |-> e] :
        p \in {0, 63}, e \in {0, 64}}

\* A newer server adds nothing, a field of its own or an action of its own.
SomeNewer == {<<>>, <<R(29, 0, 3), R(6, 2, 2)>>, <<R(7, 0, 7)>>}
=============================================================================
