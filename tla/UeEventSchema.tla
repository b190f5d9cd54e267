---------------------------- MODULE UeEventSchema ----------------------------
(***************************************************************************)
(* The messages of the API (proto.js), the server's adapter from a row to  *)
(* a UeEvent (UeEventAdapter.java) and the cells the dashboard makes of it *)
(* (Dashboard.tsx).                                                        *)
(***************************************************************************)
EXTENDS Protobuf

Field(number, kind) == [number |-> number, kind |-> kind]

UeEventFields ==
    [imsiOrSupi |-> Field(1, "string"), imei |-> Field(2, "string"),
     msisdn |-> Field(3, "string"), guti |-> Field(4, "string"),
     tmsi |-> Field(5, "string"), rssi |-> Field(6, "int32"),
     actionTaken |-> Field(7, "ActionTaken"), rejectCause |-> Field(8, "int32"),
     rat |-> Field(9, "RatType"), frequencyBand |-> Field(10, "int32"),
     arfcn |-> Field(11, "int32"), trackingAreaCode |-> Field(12, "int32"),
     downlinkBandWidth |-> Field(13, "string"), plmnMcc |-> Field(14, "int32"),
     plmnMnc |-> Field(15, "int32"), providerName |-> Field(16, "string"),
     missionId |-> Field(17, "string"), sensorId |-> Field(18, "string"),
     subsystemId |-> Field(19, "string"), trxCommandId |-> Field(20, "string"),
     createdAt |-> Field(21, "string"), updatedAt |-> Field(22, "string"),
     countryIsoAlpha2 |-> Field(23, "string"), countryName |-> Field(24, "string"),
     target |-> Field(25, "bool"), captureCount |-> Field(26, "int32"),
     timingAdvance |-> Field(27, "int32"), distanceInMeters |-> Field(28, "int32")]

\* The fields of a page besides its events, which have number 1.
PageFields ==
    [totalPages |-> Field(2, "int32"), totalElements |-> Field(3, "int64"),
     currentPage |-> Field(4, "int32"), queryTimeMs |-> Field(5, "int64")]

EnumNames ==
    [ActionTaken |-> <<"UNKNOWN_ACTION", "REJECT", "ATTACH", "SILENT_CALL", "DETACH",
                       "LOCATION_UPDATE", "PAGING">>,
     RatType |-> <<"UNKNOWN_RAT", "RAT_2G", "RAT_3G", "RAT_4G_LTE", "RAT_5G">>]

-----------------------------------------------------------------------------
(***************************************************************************)
(* The server: a row has a value or null in each column, and the two       *)
(* columns with enum names can hold a name that is none.                   *)
(***************************************************************************)
Null == -1

\* valueOf(nz(..)) with the catch: a name that is none becomes UNKNOWN_..
FromRow(row) ==
    [n \in DOMAIN UeEventFields |->
        IF row[n] = Null \/ (IsEnum(UeEventFields[n].kind) /\ ~Named(UeEventFields[n].kind, row[n]))
        THEN 0 ELSE row[n]]

\* protobuf-java writes the fields that are not the default, by number.
Serialize(event) ==
    Encode(UeEventFields,
        [NewMessage EXCEPT !.fields =
            [n \in {n \in DOMAIN event : event[n] # 0} |-> event[n]]])

-----------------------------------------------------------------------------
(***************************************************************************)
(* The browser.                                                            *)
(***************************************************************************)
\* replace('RAT_', '')
Label(name) ==
    CASE name = "RAT_2G" -> "2G" [] name = "RAT_3G" -> "3G"
      [] name = "RAT_4G_LTE" -> "4G_LTE" [] name = "RAT_5G" -> "5G"
      [] OTHER -> name

FormatEnum(kind, value) ==
    IF Named(kind, value) THEN [label |-> Label(EnumNames[kind][value + 1])]
    ELSE [number |-> value]

Cell(m, name) ==
    LET kind == UeEventFields[name].kind
    IN  IF IsEnum(kind) THEN FormatEnum(kind, Get(m, name)) ELSE Get(m, name)
=============================================================================
