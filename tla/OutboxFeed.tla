----------------------------- MODULE OutboxFeed -----------------------------
(***************************************************************************)
(* What the outbox and its projector promise the read side, without the   *)
(* tables, threads and transactions that provide it: every record that is  *)
(* written stays pending until the read side shows it, delivery may repeat *)
(* and happen in any order, and only a clear makes either side forget.     *)
(***************************************************************************)
VARIABLES
    log,        \* the records the write side holds
    pending,    \* those of them still to be acknowledged
    view        \* the records the read side holds

feedVars == <<log, pending, view>>

Init ==
    /\ log = {}
    /\ pending = {}
    /\ view = {}

\* Records neither side knows become part of the log, all of them pending.
\* Which ones is up to the writers, so Next names them by what log gains.
Append(S) ==
    /\ S \cap (log \cup view) = {}
    /\ log' = log \cup S
    /\ pending' = pending \cup S
    /\ UNCHANGED view

\* The read side learns of pending records, again or for the first time.
Deliver(S) ==
    /\ S \subseteq pending
    /\ view' = view \cup S
    /\ UNCHANGED <<log, pending>>

\* Only what the read side shows stops being pending.
Acknowledge(S) ==
    /\ S \subseteq pending \cap view
    /\ pending' = pending \ S
    /\ UNCHANGED <<log, view>>

\* First half of a clear: the write side and the outbox, together.
ResetLog ==
    /\ log' = {}
    /\ pending' = {}
    /\ UNCHANGED view

\* Second half: what is lost from the view is no record of the log, or will
\* be delivered again.
ResetView ==
    /\ log \subseteq pending
    /\ view' = {}
    /\ UNCHANGED <<log, pending>>

Next ==
    \/ Append(log' \ log)
    \/ \E S \in SUBSET pending : Deliver(S) \/ Acknowledge(S)
    \/ ResetLog
    \/ ResetView

Spec == Init /\ [][Next]_feedVars

\* A record of the log that is no longer pending is in the view: the promise
\* the acknowledgement of CqrsProjectorService.drainOnce rests on.
AcknowledgedIsInView == log \ pending \subseteq view
=============================================================================
