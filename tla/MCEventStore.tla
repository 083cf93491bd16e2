---------------------------- MODULE MCEventStore ----------------------------
(* Small instances of EventStore for TLC.                                  *)
EXTENDS EventStore, TLC

CONSTANTS r1, r2, r3, a1, a2, a3, f1, f2

(* Aggregate a1 has events 1 and 2; a2 has event 1; a3 is new.             *)
MCRows == [a \in Aggregates |-> CASE a = a1 -> {1, 2} [] a = a2 -> {1} [] a = a3 -> {}]

(* One call for each way through bulk_insert_events_optimized: a conflict  *)
(* (the expected version is the current one), a duplicate version, the     *)
(* first save of an aggregate, a sequence of events, an event of version 0. *)
Conflicting == [agg |-> a1, expected |-> 2, count |-> 1]
Duplicate == [agg |-> a2, expected |-> 0, count |-> 1]
First == [agg |-> a3, expected |-> 0, count |-> 1]
Sequence == [agg |-> a1, expected |-> 1, count |-> 2]
Unnumbered == [agg |-> a1, expected |-> -1, count |-> 1]

EveryCall == {Conflicting, Duplicate, First, Sequence, Unnumbered}
MCCallsOf == [r \in Requests |-> EveryCall]

(* What the callers do, fixed at the start of a behaviour.  "paths": one   *)
(* makes every call beside another, and versions are looked up.  "locks":  *)
(* three callers share two permits and save to two aggregates, so that two *)
(* flushes can lock their rows in opposite orders.                         *)
VARIABLE callers

CallsBy == [
    paths |-> (r1 :> EveryCall) @@ (r2 :> {Conflicting}) @@ (r3 :> {}),
    locks |-> (r1 :> {Conflicting, Duplicate}) @@ (r2 :> {Duplicate}) @@ (r3 :> {Conflicting})]

MCInit == Init /\ callers \in DOMAIN CallsBy

MCNext ==
    /\ Next
    /\ \A r \in Requests : pc'[r] # "idle" => arg'[r] \in CallsBy[callers][r]
    /\ callers = "locks" => lookup' = {}
    /\ UNCHANGED callers

MCSpec == MCInit /\ [][MCNext]_<<vars, callers>> /\ Fairness
=============================================================================
