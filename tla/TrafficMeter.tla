---------------------------- MODULE TrafficMeter ----------------------------
(***************************************************************************)
(* What the tasks that share the traffic counters may rely on: each of     *)
(* their calls takes effect on both counters at one moment between its     *)
(* beginning and its return.  There is no mutex here.  PpposCounters, with *)
(* its loads, stores and mutex, implements this module                     *)
(* (PpposCounters!AtOnce, proved in PpposCountersProofs).                  *)
(***************************************************************************)
EXTENDS Naturals

CONSTANTS
    Tasks,
    Width,      \* the counters count modulo Width
    Lens        \* how many bytes may be added at a time

VARIABLES
    count,      \* both counters
    todo,       \* what each task has called and waits for
    owe,        \* the bytes that it has yet to add
    got         \* what it has read

Counters == {"rx", "tx"}
Operations == {"add", "get", "getreset", "reset"}

Zero == [k \in Counters |-> 0]

Init ==
    /\ count = Zero
    /\ todo = [t \in Tasks |-> "none"]
    /\ owe = [t \in Tasks |-> Zero]
    /\ got = [t \in Tasks |-> Zero]

Call(t, operation) ==
    /\ todo[t] = "none"
    /\ todo' = [todo EXCEPT ![t] = operation]
    /\ IF operation = "add"
       THEN \E k \in Counters, n \in Lens :
                owe' = [owe EXCEPT ![t] = [Zero EXCEPT ![k] = n]]
       ELSE UNCHANGED owe
    /\ UNCHANGED <<count, got>>

Effect(t) ==
    /\ todo[t] \in Operations
    /\ todo' = [todo EXCEPT ![t] = "return"]
    /\ count' = CASE todo[t] = "add" ->
                       [k \in Counters |-> (count[k] + owe[t][k]) % Width]
                  [] todo[t] = "get" -> count
                  [] OTHER -> Zero
    /\ got' = [got EXCEPT ![t] = IF todo[t] \in {"get", "getreset"} THEN count ELSE @]
    /\ owe' = [owe EXCEPT ![t] = Zero]

Return(t) ==
    /\ todo[t] = "return"
    /\ todo' = [todo EXCEPT ![t] = "none"]
    /\ got' = [got EXCEPT ![t] = Zero]
    /\ UNCHANGED <<count, owe>>

Next ==
    \E t \in Tasks :
        \/ \E operation \in Operations : Call(t, operation)
        \/ Effect(t) \/ Return(t)

Spec == Init /\ [][Next]_<<count, todo, owe, got>>
=============================================================================
