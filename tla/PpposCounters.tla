--------------------------- MODULE PpposCounters ---------------------------
(***************************************************************************)
(* The traffic counters of components/pppos/libGSM.c and the mutex that    *)
(* guards them.  lwIP's tcpip thread adds the bytes it wrote to the UART   *)
(* to pppos_rx_count, the client task adds the bytes it read from it to    *)
(* pppos_tx_count and clears both when it starts, and any task may read    *)
(* them, clear them, or do both in one call.                               *)
(*                                                                         *)
(* Granularity.  Every read and write of a counter is a step of its own,   *)
(* so "+=" is a load and a store, and pppos_mutex is taken and given.  The *)
(* 1 s time-out of a take is not modelled: no holder blocks, and priority  *)
(* inheritance lets it run.  The mutex exists (ppposInit has been called). *)
(***************************************************************************)
EXTENDS Integers

CONSTANTS
    Callers,    \* tasks that call getRxTxCount and resetRxTxCount
    Width,      \* 2^32: the counters are uint32_t
    Lens,       \* how many bytes one call of the UART driver moves
    MaxMoved    \* bound: bytes moved in each direction

Counters == {"rx", "tx"}
Movers == {"tcpip", "task"}
Nobody == "nobody"
Threads == Callers \cup Movers

ASSUME CallersAssumption == Callers \cap (Movers \cup {Nobody}) = {}
ASSUME WidthAssumption == Width \in Nat \ {0}
ASSUME LensAssumption == Lens \subseteq Nat \ {0} /\ MaxMoved \in Nat

VARIABLES
    mutex,      \* who holds pppos_mutex
    cnt,        \* pppos_rx_count and pppos_tx_count
    pc, op,     \* where each thread is, and in which operation
    len,        \* bytes a mover has to account for
    reg,        \* value loaded by "+="
    out,        \* *rx and *tx of getRxTxCount
  \* History, read by no action.
    moved,      \* bytes moved since the system started
    cleared,    \* sum of the counts that were cleared
    wraps       \* how often each counter has wrapped around

sharedVars  == <<mutex, cnt>>
threadVars  == <<pc, op, len, reg, out>>
historyVars == <<moved, cleared, wraps>>
vars == <<sharedVars, threadVars, historyVars>>

Labels == {"idle", "take", "load", "store", "readrx", "readtx", "clear1",
           "clear2", "give"}
Operations == {"none", "add", "get", "getreset", "reset"}

Zero == [k \in Counters |-> 0]

Init ==
    /\ mutex = Nobody
    /\ cnt = Zero
    /\ pc = [t \in Threads |-> "idle"]
    /\ op = [t \in Threads |-> "none"]
    /\ len = [t \in Threads |-> 0]
    /\ reg = [t \in Threads |-> 0]
    /\ out = [t \in Threads |-> Zero]
    /\ moved = Zero /\ cleared = Zero /\ wraps = Zero

-----------------------------------------------------------------------------
(* Decisions of the code, and plausible bugs in them (...Wrong).           *)

\* xSemaphoreTake succeeds.
FreeWrong == TRUE
Free == mutex = Nobody

\* uint32_t addition
SumWrong(t) == reg[t] + len[t]
SaturatedWrong(t) ==
    IF reg[t] + len[t] < Width THEN reg[t] + len[t] ELSE Width - 1
Sum(t) == (reg[t] + len[t]) % Width

\* How often the addition passes the end of the range.
Carry(t) == (reg[t] + len[t]) \div Width

\* What a thread does first once it holds the mutex.
FirstLabel(t) ==
    CASE op[t] = "add" -> "load"
      [] op[t] \in {"get", "getreset"} -> "readrx"
      [] OTHER -> "clear1"

CounterOf(t) == IF t = "tcpip" THEN "rx" ELSE "tx"

\* The client task clears tx first, the library calls rx first.
FirstCleared(t) == IF t = "task" THEN "tx" ELSE "rx"
LastCleared(t) == IF t = "task" THEN "rx" ELSE "tx"

-----------------------------------------------------------------------------
Goto(t, label) == pc' = [pc EXCEPT ![t] = label]

Call(t, operation) ==
    /\ pc[t] = "idle"
    /\ op' = [op EXCEPT ![t] = operation]
    /\ Goto(t, "take")
    /\ UNCHANGED <<sharedVars, reg, out, cleared, wraps>>

\* n bytes have gone through the UART.
Move(t, n) ==
    /\ t \in Movers
    /\ moved[CounterOf(t)] + n <= MaxMoved
    /\ moved' = [moved EXCEPT ![CounterOf(t)] = @ + n]
    /\ len' = [len EXCEPT ![t] = n]
    /\ Call(t, "add")

\* resetRxTxCount, or the start of the client task
ResetCall(t) ==
    /\ t \in Callers \cup {"task"}
    /\ Call(t, "reset")
    /\ UNCHANGED <<len, moved>>

\* getRxTxCount(rx, tx, rst)
GetCall(t) ==
    /\ t \in Callers
    /\ \E rst \in BOOLEAN : Call(t, IF rst THEN "getreset" ELSE "get")
    /\ UNCHANGED <<len, moved>>

Take(t) ==
    /\ pc[t] = "take"
    /\ Free
    /\ mutex' = t
    /\ Goto(t, FirstLabel(t))
    /\ UNCHANGED <<cnt, op, len, reg, out, historyVars>>

Load(t) ==
    /\ pc[t] = "load"
    /\ reg' = [reg EXCEPT ![t] = cnt[CounterOf(t)]]
    /\ Goto(t, "store")
    /\ UNCHANGED <<sharedVars, op, len, out, historyVars>>

Store(t) ==
    /\ pc[t] = "store"
    /\ cnt' = [cnt EXCEPT ![CounterOf(t)] = Sum(t)]
    /\ wraps' = [wraps EXCEPT ![CounterOf(t)] = @ + Carry(t)]
    /\ len' = [len EXCEPT ![t] = 0]
    /\ Goto(t, "give")
    /\ UNCHANGED <<mutex, op, reg, out, moved, cleared>>

ReadRx(t) ==
    /\ pc[t] = "readrx"
    /\ out' = [out EXCEPT ![t] = [@ EXCEPT !["rx"] = cnt["rx"]]]
    /\ Goto(t, "readtx")
    /\ UNCHANGED <<sharedVars, op, len, reg, historyVars>>

ReadTx(t) ==
    /\ pc[t] = "readtx"
    /\ out' = [out EXCEPT ![t] = [@ EXCEPT !["tx"] = cnt["tx"]]]
    /\ Goto(t, IF op[t] = "getreset" THEN "clear1" ELSE "give")
    /\ UNCHANGED <<sharedVars, op, len, reg, historyVars>>

Clear(k) ==
    /\ cnt' = [cnt EXCEPT ![k] = 0]
    /\ cleared' = [cleared EXCEPT ![k] = @ + cnt[k]]

ClearFirst(t) ==
    /\ pc[t] = "clear1"
    /\ Clear(FirstCleared(t))
    /\ Goto(t, "clear2")
    /\ UNCHANGED <<mutex, op, len, reg, out, moved, wraps>>

ClearLast(t) ==
    /\ pc[t] = "clear2"
    /\ Clear(LastCleared(t))
    /\ Goto(t, "give")
    /\ UNCHANGED <<mutex, op, len, reg, out, moved, wraps>>

\* The call returns, and its locals are gone.
Give(t) ==
    /\ pc[t] = "give"
    /\ mutex' = Nobody
    /\ Goto(t, "idle")
    /\ op' = [op EXCEPT ![t] = "none"]
    /\ reg' = [reg EXCEPT ![t] = 0]
    /\ out' = [out EXCEPT ![t] = Zero]
    /\ UNCHANGED <<cnt, len, historyVars>>

Begin(t) == ResetCall(t) \/ GetCall(t) \/ \E n \in Lens : Move(t, n)

Proceed(t) ==
    \/ Take(t) \/ Load(t) \/ Store(t) \/ ReadRx(t) \/ ReadTx(t)
    \/ ClearFirst(t) \/ ClearLast(t) \/ Give(t)

Next == \E t \in Threads : Begin(t) \/ Proceed(t)

Spec == Init /\ [][Next]_vars

-----------------------------------------------------------------------------
(* Properties                                                              *)

\* The counters fit their width.
TypeOK ==
    /\ mutex \in Threads \cup {Nobody}
    /\ cnt \in [Counters -> 0..(Width - 1)]
    /\ pc \in [Threads -> Labels]
    /\ op \in [Threads -> Operations]
    /\ len \in [Threads -> Nat]
    /\ reg \in [Threads -> 0..(Width - 1)]
    /\ out \in [Threads -> [Counters -> 0..(Width - 1)]]
    /\ moved \in [Counters -> Nat]
    /\ cleared \in [Counters -> Nat]
    /\ wraps \in [Counters -> Nat]

\* What a counter is short of because it has wrapped around.
Short(k) == Width * wraps[k]

\* No byte is lost and none is counted twice, whoever adds, reads and clears at
\* the same time: every byte moved is in the counter, was in it when it was
\* cleared, is about to be added, or is one of the Width bytes that a counter is
\* short of each time it has wrapped around.
Conservation ==
    /\ moved["rx"] = cnt["rx"] + cleared["rx"] + Short("rx") + len["tcpip"]
    /\ moved["tx"] = cnt["tx"] + cleared["tx"] + Short("tx") + len["task"]

\* getRxTxCount returns values the two counters had at the same moment, and
\* with rst = 1 clears exactly what it returns.
Snapshot ==
    \A t \in Callers :
        \/ pc[t] = "clear1" /\ op[t] = "getreset"
        \/ pc[t] = "give" /\ op[t] = "get"
        => out[t] = cnt

\* A thread that has its result, or has cleared one counter, is as good as done.
Done(t) == pc[t] \in {"clear2", "give"}

Total == IF \E t \in Threads : pc[t] = "clear2" THEN Zero ELSE cnt
Todo == [t \in Threads |-> IF Done(t) THEN "return" ELSE op[t]]
Owe == [t \in Threads |-> [Zero EXCEPT ![CounterOf(t)] = len[t]]]
Got == [t \in Threads |->
            IF Done(t) /\ op[t] \in {"get", "getreset"} THEN out[t] ELSE Zero]

\* Every call takes effect on both counters at one moment, as TrafficMeter says:
\* the store of a sum, the second read, or the first of two counters cleared.
Meter == INSTANCE TrafficMeter
         WITH Tasks <- Threads, count <- Total, todo <- Todo, owe <- Owe, got <- Got
AtOnce == Meter!Spec
============================================================================
