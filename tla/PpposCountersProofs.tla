------------------------ MODULE PpposCountersProofs ------------------------
(***************************************************************************)
(* Proofs about PpposCounters, for every set of callers, width and bound.  *)
(* The argument is mutual exclusion: a thread past its take holds the      *)
(* mutex, so no other thread is past its own, and what it has read is      *)
(* still what the counters hold.                                           *)
(***************************************************************************)
EXTENDS PpposCounters, TLAPS

\* A thread is between take and give exactly while it holds the mutex.
Exclusive ==
    \A t \in Threads : pc[t] \notin {"idle", "take"} <=> mutex = t

\* Which operation a thread inside the section can be in.
PathOfOperation ==
    \A t \in Threads :
        /\ op[t] = "add" => t \in Movers
        /\ pc[t] \in {"load", "store"} => op[t] = "add"
        /\ pc[t] \in {"readrx", "readtx"} => op[t] \in {"get", "getreset"}
        /\ pc[t] \in {"clear1", "clear2"} => op[t] \notin {"add", "get"}
        /\ len[t] # 0 => op[t] = "add" /\ pc[t] \in {"take", "load", "store"}

\* What a thread has read is still there.
ReadsAreFresh ==
    \A t \in Threads :
        /\ pc[t] = "store" => reg[t] = cnt[CounterOf(t)]
        /\ pc[t] = "readtx" => out[t]["rx"] = cnt["rx"]
        /\ \/ pc[t] = "clear1" /\ op[t] = "getreset"
           \/ pc[t] = "give" /\ op[t] = "get"
           => out[t] = cnt

IInv ==
    /\ TypeOK /\ Exclusive /\ PathOfOperation /\ ReadsAreFresh
    /\ Conservation

-----------------------------------------------------------------------------
(* Arithmetic                                                              *)

\* A number is its remainder and so many widths.
LEMMA Division ==
    ASSUME NEW x \in Nat, NEW w \in Nat \ {0}
    PROVE  /\ x % w \in 0..(w - 1)
           /\ x \div w \in Nat
           /\ x = w * (x \div w) + (x % w)
OBVIOUS

\* Widths add up.
LEMMA Distribution ==
    ASSUME NEW a \in Nat, NEW b \in Nat, NEW w \in Nat
    PROVE  w * (a + b) = w * a + w * b
OBVIOUS

\* A step without a carry leaves what the counters are short of.
LEMMA NothingShort ==
    ASSUME TypeOK, wraps' = wraps, NEW k \in Counters
    PROVE  Short(k) \in Nat /\ Short(k)' = Short(k)
<1>1. wraps[k] \in Nat
  BY DEF TypeOK
<1> QED
  BY <1>1, WidthAssumption DEF Short

-----------------------------------------------------------------------------
(* Steps that leave the counters alone                                     *)

\* The initial state satisfies the inductive invariant.
LEMMA InitInv == Init => IInv
<1> SUFFICES ASSUME Init PROVE IInv
  OBVIOUS
<1> USE CallersAssumption, WidthAssumption DEF Init, Zero, Counters, Threads,
        Movers, Nobody
<1>1. TypeOK
  BY DEF TypeOK, Labels, Operations
<1>2. Exclusive /\ PathOfOperation /\ ReadsAreFresh
  BY DEF Exclusive, PathOfOperation, ReadsAreFresh
<1>3. Short("rx") = 0 /\ Short("tx") = 0
  BY DEF Short
<1>4. Conservation
  BY <1>3 DEF Conservation
<1> QED
  BY <1>1, <1>2, <1>4 DEF IInv

\* A thread that begins a call holds nothing and has read nothing.
LEMMA BeginInv == ASSUME IInv, NEW t \in Threads, Begin(t) PROVE IInv'
<1> USE DEF IInv
<1>1. /\ pc[t] = "idle" /\ pc' = [pc EXCEPT ![t] = "take"]
      /\ UNCHANGED <<mutex, cnt, reg, out, cleared, wraps>>
  BY DEF Begin, ResetCall, GetCall, Move, Call, Goto, sharedVars
<1>2. PICK o \in Operations : /\ op' = [op EXCEPT ![t] = o]
                              /\ o = "add" => t \in Movers
                              /\ o # "add" => UNCHANGED <<len, moved>>
                              /\ o = "add" => \E n \in Lens : Move(t, n)
  BY DEF Begin, ResetCall, GetCall, Move, Call, Operations
<1>3. len[t] = 0
  BY <1>1 DEF PathOfOperation
<1>4. /\ len' \in [Threads -> Nat] /\ moved' \in [Counters -> Nat]
      /\ \A u \in Threads \ {t} : len'[u] = len[u]
      /\ o # "add" => len'[t] = len[t]
  <2>1. CASE o = "add"
    <3>1. PICK n \in Lens : Move(t, n)
      BY <1>2, <2>1
    <3> QED
      BY <2>1, <3>1, LensAssumption
      DEF Move, TypeOK, CounterOf, Counters
  <2> QED
    BY <1>2, <2>1 DEF TypeOK
<1>5. TypeOK'
  <2>1. pc' \in [Threads -> Labels] /\ op' \in [Threads -> Operations]
    BY <1>1, <1>2 DEF TypeOK, Labels
  <2> QED
    BY <1>1, <1>4, <2>1 DEF TypeOK
<1>6. Exclusive' /\ ReadsAreFresh'
  BY <1>1, <1>2 DEF Exclusive, ReadsAreFresh, TypeOK, CounterOf
<1>7. PathOfOperation'
  BY <1>1, <1>2, <1>3, <1>4 DEF PathOfOperation, TypeOK
<1>8. Conservation'
  <2> DEFINE NoShort ==
        \A k \in Counters : Short(k) \in Nat /\ Short(k)' = Short(k)
  <2>0. NoShort
    BY <1>1, NothingShort
  <2>1. CASE o = "add"
    <3>1. PICK n \in Lens : Move(t, n)
      BY <1>2, <2>1
    <3> QED
      BY <1>1, <1>3, <2>0, <2>1, <3>1, LensAssumption
      DEF Move, TypeOK, CounterOf, Counters, Conservation, Movers, Threads
  <2> QED
    BY <1>1, <1>2, <2>0, <2>1 DEF Conservation, Counters
<1> QED
  BY <1>5, <1>6, <1>7, <1>8

\* Taking the mutex.
LEMMA TakeInv == ASSUME IInv, NEW t \in Threads, Take(t) PROVE IInv'
<1> USE DEF IInv, Take, Goto, Free, historyVars
<1>1. FirstLabel(t) \in {"load", "readrx", "clear1"}
  BY DEF FirstLabel, TypeOK, Operations
<1>2. TypeOK'
  BY <1>1 DEF TypeOK, Labels
<1>3. Nobody \notin Threads
  BY CallersAssumption DEF Threads, Movers, Nobody
<1>4. Exclusive'
  BY <1>1, <1>3 DEF Exclusive, TypeOK
<1>5. /\ FirstLabel(t) = "load" => op[t] = "add"
      /\ FirstLabel(t) = "readrx" => op[t] \in {"get", "getreset"}
      /\ FirstLabel(t) = "clear1" => op[t] \notin {"add", "get", "getreset"}
  BY DEF FirstLabel, TypeOK, Operations
<1>6. PathOfOperation'
  <2>1. ASSUME NEW u \in Threads PROVE len[u] # 0 =>
            op[u] = "add" /\ pc'[u] \in {"take", "load", "store"}
    BY <1>1, <1>5 DEF PathOfOperation, TypeOK
  <2> QED
    BY <1>1, <1>5, <2>1 DEF PathOfOperation, TypeOK
<1>7. ReadsAreFresh'
  BY <1>1, <1>5 DEF ReadsAreFresh, TypeOK, CounterOf
<1>8. Conservation'
  BY NothingShort DEF Conservation, Counters
<1> QED
  BY <1>2, <1>4, <1>6, <1>7, <1>8

\* Reading: the value read is the value of the counter.
LEMMA ReadInv ==
    ASSUME IInv, NEW t \in Threads, Load(t) \/ ReadRx(t) \/ ReadTx(t)
    PROVE  IInv'
<1> USE DEF IInv, Load, ReadRx, ReadTx, Goto, historyVars, sharedVars
<1>1. CounterOf(t) \in Counters
  BY DEF CounterOf, Counters
<1>2. TypeOK'
  <2>1. cnt["rx"] \in 0..(Width - 1) /\ cnt["tx"] \in 0..(Width - 1)
    BY DEF TypeOK, Counters
  <2>2. pc' \in [Threads -> Labels] /\ UNCHANGED <<mutex, cnt, op, len, historyVars>>
    BY DEF TypeOK, Labels
  <2>3. reg' \in [Threads -> 0..(Width - 1)]
    BY <1>1 DEF TypeOK
  <2>4. out' \in [Threads -> [Counters -> 0..(Width - 1)]]
    BY <2>1 DEF TypeOK, Counters
  <2> QED
    BY <2>2, <2>3, <2>4 DEF TypeOK
<1>3. Exclusive'
  BY DEF Exclusive, TypeOK
<1>4. PathOfOperation'
  <2>1. len[t] # 0 => Load(t)
    BY DEF PathOfOperation
  <2> QED
    BY <2>1 DEF PathOfOperation, TypeOK
<1>5. ReadsAreFresh'
  <2>1. CASE Load(t)
    BY <1>1, <2>1 DEF ReadsAreFresh, TypeOK, CounterOf
  <2>2. CASE ReadRx(t)
    BY <2>2 DEF ReadsAreFresh, TypeOK, CounterOf, Counters
  <2>3. CASE ReadTx(t)
    <3>1. out'[t] = cnt
      <4>1. out'[t] = [out[t] EXCEPT !["tx"] = cnt["tx"]]
        BY <2>3 DEF TypeOK
      <4>2. out[t] \in [Counters -> 0..(Width - 1)] /\ out[t]["rx"] = cnt["rx"]
        BY <2>3 DEF ReadsAreFresh, TypeOK
      <4> QED
        BY <4>1, <4>2 DEF TypeOK, Counters
    <3> QED
      BY <2>3, <3>1 DEF ReadsAreFresh, TypeOK, CounterOf
  <2> QED
    BY <2>1, <2>2, <2>3
<1>6. Conservation'
  BY NothingShort DEF Conservation, Counters
<1> QED
  BY <1>2, <1>3, <1>4, <1>5, <1>6

\* Giving the mutex back.
LEMMA GiveInv == ASSUME IInv, NEW t \in Threads, Give(t) PROVE IInv'
<1> USE DEF IInv, Give, Goto, historyVars
<1>1. TypeOK'
  BY WidthAssumption DEF TypeOK, Labels, Operations, Zero
<1>2. Nobody \notin Threads
  BY CallersAssumption DEF Threads, Movers, Nobody
<1>3. Exclusive'
  BY <1>2 DEF Exclusive, TypeOK
<1>4. len[t] = 0
  BY DEF PathOfOperation
<1>5. PathOfOperation'
  BY <1>4 DEF PathOfOperation, TypeOK
<1>6. ReadsAreFresh'
  BY DEF ReadsAreFresh, TypeOK, CounterOf
<1>7. Conservation'
  BY NothingShort DEF Conservation, Counters
<1> QED
  BY <1>1, <1>3, <1>5, <1>6, <1>7

-----------------------------------------------------------------------------
(* Steps that write a counter                                              *)

\* Storing a sum: the value loaded is still the value of the counter.
LEMMA StoreInv == ASSUME IInv, NEW t \in Threads, Store(t) PROVE IInv'
<1> USE DEF IInv, Store, Goto
<1> DEFINE k == CounterOf(t)
           s == cnt[k] + len[t]
           r == s % Width
<1>1. /\ t \in Movers /\ mutex = t /\ op[t] = "add"
      /\ k \in Counters /\ reg[t] = cnt[k]
  BY DEF PathOfOperation, ReadsAreFresh, Exclusive, CounterOf, Counters
<1>2. s \in Nat /\ cnt[k] \in Nat
  BY <1>1, WidthAssumption DEF TypeOK
<1>3. r \in 0..(Width - 1) /\ s \div Width \in Nat /\ s = Width * (s \div Width) + r
  <2> HIDE DEF s
  <2> QED
    BY <1>2, WidthAssumption, Division
<1>4. Sum(t) = r /\ Carry(t) = s \div Width
  BY <1>1 DEF Sum, Carry
<1>5. /\ cnt' = [cnt EXCEPT ![k] = r]
      /\ wraps' = [wraps EXCEPT ![k] = @ + Carry(t)]
      /\ len' = [len EXCEPT ![t] = 0]
      /\ UNCHANGED <<moved, cleared>>
  BY <1>4
<1> HIDE DEF r, k
<1>6. TypeOK'
  <2> HIDE DEF s
  <2>1. wraps[k] + Carry(t) \in Nat
    BY <1>1, <1>3, <1>4 DEF TypeOK
  <2>2. cnt' \in [Counters -> 0..(Width - 1)]
    BY <1>3, <1>5 DEF TypeOK
  <2>3. wraps' \in [Counters -> Nat]
    BY <1>5, <2>1 DEF TypeOK
  <2>4. pc' \in [Threads -> Labels] /\ len' \in [Threads -> Nat]
    BY <1>5 DEF TypeOK, Labels
  <2> QED
    BY <2>2, <2>3, <2>4 DEF TypeOK
<1>7. Exclusive'
  BY DEF Exclusive, TypeOK
<1>8. PathOfOperation'
  BY <1>5 DEF PathOfOperation, TypeOK
<1>9. ReadsAreFresh'
  BY <1>1 DEF ReadsAreFresh, TypeOK, Exclusive, CounterOf
<1>10. Short(k)' = Short(k) + (s - r) /\ Short(k) \in Nat
  <2>1. wraps[k] \in Nat
    BY <1>1 DEF TypeOK
  <2>2. Width * (wraps[k] + Carry(t)) = Width * wraps[k] + Width * Carry(t)
    BY <1>3, <1>4, <2>1, WidthAssumption, Distribution
  <2>3. Width * Carry(t) = s - r
    <3> DEFINE m == Width * Carry(t)
    <3>1. s = m + r /\ m \in Nat
      BY <1>3, <1>4, WidthAssumption
    <3> HIDE DEF m, s
    <3>2. m = s - r
      BY <1>3, <3>1
    <3> QED
      BY <3>2 DEF m
  <2>4. wraps'[k] = wraps[k] + Carry(t)
    BY <1>1, <1>5 DEF TypeOK
  <2>5. Short(k)' = Width * wraps'[k]
    BY DEF Short
  <2>6. Short(k) \in Nat
    BY <2>1, WidthAssumption DEF Short
  <2> QED
    BY <2>2, <2>3, <2>4, <2>5, <2>6 DEF Short
<1>11. Conservation'
  <2>1. CASE t = "tcpip"
    <3>1. k = "rx" /\ len["task"]' = len["task"] /\ len["tcpip"]' = 0
      BY <1>5, <2>1 DEF k, CounterOf, TypeOK, Threads, Movers
    <3>2. /\ cnt'["rx"] = r /\ cnt'["tx"] = cnt["tx"]
      BY <1>5, <3>1 DEF TypeOK, Counters
    <3>3. /\ Short("rx")' = Short("rx") + (s - r) /\ Short("rx") \in Nat
          /\ Short("tx")' = Short("tx") /\ Short("tx") \in Nat
      <4>1. wraps'["tx"] = wraps["tx"] /\ wraps["tx"] \in Nat
        BY <1>5, <3>1 DEF TypeOK, Counters
      <4> QED
        BY <1>10, <3>1, <4>1, WidthAssumption DEF Short
    <3> QED
      BY <1>3, <1>5, <2>1, <3>1, <3>2, <3>3 DEF Conservation, TypeOK, Counters
  <2>2. CASE t = "task"
    <3>1. k = "tx" /\ len["tcpip"]' = len["tcpip"] /\ len["task"]' = 0
      BY <1>5, <2>2 DEF k, CounterOf, TypeOK, Threads, Movers
    <3>2. /\ cnt'["tx"] = r /\ cnt'["rx"] = cnt["rx"]
      BY <1>5, <3>1 DEF TypeOK, Counters
    <3>3. /\ Short("tx")' = Short("tx") + (s - r) /\ Short("tx") \in Nat
          /\ Short("rx")' = Short("rx") /\ Short("rx") \in Nat
      <4>1. wraps'["rx"] = wraps["rx"] /\ wraps["rx"] \in Nat
        BY <1>5, <3>1 DEF TypeOK, Counters
      <4> QED
        BY <1>10, <3>1, <4>1, WidthAssumption DEF Short
    <3> QED
      BY <1>3, <1>5, <2>2, <3>1, <3>2, <3>3 DEF Conservation, TypeOK, Counters
  <2> QED
    BY <1>1, <2>1, <2>2 DEF Movers
<1> QED
  BY <1>6, <1>7, <1>8, <1>9, <1>11

\* Clearing: what was in the counter goes to the history.
LEMMA ClearInv ==
    ASSUME IInv, NEW t \in Threads, ClearFirst(t) \/ ClearLast(t)
    PROVE  IInv'
<1> USE DEF IInv, ClearFirst, ClearLast, Goto
<1>1. PICK k \in Counters : Clear(k)
  BY DEF FirstCleared, LastCleared, Counters
<1>2. UNCHANGED <<mutex, op, len, reg, out, moved, wraps>>
  OBVIOUS
<1>3. mutex = t /\ op[t] # "add"
  BY DEF Exclusive, PathOfOperation
<1>4. pc'[t] \in {"clear2", "give"}
  BY DEF TypeOK
<1>5. TypeOK'
  <2>1. cleared[k] + cnt[k] \in Nat
    BY WidthAssumption DEF TypeOK
  <2>2. cnt' \in [Counters -> 0..(Width - 1)] /\ cleared' \in [Counters -> Nat]
    BY <1>1, <2>1, WidthAssumption DEF TypeOK, Clear
  <2>3. pc' \in [Threads -> Labels]
    BY DEF TypeOK, Labels
  <2> QED
    BY <1>2, <2>2, <2>3 DEF TypeOK
<1>6. Exclusive'
  BY DEF Exclusive, TypeOK
<1>7. PathOfOperation'
  BY <1>3 DEF PathOfOperation, TypeOK
<1>8. ReadsAreFresh'
  <2>1. op[t] # "get"
    BY DEF PathOfOperation
  <2> QED
    BY <1>2, <1>3, <1>4, <2>1 DEF ReadsAreFresh, TypeOK, Exclusive, CounterOf
<1>9. Conservation'
  BY <1>1, <1>2, NothingShort, WidthAssumption
  DEF Conservation, Clear, TypeOK, Counters, Threads, Movers
<1> QED
  BY <1>5, <1>6, <1>7, <1>8, <1>9

-----------------------------------------------------------------------------
(* The theorems                                                            *)

\* The inductive invariant of PpposCounters holds in every behaviour.
THEOREM Invariance == Spec => []IInv
<1>1. IInv /\ [Next]_vars => IInv'
  <2> SUFFICES ASSUME IInv, [Next]_vars PROVE IInv'
    OBVIOUS
  <2>1. CASE Next
    <3>1. PICK t \in Threads : Begin(t) \/ Proceed(t)
      BY <2>1 DEF Next
    <3> QED
      BY <3>1, BeginInv, TakeInv, ReadInv, StoreInv, ClearInv, GiveInv
      DEF Proceed
  <2>2. CASE UNCHANGED vars
    BY <2>2 DEF vars, sharedVars, threadVars, historyVars, IInv, TypeOK,
                Exclusive, PathOfOperation, ReadsAreFresh, Conservation, Short, CounterOf
  <2> QED
    BY <2>1, <2>2
<1> QED
  BY <1>1, InitInv, PTL DEF Spec

\* The counters never leave their width.
THEOREM TypeCorrect == Spec => []TypeOK
<1>1. IInv => TypeOK
  BY DEF IInv
<1> QED
  BY <1>1, Invariance, PTL

\* No byte is lost or counted twice by tasks that add, read and clear at once.
THEOREM NoByteLost == Spec => []Conservation
<1>1. IInv => Conservation
  BY DEF IInv
<1> QED
  BY <1>1, Invariance, PTL

\* A caller gets both counters as of one moment, and clears what it got.
THEOREM ReadsAreSnapshots == Spec => []Snapshot
<1>1. IInv => Snapshot
  BY DEF IInv, ReadsAreFresh, Snapshot, Threads
<1> QED
  BY <1>1, Invariance, PTL

-----------------------------------------------------------------------------
(* The calls take effect at one moment: PpposCounters implements           *)
(* TrafficMeter.                                                           *)

\* Between two clears the first counter is zero already, so that the second
\* clear is not seen.
HalfCleared ==
    \A t \in Threads : pc[t] = "clear2" => cnt[FirstCleared(t)] = 0

LEMMA HalfClearedInv ==
    ASSUME IInv, HalfCleared, [Next]_vars
    PROVE  HalfCleared'
<1>1. ASSUME NEW t \in Threads, Store(t) PROVE HalfCleared'
  BY <1>1 DEF HalfCleared, IInv, TypeOK, Exclusive, Store, Goto
<1>2. ASSUME NEW t \in Threads, ClearFirst(t) PROVE HalfCleared'
  BY <1>2 DEF HalfCleared, IInv, TypeOK, Exclusive, ClearFirst, Clear, Goto,
              FirstCleared, Counters
<1>3. ASSUME NEW t \in Threads, ClearLast(t) PROVE HalfCleared'
  BY <1>3 DEF HalfCleared, IInv, TypeOK, Exclusive, ClearLast, Goto
<1>4. ASSUME NEW t \in Threads, NEW label \in Labels \ {"clear2"},
             Goto(t, label), UNCHANGED cnt
      PROVE  HalfCleared'
  BY <1>4 DEF HalfCleared, IInv, TypeOK, Goto, FirstCleared
<1>5. ASSUME NEW t \in Threads, Begin(t) PROVE HalfCleared'
  BY <1>4, <1>5 DEF Begin, ResetCall, GetCall, Move, Call, sharedVars, Labels
<1>6. ASSUME NEW t \in Threads, Take(t) PROVE HalfCleared'
  <2>1. FirstLabel(t) \in Labels \ {"clear2"}
    BY DEF FirstLabel, Labels
  <2> QED
    BY <1>4, <1>6, <2>1 DEF Take
<1>7. ASSUME NEW t \in Threads, Load(t) \/ ReadRx(t) \/ Give(t) PROVE HalfCleared'
  BY <1>4, <1>7 DEF Load, ReadRx, Give, sharedVars, Labels
<1>8. ASSUME NEW t \in Threads, ReadTx(t) PROVE HalfCleared'
  BY <1>4, <1>8 DEF ReadTx, sharedVars, Labels
<1>9. CASE UNCHANGED vars
  BY <1>9 DEF vars, sharedVars, threadVars, HalfCleared, FirstCleared
<1> QED
  BY <1>1, <1>2, <1>3, <1>5, <1>6, <1>7, <1>8, <1>9 DEF Next, Proceed

\* A number below the width is its own remainder.
LEMMA SmallRemainder ==
    ASSUME NEW w \in Nat \ {0}, NEW x \in 0..(w - 1)
    PROVE  x % w = x
OBVIOUS

\* A thread has called something exactly while it is not idle.
Calling ==
    \A t \in Threads : pc[t] = "idle" <=> op[t] = "none"

LEMMA CallingInv ==
    ASSUME IInv, Calling, [Next]_vars
    PROVE  Calling'
<1>1. ASSUME NEW t \in Threads, NEW operation \in Operations \ {"none"},
             Call(t, operation)
      PROVE  Calling'
  BY <1>1 DEF Calling, IInv, TypeOK, Call, Goto
<1>2. ASSUME NEW t \in Threads, Begin(t) PROVE Calling'
  BY <1>1, <1>2 DEF Begin, ResetCall, GetCall, Move, Operations
<1>3. ASSUME NEW t \in Threads, NEW label \in Labels \ {"idle"},
             pc[t] # "idle", Goto(t, label), UNCHANGED op
      PROVE  Calling'
  BY <1>3 DEF Calling, IInv, TypeOK, Goto
<1>4. ASSUME NEW t \in Threads, Take(t) PROVE Calling'
  <2>1. FirstLabel(t) \in Labels \ {"idle"}
    BY DEF FirstLabel, Labels
  <2> QED
    BY <1>3, <1>4, <2>1 DEF Take
<1>5. ASSUME NEW t \in Threads, \/ Load(t) \/ Store(t) \/ ReadRx(t) \/ ReadTx(t)
                                \/ ClearFirst(t) \/ ClearLast(t)
      PROVE  Calling'
  BY <1>3, <1>5 DEF Load, Store, ReadRx, ReadTx, ClearFirst, ClearLast, Labels
<1>6. ASSUME NEW t \in Threads, Give(t) PROVE Calling'
  BY <1>6 DEF Calling, IInv, TypeOK, Give, Goto
<1>7. CASE UNCHANGED vars
  BY <1>7 DEF vars, threadVars, Calling
<1> QED
  BY <1>2, <1>4, <1>5, <1>6, <1>7 DEF Next, Proceed

\* A step of one thread is seen at that thread only.
LEMMA OneSeen ==
    ASSUME IInv, NEW t \in Threads, NEW label,
           Goto(t, label),
           \A u \in Threads \ {t} :
               op'[u] = op[u] /\ len'[u] = len[u] /\ out'[u] = out[u]
    PROVE  /\ Todo' = [Todo EXCEPT ![t] = Todo'[t]]
           /\ Got'  = [Got  EXCEPT ![t] = Got'[t]]
           /\ Owe'  = [Owe  EXCEPT ![t] = Owe'[t]]
<1>1. \A u \in Threads \ {t} : pc'[u] = pc[u]
  BY DEF IInv, TypeOK, Goto
<1>2. \A u \in Threads \ {t} : Done(u)' <=> Done(u)
  BY <1>1 DEF Done
<1>3. \A u \in Threads \ {t} : Todo'[u] = Todo[u]
  BY <1>2 DEF Todo
<1>4. \A u \in Threads \ {t} : Got'[u] = Got[u]
  BY <1>2 DEF Got
<1>5. \A u \in Threads \ {t} : Owe'[u] = Owe[u]
  BY DEF Owe, CounterOf
<1>6. Todo' = [Todo EXCEPT ![t] = Todo'[t]]
  BY <1>3 DEF Todo
<1>7. Got' = [Got EXCEPT ![t] = Got'[t]]
  BY <1>4 DEF Got
<1>8. Owe' = [Owe EXCEPT ![t] = Owe'[t]]
  BY <1>5 DEF Owe
<1> QED
  BY <1>6, <1>7, <1>8

\* A call is begun, and is seen to be.
LEMMA BeginSimulates ==
    ASSUME IInv, Calling, NEW t \in Threads, Begin(t)
    PROVE  \E operation \in Meter!Operations : Meter!Call(t, operation)
<1>1. PICK o \in Operations \ {"none"} :
          /\ Call(t, o)
          /\ o = "add" => t \in Movers /\ \E n \in Lens : len' = [len EXCEPT ![t] = n]
          /\ o # "add" => UNCHANGED len
  BY DEF Begin, ResetCall, GetCall, Move, Operations
<1>2. /\ pc[t] = "idle" /\ op[t] = "none" /\ len[t] = 0
      /\ Goto(t, "take") /\ op' = [op EXCEPT ![t] = o]
      /\ UNCHANGED <<mutex, cnt, reg, out>>
  BY <1>1 DEF Call, sharedVars, Calling, IInv, PathOfOperation
<1>3. /\ pc' = [pc EXCEPT ![t] = "take"] /\ op'[t] = o
      /\ \A u \in Threads \ {t} : op'[u] = op[u] /\ out'[u] = out[u] /\ len'[u] = len[u]
  BY <1>1, <1>2 DEF Goto, IInv, TypeOK
<1>4. ~Done(t) /\ ~Done(t)'
  BY <1>2, <1>3 DEF Done, IInv, TypeOK
<1>5. /\ Todo[t] = "none" /\ Todo'[t] = o
      /\ Got[t] = Zero /\ Got'[t] = Zero
      /\ Owe[t] = Zero /\ Owe'[t] = [Zero EXCEPT ![CounterOf(t)] = len'[t]]
  BY <1>2, <1>3, <1>4 DEF Todo, Got, Owe, Zero, CounterOf
<1>6. /\ Todo' = [Todo EXCEPT ![t] = o]
      /\ Got' = [Got EXCEPT ![t] = Got[t]]
      /\ Owe' = [Owe EXCEPT ![t] = Owe'[t]]
  BY <1>2, <1>3, <1>5, OneSeen
<1>7. Got' = Got /\ (Owe'[t] = Owe[t] => Owe' = Owe)
  BY <1>6 DEF Got, Owe
<1>8. Total' = Total
  BY <1>2, <1>3 DEF Total, IInv, TypeOK
<1>9. IF o = "add"
      THEN \E k \in Meter!Counters, n \in Lens :
               Owe' = [Owe EXCEPT ![t] = [Meter!Zero EXCEPT ![k] = n]]
      ELSE UNCHANGED Owe
  <2>1. CASE o = "add"
    <3>1. PICK n \in Lens : len' = [len EXCEPT ![t] = n]
      BY <1>1, <2>1
    <3>2. len'[t] = n
      BY <3>1 DEF IInv, TypeOK
    <3>3. CounterOf(t) \in Meter!Counters /\ Zero = Meter!Zero
      BY DEF CounterOf, Meter!Counters, Meter!Zero, Zero, Counters
    <3> QED
      BY <1>5, <1>6, <2>1, <3>2, <3>3
  <2>2. CASE o # "add"
    <3>1. Owe'[t] = Owe[t]
      BY <1>1, <1>2, <1>5, <2>2 DEF Zero
    <3> QED
      BY <1>7, <2>2, <3>1
  <2> QED
    BY <2>1, <2>2
<1>10. o \in Meter!Operations
  BY DEF Operations, Meter!Operations
<1> QED
  BY <1>5, <1>6, <1>7, <1>8, <1>9, <1>10 DEF Meter!Call

\* Taking the mutex, loading a counter, reading the first of two, reading the
\* second of two that will be cleared and clearing the second are not seen.
LEMMA Unseen ==
    ASSUME IInv, HalfCleared, NEW t \in Threads,
           \/ Take(t) \/ Load(t) \/ ReadRx(t) \/ ClearLast(t)
           \/ ReadTx(t) /\ op[t] = "getreset"
    PROVE  UNCHANGED <<Total, Todo, Owe, Got>>
<1>1. PICK label \in Labels :
          /\ Goto(t, label) /\ pc' = [pc EXCEPT ![t] = label]
          /\ UNCHANGED <<op, len>>
          /\ \/ label = "give" /\ pc[t] = "clear2"
             \/ label \notin {"give", "clear2"} /\ ~Done(t)
          /\ \A u \in Threads \ {t} : out'[u] = out[u]
          /\ Done(t) => out' = out
  <2> DEFINE Label(label) ==
          /\ Goto(t, label) /\ pc' = [pc EXCEPT ![t] = label]
          /\ UNCHANGED <<op, len>>
          /\ \/ label = "give" /\ pc[t] = "clear2"
             \/ label \notin {"give", "clear2"} /\ ~Done(t)
          /\ \A u \in Threads \ {t} : out'[u] = out[u]
          /\ Done(t) => out' = out
  <2>1. CASE Take(t)
    <3>1. FirstLabel(t) \in Labels \ {"give", "clear2"}
      BY DEF FirstLabel, Labels
    <3>2. Label(FirstLabel(t))
      BY <2>1, <3>1 DEF Take, Goto, Done
    <3> QED
      BY <3>1, <3>2
  <2>2. CASE Load(t)
    <3>1. Label("store")
      BY <2>2 DEF Load, Goto, Done, sharedVars
    <3> QED
      BY <3>1 DEF Labels
  <2>3. CASE ReadRx(t)
    <3>1. Label("readtx")
      BY <2>3 DEF ReadRx, Goto, Done, sharedVars, IInv, TypeOK
    <3> QED
      BY <3>1 DEF Labels
  <2>4. CASE ReadTx(t) /\ op[t] = "getreset"
    <3>1. Label("clear1")
      BY <2>4 DEF ReadTx, Goto, Done, sharedVars, IInv, TypeOK
    <3> QED
      BY <3>1 DEF Labels
  <2>5. CASE ClearLast(t)
    <3>1. /\ pc[t] = "clear2" /\ Goto(t, "give") /\ UNCHANGED <<op, len, out>>
      BY <2>5 DEF ClearLast
    <3>2. Label("give")
      BY <3>1 DEF Goto
    <3> QED
      BY <3>2 DEF Labels
  <2> QED
    BY <2>1, <2>2, <2>3, <2>4, <2>5
<1>2. pc'[t] = label
  BY <1>1 DEF IInv, TypeOK
<1>3. Done(t)' <=> Done(t)
  BY <1>1, <1>2 DEF Done
<1>4. Todo'[t] = Todo[t] /\ Got'[t] = Got[t] /\ Owe'[t] = Owe[t]
  BY <1>1, <1>3 DEF Todo, Got, Owe, CounterOf
<1>5. UNCHANGED <<Todo, Owe, Got>>
  <2>1. /\ Todo' = [Todo EXCEPT ![t] = Todo[t]]
        /\ Got' = [Got EXCEPT ![t] = Got[t]]
        /\ Owe' = [Owe EXCEPT ![t] = Owe[t]]
    BY <1>1, <1>4, OneSeen
  <2> QED
    BY <2>1 DEF Todo, Got, Owe
<1>6. Total' = Total
  <2>1. CASE ClearLast(t)
    <3>1. mutex = t /\ mutex' = t /\ pc[t] = "clear2" /\ pc'[t] = "give"
      BY <2>1 DEF ClearLast, Goto, IInv, TypeOK, Exclusive
    <3>2. \A u \in Threads : pc'[u] # "clear2"
      BY <1>1, <3>1 DEF IInv, Exclusive, TypeOK
    <3>3. cnt' = Zero
      BY <2>1, <3>1
      DEF ClearLast, Clear, HalfCleared, FirstCleared, LastCleared, Zero, Counters,
          IInv, TypeOK
    <3> QED
      BY <3>1, <3>2, <3>3 DEF Total
  <2>2. CASE ~ClearLast(t)
    <3>1. cnt' = cnt /\ pc[t] # "clear2" /\ pc'[t] # "clear2"
      BY <1>1, <1>2, <2>2
      DEF Take, Load, ReadRx, ReadTx, sharedVars, Done
    <3>2. \A u \in Threads : pc'[u] = "clear2" <=> pc[u] = "clear2"
      BY <1>1, <3>1 DEF IInv, TypeOK
    <3> QED
      BY <3>1, <3>2 DEF Total
  <2> QED
    BY <2>1, <2>2
<1> QED
  BY <1>5, <1>6

\* A step that ends with a call done is the call's effect, if it changes the
\* counters as the call does and what it has read is right.
LEMMA EffectSeen ==
    ASSUME IInv, Calling, NEW t \in Threads, NEW label \in {"give", "clear2"},
           pc[t] \notin {"idle", "give", "clear2"},
           Goto(t, label), op' = op, len'[t] = 0,
           op[t] # "add" => len[t] = 0,
           op[t] \in {"get", "getreset"} => out'[t] = Total,
           \A u \in Threads \ {t} : len'[u] = len[u] /\ out'[u] = out[u],
           Total' = CASE op[t] = "add" ->
                           [k \in Counters |-> (Total[k] + Owe[t][k]) % Width]
                      [] op[t] = "get" -> Total
                      [] OTHER -> Zero
    PROVE  Meter!Effect(t)
<1>1. pc'[t] = label
  BY DEF IInv, TypeOK, Goto
<1>2. ~Done(t) /\ Done(t)'
  BY <1>1 DEF Done
<1>3. op[t] \in Operations \ {"none"}
  BY DEF Calling, IInv, TypeOK
<1>4. Todo[t] = op[t] /\ Todo'[t] = "return"
  BY <1>2 DEF Todo
<1>5. Got[t] = Zero /\ Got'[t] = IF op[t] \in {"get", "getreset"} THEN Total ELSE Got[t]
  BY <1>2 DEF Got
<1>6. Owe'[t] = Zero
  BY DEF Owe, Zero
<1>7. /\ Todo' = [Todo EXCEPT ![t] = "return"]
      /\ Got' = [Got EXCEPT ![t] = IF op[t] \in {"get", "getreset"} THEN Total ELSE @]
      /\ Owe' = [Owe EXCEPT ![t] = Zero]
  <2>1. /\ Todo' = [Todo EXCEPT ![t] = Todo'[t]]
        /\ Got'  = [Got  EXCEPT ![t] = Got'[t]]
        /\ Owe'  = [Owe  EXCEPT ![t] = Owe'[t]]
    BY OneSeen
  <2>2. Got' = [Got EXCEPT ![t] = IF op[t] \in {"get", "getreset"} THEN Total ELSE Got[t]]
    BY <1>5, <2>1
  <2>3. Got \in [Threads -> {Got[u] : u \in Threads}]
    BY DEF Got
  <2> QED
    BY <1>4, <1>6, <2>1, <2>2, <2>3
<1>8. Meter!Zero = Zero /\ Meter!Counters = Counters
      /\ Meter!Operations = Operations \ {"none"}
  BY DEF Meter!Zero, Zero, Meter!Counters, Counters, Meter!Operations, Operations
<1> QED
  BY <1>3, <1>4, <1>7, <1>8 DEF Meter!Effect

\* The store of a sum is the effect of an addition.
LEMMA StoreSimulates ==
    ASSUME IInv, IInv', Calling, NEW t \in Threads, Store(t)
    PROVE  Meter!Effect(t)
<1> DEFINE k == CounterOf(t)
<1>1. /\ pc[t] = "store" /\ Goto(t, "give") /\ UNCHANGED <<mutex, op, out>>
      /\ cnt' = [cnt EXCEPT ![k] = Sum(t)] /\ len' = [len EXCEPT ![t] = 0]
  BY DEF Store
<1>2. /\ mutex = t /\ op[t] = "add" /\ reg[t] = cnt[k] /\ pc'[t] = "give"
      /\ len'[t] = 0 /\ \A u \in Threads \ {t} : len'[u] = len[u]
  BY <1>1 DEF IInv, Exclusive, PathOfOperation, ReadsAreFresh, TypeOK, Goto
<1>3. Total = cnt /\ Total' = cnt'
  <2>1. mutex' = t
    BY <1>1, <1>2
  <2> QED
    BY <1>1, <1>2, <2>1 DEF IInv, Exclusive, Total
<1>4. ASSUME NEW c \in Counters
      PROVE  cnt'[c] = (cnt[c] + Owe[t][c]) % Width
  <2>1. Owe[t] = [Zero EXCEPT ![k] = len[t]] /\ cnt[c] \in 0 .. (Width - 1)
    BY DEF Owe, IInv, TypeOK
  <2>2. CASE c = k
    BY <1>1, <1>2, <2>1, <2>2 DEF Sum, Zero, IInv, TypeOK
  <2>3. CASE c # k
    <3>1. Owe[t][c] = 0 /\ cnt'[c] = cnt[c]
      BY <1>1, <2>1, <2>3 DEF Zero, IInv, TypeOK
    <3>2. cnt[c] + 0 = cnt[c]
      BY <2>1, WidthAssumption
    <3>3. cnt[c] % Width = cnt[c]
      BY <2>1, WidthAssumption, SmallRemainder
    <3> QED
      BY <3>1, <3>2, <3>3
  <2> QED
    BY <2>2, <2>3
<1>5. Total' = [c \in Counters |-> (Total[c] + Owe[t][c]) % Width]
  <2>1. cnt' \in [Counters -> 0 .. (Width - 1)]
    BY DEF IInv, TypeOK
  <2> QED
    BY <1>3, <1>4, <2>1
<1> QED
  BY <1>1, <1>2, <1>5, EffectSeen

\* The second read is the effect of a call that only reads.
LEMMA ReadSimulates ==
    ASSUME IInv, IInv', Calling, NEW t \in Threads, ReadTx(t), op[t] = "get"
    PROVE  Meter!Effect(t)
<1>1. /\ pc[t] = "readtx" /\ Goto(t, "give") /\ UNCHANGED <<mutex, cnt, op, len>>
      /\ \A u \in Threads \ {t} : out'[u] = out[u]
  BY DEF ReadTx, sharedVars, IInv, TypeOK
<1>2. mutex = t /\ pc'[t] = "give" /\ len[t] = 0
  BY <1>1 DEF IInv, Exclusive, PathOfOperation, TypeOK, Goto
<1>3. Total = cnt /\ Total' = cnt
  BY <1>1, <1>2 DEF IInv, Exclusive, Total
<1>4. out'[t] = cnt
  BY <1>1, <1>2 DEF IInv, ReadsAreFresh
<1> QED
  BY <1>1, <1>2, <1>3, <1>4, EffectSeen

\* The first of two clears is the effect of a call that clears both counters and
\* returns what it has read of them, if it has.
LEMMA ClearSimulates ==
    ASSUME IInv, IInv', Calling, NEW t \in Threads, ClearFirst(t)
    PROVE  Meter!Effect(t)
<1>1. /\ pc[t] = "clear1" /\ Goto(t, "clear2") /\ UNCHANGED <<mutex, op, len, out>>
  BY DEF ClearFirst
<1>2. /\ mutex = t /\ pc'[t] = "clear2" /\ len[t] = 0 /\ op[t] \notin {"add", "get"}
  BY <1>1 DEF IInv, Exclusive, PathOfOperation, TypeOK, Goto
<1>3. Total = cnt /\ Total' = Zero
  BY <1>1, <1>2 DEF IInv, Exclusive, Total
<1>4. op[t] = "getreset" => out[t] = cnt
  BY <1>1 DEF IInv, ReadsAreFresh
<1> QED
  BY <1>1, <1>2, <1>3, <1>4, EffectSeen

\* Giving the mutex back is the return of the call.
LEMMA GiveSimulates ==
    ASSUME IInv, IInv', NEW t \in Threads, Give(t)
    PROVE  Meter!Return(t)
<1>1. /\ pc[t] = "give" /\ Goto(t, "idle") /\ op' = [op EXCEPT ![t] = "none"]
      /\ mutex' = Nobody /\ UNCHANGED <<cnt, len>>
      /\ \A u \in Threads \ {t} : op'[u] = op[u] /\ out'[u] = out[u]
  BY DEF Give, IInv, TypeOK
<1>2. mutex = t /\ pc'[t] = "idle" /\ len[t] = 0 /\ op'[t] = "none"
  BY <1>1 DEF IInv, Exclusive, PathOfOperation, TypeOK, Goto
<1>3. Total' = Total
  <2>1. Total = cnt
    BY <1>1, <1>2 DEF IInv, Exclusive, Total
  <2>2. Total' = cnt'
    BY <1>1, CallersAssumption DEF IInv, Exclusive, Total, Threads, Movers, Nobody
  <2> QED
    BY <1>1, <2>1, <2>2
<1>4. Done(t) /\ ~Done(t)'
  BY <1>1, <1>2 DEF Done
<1>5. /\ Todo[t] = "return" /\ Todo'[t] = "none" /\ Got'[t] = Zero
      /\ Owe'[t] = Owe[t]
  BY <1>1, <1>2, <1>4 DEF Todo, Got, Owe, CounterOf
<1>6. /\ Todo' = [Todo EXCEPT ![t] = "none"]
      /\ Got' = [Got EXCEPT ![t] = Zero]
      /\ Owe' = [Owe EXCEPT ![t] = Owe[t]]
  BY <1>1, <1>5, OneSeen
<1>7. Owe' = Owe /\ Meter!Zero = Zero
  BY <1>6 DEF Owe, Meter!Zero, Zero, Meter!Counters, Counters
<1> QED
  BY <1>3, <1>5, <1>6, <1>7 DEF Meter!Return

\* Every step is a step of the meter, or is not seen there.
LEMMA Simulation ==
    ASSUME IInv, IInv', HalfCleared, Calling, [Next]_vars
    PROVE  [Meter!Next]_<<Total, Todo, Owe, Got>>
<1>1. ASSUME NEW t \in Threads, Begin(t) PROVE Meter!Next
  BY <1>1, BeginSimulates DEF Meter!Next
<1>2. ASSUME NEW t \in Threads, Store(t) \/ ClearFirst(t) PROVE Meter!Next
  BY <1>2, StoreSimulates, ClearSimulates DEF Meter!Next
<1>3. ASSUME NEW t \in Threads, ReadTx(t)
      PROVE  Meter!Next \/ UNCHANGED <<Total, Todo, Owe, Got>>
  <2>1. op[t] \in {"get", "getreset"}
    BY <1>3 DEF ReadTx, IInv, PathOfOperation
  <2> QED
    BY <1>3, <2>1, ReadSimulates, Unseen DEF Meter!Next
<1>4. ASSUME NEW t \in Threads, Give(t) PROVE Meter!Next
  BY <1>4, GiveSimulates DEF Meter!Next
<1>5. ASSUME NEW t \in Threads, Take(t) \/ Load(t) \/ ReadRx(t) \/ ClearLast(t)
      PROVE  UNCHANGED <<Total, Todo, Owe, Got>>
  BY <1>5, Unseen
<1>6. CASE UNCHANGED vars
  BY <1>6 DEF vars, sharedVars, threadVars, Total, Todo, Owe, Got, Done, CounterOf
<1> QED
  BY <1>1, <1>2, <1>3, <1>4, <1>5, <1>6 DEF Next, Proceed

\* The calls of any number of tasks take effect one at a time, each at a moment
\* between its beginning and its return: getRxTxCount returns counts of one moment,
\* and loses none of them when it clears.
THEOREM Implements == Spec => AtOnce
<1>1. Init => Meter!Init
  <2> SUFFICES ASSUME Init PROVE Meter!Init
    OBVIOUS
  <2>1. \A t \in Threads : ~Done(t) /\ pc[t] # "clear2" /\ len[t] = 0 /\ op[t] = "none"
    BY DEF Init, Done
  <2>2. Total = Zero /\ Meter!Zero = Zero
    BY <2>1 DEF Init, Total, Meter!Zero, Zero, Meter!Counters, Counters
  <2>3. \A t \in Threads : [Zero EXCEPT ![CounterOf(t)] = len[t]] = Zero
    BY <2>1 DEF Zero
  <2> QED
    BY <2>1, <2>2, <2>3 DEF Meter!Init, Todo, Owe, Got
<1>2. Init => HalfCleared /\ Calling
  BY DEF Init, HalfCleared, Calling
<1>3. Spec => [](HalfCleared /\ Calling)
  <2>1. IInv /\ HalfCleared /\ Calling /\ [Next]_vars => (HalfCleared /\ Calling)'
    BY HalfClearedInv, CallingInv
  <2> QED
    BY <1>2, <2>1, Invariance, PTL DEF Spec
<1>4. IInv /\ IInv' /\ HalfCleared /\ Calling /\ [Next]_vars =>
        [Meter!Next]_<<Total, Todo, Owe, Got>>
  BY Simulation
<1> QED
  BY <1>1, <1>3, <1>4, Invariance, PTL DEF Spec, AtOnce, Meter!Spec
============================================================================
