---------------------------- MODULE AtCmdProofs ----------------------------
(***************************************************************************)
(* The safety properties of AtCmd, for buffers, time-outs and streams of   *)
(* any length.                                                             *)
(***************************************************************************)
EXTENDS AtCmd, TLAPS

\* realloc replaces a block only when it enlarges it, and a call ends with the
\* old pointer only when it runs out of memory, after which nothing is collected.
\* Only an array can go wild, and only by being enlarged.
Pointers ==
  /\ size >= SizeOf(asked)
  /\ pc = "collect" => ~oom
  /\ stale => size > SizeOf(asked) /\ asked \in Collections
  /\ pc = "ready" /\ stale => oom
  /\ asked \in Searches => nulled = {}
  /\ wild => asked = "array"
  /\ asked = "array" /\ ~wild => size = ArraySize

IInv == TypeOK /\ Whole /\ Judged /\ Room /\ Terminated /\ Pointers

----------------------------------------------------------------------------

\* What a search has stored is an interval of the stream.
LEMMA Stored ==
  ASSUME TypeOK, Whole, Pointers, asked \in Searches
  PROVE  {buf[i] : i \in 0 .. tot - 1} = from + 1 .. from + tot
<1>1. ~wild /\ \A w, i : ~Hits(w, i)
  BY DEF Pointers, Hits, Searches
<1>2. \A i \in 0 .. tot - 1 : buf[i] = from + 1 + i
  BY <1>1 DEF Whole
<1>3. ASSUME NEW b \in from + 1 .. from + tot
      PROVE  b - from - 1 \in 0 .. tot - 1 /\ buf[b - from - 1] = b
  BY <1>2 DEF TypeOK
<1>4. \A i \in 0 .. tot - 1 : buf[i] \in from + 1 .. from + tot
  BY <1>2 DEF TypeOK
<1> QED
  BY <1>3, <1>4

\* The bytes stored are bytes that have come.
LEMMA StoresBytes ==
  ASSUME TypeOK, NEW n \in Nat, n <= came - read, NEW i \in tot .. tot + n - 1
  PROVE  read + 1 + i - tot \in 0 .. MaxBytes
BY SizesAssumption DEF TypeOK

\* The offsets of a buffer, and that the bytes stored are within.
LEMMA OffsetsAreNat ==
  ASSUME TypeOK
  PROVE  Offsets \in SUBSET Nat
BY SizesAssumption DEF Offsets, TypeOK

\* What a call begins with has the type of a buffer.
LEMMA FreshBuffer ==
  ASSUME NEW ask \in Asks
  PROVE  /\ ask \in Searches => Fresh(ask) \in [0 .. Keep - 1 -> 0 .. MaxBytes \cup {Junk}]
         /\ ask = "array" => /\ Fresh(ask) \in [0 .. ArraySize -> 0 .. MaxBytes \cup {Junk}]
                            /\ \A i \in 0 .. ArraySize : Fresh(ask)[i] = 0
         /\ ask = "heap" => /\ Fresh(ask) \in [0 .. Size - 1 -> 0 .. MaxBytes \cup {Junk}]
                           /\ \A i \in 0 .. Size - 1 : Fresh(ask)[i] = Junk
<1>1. 0 \in 0 .. MaxBytes
  BY SizesAssumption
<1> QED
  BY <1>1 DEF Fresh, Asks, Searches, Collections

\* The invariant holds before the first call.
THEOREM InitInv == Init => IInv
<1> SUFFICES ASSUME Init PROVE IInv
  OBVIOUS
<1> USE SizesAssumption
<1>1. TypeOK
  <2>1. buf \in [Offsets -> 0 .. MaxBytes \cup {Junk}]
    BY FreshBuffer DEF Init, Offsets, Asks, Collections, Searches
  <2>2. pc \in {"ready", "wait", "collect"} /\ asked \in Asks
        /\ (pc # "ready" => (pc = "collect" <=> asked \in Collections))
        /\ (pc = "wait" => rounds <= Timeout)
    BY DEF Init, Asks, Collections
  <2>3. came \in 0 .. MaxBytes /\ read \in 0 .. came /\ from \in 0 .. read
        /\ rounds \in 0 .. Timeout + 1 /\ tot \in Nat /\ size \in Nat /\ res \in Nat
    BY DEF Init
  <2>4. /\ spots \subseteq Spots /\ stale \in BOOLEAN /\ oom \in BOOLEAN
        /\ gap \in Gaps \cup {0} /\ nulled \subseteq Nat /\ wild \in BOOLEAN
    BY DEF Init
  <2> QED
    BY <2>1, <2>2, <2>3, <2>4 DEF TypeOK
<1>2. Terminated
  BY FreshBuffer DEF Init, Terminated, Asks, Collections
<1>3. Whole /\ Judged /\ Room /\ Pointers
  BY DEF Init, Whole, Judged, Room, Pointers, SizeOf, Searches, Collections
<1> QED
  BY <1>1, <1>2, <1>3 DEF IInv

\* A call begins with nothing.
LEMMA CallInv ==
  ASSUME IInv, NEW ask \in Asks, Call(ask)
  PROVE  IInv'
<1> USE SizesAssumption
<1>1. /\ asked' = ask /\ tot' = 0 /\ size' = SizeOf(ask) /\ buf' = Fresh(ask)
      /\ stale' = FALSE /\ oom' = FALSE /\ nulled' = {} /\ wild' = FALSE
      /\ pc' = (IF ask \in Collections THEN "collect" ELSE "wait")
      /\ read' = came /\ from' = came /\ rounds' = 0 /\ UNCHANGED <<spots, came, res>>
  BY DEF Call, uart
<1>2. gap' \in Gaps \cup {0}
  BY DEF Call
<1>3. TypeOK'
  <2>1. (buf \in [Offsets -> 0 .. MaxBytes \cup {Junk}])'
    BY <1>1, FreshBuffer DEF Offsets, SizeOf, Asks, Collections, Searches
  <2>2. (/\ pc \in {"ready", "wait", "collect"} /\ asked \in Asks
         /\ pc # "ready" => (pc = "collect" <=> asked \in Collections)
         /\ pc = "wait" => rounds <= Timeout)'
    BY <1>1
  <2>3. (/\ came \in 0 .. MaxBytes /\ read \in 0 .. came /\ from \in 0 .. read
         /\ rounds \in 0 .. Timeout + 1 /\ tot \in Nat /\ size \in Nat /\ res \in Nat)'
    BY <1>1 DEF IInv, TypeOK, SizeOf
  <2>4. (spots \subseteq Spots /\ stale \in BOOLEAN /\ oom \in BOOLEAN
         /\ gap \in Gaps \cup {0} /\ nulled \subseteq Nat /\ wild \in BOOLEAN)'
    BY <1>1, <1>2 DEF IInv, TypeOK
  <2> QED
    BY <2>1, <2>2, <2>3, <2>4 DEF TypeOK
<1>4. Terminated'
  BY <1>1, FreshBuffer DEF Terminated, SizeOf
<1>5. Whole' /\ Judged' /\ Room' /\ Pointers'
  BY <1>1 DEF IInv, TypeOK, Whole, Judged, Room, Pointers, SizeOf, Least,
              Asks, Searches, Collections
<1> QED
  BY <1>3, <1>4, <1>5 DEF IInv

\* A round without a verdict keeps the count in its bounds.
LEMMA CountTypes ==
  ASSUME TypeOK, pc = "wait", Count
  PROVE  /\ rounds' \in 0 .. Timeout + 1 /\ res' \in Nat
         /\ pc' \in {"ready", "wait"}
         /\ pc' = "wait" => rounds' <= Timeout
         /\ pc' = "ready" => rounds' > Timeout
BY SizesAssumption DEF TypeOK, Count, Over, Return

\* Bytes are added to those to be searched, and those that do not fit dropped.
LEMMA ReceiveInv ==
  ASSUME IInv, Receive
  PROVE  IInv'
<1> USE SizesAssumption
<1>1. TypeOK /\ Whole /\ Room /\ Pointers /\ asked \in Searches
  BY DEF IInv, Receive, TypeOK, Asks, Searches, Collections
<1>2. Available \in Nat /\ Available <= came - read
  BY <1>1 DEF TypeOK, Available, Least
<1> DEFINE n == Least(Available, Keep - tot)
<1>3. tot = Least(Keep, read - from)
  BY <1>1 DEF Whole
<1>4. n \in Nat /\ n <= came - read
  BY <1>1, <1>2, <1>3 DEF TypeOK, Least
<1>5. /\ buf' = With(buf, n) /\ tot' = tot + n
      /\ from' = from /\ read' = read + Available /\ came' = came
  BY DEF Receive, uart
<1>6. tot' = Least(Keep, read' - from)
  BY <1>1, <1>2, <1>3, <1>5 DEF TypeOK, Least
<1>7. ~wild /\ Offsets = 0 .. Keep - 1 /\ \A w, i : ~Hits(w, i)
  BY <1>1 DEF Offsets, Pointers, Hits, Searches
<1>8. /\ buf' \in [0 .. Keep - 1 -> 0 .. MaxBytes \cup {Junk}]
      /\ \A i \in 0 .. Keep - 1 : buf'[i] =
            IF i \in tot .. tot + n - 1 THEN read + 1 + i - tot ELSE buf[i]
  <2>1. 0 .. Keep - 1 \in SUBSET Nat /\ buf \in [0 .. Keep - 1 -> 0 .. MaxBytes \cup {Junk}]
    BY <1>1, <1>7 DEF TypeOK
  <2>2. buf' = [i \in 0 .. Keep - 1 |->
                  IF i \in tot .. tot + n - 1 THEN read + 1 + i - tot ELSE buf[i]]
    BY <1>5, <2>1 DEF With
  <2> HIDE DEF n
  <2>3. \A i \in tot .. tot + n - 1 : read + 1 + i - tot \in 0 .. MaxBytes
    BY <1>1, <1>4, StoresBytes
  <2> QED
    BY <2>1, <2>2, <2>3
<1>9. ASSUME NEW i \in 0 .. tot' - 1 PROVE buf'[i] = from + 1 + i
  <2>1. i \in 0 .. Keep - 1 /\ tot' \in Nat
    BY <1>1, <1>2, <1>5, <1>6 DEF TypeOK, Least
  <2>2. buf'[i] = IF i \in tot .. tot + n - 1 THEN read + 1 + i - tot ELSE buf[i]
    BY <1>8, <2>1
  <2>3. CASE i < tot
    <3>1. i \in 0 .. tot - 1 /\ i \notin tot .. tot + n - 1
      BY <1>1, <2>1, <2>3 DEF TypeOK
    <3> QED
      BY <1>1, <1>7, <2>2, <3>1 DEF Whole
  <2>4. CASE ~(i < tot)
    <3>1. i \in tot .. tot + n - 1 /\ tot = read - from
      BY <1>1, <1>3, <1>4, <1>5, <2>1, <2>4 DEF TypeOK, Least
    <3> QED
      BY <1>1, <2>1, <2>2, <3>1 DEF TypeOK
  <2> QED
    BY <2>3, <2>4
<1>10. /\ rounds' \in 0 .. Timeout + 1 /\ res' \in Nat
       /\ pc' \in {"ready", "wait"}
       /\ pc' = "wait" => rounds' <= Timeout
       /\ pc' = "ready" => rounds' > Timeout
  BY <1>1, CountTypes DEF Receive
<1>11. UNCHANGED <<spots, came, asked, size, stale, gap, nulled, wild, from, oom>> /\ tot' \in Nat
  BY <1>1, <1>2, <1>5, <1>6 DEF Receive, uart, caller, TypeOK, Least
<1>12. read' \in 0 .. came /\ from <= read'
  BY <1>1, <1>2, <1>5 DEF TypeOK
<1>13. TypeOK'
  <2>1. Offsets' = 0 .. Keep - 1
    BY <1>1, <1>11 DEF Offsets, Searches
  <2>2. asked \notin Collections
    BY <1>1 DEF Searches, Collections
  <2>3. (buf \in [Offsets -> 0 .. MaxBytes \cup {Junk}])'
    BY <1>8, <2>1
  <2>4. (/\ pc \in {"ready", "wait", "collect"} /\ asked \in Asks
         /\ pc # "ready" => (pc = "collect" <=> asked \in Collections)
         /\ pc = "wait" => rounds <= Timeout)'
    BY <1>1, <1>10, <1>11, <2>2 DEF TypeOK
  <2>5. (/\ came \in 0 .. MaxBytes /\ read \in 0 .. came /\ from \in 0 .. read
         /\ rounds \in 0 .. Timeout + 1 /\ tot \in Nat /\ size \in Nat /\ res \in Nat)'
    BY <1>1, <1>10, <1>11, <1>12 DEF TypeOK
  <2>6. (/\ spots \subseteq Spots /\ stale \in BOOLEAN /\ oom \in BOOLEAN
         /\ gap \in Gaps \cup {0} /\ nulled \subseteq Nat /\ wild \in BOOLEAN)'
    BY <1>1, <1>11 DEF TypeOK
  <2> QED
    BY <2>3, <2>4, <2>5, <2>6 DEF TypeOK
<1>14. Whole' /\ Terminated'
  <2>1. asked \notin Collections /\ asked # "heap" /\ asked # "array"
    BY <1>1 DEF Searches, Collections
  <2>2. Whole'
    BY <1>1, <1>6, <1>9, <1>11, <2>1 DEF Whole
  <2>3. nulled = {}
    BY <1>1 DEF Pointers, Searches
  <2>4. (asked # "heap" /\ asked # "array" /\ nulled = {})'
    BY <1>11, <2>1, <2>3
  <2> QED
    BY <2>2, <2>4 DEF Terminated
<1>15. Judged'
  <2>1. rounds' \in Nat /\ (pc' = "ready" => ~(rounds' <= Timeout))
    BY <1>10
  <2> QED
    BY <2>1 DEF Judged
<1>16. Room' /\ Pointers'
  BY <1>1, <1>10, <1>11 DEF Room, Pointers, SizeOf, Searches, Collections
<1> QED
  BY <1>13, <1>14, <1>15, <1>16 DEF IInv

\* A silent round changes nothing but the count.
LEMMA SilenceInv ==
  ASSUME IInv, Silence
  PROVE  IInv'
<1>1. TypeOK /\ Whole /\ Room /\ Pointers /\ asked \in Searches /\ pc = "wait"
  BY DEF IInv, Silence, TypeOK, Asks, Searches, Collections
<1>2. /\ rounds' \in 0 .. Timeout + 1 /\ res' \in Nat
      /\ pc' \in {"ready", "wait"}
      /\ pc' = "wait" => rounds' <= Timeout
      /\ pc' = "ready" => rounds' > Timeout
  BY <1>1, CountTypes DEF Silence
<1>3. /\ UNCHANGED <<spots, came, read, asked, buf, tot, from, oom>>
      /\ UNCHANGED <<size, stale, gap, nulled, wild>>
  BY DEF Silence, uart, caller
<1>4. TypeOK'
  <2>1. Offsets' = Offsets
    BY <1>3 DEF Offsets
  <2> QED
    BY <1>1, <1>2, <1>3, <2>1 DEF TypeOK, Searches, Collections
<1>5. Whole' /\ Room' /\ Terminated'
  BY <1>1, <1>3 DEF IInv, Whole, Room, Terminated, Hits
<1>6. Judged'
  BY <1>2, <1>4, SizesAssumption DEF Judged, TypeOK
<1>7. Pointers'
  BY <1>1, <1>2, <1>3 DEF Pointers, SizeOf, Searches, Collections
<1> QED
  BY <1>4, <1>5, <1>6, <1>7 DEF IInv

\* The verdict is the right one for what is stored, which is what was received
\* since the call began.
LEMMA DecideInv ==
  ASSUME IInv, Decide
  PROVE  IInv'
<1> USE SizesAssumption
<1>1. TypeOK /\ Whole /\ Room /\ Pointers /\ asked \in Searches /\ pc = "wait"
  BY DEF IInv, Decide, TypeOK, Asks, Searches, Collections
<1>2. /\ UNCHANGED <<spots, came, read, asked, rounds, buf, tot, from, oom>>
      /\ UNCHANGED <<size, stale, gap, nulled, wild>>
  BY DEF Decide, uart, caller
<1>3. PICK r \in Verdicts : pc' = "ready" /\ res' = r
  BY DEF Decide, Return
<1>4. r \in 0 .. 2
  BY DEF Verdicts
<1>5. TypeOK'
  <2>1. Offsets' = Offsets
    BY <1>2 DEF Offsets
  <2> QED
    BY <1>1, <1>2, <1>3, <1>4, <2>1 DEF TypeOK, Searches, Collections
<1>6. Whole' /\ Room' /\ Terminated' /\ Pointers'
  BY <1>1, <1>2, <1>3
  DEF IInv, Whole, Room, Terminated, Pointers, Hits, SizeOf, Searches, Collections
<1> DEFINE now == from + 1 .. read
           first == from + 1 .. from + Keep
           kept == from + 1 .. from + tot
<1>7. {buf[i] : i \in 0 .. tot - 1} = kept
  BY <1>1, Stored
<1>8. tot = Least(Keep, read - from)
  BY <1>1 DEF Whole
<1>9. tot < Keep => kept = now
  BY <1>1, <1>8 DEF TypeOK, Least
<1>10. first \cap now = kept
  BY <1>1, <1>8 DEF TypeOK, Least
<1>11. \A text : /\ Finds(text) <=> Occurs(text, kept) \/ tot = Keep
                 /\ Misses(text) <=> ~Occurs(text, kept)
  BY <1>7 DEF Finds, Misses
<1>12. /\ r = 1 => Finds("resp")
       /\ r = 2 => Misses("resp") /\ asked = "two" /\ Finds("resp1")
       /\ r = 0 => Misses("resp") /\ (asked = "two" => Misses("resp1"))
  BY DEF Verdicts
<1>13. /\ tot < Keep =>
             r = (IF Occurs("resp", now) THEN 1
                  ELSE IF asked = "two" /\ Occurs("resp1", now) THEN 2 ELSE 0)
       /\ r # 1 => ~Occurs("resp", first \cap now)
       /\ r = 0 /\ asked = "two" => ~Occurs("resp1", first \cap now)
  <2> HIDE DEF now, first, kept
  <2>1. r \in {0, 1, 2}
    BY <1>4
  <2>2. tot < Keep => tot # Keep
    BY <1>1 DEF TypeOK
  <2> QED
    BY <1>9, <1>10, <1>11, <1>12, <2>1, <2>2
<1>14. \A text, bytes : Occurs(text, bytes)' <=> Occurs(text, bytes)
  BY <1>2 DEF Occurs
<1>15. Judged'
  BY <1>2, <1>3, <1>13 DEF Judged, Occurs
<1> QED
  BY <1>5, <1>6, <1>15 DEF IInv

\* A piece of the answer fits into the buffer, which is enlarged for it, or is
\* lost with the call.
LEMMA CollectInv ==
  ASSUME IInv, Collect
  PROVE  IInv'
<1> USE SizesAssumption
<1>1. /\ TypeOK /\ Whole /\ Room /\ Terminated /\ Pointers
      /\ asked \in Collections /\ asked \notin Searches /\ pc = "collect"
  BY DEF IInv, Collect, TypeOK, Collections, Searches
<1>2. Available \in Nat \ {0} /\ Available <= came - read /\ Available <= Chunk
  BY <1>1 DEF TypeOK, Available, Least, Collect
<1>3. UNCHANGED <<spots, came, asked, rounds, gap, from>> /\ read' = read + Available
  BY DEF Collect, uart
<1>4. read' \in 0 .. came /\ from <= read'
  BY <1>1, <1>2, <1>3 DEF TypeOK
<1>5. Judged'
  BY <1>1, <1>3 DEF Judged
<1>6. CASE oom' /\ Return(0) /\ UNCHANGED <<buf, tot, size, stale, nulled, wild>>
  <2>1. TypeOK'
    <3>1. Offsets' = Offsets
      BY <1>3, <1>6 DEF Offsets
    <3> QED
      BY <1>1, <1>3, <1>4, <1>6, <3>1 DEF TypeOK, Return, Collect
  <2>2. Whole' /\ Room' /\ Terminated' /\ Pointers'
    BY <1>1, <1>3, <1>6
    DEF Whole, Room, Terminated, Pointers, Hits, SizeOf, Return
  <2> QED
    BY <1>5, <2>1, <2>2 DEF IInv
<1>7. ASSUME NEW block, NEW D \in SUBSET Nat,
             block \in [D -> 0 .. MaxBytes \cup {Junk}], Store(block),
             UNCHANGED <<pc, res, oom>>,
             size' \in Nat, size' >= SizeOf(asked), stale' \in BOOLEAN, wild' \in BOOLEAN,
             D = Offsets', tot + Available < size',
             asked = "heap" => /\ ~wild' /\ 0 .. size' - 1 = D
                               /\ \A i \in 0 .. tot - 1 : block[i] = buf[i]
                               /\ \A i \in tot .. size' - 1 : block[i] = Junk,
             asked = "array" /\ ~wild' => /\ ~wild /\ size' = ArraySize
                                          /\ block = buf /\ D = 0 .. ArraySize,
             stale' => size' > SizeOf(asked)
      PROVE  IInv'
  <2>1. ~oom /\ tot = read - from
    BY <1>1 DEF Whole, Pointers
  <2>2. /\ tot' = tot + Available /\ tot' \in Nat /\ tot' = read' - from
        /\ nulled' = nulled \cup {tot'}
    BY <1>1, <1>2, <1>3, <1>7, <2>1 DEF Store, TypeOK
  <2>3. /\ buf' \in [D -> 0 .. MaxBytes \cup {Junk}]
        /\ \A i \in D : buf'[i] =
              IF Hits(tot', i) THEN 0
              ELSE IF i \in tot .. tot' - 1 THEN read + 1 + i - tot ELSE block[i]
    <3>1. /\ With(block, Available) \in [D -> 0 .. MaxBytes \cup {Junk}]
          /\ \A i \in D : With(block, Available)[i] =
                IF i \in tot .. tot + Available - 1 THEN read + 1 + i - tot ELSE block[i]
      <4>1. With(block, Available) =
              [i \in D |-> IF i \in tot .. tot + Available - 1 THEN read + 1 + i - tot
                                                              ELSE block[i]]
        BY <1>7 DEF With
      <4>2. \A i \in tot .. tot + Available - 1 : read + 1 + i - tot \in 0 .. MaxBytes
        BY <1>1, <1>2, StoresBytes
      <4> QED
        BY <1>7, <4>1, <4>2
    <3>2. buf' = [i \in D |-> IF Hits(tot', i) THEN 0 ELSE With(block, Available)[i]]
      BY <1>7 DEF Store
    <3>3. 0 \in 0 .. MaxBytes
      OBVIOUS
    <3>4. tot + Available - 1 = tot' - 1
      BY <1>1, <1>2, <2>2 DEF TypeOK
    <3> HIDE DEF With
    <3> QED
      BY <3>1, <3>2, <3>3, <3>4
  <2>4. TypeOK'
    <3>1. nulled' \subseteq Nat
      BY <1>1, <2>2 DEF TypeOK
    <3> QED
      BY <1>1, <1>3, <1>4, <1>7, <2>2, <2>3, <3>1 DEF TypeOK
  <2>5. \A w, i : Hits(w, i)' <=> Hits(w, i)
    BY <1>3 DEF Hits
  <2>6. asked = "heap" => \A w, i : ~Hits(w, i)
    BY DEF Hits
  <2>7. asked \in {"heap", "array"}
    BY <1>1 DEF Collections
  <2>8. ~wild' => ~wild /\ \A i \in 0 .. tot' - 1 : i \in D
    <3>1. CASE asked = "heap"
      BY <1>1, <1>7, <2>2, <3>1 DEF Pointers
    <3>2. CASE asked = "array"
      BY <1>7, <2>2, <3>2
    <3> QED
      BY <2>7, <3>1, <3>2
  <2>9. Whole'
    <3>1. ASSUME ~wild', NEW i \in 0 .. tot' - 1
          PROVE  \/ buf'[i] = from + 1 + i
                 \/ buf'[i] = 0 /\ \E w \in nulled' : Hits(w, i)
      <4>1. buf'[i] = IF Hits(tot', i) THEN 0
                      ELSE IF i \in tot .. tot' - 1 THEN read + 1 + i - tot ELSE block[i]
        BY <2>3, <2>8, <3>1
      <4>2. CASE Hits(tot', i)
        BY <2>2, <4>1, <4>2
      <4>3. CASE ~Hits(tot', i) /\ i \in tot .. tot' - 1
        BY <1>1, <2>1, <4>1, <4>3 DEF TypeOK
      <4>4. CASE ~Hits(tot', i) /\ i \notin tot .. tot' - 1
        <5>1. i \in 0 .. tot - 1
          BY <1>1, <2>2, <4>4 DEF TypeOK
        <5>2. buf'[i] = buf[i]
          BY <1>7, <2>7, <3>1, <4>1, <4>4, <5>1
        <5>3. \/ buf[i] = from + 1 + i
              \/ buf[i] = 0 /\ \E w \in nulled : Hits(w, i)
          BY <1>1, <2>8, <3>1, <5>1 DEF Whole
        <5> QED
          BY <2>2, <5>2, <5>3
      <4> QED
        BY <4>2, <4>3, <4>4
    <3> QED
      BY <1>1, <1>3, <1>7, <2>1, <2>2, <2>5, <3>1 DEF Whole
  <2>10. Terminated'
    <3>1. ASSUME asked = "array", ~wild', NEW i \in tot' .. ArraySize
          PROVE  buf'[i] = 0
      <4>1. i \in D /\ i \in tot .. ArraySize /\ i \notin tot .. tot' - 1
        BY <1>1, <1>2, <1>7, <2>2, <3>1 DEF TypeOK
      <4>2. block[i] = 0
        BY <1>1, <1>7, <3>1, <4>1 DEF Terminated
      <4> QED
        BY <2>3, <4>1, <4>2
    <3>2. ASSUME asked = "heap", NEW i \in tot' .. size' - 1
          PROVE  buf'[i] = Junk
      <4>1. i \in D /\ i \in tot .. size' - 1 /\ i \notin tot .. tot' - 1
        <5>1. size' \in Nat /\ tot \in Nat /\ tot' \in Nat /\ tot' >= tot
          BY <1>1, <1>2, <1>7, <2>2 DEF TypeOK
        <5> DEFINE t == tot'
                   z == size'
        <5>2. i \in t .. z - 1 /\ z \in Nat /\ tot \in Nat /\ t \in Nat /\ t >= tot
          BY <5>1
        <5> HIDE DEF t, z
        <5>3. i \in 0 .. z - 1 /\ i \in tot .. z - 1 /\ i \notin tot .. t - 1
          BY <5>2
        <5> QED
          BY <1>7, <3>2, <5>3 DEF t, z
      <4> QED
        BY <1>7, <2>3, <2>6, <3>2, <4>1
    <3>3. nulled' \subseteq 1 .. tot'
      <4>1. tot' \in 1 .. tot' /\ 1 .. tot \subseteq 1 .. tot'
        BY <1>1, <1>2, <2>2 DEF TypeOK
      <4> QED
        BY <1>1, <2>2, <4>1 DEF Terminated
    <3> QED
      BY <1>3, <3>1, <3>2, <3>3 DEF Terminated
  <2>11. Room' /\ Pointers'
    <3>1. wild' => asked = "array"
      BY <1>7, <2>7
    <3> QED
      BY <1>1, <1>3, <1>7, <2>1, <2>2, <3>1 DEF Room, Pointers, SizeOf
  <2> QED
    BY <1>5, <2>4, <2>9, <2>10, <2>11 DEF IInv
<1>8. CASE ~Full /\ Store(buf) /\ UNCHANGED <<size, stale, wild, pc, res, oom>>
  <2>1. Offsets' = Offsets /\ Offsets \in SUBSET Nat
    BY <1>1, <1>3, <1>8, OffsetsAreNat DEF Offsets
  <2>2. tot + Available < size
    BY <1>1, <1>2, <1>8 DEF Full, TypeOK
  <2>3. asked = "heap" => ~wild /\ Offsets = 0 .. size - 1
    BY <1>1 DEF Pointers, Offsets, Searches
  <2>4. \A i \in tot .. size - 1 : asked = "heap" => buf[i] = Junk
    BY <1>1 DEF Terminated
  <2>5. asked = "array" /\ ~wild => size = ArraySize /\ Offsets = 0 .. ArraySize
    BY <1>1 DEF Pointers, Offsets, Searches
  <2>6. /\ buf \in [Offsets -> 0 .. MaxBytes \cup {Junk}] /\ size' \in Nat
        /\ stale' \in BOOLEAN /\ wild' \in BOOLEAN
        /\ size' >= SizeOf(asked) /\ (stale' => size' > SizeOf(asked))
    BY <1>1, <1>8 DEF Pointers, TypeOK
  <2> QED
    BY <1>7, <1>8, <2>1, <2>2, <2>3, <2>4, <2>5, <2>6
<1>9. CASE /\ Full /\ Store(Enlarged)
           /\ size' = size + Grow /\ stale' \in {stale, TRUE} /\ wild' = (asked = "array")
           /\ UNCHANGED <<pc, res, oom>>
  <2> DEFINE D == 0 .. size + Grow - 1
  <2>1. D \in SUBSET Nat /\ D = Offsets'
    <3>1. asked' = asked /\ (asked = "array" => wild')
      BY <1>3, <1>9
    <3> QED
      BY <1>1, <1>9, <3>1 DEF Offsets, TypeOK
  <2>2. tot + Available < size' /\ size' \in Nat /\ size' > size
    BY <1>1, <1>2, <1>9 DEF Room, TypeOK
  <2>3. /\ Enlarged \in [D -> 0 .. MaxBytes \cup {Junk}]
        /\ asked = "heap" => /\ \A i \in 0 .. tot - 1 : Enlarged[i] = buf[i]
                             /\ \A i \in tot .. size' - 1 : Enlarged[i] = Junk
    <3>1. ASSUME asked = "heap", NEW i \in D, i < size
          PROVE  buf[i] \in 0 .. MaxBytes \cup {Junk}
      <4>1. i \in Offsets
        BY <1>1, <3>1 DEF Pointers, Offsets, Searches, TypeOK
      <4> QED
        BY <1>1, <4>1 DEF TypeOK
    <3>2. Enlarged = [i \in D |-> IF asked = "heap" /\ i < size THEN buf[i] ELSE Junk]
      BY DEF Enlarged
    <3>3. tot < size /\ size \in Nat /\ tot \in Nat /\ Grow \in Nat
      BY <1>1 DEF Room, TypeOK
    <3>4. ASSUME asked = "heap", NEW i \in tot .. size' - 1
          PROVE  Enlarged[i] = Junk
      <4>1. i \in D
        BY <1>9, <3>3
      <4>2. i < size => buf[i] = Junk
        BY <1>1, <3>3, <3>4 DEF Terminated
      <4> QED
        BY <3>2, <3>4, <4>1, <4>2
    <3>5. ASSUME asked = "heap", NEW i \in 0 .. tot - 1
          PROVE  Enlarged[i] = buf[i]
      BY <3>2, <3>3, <3>5
    <3> QED
      BY <3>1, <3>2, <3>4, <3>5
  <2>4. size >= SizeOf(asked) /\ SizeOf(asked) \in Nat /\ size \in Nat
    BY <1>1 DEF Pointers, SizeOf, TypeOK
  <2>5. stale' \in BOOLEAN /\ wild' \in BOOLEAN
    BY <1>1, <1>9 DEF TypeOK
  <2>6. size' >= SizeOf(asked) /\ size' > SizeOf(asked)
    BY <2>2, <2>4
  <2>7. asked = "heap" => ~wild' /\ 0 .. size' - 1 = D
    <3>1. wild' <=> asked = "array"
      BY <1>9, Zenon
    <3>2. size' = size + Grow
      BY <1>9
    <3>3. 0 .. size' - 1 = D
      BY <1>1, <3>2 DEF TypeOK
    <3> QED
      BY <3>1, <3>3
  <2> HIDE DEF D
  <2> QED
    BY <1>7, <1>9, <2>1, <2>2, <2>3, <2>5, <2>6, <2>7
<1> QED
  BY <1>6, <1>8, <1>9 DEF Collect

\* The caller gets the block and the count.
LEMMA CollectedInv ==
  ASSUME IInv, Collected
  PROVE  IInv'
<1>1. /\ TypeOK /\ Whole /\ Room /\ Terminated /\ Pointers
      /\ asked \in Collections /\ asked \notin Searches /\ pc = "collect"
  BY DEF IInv, Collected, TypeOK, Collections, Searches
<1>2. /\ UNCHANGED <<spots, came, read, asked, rounds, buf, tot, size, gap, nulled,
                     wild, from, oom>>
      /\ ~stale' /\ stale' \in BOOLEAN /\ pc' = "ready" /\ res' = tot
  BY DEF Collected, uart, Return
<1>3. TypeOK'
  <2>1. Offsets' = Offsets
    BY <1>2 DEF Offsets
  <2> QED
    BY <1>1, <1>2, <2>1 DEF TypeOK
<1>4. Whole' /\ Judged' /\ Room' /\ Terminated' /\ Pointers'
  BY <1>1, <1>2 DEF Whole, Judged, Room, Terminated, Pointers, Hits, SizeOf
<1> QED
  BY <1>3, <1>4 DEF IInv

\* Every step keeps the invariant.
THEOREM NextInv == IInv /\ [Next]_vars => IInv'
<1> SUFFICES ASSUME IInv, [Next]_vars PROVE IInv'
  OBVIOUS
<1>1. ASSUME NEW ask \in Asks, Call(ask) PROVE IInv'
  BY <1>1, CallInv
<1>2. CASE Receive
  BY <1>2, ReceiveInv
<1>3. CASE Silence
  BY <1>3, SilenceInv
<1>4. CASE Decide
  BY <1>4, DecideInv
<1>5. CASE Collect
  BY <1>5, CollectInv
<1>6. CASE Collected
  BY <1>6, CollectedInv
<1>7. CASE Arrive
  <2> USE SizesAssumption
  <2>1. /\ came' \in 0 .. MaxBytes /\ came <= came'
        /\ UNCHANGED <<spots, read, pc, asked, rounds, buf, tot, res, from, oom>>
        /\ UNCHANGED <<size, stale, gap, nulled, wild>>
    BY <1>7 DEF Arrive, caller, IInv, TypeOK
  <2>2. TypeOK'
    <3>1. Offsets' = Offsets
      BY <2>1 DEF Offsets
    <3> QED
      BY <2>1, <3>1 DEF IInv, TypeOK
  <2>3. Whole' /\ Judged' /\ Room' /\ Terminated' /\ Pointers'
    BY <2>1 DEF IInv, Whole, Judged, Occurs, Room, Terminated, Pointers, Hits, SizeOf
  <2> QED
    BY <2>2, <2>3 DEF IInv
<1>8. CASE UNCHANGED vars
  BY <1>8 DEF vars, uart, caller, IInv, TypeOK, Offsets, Whole, Judged, Occurs, Room,
              Terminated, Pointers, Hits, SizeOf
<1> QED
  BY <1>1, <1>2, <1>3, <1>4, <1>5, <1>6, <1>7, <1>8 DEF Next

\* The invariant, for buffers, time-outs and streams of any length.
THEOREM Invariance == Spec => []IInv
BY InitInv, NextInv, PTL DEF Spec

\* Types, and that the search for a text ends in bounded time.
THEOREM TypeCorrect == Spec => []TypeOK
<1>1. IInv => TypeOK
  BY DEF IInv
<1> QED
  BY <1>1, Invariance, PTL

\* Verdicts are the right ones.
THEOREM JudgedRight == Spec => []Judged
<1>1. IInv => Judged
  BY DEF IInv
<1> QED
  BY <1>1, Invariance, PTL

\* What a collecting call hands over, in buffers of any size, is complete but for
\* the bytes that response[tot] = '\0' hits in an array; a block is never terminated,
\* an array that is not enlarged always; and an enlargement that is not smaller than a
\* read is enough.
THEOREM CollectionIsWhole == Spec => []HandedOver
<1>1. IInv => HandedOver
  BY DEF IInv, Pointers, CallerOwns, HandedOver
<1> QED
  BY <1>1, Invariance, PTL

\* A call ends between two pieces of an answer only if the second has not come.
THEOREM NothingLeft == Spec => Drained
<1>1. IInv /\ [Next]_vars =>
        [pc # "ready" /\ pc' = "ready" => came = read' \/ rounds' > Timeout \/ oom']_vars
  <2> SUFFICES ASSUME IInv, Next, pc # "ready", pc' = "ready"
               PROVE  came = read' \/ rounds' > Timeout \/ oom'
    OBVIOUS
  <2>1. ASSUME NEW ask \in Asks, Call(ask) PROVE FALSE
    BY <2>1 DEF Call
  <2>2. CASE Receive \/ Silence
    <3>1. pc = "wait" /\ Count
      BY <2>2 DEF Receive, Silence
    <3> QED
      BY <3>1, CountTypes DEF IInv
  <2>3. CASE Decide \/ Collected
    BY <2>3 DEF Decide, Collected, Silent
  <2>4. CASE Collect
    BY <2>4 DEF Collect, IInv, TypeOK
  <2>5. CASE Arrive
    BY <2>5 DEF Arrive
  <2> QED
    BY <2>1, <2>2, <2>3, <2>4, <2>5 DEF Next
<1> QED
  BY <1>1, Invariance, PTL DEF Spec, Drained

----------------------------------------------------------------------------
(* A call, read by read, is an exchange of AtExchange. *)

\* The abstract bytes that a text stands among are the concrete ones.
LEMMA SameTexts ==
  \A text, bytes : Atomic!Holds(text, bytes) <=> Occurs(text, bytes)
BY DEF Atomic!Holds, Occurs

\* A time-out is the only way in which a search gives up.
LEMMA CountGivesUp ==
  ASSUME IInv, pc = "wait", Count, ~oom, UNCHANGED <<uart, asked, from, oom>>
  PROVE  \/ Atomic!GiveUp
         \/ UNCHANGED <<spots, came, pc, Aim, from, res, Reason>>
<1>1. /\ rounds' \in 0 .. Timeout + 1
      /\ pc' = "wait" => rounds' <= Timeout
      /\ pc' = "ready" => rounds' > Timeout
      /\ pc' \in {"ready", "wait"}
      /\ rounds <= Timeout /\ asked \in Searches /\ Timeout \in Nat /\ rounds \in Nat
  BY CountTypes, SizesAssumption DEF IInv, TypeOK, Asks
<1>2. ~oom' /\ UNCHANGED <<spots, came, asked, Aim, from>> /\ Aim \in Searches
  BY <1>1 DEF uart, Aim, Searches, Collections
<1>3. CASE Over
  <2>1. pc' = "ready" /\ res' = 0
    BY <1>3 DEF Count, Return
  <2>2. Reason' = "time"
    BY <1>1, <1>2, <2>1 DEF Reason
  <2> QED
    BY <1>1, <1>2, <2>1, <2>2 DEF Atomic!GiveUp, Atomic!Return, Searches
<1>4. CASE ~Over
  <2>1. pc' = pc /\ res' = res
    BY <1>4 DEF Count
  <2>2. Reason = "none" /\ Reason' = "none"
    BY <1>1, <1>2, <2>1 DEF Reason
  <2> QED
    BY <1>2, <2>1, <2>2
<1> QED
  BY <1>3, <1>4

\* The moment of the verdict is the moment the exchange is judged: all that was
\* sent since the call began has been read, and what is stored is this answer, or
\* as much of it as is kept.
LEMMA DecideJudges ==
  ASSUME IInv, Decide, ~oom
  PROVE  Atomic!Judge
<1> USE SizesAssumption
<1>1. TypeOK /\ Whole /\ Pointers /\ pc = "wait" /\ asked \in Searches /\ Aim = asked
  BY DEF IInv, Decide, TypeOK, Asks, Aim, Searches, Collections
<1>2. /\ read = came /\ tot > 0 /\ tot = Least(Keep, came - from)
      /\ UNCHANGED <<spots, came, asked, Aim, rounds, from, oom>>
  BY <1>1 DEF Decide, Silent, Whole, uart, Aim
<1>3. PICK r \in Verdicts : pc' = "ready" /\ res' = r
  BY DEF Decide, Return
<1>4. r \in 0 .. 2
  BY DEF Verdicts
<1>5. Reason' = "none"
  BY <1>1, <1>2 DEF Reason, TypeOK
<1>6. came > from /\ tot \in Nat /\ came - from \in Nat
  BY <1>1, <1>2 DEF TypeOK, Least
<1> DEFINE kept == from + 1 .. from + tot
<1>7. {buf[i] : i \in 0 .. tot - 1} = kept
  BY <1>1, Stored
<1>8. Atomic!Part = kept
  BY <1>1, <1>2 DEF TypeOK, Least, Atomic!Part, Atomic!Answer
<1>9. came - from < Keep => Atomic!Answer = kept /\ tot # Keep
  BY <1>1, <1>2 DEF TypeOK, Least, Atomic!Answer
<1>10. \A text : /\ Finds(text) <=> Atomic!Holds(text, kept) \/ tot = Keep
                 /\ Misses(text) <=> ~Atomic!Holds(text, kept)
  BY <1>7, SameTexts DEF Finds, Misses
<1>11. /\ r = 1 => Finds("resp")
       /\ r = 2 => Misses("resp") /\ Aim = "two" /\ Finds("resp1")
       /\ r = 0 => Misses("resp") /\ (Aim = "two" => Misses("resp1"))
  BY <1>1 DEF Verdicts
<1>12. r \in {0, 1, 2}
  BY <1>4
<1>13. IF came - from < Keep THEN Atomic!Right(r) ELSE Atomic!Tolerable(r)
  <2> HIDE DEF kept
  <2>1. CASE came - from < Keep
    BY <1>9, <1>10, <1>11, <1>12, <2>1 DEF Atomic!Right
  <2>2. CASE ~(came - from < Keep)
    BY <1>8, <1>10, <1>11, <1>12, <2>2 DEF Atomic!Tolerable
  <2> QED
    BY <2>1, <2>2
<1>14. Atomic!Return(r, "none")
  BY <1>1, <1>2, <1>3, <1>5 DEF Atomic!Return
<1> QED
  BY <1>1, <1>4, <1>6, <1>13, <1>14 DEF Atomic!Judge, Searches

\* A piece of the answer is collected unseen, unless there is no memory for it.
LEMMA CollectGivesUp ==
  ASSUME IInv, Collect
  PROVE  \/ Atomic!GiveUp
         \/ UNCHANGED <<spots, came, pc, Aim, from, res, Reason>>
<1>1. /\ pc = "collect" /\ Aim = "all" /\ asked \notin Searches /\ ~oom
      /\ UNCHANGED <<spots, came, asked, Aim, from, rounds>>
  BY DEF IInv, TypeOK, Pointers, Collect, uart, Aim, Searches, Collections
<1>2. CASE oom' /\ Return(0)
  BY <1>1, <1>2 DEF Return, Reason, Atomic!GiveUp, Atomic!Return
<1>3. CASE UNCHANGED <<pc, res, oom>>
  BY <1>1, <1>3 DEF Reason
<1> QED
  BY <1>2, <1>3 DEF Collect

\* Every step of a call is a step of the exchange or is not seen in it.
LEMMA Simulation ==
  ASSUME IInv, [Next]_vars, pc = "wait" => ~oom
  PROVE  [Atomic!Next]_<<spots, came, pc # "ready", Aim, from, res, Reason>>
<1> DEFINE Of(ask) == IF ask \in Collections THEN "all" ELSE ask
<1>1. ASSUME NEW ask \in Asks, Call(ask)
      PROVE  Atomic!Begin(Of(ask)) /\ Of(ask) \in Atomic!Asks
  <2>1. /\ pc = "ready" /\ pc' # "ready" /\ Aim' = Of(ask) /\ from' = came
        /\ UNCHANGED <<spots, came, res>> /\ ~oom' /\ rounds' = 0
    BY <1>1 DEF Call, uart, Aim
  <2>2. Reason' = "none"
    BY <2>1, SizesAssumption DEF Reason
  <2> QED
    BY <2>1, <2>2 DEF Atomic!Begin, Atomic!Asks, Asks, Searches, Collections
<1>2. CASE Receive \/ Silence
  <2>1. pc = "wait" /\ Count /\ UNCHANGED <<uart, asked, from, oom>>
    BY <1>2 DEF Receive, Silence
  <2> QED
    BY <2>1, CountGivesUp DEF Atomic!Next
<1>3. CASE Decide
  <2>1. pc = "wait"
    BY <1>3 DEF Decide
  <2> QED
    BY <1>3, <2>1, DecideJudges DEF Atomic!Next
<1>4. CASE Collect
  BY <1>4, CollectGivesUp DEF Atomic!Next
<1>5. CASE Collected
  <2>1. /\ pc = "collect" /\ asked \in Collections /\ ~oom /\ tot = came - from
        /\ pc' = "ready" /\ res' = tot /\ UNCHANGED <<spots, came, asked, from, rounds, oom>>
    BY <1>5 DEF Collected, Silent, Return, IInv, TypeOK, Whole, Pointers, uart
  <2>2. Aim = "all" /\ Aim' = "all" /\ asked \notin Searches
    BY <2>1 DEF Aim, Searches, Collections
  <2>3. Reason' = "none"
    BY <2>1, <2>2 DEF Reason
  <2> QED
    BY <2>1, <2>2, <2>3 DEF Atomic!Collect, Atomic!Return, Atomic!Next
<1>6. CASE Arrive
  BY <1>6 DEF Arrive, Reason, Aim, Atomic!Send, Atomic!Next
<1>7. CASE UNCHANGED vars
  BY <1>7 DEF vars, uart, Reason, Aim
<1> QED
  BY <1>1, <1>2, <1>3, <1>4, <1>5, <1>6, <1>7 DEF Next, Atomic!Next

\* No search runs out of memory: it enlarges nothing.
LEMMA SearchHasMemory == Spec => [](pc = "wait" => ~oom)
<1> DEFINE NoOom == pc = "wait" => ~oom
<1>1. Init => NoOom
  BY DEF Init
<1>2. NoOom /\ [Next]_vars => NoOom'
  BY DEF Next, vars, uart, Call, Receive, Silence, Decide, Collect, Store, Collected,
         Arrive, Count, Return
<1> QED
  BY <1>1, <1>2, PTL DEF Spec

\* A call of atCmd_waitResponse implements an exchange that takes effect at one
\* moment, whatever the pieces in which the answer comes, for buffers, time-outs
\* and streams of any length.
THEOREM Implements == Spec => Exchange
<1>1. Init => Atomic!Init
  BY DEF Init, Reason, Aim, Searches, Collections, Atomic!Init
<1>2. IInv /\ (pc = "wait" => ~oom) /\ [Next]_vars =>
        [Atomic!Next]_<<spots, came, pc # "ready", Aim, from, res, Reason>>
  BY Simulation
<1> QED
  BY <1>1, <1>2, Invariance, SearchHasMemory, PTL DEF Spec, Exchange, Atomic!Spec
=============================================================================
