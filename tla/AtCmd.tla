-------------------------------- MODULE AtCmd -------------------------------
(***************************************************************************)
(* atCmd_waitResponse of libGSM.c, read by read.  A call discards what the *)
(* UART has received and reads what comes from then on: either it looks    *)
(* for one or two texts when the modem has fallen silent (resp, resp1), or *)
(* it collects everything in a buffer of the caller that it enlarges       *)
(* (response).                                                             *)
(*                                                                         *)
(* The bytes the modem ever sends are numbered 1, 2, ...; of their content *)
(* the model keeps where in this stream the two texts stand.  The modem    *)
(* may send at any time, so an answer comes in any pieces, late or mixed   *)
(* with messages nobody asked for.                                         *)
(*                                                                         *)
(* The buffer is a block smsRead has allocated, or an array on the stack   *)
(* of gsm_RFOff or gsm_RFOn.  Two things here are undefined in C, and the  *)
(* model has the outcomes a build can produce:                             *)
(*   - response[tot] = '\0' ends no buffer: response is the address of the *)
(*     caller's pointer, so a word of the caller's frame is set to null    *)
(*     (nulled).  The array may be there; gap is where the compiler put it.*)
(*   - realloc of the array: it fails or aborts the program, and nothing   *)
(*     is handed over; or it returns, and nothing is known of the bytes    *)
(*     from then on (wild).                                                *)
(* What else the caller keeps in the words set to null, and what a bad     *)
(* realloc does to the heap, is not followed beyond the call.              *)
(***************************************************************************)
EXTENDS Naturals

CONSTANTS
  MaxBytes,     \* bound on the bytes the modem sends
  Chunk,        \* bytes taken from the UART at a time       (256 in the code)
  Keep,         \* bytes kept to look for the texts          (256)
  Size, Grow,   \* smsRead's block and its enlargement       (512 and 512)
  ArraySize,    \* what gsm_RFOff and gsm_RFOn say their array holds; it has
                \* one byte more                             (63)
  Word,         \* bytes of a pointer                        (4)
  Gaps,         \* how many words behind the caller's pointer its array may
                \* begin; 0 if it is not behind it
  Junk,         \* what stands in memory nobody has written
  Timeout,      \* the time-out, in rounds of 10 ms
  Spots         \* places in the stream where a text may stand

Texts == {"resp", "resp1"}

ASSUME SizesAssumption ==
  /\ MaxBytes \in Nat /\ Timeout \in Nat
  /\ Chunk \in Nat \ {0} /\ Keep \in Nat \ {0} /\ Size \in Nat \ {0} /\ Grow \in Nat
  /\ Chunk <= Grow
  /\ ArraySize \in Nat \ {0} /\ Word \in Nat \ {0} /\ Gaps \subseteq Nat
ASSUME JunkAssumption == Junk \notin Nat
ASSUME SpotsAssumption ==
  Spots \subseteq [text : Texts, first : Nat, last : Nat]

VARIABLES
  spots,            \* where the texts do stand
  came, read,       \* bytes received by the UART, bytes taken from it
  pc, asked,        \* the loop the call is in, what it was asked for
  rounds,           \* timeoutCnt / 10
  buf, tot,         \* sresp or the caller's buffer, by offset: the number of
                    \* a byte received, 0 for a zero, or Junk; and how many
                    \* bytes were stored
  size, stale,      \* what the buffer is taken to hold; the caller's pointer
                    \* is to a block that realloc has replaced by another
  gap, nulled,      \* where the caller's array is, and the words behind its
                    \* pointer that were set to null
  wild,             \* an array was given to realloc
  res,              \* what the last call returned
  from, oom         \* history: where the flush left off, realloc failed

uart == <<spots, came>>
caller == <<size, stale, gap, nulled, wild>>
vars == <<uart, read, pc, asked, rounds, buf, tot, caller, res, from, oom>>

Searches == {"one", "two"}      \* resp only, resp and resp1
Collections == {"heap", "array"}  \* response: of smsRead, of gsm_RFOff and gsm_RFOn
Asks == Searches \cup Collections

SizeOf(ask) == IF ask = "array" THEN ArraySize ELSE Size

\* sresp and the arrays are set to zero, a block is as malloc returns it.
Fresh(ask) ==
  CASE ask = "heap"  -> [i \in 0 .. Size - 1 |-> Junk]
    [] ask = "array" -> [i \in 0 .. ArraySize |-> 0]
    [] OTHER         -> [i \in 0 .. Keep - 1 |-> 0]

Init ==
  /\ spots \in SUBSET Spots
  /\ came = 0 /\ read = 0
  /\ pc = "ready" /\ asked = "heap" /\ rounds = 0
  /\ buf = Fresh("heap") /\ tot = 0 /\ size = Size /\ stale = FALSE
  /\ gap = 0 /\ nulled = {} /\ wild = FALSE
  /\ res = 0 /\ from = 0 /\ oom = FALSE

----------------------------------------------------------------------------
(* What the loops have in common. *)

Least(a, b) == IF a < b THEN a ELSE b

SilentWrong == TRUE
\* uart_read_bytes gives what has come, up to Chunk bytes, and nothing only when
\* nothing comes while it waits.
Available == Least(Chunk, came - read)
Silent == came = read

\* The first n bytes read are stored behind those that are there.
With(block, n) ==
  [i \in DOMAIN block |-> IF i \in tot .. tot + n - 1 THEN read + 1 + i - tot
                                                     ELSE block[i]]

Return(r) == pc' = "ready" /\ res' = r

\* The bytes sent before the call are discarded, the line is written.
Call(ask) ==
  /\ pc = "ready"
  /\ pc' = (IF ask \in Collections THEN "collect" ELSE "wait") /\ asked' = ask
  /\ read' = came /\ from' = came
  /\ rounds' = 0 /\ buf' = Fresh(ask) /\ tot' = 0
  /\ size' = SizeOf(ask) /\ stale' = FALSE /\ oom' = FALSE
  /\ gap' \in (IF ask = "array" THEN Gaps ELSE {0})
  /\ nulled' = {} /\ wild' = FALSE
  /\ UNCHANGED <<uart, res>>

----------------------------------------------------------------------------
(* The search for the texts. *)

OverWrong == rounds > Timeout
Over == rounds >= Timeout       \* timeoutCnt + 10 > timeout

\* A round is over without a verdict.  It counts as 10 ms however long it took.
Count ==
  /\ rounds' = rounds + 1
  /\ IF Over THEN Return(0) ELSE UNCHANGED <<pc, res>>

\* What does not fit any more is dropped.
Receive ==
  /\ pc = "wait" /\ Available > 0
  /\ LET n == Least(Available, Keep - tot)
     IN  buf' = With(buf, n) /\ tot' = tot + n
  /\ read' = read + Available
  /\ Count
  /\ UNCHANGED <<uart, asked, caller, from, oom>>

Silence ==
  /\ pc = "wait" /\ Silent /\ tot = 0
  /\ Count
  /\ UNCHANGED <<uart, read, asked, buf, tot, caller, from, oom>>

Occurs(text, bytes) ==
  \E s \in spots : s.text = text /\ s.first .. s.last \subseteq bytes

\* strstr in sresp, which ends with a zero only while it is not full: otherwise
\* what stands behind it is searched too.
Finds(text) == Occurs(text, {buf[i] : i \in 0 .. tot - 1}) \/ tot = Keep
Misses(text) == ~Occurs(text, {buf[i] : i \in 0 .. tot - 1})

VerdictsWrong ==
  {r \in 0 .. 2 :
    CASE r = 2 -> asked = "two" /\ Finds("resp1")
      [] r = 1 -> Finds("resp") /\ (asked = "two" => Misses("resp1"))
      [] OTHER -> Misses("resp") /\ (asked = "two" => Misses("resp1"))}
Verdicts ==
  {r \in 0 .. 2 :
    CASE r = 1 -> Finds("resp")
      [] r = 2 -> Misses("resp") /\ asked = "two" /\ Finds("resp1")
      [] OTHER -> Misses("resp") /\ (asked = "two" => Misses("resp1"))}

Decide ==
  /\ pc = "wait" /\ Silent /\ tot > 0
  /\ \E r \in Verdicts : Return(r)
  /\ UNCHANGED <<uart, read, asked, rounds, buf, tot, caller, from, oom>>

----------------------------------------------------------------------------
(* The collection of the whole answer. *)

FullWrong == tot + Available > size
Full == tot + Available >= size

\* The byte at offset i of the caller's array lies in word w from its pointer on.
Hits(w, i) == asked = "array" /\ gap > 0 /\ w = gap + (i \div Word)

\* A piece is stored, and a word beside the caller's pointer set to null.
Store(block) ==
  /\ tot' = tot + Available
  /\ nulled' = nulled \cup {tot'}
  /\ buf' = [i \in DOMAIN block |-> IF Hits(tot', i) THEN 0
                                   ELSE With(block, Available)[i]]

Enlarged ==
  [i \in 0 .. size + Grow - 1 |-> IF asked = "heap" /\ i < size THEN buf[i] ELSE Junk]

\* realloc may move the block; without memory the call returns at once, with the
\* caller's pointer as it was.
Collect ==
  /\ pc = "collect" /\ Available > 0
  /\ read' = read + Available
  /\ \/ /\ ~Full /\ Store(buf)
        /\ UNCHANGED <<size, stale, wild, pc, res, oom>>
     \/ /\ Full /\ Store(Enlarged)
        /\ size' = size + Grow /\ stale' \in {stale, TRUE} /\ wild' = (asked = "array")
        /\ UNCHANGED <<pc, res, oom>>
     \/ /\ Full /\ oom' = TRUE /\ Return(0)
        /\ UNCHANGED <<buf, tot, size, stale, nulled, wild>>
  /\ UNCHANGED <<uart, asked, rounds, gap, from>>

\* The caller is told where the block is and how much it holds.
Collected ==
  /\ pc = "collect" /\ Silent
  /\ stale' = FALSE /\ Return(tot)
  /\ UNCHANGED <<uart, read, asked, rounds, buf, tot, size, gap, nulled, wild, from, oom>>

----------------------------------------------------------------------------

Arrive ==
  /\ came' \in came + 1 .. MaxBytes
  /\ UNCHANGED <<spots, read, pc, asked, rounds, buf, tot, caller, res, from, oom>>

Next ==
  \/ \E ask \in Asks : Call(ask)
  \/ Receive \/ Silence \/ Decide \/ Collect \/ Collected
  \/ Arrive
Spec == Init /\ [][Next]_vars

----------------------------------------------------------------------------
(* Properties. *)

Offsets ==
  CASE asked \in Searches -> 0 .. Keep - 1
    [] asked = "array" /\ ~wild -> 0 .. ArraySize
    [] OTHER -> 0 .. size - 1

\* Everything has its type, the bytes read have come, and the search for a text
\* ends in the round after its time-out at the latest, whatever the modem sends.
TypeOK ==
  /\ spots \subseteq Spots
  /\ came \in 0 .. MaxBytes /\ read \in 0 .. came /\ from \in 0 .. read
  /\ pc \in {"ready", "wait", "collect"} /\ asked \in Asks
  /\ pc # "ready" => (pc = "collect" <=> asked \in Collections)
  /\ rounds \in 0 .. Timeout + 1
  /\ pc = "wait" => rounds <= Timeout
  /\ tot \in Nat /\ buf \in [Offsets -> 0 .. MaxBytes \cup {Junk}]
  /\ size \in Nat /\ stale \in BOOLEAN /\ oom \in BOOLEAN
  /\ gap \in Gaps \cup {0} /\ nulled \subseteq Nat /\ wild \in BOOLEAN
  /\ res \in Nat

\* What is stored are the bytes received since the call began, every one once and
\* in order: the first Keep of them to look for a text, all of them to collect,
\* unless realloc failed.  A byte can be zero instead only in an array, where
\* response[tot] = '\0' has hit it; after realloc of an array nothing is said.
Whole ==
  /\ asked \in Searches => tot = Least(Keep, read - from)
  /\ asked \in Collections /\ ~oom => tot = read - from
  /\ ~wild => \A i \in 0 .. tot - 1 :
                \/ buf[i] = from + 1 + i
                \/ buf[i] = 0 /\ \E w \in nulled : Hits(w, i)

\* A verdict before the time-out is the right one for all that was received since
\* the call began, as long as it is less than Keep bytes; and what stands in the
\* first Keep of more bytes is not missed.
Judged ==
  pc = "ready" /\ asked \in Searches /\ rounds <= Timeout =>
    LET now == from + 1 .. read
        first == from + 1 .. from + Keep
    IN  /\ tot < Keep =>
             res = (IF Occurs("resp", now) THEN 1
                    ELSE IF asked = "two" /\ Occurs("resp1", now) THEN 2 ELSE 0)
        /\ res # 1 => ~Occurs("resp", first \cap now)
        /\ res = 0 /\ asked = "two" => ~Occurs("resp1", first \cap now)

\* There is room for one byte more than the buffer holds, where a terminating zero
\* belongs.
Room == asked \in Collections => tot < size

\* Only an array is terminated, by the zeros it came with.  Behind the bytes in a
\* block still stands what malloc and realloc have left there, although smsRead
\* takes the block for a string: the zeros written instead are words beside the
\* caller's pointer, though never the pointer itself.
Terminated ==
  /\ asked = "array" /\ ~wild => \A i \in tot .. ArraySize : buf[i] = 0
  /\ asked = "heap" => \A i \in tot .. size - 1 : buf[i] = Junk
  /\ nulled \subseteq 1 .. tot

\* After a call the caller's pointer is to the block that is in use, but for one
\* way out: the buffer was enlarged and a second enlargement failed.
CallerOwns == pc = "ready" /\ stale => oom /\ size > SizeOf(asked)

\* What a collecting call hands over: all that was received since it began, in
\* order, in a buffer that is large enough and is the caller's, with the exceptions
\* above: an array that is too small, one that lies where zeros go, an unterminated
\* block, and a second enlargement that fails.
HandedOver == Whole /\ Room /\ Terminated /\ CallerOwns

\* Why the last call gave up.
Reason ==
  IF oom THEN "memory"
  ELSE IF asked \in Searches /\ rounds > Timeout THEN "time" ELSE "none"

\* What the call was for: who collects makes no difference.
Aim == IF asked \in Collections THEN "all" ELSE asked

\* Whatever the pieces in which an answer comes, a call takes effect at one moment,
\* as AtExchange says.
Atomic == INSTANCE AtExchange
          WITH busy <- pc # "ready", asked <- Aim, why <- Reason
Exchange == Atomic!Spec

\* A call that does not end by time-out or for want of memory has read all there
\* was: it never ends between two pieces that have both come.
Drained ==
  [][pc # "ready" /\ pc' = "ready" => came = read' \/ rounds' > Timeout \/ oom']_vars
=============================================================================
