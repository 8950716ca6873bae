----------------------------- MODULE AtExchange -----------------------------
(***************************************************************************)
(* What a caller of atCmd_waitResponse may rely on: in the end a call takes *)
(* effect at one moment.  Either it has judged, or collected, all that the *)
(* modem sent since it began, or it says why it gave up.  AtCmd, where an  *)
(* answer is read piece by piece, implements this module (AtCmd!Exchange,  *)
(* proved in AtCmdProofs).  Pppos and Sms take a call for such an exchange. *)
(***************************************************************************)
EXTENDS Naturals

CONSTANTS
  MaxBytes,     \* bound on the bytes the modem sends
  Keep,         \* a longer answer is not looked at as a whole
  Spots         \* places in the stream of bytes where a text may stand

VARIABLES
  spots, came,  \* where the texts stand, the number of bytes sent so far
  busy, asked,  \* a call is under way, and what for
  from,         \* the bytes sent before it began
  res, why      \* what the last call returned, and why it gave up

Asks == {"one", "two", "all"}   \* one text, two texts, the whole answer
Reasons == {"none", "time", "memory"}

Init ==
  /\ spots \in SUBSET Spots /\ came = 0
  /\ busy = FALSE /\ asked = "all" /\ from = 0
  /\ res = 0 /\ why = "none"

Begin(ask) ==
  /\ ~busy /\ busy' = TRUE
  /\ asked' = ask /\ from' = came /\ why' = "none"
  /\ UNCHANGED <<spots, came, res>>

Return(r, reason) ==
  /\ busy /\ busy' = FALSE
  /\ res' = r /\ why' = reason
  /\ UNCHANGED <<spots, came, asked, from>>

Holds(text, bytes) ==
  \E s \in spots : s.text = text /\ s.first .. s.last \subseteq bytes

\* Everything sent since the call began, and as much of it as is looked at.
Answer == from + 1 .. came
Part == Answer \cap from + 1 .. from + Keep

Right(r) ==
  r = (IF Holds("resp", Answer) THEN 1
       ELSE IF asked = "two" /\ Holds("resp1", Answer) THEN 2 ELSE 0)

\* The verdict on a long answer may be wrong, but it is not negative when the
\* text stands in the part that is looked at.
Tolerable(r) ==
  /\ r # 1 => ~Holds("resp", Part)
  /\ r = 2 => asked = "two"
  /\ r = 0 /\ asked = "two" => ~Holds("resp1", Part)

\* Nothing is judged before something came.
Judge ==
  /\ asked # "all" /\ came > from
  /\ \E r \in 0 .. 2 :
       /\ IF came - from < Keep THEN Right(r) ELSE Tolerable(r)
       /\ Return(r, "none")

Collect == asked = "all" /\ Return(came - from, "none")

\* Only a search for a text ends by time-out, only a collection for want of
\* memory.
GiveUp == Return(0, IF asked = "all" THEN "memory" ELSE "time")

Send ==
  /\ came' \in came + 1 .. MaxBytes
  /\ UNCHANGED <<spots, busy, asked, from, res, why>>

Next ==
  \/ \E ask \in Asks : Begin(ask)
  \/ Judge \/ Collect \/ GiveUp \/ Send

Spec == Init /\ [][Next]_<<spots, came, busy, asked, from, res, why>>
=============================================================================
