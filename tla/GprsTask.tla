------------------------------ MODULE GprsTask ------------------------------
(***************************************************************************)
(* gprs_task of main/internet.c: bring the GSM link up, then get the time  *)
(* from an NTP server, retrying and following the state of the link.  The  *)
(* GSM client is seen through ppposStatus() only, so its part is played by *)
(* its abstract specification PpposStatus, which Pppos implements.  lwIP's *)
(* SNTP client and the system clock are environment.                       *)
(*                                                                         *)
(* Granularity.  Each call of ppposStatus() is a step: the client task and *)
(* the tcpip thread run between any two of them.                           *)
(***************************************************************************)
EXTENDS Naturals

CONSTANT retry_count    \* attempts to see the time set: 10 in the code

ASSUME RetryAssumption == retry_count \in Nat \ {0}

VARIABLES
    status, up,     \* the GSM client, see PpposStatus
    clockSet,       \* the system clock shows 2016 or later
    sntp,           \* lwIP's SNTP client runs
    pc,             \* where gprs_task is
    retry,
    tinfo,          \* timeinfo shows 2016 or later
  \* History, read by no action.
    waits,          \* 2 s waits since SNTP was last started, up to retry_count
    flap            \* the link was seen down at line 70 and up at line 73

linkVars  == <<status, up>>
sntpVars  == <<clockSet, sntp>>
localVars == <<retry, tinfo>>
histVars  == <<waits, flap>>
vars == <<linkVars, sntpVars, pc, localVars, histVars>>

Link == INSTANCE PpposStatus

Labels == {"init", "halted", "start", "test", "delay", "poll", "check",
           "stop", "wait", "verdict", "giveup", "done", "failed"}

Init ==
    /\ Link!Init
    /\ clockSet \in BOOLEAN     \* the clock outlives a software reset
    /\ sntp = FALSE
    /\ pc = "init"
    /\ retry = 0
    /\ tinfo = FALSE
    /\ waits = 0
    /\ flap = FALSE

-----------------------------------------------------------------------------
(* Decisions and updates with plausible bugs in them (...Wrong).           *)

IsUp == status = Link!Connected

\* The while condition: timeinfo is old and (++retry < retry_count).
TriesWrong == ~tinfo
Tries == ~tinfo /\ retry + 1 < retry_count

\* ++retry is evaluated only while timeinfo is old.
NextRetryWrong == retry
NextRetry == IF tinfo THEN retry ELSE retry + 1

\* The retries start afresh after a reconnection.
RetryAfterLossWrong == retry
RetryAfterLoss == 0

StopSntpWrong == UNCHANGED sntp
sntp_stop == sntp' = FALSE

\* retry < retry_count
TimeObtainedWrong == TRUE
TimeObtained == retry < retry_count

-----------------------------------------------------------------------------
(* Environment                                                             *)

LinkStep ==
    /\ Link!Next
    /\ UNCHANGED <<sntpVars, pc, localVars, histVars>>

\* A server answers a request that went out over the link.
SntpAnswer ==
    /\ sntp
    /\ up
    /\ clockSet' = TRUE
    /\ UNCHANGED <<linkVars, sntp, pc, localVars, histVars>>

-----------------------------------------------------------------------------
(* gprs_task                                                               *)

\* ppposInit has returned 1; the local time is read once.
GsmReady ==
    /\ pc = "init"
    /\ status = Link!Connected
    /\ tinfo' = clockSet
    /\ pc' = "start"
    /\ UNCHANGED <<linkVars, sntpVars, retry, histVars>>

\* ppposInit has returned 0: the client task has ended, which leaves the state
\* FIRSTINIT.  (A task that still initialises the modem is in that state too,
\* so the model lets the call fail earlier than it can.)
GsmFailed ==
    /\ pc = "init"
    /\ status = Link!FirstInit
    /\ pc' = "halted"
    /\ UNCHANGED <<linkVars, sntpVars, localVars, histVars>>

StartSntp ==
    /\ pc = "start"
    /\ sntp' = TRUE
    /\ waits' = 0
    /\ pc' = "test"
    /\ UNCHANGED <<linkVars, clockSet, localVars, flap>>

TestTime ==
    /\ pc = "test"
    /\ retry' = NextRetry
    /\ pc' = IF Tries THEN "delay" ELSE "check"
    /\ UNCHANGED <<linkVars, sntpVars, tinfo, histVars>>

\* Two seconds later the clock is read.
ReadTime ==
    /\ pc = "delay"
    /\ tinfo' = clockSet
    /\ waits' = IF waits < retry_count THEN waits + 1 ELSE waits
    /\ pc' = "poll"
    /\ UNCHANGED <<linkVars, sntpVars, retry, flap>>

\* Line 70: leave the loop when the link is down.
PollLink ==
    /\ pc = "poll"
    /\ pc' = IF IsUp THEN "test" ELSE "check"
    /\ flap' = ~IsUp
    /\ UNCHANGED <<linkVars, sntpVars, localVars, waits>>

\* Line 73 asks again.
CheckLink ==
    /\ pc = "check"
    /\ pc' = IF IsUp THEN "verdict" ELSE "stop"
    /\ flap' = (flap /\ IsUp)
    /\ UNCHANGED <<linkVars, sntpVars, localVars, waits>>

StopSntp ==
    /\ pc = "stop"
    /\ sntp_stop
    /\ retry' = RetryAfterLoss
    /\ pc' = "wait"
    /\ UNCHANGED <<linkVars, clockSet, tinfo, histVars>>

Reconnected ==
    /\ pc = "wait"
    /\ IsUp
    /\ pc' = "start"
    /\ UNCHANGED <<linkVars, sntpVars, localVars, histVars>>

Verdict ==
    /\ pc = "verdict"
    /\ pc' = IF TimeObtained THEN "done" ELSE "giveup"
    /\ UNCHANGED <<linkVars, sntpVars, localVars, histVars>>

GiveUp ==
    /\ pc = "giveup"
    /\ sntp_stop
    /\ pc' = "failed"
    /\ UNCHANGED <<linkVars, clockSet, localVars, histVars>>

\* After ppposInit.
Serve ==
    \/ StartSntp \/ TestTime \/ ReadTime \/ PollLink \/ CheckLink
    \/ StopSntp \/ Reconnected \/ Verdict \/ GiveUp

GprsStep == GsmReady \/ GsmFailed \/ Serve

Next == LinkStep \/ SntpAnswer \/ GprsStep

Spec == Init /\ [][Next]_vars

-----------------------------------------------------------------------------
(* Properties                                                              *)

TypeOK ==
    /\ status \in Link!States /\ up \in BOOLEAN
    /\ clockSet \in BOOLEAN /\ sntp \in BOOLEAN
    /\ pc \in Labels
    /\ retry \in 0..retry_count
    /\ tinfo \in BOOLEAN
    /\ waits \in 0..(retry_count - 1)
    /\ flap \in BOOLEAN

\* "TIME SET" is printed only with a time that is set, unless the link came
\* back between the two status reads of lines 70 and 73.
TimeSetOrFlap == pc = "done" => tinfo \/ flap

\* The task gives up only after the server had all its retries, without the
\* link seen down in between: a loss of the link starts the count afresh.
FullBudget == pc \in {"giveup", "failed"} => waits = retry_count - 1 /\ ~tinfo

\* SNTP is stopped whenever the task waits for the link or has given up, and
\* runs while the task waits for the time and after it was obtained.
SntpBalanced == sntp <=> pc \in Labels \ {"init", "halted", "start", "wait", "failed"}

\* If the link stays up, the task comes to a verdict.
Decides ==
    [](pc = "start" /\ [](status = Link!Connected)
          => <>(pc \in {"done", "failed"}))
============================================================================
