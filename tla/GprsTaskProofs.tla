--------------------------- MODULE GprsTaskProofs ---------------------------
(***************************************************************************)
(* Proofs about GprsTask, for every retry count.  The count of retries and *)
(* the count of waits since SNTP was started run in step, one ahead of the *)
(* other while a wait is under way; Progress says so label by label.       *)
(***************************************************************************)
EXTENDS GprsTask, TLAPS

\* Why the loop that waits for the time was left.
LeftLoop ==
    \/ retry < retry_count /\ (tinfo \/ flap)
    \/ retry = retry_count /\ waits = retry_count - 1 /\ ~tinfo

Progress ==
    /\ pc \in {"init", "start", "wait"} => retry = 0
    /\ pc \in {"test", "poll"} => retry = waits /\ retry < retry_count
    /\ pc = "delay" => retry = waits + 1 /\ retry < retry_count /\ ~tinfo
    /\ pc \in {"check", "verdict"} => LeftLoop
    /\ pc \in {"giveup", "failed"} => waits = retry_count - 1 /\ ~tinfo
    /\ pc = "done" => tinfo \/ flap

IInv == TypeOK /\ SntpBalanced /\ Progress

-----------------------------------------------------------------------------
\* The initial state satisfies the inductive invariant.
LEMMA InitInv == Init => IInv
<1> SUFFICES ASSUME Init PROVE IInv
  OBVIOUS
<1> USE DEF Init, Link!Init, Labels
<1>1. status \in Link!States /\ up \in BOOLEAN
  BY DEF Link!States, Link!FirstInit
<1>2. retry \in 0..retry_count /\ waits \in 0..(retry_count - 1)
  BY RetryAssumption
<1>3. TypeOK
  BY <1>1, <1>2 DEF TypeOK
<1>4. SntpBalanced /\ Progress
  BY DEF SntpBalanced, Progress
<1> QED
  BY <1>3, <1>4 DEF IInv

\* A step of the environment changes nothing Progress speaks of.
LEMMA EnvironmentInv == IInv /\ (LinkStep \/ SntpAnswer) => IInv'
<1> SUFFICES ASSUME IInv, LinkStep \/ SntpAnswer PROVE IInv'
  OBVIOUS
<1> USE DEF IInv, linkVars, sntpVars, localVars, histVars
<1>1. CASE LinkStep
  <2>1. status' \in Link!States /\ up' \in BOOLEAN
    BY <1>1 DEF LinkStep, TypeOK, Link!Next, Link!GoIdle, Link!ComeUp,
                Link!EndReported, Link!GoDownUnreported, Link!Restart,
                Link!States, Link!Idle, Link!Connected, Link!Disconnected,
                Link!FirstInit
  <2>2. UNCHANGED <<sntpVars, pc, localVars, histVars>>
    BY <1>1 DEF LinkStep
  <2> QED
    BY <2>1, <2>2 DEF TypeOK, SntpBalanced, Progress, LeftLoop
<1>2. CASE SntpAnswer
  BY <1>2 DEF SntpAnswer, TypeOK, SntpBalanced, Progress, LeftLoop
<1> QED
  BY <1>1, <1>2

\* gprs_task preserves it, action by action.
LEMMA GprsStepInv == IInv /\ GprsStep => IInv'
<1> SUFFICES ASSUME IInv, GprsStep PROVE IInv'
  OBVIOUS
<1> USE RetryAssumption
    DEF IInv, TypeOK, SntpBalanced, Progress, LeftLoop, Labels, linkVars,
        sntpVars, localVars, histVars
<1>1. CASE GsmReady
  BY <1>1 DEF GsmReady
<1>2. CASE GsmFailed
  BY <1>2 DEF GsmFailed
<1>3. CASE StartSntp
  BY <1>3 DEF StartSntp
<1>4. CASE TestTime
  BY <1>4 DEF TestTime, NextRetry, Tries
<1>5. CASE ReadTime
  BY <1>5 DEF ReadTime
<1>6. CASE PollLink
  BY <1>6 DEF PollLink
<1>7. CASE CheckLink
  BY <1>7 DEF CheckLink
<1>8. CASE StopSntp
  <2>1. retry' = 0 /\ retry' \in 0..retry_count
    BY <1>8 DEF StopSntp, RetryAfterLoss
  <2> QED
    BY <1>8, <2>1 DEF StopSntp, sntp_stop
<1>9. CASE Reconnected
  BY <1>9 DEF Reconnected
<1>10. CASE Verdict
  BY <1>10 DEF Verdict, TimeObtained
<1>11. CASE GiveUp
  BY <1>11 DEF GiveUp, sntp_stop
<1> QED
  BY <1>1, <1>2, <1>3, <1>4, <1>5, <1>6, <1>7, <1>8, <1>9, <1>10, <1>11
  DEF GprsStep, Serve

\* IInv holds in every reachable state.
THEOREM Invariance == Spec => []IInv
<1>1. Init => IInv
  BY InitInv
<1>2. IInv /\ [Next]_vars => IInv'
  <2>1. IInv /\ UNCHANGED vars => IInv'
    BY DEF IInv, TypeOK, SntpBalanced, Progress, LeftLoop, vars, linkVars,
           sntpVars, localVars, histVars
  <2> QED
    BY <2>1, EnvironmentInv, GprsStepInv DEF Next
<1> QED
  BY <1>1, <1>2, PTL DEF Spec

\* "TIME SET" is printed with an unset time only after the link was seen down
\* at line 70 and up at line 73.
THEOREM TimeIsSetOrFlap == Spec => []TimeSetOrFlap
<1>1. IInv => TimeSetOrFlap
  BY DEF IInv, Progress, TimeSetOrFlap
<1> QED
  BY <1>1, Invariance, PTL

\* The task gives up only after a full, uninterrupted budget of retries.
THEOREM GivesUpAfterFullBudget == Spec => []FullBudget
<1>1. IInv => FullBudget
  BY DEF IInv, Progress, FullBudget
<1> QED
  BY <1>1, Invariance, PTL

\* Retries, waits and labels keep their ranges.
THEOREM TypeCorrect == Spec => []TypeOK
<1>1. IInv => TypeOK
  BY DEF IInv
<1> QED
  BY <1>1, Invariance, PTL

\* SNTP runs exactly while the task waits for the time and after it was obtained,
\* through every loss of the link.
THEOREM SntpIsBalanced == Spec => []SntpBalanced
<1>1. IInv => SntpBalanced
  BY DEF IInv
<1> QED
  BY <1>1, Invariance, PTL
============================================================================
