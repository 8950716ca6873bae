--------------------------- MODULE FirmwareProofs ---------------------------
(***************************************************************************)
(* Firmware implements GprsTask, for any clients, calls, faults, commands  *)
(* and retries.  How the client moves the state is taken from PpposProofs; *)
(* what is new here is that the answer of ppposInit fits the state at the  *)
(* moment of its return.                                                   *)
(***************************************************************************)
EXTENDS Firmware, GprsTaskProofs

Client == INSTANCE PpposProofs WITH gsm_status <- status

-----------------------------------------------------------------------------
(* PpposProofs speaks of the client of Firmware: Gsm and Client are the    *)
(* same module with the same variables.                                    *)

USE DEF Gsm!Connected, Client!Connected, Gsm!Disconnected, Client!Disconnected,
        Gsm!Idle, Client!Idle, Gsm!FirstInit, Client!FirstInit, Gsm!linkVars,
        Client!linkVars, Gsm!flagVars, Client!flagVars, Gsm!initVars,
        Client!initVars, Gsm!discVars, Client!discVars, Gsm!clientVars,
        Client!clientVars

LEMMA SameInit == Gsm!Init => Client!Init
BY DEF Gsm!Init, Client!Init, Gsm!NoArgs, Client!NoArgs

LEMMA SameTask == Gsm!TaskStep => Client!TaskStep
BY DEF Gsm!TaskStep, Client!TaskStep, Gsm!TaskStart, Client!TaskStart,
       Gsm!TaskSetup, Client!TaskSetup, Gsm!DisconnectProbe, Client!DisconnectProbe,
       Gsm!DisconnectHangUp, Client!DisconnectHangUp, Gsm!DisconnectRadioOff,
       Client!DisconnectRadioOff, Gsm!RadioOffOrReturn, Client!RadioOffOrReturn,
       Gsm!PollersCaughtUp, Client!PollersCaughtUp, Gsm!TaskFirst, Client!TaskFirst,
       Gsm!InitSkip, Client!InitSkip, Gsm!InitAnswered, Client!InitAnswered,
       Gsm!InitFailed, Client!InitFailed, Gsm!InitDone, Client!InitDone,
       Gsm!TaskPcb, Client!TaskPcb, Gsm!TaskDial, Client!TaskDial, Gsm!TaskConnect,
       Client!TaskConnect, Gsm!TaskSeesRequest, Client!TaskSeesRequest,
       Gsm!TaskSeesLoss, Client!TaskSeesLoss, Gsm!TaskClose, Client!TaskClose,
       Gsm!TaskReset, Client!TaskReset, Gsm!TaskDrain, Client!TaskDrain,
       Gsm!TaskLinger, Client!TaskLinger, Gsm!TaskPark, Client!TaskPark,
       Gsm!TaskUnpark, Client!TaskUnpark, Gsm!TaskExit, Client!TaskExit,
       Gsm!TaskEnd, Client!TaskEnd, Gsm!EnterInit, Client!EnterInit,
       Gsm!enableAllInitCmd, Client!enableAllInitCmd, Gsm!FirstRound,
       Client!FirstRound, Gsm!GiveUp, Client!GiveUp, Gsm!LossNoticed,
       Client!LossNoticed, Gsm!Closed, Client!Closed, Gsm!ReconnectAsked,
       Client!ReconnectAsked, Gsm!CanAnswer, Client!CanAnswer, Gsm!pppapi_connect,
       Client!pppapi_connect, Gsm!pppapi_close, Client!pppapi_close,
       Gsm!StatusAfter, Client!StatusAfter, Gsm!Cmds, Client!Cmds

LEMMA SameLink == Gsm!LinkStep => Client!LinkStep
BY DEF Gsm!LinkStep, Client!LinkStep, Gsm!LinkUp, Client!LinkUp, Gsm!LinkEnd,
       Client!LinkEnd, Gsm!LinkClosed, Client!LinkClosed, Gsm!LinkErrors,
       Client!LinkErrors, Gsm!StatusAfter, Client!StatusAfter

LEMMA SameCall ==
  ASSUME NEW c \in Clients, Gsm!CallStep(c) PROVE Client!CallStep(c)
BY DEF Gsm!CallStep, Client!CallStep, Gsm!InitCall, Client!InitCall,
       Gsm!DisconnectCall, Client!DisconnectCall, Gsm!RFCall, Client!RFCall,
       Gsm!TaskMissing, Client!TaskMissing, Gsm!Goto, Client!Goto, Gsm!Return,
       Client!Return, Gsm!DisconnectArgs, Client!DisconnectArgs, Gsm!RFArgs,
       Client!RFArgs, Gsm!NoArgs, Client!NoArgs

LEMMA SamePoll ==
  ASSUME NEW c \in Clients, Gsm!PollStep(c) PROVE Client!PollStep(c)
BY DEF Gsm!PollStep, Client!PollStep, Gsm!InitCreate, Client!InitCreate,
       Gsm!InitSeesTask, Client!InitSeesTask, Gsm!InitReturn, Client!InitReturn,
       Gsm!DisconnectPost, Client!DisconnectPost, Gsm!DisconnectAcked,
       Client!DisconnectAcked, Gsm!DisconnectReturn, Client!DisconnectReturn,
       Gsm!RFQueried, Client!RFQueried, Gsm!RFSet, Client!RFSet, Gsm!Goto,
       Client!Goto, Gsm!Return, Client!Return, Gsm!NoArgs, Client!NoArgs

\* What is proved of the client, it has in Firmware.
LEMMA Assumed ==
  /\ Client!ClientsAssumption /\ Client!CmdsAssumption
  /\ Client!MaxFailAssumption /\ Client!ScenarioAssumption
BY GsmAssumption
   DEF Gsm!ClientsAssumption, Gsm!CmdsAssumption, Gsm!MaxFailAssumption,
       Gsm!ScenarioAssumption, Client!ClientsAssumption, Client!CmdsAssumption,
       Client!MaxFailAssumption, Client!ScenarioAssumption, Gsm!OpKinds,
       Gsm!FaultKinds, Client!OpKinds, Client!FaultKinds

-----------------------------------------------------------------------------
(* The client in Firmware.                                                 *)

\* Every step of the firmware is one of the client, or leaves it alone.
LEMMA ClientSteps == [SystemNext]_systemVars => [Client!Next]_(Client!vars)
<1> SUFFICES ASSUME [SystemNext]_systemVars PROVE [Client!Next]_(Client!vars)
  OBVIOUS
<1> USE DEF Client!Next
<1>1. CASE GsmStep
  BY <1>1, SameTask, SameLink, SameCall, SamePoll DEF GsmStep
<1>2. CASE InInit \/ InitReturned
  <2>1. Initiator \in Clients
    BY Assumed DEF Client!ClientsAssumption
  <2>2. Gsm!CallStep(Initiator) \/ Gsm!PollStep(Initiator)
    BY <1>2 DEF InInit, InitReturned, Gsm!CallStep, Gsm!PollStep
  <2> QED BY <2>1, <2>2, SameCall, SamePoll
<1>3. CASE UNCHANGED <<linkVars, clientVars>>
  BY <1>3 DEF Client!vars, linkVars, clientVars
<1>4. GprsServe \/ TimeArrives \/ UNCHANGED systemVars => UNCHANGED <<linkVars, clientVars>>
  BY DEF GprsServe, TimeArrives, systemVars, vars, Serve, SntpAnswer, StartSntp,
         TestTime, ReadTime, PollLink, CheckLink, StopSntp, Reconnected, Verdict,
         GiveUp
<1> QED BY <1>1, <1>2, <1>3, <1>4 DEF SystemNext

\* So what is proved of the client holds.
THEOREM ClientInvariance == System => []Client!IInv
<1>1. SystemInit => Client!IInv
  BY SameInit, Assumed, Client!InitInv DEF SystemInit
<1>2. Client!IInv /\ [SystemNext]_systemVars => Client!IInv'
  BY ClientSteps, Assumed, Client!NextInv
<1> QED BY <1>1, <1>2, PTL DEF System

-----------------------------------------------------------------------------
(* gprs_task in Firmware.                                                  *)

\* The link GprsTask sees is that of the client.
Linked == up = (phase = "running")

LEMMA LinkedInit == SystemInit => Linked
BY DEF SystemInit, Init, Link!Init, Gsm!Init, Linked

LEMMA LinkedNext == Linked /\ [SystemNext]_systemVars => Linked'
<1> SUFFICES ASSUME Linked, [SystemNext]_systemVars PROVE Linked'
  OBVIOUS
<1>1. CASE GsmStep
  BY <1>1 DEF GsmStep, Carries, Linked
<1>2. CASE InInit \/ InitReturned
  BY <1>2 DEF InInit, InitReturned, Linked, Gsm!InitCall, Gsm!InitCreate,
              Gsm!InitSeesTask, Gsm!InitReturn
<1>3. GprsServe \/ TimeArrives \/ UNCHANGED systemVars => UNCHANGED <<up, phase>>
  BY DEF GprsServe, TimeArrives, systemVars, vars, linkVars, clientVars, Serve,
         SntpAnswer, StartSntp, TestTime, ReadTime, PollLink, CheckLink, StopSntp,
         Reconnected, Verdict, GiveUp
<1> QED BY <1>1, <1>2, <1>3 DEF SystemNext, Linked

\* ppposInit returns 1 in state CONNECTED, and 0 in state FIRSTINIT.
LEMMA AnswerFits ==
  ASSUME Client!IInv, InitReturned
  PROVE  status = IF Answer = 1 THEN Link!Connected ELSE Link!FirstInit
<1>1. CASE Answer = 1
  BY <1>1 DEF Answer, InitReturned, Gsm!InitCreate, Gsm!InitReturn, Link!Connected
<1>2. CASE Answer # 1
  <2>1. tpc \in {"none", "start"}
    BY <1>2 DEF Answer, Client!IInv, Client!Creation
  <2>2. Client!NotDialled
    BY <2>1 DEF Client!NotDialled
  <2> QED BY <1>2, <2>2 DEF Client!IInv, Client!StatusByLabel, Link!FirstInit
<1> QED BY <1>1, <1>2

\* A step of the firmware is one of gprs_task or its environment, or is not seen.
LEMMA Simulation ==
  ASSUME Client!IInv, Linked, Linked', [SystemNext]_systemVars
  PROVE  [Next]_vars
<1>1. CASE GsmStep
  <2>1. [Client!Status!Next]_(Client!absVars)
    BY ClientSteps, Assumed, Client!NextSim
  <2>2. [Link!Next]_<<status, up>>
    BY <2>1 DEF Linked, Client!absVars, Client!Status!Next, Link!Next,
       Client!Status!GoIdle, Link!GoIdle, Client!Status!ComeUp, Link!ComeUp,
       Client!Status!EndReported, Link!EndReported, Client!Status!Restart,
       Client!Status!GoDownUnreported, Link!GoDownUnreported, Link!Restart,
       Client!Status!Connected, Link!Connected, Client!Status!Idle, Link!Idle,
       Client!Status!Disconnected, Link!Disconnected,
       Client!Status!FirstInit, Link!FirstInit
  <2> QED BY <1>1, <2>2 DEF GsmStep, gprsVars, Next, LinkStep, vars, linkVars
<1>2. CASE InInit
  BY <1>2 DEF InInit, vars, linkVars, gprsVars, Gsm!InitCall, Gsm!InitCreate,
              Gsm!InitSeesTask
<1>3. CASE InitReturned
  <2>1. UNCHANGED linkVars
    BY <1>3 DEF InitReturned, linkVars, Gsm!InitCreate, Gsm!InitReturn
  <2>2. GsmReady \/ GsmFailed
    BY <1>3, <2>1, AnswerFits DEF InitReturned, GsmReady, GsmFailed, sntpVars,
       localVars, histVars
  <2> QED BY <2>2 DEF Next, GprsStep
<1>4. CASE GprsServe \/ TimeArrives \/ UNCHANGED systemVars
  BY <1>4 DEF GprsServe, TimeArrives, systemVars, Next, GprsStep
<1> QED BY <1>1, <1>2, <1>3, <1>4 DEF SystemNext

\* The firmware does what GprsTask allows: ppposInit and ppposStatus keep what
\* GprsTask takes for granted, however client task, callback and calls interleave.
THEOREM RunsOnClient == System => OnClient
<1>1. SystemInit => Init
  BY DEF SystemInit
<1> QED
  BY <1>1, LinkedInit, LinkedNext, Simulation, ClientInvariance, PTL
     DEF System, OnClient, Spec

\* So all that is proved of gprs_task holds with the code of the client under it.
THEOREM HoldsOnClient ==
  System => [](TypeOK /\ TimeSetOrFlap /\ FullBudget /\ SntpBalanced)
BY RunsOnClient, TypeCorrect, TimeIsSetOrFlap, GivesUpAfterFullBudget, SntpIsBalanced,
   PTL DEF OnClient
=============================================================================
