------------------------------ MODULE Firmware ------------------------------
(***************************************************************************)
(* gprs_task on top of the GSM client: GprsTask with the detailed Pppos in *)
(* the place of its abstract specification.  The call of ppposInit at      *)
(* line 38 of main/internet.c is the one that Pppos follows step by step,  *)
(* and ppposStatus() gives the gsm_status of Pppos.  In this firmware      *)
(* gprs_task is the only client; here others may disconnect the link or    *)
(* switch the radio, as the library allows.                                *)
(***************************************************************************)
EXTENDS GprsTask, Integers

CONSTANTS Clients, Initiator, NCmds, RegCmd, MaxFail, Ops, Faults  \* see Pppos

VARIABLES
    do_pppos_connect, pppos_task_started, gsm_rfOff, regTimed, pppos_mutex,
    ppp, phase, tpc, iter, nfail, skip, end_task, rfoff, serving, cpc, carg,
    acked, quiet

Gsm == INSTANCE Pppos WITH gsm_status <- status

ASSUME GsmAssumption ==
    /\ Gsm!ClientsAssumption /\ Gsm!CmdsAssumption
    /\ Gsm!MaxFailAssumption /\ Gsm!ScenarioAssumption

gprsVars == <<sntpVars, pc, localVars, histVars>>
clientVars ==
    <<do_pppos_connect, pppos_task_started, gsm_rfOff, regTimed, pppos_mutex,
      ppp, phase, tpc, iter, nfail, skip, end_task, rfoff, serving, cpc, carg,
      acked, quiet>>
systemVars == <<vars, clientVars>>

SystemInit == Init /\ Gsm!Init

-----------------------------------------------------------------------------
\* Whether the link carries traffic is for lwIP to know.
Carries == up' = (phase' = "running")

\* The client task, the link, or a call of another task.
GsmStep ==
    /\ \/ Gsm!TaskStep \/ Gsm!LinkStep
       \/ \E c \in Clients \ {Initiator} : Gsm!CallStep(c) \/ Gsm!PollStep(c)
    /\ Carries
    /\ UNCHANGED gprsVars

\* ppposInit creates the client task where there is none, and polls.
InInit ==
    /\ pc = "init"
    /\ \/ Gsm!InitCall(Initiator) \/ Gsm!InitCreate(Initiator)
       \/ Gsm!InitSeesTask(Initiator)
    /\ cpc'[Initiator] # "ready"
    /\ UNCHANGED <<up, gprsVars>>

\* It returns 0 for want of memory, or when it finds the client task gone; that is
\* asked before the state is looked at.
AnswerWrong == IF cpc[Initiator] = "create" THEN 0 ELSE 1
Answer == IF cpc[Initiator] = "create" \/ pppos_task_started = 0 THEN 0 ELSE 1

\* gprs_task goes on with the time it has, or halts.
InitReturned ==
    /\ pc = "init"
    /\ Gsm!InitCreate(Initiator) \/ Gsm!InitReturn(Initiator)
    /\ cpc'[Initiator] = "ready"
    /\ \/ Answer = 1 /\ tinfo' = clockSet /\ pc' = "start"
       \/ Answer = 0 /\ pc' = "halted" /\ UNCHANGED tinfo
    /\ UNCHANGED <<up, sntpVars, retry, histVars>>

\* From then on it asks for the state only.
GprsServe == Serve /\ UNCHANGED clientVars

TimeArrives == SntpAnswer /\ UNCHANGED clientVars

SystemNext ==
    \/ GsmStep \/ InInit \/ InitReturned \/ GprsServe \/ TimeArrives

System == SystemInit /\ [][SystemNext]_systemVars

\* The scheduler runs gprs_task whenever its delay is over.  Nothing is assumed of
\* the client, nor of the network: neither that the link comes up nor that a server
\* answers.
FairSystem == System /\ WF_systemVars(GprsServe)

-----------------------------------------------------------------------------
\* What GprsTask assumes of the client, that ppposInit returns 1 only in state
\* CONNECTED and 0 only in state FIRSTINIT, and that the state moves as PpposStatus
\* says, is what the client does: every behaviour of the firmware is one of GprsTask.
OnClient == Spec
============================================================================
