---------------------------- MODULE PpposProofs ----------------------------
(***************************************************************************)
(* Proofs about Pppos, for any set of clients, any initialisation table,   *)
(* any retry limit, and any scenario of operations and faults.             *)
(*                                                                         *)
(* The safety properties of Pppos are not inductive one by one: each needs *)
(* to know where the task is, which state it has reported and which phase  *)
(* the link is in.  IInv says that, one conjunct per idea.                 *)
(***************************************************************************)
EXTENDS Pppos, TLAPS

\* _disconnect runs at these labels, for a request or (~serving) at start-up.
Hanging == {"at", "ath", "cfun"}

\* Where the task is, by what it has told about itself.
NotDialled == tpc \in {"none", "start", "setup", "first"}
              \/ (tpc \in Hanging /\ ~serving)
HasHungUp == tpc \in {"redial", "reset", "linger", "park"}
              \/ (tpc \in Hanging /\ serving)

\* The state reported at each label.
StatusByLabel ==
    /\ NotDialled => gsm_status = FirstInit
    /\ HasHungUp => gsm_status = Disconnected
    /\ tpc \in {"connect", "parked"} => gsm_status = Idle
    /\ tpc \in {"cmd", "pcb", "dial", "exit", "end"} => gsm_status \in {FirstInit, Idle}
    /\ tpc \in Serving => gsm_status # FirstInit

\* The state reported in each phase of the link.
StatusByPhase ==
    /\ phase # "dead" => tpc \in Serving
    /\ phase = "running" => gsm_status = Connected
    /\ phase = "negotiating" => gsm_status = Idle /\ tpc # "drain"
    /\ phase = "terminating" => gsm_status \in {Idle, Connected} /\ tpc = "drain"
    /\ tpc \in Serving /\ gsm_status = Disconnected => phase = "dead"

\* The control block exists from the first dial to the end of the task.
PcbByLabel ==
    /\ tpc \in PcbLabels \cup {"parked"} => ppp = "live"
    /\ HasHungUp => ppp = "live"
    /\ tpc \in {"cmd", "pcb"} /\ gsm_status = Idle => ppp = "live"

\* What the initialisation has achieved so far.
InitProgress ==
    /\ tpc = "cmd" => nfail <= MaxFail /\ 1..(iter - 1) \subseteq skip
    /\ tpc = "cmd" => skip \subseteq acked
    /\ tpc = "parked" => skip = {}
    /\ tpc \in {"pcb", "dial", "connect"} => acked = Cmds

\* The one initiator and the task it creates.
Creation ==
    /\ pppos_task_started = 0 <=> tpc \in {"none", "start"}
    /\ \A c \in Clients :
          cpc[c] \in {"create", "waitstart", "waitconn"} => c = Initiator
    /\ cpc[Initiator] = "create" => tpc = "none"
    /\ tpc = "start" => cpc[Initiator] = "waitstart"

IInv ==
    /\ TypeOK
    /\ StatusByLabel
    /\ StatusByPhase
    /\ PcbByLabel
    /\ InitProgress
    /\ Creation

-----------------------------------------------------------------------------
USE DEF Connected, Disconnected, Idle, FirstInit, States, Cmds

\* The counters may start at these values.
LEMMA Bounds == 1 \in 1..(NCmds + 1) /\ 0 \in 0..(MaxFail + 1) /\ 0 <= MaxFail
BY CmdsAssumption, MaxFailAssumption

\* What a call may have been made with.
LEMMA ArgsOK ==
    /\ NoArgs \in Args
    /\ DisconnectArgs \subseteq Args
    /\ RFArgs \subseteq Args
    /\ \A a \in Args : a.end \in BOOLEAN /\ a.rf \in BOOLEAN
<1>1. NoArgs \in Args /\ DisconnectArgs \subseteq Args /\ RFArgs \subseteq Args
  BY Zenon DEF Args
<1>2. NoArgs.end = FALSE /\ NoArgs.rf = FALSE
  BY DEF NoArgs
<1>3. \A a \in DisconnectArgs \cup RFArgs : a.end \in BOOLEAN /\ a.rf \in BOOLEAN
  BY DEF DisconnectArgs, RFArgs
<1> QED
  BY <1>1, <1>2, <1>3 DEF Args

-----------------------------------------------------------------------------
\* The initial state satisfies the inductive invariant.
LEMMA InitInv == Init => IInv
<1> SUFFICES ASSUME Init PROVE IInv
  OBVIOUS
<1> USE DEF Init
<1>1. SharedTypeOK
  BY DEF SharedTypeOK
<1>2. TaskTypeOK
  BY Bounds DEF TaskTypeOK, TaskLabels
<1>3. ClientTypeOK
  BY ArgsOK DEF ClientTypeOK, ClientLabels
<1>4. StatusByLabel /\ StatusByPhase /\ PcbByLabel
  BY DEF StatusByLabel, StatusByPhase, PcbByLabel, NotDialled, HasHungUp,
         Hanging, Serving, PcbLabels
<1>5. InitProgress /\ Creation
  BY ClientsAssumption DEF InitProgress, Creation
<1> QED BY <1>1, <1>2, <1>3, <1>4, <1>5 DEF IInv, TypeOK

\* The client task preserves it, action by action.
LEMMA TaskStepInv == IInv /\ TaskStep => IInv'
<1> SUFFICES ASSUME IInv, TaskStep PROVE IInv'
  OBVIOUS
<1> USE DEF IInv, TypeOK, linkVars, flagVars, initVars, discVars, clientVars
<1>1. CASE TaskStart
  <2> USE <1>1 DEF TaskStart
  <2>1. SharedTypeOK' /\ ClientTypeOK'
    BY DEF SharedTypeOK, ClientTypeOK
  <2>2. TaskTypeOK'
    BY DEF TaskTypeOK, TaskLabels
  <2>3. StatusByLabel' /\ StatusByPhase' /\ PcbByLabel'
    BY DEF StatusByLabel, StatusByPhase, PcbByLabel, NotDialled, HasHungUp,
           Hanging, Serving, PcbLabels, SharedTypeOK
  <2>4. InitProgress'
    BY DEF InitProgress, TaskTypeOK
  <2>5. Creation'
    BY DEF Creation
  <2> QED
    BY <2>1, <2>2, <2>3, <2>4, <2>5
<1>2. CASE TaskSetup
  <2> USE <1>2 DEF TaskSetup
  <2>1. SharedTypeOK' /\ ClientTypeOK'
    BY DEF SharedTypeOK, ClientTypeOK
  <2>2. TaskTypeOK'
    BY DEF TaskTypeOK, TaskLabels
  <2>3. StatusByLabel' /\ StatusByPhase' /\ PcbByLabel'
    BY DEF StatusByLabel, StatusByPhase, PcbByLabel, NotDialled, HasHungUp,
           Hanging, Serving, PcbLabels, SharedTypeOK
  <2>4. InitProgress'
    BY DEF InitProgress, TaskTypeOK
  <2>5. Creation'
    BY DEF Creation
  <2> QED
    BY <2>1, <2>2, <2>3, <2>4, <2>5
<1>3. CASE DisconnectProbe
  <2> USE <1>3 DEF DisconnectProbe, RadioOffOrReturn
  <2>1. SharedTypeOK' /\ ClientTypeOK'
    <3>1. regTimed' \in BOOLEAN
      BY DEF SharedTypeOK, TaskTypeOK
    <3> QED
      BY <3>1 DEF SharedTypeOK, ClientTypeOK
  <2>2. TaskTypeOK'
    BY DEF TaskTypeOK, TaskLabels
  <2>3. StatusByLabel' /\ StatusByPhase' /\ PcbByLabel'
    BY DEF StatusByLabel, StatusByPhase, PcbByLabel, NotDialled, HasHungUp,
           Hanging, Serving, PcbLabels, SharedTypeOK
  <2>4. InitProgress'
    BY DEF InitProgress, TaskTypeOK
  <2>5. Creation'
    BY DEF Creation
  <2> QED
    BY <2>1, <2>2, <2>3, <2>4, <2>5
<1>4. CASE DisconnectHangUp
  <2> USE <1>4 DEF DisconnectHangUp, RadioOffOrReturn
  <2>1. SharedTypeOK' /\ ClientTypeOK'
    BY DEF SharedTypeOK, ClientTypeOK
  <2>2. TaskTypeOK'
    BY DEF TaskTypeOK, TaskLabels
  <2>3. StatusByLabel' /\ StatusByPhase' /\ PcbByLabel'
    BY DEF StatusByLabel, StatusByPhase, PcbByLabel, NotDialled, HasHungUp,
           Hanging, Serving, PcbLabels, SharedTypeOK
  <2>4. InitProgress'
    BY DEF InitProgress, TaskTypeOK
  <2>5. Creation'
    BY DEF Creation
  <2> QED
    BY <2>1, <2>2, <2>3, <2>4, <2>5
<1>5. CASE DisconnectRadioOff
  <2> USE <1>5 DEF DisconnectRadioOff
  <2>1. SharedTypeOK' /\ ClientTypeOK'
    BY DEF SharedTypeOK, ClientTypeOK
  <2>2. TaskTypeOK'
    BY DEF TaskTypeOK, TaskLabels
  <2>3. StatusByLabel' /\ StatusByPhase' /\ PcbByLabel'
    BY DEF StatusByLabel, StatusByPhase, PcbByLabel, NotDialled, HasHungUp,
           Hanging, Serving, PcbLabels, SharedTypeOK
  <2>4. InitProgress'
    BY DEF InitProgress, TaskTypeOK
  <2>5. Creation'
    BY DEF Creation
  <2> QED
    BY <2>1, <2>2, <2>3, <2>4, <2>5
<1>6. CASE TaskFirst
  <2> USE <1>6 DEF TaskFirst, EnterInit, enableAllInitCmd
  <2>1. SharedTypeOK' /\ ClientTypeOK'
    BY DEF SharedTypeOK, ClientTypeOK
  <2>2. TaskTypeOK'
    BY Bounds DEF TaskTypeOK, TaskLabels
  <2>3. StatusByLabel' /\ StatusByPhase' /\ PcbByLabel'
    BY DEF StatusByLabel, StatusByPhase, PcbByLabel, NotDialled, HasHungUp,
           Hanging, Serving, PcbLabels, SharedTypeOK
  <2>4. InitProgress'
    BY Bounds DEF InitProgress, TaskTypeOK
  <2>5. Creation'
    BY DEF Creation
  <2> QED
    BY <2>1, <2>2, <2>3, <2>4, <2>5
<1>7. CASE InitSkip
  <2> USE <1>7 DEF InitSkip
  <2>1. SharedTypeOK' /\ ClientTypeOK'
    BY DEF SharedTypeOK, ClientTypeOK
  <2>2. TaskTypeOK'
    BY CmdsAssumption DEF TaskTypeOK, TaskLabels
  <2>3. StatusByLabel' /\ StatusByPhase' /\ PcbByLabel'
    BY DEF StatusByLabel, StatusByPhase, PcbByLabel, NotDialled, HasHungUp,
           Hanging, Serving, PcbLabels, SharedTypeOK
  <2>4. InitProgress'
    BY DEF InitProgress, TaskTypeOK
  <2>5. Creation'
    BY DEF Creation
  <2> QED
    BY <2>1, <2>2, <2>3, <2>4, <2>5
<1>8. CASE InitAnswered
  <2> USE <1>8 DEF InitAnswered
  <2>1. SharedTypeOK' /\ ClientTypeOK'
    BY DEF SharedTypeOK, ClientTypeOK
  <2>2. TaskTypeOK'
    BY CmdsAssumption DEF TaskTypeOK, TaskLabels
  <2>3. StatusByLabel' /\ StatusByPhase' /\ PcbByLabel'
    BY DEF StatusByLabel, StatusByPhase, PcbByLabel, NotDialled, HasHungUp,
           Hanging, Serving, PcbLabels, SharedTypeOK
  <2>4. InitProgress'
    BY DEF InitProgress, TaskTypeOK
  <2>5. Creation'
    BY DEF Creation
  <2> QED
    BY <2>1, <2>2, <2>3, <2>4, <2>5
<1>9. CASE InitFailed
  <2> USE <1>9 DEF InitFailed, GiveUp
  <2>1. SharedTypeOK' /\ ClientTypeOK'
    BY DEF SharedTypeOK, ClientTypeOK
  <2>2. TaskTypeOK'
    <3>1. nfail' \in 0..(MaxFail + 1) /\ iter' \in 1..(NCmds + 1)
      BY Bounds, MaxFailAssumption DEF TaskTypeOK, InitProgress
    <3> QED
      BY <3>1 DEF TaskTypeOK, TaskLabels
  <2>3. StatusByLabel' /\ StatusByPhase' /\ PcbByLabel'
    BY DEF StatusByLabel, StatusByPhase, PcbByLabel, NotDialled, HasHungUp,
           Hanging, Serving, PcbLabels, SharedTypeOK
  <2>4. InitProgress'
    BY MaxFailAssumption DEF InitProgress, TaskTypeOK
  <2>5. Creation'
    BY DEF Creation
  <2> QED
    BY <2>1, <2>2, <2>3, <2>4, <2>5
<1>10. CASE InitDone
  <2> USE <1>10 DEF InitDone
  <2>1. SharedTypeOK' /\ ClientTypeOK'
    BY DEF SharedTypeOK, ClientTypeOK
  <2>2. TaskTypeOK'
    BY DEF TaskTypeOK, TaskLabels
  <2>3. StatusByLabel' /\ StatusByPhase' /\ PcbByLabel'
    BY DEF StatusByLabel, StatusByPhase, PcbByLabel, NotDialled, HasHungUp,
           Hanging, Serving, PcbLabels, SharedTypeOK
  <2>4. InitProgress'
    <3>1. iter - 1 = NCmds
      BY CmdsAssumption DEF TaskTypeOK
    <3>2. Cmds \subseteq skip /\ skip \subseteq acked /\ acked \subseteq Cmds
      BY <3>1 DEF InitProgress, TaskTypeOK
    <3> QED
      BY <3>2 DEF InitProgress
  <2>5. Creation'
    BY DEF Creation
  <2> QED
    BY <2>1, <2>2, <2>3, <2>4, <2>5
<1>11. CASE TaskPcb
  <2> USE <1>11 DEF TaskPcb, FirstRound
  <2>1. SharedTypeOK' /\ ClientTypeOK'
    BY DEF SharedTypeOK, ClientTypeOK
  <2>2. TaskTypeOK'
    BY DEF TaskTypeOK, TaskLabels
  <2>3. StatusByLabel' /\ StatusByPhase' /\ PcbByLabel'
    BY DEF StatusByLabel, StatusByPhase, PcbByLabel, NotDialled, HasHungUp,
           Hanging, Serving, PcbLabels, SharedTypeOK
  <2>4. InitProgress'
    BY DEF InitProgress, TaskTypeOK
  <2>5. Creation'
    BY DEF Creation
  <2> QED
    BY <2>1, <2>2, <2>3, <2>4, <2>5
<1>12. CASE TaskDial
  <2> USE <1>12 DEF TaskDial
  <2>1. SharedTypeOK' /\ ClientTypeOK'
    BY DEF SharedTypeOK, ClientTypeOK
  <2>2. TaskTypeOK'
    BY DEF TaskTypeOK, TaskLabels
  <2>3. StatusByLabel' /\ StatusByPhase' /\ PcbByLabel'
    BY DEF StatusByLabel, StatusByPhase, PcbByLabel, NotDialled, HasHungUp,
           Hanging, Serving, PcbLabels, SharedTypeOK
  <2>4. InitProgress'
    BY DEF InitProgress, TaskTypeOK
  <2>5. Creation'
    BY DEF Creation
  <2> QED
    BY <2>1, <2>2, <2>3, <2>4, <2>5
<1>13. CASE TaskConnect
  <2> USE <1>13 DEF TaskConnect, pppapi_connect
  <2>1. SharedTypeOK' /\ ClientTypeOK'
    BY DEF SharedTypeOK, ClientTypeOK
  <2>2. TaskTypeOK'
    BY DEF TaskTypeOK, TaskLabels
  <2>3. StatusByLabel' /\ StatusByPhase' /\ PcbByLabel'
    BY DEF StatusByLabel, StatusByPhase, PcbByLabel, NotDialled, HasHungUp,
           Hanging, Serving, PcbLabels, SharedTypeOK
  <2>4. InitProgress'
    BY DEF InitProgress, TaskTypeOK
  <2>5. Creation'
    BY DEF Creation
  <2> QED
    BY <2>1, <2>2, <2>3, <2>4, <2>5
<1>14. CASE TaskSeesRequest
  <2> USE <1>14 DEF TaskSeesRequest
  <2>1. SharedTypeOK' /\ ClientTypeOK'
    BY DEF SharedTypeOK, ClientTypeOK
  <2>2. TaskTypeOK'
    BY DEF TaskTypeOK, TaskLabels
  <2>3. StatusByLabel' /\ StatusByPhase' /\ PcbByLabel'
    BY DEF StatusByLabel, StatusByPhase, PcbByLabel, NotDialled, HasHungUp,
           Hanging, Serving, PcbLabels, SharedTypeOK
  <2>4. InitProgress'
    BY DEF InitProgress, TaskTypeOK
  <2>5. Creation'
    BY DEF Creation
  <2> QED
    BY <2>1, <2>2, <2>3, <2>4, <2>5
<1>15. CASE TaskSeesLoss
  <2> USE <1>15 DEF TaskSeesLoss, LossNoticed
  <2>1. SharedTypeOK' /\ ClientTypeOK'
    BY DEF SharedTypeOK, ClientTypeOK
  <2>2. TaskTypeOK'
    BY DEF TaskTypeOK, TaskLabels
  <2>3. StatusByLabel' /\ StatusByPhase' /\ PcbByLabel'
    BY DEF StatusByLabel, StatusByPhase, PcbByLabel, NotDialled, HasHungUp,
           Hanging, Serving, PcbLabels, SharedTypeOK
  <2>4. InitProgress'
    BY DEF InitProgress, TaskTypeOK
  <2>5. Creation'
    BY DEF Creation
  <2> QED
    BY <2>1, <2>2, <2>3, <2>4, <2>5
<1>16. CASE TaskClose
  <2> USE <1>16 DEF TaskClose, pppapi_close, StatusAfter
  <2>1. SharedTypeOK' /\ ClientTypeOK'
    BY DEF SharedTypeOK, ClientTypeOK
  <2>2. TaskTypeOK'
    BY DEF TaskTypeOK, TaskLabels
  <2>3. StatusByLabel' /\ StatusByPhase' /\ PcbByLabel'
    BY DEF StatusByLabel, StatusByPhase, PcbByLabel, NotDialled, HasHungUp,
           Hanging, Serving, PcbLabels, SharedTypeOK
  <2>4. InitProgress'
    BY DEF InitProgress, TaskTypeOK
  <2>5. Creation'
    BY DEF Creation
  <2> QED
    BY <2>1, <2>2, <2>3, <2>4, <2>5
<1>17. CASE TaskReset
  <2> USE <1>17 DEF TaskReset, EnterInit, enableAllInitCmd
  <2>1. SharedTypeOK' /\ ClientTypeOK'
    BY DEF SharedTypeOK, ClientTypeOK
  <2>2. TaskTypeOK'
    BY Bounds DEF TaskTypeOK, TaskLabels
  <2>3. StatusByLabel' /\ StatusByPhase' /\ PcbByLabel'
    BY DEF StatusByLabel, StatusByPhase, PcbByLabel, NotDialled, HasHungUp,
           Hanging, Serving, PcbLabels, SharedTypeOK
  <2>4. InitProgress'
    BY Bounds DEF InitProgress, TaskTypeOK
  <2>5. Creation'
    BY DEF Creation
  <2> QED
    BY <2>1, <2>2, <2>3, <2>4, <2>5
<1>18. CASE TaskDrain
  <2> USE <1>18 DEF TaskDrain, Closed
  <2>1. SharedTypeOK' /\ ClientTypeOK'
    BY DEF SharedTypeOK, ClientTypeOK
  <2>2. TaskTypeOK'
    BY DEF TaskTypeOK, TaskLabels
  <2>3. StatusByLabel' /\ StatusByPhase' /\ PcbByLabel'
    BY DEF StatusByLabel, StatusByPhase, PcbByLabel, NotDialled, HasHungUp,
           Hanging, Serving, PcbLabels, SharedTypeOK
  <2>4. InitProgress'
    BY DEF InitProgress, TaskTypeOK
  <2>5. Creation'
    BY DEF Creation
  <2> QED
    BY <2>1, <2>2, <2>3, <2>4, <2>5
<1>19. CASE TaskLinger
  <2> USE <1>19 DEF TaskLinger
  <2>1. SharedTypeOK' /\ ClientTypeOK'
    BY DEF SharedTypeOK, ClientTypeOK
  <2>2. TaskTypeOK'
    BY DEF TaskTypeOK, TaskLabels, SharedTypeOK
  <2>3. StatusByLabel' /\ StatusByPhase' /\ PcbByLabel'
    BY DEF StatusByLabel, StatusByPhase, PcbByLabel, NotDialled, HasHungUp,
           Hanging, Serving, PcbLabels, SharedTypeOK
  <2>4. InitProgress'
    BY DEF InitProgress, TaskTypeOK
  <2>5. Creation'
    BY DEF Creation
  <2> QED
    BY <2>1, <2>2, <2>3, <2>4, <2>5
<1>20. CASE TaskPark
  <2> USE <1>20 DEF TaskPark, enableAllInitCmd
  <2>1. SharedTypeOK' /\ ClientTypeOK'
    BY DEF SharedTypeOK, ClientTypeOK
  <2>2. TaskTypeOK'
    BY DEF TaskTypeOK, TaskLabels
  <2>3. StatusByLabel' /\ StatusByPhase' /\ PcbByLabel'
    BY DEF StatusByLabel, StatusByPhase, PcbByLabel, NotDialled, HasHungUp,
           Hanging, Serving, PcbLabels, SharedTypeOK
  <2>4. InitProgress'
    BY DEF InitProgress, TaskTypeOK
  <2>5. Creation'
    BY DEF Creation
  <2> QED
    BY <2>1, <2>2, <2>3, <2>4, <2>5
<1>21. CASE TaskUnpark
  <2> USE <1>21 DEF TaskUnpark, EnterInit
  <2>1. SharedTypeOK' /\ ClientTypeOK'
    BY DEF SharedTypeOK, ClientTypeOK
  <2>2. TaskTypeOK'
    BY Bounds DEF TaskTypeOK, TaskLabels
  <2>3. StatusByLabel' /\ StatusByPhase' /\ PcbByLabel'
    BY DEF StatusByLabel, StatusByPhase, PcbByLabel, NotDialled, HasHungUp,
           Hanging, Serving, PcbLabels, SharedTypeOK
  <2>4. InitProgress'
    BY Bounds DEF InitProgress, TaskTypeOK
  <2>5. Creation'
    BY DEF Creation
  <2> QED
    BY <2>1, <2>2, <2>3, <2>4, <2>5
<1>22. CASE TaskExit
  <2> USE <1>22 DEF TaskExit
  <2>1. SharedTypeOK' /\ ClientTypeOK'
    BY DEF SharedTypeOK, ClientTypeOK
  <2>2. TaskTypeOK'
    BY DEF TaskTypeOK, TaskLabels
  <2>3. StatusByLabel' /\ StatusByPhase' /\ PcbByLabel'
    BY DEF StatusByLabel, StatusByPhase, PcbByLabel, NotDialled, HasHungUp,
           Hanging, Serving, PcbLabels, SharedTypeOK
  <2>4. InitProgress'
    BY DEF InitProgress, TaskTypeOK
  <2>5. Creation'
    BY DEF Creation
  <2> QED
    BY <2>1, <2>2, <2>3, <2>4, <2>5
<1>23. CASE TaskEnd
  <2> USE <1>23 DEF TaskEnd
  <2>1. SharedTypeOK' /\ ClientTypeOK'
    BY DEF SharedTypeOK, ClientTypeOK
  <2>2. TaskTypeOK'
    BY DEF TaskTypeOK, TaskLabels
  <2>3. StatusByLabel' /\ StatusByPhase' /\ PcbByLabel'
    BY DEF StatusByLabel, StatusByPhase, PcbByLabel, NotDialled, HasHungUp,
           Hanging, Serving, PcbLabels, SharedTypeOK
  <2>4. InitProgress'
    BY DEF InitProgress, TaskTypeOK
  <2>5. Creation'
    BY DEF Creation
  <2> QED
    BY <2>1, <2>2, <2>3, <2>4, <2>5
<1> QED
  BY <1>1, <1>2, <1>3, <1>4, <1>5, <1>6, <1>7, <1>8, <1>9, <1>10, <1>11,
     <1>12, <1>13, <1>14, <1>15, <1>16, <1>17, <1>18, <1>19, <1>20, <1>21,
     <1>22, <1>23 DEF TaskStep

\* So does lwIP, in the tcpip thread, ...
LEMMA LinkStepInv == IInv /\ LinkStep => IInv'
<1> SUFFICES ASSUME IInv, LinkStep PROVE IInv'
  OBVIOUS
<1> USE DEF IInv, TypeOK, linkVars, flagVars, initVars, discVars, clientVars
<1>1. CASE LinkUp
  <2> USE <1>1 DEF LinkUp, StatusAfter
  <2>1. SharedTypeOK' /\ ClientTypeOK'
    BY DEF SharedTypeOK, ClientTypeOK
  <2>2. TaskTypeOK'
    BY DEF TaskTypeOK, TaskLabels
  <2>3. StatusByLabel' /\ StatusByPhase' /\ PcbByLabel'
    BY DEF StatusByLabel, StatusByPhase, PcbByLabel, NotDialled, HasHungUp,
           Hanging, Serving, PcbLabels, SharedTypeOK
  <2>4. InitProgress'
    BY DEF InitProgress, TaskTypeOK
  <2>5. Creation'
    BY DEF Creation
  <2> QED
    BY <2>1, <2>2, <2>3, <2>4, <2>5
<1>2. CASE LinkEnd
  <2> USE <1>2 DEF LinkEnd, StatusAfter, LinkErrors
  <2>1. SharedTypeOK' /\ ClientTypeOK'
    BY DEF SharedTypeOK, ClientTypeOK
  <2>2. TaskTypeOK'
    BY DEF TaskTypeOK, TaskLabels
  <2>3. StatusByLabel' /\ StatusByPhase' /\ PcbByLabel'
    BY DEF StatusByLabel, StatusByPhase, PcbByLabel, NotDialled, HasHungUp,
           Hanging, Serving, PcbLabels, SharedTypeOK
  <2>4. InitProgress'
    BY DEF InitProgress, TaskTypeOK
  <2>5. Creation'
    BY DEF Creation
  <2> QED
    BY <2>1, <2>2, <2>3, <2>4, <2>5
<1>3. CASE LinkClosed
  <2> USE <1>3 DEF LinkClosed, StatusAfter
  <2>1. SharedTypeOK' /\ ClientTypeOK'
    BY DEF SharedTypeOK, ClientTypeOK
  <2>2. TaskTypeOK'
    BY DEF TaskTypeOK, TaskLabels
  <2>3. StatusByLabel' /\ StatusByPhase' /\ PcbByLabel'
    BY DEF StatusByLabel, StatusByPhase, PcbByLabel, NotDialled, HasHungUp,
           Hanging, Serving, PcbLabels, SharedTypeOK
  <2>4. InitProgress'
    BY DEF InitProgress, TaskTypeOK
  <2>5. Creation'
    BY DEF Creation
  <2> QED
    BY <2>1, <2>2, <2>3, <2>4, <2>5
<1> QED
  BY <1>1, <1>2, <1>3 DEF LinkStep

\* ... a client that begins a library call ...
LEMMA CallStepInv == ASSUME NEW c \in Clients, IInv, CallStep(c) PROVE IInv'
<1> USE DEF IInv, TypeOK, linkVars, flagVars, initVars, discVars, clientVars
<1>1. CASE InitCall(c)
  <2> USE <1>1 DEF InitCall, Goto, TaskMissing
  <2>1. SharedTypeOK' /\ ClientTypeOK'
    BY ArgsOK DEF SharedTypeOK, ClientTypeOK, ClientLabels
  <2>2. TaskTypeOK'
    BY DEF TaskTypeOK
  <2>3. StatusByLabel' /\ StatusByPhase' /\ PcbByLabel'
    BY DEF StatusByLabel, StatusByPhase, PcbByLabel, NotDialled, HasHungUp,
           Hanging, Serving, PcbLabels, SharedTypeOK
  <2>4. InitProgress'
    BY DEF InitProgress
  <2>5. Creation'
    BY DEF Creation, ClientTypeOK
  <2> QED
    BY <2>1, <2>2, <2>3, <2>4, <2>5
<1>2. CASE DisconnectCall(c)
  <2> USE <1>2 DEF DisconnectCall, Goto
  <2>1. SharedTypeOK' /\ ClientTypeOK'
    BY ArgsOK DEF SharedTypeOK, ClientTypeOK, ClientLabels
  <2>2. TaskTypeOK'
    BY DEF TaskTypeOK
  <2>3. StatusByLabel' /\ StatusByPhase' /\ PcbByLabel'
    BY DEF StatusByLabel, StatusByPhase, PcbByLabel, NotDialled, HasHungUp,
           Hanging, Serving, PcbLabels, SharedTypeOK
  <2>4. InitProgress'
    BY DEF InitProgress
  <2>5. Creation'
    <3> UNCHANGED <<pppos_task_started, tpc>>
      OBVIOUS
    <3>1. CASE UNCHANGED cpc
      BY <3>1 DEF Creation
    <3>2. CASE cpc' = [cpc EXCEPT ![c] = "sleep"]
      BY <3>2 DEF Creation, ClientTypeOK
    <3> QED
      BY <3>1, <3>2
  <2> QED
    BY <2>1, <2>2, <2>3, <2>4, <2>5
<1>3. CASE RFCall(c)
  <2> USE <1>3 DEF RFCall, Goto
  <2>1. SharedTypeOK' /\ ClientTypeOK'
    BY ArgsOK DEF SharedTypeOK, ClientTypeOK, ClientLabels
  <2>2. TaskTypeOK'
    BY DEF TaskTypeOK
  <2>3. StatusByLabel' /\ StatusByPhase' /\ PcbByLabel'
    BY DEF StatusByLabel, StatusByPhase, PcbByLabel, NotDialled, HasHungUp,
           Hanging, Serving, PcbLabels, SharedTypeOK
  <2>4. InitProgress'
    BY DEF InitProgress
  <2>5. Creation'
    BY DEF Creation, ClientTypeOK
  <2> QED
    BY <2>1, <2>2, <2>3, <2>4, <2>5
<1> QED
  BY <1>1, <1>2, <1>3 DEF CallStep

\* ... and one that goes on with it.
LEMMA PollStepInv == ASSUME NEW c \in Clients, IInv, PollStep(c) PROVE IInv'
<1> USE DEF IInv, TypeOK, linkVars, flagVars, initVars, discVars, clientVars
<1>1. CASE InitCreate(c)
  <2> USE <1>1 DEF InitCreate, Goto, Return
  <2>1. SharedTypeOK' /\ ClientTypeOK'
    <3>1. SharedTypeOK'
      BY DEF SharedTypeOK
    <3>2. ClientTypeOK'
      BY ArgsOK DEF ClientTypeOK, ClientLabels
    <3> QED
      BY <3>1, <3>2
  <2>2. TaskTypeOK'
    BY DEF TaskTypeOK, TaskLabels
  <2>3. StatusByLabel' /\ StatusByPhase' /\ PcbByLabel'
    BY DEF StatusByLabel, StatusByPhase, PcbByLabel, NotDialled, HasHungUp,
           Hanging, Serving, PcbLabels, Creation
  <2>4. InitProgress'
    BY DEF InitProgress, Creation
  <2>5. Creation'
    BY DEF Creation, ClientTypeOK
  <2> QED
    BY <2>1, <2>2, <2>3, <2>4, <2>5
<1>2. CASE InitSeesTask(c)
  <2> USE <1>2 DEF InitSeesTask, Goto
  <2>1. SharedTypeOK' /\ ClientTypeOK'
    BY ArgsOK DEF SharedTypeOK, ClientTypeOK, ClientLabels
  <2>2. TaskTypeOK'
    BY DEF TaskTypeOK
  <2>3. StatusByLabel' /\ StatusByPhase' /\ PcbByLabel'
    BY DEF StatusByLabel, StatusByPhase, PcbByLabel, NotDialled, HasHungUp,
           Hanging, Serving, PcbLabels, SharedTypeOK
  <2>4. InitProgress'
    BY DEF InitProgress
  <2>5. Creation'
    BY DEF Creation, ClientTypeOK
  <2> QED
    BY <2>1, <2>2, <2>3, <2>4, <2>5
<1>3. CASE InitReturn(c)
  <2> USE <1>3 DEF InitReturn, Goto, Return
  <2>1. SharedTypeOK' /\ ClientTypeOK'
    BY ArgsOK DEF SharedTypeOK, ClientTypeOK, ClientLabels
  <2>2. TaskTypeOK'
    BY DEF TaskTypeOK
  <2>3. StatusByLabel' /\ StatusByPhase' /\ PcbByLabel'
    BY DEF StatusByLabel, StatusByPhase, PcbByLabel, NotDialled, HasHungUp,
           Hanging, Serving, PcbLabels, SharedTypeOK
  <2>4. InitProgress'
    BY DEF InitProgress
  <2>5. Creation'
    BY DEF Creation, ClientTypeOK
  <2> QED
    BY <2>1, <2>2, <2>3, <2>4, <2>5
<1>4. CASE DisconnectPost(c)
  <2> USE <1>4 DEF DisconnectPost, Goto
  <2>1. SharedTypeOK' /\ ClientTypeOK'
    BY ArgsOK DEF SharedTypeOK, ClientTypeOK, ClientLabels
  <2>2. TaskTypeOK'
    BY DEF TaskTypeOK
  <2>3. StatusByLabel' /\ StatusByPhase' /\ PcbByLabel'
    BY DEF StatusByLabel, StatusByPhase, PcbByLabel, NotDialled, HasHungUp,
           Hanging, Serving, PcbLabels, SharedTypeOK
  <2>4. InitProgress'
    BY DEF InitProgress
  <2>5. Creation'
    BY DEF Creation, ClientTypeOK
  <2> QED
    BY <2>1, <2>2, <2>3, <2>4, <2>5
<1>5. CASE DisconnectAcked(c)
  <2> USE <1>5 DEF DisconnectAcked, Goto
  <2>1. SharedTypeOK' /\ ClientTypeOK'
    BY ArgsOK DEF SharedTypeOK, ClientTypeOK, ClientLabels
  <2>2. TaskTypeOK'
    BY DEF TaskTypeOK
  <2>3. StatusByLabel' /\ StatusByPhase' /\ PcbByLabel'
    BY DEF StatusByLabel, StatusByPhase, PcbByLabel, NotDialled, HasHungUp,
           Hanging, Serving, PcbLabels, SharedTypeOK
  <2>4. InitProgress'
    BY DEF InitProgress
  <2>5. Creation'
    BY DEF Creation, ClientTypeOK
  <2> QED
    BY <2>1, <2>2, <2>3, <2>4, <2>5
<1>6. CASE DisconnectReturn(c)
  <2> USE <1>6 DEF DisconnectReturn, Goto, Return
  <2>1. SharedTypeOK' /\ ClientTypeOK'
    BY ArgsOK DEF SharedTypeOK, ClientTypeOK, ClientLabels
  <2>2. TaskTypeOK'
    BY DEF TaskTypeOK
  <2>3. StatusByLabel' /\ StatusByPhase' /\ PcbByLabel'
    BY DEF StatusByLabel, StatusByPhase, PcbByLabel, NotDialled, HasHungUp,
           Hanging, Serving, PcbLabels, SharedTypeOK
  <2>4. InitProgress'
    BY DEF InitProgress
  <2>5. Creation'
    BY DEF Creation, ClientTypeOK
  <2> QED
    BY <2>1, <2>2, <2>3, <2>4, <2>5
<1>7. CASE RFQueried(c)
  <2> USE <1>7 DEF RFQueried, Goto, Return
  <2>1. SharedTypeOK' /\ ClientTypeOK'
    BY ArgsOK DEF SharedTypeOK, ClientTypeOK, ClientLabels
  <2>2. TaskTypeOK'
    BY DEF TaskTypeOK
  <2>3. StatusByLabel' /\ StatusByPhase' /\ PcbByLabel'
    BY DEF StatusByLabel, StatusByPhase, PcbByLabel, NotDialled, HasHungUp,
           Hanging, Serving, PcbLabels, SharedTypeOK
  <2>4. InitProgress'
    BY DEF InitProgress
  <2>5. Creation'
    <3>1. /\ cpc[c] = "rfquery" /\ UNCHANGED <<pppos_task_started, tpc>>
          /\ \E l \in {"ready", "rfset"} : cpc' = [cpc EXCEPT ![c] = l]
      OBVIOUS
    <3> HIDE DEF RFQueried
    <3> QED
      BY <3>1 DEF Creation, ClientTypeOK
  <2> QED
    BY <2>1, <2>2, <2>3, <2>4, <2>5
<1>8. CASE RFSet(c)
  <2> USE <1>8 DEF RFSet, Goto, Return
  <2>1. SharedTypeOK' /\ ClientTypeOK'
    BY ArgsOK DEF SharedTypeOK, ClientTypeOK, ClientLabels
  <2>2. TaskTypeOK'
    BY DEF TaskTypeOK
  <2>3. StatusByLabel' /\ StatusByPhase' /\ PcbByLabel'
    BY DEF StatusByLabel, StatusByPhase, PcbByLabel, NotDialled, HasHungUp,
           Hanging, Serving, PcbLabels, SharedTypeOK
  <2>4. InitProgress'
    BY DEF InitProgress
  <2>5. Creation'
    BY DEF Creation, ClientTypeOK
  <2> QED
    BY <2>1, <2>2, <2>3, <2>4, <2>5
<1> QED
  BY <1>1, <1>2, <1>3, <1>4, <1>5, <1>6, <1>7, <1>8 DEF PollStep

\* Every step preserves it.
LEMMA NextInv == IInv /\ [Next]_vars => IInv'
<1> SUFFICES ASSUME IInv, [Next]_vars PROVE IInv'
  OBVIOUS
<1>1. CASE TaskStep
  BY <1>1, TaskStepInv
<1>2. CASE LinkStep
  BY <1>2, LinkStepInv
<1>3. ASSUME NEW c \in Clients, CallStep(c) PROVE IInv'
  BY <1>3, CallStepInv
<1>4. ASSUME NEW c \in Clients, PollStep(c) PROVE IInv'
  BY <1>4, PollStepInv
<1>5. CASE UNCHANGED vars
  <2> USE <1>5 DEF vars, linkVars, flagVars, initVars, discVars, clientVars
  <2>1. TypeOK'
    BY DEF IInv, TypeOK, SharedTypeOK, TaskTypeOK, ClientTypeOK
  <2>2. StatusByLabel' /\ StatusByPhase' /\ PcbByLabel'
    BY DEF IInv, StatusByLabel, StatusByPhase, PcbByLabel, NotDialled, HasHungUp
  <2>3. InitProgress' /\ Creation'
    BY DEF IInv, InitProgress, Creation
  <2> QED
    BY <2>1, <2>2, <2>3 DEF IInv
<1> QED
  BY <1>1, <1>2, <1>3, <1>4, <1>5 DEF Next

\* IInv holds in every reachable state: what the task has reported, where it
\* is, and the phase of the link always fit together.
THEOREM Invariance == Spec => []IInv
<1>1. Init => IInv
  BY InitInv
<1>2. IInv /\ [Next]_vars => IInv'
  BY NextInv
<1> QED
  BY <1>1, <1>2, PTL DEF Spec

-----------------------------------------------------------------------------
(* The safety properties of Pppos, each from IInv.                          *)

\* The variables keep their types, the command index stays inside GSM_Init or
\* one past its end, and nfail never passes the limit by more than one.
THEOREM TypeCorrect == Spec => []TypeOK
<1>1. IInv => TypeOK
  BY DEF IInv
<1> QED
  BY <1>1, Invariance, PTL

\* The task sends no AT command into a live link and frees no live block.
THEOREM LinkIsOwned == Spec => []LinkOwned
<1>1. IInv => LinkOwned
  BY DEF IInv, LinkOwned, StatusByPhase, PcbByLabel, Serving, PcbLabels
<1> QED
  BY <1>1, Invariance, PTL

\* CONNECTED is reported only while the task serves the link.
THEOREM ConnectedIsServed == Spec => []ConnectedServed
<1>1. IInv => ConnectedServed
  BY DEF IInv, ConnectedServed, TypeOK, TaskTypeOK, TaskLabels, StatusByLabel,
         NotDialled, HasHungUp, Hanging, Serving
<1> QED
  BY <1>1, Invariance, PTL

\* No call into lwIP is made with a null or a freed control block.
THEOREM PcbIsLive == Spec => []PcbLive
<1>1. IInv => PcbLive
  BY DEF IInv, PcbLive, PcbByLabel
<1> QED
  BY <1>1, Invariance, PTL

\* ppposInit creates a task only when there is none.
THEOREM OneTaskOnly == Spec => []OneTask
<1>1. IInv => OneTask
  BY DEF IInv, OneTask, Creation
<1> QED
  BY <1>1, Invariance, PTL

\* The task dials only after the modem has accepted every command.
THEOREM InitIsComplete == Spec => []InitComplete
<1>1. IInv => InitComplete
  BY DEF IInv, InitComplete, InitProgress
<1> QED
  BY <1>1, Invariance, PTL

-----------------------------------------------------------------------------
(* A served request holds, with one client.                                 *)

\* The task is parked, or on its way out, and the link is down.
Over ==
    /\ phase = "dead"
    /\ \/ tpc \in {"parked", "exit", "end"} /\ gsm_status = Idle
       \/ tpc = "none" /\ gsm_status = FirstInit

\* What do_pppos_connect = 0 means when no request has just been posted, and
\* where a client is after its request was served.
OneClient ==
    /\ do_pppos_connect = 0 /\ cpc[Initiator] # "waitack" => Over
    /\ cpc[Initiator] = "create" => do_pppos_connect = 1
    /\ quiet = "served" =>
          /\ Over
          /\ tpc = "parked" => do_pppos_connect = 0
          /\ cpc[Initiator] \notin {"create", "waitstart", "waitconn"}
          /\ tpc # "none" => cpc[Initiator] \in {"ready", "rfquery", "rfset"}

\* A task that is parked waits for do_pppos_connect to change, and before it
\* parks the link is down.
LEMMA OneClientTask == IInv /\ OneClient /\ TaskStep => OneClient'
<1> SUFFICES ASSUME IInv, OneClient, TaskStep PROVE OneClient'
  OBVIOUS
<1> USE DEF OneClient, Over, linkVars, flagVars, initVars, discVars, clientVars
<1>1. CASE TaskPark
  <2>1. phase = "dead"
    BY <1>1 DEF TaskPark, IInv, StatusByPhase, Serving
  <2>2. cpc[Initiator] # "create"
    BY <1>1 DEF TaskPark, IInv, Creation
  <2> QED
    BY <1>1, <2>1, <2>2 DEF TaskPark
<1>2. CASE TaskUnpark
  BY <1>2 DEF TaskUnpark, ReconnectAsked, EnterInit
<1>3. CASE TaskExit \/ TaskEnd
  BY <1>3 DEF TaskExit, TaskEnd
<1>4. CASE TaskSeesRequest
  BY <1>4 DEF TaskSeesRequest
<1>5. CASE TaskStart \/ TaskSetup \/ DisconnectProbe \/ DisconnectHangUp
           \/ DisconnectRadioOff \/ TaskFirst
  BY <1>5 DEF TaskStart, TaskSetup, DisconnectProbe, DisconnectHangUp,
              DisconnectRadioOff, TaskFirst
<1>6. CASE InitSkip \/ InitAnswered \/ InitFailed \/ InitDone \/ TaskPcb
           \/ TaskDial \/ TaskConnect
  BY <1>6 DEF InitSkip, InitAnswered, InitFailed, InitDone, TaskPcb, TaskDial,
              TaskConnect
<1>7. CASE TaskSeesLoss \/ TaskClose \/ TaskReset \/ TaskDrain \/ TaskLinger
  BY <1>7 DEF TaskSeesLoss, TaskClose, TaskReset, TaskDrain, TaskLinger
<1> QED
  BY <1>1, <1>2, <1>3, <1>4, <1>5, <1>6, <1>7 DEF TaskStep

\* The link moves only while it is not dead.
LEMMA OneClientLink == OneClient /\ LinkStep => OneClient'
BY DEF OneClient, Over, LinkStep, LinkUp, LinkEnd, LinkClosed, flagVars, initVars,
       discVars, clientVars

LEMMA OneClientCall ==
  ASSUME IInv, OneClient, NEW c \in Clients, c = Initiator, CallStep(c) \/ PollStep(c)
  PROVE  OneClient'
<1> USE DEF OneClient, Over, linkVars, flagVars, initVars, discVars, clientVars,
            Goto, Return
<1>1. cpc \in [Clients -> ClientLabels]
  BY DEF IInv, TypeOK, ClientTypeOK
<1>2. CASE InitCall(c)
  BY <1>1, <1>2 DEF InitCall
<1>3. CASE DisconnectCall(c)
  BY <1>1, <1>3 DEF DisconnectCall
<1>4. CASE RFCall(c)
  BY <1>1, <1>4 DEF RFCall
<1>5. CASE InitCreate(c)
  BY <1>1, <1>5 DEF InitCreate
<1>6. CASE InitSeesTask(c) \/ InitReturn(c)
  BY <1>1, <1>6 DEF InitSeesTask, InitReturn
<1>7. CASE DisconnectPost(c)
  BY <1>1, <1>7 DEF DisconnectPost
<1>8. CASE DisconnectAcked(c) \/ DisconnectReturn(c)
  BY <1>1, <1>8 DEF DisconnectAcked, DisconnectReturn
<1>9. CASE RFQueried(c) \/ RFSet(c)
  BY <1>1, <1>9 DEF RFQueried, RFSet
<1> QED
  BY <1>2, <1>3, <1>4, <1>5, <1>6, <1>7, <1>8, <1>9 DEF CallStep, PollStep

\* Once ppposDisconnect has returned after its request was served, the link stays
\* down until the next ppposInit (DisconnectHolds), when one client makes the
\* calls: two overwrite each other's request in do_pppos_connect.
THEOREM ServedDisconnectHolds ==
  ASSUME Clients = {Initiator} PROVE Spec => []DisconnectHolds
<1>1. Init => OneClient
  BY DEF Init, OneClient
<1>2. IInv /\ OneClient /\ [Next]_vars => OneClient'
  <2>1. IInv /\ OneClient /\ (\E c \in Clients : CallStep(c) \/ PollStep(c)) => OneClient'
    BY OneClientCall
  <2>2. OneClient /\ UNCHANGED vars => OneClient'
    BY DEF OneClient, Over, vars, linkVars, clientVars
  <2> QED
    BY <2>1, <2>2, OneClientTask, OneClientLink DEF Next
<1>3. OneClient => DisconnectHolds
  BY DEF OneClient, Over, DisconnectHolds
<1> QED
  BY <1>1, <1>2, <1>3, Invariance, PTL DEF Spec

-----------------------------------------------------------------------------
(* Pppos implements PpposStatus.                                            *)

absVars == <<gsm_status, phase = "running">>

\* A step of the client task is a step of the abstract client or a stutter.
LEMMA TaskStepSim == IInv /\ TaskStep => [Status!Next]_absVars
<1> SUFFICES ASSUME IInv, TaskStep PROVE [Status!Next]_absVars
  OBVIOUS
<1> USE DEF absVars, linkVars
<1>1. CASE TaskFirst \/ TaskEnd
  <2>1. gsm_status \in {Idle, FirstInit} /\ phase = "dead"
    BY <1>1 DEF IInv, StatusByLabel, StatusByPhase, TaskFirst, TaskEnd,
                NotDialled, Serving
  <2>2. gsm_status' = FirstInit /\ phase' = phase
    BY <1>1 DEF TaskFirst, TaskEnd
  <2>3. Status!Restart
    BY <2>1, <2>2 DEF Status!Restart, Status!Idle, Status!FirstInit
  <2> QED
    BY <2>3 DEF Status!Next
<1>2. CASE TaskDial \/ TaskReset \/ TaskPark
  <2>1. gsm_status \in {FirstInit, Disconnected, Idle} /\ phase = "dead"
    BY <1>2 DEF IInv, StatusByLabel, StatusByPhase, TaskDial, TaskReset,
                TaskPark, HasHungUp, Serving
  <2>2. gsm_status' = Idle /\ phase' = phase
    BY <1>2 DEF TaskDial, TaskReset, TaskPark
  <2>3. Status!GoIdle
    BY <2>1, <2>2
    DEF Status!GoIdle, Status!Idle, Status!FirstInit, Status!Disconnected
  <2> QED
    BY <2>3 DEF Status!Next
<1>3. CASE TaskConnect
  <2>1. phase = "dead"
    BY <1>3 DEF IInv, StatusByPhase, TaskConnect, Serving
  <2> QED
    BY <1>3, <2>1 DEF TaskConnect, pppapi_connect
<1>4. CASE TaskClose
  <2>1. CASE phase = "dead"
    <3>1. gsm_status # FirstInit
      BY <1>4 DEF IInv, StatusByLabel, TaskClose, HasHungUp, Serving
    <3>2. gsm_status' = Disconnected /\ phase' = "dead"
      BY <1>4, <2>1 DEF TaskClose, pppapi_close, StatusAfter
    <3>3. Status!EndReported
      BY <3>1, <3>2 DEF Status!EndReported, Status!FirstInit, Status!Disconnected
    <3> QED
      BY <3>3 DEF Status!Next
  <2>2. CASE phase = "running"
    <3>1. gsm_status' = gsm_status /\ phase' = "terminating"
      BY <1>4, <2>2 DEF TaskClose, pppapi_close
    <3>2. Status!GoDownUnreported
      BY <2>2, <3>1 DEF Status!GoDownUnreported
    <3> QED
      BY <3>2 DEF Status!Next
  <2>3. CASE phase \notin {"dead", "running"}
    BY <1>4, <2>3 DEF TaskClose, pppapi_close
  <2> QED
    BY <2>1, <2>2, <2>3
<1>5. CASE \/ TaskStart \/ TaskSetup
           \/ DisconnectProbe \/ DisconnectHangUp \/ DisconnectRadioOff
           \/ InitSkip \/ InitAnswered \/ InitFailed \/ InitDone
           \/ TaskPcb \/ TaskSeesRequest \/ TaskSeesLoss
           \/ TaskDrain \/ TaskLinger \/ TaskUnpark \/ TaskExit
  <2>1. UNCHANGED linkVars
    BY <1>5 DEF TaskStart, TaskSetup, DisconnectProbe, DisconnectHangUp,
                DisconnectRadioOff, InitSkip, InitAnswered, InitFailed,
                InitDone, TaskPcb, TaskSeesRequest, TaskSeesLoss, TaskDrain,
                TaskLinger, TaskUnpark, TaskExit
  <2> QED
    BY <2>1
<1> QED
  BY <1>1, <1>2, <1>3, <1>4, <1>5 DEF TaskStep

\* So is a step of lwIP.
LEMMA LinkStepSim == IInv /\ LinkStep => [Status!Next]_absVars
<1> SUFFICES ASSUME IInv, LinkStep PROVE [Status!Next]_absVars
  OBVIOUS
<1> USE DEF absVars
<1>1. CASE LinkUp
  <2>1. gsm_status = Idle /\ gsm_status' = Connected
    BY <1>1 DEF IInv, StatusByPhase, LinkUp, StatusAfter
  <2>2. Status!ComeUp
    BY <1>1, <2>1 DEF LinkUp, Status!ComeUp, Status!Idle, Status!Connected
  <2> QED
    BY <2>2 DEF Status!Next
<1>2. CASE LinkEnd
  <2>1. gsm_status # FirstInit
    BY <1>2 DEF IInv, StatusByPhase, LinkEnd
  <2>2. gsm_status' \in {gsm_status, Disconnected} /\ phase' = "dead"
    BY <1>2 DEF LinkEnd, LinkErrors, StatusAfter
  <2>3. CASE gsm_status' = Disconnected
    BY <2>1, <2>2, <2>3
    DEF Status!Next, Status!EndReported, Status!FirstInit, Status!Disconnected
  <2>4. CASE gsm_status' = gsm_status
    BY <1>2, <2>2, <2>4 DEF LinkEnd, Status!Next, Status!GoDownUnreported
  <2> QED
    BY <2>2, <2>3, <2>4
<1>3. CASE LinkClosed
  <2>1. gsm_status # FirstInit /\ gsm_status' = Disconnected /\ phase' = "dead"
    BY <1>3 DEF IInv, StatusByPhase, LinkClosed, StatusAfter
  <2> QED
    BY <2>1
    DEF Status!Next, Status!EndReported, Status!FirstInit, Status!Disconnected
<1> QED
  BY <1>1, <1>2, <1>3 DEF LinkStep

\* Library calls change neither the reported state nor the link.
LEMMA ClientStepSim ==
  ASSUME NEW c \in Clients, CallStep(c) \/ PollStep(c)
  PROVE  UNCHANGED linkVars
BY DEF CallStep, PollStep, InitCall, DisconnectCall, RFCall, InitCreate,
       InitSeesTask, InitReturn, DisconnectPost, DisconnectAcked,
       DisconnectReturn, RFQueried, RFSet

\* Whatever the step, the abstract client makes a step or a stutter.
LEMMA NextSim == IInv /\ [Next]_vars => [Status!Next]_absVars
<1> SUFFICES ASSUME IInv, [Next]_vars PROVE [Status!Next]_absVars
  OBVIOUS
<1>1. CASE TaskStep
  BY <1>1, TaskStepSim
<1>2. CASE LinkStep
  BY <1>2, LinkStepSim
<1>3. CASE \E c \in Clients : CallStep(c) \/ PollStep(c)
  BY <1>3, ClientStepSim DEF absVars, linkVars
<1>4. CASE UNCHANGED vars
  BY <1>4 DEF vars, linkVars, absVars
<1> QED
  BY <1>1, <1>2, <1>3, <1>4 DEF Next

\* gsm_status and the link behave as PpposStatus says, for any number of
\* clients and whatever the order of their calls, the task and the callback.
THEOREM Implements == Spec => Abstract
<1>1. Init => Status!Init
  BY DEF Init, Status!Init, Status!FirstInit
<1> QED
  BY <1>1, NextSim, Invariance, PTL DEF Spec, Abstract, Status!Spec, absVars
============================================================================
