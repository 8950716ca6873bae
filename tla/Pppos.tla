------------------------------- MODULE Pppos -------------------------------
(***************************************************************************)
(* The GSM/PPPoS client of components/pppos/libGSM.c: the client task      *)
(* pppos_client_task, the library calls other tasks make (ppposInit,       *)
(* ppposDisconnect, gsm_RFOff, gsm_RFOn), the status callback lwIP's       *)
(* tcpip thread makes, and, as environment, the PPP link and the modem.    *)
(*                                                                         *)
(* Granularity.  Every section between xSemaphoreTake and xSemaphoreGive   *)
(* on pppos_mutex is one step: none of them blocks, so the holder releases *)
(* the mutex long before the 1 s time-out of another task's take.  The two *)
(* accesses made without the mutex (lines 626 and 686) are one byte wide   *)
(* and are steps of their own.  An AT exchange (atCmd_waitResponse) is in  *)
(* progress while a program counter rests at one of the exchange labels;   *)
(* the step that leaves the label is its end, with a nondeterministic      *)
(* result.  Byte counters, UART reads that carry PPP data and log output   *)
(* are left out.                                                           *)
(***************************************************************************)
EXTENDS Integers

CONSTANTS
    Clients,    \* application tasks that call the library
    Initiator,  \* the one that calls ppposInit (gprs_task in this firmware)
    NCmds,      \* GSM_InitCmdsSize: 9 in the code
    RegCmd,     \* position of cmd_Reg in GSM_Init: 7th in the code
    MaxFail,    \* failed commands tolerated in one initialisation: 20
    Ops,        \* calls the clients make besides ppposInit
    Faults      \* what the environment may do wrong, see FaultKinds

\* "setup": malloc, GPIO or UART set-up fails; "pcb": pppapi_pppos_create
\* returns NULL; "modem": an AT command of the initialisation is not answered
\* as expected; "link": the link ends with PPPERR_CONNECT; "silent": it ends
\* with a code ppp_status_cb does not act on (PPPERR_AUTHFAIL, ..._PROTOCOL,
\* ..._PEERDEAD, ..._IDLETIMEOUT, ..._CONNECTTIME, ..._LOOPBACK).
FaultKinds == {"setup", "pcb", "modem", "link", "silent"}
OpKinds == {"disconnect", "endtask", "rfoff", "rfon"}

ASSUME ClientsAssumption == Initiator \in Clients
ASSUME CmdsAssumption == NCmds \in Nat /\ RegCmd \in 1..NCmds
ASSUME MaxFailAssumption == MaxFail \in Nat
ASSUME ScenarioAssumption == Ops \subseteq OpKinds /\ Faults \subseteq FaultKinds

Cmds == 1..NCmds

VARIABLES
  \* Shared variables of libGSM.c.
    gsm_status,          \* one of States
    do_pppos_connect,    \* 1 connect, 0 disconnect, -1 disconnect and end
    pppos_task_started,
    gsm_rfOff,
    regTimed,            \* cmd_Reg.timeoutMs > 0
    pppos_mutex,         \* the mutex has been created
    ppp,                 \* pointer to the control block: "null", "live", or
                         \* "freed" (still pointing at a freed block)
  \* The PPP link, owned by lwIP.
    phase,               \* "dead", "negotiating", "running", "terminating"
  \* pppos_client_task.
    tpc,                 \* where it is; "none" when there is no such task
    iter, nfail,         \* gsmCmdIter + 1 and nfail of the initialisation
    skip,                \* commands whose skip flag is set
    end_task, rfoff,     \* locals of the disconnect branch
    serving,             \* _disconnect runs for a request (645), not at 527
  \* The callers.
    cpc,                 \* where each client is inside a library call
    carg,                \* what it was called with
  \* History, read by no action.
    acked,               \* commands the modem accepted since the last dial
    quiet                \* "served" once a disconnect request has been
                         \* served since the last ppposInit, or "none"

linkVars   == <<gsm_status, phase>>
flagVars   == <<pppos_task_started, gsm_rfOff, pppos_mutex>>
initVars   == <<iter, nfail, skip, acked>>
discVars   == <<end_task, rfoff, serving>>
clientVars == <<cpc, carg, quiet>>
vars == <<linkVars, do_pppos_connect, flagVars, regTimed, ppp, tpc,
          initVars, discVars, clientVars>>

Connected    == "CONNECTED"
Disconnected == "DISCONNECTED"
Idle         == "IDLE"
FirstInit    == "FIRSTINIT"
States == {Connected, Disconnected, Idle, FirstInit}

TaskLabels == {"none", "start", "setup", "at", "ath", "cfun", "first", "cmd",
               "pcb", "dial", "connect", "loop", "close", "drain", "linger",
               "park", "parked", "redial", "reset", "exit", "end"}
ClientLabels == {"ready", "create", "waitstart", "waitconn", "sleep",
                 "waitack", "waitdone", "rfquery", "rfset"}

\* Calls a client can be inside of, with their arguments.
DisconnectArgs == [op : {"disconnect"}, end : BOOLEAN, rf : BOOLEAN]
RFArgs == [op : {"rf"}, end : {FALSE}, rf : BOOLEAN]
NoArgs == [op |-> "none", end |-> FALSE, rf |-> FALSE]
Args == DisconnectArgs \cup RFArgs \cup {NoArgs}

Init ==
    /\ gsm_status = FirstInit
    /\ do_pppos_connect = 1
    /\ pppos_task_started = 0
    /\ gsm_rfOff = FALSE
    /\ regTimed = TRUE
    /\ pppos_mutex = FALSE
    /\ ppp = "null"
    /\ phase = "dead"
    /\ tpc = "none"
    /\ iter = 1 /\ nfail = 0 /\ skip = {}
    /\ end_task = FALSE /\ rfoff = FALSE /\ serving = FALSE
    /\ cpc = [c \in Clients |-> "ready"]
    /\ carg = [c \in Clients |-> NoArgs]
    /\ acked = {}
    /\ quiet = "none"

-----------------------------------------------------------------------------
(* Decisions of the code, one operator each, so that the actions below read  *)
(* like the code they stand for.  The operators named ...Wrong are plausible *)
(* bugs in them; no action uses those.                                       *)

\* ppp_status_cb: the state after lwIP has reported err.
StatusAfterNoUserWrong(err) ==
    CASE err = "NONE" -> Connected
      [] err = "CONNECT" -> Disconnected
      [] OTHER -> gsm_status
StatusAfter(err) ==
    CASE err = "NONE" -> Connected
      [] err \in {"USER", "CONNECT"} -> Disconnected
      [] OTHER -> gsm_status

\* enableAllInitCmd
KeepSkipsWrong == UNCHANGED skip
enableAllInitCmd == skip' = {}

\* ppposInit: there is no client task yet.
TaskMissingWrong == gsm_status # Connected
TaskMissing == pppos_task_started = 0

\* The control block has to be created: first round of this task.
FirstRoundWrong == ppp = "null"
FirstRound == gsm_status = FirstInit

\* nfail > 20
GiveUpWrong(n) == n > MaxFail + 1
GiveUp(n) == n > MaxFail

\* The serving loop has found the link lost.
LossNoticedNeverWrong == FALSE
LossNoticedEarlyWrong == gsm_status # Connected
LossNoticed == gsm_status = Disconnected

\* The wait after pppapi_close is over.
ClosedWrong == TRUE
Closed == gsm_status = Disconnected

\* A parked task has been asked to reconnect.
ReconnectAskedWrong == TRUE
ReconnectAsked == do_pppos_connect # 0

\* Command i can be answered in time.  With timeoutMs = 0 the loop of
\* atCmd_waitResponse times out before it has looked at what it read.
CanAnswer(i) == i = RegCmd => regTimed

-----------------------------------------------------------------------------
(* lwIP: the PPP link as this code sees it.                                *)

\* pppapi_connect: refused unless the block is in the dead phase.
pppapi_connect ==
    /\ phase' = IF phase = "dead" THEN "negotiating" ELSE phase
    /\ UNCHANGED gsm_status

\* pppapi_close runs in the tcpip thread while the caller waits.  On a dead
\* link it makes the callback at once; otherwise it starts to terminate.
pppapi_close ==
    IF phase = "dead"
    THEN /\ gsm_status' = StatusAfter("USER")
         /\ UNCHANGED phase
    ELSE /\ phase' = "terminating"
         /\ UNCHANGED gsm_status

\* Negotiation succeeds.
LinkUp ==
    /\ phase = "negotiating"
    /\ phase' = "running"
    /\ gsm_status' = StatusAfter("NONE")
    /\ UNCHANGED <<do_pppos_connect, flagVars, regTimed, ppp, tpc, initVars,
                   discVars, clientVars>>

LinkErrors == (IF "link" \in Faults THEN {"CONNECT"} ELSE {})
              \cup (IF "silent" \in Faults THEN {"UNHANDLED"} ELSE {})

\* The link, or the attempt to bring it up, ends without having been closed.
LinkEnd ==
    /\ phase \in {"negotiating", "running"}
    /\ phase' = "dead"
    /\ \E err \in LinkErrors : gsm_status' = StatusAfter(err)
    /\ UNCHANGED <<do_pppos_connect, flagVars, regTimed, ppp, tpc, initVars,
                   discVars, clientVars>>

\* A requested close completes; ppp_close has replaced any earlier error.
LinkClosed ==
    /\ phase = "terminating"
    /\ phase' = "dead"
    /\ gsm_status' = StatusAfter("USER")
    /\ UNCHANGED <<do_pppos_connect, flagVars, regTimed, ppp, tpc, initVars,
                   discVars, clientVars>>

-----------------------------------------------------------------------------
(* pppos_client_task                                                       *)

TaskStart ==
    /\ tpc = "start"
    /\ pppos_task_started' = 1
    /\ tpc' = "setup"
    /\ UNCHANGED <<linkVars, do_pppos_connect, gsm_rfOff, pppos_mutex,
                   regTimed, ppp, initVars, discVars, clientVars>>

\* Receive buffer, GPIO and UART.  On success _disconnect(1) follows.
TaskSetup ==
    /\ tpc = "setup"
    /\ \/ /\ tpc' = "at"
          /\ rfoff' = TRUE
          /\ serving' = FALSE
          /\ UNCHANGED end_task
       \/ /\ "setup" \in Faults
          /\ tpc' = "exit"
          /\ UNCHANGED discVars
    /\ UNCHANGED <<linkVars, do_pppos_connect, flagVars, regTimed, ppp,
                   initVars, clientVars>>

\* _disconnect has talked to the modem: switch the radio off, or return.
RadioOffOrReturn ==
    /\ regTimed' = (regTimed \/ rfoff)
    /\ tpc' = IF rfoff THEN "cfun" ELSE IF serving THEN "park" ELSE "first"

\* Every exchange starts with a delay of 100 ms.  A client that polls every
\* 10 ms has looked at the shared variables by the end of it.
PollersCaughtUp ==
    \A c \in Clients :
        /\ cpc[c] = "waitstart" => pppos_task_started = 0
        /\ cpc[c] = "waitack" => do_pppos_connect = 0

\* "AT" tells whether the modem is in command mode; if it is not, escape.
DisconnectProbe ==
    /\ tpc = "at"
    /\ PollersCaughtUp
    /\ \/ RadioOffOrReturn
       \/ tpc' = "ath" /\ UNCHANGED regTimed
    /\ UNCHANGED <<linkVars, do_pppos_connect, flagVars, ppp, initVars,
                   discVars, clientVars>>

\* "ATH" is repeated until the modem answers it.
DisconnectHangUp ==
    /\ tpc = "ath"
    /\ RadioOffOrReturn
    /\ UNCHANGED <<linkVars, do_pppos_connect, flagVars, ppp, initVars,
                   discVars, clientVars>>

\* "AT+CFUN=4"; its result is not looked at.
DisconnectRadioOff ==
    /\ tpc = "cfun"
    /\ tpc' = IF serving THEN "park" ELSE "first"
    /\ UNCHANGED <<linkVars, do_pppos_connect, flagVars, regTimed, ppp,
                   initVars, discVars, clientVars>>

\* The initialisation loop is (re)entered at its first command.
EnterInit ==
    /\ iter' = 1
    /\ nfail' = 0
    /\ tpc' = "cmd"
    /\ end_task' = FALSE
    /\ rfoff' = FALSE
    /\ serving' = FALSE

TaskFirst ==
    /\ tpc = "first"
    /\ gsm_status' = FirstInit
    /\ enableAllInitCmd
    /\ EnterInit
    /\ UNCHANGED <<phase, do_pppos_connect, flagVars, regTimed, ppp, acked,
                   clientVars>>

InitSkip ==
    /\ tpc = "cmd"
    /\ iter \in skip
    /\ iter' = iter + 1
    /\ UNCHANGED <<linkVars, do_pppos_connect, flagVars, regTimed, ppp, tpc,
                   nfail, skip, acked, discVars, clientVars>>

InitAnswered ==
    /\ tpc = "cmd"
    /\ iter \in Cmds \ skip
    /\ CanAnswer(iter)
    /\ skip' = skip \cup {iter}
    /\ acked' = acked \cup {iter}
    /\ iter' = iter + 1
    /\ UNCHANGED <<linkVars, do_pppos_connect, flagVars, regTimed, ppp, tpc,
                   nfail, discVars, clientVars>>

InitFailed ==
    /\ tpc = "cmd"
    /\ iter \in Cmds \ skip
    /\ "modem" \in Faults \/ ~CanAnswer(iter)
    /\ nfail' = nfail + 1
    /\ \/ GiveUp(nfail + 1) /\ tpc' = "exit" /\ UNCHANGED iter
       \/ ~GiveUp(nfail + 1) /\ iter' = 1 /\ UNCHANGED tpc
    /\ UNCHANGED <<linkVars, do_pppos_connect, flagVars, regTimed, ppp, skip,
                   acked, discVars, clientVars>>

InitDone ==
    /\ tpc = "cmd"
    /\ iter > NCmds
    /\ tpc' = "pcb"
    /\ UNCHANGED <<linkVars, do_pppos_connect, flagVars, regTimed, ppp,
                   initVars, discVars, clientVars>>

\* The control block is created in the first round of a task's life only.
TaskPcb ==
    /\ tpc = "pcb"
    /\ \/ FirstRound /\ ppp' = "live" /\ tpc' = "dial"
       \/ FirstRound /\ "pcb" \in Faults /\ ppp' = "null" /\ tpc' = "exit"
       \/ ~FirstRound /\ tpc' = "dial" /\ UNCHANGED ppp
    /\ UNCHANGED <<linkVars, do_pppos_connect, flagVars, regTimed, initVars,
                   discVars, clientVars>>

TaskDial ==
    /\ tpc = "dial"
    /\ gsm_status' = Idle
    /\ tpc' = "connect"
    /\ UNCHANGED <<phase, do_pppos_connect, flagVars, regTimed, ppp, initVars,
                   discVars, clientVars>>

TaskConnect ==
    /\ tpc = "connect"
    /\ pppapi_connect
    /\ acked' = {}
    /\ tpc' = "loop"
    /\ UNCHANGED <<do_pppos_connect, flagVars, regTimed, ppp, iter, nfail,
                   skip, discVars, clientVars>>

\* The serving loop sees a disconnect request and acknowledges it.
TaskSeesRequest ==
    /\ tpc = "loop"
    /\ do_pppos_connect <= 0
    /\ end_task' = (do_pppos_connect < 0)
    /\ do_pppos_connect' = 1
    /\ tpc' = "close"
    /\ UNCHANGED <<linkVars, flagVars, regTimed, ppp, initVars, rfoff,
                   serving, clientVars>>

\* The serving loop sees that the link has been lost.
TaskSeesLoss ==
    /\ tpc = "loop"
    /\ do_pppos_connect > 0
    /\ LossNoticed
    /\ tpc' = "redial"
    /\ UNCHANGED <<linkVars, do_pppos_connect, flagVars, regTimed, ppp,
                   initVars, discVars, clientVars>>

TaskClose ==
    /\ tpc \in {"close", "redial"}
    /\ pppapi_close
    /\ tpc' = IF tpc = "close" THEN "drain" ELSE "reset"
    /\ UNCHANGED <<do_pppos_connect, flagVars, regTimed, ppp, initVars,
                   discVars, clientVars>>

\* After a lost link: gsm_status is written without the mutex.
TaskReset ==
    /\ tpc = "reset"
    /\ enableAllInitCmd
    /\ gsm_status' = Idle
    /\ EnterInit
    /\ UNCHANGED <<phase, do_pppos_connect, flagVars, regTimed, ppp, acked,
                   clientVars>>

\* After a request: feed the link until the callback has reported its end.
TaskDrain ==
    /\ tpc = "drain"
    /\ Closed
    /\ tpc' = "linger"
    /\ UNCHANGED <<linkVars, do_pppos_connect, flagVars, regTimed, ppp,
                   initVars, discVars, clientVars>>

TaskLinger ==
    /\ tpc = "linger"
    /\ rfoff' = gsm_rfOff
    /\ serving' = TRUE
    /\ tpc' = "at"
    /\ UNCHANGED <<linkVars, do_pppos_connect, flagVars, regTimed, ppp,
                   initVars, end_task, clientVars>>

TaskPark ==
    /\ tpc = "park"
    /\ enableAllInitCmd
    /\ gsm_status' = Idle
    /\ do_pppos_connect' = 0
    /\ tpc' = IF end_task THEN "exit" ELSE "parked"
    /\ UNCHANGED <<phase, flagVars, regTimed, ppp, iter, nfail, acked,
                   discVars, clientVars>>

TaskUnpark ==
    /\ tpc = "parked"
    /\ ReconnectAsked
    /\ EnterInit
    /\ UNCHANGED <<linkVars, do_pppos_connect, flagVars, regTimed, ppp, skip,
                   acked, clientVars>>

\* if (ppp) ppp_free(ppp): the pointer is not cleared.
TaskExit ==
    /\ tpc = "exit"
    /\ ppp' = IF ppp = "null" THEN "null" ELSE "freed"
    /\ tpc' = "end"
    /\ UNCHANGED <<linkVars, do_pppos_connect, flagVars, regTimed, initVars,
                   discVars, clientVars>>

TaskEnd ==
    /\ tpc = "end"
    /\ pppos_task_started' = 0
    /\ gsm_status' = FirstInit
    /\ tpc' = "none"
    /\ end_task' = FALSE /\ rfoff' = FALSE /\ serving' = FALSE
    /\ UNCHANGED <<phase, do_pppos_connect, gsm_rfOff, pppos_mutex, regTimed,
                   ppp, initVars, clientVars>>

-----------------------------------------------------------------------------
(* Library calls.  A client is inside at most one.                         *)

Goto(c, label) == cpc' = [cpc EXCEPT ![c] = label]
Return(c) ==
    /\ Goto(c, "ready")
    /\ carg' = [carg EXCEPT ![c] = NoArgs]

\* ppposInit up to the test of task_s.
InitCall(c) ==
    /\ c = Initiator
    /\ cpc[c] = "ready"
    /\ do_pppos_connect' = 1
    /\ Goto(c, IF TaskMissing THEN "create" ELSE "waitconn")
    /\ quiet' = "none"
    /\ UNCHANGED <<linkVars, flagVars, regTimed, ppp, tpc, initVars, discVars,
                   carg>>

\* Mutex and task are created.  Without memory for the mutex the call fails.
InitCreate(c) ==
    /\ cpc[c] = "create"
    /\ \/ /\ pppos_mutex' = TRUE
          /\ tpc' = "start"
          /\ Goto(c, "waitstart")
          /\ UNCHANGED carg
       \/ /\ ~pppos_mutex /\ "setup" \in Faults
          /\ Return(c)
          /\ UNCHANGED <<pppos_mutex, tpc>>
    /\ UNCHANGED <<linkVars, do_pppos_connect, pppos_task_started, gsm_rfOff,
                   regTimed, ppp, initVars, discVars, quiet>>

InitSeesTask(c) ==
    /\ cpc[c] = "waitstart"
    /\ pppos_task_started = 1
    /\ Goto(c, "waitconn")
    /\ UNCHANGED <<linkVars, do_pppos_connect, flagVars, regTimed, ppp, tpc,
                   initVars, discVars, carg, quiet>>

\* Returns 0 when the task is gone, 1 when the link is up.
InitReturn(c) ==
    /\ cpc[c] = "waitconn"
    /\ pppos_task_started = 0 \/ gsm_status = Connected
    /\ Return(c)
    /\ UNCHANGED <<linkVars, do_pppos_connect, flagVars, regTimed, ppp, tpc,
                   initVars, discVars, quiet>>

\* ppposDisconnect(end, rf): a state of IDLE ends the call at once.
DisconnectCall(c) ==
    /\ cpc[c] = "ready"
    /\ pppos_mutex
    /\ \E a \in DisconnectArgs :
          /\ (IF a.end THEN "endtask" ELSE "disconnect") \in Ops
          /\ IF gsm_status = Idle
             THEN UNCHANGED <<cpc, carg>>
             ELSE /\ Goto(c, "sleep")
                  /\ carg' = [carg EXCEPT ![c] = a]
    /\ UNCHANGED <<linkVars, do_pppos_connect, flagVars, regTimed, ppp, tpc,
                   initVars, discVars, quiet>>

\* Two seconds after the state was read the request is posted.
DisconnectPost(c) ==
    /\ cpc[c] = "sleep"
    /\ do_pppos_connect' = IF carg[c].end THEN -1 ELSE 0
    /\ gsm_rfOff' = carg[c].rf
    /\ Goto(c, "waitack")
    /\ UNCHANGED <<linkVars, pppos_task_started, pppos_mutex, regTimed, ppp,
                   tpc, initVars, discVars, carg, quiet>>

DisconnectAcked(c) ==
    /\ cpc[c] = "waitack"
    /\ do_pppos_connect # 0
    /\ Goto(c, "waitdone")
    /\ UNCHANGED <<linkVars, do_pppos_connect, flagVars, regTimed, ppp, tpc,
                   initVars, discVars, carg, quiet>>

DisconnectReturn(c) ==
    /\ cpc[c] = "waitdone"
    /\ do_pppos_connect = 0
    /\ Return(c)
    /\ quiet' = "served"
    /\ UNCHANGED <<linkVars, do_pppos_connect, flagVars, regTimed, ppp, tpc,
                   initVars, discVars>>

\* gsm_RFOff (rf) and gsm_RFOn (~rf) talk to the modem when the state is IDLE.
RFCall(c) ==
    /\ cpc[c] = "ready"
    /\ pppos_mutex
    /\ gsm_status = Idle
    /\ \E a \in RFArgs :
          /\ (IF a.rf THEN "rfoff" ELSE "rfon") \in Ops
          /\ carg' = [carg EXCEPT ![c] = a]
    /\ Goto(c, "rfquery")
    /\ UNCHANGED <<linkVars, do_pppos_connect, flagVars, regTimed, ppp, tpc,
                   initVars, discVars, quiet>>

\* "AT+CFUN?" says the radio is already as wanted, or the switch goes on.
RFQueried(c) ==
    /\ cpc[c] = "rfquery"
    /\ \/ Return(c) /\ UNCHANGED regTimed
       \/ Goto(c, "rfset") /\ regTimed' = carg[c].rf /\ UNCHANGED carg
    /\ UNCHANGED <<linkVars, do_pppos_connect, flagVars, ppp, tpc, initVars,
                   discVars, quiet>>

RFSet(c) ==
    /\ cpc[c] = "rfset"
    /\ Return(c)
    /\ UNCHANGED <<linkVars, do_pppos_connect, flagVars, regTimed, ppp, tpc,
                   initVars, discVars, quiet>>

-----------------------------------------------------------------------------
TaskStep ==
    \/ TaskStart \/ TaskSetup
    \/ DisconnectProbe \/ DisconnectHangUp \/ DisconnectRadioOff
    \/ TaskFirst \/ InitSkip \/ InitAnswered \/ InitFailed \/ InitDone
    \/ TaskPcb \/ TaskDial \/ TaskConnect
    \/ TaskSeesRequest \/ TaskSeesLoss \/ TaskClose \/ TaskReset
    \/ TaskDrain \/ TaskLinger \/ TaskPark \/ TaskUnpark
    \/ TaskExit \/ TaskEnd

LinkStep == LinkUp \/ LinkEnd \/ LinkClosed

\* A client begins a library call ...
CallStep(c) == InitCall(c) \/ DisconnectCall(c) \/ RFCall(c)
\* ... or goes on with the one it is in.
PollStep(c) ==
    \/ InitCreate(c) \/ InitSeesTask(c) \/ InitReturn(c)
    \/ DisconnectPost(c) \/ DisconnectAcked(c) \/ DisconnectReturn(c)
    \/ RFQueried(c) \/ RFSet(c)

Next ==
    \/ TaskStep
    \/ LinkStep
    \/ \E c \in Clients : CallStep(c) \/ PollStep(c)

Spec == Init /\ [][Next]_vars

\* The scheduler runs every task that can run and the polling clients poll;
\* the modem answers "ATH" in the end; LCP gives up a close that the peer does
\* not confirm; negotiation does not stay undecided.
Fairness ==
    /\ WF_vars(TaskStep)
    /\ WF_vars(LinkClosed)
    /\ WF_vars(phase = "negotiating" /\ (LinkUp \/ LinkEnd))
    /\ \A c \in Clients : WF_vars(PollStep(c))

FairSpec == Spec /\ Fairness

\* The network does not refuse the link for ever, and a link that comes up
\* again and again is seen up by a client that polls every 10 ms.
GoodNetwork == SF_vars(LinkUp) /\ \A c \in Clients : SF_vars(InitReturn(c))

-----------------------------------------------------------------------------
(* Properties                                                              *)

SharedTypeOK ==
    /\ gsm_status \in States
    /\ do_pppos_connect \in {-1, 0, 1}
    /\ pppos_task_started \in {0, 1}
    /\ gsm_rfOff \in BOOLEAN /\ regTimed \in BOOLEAN /\ pppos_mutex \in BOOLEAN
    /\ ppp \in {"null", "live", "freed"}
    /\ phase \in {"dead", "negotiating", "running", "terminating"}

TaskTypeOK ==
    /\ tpc \in TaskLabels
    /\ iter \in 1..(NCmds + 1)
    /\ nfail \in 0..(MaxFail + 1)
    /\ skip \subseteq Cmds /\ acked \subseteq Cmds
    /\ end_task \in BOOLEAN /\ rfoff \in BOOLEAN /\ serving \in BOOLEAN

ClientTypeOK ==
    /\ cpc \in [Clients -> ClientLabels]
    /\ carg \in [Clients -> Args]
    /\ quiet \in {"none", "served"}

\* The variables keep their types; the command index stays inside the table
\* or one past its end, and nfail within what GiveUp allows.
TypeOK == SharedTypeOK /\ TaskTypeOK /\ ClientTypeOK

\* Labels at which the task lets PPP have the modem.
Serving == {"loop", "close", "drain"}

\* While the PPP link is anything but dead, the task is in its serving loop
\* and the control block exists: the task never sends an AT command into a
\* live link, never lets go of the block under lwIP, and ppp_free finds the
\* block in the dead phase it requires.
LinkOwned == phase # "dead" => tpc \in Serving /\ ppp = "live"

\* CONNECTED is only ever reported while the task is there to serve the link
\* and to notice its loss.
ConnectedServed == gsm_status = Connected => tpc \in Serving

\* No call into lwIP is made with a null or a stale control block, although
\* the pointer is neither cleared when the block is freed nor tested here.
PcbLabels == {"dial", "connect", "loop", "close", "redial", "drain"}
PcbLive == tpc \in PcbLabels => ppp = "live"

\* ppposInit creates a client task only when there is none.
OneTask == \A c \in Clients : cpc[c] = "create" => tpc = "none"

\* Every dial is preceded by a full initialisation: since the last dial the
\* modem has accepted every command of GSM_Init, whatever was skipped.
InitComplete == tpc = "connect" => acked = Cmds

\* Once ppposDisconnect has returned after its request was served, the link
\* stays down until the next ppposInit (with one client).
DisconnectHolds ==
    quiet = "served" => phase = "dead" /\ gsm_status \in {Idle, FirstInit}

\* gsm_status and the link move as PpposStatus says, whatever the order of the
\* task's unprotected write, the callback and the library calls.
Status == INSTANCE PpposStatus WITH status <- gsm_status, up <- phase = "running"
Abstract == Status!Spec

\* A loss that has been reported is acted upon: the task redials or parks.
LossAnswered == gsm_status = Disconnected ~> gsm_status # Disconnected

\* A posted disconnect request is served, or there is no task to serve it.
RequestServed ==
    \A c \in Clients :
        cpc[c] \in {"waitack", "waitdone"} ~> cpc[c] = "ready" \/ tpc = "none"

\* On such a network ppposInit returns, or waits for a dial that ended with a
\* code the callback only logs (with one client, and a set-up that succeeds).
Unnoticed == tpc = "loop" /\ phase = "dead" /\ gsm_status = Idle
InitReturns ==
    GoodNetwork =>
        (cpc[Initiator] \in {"create", "waitstart", "waitconn"}
            ~> cpc[Initiator] = "ready" \/ Unnoticed)

-----------------------------------------------------------------------------
(* What comments of the library say and the code does not do               *)

\* libGSM.h:71, "Connected to Internet": the link is up, or being closed.
ConnectedIsUp == gsm_status = Connected => phase \in {"running", "terminating"}

\* libGSM.h:46, "If 'end_task' = 1 also terminate GSM/PPPoS task": with a
\* modem and a network that never fail, nothing else terminates it.
EndsOnlyOnRequest == tpc = "exit" => end_task
============================================================================
