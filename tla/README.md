# Verification of the smart street light

This directory holds TLA+ models of the ESP32 firmware and of the configuration
page in `src/`: what their components do, which properties they have, and how these
were checked with TLC and proved with TLAPS. Paths below are relative to `src/`.

## 1. The system

The firmware runs on a dual-core ESP32 under FreeRTOS and reaches the Internet
through a SIM800C GSM modem on UART 1. Most of its logic is the GSM/PPPoS client. A
web page for its configuration is served from `html/`; what that page does is the
multiselect widget and the way it is bound to a view model.

| Component | Source | State it keeps | Operations |
|---|---|---|---|
| PPPoS client | `components/pppos/libGSM.c` 42-66, 168-310, 426-867 | `gsm_status`, `do_pppos_connect`, `pppos_task_started`, `gsm_rfOff`, byte counters, the mutex, the control block `ppp`, the table of initialisation commands with their `skip` flags | the task `pppos_client_task`; the callbacks `ppp_status_cb` and `ppp_output_callback`, run by lwIP's tcpip thread; the calls `ppposInit`, `ppposDisconnect`, `ppposStatus`, `getRxTxCount`, `resetRxTxCount`, `gsm_RFOff`, `gsm_RFOn` |
| AT command engine | `libGSM.c` 313-423 | none between calls; one UART shared by everybody | `atCmd_waitResponse` |
| SMS | `libGSM.c` 870-1108 | the modem's message store | `smsSend`, `smsRead`, `smsDelete` |
| Time task | `main/internet.c` | `retry`, `timeinfo`, lwIP's SNTP client | `gprs_task` |
| Wi-Fi access point | `main/wifi_ap_task.c` | event group, credentials in NVS | `wifi_ap_task`, `event_handler`, `set_ssid_to_nvs`, `get_ssid_from_nvs`; not started by `app_main` at this commit |
| Configuration page | `html/bootstrap-multiselect.js`, `html/sh_z_001.js` | a native select (options, selection, disabled ones), the rows and boxes built for it, the search with its timer, the caption; under Knockout a view model and timers | the page asks for the stored configuration and creates the widget; the handlers of clicks, keys and the search; the methods `select`, `deselect`, `selectAll`, `deselectAll`, `clearSelection`, `refresh`, `rebuild`, `dataprovider`, `setOptions`, `enable`, `disable`, `destroy`; the binding's computeds and timers |
| Web server | `main/webserver.c` | none | `webserver_task`, `global_config`; not started either |
| Captive DNS | `main/captdns.c` | a socket | `captdnsRecv`; not started either |
| Display, RTC, start-up | `main/display.c`, `main/rtc.c`, `main/sh_z_001.c` | none | straight-line set-up |

How they interact. `app_main` creates the display, RTC and GPRS tasks.
`gprs_task` calls `ppposInit`, which creates the client task and polls the shared
variables until the link is up or the task is gone. The client task drives the
modem over the UART, then lets PPP have it and moves received bytes to lwIP.
lwIP's tcpip thread reports the fate of the link through `ppp_status_cb`, which
writes `gsm_status`. Other calls post requests in `do_pppos_connect` and poll it
for the answer: the one variable is request, acknowledgement (it goes back to 1)
and completion (it goes to 0). Everything is shared under `pppos_mutex`, except
two accesses of `gsm_status` by the client task (lines 626 and 686). The SMS calls run
in the task that makes them and use the UART when the state is `IDLE`.

On the page the user works on rows and boxes, the page's own code on the select and
through the widget's methods. Each side's change is carried to the other by a
handler or a method, and boxes, caption and visible rows are derived from both. With
Knockout the view model changes the select at once and the widget by way of timers;
the user's changes reach the view model through the select's change event. The one page of
this repository loads no Knockout (`html/index.html` 13-18), so lines 58-170 of the
library do not run there: what is said of the binding is said of the library as shipped.

What is hard in it:

- three kinds of threads write `gsm_status`, and decisions are taken from a
  value read some time before (should the control block be created, is the
  modem free, is there anything to disconnect);
- a request and its acknowledgement share one cell, polled every 10 or 100 ms;
- the client task restarts its initialisation from five places and may end from
  three, and must leave flags, control block and state fit for what comes next;
- link and modem fail at any time, and lwIP reports a dozen different ends;
- `ppposStatus` answers are stale as soon as they are given;
- an AT answer that comes after its time-out is met by the next command, and after
  `AT+CMGS` the modem takes commands for text;
- the page's select changes under the rows built for it, a handler that meets a row
  without an option ends half-way, and timers fire after what they were set for is
  gone.

What makes each component correct:

- *PPPoS client*: AT commands never go into a live link; `CONNECTED` is reported
  only while somebody serves the link; lwIP is never called with a null or freed
  control block; at most one client task; every dial follows a complete
  initialisation; a disconnect that was served holds; losses are acted on;
  calls return.
- *AT engine*: what is stored is what was received since the command; the verdict on it
  is right; buffers are not overrun; it ends in bounded time.
- *SMS*: success is reported only for what the modem did; a message's text never
  reaches a modem that reads commands; the modem is never left in text entry.
- *Time task*: success means the time is set; giving up means the server had its
  chance; SNTP is started and stopped in turn.
- *Configuration page*: rows show the select; the select-all and group boxes, the caption
  and the rows in sight follow from selection and search; nobody selects what the
  user cannot reach; when all timers have fired, rows, select and view model agree.
- *Wi-Fi*: the access point is up exactly while it is enabled; stored credentials
  are one consistent set.
- *Captive DNS*: a reply holds one well-formed answer for each question it counts.

`PROJECT.json` lists the hazards line by line, with the properties that cover them.

## 2. Modules

`Pppos` and `GprsTask` are state machines that `PpposStatus` connects and `Firmware`
composes; `PpposCounters`, `AtCmd` and `Sms` stand beside them. `MultiselectKnockout` is
built on `Multiselect`. Three modules are abstract specifications that a detailed one
implements: `PpposStatus` (by `Pppos`), `TrafficMeter` (by `PpposCounters`) and `AtExchange`
(by `AtCmd`).

- **`PpposStatus`** is the abstract specification of the client as seen by a task
  that calls only `ppposStatus()`: two variables, the reported status and whether
  the link carries traffic, and five actions. It allows the link to go down
  unreported, because the code does.
- **`Pppos`** is the detailed model: the client task with one label per place where
  it can be interrupted, the callback, the link, and any number of clients that
  call the library. `Pppos!Abstract` says that it implements `PpposStatus` under
  `status <- gsm_status, up <- (phase = "running")`.
- **`GprsTask`** is `gprs_task` with `PpposStatus` in the place of the GSM client: the
  application, with all that it takes for granted of the client spelled out.
- **`Firmware`** puts `Pppos` there. `gprs_task` is the client's `Initiator`, its call of
  `ppposInit` runs through the steps of `Pppos`, and other clients may make their calls.
  `OnClient` says that it implements `GprsTask`: nothing is taken for granted in vain.
- **`PpposCounters`** is the traffic accounting of the client, one step per access
  of a counter and of the mutex. It stands alone: `Pppos` leaves the counters out,
  and nothing in the client depends on their values.
- **`TrafficMeter`** is what the tasks that share the counters rely on: a call that adds,
  reads or clears takes effect on both counters at one moment. It knows no mutex.
- **`AtCmd`** is one call of `atCmd_waitResponse` after the other, a read of the UART at a
  time.
- **`AtExchange`** is what a caller of it relies on, and what `Pppos` and `Sms` take a call
  for: in the end it judges or collects, at one moment, all that the modem has sent since
  it began, or says why it gave up.
- **`Sms`** is the dialogue of the SMS calls with the modem, an exchange at a time, with
  a modem of its own: lines and answers queue up in both directions.
- **`Multiselect`** is the widget: the select, the rows, what is derived from them, and
  one action per handler and method.
- **`MultiselectKnockout`** extends it by the binding: the view model, the timers it
  sets and the order in which they fire (a page that loads Knockout, see section 1).
- **`PpposProofs`**, **`GprsTaskProofs`**, **`FirmwareProofs`**, **`PpposCountersProofs`**,
  **`AtCmdProofs`**, **`SmsProofs`**, **`MultiselectProofs`** and **`MultiselectKnockoutProofs`** hold the proofs; the `MC...`
  modules and the `.cfg` files the instances TLC checks (`Sms` needs no module of its own
  for that).

### Pppos and the code

| Model | Code |
|---|---|
| `gsm_status`, `do_pppos_connect`, `pppos_task_started`, `gsm_rfOff`, `ppp` | the variables of that name; `ppp` tells a live block from a freed one still pointed at |
| `regTimed` | `cmd_Reg.timeoutMs > 0`, the one entry of the command table that is changed at run time in a way that matters |
| `phase` | lwIP's PPP phase, as far as it decides what `pppapi_connect`, `pppapi_close` and `ppp_free` do |
| `tpc` | where `pppos_client_task` is: `at`, `ath`, `cfun` are the exchanges of `_disconnect` (`serving` tells the call at 645 from the one at 527), `cmd` the initialisation loop, `loop` the serving loop, `drain` the wait at 626, `parked` the wait at 662 |
| `skip`, `iter`, `nfail`, `end_task`, `rfoff` | locals of the task and the skip flags |
| `cpc`, `carg` | where each client is in its library call, and the arguments |
| `acked`, `quiet` | history for `InitComplete` and `DisconnectHolds`; no action reads them |

Every section between `xSemaphoreTake` and `xSemaphoreGive` is one step, as are the
two unprotected accesses. The holder of the mutex never blocks, so the 1 s time-out
of the takes, whose result the code ignores, is not modelled. An AT exchange is
under way while `tpc` rests at its label; the step that leaves the label is its
end, with a result chosen nondeterministically. One timing fact is assumed, in
`PollersCaughtUp`: an exchange takes at least the 100 ms it begins with, so a client
that polls every 10 ms has polled by its end. Bytes, logging and the byte counters
are left out.

The constant `Faults` says what may go wrong: `setup` (memory, GPIO, UART), `pcb`
(lwIP has no control block), `modem` (a command is not answered as expected), `link`
(the link ends with `PPPERR_CONNECT`) and `silent` (it ends with a code
`ppp_status_cb` only logs). `Ops` says which calls besides `ppposInit` are made.

### GprsTask and the code

`pc` follows `internet.c` 37-96, one label per place where another thread can run,
in particular between the two calls of `ppposStatus()` at lines 70 and 73. `tinfo`
and `clockSet` keep of a time only whether it is 2016 or later, which is all the
code asks. `waits` and `flap` are history. `IsUp`, `Tries`, `NextRetry` and
`TimeObtained` are the four conditions of the code.

### Firmware and the code

`status` is `gsm_status`, and `up` follows `phase`. `InInit` is a step of `ppposInit` while it
goes on, `InitReturned` its end with the first thing `gprs_task` does of its own: halt after
an answer of 0 (`Answer`, lines 730 and 751), read the time after a 1. Then `GprsServe` is a
step of `GprsTask`, and `GsmStep` one of the client task, the link or another client.

### PpposCounters and the code

The movers are lwIP's tcpip thread in `ppp_output_callback` (`rx`, line 306) and the
client task in its two serving loops (`tx`, lines 633 and 698). `Move` is the UART
call; `Take`, `Load`, `Store` and `Give` are the rest of the update. `GetCall` begins
`getRxTxCount`, with or without `rst`; `ResetCall` begins `resetRxTxCount`, or the
clearing at the start of the client task. `moved`, `cleared` and `wraps` (how often a counter
has passed the end of its range, counted at each store) are history.
`MaxMoved` bounds the bytes moved in each direction.

For `TrafficMeter` a thread that has read both counters, or cleared one of two, has had its
effect (`Done`), and while a clear is half done both counters are 0 (`Total`): nobody can
look. `AtOnce` says that this is so.

### AtCmd and the code

The bytes the modem sends are numbered; `came` and `read` say how many the UART has
received and the call has taken, `buf` what stands in `sresp` or in the caller's buffer, byte
by byte, `tot` how many were stored (`idx` in the one loop, `tot` in the other). Of their
content only the places matter where the expected texts stand (`spots`, any places from the
constant `Spots`). `wait` is the loop at 368 with `Receive`, `Silence` and `Decide` for the
three ways through it, `collect` the one at 350 with `Collect` and `Collected`. A read gives
nothing only when nothing has come (`Silent`), which is how both loops learn that an answer
is over. `sresp` is terminated only while it is not full; with 256 bytes `Finds` may be true of
any text. `stale` says that the caller still has the pointer to a block `realloc` has moved;
`from` and `oom` are history.

A collecting call is `smsRead`'s, with a block from `malloc` (`heap`), or that of `gsm_RFOff` or
`gsm_RFOn`, with an array of 64 bytes they call 63 (`array`). Two statements of the loop are
undefined in C, and the model has what a build can make of them:

- `response[tot] = '\0'` (359) indexes the address of the caller's pointer and not the buffer:
  it sets the word `tot` places behind that pointer to null (`nulled`) and terminates nothing.
  Where the compiler has put the array is open (`gap`: so many words behind the pointer, or
  not behind it); a word within it wipes out `Word` of its bytes (`Hits`). What else the caller
  keeps in the other words, its return address for one, is not followed;
- `realloc` of the array (352) fails or aborts, after which nothing is handed over, or returns,
  and then nothing is said of the bytes any more (`wild`).

`Exchange` says that all this is `AtExchange`, with `Reason` made of `oom` and of the rounds:
when a call ends and how much it has taken does not depend on where the bytes end up. The
UART's own buffer of 2048 bytes is taken to be large enough.

### Sms and the code

`pc` is the exchange a call is in, named for its command: `cfun` and `cmgf` are
`sms_ready`, `cmgs`, `body` and `esc` the three of `smsSend`, `cmgd` and `cmgl` those of
`smsDelete` and `smsRead`. `Write` is the beginning of `atCmd_waitResponse` (discard what
was received, send the line), `Found` its search for the expected text; a step that
leaves a label is the exchange's end, after an answer or without one. `input` and
`output` hold the lines and answers under way; the modem (`TextLine`, `CommandLine`) may
take as long as it likes over each line and may refuse it. Wording, numbers and message
texts are left out: a line is known by its command and the call that wrote it. `sent`,
`deleted`, `behind` and `nomem` are history. One task makes the calls, and nobody else
uses the UART meanwhile; an answer arrives as a whole.

### Multiselect, MultiselectKnockout and the code

| Model | Code |
|---|---|
| `content`, `selected`, `dis`, `frozen` | the native select: options and groups in order, selection, disabled ones, the button's disabled state |
| `built`, `checked`, `off`, `marks` | the rows in the list, the checked and the disabled ones, and the select-all and group boxes that are checked |
| `hidden`, `folded`, `unseen` | rows with the class the search gives, rows folded by a caret, rows out of sight for either reason |
| `query`, `box`, `timer` | `this.query`, the text in the box, and the text the 300 ms timer will search for |
| `conf`, `reset`, `open`, `caption` | the options, the reset row, whether the list is open, the text and title of the button |
| `last`, `handlers`, `click` | `lastToggledInput`, the number of click handlers (each `rebuild` binds one more), a click whose handlers have not all run |
| `vm`, `enabled`, `due`, `setting`, `limit`, `bound` | the view model, the timers of 1 and 0 ms, the rate-limited computeds, the binding |
| `Click`, `Key`, `ShiftClick`, `NextHandler`, `ClickAll`, `ClickGroup`, `Collapse` | the handlers at 577-852 |
| `Type`, `SearchFires`, `ClearFilter` | `buildFilter` (1062-1190) |
| the actions of `PageStep` | the methods of the same name (1197-1596) |
| `Bind`, `VMOptions`, `VMSelect`, `VMEnable`, `VMConfig`, `Elapse`, `Fire`, `FireSetting`, `Dispose` | `ko.bindingHandlers.multiselect` (58-170) |

Several steps of the code leave a copy behind on purpose or by omission: `selectAll`
called by the page does not rewrite the caption, a change of the select waits for
`refresh`, a handler that meets a row without an option ends there. The history
variable `loose` names the copies that are behind; a step that recomputes a copy takes
its name out. `Synced`, `MarksRight`, `CaptionRight` and `FilterRight` say that a copy that is
not in `loose` is right, after any sequence of steps, and the comment on each lists all
the ways into `loose`: the list is part of the claim. `missed` (a range ended before
its change event) and `override` (a rebuild came after the last call of `enable` or
`disable`) play the same part for the binding, and `behind` (a line or an answer was
still under way when the call began) for `Sms`. No action reads them. A property with such an exception says
nothing of the cases the exception names: the hazards of those cases have a note.

### Operators named ...Wrong

Before some decisions of the code there are operators that decide in a plausibly
wrong way (a flag not cleared, a wait left out, a count not reset). No action uses
them. Putting one in the place of its neighbour makes TLC report the property that
`PROJECT.json` names under `mutants`: the properties do depend on the code.

## 3. What the runs show

Passing:

| Run | Instance | Shows |
|---|---|---|
| `pppos_safety` | two clients, all calls, all faults, 2 commands, 1 failure tolerated; 101,341 states | the safety properties and that `Pppos` implements `PpposStatus` |
| `pppos_single` | one client, the code's 9 commands and 20 failures, disconnects, all faults but `setup` | a served disconnect holds (`DisconnectHolds`), losses are answered (`LossAnswered`), requests are served (`RequestServed`), and on a network that does not refuse for ever `ppposInit` returns or waits for a dial whose end was only logged (`InitReturns`) |
| `firmware_time` | `gprs_task` with the code's 10 retries and another client, all calls, all faults, 2 commands, 1 failure tolerated; 373,658 states | the firmware implements `GprsTask` (`OnClient`), verdicts of `gprs_task` are justified (`TimeSetOrFlap`, `FullBudget`), SNTP is balanced (`SntpBalanced`), a stable link leads to a verdict (`Decides`) |
| `counters_traffic` | two callers, counters of range 3, up to 4 bytes each way; 114,506 states | no byte is lost or counted twice, and a counter is short of its range once for each time it has wrapped around (`Conservation`); every call takes effect at one moment (`AtOnce`) |
| `at_reads` | a stream of 9 bytes, 3 to a read, 5 kept, a block of 4 enlarged by 3, an array of 5 and one; 554,728 states | verdicts are right for what was received (`Judged`), a collecting call hands over all of it in order, in a buffer with room for a zero that is the caller's, but for the losses described under `AtCmd` and never terminated by the call (`HandedOver`), every call is one exchange of `AtExchange` (`Exchange`), and the search for a text ends in bounded time (`TypeOK`) |
| `sms_dialogue` | 5 calls; 423,533 states | success is reported only for what was done (`SendTrue`, `DeleteTrue`), texts reach only a modem that waits for one (`NoSpill`), the modem is not left in text entry (`CommandMode`) |
| `multiselect_widget` | two options, a group, three configurations, 2 edits or calls by the page; 132,040 states | rows, boxes, caption and search are right whenever they are not known to be behind; in lists of checkboxes clicks without shift and keys on rows and headers spare disabled and hidden options, select-all and the reset row those they have to (`SparedUntouched`) |
| `multiselect_knockout` | two options, checkboxes or radio buttons, 2 changes by the view model, 2 timers of a kind; 152,330 states | when all timers have fired rows, select, view model and enabled state agree; if changes stop, the page comes to rest (`Settles`) |

The bounds. A range of 3 and updates of 1 or 2 bytes make a counter wrap around
with and without remainder. Two commands and one tolerated failure are the smallest
values at which commands are skipped after a failure, `cmd_Reg` is not the only
command, and the task both retries and gives up; the theorems of section 4 remove the
bound. Two clients are enough for every overlap of two calls with the task. The
liveness of a component is checked with that component's own constants from the code
(`pppos_single`, and the ten retries of `firmware_time`). `DisconnectHolds` and `RequestServed` are
checked with one client because two that disconnect at the same time overwrite each
other's request in `do_pppos_connect`. `pppos_single` leaves out `setup`
faults and the radio calls, with which the properties fail as described below. Deadlock
is not checked where the system may stop: without a client task and with every client
inside a call that waits for one, or when the bound on calls is reached.

In `at_reads` a text of two bytes lies within one read, across two, or across the end of
what is kept; nine bytes make the block grow twice, so that the second time may fail; an
array may begin one or two words behind the pointer, where a zero written after the first or
second read hits it, or elsewhere; a
time-out of two rounds lets a call end by verdict or by time-out after one read or two. The
theorems hold for the code's 256 and 512 bytes. A collecting call ends
only when the modem falls silent; the search for a text counts every read.

Five calls are the first number at which, without the exception for a modem that is
behind, each of `SendTrue`, `DeleteTrue` and `NoSpill` fails: two calls that time out leave
answers under way that the next ones take for theirs.

On the page, one option is in a group and the other stands behind it without
belonging to it (which is where the code's `nextUntil` and the real group differ); a
second content has lost the group and its option, so that every handler meets a row
without an option. The text matches one option and is the value of the other. The
configurations are a grouped list with a search, a folding list with a reset row, and
radio buttons with a disabled text; `NumberDisplayed` 1 makes "all" and "count" different
from "list". Two calls are enough for an edit followed by any method and for two
rebuilds, after which `MoreHandlers` repeats with period 2: what an even and an odd
number of handlers do to a box is all that differs. `MCSpec` starts with a disabled
select only where the caption tells and with disabled options only in a radio list (edits and
`dataprovider` disable others); `CallsBound` leaves what follows the second call in a
list with a search to the other configurations; `MCKoInit` starts with the button enabled
and, of the two selects with one option, with one; in `MCKoNext` the view model uses `enable`
only for radio lists. The bound select has all three
contents of two options, so that a row without an option comes before and after one that
has it. Each of these cuts the number of states and no action, and none is made in the proofs.

Fairness. `FairSpec` of `Pppos` assumes that the scheduler runs tasks that can run and
that clients poll (FreeRTOS, delays in every loop), that the modem answers `ATH` in the
end (the code repeats it without limit), that LCP ends a close that the peer does not
confirm, and that a negotiation ends one way or the other (both are timers of
lwIP). It does not assume that links come up. `GoodNetwork`, the premise of `InitReturns`, says that a network
asked for ever does not refuse for ever, and that a poll every 10 ms sees a link that
comes up again and again; both are assumptions on the world, and no other property
needs them. For `gprs_task` only its own scheduling is assumed. For the binding it is
assumed that timers and rate limits run out and that a click reaches all its handlers,
which the browser's event loop guarantees; user and view model need do nothing.

Violated, each a claim of a comment that the code does not keep (section `findings` of
`PROJECT.json`):

| Run | Claim | What happens |
|---|---|---|
| `connected_is_up` | `CONNECTED` means connected (libGSM.h:71) | after an authentication failure or a dead peer the callback only logs |
| `rf_reconnect` | the task ends on request (libGSM.h:46) | after `gsm_RFOn` the registration query has a time-out of 0 and always fails |
| `multiselect_visible` | select-all affects only visible options (bootstrap-multiselect.js:1376) | the search box is one of the inputs `selectAll` looks at: the option whose value is typed there is selected, hidden or not |
| `multiselect_unbound` | `destroy` unbinds the whole plugin (bootstrap-multiselect.js:1195) | a timer the binding set earlier calls a method on the select, and the plugin creates a new widget |

What the models show in passing, or the code says plainly, and no run is spent on:

- `ppposDisconnect` called in state `IDLE` returns at once (764). `IDLE` is also the state
  while the task dials, so the link may come up after the caller asked for none.
- For the same reason `gsm_RFOff`, `gsm_RFOn` and the SMS calls may use the UART while the
  task initialises the modem (828).
- `ppposDisconnect` without a client task waits for ever (775): `RequestServed` has this
  case as its exception.
- A task whose set-up fails at once is gone before `ppposInit` has seen it start (737), and
  the call waits for ever: `pppos_single` leaves `setup` faults out.
- When the link is down at line 70 and up at line 73 of `internet.c`, the task reports
  success without a time. `TimeSetOrFlap` shows that this is the only way to it.
- The exit path leaves `ppp` set to the block it frees (707; value `freed`), and a later task
  that fails before line 589 frees it again. `PcbLive` shows that no other use of it is
  possible.
- The search for a text judges at the first 10 ms of silence (383): when only the echo of
  the command or the first part of an answer has come by then, the verdict is 0, and the rest
  is left to the next exchange.
- The zero that should end a collected answer is written to `response[tot]` (359), beside the
  caller's pointer, and not to the buffer, for which `Room` leaves a byte. `smsRead` then uses as a
  string a block that ends with what `malloc` left there; the arrays of `gsm_RFOff` and
  `gsm_RFOn` are terminated by the zeros they began with, and may lose bytes of the answer to
  the misplaced ones. `Whole` and `Terminated` say that this is all.
- When `realloc` fails after it has moved the block, the caller frees the old block again.
  `CallerOwns` shows that this is the only way to a stale pointer. `gsm_RFOff` and `gsm_RFOn`
  pass an array (833, 857) that must not be enlarged at all, and is when the modem sends 63
  bytes.
- `smsSend` without memory for its message leaves the modem in text entry (898), and
  since no other call sends an escape first, every later one fails. `CommandMode` shows that
  this is the only way to it.

## 4. What is proved

`PpposProofs` proves, for every set of clients, every length of the command table,
every retry limit and every choice of calls and faults (the named assumptions of
`Pppos`):

- `TypeCorrect`, `LinkIsOwned`, `ConnectedIsServed`, `PcbIsLive`, `OneTaskOnly`,
  `InitIsComplete`: the safety properties of the run `pppos_safety`;
- `ServedDisconnectHolds`, with one client: `DisconnectHolds`. `OneClient` adds to `IInv`
  what `do_pppos_connect = 0` means when no request has just been posted;
- `Implements`: `Spec => Abstract`, so the client implements `PpposStatus`.

None of the properties is inductive. That the task never closes a link it does not
own, for example, depends on the state being `DISCONNECTED` only while the phase is
`dead`, which depends on the phase being anything else only while the task serves.
`IInv` collects what is needed, one conjunct per idea: `StatusByLabel` (what has been
reported at each label), `StatusByPhase` (what is reported in each phase of the link),
`PcbByLabel` (where the control block must exist), `InitProgress` (the commands before
the current one are skipped, and skipped ones were accepted) and `Creation` (who may
create the task, and when). `NextInv` goes through the actions, `Invariance` gives
`[]IInv`, and each property follows from `IInv` alone. The refinement is a step
simulation under `IInv`: `TaskStepSim`, `LinkStepSim`, and `ClientStepSim` for the
calls, which only stutter.

`GprsTaskProofs` proves `TypeOK`, `TimeSetOrFlap`, `FullBudget` and `SntpBalanced` for every
retry count. The inductive part is `Progress`: the count of retries equals the count of
waits, or is one ahead while a wait is under way.

`FirmwareProofs` proves `RunsOnClient`: `System => OnClient`, for any clients, calls, faults,
commands and retries. The client keeps its `IInv` (`ClientInvariance`) since every step of the
firmware is one of the client or leaves it alone, so `NextSim` of `PpposProofs` gives what
the state and the link do. New is `AnswerFits`: an answer of 0 finds the task at a label where
the state is `FIRSTINIT`, an answer of 1 comes in state `CONNECTED`. `HoldsOnClient` draws the conclusion: the
four properties of `gprs_task` hold with the code of the client under it. `Same...` say that
`PpposProofs` is about the client of `Firmware`: the prover knows no two instances to be one.

`PpposCountersProofs` proves its types, `Conservation` and `Snapshot` (which the run has no need
of, since it is part of `AtOnce`) for any callers, width and bound. `Conservation` alone says nothing of a value that was loaded
and not yet stored back; the invariant adds `Exclusive` (inside the section exactly
while holding the mutex), `PathOfOperation` (which operation leads to which label) and
`ReadsAreFresh` (what was read is still there): only while the register of an addition is still
the counter do a sum and its carry account for the bytes added (`Division`, `Distribution` and
`NothingShort` are the arithmetic, with the width as a parameter). `Implements` is `Spec => AtOnce`. The step that counts is the store of a sum,
the second read, or the first of two clears; the others are unseen. It needs two more
invariants: while a clear is half done the counter cleared first is still 0 (`HalfCleared`), and
who is about to clear is in a call that clears (`Calling`). That an adder's register is still
the counter (`ReadsAreFresh`) makes its store an addition.

`AtCmdProofs` proves the properties of `at_reads` for blocks, arrays, layouts, time-outs,
texts and streams of any size, as long as an enlargement is not smaller than a read
(`SizesAssumption`; 512 and 256 in the code). `Stored` says that the bytes a search has stored
are an interval of the stream, which makes a search in them a search in what was received;
`Pointers` adds to `CallerOwns` that a block is moved only when it grows and that an array is
either untouched or wild. `CollectionIsWhole` is `Spec => []HandedOver`. It rests on the words
set to null being recorded when they are written, and on nothing but such a word and a bad
`realloc` reaching the bytes already stored. `Implements` is
`Spec => Exchange`: a read is not seen, and each way out of the two loops is one of `Judge`,
`Collect` and `GiveUp` on all that has come (`DecideJudges`, `CollectGivesUp`, `CountGivesUp`),
because a call that ends in silence has read everything. `NothingLeft` states that alone.

`SmsProofs` proves all five properties of `sms_dialogue` for any number of calls. `Closed` says
that of the lines under way every one that opens a text is followed by one that ends it;
it holds whenever `smsSend` does not wait for the prompt, and gives `CommandMode`. `InStep`
says that in a call to a modem that was not behind there is one thing under way, the
line of the exchange or its answer, and that a wanted answer means what it should; it
gives what the calls report. `BodyFirst` gives `NoSpill` also after the call has ended.

`MultiselectProofs` proves the five invariants of `multiselect_widget` and `SparedUntouched`
(from the fact that rows the search hides are out of sight) for any options, groups, contents, configurations, texts and number of calls. The
invariant is their conjunction with two facts: the rows the search hides are among those
out of sight, and a click that still has handlers to run is one on a row of checkboxes
that is in the list. `FilterRight` is strengthened to `SearchInv`: the hidden rows are those of
the query, a search under way is for the text in the box, and without one the query is
that text. The proof has one lemma per handler or method and treats what the
handlers have in common (`Settle`, `Abort`, `Changed`, `SetAll`) once.

Those five speak of copies that are not in `loose`. `PlainRows` and `PlainCaption` speak of a
page without exceptions: lists without search, groups and folding, whose options nobody
edits behind the widget's back, as the one list of this repository is
(`html/index.html` 35, created with default options by `html/sh_z_001.js` 9 and 25). There
boxes are exactly the selection after every handler and method (`RowsInStep`), and if the
page does not call `selectAll` or `deselectAll` either, the caption is the right one
(`CaptionInStep`). The main step is that no click, not even one with shift, can reach a
row without an option (`PlainSweep`). The hypotheses `PlainPage` and `QuietPage` are about the
constants `Configs` and `Calls` alone.

`MultiselectKnockoutProofs` proves the four invariants of `multiselect_knockout` for any
page (without the search, groups and reset row that the module leaves out), any bound of two
or more on timers and any number of changes. The widget keeps its invariant when
timers call its methods, also on a select that has no widget any more. On top of it
`KoInv` says what is still owed: rows that are not those of the select await a rebuild
(`RebuildDue`), boxes that are not as selected a timer or a rate limit (`RefreshDue`), and
the last call of `enable` or `disable` that waits is for what the view model says
(`SettingDue`). With nothing pending, nothing is owed.

Only model-checked: liveness (`LossAnswered`, `RequestServed`, `InitReturns`, `Decides`,
`Settles`), which is beyond the prover. Every safety property of a passing run is proved.

## 5. Plan

1. done: `PpposStatus`, `Pppos`, `GprsTask`, with their proofs;
2. done: `PpposCounters`, with its proofs;
3. done: `Multiselect` and `MultiselectKnockout`, with their proofs;
4. done: `Sms`, with its proofs;
5. done: `AtCmd`, with its proofs;
6. done: `Firmware`, `TrafficMeter` and `AtExchange`, with the proofs that `GprsTask`,
   `TrafficMeter` and `AtExchange` are implemented;
7. proofs of the safety parts of the liveness properties, and of what `refresh` and
   `rebuild` repair whatever was left behind;
8. `PpposStart`: two tasks that call `ppposInit` at once, a failing `xTaskCreate`, the
   mutex's time-out;
9. if the tasks are started again: `WifiAp` (the event group, the start-up order with
   `webserver_task`, credentials in NVS with a crash between two writes) and `Captdns`.

## 6. Not modelled

Of the widget: the methods `setAllSelectedText`, which changes one of the texts of the caption
and rewrites it, and `updateOriginalOptions`, which sets a copy nothing reads; markup,
templates and styles, dividers, the movement of the focus, the page's callbacks and
`triggerOnChange`, shift+click on headers and on the select-all row, rows without a
label, and a select that has the select-all value among its own options.
Search, groups and the reset row are left out of `MultiselectKnockout`, since they
do not touch the select or, for the reset row, raise no event.

Of the SMS calls: parsing and sorting of the list that `smsRead` returns. From the second
message on the code scales its index by the size of a message twice (1038, 1059, 1081), so
that there is no defined result to compare with a sorted sequence.

The Wi-Fi access point, the web server and the captive DNS responder are not started by
`app_main` at this commit. RTC, display and start-up are straight-line set-up without
behaviour worth a model. The other libraries under `html/` are third-party code, and
`build/`, `sdkconfig*` and the make files are generated or declarative. The byte contents of
PPP, SPI and I2C transfers and log texts are abstracted away. lwIP, FreeRTOS, the modem,
the network, the browser, jQuery, Bootstrap and Knockout are environment, modelled from
how this code uses them.
