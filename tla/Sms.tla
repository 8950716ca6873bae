-------------------------------- MODULE Sms --------------------------------
(***************************************************************************)
(* smsSend, smsDelete and smsRead of libGSM.c and the modem they talk to.  *)
(* A call is a chain of exchanges: atCmd_waitResponse discards what was    *)
(* received, writes a line and looks for a text in what comes back until   *)
(* the modem falls silent or the time is over.  An answer that comes too   *)
(* late is still under way when the next exchange begins.  The modem       *)
(* handles lines in order; after AT+CMGS it takes every line for the text  *)
(* of a message until one ends or cancels it.                              *)
(*                                                                         *)
(* One task makes the calls and nobody else uses the UART.  An answer      *)
(* arrives as a whole: its parts do not come more than 10 ms apart.        *)
(***************************************************************************)
EXTENDS Naturals, Sequences

CONSTANT MaxCalls       \* bound on the calls made
ASSUME CallsAssumption == MaxCalls \in Nat

VARIABLES
  pc, op, calls,    \* the exchange a call is in, the call, the calls made
  rx,               \* the answers received since the line was written
  input, output,    \* lines and answers under way, in order
  mode, text,       \* the modem: "command" or "text", and the text so far
  result,           \* what the last call returned
  sent, deleted,    \* history: messages sent, calls whose message was deleted
  behind, nomem     \* history: a line or an answer was under way when the call
                    \* began; a message buffer could not be allocated

task == <<pc, op, calls, result, behind, nomem>>
modem == <<mode, text, sent, deleted>>
vars == <<task, rx, input, output, modem>>

Ops == {"send", "delete", "read"}
Exchanges == {"cfun", "cmgf", "cmgs", "body", "esc", "cmgd", "cmgl"}
Lines == [kind : Exchanges, call : 1..MaxCalls]
Answers == {"cfun", "ok", "prompt", "cmgs", "list", "error"}
Ends == {"body", "esc"}         \* the lines that end a message

WantedWrong(k) == Answers
\* The answers that contain the text an exchange looks for: all of the modem's
\* answers but the prompt and the error end with OK.
Wanted(k) ==
  CASE k = "cfun" -> {"cfun"}
    [] k = "cmgs" -> {"prompt"}
    [] k = "body" -> {"cmgs"}
    [] k = "cmgl" -> {"list"}
    [] OTHER -> {"cfun", "ok", "cmgs", "list"}
Found == \E i \in DOMAIN rx : rx[i] \in Wanted(pc)

Init ==
  /\ pc = "ready" /\ op = "read" /\ calls = 0 /\ result = FALSE
  /\ rx = <<>> /\ input = <<>> /\ output = <<>>
  /\ mode = "command" /\ text = <<>> /\ sent = {} /\ deleted = {}
  /\ behind = FALSE /\ nomem = FALSE

----------------------------------------------------------------------------
(* The calls. *)

\* An exchange begins: uart_flush, then the line.
Write(k) ==
  /\ pc' = k /\ rx' = <<>>
  /\ input' = Append(input, [kind |-> k, call |-> calls'])
  /\ UNCHANGED result
Return(v) == pc' = "ready" /\ result' = v /\ UNCHANGED <<rx, input>>

\* sms_ready, which gives up at once while the state is not IDLE.
Call(o) ==
  /\ pc = "ready" /\ calls < MaxCalls
  /\ calls' = calls + 1 /\ op' = o
  /\ behind' = (input # <<>> \/ output # <<>>)
  /\ Write("cfun") \/ Return(FALSE)
  /\ UNCHANGED <<output, modem, nomem>>

Ongoing == UNCHANGED <<op, calls, behind, output, modem>>
Ready ==
  /\ pc = "cfun" /\ Ongoing
  /\ IF Found THEN Write("cmgf") ELSE Return(FALSE)
  /\ UNCHANGED nomem

RequestWrong(o) == IF o = "send" THEN "cmgs" ELSE "cmgd"
Request(o) == CASE o = "send" -> "cmgs" [] o = "delete" -> "cmgd" [] o = "read" -> "cmgl"
\* smsRead returns with nothing when it finds no memory, before and after its
\* exchange.
Formatted ==
  /\ pc = "cmgf" /\ Ongoing
  /\ \/ Found /\ Write(Request(op))
     \/ (~Found \/ op = "read") /\ Return(FALSE)
  /\ UNCHANGED nomem

CancelWrong == Return(FALSE)
\* What follows an exchange that did not end as hoped: the text entry is left.
Cancel == Write("esc")
\* smsSend has waited for the prompt.  Without a buffer for the message it
\* returns and leaves the modem where it is.
Prompted ==
  /\ pc = "cmgs" /\ Ongoing
  /\ \/ Found /\ Write("body") /\ UNCHANGED nomem
     \/ Found /\ Return(FALSE) /\ nomem' = TRUE
     \/ ~Found /\ Cancel /\ UNCHANGED nomem
Answered ==
  /\ pc = "body" /\ Ongoing
  /\ IF Found THEN Return(TRUE) ELSE Cancel
  /\ UNCHANGED nomem
Cancelled ==
  /\ pc = "esc" /\ Ongoing /\ Return(FALSE) /\ UNCHANGED nomem
Done ==
  /\ pc \in {"cmgd", "cmgl"} /\ Ongoing
  /\ Return(Found) \/ (pc = "cmgl" /\ Return(FALSE))
  /\ UNCHANGED nomem

----------------------------------------------------------------------------
(* The modem. *)

Says(a) == output' = Append(output, a)
Takes(line) == input # <<>> /\ line = Head(input) /\ input' = Tail(input)

\* A line becomes part of the text, and the modem prompts for more; or it ends
\* the text, which is sent or refused; or it cancels the text.
TextLine(line) ==
  /\ mode = "text" /\ Takes(line)
  /\ \/ /\ line.kind \notin Ends
        /\ text' = Append(text, line) /\ Says("prompt") /\ UNCHANGED <<mode, sent>>
     \/ /\ line.kind = "body" /\ mode' = "command" /\ text' = <<>>
        /\ \/ sent' = sent \cup {Append(text, line)} /\ Says("cmgs")
           \/ Says("error") /\ UNCHANGED sent
     \/ /\ line.kind = "esc" /\ mode' = "command" /\ text' = <<>>
        /\ Says("ok") /\ UNCHANGED sent
  /\ UNCHANGED <<task, rx, deleted>>

\* A command is carried out or refused; what is no command is an error, and an
\* escape is nothing.
CommandLine(line) ==
  /\ mode = "command" /\ Takes(line)
  /\ \/ /\ line.kind = "cmgs" /\ mode' = "text" /\ Says("prompt")
        /\ UNCHANGED deleted
     \/ /\ line.kind = "cmgd" /\ deleted' = deleted \cup {line.call} /\ Says("ok")
        /\ UNCHANGED mode
     \/ /\ \/ line.kind = "cfun" /\ Says("cfun")
           \/ line.kind = "cmgl" /\ Says("list")
           \/ line.kind \in {"cfun", "cmgf", "cmgl"} /\ Says("ok")
           \/ line.kind # "esc" /\ Says("error")
           \/ line.kind = "esc" /\ UNCHANGED output
        /\ UNCHANGED <<mode, deleted>>
  /\ UNCHANGED <<task, rx, text, sent>>

\* What arrives between two calls is discarded by the next exchange.
Arrive ==
  /\ output # <<>>
  /\ rx' = (IF pc = "ready" THEN rx ELSE Append(rx, Head(output)))
  /\ output' = Tail(output)
  /\ UNCHANGED <<task, input, modem>>

Next ==
  \/ \E o \in Ops : Call(o)
  \/ Ready \/ Formatted \/ Prompted \/ Answered \/ Cancelled \/ Done
  \/ \E line \in Lines : TextLine(line) \/ CommandLine(line)
  \/ Arrive
Spec == Init /\ [][Next]_vars

----------------------------------------------------------------------------
(* Properties. *)

CallOf ==
  [k \in Exchanges |-> CASE k \in {"cmgs", "body", "esc"} -> {"send"}
                         [] k = "cmgd" -> {"delete"}
                         [] k = "cmgl" -> {"read"}
                         [] OTHER -> Ops]
\* Everything has its type, and every exchange belongs to the call under way: no
\* call but smsDelete asks the modem to delete a message.
TypeOK ==
  /\ pc \in Exchanges \cup {"ready"} /\ op \in Ops /\ calls \in 0..MaxCalls
  /\ pc # "ready" => op \in CallOf[pc] /\ calls > 0
  /\ rx \in Seq(Answers) /\ output \in Seq(Answers)
  /\ input \in Seq(Lines) /\ text \in Seq(Lines)
  /\ mode \in {"command", "text"} /\ result \in BOOLEAN
  /\ sent \subseteq Seq(Lines) /\ deleted \subseteq 1..MaxCalls
  /\ behind \in BOOLEAN /\ nomem \in BOOLEAN

Returned(o) == pc = "ready" /\ op = o /\ result

\* When smsSend reports success, exactly its message has been sent, without the
\* commands of a call before it.  Answers that are late by a whole call are not
\* told from those to this call, which atCmd_waitResponse cannot do.
SendTrue ==
  Returned("send") /\ ~behind => <<[kind |-> "body", call |-> calls]>> \in sent

\* When smsDelete reports success, its message has been deleted.
DeleteTrue == Returned("delete") /\ ~behind => calls \in deleted

\* The text of a message is never handed to a modem that reads commands, unless
\* the modem was behind when the call began.
NoSpill ==
  input # <<>> /\ Head(input).kind = "body" /\ ~behind => mode = "text"

\* When no call is under way and the modem has read everything, it reads
\* commands: no call leaves it in text entry, where every later command would be
\* taken for text, except one that found no memory for its message.
CommandMode == pc = "ready" /\ input = <<>> /\ mode = "text" => nomem
=============================================================================
