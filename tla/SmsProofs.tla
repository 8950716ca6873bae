----------------------------- MODULE SmsProofs -----------------------------
(***************************************************************************)
(* The properties of the SMS calls, for any number of them.                *)
(***************************************************************************)
EXTENDS Sms, TLAPS

\* A line that ends a text is under way, at position k or behind it.
EndFrom(k) == \E j \in DOMAIN input : k <= j /\ input[j].kind \in Ends

\* Whatever the modem makes of the lines under way, it reads commands when it
\* has read them all: the text it is in ends, and so does every text begun.
Closed ==
  /\ mode = "text" => EndFrom(1)
  /\ \A i \in DOMAIN input : input[i].kind = "cmgs" => EndFrom(i)

\* Only while smsSend waits for the prompt may a text be open.
LeftClosed == Closed \/ nomem \/ pc = "cmgs"

Here == [kind |-> pc, call |-> calls]

\* The modem's mode when the line of the exchange reaches it.
Asked ==
  /\ pc \in {"cmgf", "cmgs", "cmgd", "cmgl"} => mode = "command"
  /\ pc = "body" => mode = "text" /\ text = <<>>

\* What the answer a means for the exchange.
Meant(a) ==
  a \in Wanted(pc) =>
    /\ pc \in {"cfun", "cmgf"} => mode = "command"
    /\ pc = "cmgs" => mode = "text" /\ text = <<>>
    /\ pc = "body" => <<Here>> \in sent
    /\ pc = "cmgd" => calls \in deleted

\* The line is under way, or its answer is, or the answer is here, and nothing
\* else.
OneAtATime ==
  \/ input = <<Here>> /\ output = <<>> /\ rx = <<>> /\ Asked
  \/ /\ input = <<>>
     /\ \E a \in Answers :
          /\ Meant(a)
          /\ \/ output = <<a>> /\ rx = <<>>
             \/ output = <<>> /\ rx = <<a>>

\* A call to a modem that was not behind keeps in step with it, until it cancels.
InStep == ~behind /\ pc \notin {"ready", "esc"} => OneAtATime

\* The text of a message is first in line, and the modem waits for it.
BodyFirst ==
  ~behind => \A i \in DOMAIN input :
               input[i].kind = "body" => i = 1 /\ mode = "text"

IInv ==
  /\ TypeOK
  /\ mode = "command" => text = <<>>
  /\ LeftClosed /\ InStep /\ BodyFirst
  /\ SendTrue /\ DeleteTrue

----------------------------------------------------------------------------

\* The invariant holds of a modem that reads commands and has nothing to do.
THEOREM InitInv == Init => IInv
<1> SUFFICES ASSUME Init PROVE IInv
  OBVIOUS
<1>1. TypeOK
  <2>1. rx \in Seq(Answers) /\ output \in Seq(Answers)
        /\ input \in Seq(Lines) /\ text \in Seq(Lines)
    BY DEF Init
  <2>2. calls \in 0..MaxCalls
    BY CallsAssumption DEF Init
  <2> QED
    BY <2>1, <2>2 DEF Init, TypeOK, Ops
<1>2. LeftClosed /\ InStep /\ BodyFirst
  BY DEF Init, LeftClosed, Closed, InStep, BodyFirst
<1> QED
  BY <1>1, <1>2 DEF IInv, Init, SendTrue, DeleteTrue, Returned

\* A step of a call keeps the types.
LEMMA CallTypes ==
  ASSUME TypeOK,
         \/ \E o \in Ops : Call(o)
         \/ Ready \/ Formatted \/ Prompted \/ Answered \/ Cancelled \/ Done
  PROVE  TypeOK'
<1> USE CallsAssumption DEF TypeOK
<1>1. ASSUME NEW k \in Exchanges, Write(k), calls' \in 1..MaxCalls, op' \in CallOf[k],
             UNCHANGED <<output, modem>>, op' \in Ops, behind' \in BOOLEAN, nomem' \in BOOLEAN
      PROVE  TypeOK'
  <2>1. [kind |-> k, call |-> calls'] \in Lines
    BY <1>1 DEF Lines
  <2>2. input' \in Seq(Lines)
    BY <1>1, <2>1 DEF Write
  <2> QED
    BY <1>1, <2>2 DEF Write, modem
<1>2. ASSUME NEW v \in BOOLEAN, Return(v), calls' \in 0..MaxCalls,
             UNCHANGED <<output, modem>>, op' \in Ops, behind' \in BOOLEAN, nomem' \in BOOLEAN
      PROVE  TypeOK'
  BY <1>2 DEF Return, modem
<1>3. CASE \E o \in Ops : Call(o)
  <2> PICK o \in Ops : Call(o)
    BY <1>3
  <2>1. calls' \in 1..MaxCalls
    BY DEF Call
  <2>2. CASE Write("cfun")
    BY <1>1, <2>1, <2>2 DEF Call, Exchanges, CallOf
  <2>3. CASE Return(FALSE)
    <3>1. calls' \in 0..MaxCalls /\ op' \in Ops /\ nomem' \in BOOLEAN
      BY <2>1 DEF Call
    <3>2. behind' \in BOOLEAN /\ UNCHANGED <<output, modem>>
      BY DEF Call
    <3> QED
      BY <1>2, <2>3, <3>1, <3>2
  <2> QED
    BY <2>2, <2>3 DEF Call
<1>4. pc # "ready" => calls \in 1..MaxCalls
  OBVIOUS
<1>5. CASE Ready
  BY <1>1, <1>2, <1>4, <1>5 DEF Ready, Ongoing, Exchanges, CallOf
<1>6. CASE Formatted
  BY <1>1, <1>2, <1>4, <1>6 DEF Formatted, Ongoing, Request, Exchanges, CallOf, Ops
<1>7. CASE Prompted
  BY <1>1, <1>2, <1>4, <1>7 DEF Prompted, Ongoing, Cancel, Exchanges, CallOf
<1>8. CASE Answered
  BY <1>1, <1>2, <1>4, <1>8 DEF Answered, Ongoing, Cancel, Exchanges, CallOf
<1>9. CASE Cancelled
  BY <1>2, <1>4, <1>9 DEF Cancelled, Ongoing
<1>10. CASE Done
  BY <1>2, <1>4, <1>10 DEF Done, Ongoing, Found
<1> QED
  BY <1>3, <1>5, <1>6, <1>7, <1>8, <1>9, <1>10

\* So does a step of the modem.
LEMMA ModemTypes ==
  ASSUME TypeOK,
         Arrive \/ \E line \in Lines : TextLine(line) \/ CommandLine(line)
  PROVE  TypeOK'
<1> USE DEF TypeOK
<1>1. ASSUME NEW line \in Lines, Takes(line)
      PROVE  input' \in Seq(Lines) /\ Append(text, line) \in Seq(Lines)
  BY <1>1 DEF Takes
<1>2. ASSUME NEW a \in Answers, Says(a) PROVE output' \in Seq(Answers)
  BY <1>2 DEF Says
<1>3. ASSUME NEW line \in Lines, TextLine(line) PROVE TypeOK'
  <2>1. input' \in Seq(Lines) /\ output' \in Seq(Answers)
    BY <1>1, <1>2, <1>3 DEF TextLine, Answers
  <2>2. text' \in Seq(Lines) /\ sent' \subseteq Seq(Lines)
    <3>1. <<>> \in Seq(Lines) /\ Append(text, line) \in Seq(Lines)
      BY <1>1, <1>3 DEF TextLine
    <3>2. text' \in {<<>>, Append(text, line)}
      BY <1>3 DEF TextLine
    <3>3. sent' \in {sent, sent \cup {Append(text, line)}}
      BY <1>3 DEF TextLine
    <3> QED
      BY <3>1, <3>2, <3>3
  <2>3. mode' \in {"command", "text"} /\ UNCHANGED <<task, rx, deleted>>
    BY <1>3 DEF TextLine
  <2> QED
    BY <2>1, <2>2, <2>3 DEF task
<1>4. ASSUME NEW line \in Lines, CommandLine(line) PROVE TypeOK'
  <2>1. line.call \in 1..MaxCalls
    BY DEF Lines
  <2> QED
    BY <1>1, <1>2, <1>4, <2>1 DEF CommandLine, task, Answers
<1>5. CASE Arrive
  <2>1. Head(output) \in Answers /\ output' \in Seq(Answers)
    BY <1>5 DEF Arrive
  <2>2. rx' \in Seq(Answers)
    BY <1>5, <2>1 DEF Arrive
  <2>3. UNCHANGED <<task, input, modem>>
    BY <1>5 DEF Arrive
  <2> QED
    BY <2>1, <2>2, <2>3 DEF task, modem
<1> QED
  BY <1>3, <1>4, <1>5

----------------------------------------------------------------------------

\* An exchange that begins, or a call that returns, leaves nothing open behind.
LEMMA CallCloses ==
  ASSUME IInv, TypeOK',
         \/ \E o \in Ops : Call(o)
         \/ Ready \/ Formatted \/ Prompted \/ Answered \/ Cancelled \/ Done
  PROVE  LeftClosed'
<1> USE DEF IInv
<1>1. ASSUME Closed, UNCHANGED <<input, mode>> PROVE Closed'
  BY <1>1 DEF Closed, EndFrom
<1>2. ASSUME NEW k \in Exchanges, Write(k), UNCHANGED mode, Closed \/ k \in Ends,
             k # "cmgs"
      PROVE  Closed'
  <2> DEFINE n == Len(input)
  <2>1. /\ DOMAIN input = 1..n /\ n \in Nat
        /\ DOMAIN input' = 1..(n + 1)
        /\ \A i \in 1..n : input'[i] = input[i]
        /\ input'[n + 1].kind = k
    BY <1>2 DEF Write, TypeOK
  <2>2. CASE k \in Ends
    BY <1>2, <2>1, <2>2 DEF Closed, EndFrom, Ends
  <2>3. CASE Closed
    BY <1>2, <2>1, <2>3 DEF Closed, EndFrom
  <2> QED
    BY <1>2, <2>2, <2>3
<1>3. CASE \E o \in Ops : Call(o)
  <2>1. UNCHANGED <<mode, nomem>> /\ pc # "cmgs"
    BY <1>3 DEF Call, modem
  <2>2. CASE Write("cfun")
    BY <1>2, <2>1, <2>2 DEF LeftClosed, Exchanges
  <2>3. CASE Return(FALSE)
    BY <1>1, <2>1, <2>3 DEF LeftClosed, Return
  <2> QED
    BY <1>3, <2>2, <2>3 DEF Call
<1>4. CASE Ready
  BY <1>1, <1>2, <1>4 DEF Ready, Ongoing, Return, LeftClosed, Exchanges, modem
<1>5. CASE Formatted
  <2>1. UNCHANGED <<mode, nomem>> /\ pc # "cmgs"
    BY <1>5 DEF Formatted, Ongoing, modem
  <2>2. CASE Write(Request(op))
    <3>1. Request(op) \in Exchanges \ Ends
      BY DEF TypeOK, Ops, Request, Exchanges, Ends
    <3>2. CASE Request(op) = "cmgs"
      BY <2>2, <3>2 DEF Write, LeftClosed
    <3> QED
      BY <1>2, <2>1, <2>2, <3>1, <3>2 DEF LeftClosed
  <2>3. CASE Return(FALSE)
    BY <1>1, <2>1, <2>3 DEF LeftClosed, Return
  <2> QED
    BY <1>5, <2>2, <2>3 DEF Formatted
<1>6. CASE Prompted
  BY <1>2, <1>6 DEF Prompted, Ongoing, Cancel, LeftClosed, Exchanges, Ends, modem
<1>7. CASE Answered
  BY <1>1, <1>2, <1>7 DEF Answered, Ongoing, Cancel, Return, LeftClosed,
     Exchanges, Ends, modem
<1>8. CASE Cancelled \/ Done
  BY <1>1, <1>8 DEF Cancelled, Done, Ongoing, Return, LeftClosed, modem
<1> QED
  BY <1>3, <1>4, <1>5, <1>6, <1>7, <1>8

\* The modem opens and ends texts as the lines under way say.
LEMMA ModemCloses ==
  ASSUME IInv, Arrive \/ \E line \in Lines : TextLine(line) \/ CommandLine(line)
  PROVE  LeftClosed'
<1> USE DEF IInv
<1>2. CASE Arrive
  BY <1>2 DEF Arrive, LeftClosed, Closed, EndFrom, task, modem
<1>3. ASSUME NEW line \in Lines, Takes(line)
      PROVE  /\ DOMAIN input = 1..Len(input) /\ Len(input) \in Nat /\ Len(input) > 0
             /\ input[1] = line
             /\ DOMAIN input' = 1..(Len(input) - 1)
             /\ \A i \in DOMAIN input' : input'[i] = input[i + 1]
  BY <1>3 DEF Takes, TypeOK
<1>4. ASSUME NEW line \in Lines, Takes(line), NEW k \in 1..Len(input), EndFrom(k + 1)
      PROVE  EndFrom(k)'
  <2>1. PICK j \in DOMAIN input : k + 1 <= j /\ input[j].kind \in Ends
    BY <1>4 DEF EndFrom
  <2>2. j - 1 \in DOMAIN input' /\ k <= j - 1 /\ input'[j - 1] = input[j]
    BY <1>3, <1>4, <2>1
  <2> QED
    BY <2>1, <2>2 DEF EndFrom
<1>5. ASSUME NEW line \in Lines, Takes(line), line.kind \notin Ends, EndFrom(1)
      PROVE  EndFrom(1)'
  <2>1. EndFrom(2)
    BY <1>3, <1>5 DEF EndFrom
  <2> QED
    BY <1>3, <1>4, <1>5, <2>1
<1>6. ASSUME NEW line \in Lines, Takes(line), Closed,
             NEW i \in DOMAIN input', input'[i].kind = "cmgs"
      PROVE  EndFrom(i)'
  <2>1. i + 1 \in DOMAIN input /\ input[i + 1].kind = "cmgs" /\ i \in 1..Len(input)
    BY <1>3, <1>6
  <2>2. EndFrom(i + 1)
    BY <1>6, <2>1 DEF Closed
  <2> QED
    BY <1>4, <1>6, <2>1, <2>2
<1>7. ASSUME NEW line \in Lines, TextLine(line), Closed PROVE Closed'
  <2>1. Takes(line) /\ EndFrom(1) /\ (mode' = "text" => line.kind \notin Ends)
    BY <1>7 DEF TextLine, Closed, Ends
  <2> QED
    BY <1>5, <1>6, <1>7, <2>1 DEF Closed
<1>8. ASSUME NEW line \in Lines, CommandLine(line), Closed PROVE Closed'
  <2>1. Takes(line) /\ (mode' = "text" => line.kind = "cmgs")
    BY <1>8 DEF CommandLine
  <2>2. line.kind = "cmgs" => line.kind \notin Ends /\ EndFrom(1)
    BY <1>3, <1>8, <2>1 DEF Closed, Ends
  <2> QED
    BY <1>5, <1>6, <1>8, <2>1, <2>2 DEF Closed
<1> QED
  BY <1>2, <1>7, <1>8 DEF LeftClosed, TextLine, CommandLine, task

\* The first element of a sequence.
LEMMA AppendToNone == \A x : Append(<<>>, x) = <<x>>
  OBVIOUS

\* What has been found is the answer to the line of this exchange.
LEMMA FoundIsMeant ==
  ASSUME InStep, ~behind, pc \notin {"ready", "esc"}, Found
  PROVE  /\ input = <<>> /\ output = <<>>
         /\ pc \in {"cfun", "cmgf"} => mode = "command"
         /\ pc = "cmgs" => mode = "text" /\ text = <<>>
         /\ pc = "body" => <<Here>> \in sent
         /\ pc = "cmgd" => calls \in deleted
<1>1. rx # <<>>
  BY DEF Found
<1>2. PICK a \in Answers : Meant(a) /\ input = <<>> /\ output = <<>> /\ rx = <<a>>
  BY <1>1 DEF InStep, OneAtATime
<1>3. a \in Wanted(pc)
  BY <1>2 DEF Found
<1> QED
  BY <1>2, <1>3 DEF Meant

\* A call that is in step stays so until it cancels, and what it returns is so.
LEMMA CallInStep ==
  ASSUME IInv,
         \/ \E o \in Ops : Call(o)
         \/ Ready \/ Formatted \/ Prompted \/ Answered \/ Cancelled \/ Done
  PROVE  (InStep /\ BodyFirst /\ SendTrue /\ DeleteTrue)'
<1> DEFINE Kept == (InStep /\ BodyFirst /\ SendTrue /\ DeleteTrue)'
<1> USE DEF IInv
<1>1. ASSUME NEW k \in Exchanges \ {"body", "esc"}, Write(k), UNCHANGED <<output, modem>>,
             ~behind' => input = <<>> /\ output = <<>> /\ (k # "cfun" => mode = "command")
      PROVE  Kept
  <2>1. pc' = k /\ rx' = <<>> /\ UNCHANGED <<output, mode, text>>
    BY <1>1 DEF Write, modem
  <2>2. ~behind' => input' = <<Here'>>
    BY <1>1, <2>1 DEF Write, Here
  <2>3. InStep'
    BY <1>1, <2>1, <2>2 DEF InStep, OneAtATime, Asked, Exchanges
  <2>4. BodyFirst'
    BY <2>1, <2>2, <1>1 DEF BodyFirst, Here
  <2> QED
    BY <1>1, <2>1, <2>3, <2>4 DEF SendTrue, DeleteTrue, Returned, Exchanges
<1>2. ASSUME pc' = "ready", UNCHANGED <<input, output, modem>>, ~behind' => ~behind,
             result' /\ ~behind =>
               /\ op' = "send" => <<[kind |-> "body", call |-> calls']>> \in sent
               /\ op' = "delete" => calls' \in deleted
      PROVE  Kept
  <2>1. InStep' /\ BodyFirst'
    BY <1>2 DEF InStep, BodyFirst, modem
  <2>2. SendTrue' /\ DeleteTrue'
    BY <1>2 DEF SendTrue, DeleteTrue, Returned, modem
  <2> QED
    BY <2>1, <2>2
<1>3. ASSUME Write("esc"), UNCHANGED <<output, modem>>, behind' = behind
      PROVE  Kept
  <2>1. ASSUME ~behind, NEW i \in DOMAIN input', input'[i].kind = "body"
        PROVE  i \in DOMAIN input /\ input'[i] = input[i]
    BY <1>3, <2>1 DEF Write, TypeOK
  <2>2. BodyFirst'
    BY <1>3, <2>1 DEF BodyFirst, modem
  <2> QED
    BY <1>3, <2>2 DEF Write, InStep, SendTrue, DeleteTrue, Returned
<1>4. CASE \E o \in Ops : Call(o)
  <2>1. UNCHANGED <<output, modem>> /\ (~behind' => input = <<>> /\ output = <<>>)
    BY <1>4 DEF Call
  <2>2. CASE Write("cfun")
    BY <1>1, <2>1, <2>2 DEF Exchanges
  <2>3. CASE Return(FALSE)
    <3>1. InStep' /\ SendTrue' /\ DeleteTrue'
      BY <2>3 DEF Return, InStep, SendTrue, DeleteTrue, Returned
    <3>2. BodyFirst'
      BY <2>1, <2>3 DEF Return, BodyFirst
    <3> QED
      BY <3>1, <3>2
  <2> QED
    BY <1>4, <2>2, <2>3 DEF Call
<1>5. CASE Ready
  <2>1. UNCHANGED <<output, modem, op, calls, behind>> /\ pc = "cfun"
    BY <1>5 DEF Ready, Ongoing
  <2>2. CASE Found /\ Write("cmgf")
    BY <1>1, <2>1, <2>2, FoundIsMeant DEF Exchanges
  <2>3. CASE Return(FALSE)
    BY <1>2, <2>1, <2>3 DEF Return
  <2> QED
    BY <1>5, <2>2, <2>3 DEF Ready
<1>6. CASE Formatted
  <2>1. UNCHANGED <<output, modem, op, calls, behind>> /\ pc = "cmgf"
    BY <1>6 DEF Formatted, Ongoing
  <2>2. CASE Found /\ Write(Request(op))
    <3>1. Request(op) \in Exchanges \ {"body", "esc"}
      BY DEF TypeOK, Ops, Request, Exchanges
    <3> QED
      BY <1>1, <2>1, <2>2, <3>1, FoundIsMeant
  <2>3. CASE Return(FALSE)
    BY <1>2, <2>1, <2>3 DEF Return
  <2> QED
    BY <1>6, <2>2, <2>3 DEF Formatted
<1>7. CASE Prompted
  <2>1. UNCHANGED <<output, modem, op, calls, behind>> /\ pc = "cmgs"
    BY <1>7 DEF Prompted, Ongoing
  <2>2. CASE Found /\ Write("body")
    <3>1. ~behind => input = <<>> /\ output = <<>> /\ mode = "text" /\ text = <<>>
      BY <2>1, <2>2, FoundIsMeant
    <3>2. pc' = "body" /\ rx' = <<>> /\ (~behind => input' = <<Here'>>)
      <4>1. pc' = "body" /\ rx' = <<>>
            /\ input' = Append(input, [kind |-> "body", call |-> calls'])
        BY <2>2 DEF Write
      <4> QED
        BY <3>1, <4>1, AppendToNone DEF Here
    <3>3. UNCHANGED <<output, mode, text, behind>>
      BY <2>1 DEF modem
    <3>4. InStep'
      BY <3>1, <3>2, <3>3 DEF InStep, OneAtATime, Asked
    <3>5. BodyFirst'
      BY <3>1, <3>2, <3>3 DEF BodyFirst
    <3> QED
      BY <3>2, <3>4, <3>5 DEF SendTrue, DeleteTrue, Returned
  <2>3. CASE Return(FALSE)
    BY <1>2, <2>1, <2>3 DEF Return
  <2>4. CASE Cancel
    BY <1>3, <2>1, <2>4 DEF Cancel
  <2> QED
    BY <1>7, <2>2, <2>3, <2>4 DEF Prompted
<1>8. CASE Answered
  <2>1. UNCHANGED <<output, modem, op, calls, behind>> /\ pc = "body" /\ op = "send"
    BY <1>8 DEF Answered, Ongoing, TypeOK, CallOf, Exchanges
  <2>2. CASE Found /\ Return(TRUE)
    BY <1>2, <2>1, <2>2, FoundIsMeant DEF Here, Return
  <2>3. CASE Cancel
    BY <1>3, <2>1, <2>3 DEF Cancel
  <2> QED
    BY <1>8, <2>2, <2>3 DEF Answered
<1>9. CASE Cancelled
  BY <1>2, <1>9 DEF Cancelled, Ongoing, Return
<1>10. CASE Done
  <2>1. UNCHANGED <<output, modem, op, calls, behind>> /\ (Return(Found) \/ Return(FALSE))
    BY <1>10 DEF Done, Ongoing
  <2>2. (pc = "cmgd" /\ op = "delete") \/ (pc = "cmgl" /\ op = "read")
    <3>1. pc \in {"cmgd", "cmgl"} /\ op \in CallOf[pc]
      BY <1>10 DEF Done, TypeOK
    <3>2. CallOf["cmgd"] = {"delete"} /\ CallOf["cmgl"] = {"read"}
      BY DEF CallOf, Exchanges
    <3> QED
      BY <3>1, <3>2
  <2>3. pc' = "ready" /\ UNCHANGED input /\ (result' => Found)
    BY <2>1 DEF Return
  <2>4. Found /\ ~behind /\ op' = "delete" => calls' \in deleted
    BY <2>1, <2>2, FoundIsMeant
  <2> QED
    BY <1>2, <2>1, <2>2, <2>3, <2>4
<1> QED
  BY <1>4, <1>5, <1>6, <1>7, <1>8, <1>9, <1>10

\* The modem answers one line at a time, and its answer means what it did.
LEMMA ModemInStep ==
  ASSUME IInv, Arrive \/ \E line \in Lines : TextLine(line) \/ CommandLine(line)
  PROVE  (InStep /\ BodyFirst /\ SendTrue /\ DeleteTrue)'
<1> USE DEF IInv
<1>1. UNCHANGED task /\ sent \subseteq sent' /\ deleted \subseteq deleted'
  BY DEF Arrive, TextLine, CommandLine, modem
<1>2. SendTrue' /\ DeleteTrue'
  BY <1>1 DEF SendTrue, DeleteTrue, Returned, task
<1>3. BodyFirst'
  <2>1. CASE Arrive
    BY <2>1 DEF Arrive, BodyFirst, task, modem
  <2>2. ASSUME NEW line \in Lines, Takes(line)
        PROVE  \A i \in DOMAIN input' :
                 i \in Nat \ {0} /\ i + 1 \in DOMAIN input /\ input'[i] = input[i + 1]
    BY <2>2 DEF Takes, TypeOK
  <2>3. ASSUME NEW line \in Lines, Takes(line) PROVE BodyFirst'
    BY <1>1, <2>2, <2>3 DEF BodyFirst, task
  <2> QED
    BY <2>1, <2>3 DEF TextLine, CommandLine
<1>4. SUFFICES ASSUME ~behind, pc \notin {"ready", "esc"} PROVE OneAtATime'
  BY <1>1, <1>2, <1>3 DEF InStep, task
<1>5. UNCHANGED <<pc, calls>> /\ Here' = Here
  BY <1>1 DEF task, Here
<1>6. CASE Arrive
  <2>1. PICK a \in Answers : Meant(a) /\ input = <<>> /\ output = <<a>> /\ rx = <<>>
    BY <1>4, <1>6 DEF Arrive, InStep, OneAtATime
  <2>2. input' = <<>> /\ output' = <<>> /\ rx' = <<a>>
    BY <1>4, <1>6, <2>1 DEF Arrive
  <2>3. Meant(a)'
    BY <1>5, <1>6, <2>1 DEF Arrive, Meant, modem
  <2> QED
    BY <2>2, <2>3 DEF OneAtATime
<1>7. ASSUME NEW line \in Lines, Takes(line)
      PROVE  /\ line = Here /\ input' = <<>> /\ output = <<>> /\ rx = <<>> /\ Asked
             /\ line.kind = pc /\ line.call = calls
  BY <1>4, <1>7 DEF Takes, InStep, OneAtATime, Here
<1>8. ASSUME NEW line \in Lines, Takes(line), NEW a \in Answers, Says(a), rx' = rx
      PROVE  output' = <<a>> /\ input' = <<>> /\ rx' = <<>>
  BY <1>7, <1>8, AppendToNone DEF Says
<1>9. ASSUME NEW line \in Lines, TextLine(line) PROVE OneAtATime'
  <2>1. Takes(line) /\ mode = "text" /\ rx' = rx
    BY <1>9 DEF TextLine
  <2>2. pc \in {"cfun", "body"} /\ (pc = "body" => text = <<>>)
    BY <1>4, <1>7, <2>1 DEF Asked, TypeOK, Exchanges
  <2>3. CASE pc = "cfun"
    <3>1. Says("prompt")
      BY <1>7, <1>9, <2>1, <2>3 DEF TextLine, Ends
    <3>2. Meant("prompt")'
      BY <1>5, <2>3 DEF Meant, Wanted
    <3> QED
      BY <1>8, <2>1, <3>1, <3>2 DEF OneAtATime, Meant, Answers
  <2>4. CASE pc = "body"
    <3>1. \/ sent' = sent \cup {Append(text, line)} /\ Says("cmgs")
          \/ Says("error")
      BY <1>7, <1>9, <2>1, <2>4 DEF TextLine, Ends
    <3>2. Append(text, line) = <<Here>>
      BY <1>7, <2>1, <2>2, <2>4
    <3>3. Meant("error")' /\ (<<Here>> \in sent' => Meant("cmgs")')
      BY <1>5, <2>4 DEF Meant, Wanted
    <3> QED
      BY <1>8, <2>1, <3>1, <3>2, <3>3 DEF OneAtATime, Meant, Answers
  <2> QED
    BY <2>2, <2>3, <2>4
<1>10. ASSUME NEW line \in Lines, CommandLine(line) PROVE OneAtATime'
  <2>1. Takes(line) /\ mode = "command" /\ text = <<>> /\ rx' = rx /\ text' = text
    BY <1>10 DEF CommandLine
  <2>2. pc \notin {"body", "esc"} /\ line.kind = pc /\ line.call = calls
    BY <1>4, <1>7, <2>1 DEF Asked
  <2>3. CASE pc = "cmgs" /\ mode' = "text" /\ Says("prompt")
    <3>1. Meant("prompt")'
      BY <1>5, <2>1, <2>3 DEF Meant
    <3> QED
      BY <1>8, <2>1, <2>3, <3>1 DEF OneAtATime, Meant, Answers
  <2>4. CASE pc = "cmgd" /\ calls \in deleted' /\ Says("ok")
    <3>1. Meant("ok")'
      BY <1>5, <2>1, <2>4 DEF Meant
    <3> QED
      BY <1>8, <2>1, <2>4, <3>1 DEF OneAtATime, Meant, Answers
  <2>5. CASE pc \in {"cfun", "cmgf", "cmgl"} /\ mode' = "command"
             /\ \E a \in Answers : Says(a)
    <3>1. PICK a \in Answers : Says(a)
      BY <2>5
    <3>2. Meant(a)'
      BY <1>5, <2>5 DEF Meant
    <3> QED
      BY <1>8, <2>1, <3>1, <3>2 DEF OneAtATime, Meant
  <2>6. CASE pc \in {"cmgs", "cmgd"} /\ Says("error")
    <3>1. Meant("error")'
      BY <1>5, <2>6 DEF Meant, Wanted
    <3> QED
      BY <1>8, <2>1, <2>6, <3>1 DEF OneAtATime, Meant, Answers
  <2> QED
    BY <1>10, <2>1, <2>2, <2>3, <2>4, <2>5, <2>6, <1>4 DEF CommandLine, Answers, TypeOK, Exchanges
<1> QED
  BY <1>6, <1>9, <1>10

\* Every step of a call and of the modem keeps the invariant.
THEOREM NextInv == IInv /\ [Next]_vars => IInv'
<1> SUFFICES ASSUME IInv, [Next]_vars PROVE IInv'
  OBVIOUS
<1>1. CASE UNCHANGED vars
  BY <1>1 DEF vars, task, modem, IInv, TypeOK, LeftClosed, Closed, EndFrom, InStep,
     OneAtATime, Meant, Asked, Here, BodyFirst, SendTrue, DeleteTrue, Returned
<1>2. CASE \/ \E o \in Ops : Call(o)
           \/ Ready \/ Formatted \/ Prompted \/ Answered \/ Cancelled \/ Done
  <2>1. TypeOK' /\ UNCHANGED <<mode, text>>
    BY <1>2, CallTypes DEF IInv, Call, Ready, Formatted, Prompted, Answered,
       Cancelled, Done, Ongoing, modem
  <2> QED
    BY <1>2, <2>1, CallCloses, CallInStep DEF IInv
<1>3. CASE Arrive \/ \E line \in Lines : TextLine(line) \/ CommandLine(line)
  <2>1. mode' = "command" => text' = <<>>
    BY <1>3 DEF IInv, Arrive, TextLine, CommandLine, modem
  <2> QED
    BY <1>3, <2>1, ModemTypes, ModemCloses, ModemInStep DEF IInv
<1> QED
  BY <1>1, <1>2, <1>3 DEF Next

\* The invariant: the lines under way close what they open, a call to a modem
\* that was not behind is in step with it, and what was reported is so.
THEOREM Invariance == Spec => []IInv
  BY InitInv, NextInv, PTL DEF Spec

\* The types, and that every exchange belongs to the call under way.
THEOREM TypeCorrect == Spec => []TypeOK
  BY Invariance, PTL DEF IInv

\* smsSend reports success only for a message that was sent, whole and alone.
THEOREM SendIsTrue == Spec => []SendTrue
  BY Invariance, PTL DEF IInv

\* smsDelete reports success only for a message that was deleted.
THEOREM DeleteIsTrue == Spec => []DeleteTrue
  BY Invariance, PTL DEF IInv

\* A message's text reaches only a modem that waits for it.
THEOREM NothingSpills == Spec => []NoSpill
<1>1. IInv => NoSpill
  BY DEF IInv, TypeOK, BodyFirst, NoSpill
<1> QED
  BY <1>1, Invariance, PTL

\* No call that found memory leaves the modem in text entry.
THEOREM ModemIsLeftReady == Spec => []CommandMode
<1>1. IInv => CommandMode
  BY DEF IInv, LeftClosed, Closed, EndFrom, CommandMode
<1> QED
  BY <1>1, Invariance, PTL
=============================================================================
