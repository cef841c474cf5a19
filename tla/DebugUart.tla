------------------------------ MODULE DebugUart ------------------------------
(***************************************************************************)
(* debug.c and the DEBUG macros of debug.h: tasks print through one UART   *)
(* and convert numbers in one buffer, _stm32_hal_debug_buffer.  A mutex    *)
(* that is waited for a limited time encloses each macro; HAL_UART_Transmit*)
(* gives up after DEBUG_UART_TIMEOUT and refuses while another call runs.  *)
(***************************************************************************)
EXTENDS Integers, Sequences, SequencesExt

CONSTANTS
  Tasks,
  NoTask,
  Calls,        \* the calls tasks make: [base, value, parts]
  BufferSize,   \* DEBUG_BUFFER_SIZE
  MaxCalls      \* bound on the number of calls

DebugAssumption == BufferSize \in Nat /\ BufferSize >= 3 /\ NoTask \notin Tasks

\* The macros' only number is the second of their parts.
Second(call)  == \A i \in 1 .. Len(call.parts) : call.parts[i] = "number" => i = 2
NumbersSecond == \A call \in Calls : Second(call)

VARIABLES
  mutex,    \* the task that holds DEBUG_MUTEX
  buf,      \* _stm32_hal_debug_buffer, character codes
  ready,    \* gState of the UART is HAL_UART_STATE_READY
  line,     \* history: what was sent since the mutex was last taken
  late,     \* history: some wait ended by its timeout
  task,     \* what each task is executing, with its locals
  calls     \* calls made so far
vars == <<mutex, buf, ready, line, late, task, calls>>

NoCall == [base |-> 10, value |-> 0, parts |-> <<>>]
Resting == [pc |-> "idle", call |-> NoCall, pos |-> BufferSize, rest |-> 0,
            parts |-> <<>>, from |-> 0, upto |-> 0]

Init ==
  /\ mutex = NoTask /\ ready = TRUE
  /\ buf = [i \in 1 .. BufferSize |-> 0]
  /\ line = <<>> /\ late = FALSE /\ calls = 0
  /\ task = [t \in Tasks |-> Resting]

At(t, label)    == task[t].pc = label
Goto(t, label)  == task' = [task EXCEPT ![t].pc = label]
HasNumber(call) == "number" \in ToSet(call.parts)
Signed(call)    == call.value < 0

-----------------------------------------------------------------------------
(* The mutex.                                                              *)

Start(t, call) ==
  /\ At(t, "idle") /\ calls < MaxCalls
  /\ calls' = calls + 1
  /\ task' = [task EXCEPT ![t] = [Resting EXCEPT !.pc = "lock", !.call = call,
                                                 !.parts = call.parts]]
  /\ UNCHANGED <<mutex, buf, ready, line, late>>

Inside(t) == Goto(t, IF HasNumber(task[t].call) THEN "terminate" ELSE "send")

\* Mutant of MayTake: the mutex is not waited for.
MayEnter == TRUE
MayTake  == mutex = NoTask

Lock(t) ==
  /\ At(t, "lock") /\ MayTake
  /\ mutex' = t /\ line' = <<>> /\ Inside(t)
  /\ UNCHANGED <<buf, ready, late, calls>>

\* Nobody looks at the result of xSemaphoreTake().
LockTimesOut(t) ==
  /\ At(t, "lock") /\ mutex # NoTask
  /\ late' = TRUE /\ Inside(t)
  /\ UNCHANGED <<mutex, buf, ready, line, calls>>

\* The mutex becomes free, whoever held it.
Unlock(t) ==
  /\ At(t, "send") /\ task[t].parts = <<>>
  /\ mutex' = NoTask
  /\ task' = [task EXCEPT ![t] = Resting]
  /\ UNCHANGED <<buf, ready, line, late, calls>>

-----------------------------------------------------------------------------
(* uint_to_str, from the last character to the first.                      *)

\* The lowest place a digit may take: a sign needs one more.
First(call) == IF Signed(call) THEN 2 ELSE 1
Char(digit) == IF digit > 9 THEN 87 + digit ELSE 48 + digit
Magnitude(value) == IF value < 0 THEN 0 - value ELSE value

Terminate(t) ==
  /\ At(t, "terminate")
  /\ buf' = [buf EXCEPT ![BufferSize] = 0]
  /\ task' = [task EXCEPT ![t].pc = "digits",
                          ![t].rest = Magnitude(task[t].call.value)]
  /\ UNCHANGED <<mutex, ready, line, late, calls>>

\* The loop writes one more digit; zero has one, too.
\* Mutant of MoreDigits: the loop looks at the value alone.
DigitsLeft(s) == s.rest > 0 \/ s.pos = BufferSize
MoreDigits(s) ==
  \/ s.rest > 0 /\ s.pos # First(s.call)
  \/ s.pos = BufferSize

Digit(t) ==
  LET s == task[t] IN
  /\ At(t, "digits") /\ MoreDigits(s)
  /\ buf' = [buf EXCEPT ![s.pos - 1] = Char(s.rest % s.call.base)]
  /\ task' = [task EXCEPT ![t].pos = s.pos - 1, ![t].rest = s.rest \div s.call.base]
  /\ UNCHANGED <<mutex, ready, line, late, calls>>

Sign(t) ==
  LET s == task[t] IN
  /\ At(t, "digits") /\ ~MoreDigits(s)
  /\ IF Signed(s.call)
     THEN /\ buf' = [buf EXCEPT ![s.pos - 1] = 45]
          /\ task' = [task EXCEPT ![t].pos = s.pos - 1, ![t].pc = "send"]
     ELSE Goto(t, "send") /\ UNCHANGED buf
  /\ UNCHANGED <<mutex, ready, line, late, calls>>

-----------------------------------------------------------------------------
(* HAL_UART_Transmit, once per part.                                       *)

Done(t) == task' = [task EXCEPT ![t].pc = "send", ![t].parts = Tail(@)]

\* strlen() of the number as the buffer is now
EndOf(pos) == CHOOSE e \in pos .. BufferSize :
                buf[e] = 0 /\ \A i \in pos .. e - 1 : buf[i] # 0

StartSend(t) ==
  LET s == task[t] IN
  /\ At(t, "send") /\ s.parts # <<>>
  /\ IF ~ready THEN Done(t) /\ UNCHANGED ready  \* HAL_BUSY
     ELSE /\ ready' = FALSE
          /\ task' = [task EXCEPT ![t].pc = "sending", ![t].from = s.pos,
                        ![t].upto = IF Head(s.parts) = "number" THEN EndOf(s.pos)
                                                                ELSE s.pos]
  /\ UNCHANGED <<mutex, buf, line, late, calls>>

\* One character of a number; a text counts as one.
SendNext(t) ==
  LET s == task[t] IN
  /\ At(t, "sending")
  /\ IF Head(s.parts) # "number"
     THEN line' = Append(line, Head(s.parts)) /\ ready' = TRUE /\ Done(t)
     ELSE IF s.from < s.upto
     THEN /\ line' = Append(line, buf[s.from]) /\ UNCHANGED ready
          /\ task' = [task EXCEPT ![t].from = s.from + 1]
     ELSE ready' = TRUE /\ Done(t) /\ UNCHANGED line
  /\ UNCHANGED <<mutex, buf, late, calls>>

SendTimesOut(t) ==
  /\ At(t, "sending")
  /\ ready' = TRUE /\ late' = TRUE /\ Done(t)
  /\ UNCHANGED <<mutex, buf, line, calls>>

Step(t) ==
  \/ Lock(t) \/ LockTimesOut(t) \/ Unlock(t)
  \/ Terminate(t) \/ Digit(t) \/ Sign(t)
  \/ StartSend(t) \/ SendNext(t) \/ SendTimesOut(t)

Next == \E t \in Tasks : Step(t) \/ \E call \in Calls : Start(t, call)

-----------------------------------------------------------------------------
\* The value of a place, and of a character as a digit.
Power(base) ==
  LET p[k \in 0 .. BufferSize] == IF k = 0 THEN 1 ELSE base * p[k - 1] IN p
Reading(char) == IF char > 57 THEN char - 87 ELSE char - 48

\* The digits stand for value: all of them or, in a buffer too short, the low
\* ones (test_debug.cpp: "buffer overflow").
Shows(digits, value, base, room) ==
  LET n == Len(digits) IN
  /\ n \in 1 .. room
  /\ \A i \in 1 .. n : Reading(digits[i]) = (value \div Power(base)[n - i]) % base
  /\ n > 1 => value >= Power(base)[n - 1]
  /\ n < room => value < Power(base)[n]

\* text is call's text, whole and alone; a number is its second part.
IsText(text, call) ==
  LET chars  == Len(text) - Len(call.parts) + 1  \* of the number
      number == SubSeq(text, 2, chars + 1)
  IN  IF ~HasNumber(call) THEN text = call.parts
      ELSE /\ chars >= 1 /\ text[1] = call.parts[1]
           /\ \A i \in 3 .. Len(call.parts) : text[i + chars - 1] = call.parts[i]
           /\ IF Signed(call)
              THEN /\ number[1] = 45
                   /\ Shows(Tail(number), Magnitude(call.value), call.base, BufferSize - 2)
              ELSE Shows(number, call.value, call.base, BufferSize - 1)

\* As long as no wait timed out, what a task has sent when it gives the mutex
\* back is its text, whole, unmixed, and with the digits of its number.
TextWhole ==
  \A t \in Tasks : At(t, "send") /\ task[t].parts = <<>> /\ ~late =>
                     IsText(line, task[t].call)

\* Every character is written inside the buffer, however long the number, and
\* every transmission ends inside it, whatever the tasks do to each other.
InBuffer ==
  \A t \in Tasks : /\ task[t].pos \in 1 .. BufferSize
                   /\ At(t, "sending") => task[t].upto \in task[t].pos .. BufferSize
=============================================================================
