----------------------------- MODULE UartProofs -----------------------------
(***************************************************************************)
(* The debug macros stay inside their buffer and send whole texts, for all *)
(* tasks, calls, buffer sizes and bounds; whatever calls of printf         *)
(* overlap, only bytes of the present calls leave, for all texts.          *)
(***************************************************************************)
EXTENDS Uart, SequenceTheorems, WellFoundedInduction, TLAPS

-----------------------------------------------------------------------------
(* The debug buffer.                                                       *)

DebugSpec == Init /\ [][Next]_vars

\* A call converts a number in a base and prints parts.
CallType   == [base : Nat \ {0}, value : Int, parts : Seq(STRING)]
CallsTyped == Calls \subseteq CallType

Labels   == {"idle", "lock", "terminate", "digits", "send", "sending"}
TaskType ==
  [pc : Labels, call : CallType, pos : 1 .. BufferSize, rest : Nat,
   parts : Seq(STRING), from : Int, upto : Int]

DebugTypes ==
  /\ task \in [Tasks -> TaskType]
  /\ buf \in [1 .. BufferSize -> Int] /\ buf[BufferSize] = 0

\* Until the sign is written there is room for it; what is sent ends inside
\* the buffer.
Apart(s) ==
  /\ s.pc \in {"lock", "terminate", "digits"} => s.pos >= First(s.call)
  /\ s.pc = "sending" => s.parts # <<>> /\ s.upto \in s.pos .. BufferSize

DebugInv == DebugTypes /\ \A t \in Tasks : Apart(task[t])

LEMMA Least ==
  ASSUME NEW T, T \subseteq Nat, T # {}
  PROVE  \E x \in T : \A y \in T : ~(y < x)
<1>1. PICK R : R = OpToRel(<, Nat)
  OBVIOUS
<1>2. IsWellFoundedOn(R, Nat)
  BY <1>1, NatLessThanWellFounded
<1>3. PICK x \in T : \A y \in T : ~(<<y, x>> \in R)
  BY <1>2, WFMin
<1>4. \A y \in T : y < x => <<y, x>> \in R
  BY <1>1 DEF OpToRel
<1>. QED  BY <1>3, <1>4

\* strlen() ends inside the buffer, as its last character is the terminator.
LEMMA EndInside ==
  ASSUME BufferSize \in Nat, buf[BufferSize] = 0, NEW pos \in 1 .. BufferSize
  PROVE  EndOf(pos) \in pos .. BufferSize
<1>. DEFINE IsEnd(e) == buf[e] = 0 /\ \A i \in pos .. e - 1 : buf[i] # 0
<1>1. PICK zeros : zeros = {e \in pos .. BufferSize : buf[e] = 0}
  OBVIOUS
<1>2. zeros \subseteq Nat /\ BufferSize \in zeros
  BY <1>1
<1>3. PICK e \in zeros : \A d \in zeros : ~(d < e)
  BY <1>2, Least
<1>4. e \in pos .. BufferSize /\ IsEnd(e)
  BY <1>1, <1>3
<1>5. EndOf(pos) = CHOOSE x \in pos .. BufferSize : IsEnd(x)
  BY DEF EndOf
<1>. HIDE DEF IsEnd
<1>. QED  BY <1>4, <1>5

LEMMA InitDebug == ASSUME DebugAssumption PROVE Init => DebugInv
<1>. SUFFICES ASSUME Init PROVE DebugInv
  OBVIOUS
<1>1. BufferSize \in Nat /\ BufferSize >= 3
  BY DEF DebugAssumption
<1>2. Resting \in TaskType /\ Resting.pc = "idle"
  BY <1>1 DEF Resting, NoCall, TaskType, CallType, Labels
<1>3. task \in [Tasks -> TaskType] /\ \A t \in Tasks : task[t].pc = "idle"
  BY <1>2 DEF Init
<1>4. buf \in [1 .. BufferSize -> Int] /\ buf[BufferSize] = 0
  BY <1>1 DEF Init
<1>. QED  BY <1>3, <1>4 DEF DebugInv, DebugTypes, Apart

\* A step of task t that leaves the others' locals alone.
LEMMA TaskMoves ==
  ASSUME DebugInv, NEW t \in Tasks, NEW s \in TaskType, Apart(s),
         task' = [task EXCEPT ![t] = s],
         buf' \in [1 .. BufferSize -> Int], buf'[BufferSize] = 0
  PROVE  DebugInv'
BY DEF DebugInv, DebugTypes, Apart

\* The lowest place of a digit.
LEMMA FirstIs ==
  ASSUME NEW call
  PROVE  First(call) \in {1, 2} /\ (Signed(call) => First(call) = 2)
BY DEF First

LEMMA GoesTo ==
  ASSUME DebugInv, NEW t \in Tasks, NEW label \in Labels, Goto(t, label),
         label = "digits" => task[t].pc \in {"lock", "terminate", "digits"},
         label = "terminate" => task[t].pc = "lock",
         label \notin {"lock", "sending"}, UNCHANGED buf
  PROVE  DebugInv'
<1>1. PICK s : s = [task[t] EXCEPT !.pc = label]
  OBVIOUS
<1>2. task[t] \in TaskType /\ Apart(task[t])
  BY DEF DebugInv, DebugTypes
<1>3. s \in TaskType
  BY <1>1, <1>2 DEF TaskType
<1>4. Apart(s)
  BY <1>1, <1>2 DEF Apart, TaskType, Labels
<1>5. task' = [task EXCEPT ![t] = s]
  BY <1>1 DEF Goto, DebugInv, DebugTypes
<1>. QED  BY <1>3, <1>4, <1>5, TaskMoves DEF DebugInv, DebugTypes

LEMMA StartDebug ==
  ASSUME DebugAssumption, CallsTyped, DebugInv, NEW t \in Tasks,
         NEW call \in Calls, Start(t, call)
  PROVE  DebugInv'
<1>1. PICK s : s = [Resting EXCEPT !.pc = "lock", !.call = call,
                                   !.parts = call.parts]
  OBVIOUS
<1>2. BufferSize \in Nat /\ BufferSize >= 3 /\ call \in CallType
  BY DEF DebugAssumption, CallsTyped
<1>3. s \in TaskType /\ s.pos = BufferSize /\ s.pc = "lock"
  <2>1. PICK parts : parts = call.parts
    OBVIOUS
  <2>2. s = [pc |-> "lock", call |-> call, pos |-> BufferSize, rest |-> 0,
             parts |-> parts, from |-> 0, upto |-> 0]
    BY <1>1, <2>1 DEF Resting
  <2>3. parts \in Seq(STRING)
    BY <1>2, <2>1 DEF CallType
  <2>. QED  BY <1>2, <2>2, <2>3 DEF TaskType, Labels
<1>4. Apart(s)
  BY <1>2, <1>3, FirstIs DEF Apart
<1>5. task' = [task EXCEPT ![t] = s] /\ buf' = buf
  BY <1>1 DEF Start
<1>. QED  BY <1>3, <1>4, <1>5, TaskMoves DEF DebugInv, DebugTypes

LEMMA LocksDebug ==
  ASSUME DebugInv, NEW t \in Tasks, Lock(t) \/ LockTimesOut(t)
  PROVE  DebugInv'
<1>1. task[t].pc = "lock" /\ Inside(t) /\ UNCHANGED buf
  BY DEF Lock, LockTimesOut, At
<1>2. CASE HasNumber(task[t].call)
  <2>1. Goto(t, "terminate") /\ "terminate" \in Labels
    BY <1>1, <1>2 DEF Inside, Labels
  <2>. QED  BY <1>1, <2>1, GoesTo
<1>3. CASE ~HasNumber(task[t].call)
  <2>1. Goto(t, "send") /\ "send" \in Labels
    BY <1>1, <1>3 DEF Inside, Labels
  <2>. QED  BY <1>1, <2>1, GoesTo
<1>. QED  BY <1>2, <1>3

LEMMA UnlocksDebug ==
  ASSUME DebugAssumption, DebugInv, NEW t \in Tasks, Unlock(t)
  PROVE  DebugInv'
<1>1. Resting \in TaskType /\ Resting.pc = "idle"
  BY DEF DebugAssumption, Resting, NoCall, TaskType, CallType, Labels
<1>2. task' = [task EXCEPT ![t] = Resting] /\ buf' = buf
  BY DEF Unlock
<1>. QED  BY <1>1, <1>2, TaskMoves DEF DebugInv, DebugTypes, Apart

LEMMA TerminatesDebug ==
  ASSUME DebugAssumption, DebugInv, NEW t \in Tasks, Terminate(t)
  PROVE  DebugInv'
<1>1. PICK rest : rest = Magnitude(task[t].call.value)
  OBVIOUS
<1>2. PICK s : s = [task[t] EXCEPT !.pc = "digits", !.rest = rest]
  OBVIOUS
<1>3. /\ task[t] \in TaskType /\ Apart(task[t]) /\ task[t].pc = "terminate"
      /\ task \in [Tasks -> TaskType] /\ BufferSize \in Nat
      /\ BufferSize >= 3 /\ buf \in [1 .. BufferSize -> Int]
  BY DEF DebugInv, DebugTypes, DebugAssumption, Terminate, At
<1>4. rest \in Nat
  BY <1>1, <1>3 DEF Magnitude, TaskType, CallType
<1>5. s \in TaskType /\ Apart(s)
  BY <1>2, <1>3, <1>4 DEF TaskType, Labels, Apart
<1>6. task' = [task EXCEPT ![t] = s]
  BY <1>1, <1>2, <1>3 DEF Terminate
<1>7. buf' = [buf EXCEPT ![BufferSize] = 0]
  BY DEF Terminate
<1>8. buf' \in [1 .. BufferSize -> Int] /\ buf'[BufferSize] = 0
  BY <1>3, <1>7
<1>. QED  BY <1>5, <1>6, <1>8, TaskMoves

\* There is room for a digit, and for the sign in front of it.
LEMMA DigitDebug ==
  ASSUME DebugAssumption, DebugInv, NEW t \in Tasks, Digit(t)
  PROVE  DebugInv'
<1>1. PICK r : r = task[t]
  OBVIOUS
<1>2. /\ r \in TaskType /\ Apart(r) /\ r.pc = "digits" /\ MoreDigits(r)
      /\ task \in [Tasks -> TaskType] /\ BufferSize \in Nat
      /\ BufferSize >= 3 /\ buf \in [1 .. BufferSize -> Int]
      /\ buf[BufferSize] = 0
  BY <1>1 DEF DebugInv, DebugTypes, DebugAssumption, Digit, At
<1>3. PICK pos, rest, char :
        /\ pos = r.pos - 1 /\ rest = r.rest \div r.call.base
        /\ char = Char(r.rest % r.call.base)
  OBVIOUS
<1>4. /\ r.pos \in 1 .. BufferSize /\ r.pos >= First(r.call)
      /\ r.pos # First(r.call) \/ r.pos = BufferSize
  BY <1>2 DEF Apart, MoreDigits, TaskType
<1>5. /\ pos \in 1 .. BufferSize - 1 /\ pos >= First(r.call)
  BY <1>2, <1>3, <1>4, FirstIs
<1>6. rest \in Nat /\ char \in Int
  <2>1. PICK a \in Nat, b \in Nat \ {0} : a = r.rest /\ b = r.call.base
    BY <1>2 DEF TaskType, CallType
  <2>2. a \div b \in Nat /\ a % b \in Nat
    BY <2>1
  <2>3. PICK d \in Nat : d = a % b
    BY <2>2
  <2>4. Char(d) \in Int
    BY DEF Char
  <2>. QED  BY <1>3, <2>1, <2>2, <2>3, <2>4
<1>7. PICK s : s = [r EXCEPT !.pos = pos, !.rest = rest]
  OBVIOUS
<1>8. s \in TaskType /\ s.pc = "digits" /\ s.call = r.call /\ s.pos = pos
  <2>1. s = [pc |-> r.pc, call |-> r.call, pos |-> pos, rest |-> rest,
             parts |-> r.parts, from |-> r.from, upto |-> r.upto]
    BY <1>2, <1>7 DEF TaskType
  <2>2. /\ r.pc \in Labels /\ r.call \in CallType /\ r.from \in Int
        /\ r.upto \in Int /\ r.parts \in Seq(STRING)
    BY <1>2 DEF TaskType
  <2>3. pos \in 1 .. BufferSize
    BY <1>2, <1>5
  <2>4. s \in TaskType
    BY <1>6, <2>1, <2>2, <2>3 DEF TaskType
  <2>. QED  BY <1>2, <2>1, <2>4
<1>9. Apart(s)
  BY <1>5, <1>8 DEF Apart
<1>10. task' = [task EXCEPT ![t] = s]
  BY <1>1, <1>2, <1>3, <1>7 DEF Digit
<1>11. buf' = [buf EXCEPT ![pos] = char]
  BY <1>1, <1>3 DEF Digit
<1>12. buf' \in [1 .. BufferSize -> Int] /\ buf'[BufferSize] = 0
  BY <1>2, <1>5, <1>6, <1>11
<1>. QED  BY <1>8, <1>9, <1>10, <1>12, TaskMoves

LEMMA SignDebug ==
  ASSUME DebugAssumption, DebugInv, NEW t \in Tasks, Sign(t)
  PROVE  DebugInv'
<1>1. PICK r : r = task[t]
  OBVIOUS
<1>2. /\ r \in TaskType /\ Apart(r) /\ r.pc = "digits"
      /\ task \in [Tasks -> TaskType] /\ BufferSize \in Nat
      /\ BufferSize >= 3 /\ buf \in [1 .. BufferSize -> Int]
      /\ buf[BufferSize] = 0
  BY <1>1 DEF DebugInv, DebugTypes, DebugAssumption, Sign, At
<1>3. CASE Signed(r.call)
  <2>1. PICK pos : pos = r.pos - 1
    OBVIOUS
  <2>2. r.pos \in 1 .. BufferSize /\ r.pos >= 2
    BY <1>2, <1>3, FirstIs DEF Apart, TaskType
  <2>3. pos \in 1 .. BufferSize - 1
    BY <1>2, <2>1, <2>2
  <2>4. PICK s : s = [r EXCEPT !.pos = pos, !.pc = "send"]
    OBVIOUS
  <2>8. pos \in 1 .. BufferSize /\ "send" \in Labels
    BY <1>2, <2>3 DEF Labels
  <2>9. s = [pc |-> "send", call |-> r.call, pos |-> pos, rest |-> r.rest,
             parts |-> r.parts, from |-> r.from, upto |-> r.upto]
    BY <1>2, <2>4 DEF TaskType
  <2>10. /\ r.call \in CallType /\ r.from \in Int /\ r.rest \in Nat
         /\ r.upto \in Int /\ r.parts \in Seq(STRING)
    BY <1>2 DEF TaskType
  <2>5. s \in TaskType /\ s.pc = "send"
    BY <2>8, <2>9, <2>10 DEF TaskType
  <2>6. task' = [task EXCEPT ![t] = s] /\ buf' = [buf EXCEPT ![pos] = 45]
    BY <1>1, <1>2, <1>3, <2>1, <2>4 DEF Sign
  <2>7. buf' \in [1 .. BufferSize -> Int] /\ buf'[BufferSize] = 0
    BY <1>2, <2>3, <2>6
  <2>. QED  BY <2>5, <2>6, <2>7, TaskMoves DEF Apart
<1>4. CASE ~Signed(r.call)
  <2>1. Goto(t, "send") /\ UNCHANGED buf /\ "send" \in Labels
    BY <1>1, <1>4 DEF Sign, Labels
  <2>. QED  BY <2>1, GoesTo
<1>. QED  BY <1>3, <1>4

\* A part is done with.
LEMMA DoneDebug ==
  ASSUME DebugInv, NEW t \in Tasks, Done(t), task[t].parts # <<>>,
         UNCHANGED buf
  PROVE  DebugInv'
<1>1. PICK parts : parts = Tail(task[t].parts)
  OBVIOUS
<1>2. task[t] \in TaskType /\ task \in [Tasks -> TaskType]
  BY DEF DebugInv, DebugTypes
<1>3. parts \in Seq(STRING)
  BY <1>1, <1>2, HeadTailProperties DEF TaskType
<1>4. PICK s : s = [task[t] EXCEPT !.pc = "send", !.parts = parts]
  OBVIOUS
<1>5. s \in TaskType /\ s.pc = "send"
  BY <1>2, <1>3, <1>4 DEF TaskType, Labels
<1>6. task' = [task EXCEPT ![t] = s]
  BY <1>1, <1>2, <1>4 DEF Done
<1>. QED  BY <1>5, <1>6, TaskMoves DEF DebugInv, DebugTypes, Apart

LEMMA StartSendDebug ==
  ASSUME DebugAssumption, DebugInv, NEW t \in Tasks, StartSend(t)
  PROVE  DebugInv'
<1>1. PICK r : r = task[t]
  OBVIOUS
<1>2. /\ r \in TaskType /\ task \in [Tasks -> TaskType]
      /\ BufferSize \in Nat /\ buf[BufferSize] = 0
      /\ r.parts # <<>> /\ buf' = buf
  BY <1>1 DEF DebugInv, DebugTypes, DebugAssumption, StartSend
<1>3. CASE ~ready
  <2>1. Done(t)
    BY <1>3 DEF StartSend
  <2>. QED  BY <1>1, <1>2, <2>1, DoneDebug
<1>4. CASE ready
  <2>1. PICK upto : upto = IF Head(r.parts) = "number" THEN EndOf(r.pos)
                                                       ELSE r.pos
    OBVIOUS
  <2>2. r.pos \in 1 .. BufferSize
    BY <1>2 DEF TaskType
  <2>3. EndOf(r.pos) \in r.pos .. BufferSize
    BY <1>2, <2>2, EndInside
  <2>4. upto \in r.pos .. BufferSize /\ upto \in Int
    BY <2>1, <2>2, <2>3
  <2>5. PICK s : s = [r EXCEPT !.pc = "sending", !.from = r.pos,
                               !.upto = upto]
    OBVIOUS
  <2>6. /\ s \in TaskType /\ s.pc = "sending" /\ s.parts = r.parts
        /\ s.pos = r.pos /\ s.upto = upto
    <3>1. PICK pos \in 1 .. BufferSize : pos = r.pos
      BY <2>2
    <3>2. s = [pc |-> "sending", call |-> r.call, pos |-> pos,
               rest |-> r.rest, parts |-> r.parts, from |-> pos,
               upto |-> upto]
      BY <1>2, <2>5, <3>1 DEF TaskType
    <3>3. /\ r.call \in CallType /\ r.rest \in Nat /\ pos \in Int
          /\ r.parts \in Seq(STRING) /\ "sending" \in Labels
      BY <1>2, <3>1 DEF TaskType, Labels
    <3>4. s \in TaskType
      BY <2>4, <3>2, <3>3 DEF TaskType
    <3>. QED  BY <3>1, <3>2, <3>4
  <2>7. Apart(s)
    BY <1>2, <2>4, <2>6 DEF Apart
  <2>8. task' = [task EXCEPT ![t] = s]
    BY <1>1, <1>2, <1>4, <2>1, <2>5 DEF StartSend
  <2>. QED  BY <1>2, <2>6, <2>7, <2>8, TaskMoves DEF DebugInv, DebugTypes
<1>. QED  BY <1>3, <1>4

LEMMA SendsDebug ==
  ASSUME DebugInv, NEW t \in Tasks, SendNext(t) \/ SendTimesOut(t)
  PROVE  DebugInv'
<1>1. PICK r : r = task[t]
  OBVIOUS
<1>2. /\ r \in TaskType /\ task \in [Tasks -> TaskType]
      /\ r.pc = "sending" /\ Apart(r) /\ r.parts # <<>> /\ buf' = buf
  BY <1>1 DEF DebugInv, DebugTypes, SendNext, SendTimesOut, At, Apart
<1>3. CASE Done(t)
  BY <1>1, <1>2, <1>3, DoneDebug
<1>4. CASE task' = [task EXCEPT ![t].from = r.from + 1]
  <2>1. PICK from \in Int : from = r.from + 1
    BY <1>2 DEF TaskType
  <2>2. PICK s : s = [r EXCEPT !.from = from]
    OBVIOUS
  <2>3. /\ s \in TaskType /\ s.pc = r.pc /\ s.parts = r.parts
        /\ s.pos = r.pos /\ s.upto = r.upto /\ s.call = r.call
    BY <1>2, <2>1, <2>2 DEF TaskType
  <2>4. Apart(s)
    BY <1>2, <2>3 DEF Apart
  <2>5. task' = [task EXCEPT ![t] = s]
    BY <1>1, <1>2, <1>4, <2>1, <2>2
  <2>. QED  BY <1>2, <2>3, <2>4, <2>5, TaskMoves DEF DebugInv, DebugTypes
<1>. QED  BY <1>1, <1>3, <1>4 DEF SendNext, SendTimesOut

LEMMA DebugStep ==
  ASSUME DebugAssumption, CallsTyped, DebugInv, [Next]_vars
  PROVE  DebugInv'
<1>1. CASE UNCHANGED vars
  BY <1>1 DEF vars, DebugInv, DebugTypes, Apart
<1>2. ASSUME NEW t \in Tasks, Step(t) PROVE DebugInv'
  BY <1>2, LocksDebug, UnlocksDebug, TerminatesDebug, DigitDebug, SignDebug,
     StartSendDebug, SendsDebug DEF Step
<1>3. ASSUME NEW t \in Tasks, NEW call \in Calls, Start(t, call)
      PROVE  DebugInv'
  BY <1>3, StartDebug
<1>. QED  BY <1>1, <1>2, <1>3 DEF Next

\* Every character of a number is written inside the buffer, however long the
\* number is, and every transmission ends inside it, whatever the tasks do to
\* each other and whichever waits time out (uint_to_str :27, debug.h:36).
THEOREM DebugInBuffer ==
  ASSUME DebugAssumption, CallsTyped
  PROVE  DebugSpec => []InBuffer
<1>1. Init => DebugInv
  BY InitDebug
<1>2. DebugInv /\ [Next]_vars => DebugInv'
  BY DebugStep
<1>3. DebugInv => InBuffer
  BY DEF DebugInv, DebugTypes, Apart, InBuffer, TaskType, At
<1>. QED  BY <1>1, <1>2, <1>3, PTL DEF DebugSpec

-----------------------------------------------------------------------------
(* The debug macros' texts.  First the numbers.                            *)

\* The places of a number: the recursive function is what it says.
LEMMA PowerIs ==
  ASSUME DebugAssumption, NEW base \in Nat \ {0}
  PROVE  /\ Power(base) \in [0 .. BufferSize -> Nat \ {0}]
         /\ Power(base)[0] = 1
         /\ \A k \in 0 .. BufferSize - 1 : Power(base)[k + 1] = base * Power(base)[k]
<1>. DEFINE N == BufferSize
            IsPower(f, m) == /\ f \in [0 .. m -> Nat \ {0}] /\ f[0] = 1
                             /\ \A k \in 1 .. m : f[k] = base * f[k - 1]
            Missing == {m \in 0 .. N : ~\E f \in [0 .. m -> Nat \ {0}] : IsPower(f, m)}
<1>0. N \in Nat
  BY DEF DebugAssumption
<1>1. Missing = {}
  <2>. SUFFICES ASSUME Missing # {} PROVE FALSE
    OBVIOUS
  <2>0. Missing \subseteq Nat
    BY <1>0
  <2>. HIDE DEF Missing
  <2>1. PICK m \in Missing : \A n \in Missing : ~(n < m)
    BY <2>0, Least
  <2>. USE DEF Missing
  <2>2. CASE m = 0
    <3>1. PICK f : f = [k \in 0 .. 0 |-> 1]
      OBVIOUS
    <3>2. f \in [0 .. 0 -> Nat \ {0}] /\ f[0] = 1
      BY <3>1
    <3>3. IsPower(f, 0)
      BY <3>2
    <3>. QED
      BY <2>1, <2>2, <3>2, <3>3
  <2>3. CASE m # 0
    <3>1. m \in Nat /\ m - 1 \in 0 .. N /\ m \in 0 .. N
      BY <1>0, <2>1, <2>3
    <3>2. m - 1 \notin Missing
      <4>. HIDE DEF Missing
      <4>. QED
        BY <2>1, <3>1
    <3>3. PICK f \in [0 .. m - 1 -> Nat \ {0}] : IsPower(f, m - 1)
      BY <3>1, <3>2
    <3>4. PICK g : g = [k \in 0 .. m |-> IF k = m THEN base * f[m - 1] ELSE f[k]]
      OBVIOUS
    <3>5. f[m - 1] \in Nat \ {0}
      BY <2>3, <3>1
    <3>6. base * f[m - 1] \in Nat \ {0}
      BY <3>5
    <3>7. g \in [0 .. m -> Nat \ {0}]
      BY <3>1, <3>4, <3>6
    <3>8. g[0] = 1
      BY <2>3, <3>1, <3>3, <3>4
    <3>9. ASSUME NEW k \in 1 .. m PROVE g[k] = base * g[k - 1]
      <4>1. CASE k = m
        BY <3>1, <3>4, <4>1
      <4>2. CASE k # m
        <5>1. k \in 1 .. m - 1 /\ k - 1 \in 0 .. m - 1
          BY <3>1, <4>2
        <5>2. g[k] = f[k] /\ g[k - 1] = f[k - 1]
          BY <3>1, <3>4, <5>1
        <5>. QED
          BY <3>3, <5>1, <5>2
      <4>. QED
        BY <4>1, <4>2
    <3>. QED
      BY <2>1, <3>7, <3>8, <3>9
  <2>. QED
    BY <2>2, <2>3
<1>2. PICK f \in [0 .. N -> Nat \ {0}] : IsPower(f, N)
  <2>1. N \in 0 .. N /\ N \notin Missing
    <3>1. N \in 0 .. N
      BY <1>0
    <3>. HIDE DEF Missing
    <3>2. N \notin Missing
      BY <1>1
    <3>. QED
      BY <3>1, <3>2
  <2>. HIDE DEF IsPower
  <2>. QED
    BY <2>1
<1>3. PICK p : p = Power(base)
  OBVIOUS
<1>4. p = [k \in 0 .. N |-> IF k = 0 THEN 1 ELSE base * p[k - 1]]
  <2>1. f = [k \in 0 .. N |-> IF k = 0 THEN 1 ELSE base * f[k - 1]]
    <3>1. \A k \in 0 .. N : f[k] = IF k = 0 THEN 1 ELSE base * f[k - 1]
      BY <1>0, <1>2
    <3>. QED
      BY <3>1
  <2>. QED
    BY <1>3, <2>1, Zenon DEF Power
<1>5. p[0] = 1 /\ \A k \in 0 .. N - 1 : p[k + 1] = base * p[k]
  <2>1. \A k \in 0 .. N : p[k] = IF k = 0 THEN 1 ELSE base * p[k - 1]
    BY <1>4, Zenon
  <2>. QED
    BY <1>0, <2>1
<1>6. \A k \in 0 .. N : p[k] \in Nat \ {0}
  <2>. DEFINE Bad == {k \in 0 .. N : p[k] \notin Nat \ {0}}
  <2>. SUFFICES ASSUME Bad # {} PROVE FALSE
    OBVIOUS
  <2>0. Bad \subseteq Nat
    BY <1>0
  <2>. HIDE DEF Bad
  <2>1. PICK k \in Bad : \A n \in Bad : ~(n < k)
    BY <2>0, Least
  <2>. USE DEF Bad
  <2>2. k # 0
    BY <1>5, <2>1
  <2>3. k - 1 \in 0 .. N - 1 /\ k - 1 < k /\ (k - 1) + 1 = k /\ k - 1 \in 0 .. N
    BY <1>0, <2>1, <2>2
  <2>4. k - 1 \notin Bad
    <3>. HIDE DEF Bad
    <3>. QED
      BY <2>1, <2>3
  <2>5. p[k - 1] \in Nat \ {0} /\ p[k] = base * p[k - 1]
    BY <1>5, <2>3, <2>4
  <2>6. p[k] \in Nat \ {0}
    <3>1. PICK q \in Nat \ {0} : q = p[k - 1]
      BY <2>5
    <3>. QED
      BY <2>5, <3>1
  <2>. QED
    BY <2>1, <2>6
<1>7. p \in [0 .. N -> Nat \ {0}]
  <2>1. DOMAIN p = 0 .. N /\ p = [k \in DOMAIN p |-> p[k]]
    <3>1. PICK h : h = [k \in 0 .. N |-> IF k = 0 THEN 1 ELSE base * p[k - 1]]
      OBVIOUS
    <3>2. DOMAIN h = 0 .. N /\ h = [k \in DOMAIN h |-> h[k]]
      BY <3>1
    <3>. QED
      BY <1>4, <3>1, <3>2, Zenon
  <2>. QED
    BY <1>6, <2>1
<1>. QED
  BY <1>3, <1>5, <1>7

LEMMA Times ==
  ASSUME NEW p \in Nat, NEW a \in Nat, NEW c \in Nat, a <= c
  PROVE  p * a <= p * c
OBVIOUS

\* One place further is one division more.
LEMMA DivideTwice ==
  ASSUME NEW v \in Nat, NEW p \in Nat \ {0}, NEW b \in Nat \ {0}
  PROVE  (v \div p) \div b = v \div (b * p)
<1>1. PICK q \in Nat : q = v \div p
  OBVIOUS
<1>2. PICK r \in Nat : r = q \div b
  OBVIOUS
<1>3. p * q <= v /\ v < p * (q + 1)
  BY <1>1
<1>4. b * r <= q /\ q < b * (r + 1)
  BY <1>2
<1>5. p * (b * r) <= p * q
  BY <1>4, Times
<1>6. p * (q + 1) <= p * (b * (r + 1))
  BY <1>4, Times
<1>7. (b * p) * r <= v /\ v < (b * p) * (r + 1)
  BY <1>3, <1>5, <1>6
<1>8. v \div (b * p) = r
  BY <1>7
<1>. QED
  BY <1>1, <1>2, <1>8

LEMMA CharIs ==
  ASSUME NEW d \in Nat
  PROVE  Char(d) \in Int /\ Char(d) >= 48 /\ Reading(Char(d)) = d
BY DEF Char, Reading

\* The last n characters before the terminator are the digits of the n lowest
\* places of v, without a leading zero.
Written(mem, v, base, n) ==
  /\ \A j \in 1 .. n :
       /\ mem[BufferSize - j] >= 48
       /\ Reading(mem[BufferSize - j]) = (v \div Power(base)[j - 1]) % base
  /\ n > 1 => v >= Power(base)[n - 1]

Left(rest, v, base, n) == rest = v \div Power(base)[n]

LEMMA WritesDigit ==
  ASSUME DebugAssumption, NEW v \in Nat, NEW base \in Nat \ {0},
         NEW mem \in [1 .. BufferSize -> Int], NEW n \in 0 .. BufferSize - 2,
         Written(mem, v, base, n), NEW rest, Left(rest, v, base, n),
         n > 0 => rest > 0, NEW at, at = BufferSize - (n + 1),
         NEW new, new = [mem EXCEPT ![at] = Char(rest % base)]
  PROVE  /\ Written(new, v, base, n + 1)
         /\ Left(rest \div base, v, base, n + 1)
<1>. PICK p : p = Power(base)
  OBVIOUS
<1>0. BufferSize \in Nat /\ BufferSize >= 3
  BY DEF DebugAssumption
<1>1. /\ p \in [0 .. BufferSize -> Nat \ {0}]
      /\ \A k \in 0 .. BufferSize - 1 : p[k + 1] = base * p[k]
  BY PowerIs, Zenon
<1>2. PICK q \in Nat \ {0} : q = p[n]
  <2>1. n \in 0 .. BufferSize
    BY <1>0
  <2>. QED
    BY <1>1, <2>1
<1>3. p[n + 1] = base * q
  BY <1>0, <1>1, <1>2
<1>4. rest = v \div q /\ rest \in Nat /\ q * rest <= v /\ v < q * (rest + 1)
  <2>1. rest = v \div q
    BY <1>2, Zenon DEF Left
  <2>2. PICK r : r = v \div q
    OBVIOUS
  <2>3. r \in Nat /\ q * r <= v /\ v < q * (r + 1)
    BY <2>2
  <2>. QED
    BY <2>1, <2>2, <2>3, Zenon
<1>5. rest \div base = v \div p[n + 1]
  <2>1. (v \div q) \div base = v \div (base * q)
    BY DivideTwice
  <2>. QED
    BY <1>3, <1>4, <2>1, Zenon
<1>6. n > 0 => v >= q
  <2>1. rest >= 1 => q * 1 <= q * rest
    BY <1>4, Times
  <2>. QED
    BY <1>4, <2>1
<1>7. PICK d \in Nat : d = rest % base
  BY <1>4
<1>8. /\ new[at] = Char(d) /\ \A i \in 1 .. BufferSize : i # at => new[i] = mem[i]
  BY <1>0, <1>7
<1>9. ASSUME NEW j \in 1 .. n + 1
      PROVE  /\ new[BufferSize - j] >= 48
             /\ Reading(new[BufferSize - j]) = (v \div p[j - 1]) % base
  <2>1. CASE j = n + 1
    <3>1. BufferSize - j = at /\ j - 1 = n
      BY <2>1
    <3>2. Reading(Char(d)) = d /\ Char(d) >= 48
      BY CharIs
    <3>. QED
      BY <1>2, <1>4, <1>7, <1>8, <3>1, <3>2
  <2>2. CASE j # n + 1
    <3>1. j \in 1 .. n /\ BufferSize - j \in 1 .. BufferSize /\ BufferSize - j # at
      BY <1>0, <2>2
    <3>2. /\ mem[BufferSize - j] >= 48
          /\ Reading(mem[BufferSize - j]) = (v \div p[j - 1]) % base
      BY <3>1 DEF Written
    <3>. QED
      BY <1>8, <3>1, <3>2
  <2>. QED
    BY <2>1, <2>2
<1>10. n + 1 > 1 => v >= p[(n + 1) - 1]
  BY <1>2, <1>6
<1>. QED
  BY <1>5, <1>9, <1>10, Zenon DEF Written, Left

\* The characters from pos are the number of the call, complete or, where the
\* buffer is too short, its low digits.
Numeral(mem, call, pos) ==
  LET v    == Magnitude(call.value)
      room == BufferSize - First(call)
      n    == BufferSize - pos - (First(call) - 1)
  IN  /\ n \in 1 .. room /\ Written(mem, v, call.base, n)
      /\ n < room => v < Power(call.base)[n]
      /\ Signed(call) => mem[pos] = 45

-----------------------------------------------------------------------------
(* What has been sent of a text.                                           *)

Symbols     == STRING \cup Int
Chars(pos)   == BufferSize - pos

\* The i-th symbol of the text whose number begins at pos.
Symbol(mem, call, pos, i) ==
  IF ~HasNumber(call) \/ i = 1 THEN call.parts[i]
  ELSE IF i <= 1 + Chars(pos) THEN mem[pos + i - 2]
  ELSE call.parts[i + 1 - Chars(pos)]

\* How many symbols of it are sent when parts are left, and what is sent.
Sent(call, parts, pos) ==
  LET done == Len(call.parts) - Len(parts)
  IN  IF HasNumber(call) /\ done >= 2 THEN done - 1 + Chars(pos) ELSE done
LineIs(mem, ln, call, pos, n) ==
  /\ ln \in Seq(Symbols) /\ Len(ln) = n
  /\ \A i \in 1 .. n : ln[i] = Symbol(mem, call, pos, i)

Remaining(parts, call) ==
  /\ Len(parts) <= Len(call.parts)
  /\ \A i \in 1 .. Len(parts) : parts[i] = call.parts[Len(call.parts) - Len(parts) + i]

LEMMA HasNumberIs ==
  ASSUME NEW call \in CallType, Second(call)
  PROVE  HasNumber(call) <=> Len(call.parts) >= 2 /\ call.parts[2] = "number"
<1>. PICK parts \in Seq(STRING) : parts = call.parts
  BY DEF CallType
<1>1. DOMAIN parts = 1 .. Len(parts) /\ Len(parts) \in Nat
  BY LenProperties
<1>2. HasNumber(call) <=> \E i \in 1 .. Len(parts) : parts[i] = "number"
  BY <1>1 DEF HasNumber, ToSet
<1>. QED
  BY <1>1, <1>2 DEF Second

\* What is next is the call's next part.
LEMMA NextPart ==
  ASSUME NEW call \in CallType, NEW parts \in Seq(STRING), parts # <<>>,
         Remaining(parts, call)
  PROVE  \E d \in Nat :
           /\ d = Len(call.parts) - Len(parts) /\ d + 1 \in 1 .. Len(call.parts)
           /\ Head(parts) = call.parts[d + 1] /\ Head(parts) \in STRING
           /\ Tail(parts) \in Seq(STRING) /\ Remaining(Tail(parts), call)
           /\ Len(call.parts) - Len(Tail(parts)) = d + 1
<1>. PICK all \in Seq(STRING) : all = call.parts
  BY DEF CallType
<1>. PICK rest : rest = Tail(parts)
  OBVIOUS
<1>1. Len(parts) \in Nat /\ Len(all) \in Nat
  BY LenProperties
<1>2. /\ Head(parts) \in STRING /\ rest \in Seq(STRING) /\ Len(rest) = Len(parts) - 1
      /\ \A i \in 1 .. Len(rest) : rest[i] = parts[i + 1]
  BY HeadTailProperties
<1>3. Len(rest) \in Nat /\ Head(parts) = parts[1]
  BY <1>2, LenProperties
<1>4. PICK k \in Nat, l \in Nat : k = Len(parts) /\ l = Len(all) /\ Len(rest) = k - 1
  BY <1>1, <1>2
<1>5. k >= 1 /\ k <= l /\ \A i \in 1 .. k : parts[i] = all[l - k + i]
  BY <1>2, <1>3, <1>4 DEF Remaining
<1>6. PICK d \in Nat : d = l - k
  BY <1>5
<1>7. Head(parts) = all[d + 1]
  BY <1>3, <1>5, <1>6
<1>8. ASSUME NEW i \in 1 .. k - 1 PROVE rest[i] = all[l - (k - 1) + i]
  <2>1. i + 1 \in 1 .. k /\ l - k + (i + 1) = l - (k - 1) + i
    BY <1>5
  <2>2. rest[i] = parts[i + 1]
    BY <1>2, <1>4
  <2>. QED
    BY <1>5, <2>1, <2>2
<1>9. Remaining(rest, call)
  BY <1>4, <1>5, <1>8 DEF Remaining
<1>10. Len(all) - Len(rest) = d + 1 /\ d = Len(all) - Len(parts)
  BY <1>4, <1>5, <1>6
<1>11. d + 1 \in 1 .. Len(all)
  BY <1>4, <1>5, <1>6
<1>. QED
  BY <1>2, <1>7, <1>9, <1>10, <1>11, Zenon

\* One symbol more.
LEMMA LineGrows ==
  ASSUME NEW mem, NEW call, NEW pos, NEW n \in Nat, NEW ln, NEW x \in Symbols,
         LineIs(mem, ln, call, pos, n), x = Symbol(mem, call, pos, n + 1)
  PROVE  LineIs(mem, Append(ln, x), call, pos, n + 1)
<1>. PICK more : more = Append(ln, x)
  OBVIOUS
<1>1. ln \in Seq(Symbols) /\ Len(ln) = n
      /\ \A i \in 1 .. n : ln[i] = Symbol(mem, call, pos, i)
  BY DEF LineIs
<1>2. /\ more \in Seq(Symbols) /\ Len(more) = n + 1 /\ more[n + 1] = x
      /\ \A i \in 1 .. n : more[i] = ln[i]
  BY <1>1, AppendProperties
<1>3. ASSUME NEW i \in 1 .. n + 1 PROVE more[i] = Symbol(mem, call, pos, i)
  <2>1. i \in 1 .. n \/ i = n + 1
    OBVIOUS
  <2>. QED
    BY <1>1, <1>2, <2>1, Zenon
<1>. QED
  BY <1>2, <1>3, Zenon DEF LineIs

LEMMA SendsText ==
  ASSUME DebugAssumption, NEW call \in CallType, Second(call),
         NEW parts \in Seq(STRING), parts # <<>>, Head(parts) # "number",
         Remaining(parts, call), NEW mem, NEW pos \in 1 .. BufferSize, NEW ln,
         LineIs(mem, ln, call, pos, Sent(call, parts, pos))
  PROVE  LineIs(mem, Append(ln, Head(parts)), call, pos, Sent(call, Tail(parts), pos))
<1>. PICK c \in Nat : c = Chars(pos)
  BY DEF Chars, DebugAssumption
<1>. PICK all \in Seq(STRING) : all = call.parts
  BY DEF CallType
<1>1. PICK d \in Nat :
        /\ d = Len(all) - Len(parts) /\ d + 1 \in 1 .. Len(all)
        /\ Head(parts) = all[d + 1] /\ Head(parts) \in STRING
        /\ Len(all) - Len(Tail(parts)) = d + 1
  BY NextPart
<1>2. Head(parts) \in Symbols
  BY <1>1 DEF Symbols
<1>3. HasNumber(call) => d # 1
  BY <1>1, HasNumberIs
<1>4. PICK n \in Nat : n = IF HasNumber(call) /\ d >= 2 THEN d - 1 + c ELSE d
  BY DEF HasNumber
<1>5. Sent(call, parts, pos) = n
  BY <1>1, <1>4 DEF Sent
<1>6. Sent(call, Tail(parts), pos) = n + 1
  BY <1>1, <1>3, <1>4 DEF Sent
<1>7. Symbol(mem, call, pos, n + 1) = all[d + 1]
  <2>1. CASE HasNumber(call) /\ d >= 2
    <3>2. n = d - 1 + c /\ d >= 2 /\ d \in Nat /\ c \in Nat /\ n \in Nat
      BY <1>4, <2>1
    <3>1. n + 1 = d + c /\ n + 1 # 1 /\ ~(n + 1 <= 1 + c) /\ (n + 1) + 1 - c = d + 1
      <4>1. d \in Nat /\ c \in Nat /\ n \in Nat
        BY <3>2
      <4>2. d >= 2
        BY <3>2
      <4>3. n = d - 1 + c
        BY <3>2
      <4>4. n + 1 = d + c
        BY <4>1, <4>2, <4>3
      <4>5. n + 1 # 1
        BY <4>1, <4>2, <4>3
      <4>6. ~(n + 1 <= 1 + c)
        BY <4>1, <4>2, <4>3
      <4>7. (n + 1) + 1 - c = d + 1
        BY <4>1, <4>2, <4>3
      <4>. QED
        BY <4>4, <4>5, <4>6, <4>7, Zenon
    <3>. QED
      BY <2>1, <3>1 DEF Symbol
  <2>2. CASE ~(HasNumber(call) /\ d >= 2)
    <3>1. n = d /\ (HasNumber(call) => n + 1 = 1)
      BY <1>3, <1>4, <2>2
    <3>. QED
      BY <3>1 DEF Symbol
  <2>. QED
    BY <2>1, <2>2
<1>. QED
  BY <1>1, <1>2, <1>5, <1>6, <1>7, LineGrows

\* The number is the second part.
LEMMA NumberNext ==
  ASSUME DebugAssumption, NEW call \in CallType, Second(call),
         NEW parts \in Seq(STRING), parts # <<>>, Head(parts) = "number",
         Remaining(parts, call), NEW pos \in 1 .. BufferSize
  PROVE  /\ HasNumber(call) /\ Sent(call, parts, pos) = 1
         /\ Sent(call, Tail(parts), pos) = 1 + Chars(pos)
<1>1. PICK d \in Nat :
        /\ d = Len(call.parts) - Len(parts) /\ d + 1 \in 1 .. Len(call.parts)
        /\ Head(parts) = call.parts[d + 1]
        /\ Len(call.parts) - Len(Tail(parts)) = d + 1
  BY NextPart
<1>2. d = 1
  BY <1>1 DEF Second
<1>3. Len(call.parts) \in Nat
  BY LenProperties DEF CallType
<1>4. HasNumber(call)
  BY <1>1, <1>2, <1>3, HasNumberIs
<1>5. Chars(pos) \in Nat
  BY DEF Chars, DebugAssumption
<1>. QED
  BY <1>1, <1>2, <1>4, <1>5 DEF Sent

LEMMA SendsDigit ==
  ASSUME DebugAssumption, NEW call, HasNumber(call),
         NEW mem \in [1 .. BufferSize -> Int], NEW pos \in 1 .. BufferSize, NEW ln,
         NEW from \in pos .. BufferSize - 1,
         LineIs(mem, ln, call, pos, 1 + from - pos)
  PROVE  LineIs(mem, Append(ln, mem[from]), call, pos, 1 + (from + 1) - pos)
<1>0. BufferSize \in Nat
  BY DEF DebugAssumption
<1>1. PICK n \in Nat : n = 1 + from - pos /\ n + 1 = 1 + (from + 1) - pos
  BY <1>0
<1>2. mem[from] \in Symbols
  BY <1>0 DEF Symbols
<1>3. n + 1 # 1 /\ n + 1 <= 1 + Chars(pos) /\ pos + (n + 1) - 2 = from
  BY <1>0, <1>1 DEF Chars
<1>4. Symbol(mem, call, pos, n + 1) = mem[from]
  BY <1>3, Zenon DEF Symbol
<1>. QED
  BY <1>1, <1>2, <1>4, LineGrows

\* strlen() of a number is where its terminator is.
LEMMA NumeralEnds ==
  ASSUME DebugAssumption, buf[BufferSize] = 0, NEW call,
         NEW pos \in 1 .. BufferSize, Numeral(buf, call, pos)
  PROVE  EndOf(pos) = BufferSize
<1>0. BufferSize \in Nat
  BY DEF DebugAssumption
<1>1. First(call) \in {1, 2} /\ (First(call) = 2 => Signed(call))
  BY DEF First
<1>2. PICK n \in Nat : n = BufferSize - pos - (First(call) - 1)
  BY <1>0, <1>1 DEF Numeral
<1>3. \A j \in 1 .. n : buf[BufferSize - j] >= 48
  BY <1>2 DEF Numeral, Written
<1>4. ASSUME NEW i \in pos .. BufferSize - 1 PROVE buf[i] # 0
  <2>1. CASE i = pos /\ Signed(call)
    BY <2>1 DEF Numeral
  <2>2. CASE ~(i = pos /\ Signed(call))
    <3>1. PICK j \in 1 .. n : i = BufferSize - j
      <4>1. BufferSize - i \in 1 .. n /\ i = BufferSize - (BufferSize - i)
        BY <1>0, <1>1, <1>2, <2>2
      <4>. QED
        BY <4>1
    <3>2. buf[i] >= 48
      BY <1>3, <3>1
    <3>3. ~(0 >= 48)
      OBVIOUS
    <3>. QED
      BY <3>2, <3>3, Zenon
  <2>. QED
    BY <2>1, <2>2
<1>. DEFINE IsEnd(e) == buf[e] = 0 /\ \A i \in pos .. e - 1 : buf[i] # 0
<1>5. BufferSize \in pos .. BufferSize /\ IsEnd(BufferSize)
  BY <1>0, <1>4
<1>6. \A e \in pos .. BufferSize : IsEnd(e) => e = BufferSize
  BY <1>0, <1>4
<1>7. EndOf(pos) = CHOOSE e \in pos .. BufferSize : IsEnd(e)
  BY DEF EndOf
<1>. HIDE DEF IsEnd
<1>. QED
  BY <1>5, <1>6, <1>7

\* What is written is what is to be shown.
LEMMA ShowsWritten ==
  ASSUME DebugAssumption, NEW mem, NEW v, NEW base, NEW room \in Int,
         NEW n \in 1 .. room, Written(mem, v, base, n),
         n < room => v < Power(base)[n], NEW digits, Len(digits) = n,
         \A i \in 1 .. n : digits[i] = mem[BufferSize - (n - i + 1)]
  PROVE  Shows(digits, v, base, room)
<1>0. BufferSize \in Nat
  BY DEF DebugAssumption
<1>. PICK p : p = Power(base)
  OBVIOUS
<1>1. /\ n > 1 => v >= p[n - 1]
      /\ \A j \in 1 .. n : Reading(mem[BufferSize - j]) = (v \div p[j - 1]) % base
  BY DEF Written
<1>2. ASSUME NEW i \in 1 .. n
      PROVE  Reading(digits[i]) = (v \div p[n - i]) % base
  <2>1. PICK j \in 1 .. n : j = n - i + 1 /\ j - 1 = n - i
    <3>1. n - i + 1 \in 1 .. n /\ (n - i + 1) - 1 = n - i
      OBVIOUS
    <3>. QED
      BY <3>1
  <2>2. digits[i] = mem[BufferSize - j]
    BY <2>1
  <2>. QED
    BY <1>1, <2>1, <2>2, Zenon
<1>. QED
  BY <1>1, <1>2, Zenon DEF Shows

\* The symbols of a text's number, and a number with its sign.
NumberAt(number, mem, pos) ==
  /\ number \in Seq(Symbols) /\ Len(number) = Chars(pos)
  /\ \A i \in 1 .. Chars(pos) : number[i] = mem[pos + i - 1]
ShowsSign(number, call) ==
  number[1] = 45 /\ Shows(Tail(number), Magnitude(call.value), call.base, BufferSize - 2)

LEMMA NumberIn ==
  ASSUME DebugAssumption, NEW call, HasNumber(call), NEW mem,
         NEW pos \in 1 .. BufferSize - 1, NEW ln, NEW n \in Nat,
         NEW c, c = Chars(pos), n >= 1 + c, LineIs(mem, ln, call, pos, n),
         NEW number, number = SubSeq(ln, 2, c + 1)
  PROVE  NumberAt(number, mem, pos)
<1>1. c \in Nat /\ c >= 1 /\ c = BufferSize - pos
  BY DEF Chars, DebugAssumption
<1>2. ln \in Seq(Symbols) /\ Len(ln) = n /\ n >= 1 + c
      /\ \A i \in 1 .. n : ln[i] = Symbol(mem, call, pos, i)
  BY <1>1 DEF LineIs
<1>3. \A i \in 1 .. n : ln[i] \in Symbols
  BY <1>2, ElementOfSeq
<1>4. /\ number \in Seq(Symbols) /\ Len(number) = c
      /\ \A i \in 1 .. c : number[i] = ln[i + 1]
  <2>1. 2 \in Int /\ c + 1 \in Int /\ 2 <= c + 1 /\ (c + 1) - 2 + 1 = c
    BY <1>1
  <2>2. \A i \in 2 .. c + 1 : ln[i] \in Symbols
    BY <1>1, <1>2, <1>3
  <2>3. /\ number \in Seq(Symbols)
        /\ Len(number) = (c + 1) - 2 + 1
        /\ \A i \in 1 .. (c + 1) - 2 + 1 : number[i] = ln[2 + i - 1]
    BY <2>1, <2>2, SubSeqProperties
  <2>4. \A i \in 1 .. c : 2 + i - 1 = i + 1
    BY <1>1
  <2>. QED
    BY <2>1, <2>3, <2>4
<1>5. ASSUME NEW i \in 1 .. c PROVE number[i] = mem[pos + i - 1]
  <2>1. PICK k \in 1 .. n : k = i + 1 /\ k # 1 /\ k <= 1 + c /\ pos + k - 2 = pos + i - 1
    <3>1. i + 1 \in 1 .. n /\ i + 1 # 1 /\ i + 1 <= 1 + c /\ pos + (i + 1) - 2 = pos + i - 1
      BY <1>1, <1>2
    <3>. QED
      BY <3>1
  <2>2. number[i] = Symbol(mem, call, pos, k)
    BY <1>2, <1>4, <2>1
  <2>3. Symbol(mem, call, pos, k) = mem[pos + k - 2]
    BY <1>1, <2>1, Zenon DEF Symbol
  <2>. QED
    BY <2>1, <2>2, <2>3
<1>. QED
  BY <1>4, <1>5 DEF NumberAt

LEMMA FirstIsOne ==
  ASSUME NEW call
  PROVE  /\ Signed(call) => First(call) = 2
         /\ ~Signed(call) => First(call) = 1 /\ Magnitude(call.value) = call.value
BY DEF First, Signed, Magnitude

\* A number that follows its sign, and one without.
LEMMA ShowsSigned ==
  ASSUME DebugAssumption, NEW call \in CallType, NEW mem, Signed(call),
         NEW pos \in 1 .. BufferSize, Numeral(mem, call, pos),
         NEW number, NumberAt(number, mem, pos)
  PROVE  ShowsSign(number, call)
<1>0. BufferSize \in Nat
  BY DEF DebugAssumption
<1>1a. /\ number \in Seq(Symbols) /\ Len(number) = Chars(pos)
      /\ \A i \in 1 .. Chars(pos) : number[i] = mem[pos + i - 1]
  BY DEF NumberAt
<1>1. First(call) = 2
  BY FirstIsOne
<1>2. PICK n : n = BufferSize - pos - (First(call) - 1)
  OBVIOUS
<1>3. PICK c : c = Chars(pos)
  OBVIOUS
<1>4. c = n + 1 /\ n \in 1 .. BufferSize - 2
  BY <1>0, <1>1, <1>2, <1>3 DEF Numeral, Chars
<1>5. number[1] = 45
  <2>1. 1 \in 1 .. c /\ pos + 1 - 1 = pos
    BY <1>4
  <2>2. number[1] = mem[pos]
    BY <1>1a, <1>3, <2>1
  <2>3. mem[pos] = 45
    BY Zenon DEF Numeral
  <2>. QED
    BY <2>2, <2>3
<1>6. PICK digits : digits = Tail(number)
  OBVIOUS
<1>7. number # <<>>
  <2>1. Len(<<>>) = 0 /\ ~(0 = c)
    BY <1>4
  <2>. QED
    BY <1>1a, <1>3, <2>1, Zenon
<1>8. Len(digits) = n /\ \A i \in 1 .. n : digits[i] = number[i + 1]
  <2>1. /\ Len(digits) = Len(number) - 1
        /\ \A i \in 1 .. Len(digits) : digits[i] = number[i + 1]
    BY <1>1a, <1>6, <1>7, HeadTailProperties
  <2>2. Len(number) = c
    BY <1>1a, <1>3
  <2>3. Len(digits) = n
    BY <1>4, <2>1, <2>2
  <2>. QED
    BY <2>1, <2>3, Zenon
<1>9. \A i \in 1 .. n : digits[i] = mem[BufferSize - (n - i + 1)]
  <2>. TAKE i \in 1 .. n
  <2>1. i + 1 \in 1 .. c /\ pos + (i + 1) - 1 = BufferSize - (n - i + 1)
    BY <1>0, <1>1, <1>2, <1>4
  <2>2. number[i + 1] = mem[pos + (i + 1) - 1]
    BY <1>1a, <1>3, <2>1
  <2>. QED
    BY <1>8, <2>1, <2>2
<1>10. PICK room : room = BufferSize - 2
  OBVIOUS
<1>11. room \in Int /\ n \in 1 .. room
  BY <1>0, <1>4, <1>10
<1>12. PICK v : v = Magnitude(call.value)
  OBVIOUS
<1>13. Written(mem, v, call.base, n) /\ (n < room => v < Power(call.base)[n])
  BY <1>1, <1>2, <1>10, <1>12, Zenon DEF Numeral
<1>14. Shows(digits, v, call.base, room)
  <2>1. Len(digits) = n /\ n \in 1 .. room /\ room \in Int
    BY <1>8, <1>11
  <2>. QED
    BY <1>9, <1>13, <2>1, ShowsWritten, Zenon
<1>. QED
  BY <1>5, <1>6, <1>10, <1>12, <1>14, Zenon DEF ShowsSign

LEMMA ShowsUnsigned ==
  ASSUME DebugAssumption, NEW call \in CallType, NEW mem, ~Signed(call),
         NEW pos \in 1 .. BufferSize, Numeral(mem, call, pos),
         NEW number, NumberAt(number, mem, pos)
  PROVE  Shows(number, call.value, call.base, BufferSize - 1)
<1>0. BufferSize \in Nat
  BY DEF DebugAssumption
<1>1a. /\ number \in Seq(Symbols) /\ Len(number) = Chars(pos)
      /\ \A i \in 1 .. Chars(pos) : number[i] = mem[pos + i - 1]
  BY DEF NumberAt
<1>1. First(call) = 1 /\ Magnitude(call.value) = call.value
  BY FirstIsOne
<1>2. PICK n : n = BufferSize - pos - (First(call) - 1)
  OBVIOUS
<1>3. n = Chars(pos) /\ n \in 1 .. BufferSize - 1
  BY <1>0, <1>1, <1>2 DEF Numeral, Chars
<1>4. \A i \in 1 .. n : number[i] = mem[BufferSize - (n - i + 1)]
  <2>. TAKE i \in 1 .. n
  <2>1. pos + i - 1 = BufferSize - (n - i + 1)
    BY <1>0, <1>1, <1>2, <1>3
  <2>2. number[i] = mem[pos + i - 1]
    BY <1>1a, <1>3
  <2>. QED
    BY <2>1, <2>2
<1>5. PICK room : room = BufferSize - 1
  OBVIOUS
<1>6. room \in Int /\ n \in 1 .. room
  BY <1>0, <1>3, <1>5
<1>7. PICK v : v = Magnitude(call.value)
  OBVIOUS
<1>8. Written(mem, v, call.base, n) /\ (n < room => v < Power(call.base)[n])
  BY <1>1, <1>2, <1>5, <1>7, Zenon DEF Numeral
<1>9. Len(number) = n
  BY <1>1a, <1>3
<1>10. Shows(number, v, call.base, room)
  BY <1>4, <1>6, <1>8, <1>9, ShowsWritten
<1>. QED
  BY <1>1, <1>5, <1>7, <1>10

\* With all its parts gone a text is sent, and its number with it.
LEMMA NumberComplete ==
  ASSUME DebugAssumption, NEW call \in CallType, HasNumber(call), NEW mem,
         NEW pos \in 1 .. BufferSize, Numeral(mem, call, pos), NEW ln,
         NEW k, k = Len(call.parts) - 1 + Chars(pos), Len(call.parts) >= 2,
         LineIs(mem, ln, call, pos, k)
  PROVE  IsText(ln, call)
<1>0. BufferSize \in Nat
  BY DEF DebugAssumption
<1>1. PICK parts \in Seq(STRING) : parts = call.parts
  BY DEF CallType
<1>2. PICK l \in Nat : l = Len(parts)
  BY LenProperties
<1>3. PICK c : c = Chars(pos)
  OBVIOUS
<1>4. pos \in 1 .. BufferSize - 1 /\ c \in Nat /\ c >= 1 /\ c = BufferSize - pos
  <2>1. BufferSize - pos - (First(call) - 1) >= 1
    BY <1>0, FirstIs DEF Numeral
  <2>. QED
    BY <1>0, <1>3, <2>1, FirstIs DEF Chars
<1>5. l >= 2 /\ k = l - 1 + c /\ k \in Nat /\ k >= 1 + c
  <2>1. l >= 2 /\ k = l - 1 + c
    BY <1>1, <1>2, <1>3
  <2>. QED
    BY <1>4, <2>1
<1>6. ln \in Seq(Symbols) /\ Len(ln) = k
      /\ \A i \in 1 .. k : ln[i] = Symbol(mem, call, pos, i)
  BY DEF LineIs
<1>7. ln[1] = call.parts[1]
  <2>1. 1 \in 1 .. k
    BY <1>4, <1>5
  <2>2. Symbol(mem, call, pos, 1) = call.parts[1]
    BY Zenon DEF Symbol
  <2>. QED
    BY <1>6, <2>1, <2>2, Zenon
<1>8. ASSUME NEW i \in 3 .. l PROVE ln[i + c - 1] = call.parts[i]
  <2>1. PICK j : j = i + c - 1
    OBVIOUS
  <2>2. i \in Int /\ 3 <= i /\ i <= l
    BY <1>2
  <2>3. j \in 1 .. k /\ j # 1
    <3>1. c \in Nat /\ c >= 1 /\ k = l - 1 + c
      BY <1>4, <1>5
    <3>2. j \in Int /\ 3 <= j /\ j <= k
      BY <2>1, <2>2, <3>1
    <3>. QED
      BY <1>5, <3>2
  <2>4. ~(j <= 1 + c)
    BY <1>4, <1>5, <2>1, <2>2
  <2>5. j + 1 - c = i
    BY <1>4, <1>5, <2>1, <2>2
  <2>6. Symbol(mem, call, pos, j) = call.parts[j + 1 - c]
    BY <1>3, <2>3, <2>4, Zenon DEF Symbol
  <2>. QED
    BY <1>6, <2>1, <2>3, <2>5, <2>6, Zenon
<1>9. Len(ln) - Len(call.parts) + 1 = c
  <2>1. Len(ln) = k /\ Len(call.parts) = l
    BY <1>1, <1>2, <1>6
  <2>2. k - l + 1 = c
    BY <1>4, <1>5
  <2>. QED
    BY <2>1, <2>2, Zenon
<1>10. PICK number : number = SubSeq(ln, 2, c + 1)
  OBVIOUS
<1>11. NumberAt(number, mem, pos)
  <2>1. k >= 1 + Chars(pos)
    BY <1>3, <1>5
  <2>2. number = SubSeq(ln, 2, Chars(pos) + 1)
    BY <1>3, <1>10, Zenon
  <2>3. pos \in 1 .. BufferSize - 1
    BY <1>4
  <2>4. k \in Nat
    BY <1>5
  <2>. QED
    BY <2>1, <2>2, <2>3, <2>4, NumberIn, Zenon
<1>12. Signed(call) => ShowsSign(number, call)
  BY <1>11, ShowsSigned, Zenon
<1>13. ~Signed(call) => Shows(number, call.value, call.base, BufferSize - 1)
  BY <1>11, ShowsUnsigned
<1>14. PICK chars : chars = Len(ln) - Len(call.parts) + 1
  OBVIOUS
<1>15. chars = c /\ l = Len(call.parts)
  BY <1>1, <1>2, <1>9, <1>14, Zenon
<1>16. number = SubSeq(ln, 2, chars + 1) /\ chars >= 1
  BY <1>4, <1>10, <1>15
<1>17. \A i \in 3 .. Len(call.parts) : ln[i + chars - 1] = call.parts[i]
  BY <1>8, <1>15, Zenon
<1>. QED
  BY <1>7, <1>12, <1>13, <1>14, <1>16, <1>17, Zenon DEF IsText, ShowsSign

LEMMA TextComplete ==
  ASSUME DebugAssumption, NEW call \in CallType, Second(call), NEW mem,
         NEW pos \in 1 .. BufferSize, HasNumber(call) => Numeral(mem, call, pos),
         NEW ln, LineIs(mem, ln, call, pos, Sent(call, <<>>, pos))
  PROVE  IsText(ln, call)
<1>1. PICK parts \in Seq(STRING) : parts = call.parts
  BY DEF CallType
<1>2. PICK l \in Nat : l = Len(parts)
  BY LenProperties
<1>3. Len(<<>>) = 0
  OBVIOUS
<1>4. CASE ~HasNumber(call)
  <2>1. Sent(call, <<>>, pos) = l
    BY <1>1, <1>2, <1>3, <1>4 DEF Sent
  <2>2. ln \in Seq(Symbols) /\ Len(ln) = l /\ \A i \in 1 .. l : ln[i] = parts[i]
    BY <1>1, <1>4, <2>1 DEF LineIs, Symbol
  <2>3. parts \in Seq(Symbols)
    BY DEF Symbols
  <2>4. ln = parts
    BY <1>2, <2>2, <2>3, SeqEqual
  <2>. QED
    BY <1>1, <1>4, <2>4 DEF IsText
<1>5. CASE HasNumber(call)
  <2>1. Len(call.parts) >= 2
    BY <1>5, HasNumberIs
  <2>2. Sent(call, <<>>, pos) = Len(call.parts) - 1 + Chars(pos)
    <3>1. l >= 2 /\ l - 0 >= 2 /\ (l - 0) - 1 = l - 1
      BY <1>1, <1>2, <2>1
    <3>. QED
      BY <1>1, <1>2, <1>3, <1>5, <3>1 DEF Sent
  <2>. QED
    BY <1>5, <2>1, <2>2, NumberComplete
<1>. QED
  BY <1>4, <1>5

-----------------------------------------------------------------------------
(* The tasks between them.                                                 *)

Busy(s) == s.pc \in {"terminate", "digits", "send", "sending"}
Value(s) == Magnitude(s.call.value)

\* What a task has converted and sent, where it is in its call.
Told(mem, ln, s) ==
  /\ Second(s.call)
  /\ s.pc \in {"lock", "terminate", "digits"} => s.parts = s.call.parts
  /\ s.pc \in {"lock", "terminate"} => s.pos = BufferSize
Converting(mem, ln, s) ==
  /\ s.pc \in {"terminate", "digits"} => HasNumber(s.call) /\ ln = <<>>
  /\ s.pc = "digits" =>
       /\ Written(mem, Value(s), s.call.base, Chars(s.pos))
       /\ Left(s.rest, Value(s), s.call.base, Chars(s.pos))
Telling(mem, ln, s) ==
  /\ s.pc \in {"send", "sending"} =>
       /\ Remaining(s.parts, s.call)
       /\ HasNumber(s.call) => Numeral(mem, s.call, s.pos)
  /\ s.pc = "send" => LineIs(mem, ln, s.call, s.pos, Sent(s.call, s.parts, s.pos))
  /\ s.pc = "sending" /\ Head(s.parts) # "number" =>
       LineIs(mem, ln, s.call, s.pos, Sent(s.call, s.parts, s.pos))
  /\ s.pc = "sending" /\ Head(s.parts) = "number" =>
       /\ s.from \in s.pos .. BufferSize /\ s.upto = BufferSize
       /\ LineIs(mem, ln, s.call, s.pos, 1 + s.from - s.pos)
Right(mem, ln, s) == Told(mem, ln, s) /\ Converting(mem, ln, s) /\ Telling(mem, ln, s)

\* The mutex keeps the busy tasks apart, and the UART is free for the one.
TextKept ==
  /\ \A t \in Tasks : Busy(task[t]) => mutex = t
  /\ (\A t \in Tasks : task[t].pc # "sending") => ready
  /\ \A t \in Tasks : Right(buf, line, task[t])

TextInv == late \/ TextKept

Quiet(t) == \A u \in Tasks \ {t} : ~Busy(task[u])

\* Of a task that is not busy the buffer and the line say nothing.
LEMMA RightIdle ==
  ASSUME NEW s, ~Busy(s), NEW mem, NEW ln, Right(mem, ln, s), NEW mem2, NEW ln2
  PROVE  Right(mem2, ln2, s)
<1>1. s.pc \notin {"terminate", "digits", "send", "sending"}
  BY DEF Busy
<1>2. Told(mem2, ln2, s)
  BY Zenon DEF Right, Told
<1>3. Converting(mem2, ln2, s)
  BY <1>1, Zenon DEF Converting
<1>4. Telling(mem2, ln2, s)
  BY <1>1, Zenon DEF Telling
<1>. QED
  BY <1>2, <1>3, <1>4, Zenon DEF Right

LEMMA BusyOwns ==
  ASSUME TextKept, NEW t \in Tasks, Busy(task[t])
  PROVE  mutex = t /\ Quiet(t)
BY Zenon DEF TextKept, Quiet

\* One task moves: either it alone is busy, or what the others look at stays.
LEMMA KeptMoves ==
  ASSUME DebugInv, TextKept, NEW t \in Tasks, NEW s,
         task' = [task EXCEPT ![t] = s], Right(buf', line', s),
         \/ s.pc = "sending" \/ ready' = TRUE
         \/ task[t].pc # "sending" /\ UNCHANGED ready,
         \/ Quiet(t) /\ (Busy(s) => mutex' = t)
         \/ ~Busy(s) /\ UNCHANGED <<mutex, buf, line>>
  PROVE  TextKept'
<1>1. /\ task'[t] = s
      /\ \A u \in Tasks : u # t => task'[u] = task[u]
  BY DEF DebugInv, DebugTypes
<1>2. ASSUME NEW u \in Tasks, Busy(task'[u]) PROVE mutex' = u
  <2>1. CASE u = t
    BY <1>1, <1>2, <2>1, Zenon DEF TextKept
  <2>2. CASE u # t
    <3>1. Busy(task[u])
      BY <1>1, <1>2, <2>2, Zenon
    <3>2. ~Quiet(t) /\ mutex = u
      BY <2>2, <3>1, Zenon DEF Quiet, TextKept
    <3>. QED
      BY <3>2, Zenon
  <2>. QED
    BY <2>1, <2>2
<1>3. ASSUME \A u \in Tasks : task'[u].pc # "sending" PROVE ready'
  <2>1. s.pc # "sending"
    BY <1>1, <1>3, Zenon
  <2>2. ASSUME task[t].pc # "sending", UNCHANGED ready PROVE ready'
    <3>1. \A u \in Tasks : task[u].pc # "sending"
      BY <1>1, <1>3, <2>2, Zenon
    <3>. QED
      BY <2>2, <3>1, Zenon DEF TextKept
  <2>. QED
    BY <2>1, <2>2
<1>4. ASSUME NEW u \in Tasks PROVE Right(buf', line', task'[u])
  <2>1. CASE u = t
    BY <1>1, <2>1, Zenon
  <2>2. CASE u # t
    <3>1. Right(buf, line, task[u]) /\ task'[u] = task[u]
      BY <1>1, <2>2, Zenon DEF TextKept
    <3>2. CASE Quiet(t)
      <4>1. ~Busy(task[u])
        BY <2>2, <3>2, Zenon DEF Quiet
      <4>2. PICK r, mem, ln : r = task[u] /\ mem = buf' /\ ln = line'
        OBVIOUS
      <4>3. Right(mem, ln, r)
        BY <3>1, <4>1, <4>2, RightIdle, Zenon
      <4>. QED
        BY <3>1, <4>2, <4>3, Zenon
    <3>3. CASE UNCHANGED <<mutex, buf, line>>
      BY <3>1, <3>3, Zenon
    <3>. QED
      BY <3>2, <3>3
  <2>. QED
    BY <2>1, <2>2
<1>. QED
  BY <1>2, <1>3, <1>4, Zenon DEF TextKept

LEMMA NothingSent ==
  ASSUME NEW call \in CallType, NEW mem, NEW pos
  PROVE  /\ LineIs(mem, <<>>, call, pos, Sent(call, call.parts, pos))
         /\ Remaining(call.parts, call)
<1>. PICK parts \in Seq(STRING) : parts = call.parts
  BY DEF CallType
<1>1. PICK l \in Nat : l = Len(parts)
  BY LenProperties
<1>2. Sent(call, call.parts, pos) = 0
  BY <1>1 DEF Sent
<1>3. LineIs(mem, <<>>, call, pos, 0)
  BY DEF LineIs
<1>4. Remaining(parts, call)
  BY <1>1 DEF Remaining
<1>. QED
  BY <1>2, <1>3, <1>4

LEMMA StartText ==
  ASSUME DebugAssumption, CallsTyped, NumbersSecond, DebugInv, TextKept,
         NEW t \in Tasks, NEW call \in Calls, Start(t, call)
  PROVE  TextKept'
<1>1. PICK s : s = [Resting EXCEPT !.pc = "lock", !.call = call, !.parts = call.parts]
  OBVIOUS
<1>2. /\ s.pc = "lock" /\ s.call = call /\ s.parts = call.parts /\ s.pos = BufferSize
  BY <1>1 DEF Resting
<1>3. Second(call)
  BY DEF NumbersSecond
<1>4. ~Busy(s)
  BY <1>2 DEF Busy
<1>5. PICK mem, ln : mem = buf' /\ ln = line'
  OBVIOUS
<1>6. Right(mem, ln, s)
  BY <1>2, <1>3 DEF Right, Told, Converting, Telling
<1>7. /\ task' = [task EXCEPT ![t] = s] /\ task[t].pc = "idle"
      /\ UNCHANGED <<mutex, buf, ready, line>>
  BY <1>1 DEF Start, At
<1>. QED
  BY <1>4, <1>5, <1>6, <1>7, KeptMoves

\* The mutex is free: no task is busy.
LEMMA LockText ==
  ASSUME DebugAssumption, DebugInv, TextKept, NEW t \in Tasks, Lock(t)
  PROVE  TextKept'
<1>1. PICK r : r = task[t]
  OBVIOUS
<1>2. /\ r \in TaskType /\ r.pc = "lock" /\ task \in [Tasks -> TaskType]
      /\ mutex = NoTask /\ mutex' = t /\ UNCHANGED ready
  BY <1>1 DEF DebugInv, DebugTypes, Lock, At, MayTake
<1>3. Quiet(t)
  BY <1>2, Zenon DEF Quiet, TextKept, DebugAssumption
<1>4. PICK label : label = IF HasNumber(r.call) THEN "terminate" ELSE "send"
  OBVIOUS
<1>5. PICK s : s = [r EXCEPT !.pc = label]
  OBVIOUS
<1>6. /\ s.pc = label /\ s.call = r.call /\ s.parts = r.parts /\ s.pos = r.pos
      /\ r.call \in CallType
  BY <1>2, <1>5 DEF TaskType
<1>7. task' = [task EXCEPT ![t] = s]
  BY <1>1, <1>2, <1>4, <1>5 DEF Lock, Inside, Goto
<1>8. PICK mem, ln : mem = buf' /\ ln = line'
  OBVIOUS
<1>9. ln = <<>>
  BY <1>8 DEF Lock
<1>10. Right(buf, line, r)
  BY <1>1, Zenon DEF TextKept
<1>11. Second(r.call) /\ r.parts = r.call.parts /\ r.pos = BufferSize
  BY <1>2, <1>10 DEF Right, Told
<1>12. Told(mem, ln, s) /\ Converting(mem, ln, s)
  BY <1>4, <1>6, <1>9, <1>11 DEF Told, Converting
<1>13. Telling(mem, ln, s)
  <2>1. CASE HasNumber(r.call)
    BY <1>4, <1>6, <2>1 DEF Telling
  <2>2. CASE ~HasNumber(r.call)
    <3>1. s.pc = "send" /\ ~HasNumber(s.call)
      BY <1>4, <1>6, <2>2
    <3>2. /\ LineIs(mem, ln, s.call, s.pos, Sent(s.call, s.parts, s.pos))
          /\ Remaining(s.parts, s.call)
      BY <1>6, <1>9, <1>11, NothingSent
    <3>. QED
      BY <3>1, <3>2 DEF Telling
  <2>. QED
    BY <2>1, <2>2
<1>14. Right(mem, ln, s)
  BY <1>12, <1>13 DEF Right
<1>. QED
  BY <1>1, <1>2, <1>3, <1>7, <1>8, <1>14, KeptMoves

LEMMA UnlockText ==
  ASSUME DebugAssumption, DebugInv, TextKept, NEW t \in Tasks, Unlock(t)
  PROVE  TextKept'
<1>1. task[t].pc = "send" /\ UNCHANGED ready
  BY DEF Unlock, At
<1>2. Quiet(t)
  BY <1>1, BusyOwns DEF Busy
<1>3. Resting.pc = "idle" /\ Resting.call.parts = <<>>
  BY DEF Resting, NoCall
<1>4. ~Busy(Resting)
  BY <1>3 DEF Busy
<1>5. PICK mem, ln : mem = buf' /\ ln = line'
  OBVIOUS
<1>6. Right(mem, ln, Resting)
  <2>1. Second(Resting.call)
    BY <1>3 DEF Second
  <2>. QED
    BY <1>3, <2>1 DEF Right, Told, Converting, Telling
<1>7. task' = [task EXCEPT ![t] = Resting]
  BY DEF Unlock
<1>8. task[t].pc # "sending"
  BY <1>1
<1>. QED
  BY <1>1, <1>2, <1>4, <1>5, <1>6, <1>7, <1>8, KeptMoves

\* A busy task that stays busy.
LEMMA BusyMoves ==
  ASSUME DebugInv, TextKept, NEW t \in Tasks, Busy(task[t]), NEW s,
         task' = [task EXCEPT ![t] = s], Right(buf', line', s), UNCHANGED mutex,
         s.pc = "sending" \/ ready' = TRUE \/ (task[t].pc # "sending" /\ UNCHANGED ready)
  PROVE  TextKept'
<1>1. Quiet(t) /\ mutex' = t
  BY BusyOwns
<1>. QED
  BY <1>1, KeptMoves

LEMMA TerminateText ==
  ASSUME DebugAssumption, DebugInv, TextKept, NEW t \in Tasks, Terminate(t)
  PROVE  TextKept'
<1>1. PICK r : r = task[t]
  OBVIOUS
<1>2. /\ r \in TaskType /\ r.pc = "terminate" /\ task \in [Tasks -> TaskType]
      /\ UNCHANGED <<mutex, ready, line>> /\ Right(buf, line, r)
  BY <1>1 DEF DebugInv, DebugTypes, Terminate, At, TextKept
<1>3. PICK v \in Nat : v = Magnitude(r.call.value)
  BY <1>2 DEF TaskType, CallType, Magnitude
<1>4. PICK s : s = [r EXCEPT !.pc = "digits", !.rest = v]
  OBVIOUS
<1>5. /\ s.pc = "digits" /\ s.call = r.call /\ s.parts = r.parts /\ s.pos = r.pos
      /\ s.rest = v /\ r.call \in CallType
  BY <1>2, <1>4 DEF TaskType
<1>6. task' = [task EXCEPT ![t] = s]
  BY <1>1, <1>2, <1>3, <1>4 DEF Terminate
<1>7. PICK mem, ln : mem = buf' /\ ln = line'
  OBVIOUS
<1>8. /\ Second(r.call) /\ r.parts = r.call.parts /\ r.pos = BufferSize
      /\ HasNumber(r.call) /\ line = <<>>
  BY <1>2 DEF Right, Told, Converting
<1>9. Chars(s.pos) = 0
  BY <1>5, <1>8 DEF Chars, DebugAssumption
<1>10. PICK base \in Nat \ {0} : base = r.call.base
  BY <1>5 DEF CallType
<1>11. Written(mem, v, base, 0)
  BY DEF Written
<1>12. Left(v, v, base, 0)
  <2>1. Power(base)[0] = 1
    BY PowerIs
  <2>2. v \div 1 = v
    OBVIOUS
  <2>. QED
    BY <2>1, <2>2, Zenon DEF Left
<1>13. Value(s) = v
  BY <1>3, <1>5 DEF Value
<1>14. Told(mem, ln, s)
  BY <1>5, <1>8 DEF Told
<1>15. Converting(mem, ln, s)
  BY <1>2, <1>5, <1>7, <1>8, <1>9, <1>10, <1>11, <1>12, <1>13, Zenon DEF Converting
<1>16. Telling(mem, ln, s)
  BY <1>5 DEF Telling
<1>17. Right(mem, ln, s)
  BY <1>14, <1>15, <1>16 DEF Right
<1>. QED
  BY <1>1, <1>2, <1>6, <1>7, <1>17, BusyMoves DEF Busy

LEMMA DigitText ==
  ASSUME DebugAssumption, DebugInv, TextKept, NEW t \in Tasks, Digit(t)
  PROVE  TextKept'
<1>0. BufferSize \in Nat /\ BufferSize >= 3
  BY DEF DebugAssumption
<1>1. PICK r : r = task[t]
  OBVIOUS
<1>2. /\ r \in TaskType /\ r.pc = "digits" /\ task \in [Tasks -> TaskType]
      /\ UNCHANGED <<mutex, ready, line>> /\ Right(buf, line, r)
      /\ Apart(r) /\ MoreDigits(r) /\ buf \in [1 .. BufferSize -> Int]
  BY <1>1 DEF DebugInv, DebugTypes, Digit, At, TextKept
<1>3. PICK pos \in 1 .. BufferSize, base \in Nat \ {0}, rest \in Nat, call \in CallType :
        pos = r.pos /\ base = r.call.base /\ rest = r.rest /\ call = r.call
  BY <1>2 DEF TaskType, CallType
<1>4. PICK v \in Nat : v = Magnitude(call.value)
  BY DEF CallType, Magnitude
<1>5. PICK n : n = Chars(pos)
  OBVIOUS
<1>6. /\ Second(call) /\ r.parts = call.parts /\ HasNumber(call) /\ line = <<>>
      /\ Written(buf, v, base, n) /\ Left(rest, v, base, n)
  BY <1>2, <1>3, <1>4, <1>5 DEF Right, Told, Converting, Value
<1>7. /\ pos >= First(call) /\ (pos = BufferSize \/ (rest > 0 /\ pos # First(call)))
  BY <1>2, <1>3 DEF Apart, MoreDigits
<1>8. n = BufferSize - pos /\ n \in 0 .. BufferSize - 2 /\ (n > 0 => rest > 0)
  BY <1>0, <1>5, <1>7, FirstIs DEF Chars
<1>9. PICK at : at = pos - 1
  OBVIOUS
<1>10. at = BufferSize - (n + 1) /\ Chars(at) = n + 1
  BY <1>0, <1>8, <1>9 DEF Chars
<1>11. PICK mem, ln : mem = buf' /\ ln = line'
  OBVIOUS
<1>12. mem = [buf EXCEPT ![at] = Char(rest % base)]
  BY <1>1, <1>3, <1>9, <1>11 DEF Digit
<1>13. PICK old : old = buf
  OBVIOUS
<1>14. Written(mem, v, base, n + 1) /\ Left(rest \div base, v, base, n + 1)
  <2>1. /\ old \in [1 .. BufferSize -> Int] /\ Written(old, v, base, n)
        /\ mem = [old EXCEPT ![at] = Char(rest % base)]
    BY <1>2, <1>6, <1>12, <1>13
  <2>. QED
    BY <1>6, <1>8, <1>10, <2>1, WritesDigit
<1>15. PICK more : more = rest \div base
  OBVIOUS
<1>16. PICK s : s = [r EXCEPT !.pos = at, !.rest = more]
  OBVIOUS
<1>17. /\ s.pc = "digits" /\ s.call = call /\ s.parts = r.parts /\ s.pos = at
       /\ s.rest = more
  BY <1>2, <1>3, <1>16 DEF TaskType
<1>18. task' = [task EXCEPT ![t] = s]
  BY <1>1, <1>2, <1>3, <1>9, <1>15, <1>16 DEF Digit
<1>19. Told(mem, ln, s) /\ Telling(mem, ln, s)
  BY <1>6, <1>17 DEF Told, Telling
<1>20. Converting(mem, ln, s)
  <2>1. Value(s) = v /\ s.call.base = base
    BY <1>3, <1>4, <1>17 DEF Value
  <2>2. ln = <<>>
    BY <1>2, <1>6, <1>11
  <2>. QED
    BY <1>6, <1>10, <1>14, <1>15, <1>17, <2>1, <2>2, Zenon DEF Converting
<1>21. Right(mem, ln, s)
  BY <1>19, <1>20 DEF Right
<1>. QED
  BY <1>1, <1>2, <1>11, <1>18, <1>21, BusyMoves DEF Busy

\* No digit is left, or no place: with its sign the number is written.
LEMMA DigitsDone ==
  ASSUME DebugAssumption, NEW call \in CallType, NEW pos \in 1 .. BufferSize,
         NEW mem \in [1 .. BufferSize -> Int], NEW rest \in Nat,
         Written(mem, Magnitude(call.value), call.base, Chars(pos)),
         Left(rest, Magnitude(call.value), call.base, Chars(pos)),
         pos >= First(call), pos # BufferSize, ~(rest > 0 /\ pos # First(call)),
         NEW at, NEW new,
         Signed(call) => at = pos - 1 /\ new = [mem EXCEPT ![at] = 45],
         ~Signed(call) => at = pos /\ new = mem
  PROVE  Numeral(new, call, at)
<1>0. BufferSize \in Nat /\ BufferSize >= 3
  BY DEF DebugAssumption
<1>1. PICK n : n = Chars(pos)
  OBVIOUS
<1>2. PICK v \in Nat : v = Magnitude(call.value)
  BY DEF CallType, Magnitude
<1>3. PICK first \in {1, 2} :
        first = First(call) /\ (Signed(call) => first = 2) /\ (~Signed(call) => first = 1)
  BY FirstIs, FirstIsOne
<1>4. /\ n = BufferSize - pos /\ n \in 1 .. BufferSize - first
      /\ n = BufferSize - at - (first - 1)
  BY <1>0, <1>1, <1>3 DEF Chars
<1>5. \A j \in 1 .. n : new[BufferSize - j] = mem[BufferSize - j]
  <2>. TAKE j \in 1 .. n
  <2>1. BufferSize - j \in 1 .. BufferSize /\ BufferSize - j # pos - 1
    BY <1>0, <1>4
  <2>. QED
    BY <2>1
<1>6. Written(new, v, call.base, n)
  <2>1. Written(mem, v, call.base, n)
    BY <1>1, <1>2, Zenon
  <2>. QED
    BY <1>5, <2>1, Zenon DEF Written
<1>7. Signed(call) => new[at] = 45
  <2>. SUFFICES ASSUME Signed(call) PROVE new[at] = 45
    OBVIOUS
  <2>1. at \in 1 .. BufferSize /\ new = [mem EXCEPT ![at] = 45]
    BY <1>0, <1>3
  <2>. QED
    BY <2>1
<1>8. ASSUME n < BufferSize - first PROVE v < Power(call.base)[n]
  <2>. PICK base \in Nat \ {0} : base = call.base
    BY DEF CallType
  <2>1. pos # first
    BY <1>0, <1>4, <1>8
  <2>2. rest = 0
    BY <1>3, <2>1
  <2>3. PICK p \in Nat \ {0} : p = Power(base)[n]
    <3>1. n \in 0 .. BufferSize
      BY <1>0, <1>3, <1>4
    <3>. QED
      BY <3>1, PowerIs
  <2>4. v \div p = 0
    BY <1>1, <1>2, <2>2, <2>3, Zenon DEF Left
  <2>5. v < p
    BY <2>4
  <2>. QED
    BY <2>3, <2>5, Zenon
<1>. QED
  BY <1>2, <1>3, <1>4, <1>6, <1>7, <1>8, Zenon DEF Numeral

LEMMA SignText ==
  ASSUME DebugAssumption, DebugInv, TextKept, NEW t \in Tasks, Sign(t)
  PROVE  TextKept'
<1>1. PICK r : r = task[t]
  OBVIOUS
<1>2. /\ r \in TaskType /\ r.pc = "digits" /\ task \in [Tasks -> TaskType]
      /\ UNCHANGED <<mutex, ready, line>> /\ Right(buf, line, r)
      /\ Apart(r) /\ ~MoreDigits(r) /\ buf \in [1 .. BufferSize -> Int]
  BY <1>1 DEF DebugInv, DebugTypes, Sign, At, TextKept
<1>3. PICK pos \in 1 .. BufferSize, rest \in Nat, call \in CallType :
        pos = r.pos /\ rest = r.rest /\ call = r.call
  BY <1>2 DEF TaskType
<1>4. /\ Second(call) /\ r.parts = call.parts /\ HasNumber(call) /\ line = <<>>
      /\ Written(buf, Magnitude(call.value), call.base, Chars(pos))
      /\ Left(rest, Magnitude(call.value), call.base, Chars(pos))
  BY <1>2, <1>3 DEF Right, Told, Converting, Value
<1>5. /\ pos >= First(call) /\ pos # BufferSize /\ ~(rest > 0 /\ pos # First(call))
  BY <1>2, <1>3 DEF Apart, MoreDigits
<1>6. PICK at : at = IF Signed(call) THEN pos - 1 ELSE pos
  OBVIOUS
<1>7. PICK mem, ln, old : mem = buf' /\ ln = line' /\ old = buf
  OBVIOUS
<1>8. /\ Signed(call) => at = pos - 1 /\ mem = [old EXCEPT ![at] = 45]
      /\ ~Signed(call) => at = pos /\ mem = old
  BY <1>1, <1>3, <1>6, <1>7 DEF Sign
<1>9. Numeral(mem, call, at)
  BY <1>2, <1>4, <1>5, <1>7, <1>8, DigitsDone
<1>10. PICK s : s = [r EXCEPT !.pos = at, !.pc = "send"]
  OBVIOUS
<1>11. s.pc = "send" /\ s.call = call /\ s.parts = call.parts /\ s.pos = at
  BY <1>2, <1>3, <1>4, <1>10 DEF TaskType
<1>12. task' = [task EXCEPT ![t] = s]
  <2>1. CASE Signed(call)
    BY <1>1, <1>2, <1>3, <1>6, <1>10, <2>1 DEF Sign
  <2>2. CASE ~Signed(call)
    <3>1. s = [r EXCEPT !.pc = "send"]
      BY <1>2, <1>3, <1>6, <1>10, <2>2 DEF TaskType
    <3>2. task' = [task EXCEPT ![t].pc = "send"]
      BY <1>1, <1>3, <2>2 DEF Sign, Goto
    <3>. QED
      BY <1>1, <1>2, <3>1, <3>2
  <2>. QED
    BY <2>1, <2>2
<1>13. /\ LineIs(mem, ln, call, at, Sent(call, call.parts, at))
       /\ Remaining(call.parts, call)
  <2>1. ln = <<>>
    BY <1>2, <1>4, <1>7
  <2>. QED
    BY <2>1, NothingSent
<1>14. Told(mem, ln, s) /\ Converting(mem, ln, s)
  BY <1>4, <1>11 DEF Told, Converting
<1>15. Telling(mem, ln, s)
  BY <1>9, <1>11, <1>13 DEF Telling
<1>16. Right(mem, ln, s)
  BY <1>14, <1>15 DEF Right
<1>. QED
  BY <1>1, <1>2, <1>7, <1>12, <1>16, BusyMoves DEF Busy

LEMMA StartSendText ==
  ASSUME DebugAssumption, DebugInv, TextKept, NEW t \in Tasks, StartSend(t)
  PROVE  TextKept'
<1>1. PICK r : r = task[t]
  OBVIOUS
<1>2. /\ r \in TaskType /\ r.pc = "send" /\ task \in [Tasks -> TaskType]
      /\ UNCHANGED <<mutex, buf, line>> /\ Right(buf, line, r)
      /\ r.parts # <<>> /\ buf[BufferSize] = 0
  BY <1>1 DEF DebugInv, DebugTypes, StartSend, At, TextKept
<1>3. ready
  <2>1. Quiet(t)
    BY <1>1, <1>2, BusyOwns DEF Busy
  <2>2. ASSUME NEW u \in Tasks PROVE task[u].pc # "sending"
    BY <1>1, <1>2, <2>1 DEF Quiet, Busy
  <2>. QED
    BY <2>2, Zenon DEF TextKept
<1>4. PICK pos \in 1 .. BufferSize, call \in CallType, parts \in Seq(STRING) :
        pos = r.pos /\ call = r.call /\ parts = r.parts
  BY <1>2 DEF TaskType
<1>5. PICK upto : upto = IF Head(parts) = "number" THEN EndOf(pos) ELSE pos
  OBVIOUS
<1>6. PICK s : s = [r EXCEPT !.pc = "sending", !.from = pos, !.upto = upto]
  OBVIOUS
<1>7. /\ s.pc = "sending" /\ s.call = call /\ s.parts = parts /\ s.pos = pos
      /\ s.from = pos /\ s.upto = upto
  BY <1>2, <1>4, <1>6 DEF TaskType
<1>8. task' = [task EXCEPT ![t] = s]
  BY <1>1, <1>2, <1>3, <1>4, <1>5, <1>6 DEF StartSend
<1>9. /\ Second(call) /\ Remaining(parts, call)
      /\ HasNumber(call) => Numeral(buf, call, pos)
      /\ LineIs(buf, line, call, pos, Sent(call, parts, pos))
  BY <1>2, <1>4 DEF Right, Told, Telling
<1>10. ASSUME Head(parts) = "number"
       PROVE  /\ pos \in pos .. BufferSize /\ upto = BufferSize
              /\ LineIs(buf, line, call, pos, 1 + pos - pos)
  <2>1. HasNumber(call) /\ Sent(call, parts, pos) = 1
    BY <1>2, <1>4, <1>9, <1>10, NumberNext
  <2>2. EndOf(pos) = BufferSize
    BY <1>2, <1>9, <2>1, NumeralEnds
  <2>3. 1 + pos - pos = 1 /\ pos \in pos .. BufferSize
    BY DEF DebugAssumption
  <2>. QED
    BY <1>5, <1>9, <1>10, <2>1, <2>2, <2>3
<1>11. Told(buf, line, s) /\ Converting(buf, line, s)
  BY <1>7, <1>9 DEF Told, Converting
<1>12. Telling(buf, line, s)
  BY <1>7, <1>9, <1>10 DEF Telling
<1>13. Right(buf, line, s)
  BY <1>11, <1>12 DEF Right
<1>14. Right(buf', line', s)
  BY <1>2, <1>13
<1>. QED
  BY <1>1, <1>2, <1>7, <1>8, <1>14, BusyMoves DEF Busy

LEMMA SendNextText ==
  ASSUME DebugAssumption, DebugInv, TextKept, NEW t \in Tasks, SendNext(t)
  PROVE  TextKept'
<1>0. BufferSize \in Nat
  BY DEF DebugAssumption
<1>1. PICK r : r = task[t]
  OBVIOUS
<1>2. /\ r \in TaskType /\ r.pc = "sending" /\ task \in [Tasks -> TaskType]
      /\ UNCHANGED <<mutex, buf>> /\ Right(buf, line, r) /\ Apart(r)
      /\ buf \in [1 .. BufferSize -> Int] /\ Busy(task[t])
  BY <1>1 DEF DebugInv, DebugTypes, SendNext, At, TextKept, Busy
<1>3. PICK pos \in 1 .. BufferSize, call \in CallType, parts \in Seq(STRING), from \in Int :
        pos = r.pos /\ call = r.call /\ parts = r.parts /\ from = r.from
  BY <1>2 DEF TaskType
<1>4. /\ Second(call) /\ Remaining(parts, call) /\ parts # <<>>
      /\ HasNumber(call) => Numeral(buf, call, pos)
  BY <1>2, <1>3 DEF Right, Told, Telling, Apart
<1>5. PICK mem, ln, old : mem = buf' /\ ln = line' /\ old = line
  OBVIOUS
<1>6. mem = buf
  BY <1>2, <1>5
\* A part is done with.
<1>7. ASSUME Done(t), ready' = TRUE,
             LineIs(mem, ln, call, pos, Sent(call, Tail(parts), pos))
      PROVE  TextKept'
  <2>1. PICK rest : rest = Tail(parts)
    OBVIOUS
  <2>2. PICK s : s = [r EXCEPT !.pc = "send", !.parts = rest]
    OBVIOUS
  <2>3. s.pc = "send" /\ s.call = call /\ s.parts = rest /\ s.pos = pos
    BY <1>2, <1>3, <2>2 DEF TaskType
  <2>4. task' = [task EXCEPT ![t] = s]
    BY <1>1, <1>2, <1>3, <1>7, <2>1, <2>2 DEF Done
  <2>5. Remaining(rest, call)
    BY <1>4, <2>1, NextPart
  <2>6. Told(mem, ln, s) /\ Converting(mem, ln, s)
    BY <1>4, <2>3 DEF Told, Converting
  <2>7. Telling(mem, ln, s)
    BY <1>4, <1>6, <1>7, <2>1, <2>3, <2>5 DEF Telling
  <2>8. Right(mem, ln, s)
    BY <2>6, <2>7 DEF Right
  <2>. QED
    BY <1>2, <1>5, <1>7, <2>4, <2>8, BusyMoves
<1>8. CASE Head(parts) # "number"
  <2>1. Done(t) /\ ready' = TRUE /\ ln = Append(old, Head(parts))
    BY <1>1, <1>3, <1>5, <1>8 DEF SendNext
  <2>2. LineIs(mem, old, call, pos, Sent(call, parts, pos))
    BY <1>2, <1>3, <1>5, <1>6, <1>8 DEF Right, Telling
  <2>3. LineIs(mem, Append(old, Head(parts)), call, pos, Sent(call, Tail(parts), pos))
    BY <1>4, <1>8, <2>2, SendsText
  <2>. QED
    BY <1>7, <2>1, <2>3
<1>9. CASE Head(parts) = "number"
  <2>1. from \in pos .. BufferSize /\ r.upto = BufferSize
        /\ LineIs(mem, old, call, pos, 1 + from - pos)
    BY <1>2, <1>3, <1>5, <1>6, <1>9 DEF Right, Telling
  <2>2. HasNumber(call) /\ Sent(call, Tail(parts), pos) = 1 + Chars(pos)
    BY <1>4, <1>9, NumberNext
  <2>3. CASE from < BufferSize
    <3>1. PICK next : next = from + 1
      OBVIOUS
    <3>2. PICK s : s = [r EXCEPT !.from = next]
      OBVIOUS
    <3>3. /\ s.pc = "sending" /\ s.call = call /\ s.parts = parts /\ s.pos = pos
          /\ s.from = next /\ s.upto = BufferSize
      BY <1>2, <1>3, <2>1, <3>2 DEF TaskType
    <3>4. /\ task' = [task EXCEPT ![t] = s] /\ ln = Append(old, mem[from])
      <4>1. /\ task' = [task EXCEPT ![t].from = r.from + 1]
            /\ line' = Append(line, buf[r.from])
        BY <1>1, <1>3, <1>9, <2>1, <2>3 DEF SendNext
      <4>2. task' = [task EXCEPT ![t] = s]
        BY <1>1, <1>2, <1>3, <3>1, <3>2, <4>1
      <4>. QED
        BY <1>3, <1>5, <1>6, <4>1, <4>2
    <3>5. from \in pos .. BufferSize - 1 /\ next \in pos .. BufferSize
      BY <1>0, <2>1, <2>3, <3>1
    <3>6. mem \in [1 .. BufferSize -> Int]
      BY <1>2, <1>6
    <3>7. LineIs(mem, Append(old, mem[from]), call, pos, 1 + (from + 1) - pos)
      BY <2>1, <2>2, <3>5, <3>6, SendsDigit
    <3>8. LineIs(mem, ln, call, pos, 1 + next - pos)
      BY <3>1, <3>4, <3>7, Zenon
    <3>9. Told(mem, ln, s) /\ Converting(mem, ln, s)
      BY <1>4, <3>3 DEF Told, Converting
    <3>10. Telling(mem, ln, s)
      BY <1>4, <1>6, <1>9, <3>3, <3>5, <3>8 DEF Telling
    <3>11. Right(mem, ln, s)
      BY <3>9, <3>10 DEF Right
    <3>. QED
      BY <1>2, <1>5, <3>3, <3>4, <3>11, BusyMoves
  <2>4. CASE ~(from < BufferSize)
    <3>1. Done(t) /\ ready' = TRUE /\ ln = old
      BY <1>1, <1>3, <1>5, <1>9, <2>1, <2>4 DEF SendNext
    <3>2. 1 + from - pos = 1 + Chars(pos)
      BY <1>0, <2>1, <2>4 DEF Chars
    <3>3. LineIs(mem, ln, call, pos, Sent(call, Tail(parts), pos))
      BY <2>1, <2>2, <3>1, <3>2, Zenon
    <3>. QED
      BY <1>7, <3>1, <3>3
  <2>. QED
    BY <2>3, <2>4
<1>. QED
  BY <1>8, <1>9

LEMMA InitText == ASSUME DebugAssumption PROVE Init => TextKept
<1>. SUFFICES ASSUME Init PROVE TextKept
  OBVIOUS
<1>1. Resting.pc = "idle" /\ Resting.call.parts = <<>>
  BY DEF Resting, NoCall
<1>2. Second(Resting.call)
  BY <1>1 DEF Second
<1>3. Right(buf, line, Resting)
  BY <1>1, <1>2 DEF Right, Told, Converting, Telling
<1>4. ASSUME NEW t \in Tasks PROVE task[t] = Resting
  BY DEF Init
<1>5. ready
  BY DEF Init
<1>. QED
  BY <1>1, <1>3, <1>4, <1>5 DEF TextKept, Busy

LEMMA TextStep ==
  ASSUME DebugAssumption, CallsTyped, NumbersSecond, DebugInv, TextInv, [Next]_vars
  PROVE  TextInv'
<1>1. CASE UNCHANGED vars
  BY <1>1, Zenon DEF vars, TextInv, TextKept
<1>2. ASSUME NEW t \in Tasks, Step(t) PROVE TextInv'
  <2>1. CASE late
    BY <1>2, <2>1 DEF Step, Lock, LockTimesOut, Unlock, Terminate, Digit, Sign,
                      StartSend, SendNext, SendTimesOut, TextInv
  <2>2. CASE TextKept
    <3>1. CASE LockTimesOut(t) \/ SendTimesOut(t)
      BY <3>1 DEF LockTimesOut, SendTimesOut, TextInv
    <3>2. CASE ~(LockTimesOut(t) \/ SendTimesOut(t))
      <4>1. TextKept'
        BY <1>2, <2>2, <3>2, LockText, UnlockText, TerminateText, DigitText, SignText,
           StartSendText, SendNextText, Zenon DEF Step
      <4>. QED
        BY <4>1, Zenon DEF TextInv
    <3>. QED
      BY <3>1, <3>2
  <2>. QED
    BY <2>1, <2>2, Zenon DEF TextInv
<1>3. ASSUME NEW t \in Tasks, NEW call \in Calls, Start(t, call)
      PROVE  TextInv'
  <2>1. CASE late
    BY <1>3, <2>1 DEF Start, TextInv
  <2>2. CASE TextKept
    <3>1. TextKept'
      BY <1>3, <2>2, StartText
    <3>. QED
      BY <3>1, Zenon DEF TextInv
  <2>. QED
    BY <2>1, <2>2, Zenon DEF TextInv
<1>. QED
  BY <1>1, <1>2, <1>3, Zenon DEF Next

\* As long as no wait timed out, what a task has sent when it gives the mutex
\* back is its text, whole and unmixed, and its number is shown digit by digit
\* (uint_to_str, int_to_str; the macros of debug.h:36).
THEOREM DebugTextWhole ==
  ASSUME DebugAssumption, CallsTyped, NumbersSecond
  PROVE  DebugSpec => []TextWhole
<1>1. Init => DebugInv /\ TextInv
  BY InitDebug, InitText, Zenon DEF TextInv
<1>2. DebugInv /\ TextInv /\ [Next]_vars => DebugInv' /\ TextInv'
  BY DebugStep, TextStep
<1>3. DebugInv /\ TextInv => TextWhole
  <2>. SUFFICES ASSUME DebugInv, TextInv, NEW t \in Tasks, At(t, "send"),
                       task[t].parts = <<>>, ~late
                PROVE  IsText(line, task[t].call)
    BY Zenon DEF TextWhole
  <2>1. TextKept
    BY DEF TextInv
  <2>2. PICK r : r = task[t]
    OBVIOUS
  <2>3. r \in TaskType /\ r.pc = "send" /\ r.parts = <<>> /\ Right(buf, line, r)
    BY <2>1, <2>2 DEF DebugInv, DebugTypes, At, TextKept
  <2>4. PICK pos \in 1 .. BufferSize, call \in CallType : pos = r.pos /\ call = r.call
    BY <2>3 DEF TaskType
  <2>5. PICK mem, ln : mem = buf /\ ln = line
    OBVIOUS
  <2>6. /\ Second(call) /\ (HasNumber(call) => Numeral(mem, call, pos))
        /\ LineIs(mem, ln, call, pos, Sent(call, <<>>, pos))
    BY <2>3, <2>4, <2>5 DEF Right, Told, Telling
  <2>7. IsText(ln, call)
    BY <2>6, TextComplete
  <2>. QED
    BY <2>2, <2>4, <2>5, <2>7, Zenon
<1>. QED
  BY <1>1, <1>2, <1>3, PTL DEF DebugSpec

-----------------------------------------------------------------------------
(* printf.  What the DMA has still to read is text of a call made since the *)
(* transmission started: the call that started it filled that part of the   *)
(* buffer, and every later one copied its text over the beginning.          *)

PrintSpec == P!Init /\ [][P!Next]_(P!vars)

Octet == 0 .. 255

\* The library gives bytes.
TextsOfBytes == Texts \subseteq Seq(Octet)

SendType == [by : {"nobody", "dma", "cpu"}, text : Seq(Octet), said : BOOLEAN]

PrintTypes ==
  /\ dmaBuffer \in Seq(Octet) /\ sent \in Seq(Octet) /\ sending \in SendType
  /\ since \subseteq Seq(Octet) /\ sending.text \in since

\* The byte x at place i is that of one of the texts.
Given(i, x, texts) == \E text \in texts : i <= Len(text) /\ x = text[i]

PrintInv ==
  /\ PrintTypes
  /\ Len(sent) <= Len(sending.text)
  /\ \A i \in 1 .. Len(sent) : Given(i, sent[i], since)
  /\ sending.by = "dma" => \A i \in 1 .. Len(sending.text) :
                             i <= Len(dmaBuffer) /\ Given(i, dmaBuffer[i], since)
  /\ sending.by = "cpu" => ~sending.said
  /\ sending.by = "nobody" /\ sending.said => Len(sent) = Len(sending.text)

LEMMA InitPrint == P!Init => PrintInv
<1>. SUFFICES ASSUME P!Init PROVE PrintInv
  OBVIOUS
<1>1. <<>> \in Seq(Octet) /\ Len(<<>>) = 0
  BY EmptySeq
<1>2. /\ dmaBuffer = <<>> /\ sent = <<>> /\ since = {<<>>} /\ sending \in SendType
      /\ sending.by = "nobody" /\ sending.text = <<>>
  BY <1>1 DEF P!Init, SendType
<1>. QED
  BY <1>1, <1>2 DEF PrintInv, PrintTypes

\* A text copied over a buffer: the text, then what the buffer held behind it.
LEMMA OverwrittenIs ==
  ASSUME PrintTypes, NEW text \in Seq(Octet), NEW z, z = P!Overwritten(text)
  PROVE  /\ z \in Seq(Octet) /\ Len(text) <= Len(z) /\ Len(dmaBuffer) <= Len(z)
         /\ \A i \in 1 .. Len(text) : z[i] = text[i]
         /\ \A i \in 1 .. Len(dmaBuffer) : i > Len(text) => z[i] = dmaBuffer[i]
<1>1. PICK mem \in Seq(Octet) : mem = dmaBuffer
  BY DEF PrintTypes
<1>2. PICK n, k \in Nat : n = Len(text) /\ k = Len(mem)
  BY LenProperties
<1>3. PICK tail : tail = SubSeq(mem, n + 1, k)
  OBVIOUS
<1>4. /\ tail \in Seq(Octet) /\ Len(tail) = (IF n < k THEN k - n ELSE 0)
      /\ \A i \in 1 .. Len(tail) : tail[i] = mem[n + i]
  <2>1. tail = [i \in 1 .. (1 + k) - (n + 1) |-> mem[(i + (n + 1)) - 1]]
    BY <1>2, <1>3 DEF SubSeq
  <2>2. \A i \in n + 1 .. k : mem[i] \in Octet
    BY <1>2, ElementOfSeq
  <2>3. CASE n < k
    <3>1. PICK m \in Nat : m = k - n
      BY <1>2, <2>3
    <3>2. tail = [i \in 1 .. m |-> mem[n + i]]
      BY <1>2, <2>1, <3>1
    <3>3. \A i \in 1 .. m : mem[n + i] \in Octet
      BY <1>2, <2>2, <3>1
    <3>4. tail \in Seq(Octet) /\ Len(tail) = m
      BY <3>2, <3>3
    <3>. QED
      BY <2>3, <3>1, <3>2, <3>4
  <2>4. CASE ~(n < k)
    <3>1. tail = <<>>
      BY <1>2, <2>1, <2>4
    <3>. QED
      BY <2>4, <3>1, EmptySeq
  <2>. QED
    BY <2>3, <2>4
<1>5. z = text \o tail
  BY <1>1, <1>2, <1>3 DEF P!Overwritten
<1>6. PICK m \in Nat : m = Len(tail) /\ k <= n + m
  <2>1. PICK m : m = Len(tail)
    OBVIOUS
  <2>2. m = (IF n < k THEN k - n ELSE 0)
    BY <1>4, <2>1
  <2>3. m \in Nat /\ k <= n + m
    BY <1>2, <2>2
  <2>. QED
    BY <2>1, <2>3
<1>7. /\ z \in Seq(Octet) /\ Len(z) = n + m
      /\ \A i \in 1 .. n + m : z[i] = IF i <= n THEN text[i] ELSE tail[i - n]
  <2>1. PICK y : y = text \o tail
    OBVIOUS
  <2>2. /\ y \in Seq(Octet) /\ Len(y) = Len(text) + Len(tail)
        /\ \A i \in 1 .. Len(text) + Len(tail) :
             y[i] = IF i <= Len(text) THEN text[i] ELSE tail[i - Len(text)]
    BY <1>4, <2>1, ConcatProperties
  <2>. QED
    BY <1>2, <1>5, <1>6, <2>1, <2>2
<1>8. \A i \in 1 .. n : z[i] = text[i]
  BY <1>6, <1>7
<1>9. ASSUME NEW i \in 1 .. k, i > n
      PROVE  z[i] = mem[i]
  <2>1. i \in 1 .. n + m /\ i - n \in 1 .. m /\ n + (i - n) = i
    BY <1>2, <1>6, <1>9
  <2>2. z[i] = tail[i - n]
    BY <1>2, <1>7, <1>9, <2>1
  <2>3. tail[i - n] = mem[n + (i - n)]
    BY <1>4, <1>6, <2>1, Zenon
  <2>. QED
    BY <2>1, <2>2, <2>3
<1>10. n <= n + m /\ k <= n + m
  BY <1>2, <1>6
<1>. QED
  BY <1>1, <1>2, <1>7, <1>8, <1>9, <1>10

\* More texts give no fewer bytes.
LEMMA GivenStill ==
  ASSUME NEW i, NEW x, NEW texts, NEW more, texts \subseteq more, Given(i, x, texts)
  PROVE  Given(i, x, more)
BY DEF Given

LEMMA OverDmaPrints ==
  ASSUME TextsOfBytes, PrintInv, NEW text \in Texts, P!WriteOverDma(text)
  PROVE  PrintInv'
<1>1. text \in Seq(Octet) /\ PrintTypes
  BY DEF TextsOfBytes, PrintInv
<1>2. PICK z : z = P!Overwritten(text)
  OBVIOUS
<1>3. /\ z \in Seq(Octet) /\ Len(text) <= Len(z) /\ Len(dmaBuffer) <= Len(z)
      /\ \A i \in 1 .. Len(text) : z[i] = text[i]
      /\ \A i \in 1 .. Len(dmaBuffer) : i > Len(text) => z[i] = dmaBuffer[i]
  BY <1>1, <1>2, OverwrittenIs
<1>4. dmaBuffer' = z
  BY <1>2 DEF P!WriteOverDma
<1>5. CASE P!Starts("dma", text, TRUE)
  <2>1. sending' = [by |-> "dma", text |-> text, said |-> TRUE]
        /\ sent' = <<>> /\ since' = {text}
    BY <1>5 DEF P!Starts
  <2>2. \A i \in 1 .. Len(text) : i <= Len(z) /\ Given(i, z[i], {text})
    <3>1. Len(text) \in Nat /\ Len(z) \in Nat
      BY <1>1, <1>3, LenProperties
    <3>. QED
      BY <1>3, <3>1 DEF Given
  <2>3. <<>> \in Seq(Octet) /\ Len(<<>>) = 0 /\ Len(text) \in Nat
    BY <1>1, EmptySeq, LenProperties
  <2>4. PrintTypes'
    BY <1>1, <1>3, <1>4, <2>1, <2>3 DEF PrintTypes, SendType
  <2>5. /\ sending'.by # "nobody" /\ sending'.by # "cpu" /\ sending'.text = text
        /\ Len(sent') <= Len(sending'.text)
    BY <2>1, <2>3
  <2>6. \A i \in 1 .. Len(sent') : Given(i, sent'[i], since')
    BY <2>1, <2>3
  <2>. QED
    BY <1>4, <2>1, <2>2, <2>3, <2>4, <2>5, <2>6, Zenon DEF PrintInv
<1>6. CASE /\ since' = since \cup {text} /\ UNCHANGED <<sending, sent>>
  <2>1. \A i \in 1 .. Len(sent) : Given(i, sent[i], since')
    BY <1>6, GivenStill DEF PrintInv
  <2>2. ASSUME sending.by = "dma", NEW i \in 1 .. Len(sending.text)
        PROVE  i <= Len(z) /\ Given(i, z[i], since')
    <3>0. Len(text) \in Nat /\ Len(z) \in Nat /\ Len(dmaBuffer) \in Nat
          /\ Len(sending.text) \in Nat
      BY <1>1, <1>3, LenProperties DEF PrintTypes, SendType
    <3>1. i <= Len(dmaBuffer) /\ Given(i, dmaBuffer[i], since)
      BY <2>2 DEF PrintInv
    <3>2. CASE i <= Len(text)
      <4>1. z[i] = text[i] /\ text \in since'
        BY <1>3, <1>6, <3>0, <3>2
      <4>. QED
        BY <1>3, <3>0, <3>2, <4>1 DEF Given
    <3>3. CASE i > Len(text)
      <4>1. z[i] = dmaBuffer[i]
        BY <1>3, <3>0, <3>1, <3>3
      <4>. QED
        BY <1>3, <1>6, <3>0, <3>1, <4>1, GivenStill
    <3>. QED
      BY <3>0, <3>2, <3>3
  <2>3. PrintTypes'
    BY <1>1, <1>3, <1>4, <1>6 DEF PrintTypes
  <2>. QED
    BY <1>4, <1>6, <2>1, <2>2, <2>3 DEF PrintInv
<1>. QED
  BY <1>5, <1>6 DEF P!WriteOverDma

LEMMA ItselfPrints ==
  ASSUME TextsOfBytes, PrintInv, NEW text \in Texts, P!WriteItself(text)
  PROVE  PrintInv'
<1>1. /\ sending' = [by |-> "cpu", text |-> text, said |-> FALSE]
      /\ sent' = <<>> /\ since' = {text} /\ dmaBuffer' = dmaBuffer
  BY DEF P!WriteItself, P!Starts
<1>2. text \in Seq(Octet) /\ Len(text) \in Nat /\ <<>> \in Seq(Octet) /\ Len(<<>>) = 0
  BY EmptySeq, LenProperties DEF TextsOfBytes
<1>. QED
  BY <1>1, <1>2 DEF PrintInv, PrintTypes, SendType

LEMMA SendBytePrints ==
  ASSUME PrintInv, P!SendByte
  PROVE  PrintInv'
<1>1. PICK s, text, c : s = sent /\ text = sending.text /\ c = P!Byte(Len(sent) + 1)
  OBVIOUS
<1>2. /\ s \in Seq(Octet) /\ text \in Seq(Octet) /\ text \in since
      /\ Len(s) \in Nat /\ Len(text) \in Nat /\ Len(s) < Len(text)
  BY <1>1, LenProperties DEF PrintInv, PrintTypes, SendType, P!SendByte
<1>3. PICK n \in Nat : n = Len(s) + 1
  BY <1>2
<1>4. c \in Octet /\ Given(n, c, since)
  <2>1. CASE sending.by = "dma"
    <3>1. n <= Len(dmaBuffer) /\ Given(n, dmaBuffer[n], since) /\ n \in 1 .. Len(text)
      BY <1>1, <1>2, <1>3, <2>1 DEF PrintInv
    <3>2. c = dmaBuffer[n] /\ dmaBuffer \in Seq(Octet)
      BY <1>1, <1>3, <2>1 DEF P!Byte, PrintInv, PrintTypes
    <3>3. c \in Octet
      BY <1>3, <3>1, <3>2, ElementOfSeq, LenProperties
    <3>. QED
      BY <3>1, <3>2, <3>3
  <2>2. CASE sending.by # "dma"
    <3>1. c = text[n] /\ n \in 1 .. Len(text)
      BY <1>1, <1>2, <1>3, <2>2 DEF P!Byte
    <3>. QED
      BY <1>2, <3>1, ElementOfSeq DEF Given
  <2>. QED
    BY <2>1, <2>2
<1>5. PICK t : t = Append(s, c)
  OBVIOUS
<1>6. /\ t \in Seq(Octet) /\ Len(t) = n /\ t[n] = c
      /\ \A i \in 1 .. Len(s) : t[i] = s[i]
  BY <1>2, <1>3, <1>4, <1>5, AppendProperties
<1>7. sent' = t /\ UNCHANGED <<dmaBuffer, sending, since>> /\ sending.by # "nobody"
  BY <1>1, <1>5 DEF P!SendByte
<1>8. ASSUME NEW i \in 1 .. n
      PROVE  Given(i, t[i], since)
  <2>1. CASE i = n
    BY <1>4, <1>6, <2>1
  <2>2. CASE i # n
    <3>1. i \in 1 .. Len(s)
      BY <1>2, <1>3, <2>2
    <3>. QED
      BY <1>1, <1>6, <3>1 DEF PrintInv
  <2>. QED
    BY <2>1, <2>2
<1>9. n <= Len(text)
  BY <1>2, <1>3
<1>. QED
  BY <1>1, <1>6, <1>7, <1>8, <1>9 DEF PrintInv, PrintTypes

LEMMA StopsPrinting ==
  ASSUME PrintInv, P!Ends \/ P!TimesOut
  PROVE  PrintInv'
<1>1. /\ sending'.by = "nobody" /\ sending'.text = sending.text /\ sending' \in SendType
      /\ UNCHANGED <<dmaBuffer, sent, since>>
  BY DEF PrintInv, PrintTypes, SendType, P!Ends, P!TimesOut
<1>2. sending'.said => Len(sent) = Len(sending.text)
  <2>1. CASE P!Ends
    BY <2>1 DEF P!Ends
  <2>2. CASE P!TimesOut
    BY <2>2 DEF PrintInv, PrintTypes, SendType, P!TimesOut
  <2>. QED
    BY <2>1, <2>2
<1>. QED
  BY <1>1, <1>2 DEF PrintInv, PrintTypes

LEMMA PrintStep ==
  ASSUME TextsOfBytes, PrintInv, [P!Next]_(P!vars)
  PROVE  PrintInv'
<1>1. CASE UNCHANGED P!vars
  BY <1>1 DEF P!vars, PrintInv, PrintTypes
<1>2. CASE P!Refused
  BY <1>1, <1>2 DEF P!Refused
<1>. QED
  BY <1>1, <1>2, OverDmaPrints, ItselfPrints, SendBytePrints, StopsPrinting
  DEF P!Next

LEMMA NothingStaleFromInv == PrintInv => NothingStale
<1>. SUFFICES ASSUME PrintInv PROVE NothingStale
  OBVIOUS
<1>1. ASSUME NEW i \in 1 .. Len(sent)
      PROVE  \E text \in since : i <= Len(text) /\ sent[i] = text[i]
  BY DEF PrintInv, Given
<1>2. ASSUME sending.by = "nobody", sending.said, since = {sending.text}
      PROVE  sent = sending.text
  <2>1. PICK s, text : s = sent /\ text = sending.text
    OBVIOUS
  <2>2. s \in Seq(Octet) /\ text \in Seq(Octet) /\ Len(s) = Len(text)
    BY <1>2, <2>1 DEF PrintInv, PrintTypes, SendType
  <2>3. \A i \in 1 .. Len(s) : s[i] = text[i]
    BY <1>1, <1>2, <2>1
  <2>4. s = text
    BY <2>2, <2>3, SeqEqual
  <2>. QED
    BY <2>1, <2>4
<1>. QED
  BY <1>1, <1>2, Zenon DEF NothingStale, P!NothingStale

\* Whatever calls overlap a transmission, a byte that leaves the UART has its
\* place in a call made since the transmission started, and a call that said it
\* wrote its text has sent it unless another text overlapped, for all texts
\* (printf2huart1.c:32, printf2huart2.c:32).
THEOREM PrintfNothingStale ==
  ASSUME TextsOfBytes
  PROVE  PrintSpec => []NothingStale
<1>1. P!Init => PrintInv
  BY InitPrint
<1>2. PrintInv /\ [P!Next]_(P!vars) => PrintInv'
  BY PrintStep
<1>3. PrintInv => NothingStale
  BY NothingStaleFromInv
<1>. QED
  BY <1>1, <1>2, <1>3, PTL DEF PrintSpec
=============================================================================
