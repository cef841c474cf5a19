------------------------------- MODULE MCUart -------------------------------
(* The two ways to print, one beside the other: a behaviour uses one (which).*)
EXTENDS Uart

CONSTANTS t1, t2

VARIABLE which

MCTexts == {<<1>>, <<2, 3>>, <<4, 5, 6>>}

NumberCall(base, value) ==
  [base |-> base, value |-> value, parts |-> <<"msg", "number", "eol">>]
MCCalls ==
  {[base |-> 10, value |-> 0, parts |-> parts] :
     parts \in {<<"msg">>, <<"msg1", "msg2", "eol">>, <<"msg", "number">>}}
  \cup {NumberCall(10, v) : v \in {999, 1003, -9, -123}}
  \cup {NumberCall(16, v) : v \in {10, 4111}}

ASSUME DebugAssumption /\ NumbersSecond

printf == <<hasDma, dmaBuffer, sending, sent, since>>

MCInit == /\ which \in {"debug", "printf"} /\ Init /\ P!Init
          /\ which = "debug" => ~hasDma
MCNext ==
  /\ UNCHANGED which
  /\ \/ which = "debug" /\ Next /\ UNCHANGED printf
     \/ which = "printf" /\ P!Next /\ UNCHANGED vars
MCSpec == MCInit /\ [][MCNext]_<<which, vars, printf>>
=============================================================================
