-------------------------------- MODULE Uart --------------------------------
(***************************************************************************)
(* The two ways to print: the debug macros, and printf over _write().      *)
(***************************************************************************)
EXTENDS DebugUart

CONSTANT Texts

VARIABLES hasDma, dmaBuffer, sending, sent, since

P == INSTANCE PrintfUart

\* Only bytes of the present calls leave the UART (printf2huart1.c:32).
NothingStale == P!NothingStale
=============================================================================
