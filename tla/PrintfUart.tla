----------------------------- MODULE PrintfUart -----------------------------
(***************************************************************************)
(* printf2huart1.c and printf2huart2.c: _write() sends what the C library  *)
(* gives it, over DMA from _printf_uart_dma_buffer when the UART has a     *)
(* DMA channel, else itself.  The DMA reads the buffer byte by byte, and   *)
(* calls come when they like.                                              *)
(***************************************************************************)
EXTENDS Integers, Sequences

CONSTANT Texts  \* what the library gives, at most a buffer long

VARIABLES
  hasDma,    \* huart1.hdmatx is set
  dmaBuffer, \* _printf_uart_dma_buffer
  sending,   \* the transmission in progress or the last one: who sends, the
             \* text of the call that started it, and whether the call said
             \* that it wrote it
  sent,      \* what has left the UART in it
  since      \* history: the texts of the calls made since it started
vars == <<hasDma, dmaBuffer, sending, sent, since>>

Init ==
  /\ hasDma \in BOOLEAN /\ dmaBuffer = <<>>
  /\ sending = [by |-> "nobody", text |-> <<>>, said |-> TRUE]
  /\ sent = <<>> /\ since = {<<>>}

\* memcpy() over what the buffer holds
\* Mutant: the text goes behind it.
Appended(text)    == dmaBuffer \o text
Overwritten(text) == text \o SubSeq(dmaBuffer, Len(text) + 1, Len(dmaBuffer))

Starts(by, text, said) ==
  /\ sending' = [by |-> by, text |-> text, said |-> said]
  /\ sent' = <<>> /\ since' = {text}

\* HAL_UART_Transmit_DMA refuses with HAL_BUSY, which nobody looks at.
WriteOverDma(text) ==
  /\ hasDma /\ dmaBuffer' = Overwritten(text)
  /\ IF sending.by = "nobody" THEN Starts("dma", text, TRUE)
     ELSE since' = since \cup {text} /\ UNCHANGED <<sending, sent>>
  /\ UNCHANGED hasDma

WriteItself(text) ==
  /\ ~hasDma /\ sending.by = "nobody"
  /\ Starts("cpu", text, FALSE) /\ UNCHANGED <<hasDma, dmaBuffer>>

\* A file that is neither stdout nor stderr (EBADF), or HAL_BUSY without DMA.
Refused == UNCHANGED vars

Byte(i) == IF sending.by = "dma" THEN dmaBuffer[i] ELSE sending.text[i]

SendByte ==
  /\ sending.by # "nobody" /\ Len(sent) < Len(sending.text)
  /\ sent' = Append(sent, Byte(Len(sent) + 1))
  /\ UNCHANGED <<hasDma, dmaBuffer, sending, since>>

Ends ==
  /\ sending.by # "nobody" /\ Len(sent) = Len(sending.text)
  /\ sending' = [sending EXCEPT !.by = "nobody", !.said = TRUE]
  /\ UNCHANGED <<hasDma, dmaBuffer, sent, since>>

\* UART_TIMEOUT: _write() returns 0, some bytes have left.
TimesOut ==
  /\ sending.by = "cpu"
  /\ sending' = [sending EXCEPT !.by = "nobody"]
  /\ UNCHANGED <<hasDma, dmaBuffer, sent, since>>

Next ==
  \/ \E text \in Texts : WriteOverDma(text) \/ WriteItself(text)
  \/ Refused \/ SendByte \/ Ends \/ TimesOut

-----------------------------------------------------------------------------
\* Whatever calls overlap a transmission - they copy over the buffer the DMA
\* reads (:32) - no byte of an earlier message leaves again: a byte that leaves
\* has its place in a call made since the transmission started.  A call that
\* said it wrote its text has sent it, whole and alone, when the UART is idle
\* again, unless a call with another text overlapped (whose own text, reported
\* as written, is lost or mixed in).
NothingStale ==
  /\ \A i \in 1 .. Len(sent) :
       \E text \in since : i <= Len(text) /\ sent[i] = text[i]
  /\ sending.by = "nobody" /\ sending.said /\ since = {sending.text} =>
       sent = sending.text
=============================================================================
