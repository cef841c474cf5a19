SPECIFICATION Spec
CONSTANTS
  m1 = m1  m2 = m2  p1 = p1  p2 = p2
  NoPayload = NoPayload
  Messages = {m1, m2}
  Packets = {p1, p2}
  Length <- MCLength
  FifoSize = 4
  TxBaseAddr = 0
  RxBaseAddr = 0
  Ops = {"send_packet", "send_packet_dma_start", "send_packet_blocking", "is_transmitting", "mode_standby", "mode_sleep", "clear_interrupt_tx_done"}
  Timeout = 2
  Implicit = FALSE
  Discipline = {"wait_for_dma", "check_first", "start_idle"}
  MaxFaults = 0
  MaxCalls = 8
CHECK_DEADLOCK FALSE
INVARIANTS
  TypeOK
  TxIntact
  BlockingOkMeansSent
  NssFramesDma
PROPERTIES
  SendNeverAborts
