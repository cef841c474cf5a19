SPECIFICATION Spec
CONSTANTS
  m1 = m1  m2 = m2  p1 = p1  p2 = p2
  NoPayload = NoPayload
  Messages = {m1, m2}
  Packets = {p1, p2}
  Length <- MCLength
  FifoSize = 4
  TxBaseAddr = 0
  RxBaseAddr = 0
  Ops = {"receive_packet", "receive_packet_dma_start", "receive_packet_blocking", "mode_receive_single", "mode_standby", "is_packet_available", "pending_packet_length", "clear_interrupt_rx_all", "send_packet"}
  Timeout = 2
  Implicit = FALSE
  Discipline = {"wait_for_dma", "check_first", "start_idle"}
  MaxFaults = 0
  MaxCalls = 6
CHECK_DEADLOCK FALSE
INVARIANTS
  OkMeansReceived
