SPECIFICATION FairSpec
CONSTANTS
  m1 = m1  m2 = m2  p1 = p1  p2 = p2
  NoPayload = NoPayload
  Messages = {m1, m2}
  Packets = {p1, p2}
  Length <- MCLength
  FifoSize = 4
  TxBaseAddr = 0
  RxBaseAddr = 0
  Ops = {"send_packet", "send_packet_dma_start", "send_packet_blocking", "is_transmitting", "receive_packet_blocking", "receive_packet_dma_start"}
  Timeout = 2
  Implicit = TRUE
  Discipline = {"wait_for_dma", "start_idle"}
  MaxFaults = 1
  MaxCalls = 4
CHECK_DEADLOCK FALSE
PROPERTIES
  DmaSendAired
  CallReturns
