SPECIFICATION Spec
CONSTANTS
  m1 = m1  m2 = m2  p1 = p1  p2 = p2
  NoPayload = NoPayload
  Messages = {m1, m2}
  Packets = {p1, p2}
  Length <- MCLength
  FifoSize = 4
  TxBaseAddr = 0
  RxBaseAddr = 0
  Ops = {"mode_receive_single", "receive_packet", "is_packet_available"}
  Timeout = 2
  Implicit = FALSE
  Discipline = {"wait_for_dma", "start_idle"}
  MaxFaults = 0
  MaxCalls = 4
CHECK_DEADLOCK FALSE
PROPERTIES
  PacketAnnounced
