CONSTANTS
  a = a
  b = b
  w = w
  p = p
  sa = sa
  sp = sp
  sx = sx
  sy = sy
  Client = {a}
  Peer = {p}
  Sid = {sa, sp, sx, sy}
  Scenario <- OnlyClients
  Window = 2
  QUEUE_LEN = 2
  MAX_ALLOWED_PACKET_SIZE = 3
  MaxSigint = 0
  Nobody = Nobody
  SessionId <- SameSessionId
  occupied_size <- Size1
  SEND_BUFF_SIZE = 3
  Faults = FALSE
  Tester = p
  session_id = sp
  FixedIds <- MCFixedIds
  FileSize = 2
  PieceSize = 1
  Excess = 2
SPECIFICATION Spec
PROPERTY NoFailureAfterDelivery
CHECK_DEADLOCK FALSE
