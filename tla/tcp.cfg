CONSTANTS
  a = a
  b = b
  w = w
  p = p
  sa = sa
  sp = sp
  sx = sx
  sy = sy
  Client = {a, b, w}
  Peer = {p}
  Sid = {sa, sp, sx, sy}
  Scenario <- ClientsAndTests
  Window = 2
  QUEUE_LEN = 2
  MAX_ALLOWED_PACKET_SIZE = 2
  MaxSigint = 1
  Nobody = Nobody
  SessionId <- SameSessionId
  occupied_size <- Sizes304
  SEND_BUFF_SIZE = 2
  Faults = TRUE
  Tester = p
  session_id = sp
  FixedIds <- MCFixedIds
  FileSize = 2
  PieceSize = 1
  Excess = 2
SPECIFICATION FairSpec
INVARIANTS
  TCP_TypeOK
  TCP_Inductive
  TCP_SuccessMeansDelivered
  TCP_SessionHoldsPrefix
  TCP_DeliveredIsWritten
  TCP_RcvdWaits
  TCP_NoConnectionKept
PROPERTIES
  TCP_ImplementsTransfer
  TCP_ClientsDescend
  TCP_SessionDescends
  TCP_ClientsTerminate
  TCP_ServerFreed
CHECK_DEADLOCK FALSE
