CONSTANTS
  a = a
  b = b
  p = p
  q = q
  S = S
  sa = sa
  sb = sb
  sp = sp
  sx = sx
  sy = sy
  Client = {a, b}
  Peer = {p, q}
  Server = S
  NoAddr = NoAddr
  NoIp = NoIp
  Sid = {sa, sb, sp, sx, sy}
  IpOf <- MCIpOf
  PortOf <- MCPortOf
  Scenario <- ClientsAndTests
  LossyNetwork = TRUE
  MaxDuplicates = 0
  Faults = FALSE
  MAX_RETRANSMITS = 1
  MAX_ALLOWED_PACKET_SIZE = 2
  MaxSigint = 0
  ProtocolOf <- BothUDPR
  SessionId <- SameSessionId
  occupied_size <- Sizes32
  SEND_BUFF_SIZE = 2
  Tester = p
  NewSocket = q
  session_id = sp
  FixedIds <- MCFixedIds
  FileSize = 2
  PieceSize = 1
  Excess = 2
  Prompt = FALSE
SPECIFICATION Spec
INVARIANTS
  SuccessMeansDelivered
  SessionHoldsPrefix
  StopAndWait
  RepeatsArePaidFor
  Inductive
PROPERTIES
  ImplementsTransfer
  SessionDescends
CHECK_DEADLOCK FALSE
