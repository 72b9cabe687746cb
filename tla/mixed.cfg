CONSTANTS
  a = a
  b = b
  p = p
  q = q
  S = S
  sa = sa
  sb = sb
  sp = sp
  sx = sx
  sy = sy
  Client = {a, b}
  Peer = {p, q}
  Server = S
  NoAddr = NoAddr
  NoIp = NoIp
  Sid = {sa, sb, sp, sx, sy}
  IpOf <- MCIpOf
  PortOf <- MCPortOf
  Scenario <- Intruders
  LossyNetwork = FALSE
  MaxDuplicates = 0
  Faults = TRUE
  MAX_RETRANSMITS = 1
  MAX_ALLOWED_PACKET_SIZE = 2
  MaxSigint = 1
  ProtocolOf <- UDPandUDPR
  SessionId <- MCSessionId
  occupied_size <- Sizes32
  SEND_BUFF_SIZE = 2
  Tester = p
  NewSocket = q
  session_id = sp
  FixedIds <- MCFixedIds
  FileSize = 2
  PieceSize = 1
  Excess = 2
  Prompt = FALSE
SPECIFICATION FairSpec
INVARIANTS
  TypeOK
  SuccessMeansDelivered
  SessionHoldsPrefix
  RcvdReachesItsClient
  DeliveredIsSent
PROPERTIES
  ImplementsTransfer
  ClientsDescend
  ClientsTerminate
  ServerFreed
CHECK_DEADLOCK FALSE
