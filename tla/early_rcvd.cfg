CONSTANTS
  a = a
  b = b
  p = p
  q = q
  S = S
  sa = sa
  sb = sb
  sp = sp
  sx = sx
  sy = sy
  Client = {a}
  Peer = {p, q}
  Server = S
  NoAddr = NoAddr
  NoIp = NoIp
  Sid = {sa, sb, sp, sx, sy}
  IpOf <- MCIpOf
  PortOf <- MCPortOf
  Scenario <- OnlyClients
  LossyNetwork = FALSE
  MaxDuplicates = 0
  Faults = FALSE
  MAX_RETRANSMITS = 1
  MAX_ALLOWED_PACKET_SIZE = 2
  MaxSigint = 0
  ProtocolOf <- BothUDPR
  SessionId <- MCSessionId
  occupied_size <- Size1
  SEND_BUFF_SIZE = 2
  Tester = p
  NewSocket = q
  session_id = sp
  FixedIds <- MCFixedIds
  FileSize = 2
  PieceSize = 1
  Excess = 2
  Prompt = TRUE
SPECIFICATION FairSpec
PROPERTY LoneTransferSucceeds
CHECK_DEADLOCK FALSE
