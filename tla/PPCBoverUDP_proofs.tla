------------------------- MODULE PPCBoverUDP_proofs -------------------------
(***************************************************************************)
(* Theorems about PPCBoverUDP, for all clients, files, peers and bounds.   *)
(***************************************************************************)
EXTENDS PPCBoverUDP, SequenceTheorems, TLAPS

(* What the socket operations do to the set of datagrams in flight.        *)

LEMMA SendType ==
  ASSUME TypeOKDatagrams, NEW D \in SUBSET Datagram, Send(D)
  PROVE  TypeOKDatagrams' /\ InFlight' \subseteq InFlight \cup D
BY DEF TypeOKDatagrams, Send, Routed, InFlight, IsABag, BagToSet, SetToBag, (+)

LEMMA ReplyType ==
  ASSUME TypeOKDatagrams, NEW m \in InFlight, NEW D \in SUBSET Datagram,
         Reply(m, D)
  PROVE  TypeOKDatagrams' /\ InFlight' \subseteq InFlight \cup D
BY DEF TypeOKDatagrams, Reply, Routed, InFlight, IsABag, BagToSet, SetToBag,
       (+), (-)

LEMMA CloseType ==
  ASSUME TypeOKDatagrams, NEW p, Close(p)
  PROVE  TypeOKDatagrams' /\ InFlight' \subseteq InFlight
BY DEF TypeOKDatagrams, Close, InFlight, IsABag, BagToSet

LEMMA NetworkType ==
  ASSUME TypeOKDatagrams, NEW m \in InFlight, Lose(m) \/ Duplicate(m)
  PROVE  TypeOKDatagrams' /\ InFlight' \subseteq InFlight
<1> USE NetworkAssumption
<1>1. CASE Lose(m)
  BY <1>1 DEF TypeOKDatagrams, Lose, InFlight, IsABag, BagToSet, SetToBag, (-)
<1>2. CASE Duplicate(m)
  BY <1>2 DEF TypeOKDatagrams, Duplicate, InFlight, IsABag, BagToSet,
              SetToBag, (+)
<1> QED BY <1>1, <1>2

(* The packets that the programs build are datagrams.                      *)

LEMMA AnswerType ==
  ASSUME NEW kind \in Kind, NEW dst \in Addr \cup {NoAddr}, NEW sid \in Sid
  PROVE  Answer(kind, dst, sid) \in Datagram
BY DEF Answer, Packet, Datagram, Addr

LEMMA ACCType ==
  ASSUME NEW dst \in Addr \cup {NoAddr}, NEW sid \in Sid, NEW id \in Nat
  PROVE  ACC(dst, sid, id) \in Datagram
BY DEF ACC, Packet, Datagram, Addr, Kind

LEMMA EndSessionType ==
  ASSUME EndSession
  PROVE  /\ s_pc' \in {"idle", "session", "exit"}
         /\ IF s_pc' = "session" THEN s_conn' \in Conn ELSE s_conn' = NoConn
         /\ s_package_id' \in Nat
         /\ s_bytes_recvd' \in Nat
         /\ s_retransmits' \in 0 .. MAX_RETRANSMITS
         /\ s_received' \in Seq(Piece)
BY NetworkAssumption, EmptySeq DEF EndSession, ResetLocals

LEMMA NoteSenderType ==
  ASSUME TypeOKServer, s_pc = "session", NEW m \in Datagram, NoteSender(m)
  PROVE  s_client_address' \in [Protocol -> Addr \cup {NoAddr}]
BY DEF TypeOKServer, NoteSender, Datagram, Conn

\* One step for each thing the server may do with the datagram it reads.
LEMMA ServerReadsType ==
  ASSUME TypeOK, NEW m \in InFlight, ServerReceives(m), UNCHANGED client_vars
  PROVE  TypeOK'
<1> USE ServerAssumption, NetworkAssumption
<1>m. m \in Datagram
  BY DEF TypeOK, TypeOKDatagrams
<1>f. /\ m.src \in Addr /\ m.sid \in Sid /\ m.id \in Nat /\ m.bytes \in Nat
      /\ m.off \in Nat
  BY <1>m DEF Datagram
<1>c. TypeOKClient'
  BY DEF TypeOK, TypeOKClient, client_vars
<1>n. ASSUME NEW D \in SUBSET Datagram, Reply(m, D)
      PROVE  TypeOKDatagrams'
  BY <1>n, ReplyType DEF TypeOK
<1>s. ASSUME TypeOKDatagrams', TypeOKServer'
      PROVE  TypeOK'
  BY <1>c, <1>s DEF TypeOK
<1>t. TypeOKServer
  BY DEF TypeOK
<1>e. <<>> \in Seq(Piece)
  BY EmptySeq
<1>1. CASE RejectCONN(m)
  <2>1. {Answer("CONRJT", m.src, m.sid)} \subseteq Datagram
    BY <1>f, AnswerType DEF Kind
  <2>2. TypeOKServer'
    BY <1>1, <1>t DEF RejectCONN, TypeOKServer, KeepSession, NoDelivery,
                      signal_vars
  <2> QED BY <1>1, <1>n, <1>s, <2>1, <2>2 DEF RejectCONN
<1>2. CASE AcceptCONN(m)
  <2>1. {Answer("CONACC", m.src, m.sid)} \subseteq Datagram
    BY <1>f, AnswerType DEF Kind
  <2>2. s_conn' \in Conn
    BY <1>2, <1>f DEF AcceptCONN, OpenSession, check_if_correct_CONN, Conn
  <2>3. TypeOKServer'
    BY <1>2, <1>t, <1>e, <2>2 DEF AcceptCONN, TypeOKServer, OpenSession,
       ResetLocals, NoDelivery, signal_vars
  <2> QED BY <1>2, <1>n, <1>s, <2>1, <2>3 DEF AcceptCONN
<1>3. CASE AcceptEmptyCONN(m)
  <2>1. s_client_address[m.proto] \in Addr \cup {NoAddr}
    BY <1>3, <1>t DEF AcceptEmptyCONN, check_if_correct_CONN, TypeOKServer
  <2>2. {Answer("CONACC", m.src, m.sid),
         Answer("RCVD", s_client_address[m.proto], m.sid)} \subseteq Datagram
    BY <1>f, <2>1, AnswerType DEF Kind
  <2>d. [addr |-> m.src, sid |-> m.sid, received |-> <<>>]
          \in [addr : Addr, sid : Sid, received : Seq(Piece)]
    BY <1>e, <1>f
  <2>3. TypeOKServer'
    BY <1>3, <1>t, <2>d DEF AcceptEmptyCONN, TypeOKServer, KeepSession,
       signal_vars
  <2> QED BY <1>3, <1>n, <1>s, <2>2, <2>3 DEF AcceptEmptyCONN
<1>4. CASE SendCONACCFails(m)
  <2>1. TypeOKServer'
    BY <1>4, <1>t DEF SendCONACCFails, TypeOKServer, KeepSession, NoDelivery,
                      signal_vars
  <2> QED BY <1>4, <1>n, <1>s, <2>1 DEF SendCONACCFails
<1>5. CASE TurnAway(m)
  <2>1. /\ {Answer("CONRJT", m.src, m.sid)} \subseteq Datagram
        /\ {Answer("RJT", m.src, m.sid)} \subseteq Datagram
    BY <1>f, AnswerType DEF Kind
  <2>2. TypeOKServer'
    BY <1>5, <1>t, <1>m, NoteSenderType DEF TurnAway, InSession, TypeOKServer,
       KeepSession, NoDelivery, signal_vars
  <2> QED BY <1>5, <1>n, <1>s, <2>1, <2>2 DEF TurnAway
<1>6. CASE GetNothing(m)
  <2>1. TypeOKServer'
    BY <1>6, <1>t DEF GetNothing, TypeOKServer, NoDelivery, signal_vars, Idle
  <2>2. TypeOKDatagrams'
    BY <1>6, <1>n, CloseType DEF GetNothing, TypeOK
  <2> QED BY <1>s, <2>1, <2>2
<1>7. CASE LoseClient(m)
  <2>1. s_client_address' \in [Protocol -> Addr \cup {NoAddr}]
    BY <1>7, <1>t, <1>m, NoteSenderType DEF LoseClient, InSession
  <2>2. TypeOKServer'
    BY <1>7, <1>t, <2>1, EndSessionType DEF LoseClient, TypeOKServer,
       NoDelivery, signal_vars
  <2> QED BY <1>7, <1>n, <1>s, <2>2 DEF LoseClient
\* The other steps are those of a session.
<1>8. CASE FromClient(m)
  <2>1. /\ s_conn \in Conn /\ s_conn.sid \in Sid
        /\ s_package_id \in Nat /\ s_bytes_recvd \in Nat
    BY <1>8, <1>t DEF FromClient, InSession, TypeOKServer, Conn
  <2>2. /\ Answer("RJT", m.src, s_conn.sid) \in Datagram
        /\ Answer("RCVD", m.src, s_conn.sid) \in Datagram
        /\ Acknowledgement(m) \subseteq Datagram
    BY <1>f, <2>1, AnswerType, ACCType DEF Kind, Acknowledgement, client_address
  <2>3. Append(s_received, PieceIn(m)) \in Seq(Piece)
    BY <1>f, <1>t, AppendProperties DEF TypeOKServer, Piece, PieceIn
  <2>4. <<m.src, m.sid, m.id>> \in Addr \X Sid \X Nat
    BY <1>f
  <2>5. NoteSender(m) => s_client_address' \in [Protocol -> Addr \cup {NoAddr}]
    BY <1>8, <1>t, <1>m, NoteSenderType DEF FromClient, InSession
  <2>6. CASE UDPR_Ignore(m)
    <3>1. TypeOKServer'
      BY <2>6, <1>t, <2>5 DEF UDPR_Ignore, TypeOKServer, KeepSession,
         NoDelivery, signal_vars
    <3> QED BY <2>6, <1>n, <1>s, <3>1 DEF UDPR_Ignore
  <2>7. CASE UDPR_Reject(m)
    <3>1. TypeOKServer'
      BY <2>7, <1>t, <2>5, EndSessionType DEF UDPR_Reject, TypeOKServer,
         NoDelivery, signal_vars
    <3> QED BY <2>7, <1>n, <1>s, <2>2, <3>1 DEF UDPR_Reject
  <2>8. CASE UDP_Reject(m)
    <3>1. TypeOKServer'
      BY <2>8, <1>t, <2>5, EndSessionType DEF UDP_Reject, TypeOKServer,
         NoDelivery, signal_vars
    <3> QED BY <2>8, <1>n, <1>s, <2>2, <3>1 DEF UDP_Reject
  <2>9. CASE TakeDATA(m)
    <3>1. TypeOKServer'
      BY <2>9, <1>t, <1>f, <2>3, <2>4, <2>5 DEF TakeDATA, TypeOKServer,
         signal_vars
    <3> QED BY <2>9, <1>n, <1>s, <2>2, <3>1 DEF TakeDATA
  <2>10. CASE TakeLastDATA(m)
    <3> DEFINE file == Append(s_received, PieceIn(m))
    <3>d. [addr |-> m.src, sid |-> m.sid, received |-> file]
            \in [addr : Addr, sid : Sid, received : Seq(Piece)]
      BY <1>f, <2>3
    <3>1. TypeOKServer'
      BY <2>10, <1>t, <3>d, <2>4, <2>5, EndSessionType
         DEF TakeLastDATA, TypeOKServer, signal_vars
    <3> QED BY <2>10, <1>n, <1>s, <2>2, <3>1 DEF TakeLastDATA, client_address
  <2>11. CASE TakeTooMuchDATA(m)
    <3>1. TypeOKServer'
      BY <2>11, <1>t, <2>4, <2>5, EndSessionType
         DEF TakeTooMuchDATA, TypeOKServer, signal_vars
    <3> QED BY <2>11, <1>n, <1>s, <2>2, <3>1 DEF TakeTooMuchDATA, client_address
  <2> QED
    BY <1>1, <1>2, <1>3, <1>4, <1>5, <1>6, <1>7, <2>6, <2>7, <2>8, <2>9, <2>10,
       <2>11 DEF ServerReceives
<1> QED
  BY <1>1, <1>2, <1>3, <1>4, <1>5, <1>8, <1>6, <1>7 DEF ServerReceives,
     UDPR_Ignore, UDPR_Reject, UDP_Reject, TakeDATA, TakeLastDATA, TakeTooMuchDATA

LEMMA ServerAloneType ==
  ASSUME TypeOK, ServerTimesOut \/ Sigint, UNCHANGED client_vars
  PROVE  TypeOK'
<1> USE ServerAssumption, NetworkAssumption
<1>c. TypeOKClient'
  BY DEF TypeOK, TypeOKClient, client_vars
<1>d. ASSUME UNCHANGED dgram_vars
      PROVE  TypeOKDatagrams'
  BY <1>d DEF TypeOK, TypeOKDatagrams, dgram_vars, InFlight, IsABag, BagToSet
<1>t. TypeOKServer /\ TypeOKDatagrams
  BY DEF TypeOK
<1>1. CASE UDP_ServerTimeout \/ UDPR_ServerGiveUp
  <2>1. TypeOKServer'
    BY <1>1, <1>t, EndSessionType DEF UDP_ServerTimeout, UDPR_ServerGiveUp,
       TypeOKServer, NoDelivery, signal_vars
  <2> QED BY <1>1, <1>c, <1>d, <2>1 DEF UDP_ServerTimeout, UDPR_ServerGiveUp,
             TypeOK
<1>2. CASE UDPR_ServerRetransmit
  <2>1. /\ s_conn.addr \in Addr /\ s_conn.sid \in Sid
        /\ s_package_id # 0 => s_package_id - 1 \in Nat
    BY <1>2, <1>t DEF UDPR_ServerRetransmit, TypeOKServer, Conn
  <2>2. {LastSent} \subseteq Datagram
    BY <2>1, AnswerType, ACCType DEF LastSent, Kind
  <2>3. TypeOKDatagrams'
    BY <1>2, <1>t, <2>2, SendType DEF UDPR_ServerRetransmit
  <2>4. TypeOKServer'
    BY <1>2, <1>t DEF UDPR_ServerRetransmit, TypeOKServer, NoDelivery,
       signal_vars
  <2> QED BY <1>c, <2>3, <2>4 DEF TypeOK
<1>3. CASE SigintWhileIdle
  <2>1. TypeOKDatagrams'
    BY <1>3, <1>t, CloseType DEF SigintWhileIdle
  <2>2. TypeOKServer'
    BY <1>3, <1>t DEF SigintWhileIdle, Interrupted, TypeOKServer, NoDelivery
  <2> QED BY <1>c, <2>1, <2>2 DEF TypeOK
<1>4. CASE SigintInSession
  <2>1. TypeOKServer'
    BY <1>4, <1>t, EndSessionType DEF SigintInSession, Interrupted,
       TypeOKServer, NoDelivery
  <2> QED BY <1>4, <1>c, <1>d, <2>1 DEF SigintInSession, TypeOK
<1>5. CASE SigintBetweenReads
  <2>1. TypeOKServer'
    BY <1>5, <1>t DEF SigintBetweenReads, Interrupted, TypeOKServer,
       KeepSession, NoDelivery
  <2> QED BY <1>5, <1>c, <1>d, <2>1 DEF SigintBetweenReads, TypeOK
<1> QED
  BY <1>1, <1>2, <1>3, <1>4, <1>5 DEF ServerTimesOut, Sigint

-----------------------------------------------------------------------------
(* The clients.                                                            *)

LEMMA CONNType ==
  ASSUME NEW c \in Client, NEW proto \in Protocol
  PROVE  {CONN(c, SessionId[c], proto, occupied_size[c])} \subseteq Datagram
<1>1. SessionId[c] \in Sid /\ occupied_size[c] \in Nat /\ c \in Addr
  BY ClientAssumption DEF Addr
<1> QED BY <1>1 DEF CONN, Packet, Datagram, Addr, Kind

LEMMA ShiftType ==
  ASSUME NEW c \in Client, TypeOKClient
  PROVE  /\ shift(c) \in Nat
         /\ shift(c) <= SEND_BUFF_SIZE
         /\ c_bytes_sent[c] + shift(c) <= occupied_size[c]
         /\ c_bytes_sent[c] < occupied_size[c] => shift(c) > 0
<1>1. /\ c_bytes_sent[c] \in Nat /\ occupied_size[c] \in Nat
      /\ c_bytes_sent[c] <= occupied_size[c] /\ SEND_BUFF_SIZE \in Nat \ {0}
  BY ClientAssumption DEF TypeOKClient
<1> QED BY <1>1 DEF shift

LEMMA NextDATAType ==
  ASSUME NEW c \in Client, TypeOKClient
  PROVE  {NextDATA(c)} \subseteq Datagram
<1>1. /\ SessionId[c] \in Sid /\ c_package_id[c] \in Nat
      /\ c_bytes_sent[c] \in Nat /\ shift(c) \in Nat
  BY ShiftType, ClientAssumption DEF TypeOKClient
<1> QED BY <1>1 DEF NextDATA, DATA, Packet, Datagram, Addr, Kind

LEMMA NextPieceType ==
  ASSUME NEW c \in Client, TypeOKClient, NextPiece(c)
  PROVE  /\ c_package_id' \in [Client -> Nat]
         /\ c_bytes_sent' \in [Client -> Nat]
         /\ \A x \in Client : c_bytes_sent'[x] <= occupied_size[x]
<1>1. /\ shift(c) \in Nat
      /\ c_bytes_sent[c] + shift(c) <= occupied_size[c]
  BY ShiftType
<1> QED BY <1>1 DEF NextPiece, TypeOKClient

LEMMA TakesType ==
  ASSUME NEW c \in Client, NEW m \in Datagram, NEW pc, TypeOKClient,
         Takes(c, m, pc)
  PROVE  c_server_ip' \in [Client -> {IpOf[x] : x \in Addr} \cup {NoIp}]
BY DEF Takes, real_server_s_addr, TypeOKClient, Datagram

\* Everything a client does to the datagrams in flight.
ClientSocket(c) ==
  \/ UNCHANGED dgram_vars
  \/ Close(c)
  \/ Send({CONN(c, SessionId[c], ProtocolOf[c], occupied_size[c])})
  \/ c_pc[c] = "DATA" /\ Send({NextDATA(c)})
  \/ \E m \in InFlight : Reply(m, {})

LEMMA ClientSocketType ==
  ASSUME TypeOKDatagrams, TypeOKClient, NEW c \in Client, ClientSocket(c)
  PROVE  TypeOKDatagrams'
<1>1. CASE UNCHANGED dgram_vars
  BY <1>1 DEF TypeOKDatagrams, dgram_vars, InFlight, IsABag, BagToSet
<1>2. ProtocolOf[c] \in Protocol
  BY ClientAssumption
<1> QED
  BY <1>1, <1>2, CloseType, SendType, ReplyType, CONNType, NextDATAType
     DEF ClientSocket

\* A step to another program counter keeps the client's type.
LEMMA GotoType ==
  ASSUME TypeOKClient, NEW c \in Client,
         NEW pc \in {"CONN", "DATA"} \cup Waiting \cup Ended, Goto(c, pc)
  PROVE  c_pc' \in [Client -> {"CONN", "DATA"} \cup Waiting \cup Ended]
BY DEF TypeOKClient, Goto

LEMMA UDPClientType ==
  ASSUME TypeOKClient, NEW c \in Client, ProtocolOf[c] = "UDP",
         \/ UDP_Sends(c)
         \/ \E m \in InFlight \cap Datagram : UDP_Receives(c, m)
         \/ UDP_Timeout(c)
  PROVE  TypeOKClient' /\ ClientSocket(c)
<1>p. \A pc : Goto(c, pc) /\ pc \in {"CONN", "DATA"} \cup Waiting \cup Ended
        => c_pc' \in [Client -> {"CONN", "DATA"} \cup Waiting \cup Ended]
  BY GotoType
<1>a. \A n : AfterBytes(c, n) \in {"DATA", "wait_RCVD"}
  BY DEF AfterBytes
<1>1. CASE UDP_SendCONN(c)
  BY <1>1, <1>p DEF UDP_SendCONN, TypeOKClient, ClientSocket, Waiting
<1>2. CASE UDP_SendFails(c) \/ UDP_Timeout(c)
  BY <1>2, <1>p DEF UDP_SendFails, UDP_Timeout, Quit, TypeOKClient,
                    ClientSocket, Ended
<1>3. CASE UDP_SendDATA(c)
  BY <1>3, <1>p, <1>a, NextPieceType
     DEF UDP_SendDATA, TypeOKClient, ClientSocket, Waiting
<1>4. ASSUME NEW m \in InFlight \cap Datagram, UDP_Receives(c, m)
      PROVE  TypeOKClient' /\ ClientSocket(c)
  <2>1. CASE UDP_GetCONACC(c, m)
    BY <2>1, <1>p, <1>a, TakesType
       DEF UDP_GetCONACC, Response, TypeOKClient, ClientSocket, Waiting
  <2>2. CASE UDP_GetRCVD(c, m) \/ UDP_GetWrongPacket(c, m)
    BY <2>2, <1>p, TakesType DEF UDP_GetRCVD, UDP_GetWrongPacket, Response,
       Quit, TypeOKClient, ClientSocket, Ended
  <2>3. CASE UDP_GetNothing(c, m)
    BY <2>3, <1>p DEF UDP_GetNothing, TakesNothing, Quit, TypeOKClient,
       ClientSocket, Ended
  <2> QED BY <1>4, <2>1, <2>2, <2>3 DEF UDP_Receives
<1> QED BY <1>1, <1>2, <1>3, <1>4 DEF UDP_Sends

LEMMA RetransmitType ==
  ASSUME TypeOKClient, NEW c \in Client, NEW pc, Retransmit(c, pc)
  PROVE  c_retransmits' \in [Client -> 0 .. MAX_RETRANSMITS]
BY NetworkAssumption DEF TypeOKClient, Retransmit

LEMMA UDPRClientType ==
  ASSUME TypeOKClient, NEW c \in Client, ProtocolOf[c] = "UDPR",
         \/ UDPR_Sends(c)
         \/ \E m \in InFlight \cap Datagram : UDPR_Receives(c, m)
         \/ UDPR_Timeout(c)
  PROVE  TypeOKClient' /\ ClientSocket(c)
<1>p. \A pc : Goto(c, pc) /\ pc \in {"CONN", "DATA"} \cup Waiting \cup Ended
        => c_pc' \in [Client -> {"CONN", "DATA"} \cup Waiting \cup Ended]
  BY GotoType
<1>a. \A n : AfterBytes(c, n) \in {"DATA", "wait_RCVD"}
  BY DEF AfterBytes
<1>1. CASE UDPR_SendCONN(c)
  BY <1>1, <1>p DEF UDPR_SendCONN, TypeOKClient, ClientSocket, Waiting
<1>2. CASE UDPR_SendCONNFails(c)
  BY <1>2, <1>p, RetransmitType DEF UDPR_SendCONNFails, GiveUp, Retransmit,
     Quit, Progress, TypeOKClient, ClientSocket, Ended
<1>3. CASE UDPR_SendDATA(c)
  BY <1>3, <1>p DEF UDPR_SendDATA, Progress, TypeOKClient, ClientSocket, Waiting
<1>4. CASE UDPR_SendDATAFails(c)
  BY <1>4, <1>p DEF UDPR_SendDATAFails, Quit, Progress, TypeOKClient,
     ClientSocket, Ended
<1>5. CASE UDPR_Timeout(c)
  BY <1>5, <1>p, RetransmitType DEF UDPR_Timeout, GiveUp, Retransmit, Quit,
     Progress, TypeOKClient, ClientSocket, Ended
<1>6. ASSUME NEW m \in InFlight \cap Datagram, UDPR_Receives(c, m)
      PROVE  TypeOKClient' /\ ClientSocket(c)
  <2>t. \A pc : Response(c, m, pc) =>
          c_server_ip' \in [Client -> {IpOf[x] : x \in Addr} \cup {NoIp}]
    BY TakesType DEF Response
  <2>1. CASE UDPR_GetCONACC(c, m)
    BY <2>1, <2>t, <1>p, <1>a DEF UDPR_GetCONACC, Progress, TypeOKClient,
       ClientSocket, Waiting
  <2>2. CASE UDPR_GetOtherThanCONACC(c, m) \/ UDPR_GetEarlyRCVD(c, m)
    BY <2>2, <2>t, <1>p, RetransmitType
       DEF UDPR_GetOtherThanCONACC, UDPR_GetEarlyRCVD, GiveUp, Retransmit,
           Quit, Progress, TypeOKClient, ClientSocket, Ended
  <2>3. CASE UDPR_GetACC(c, m)
    BY <2>3, <2>t, <1>p, <1>a, NextPieceType
       DEF UDPR_GetACC, TypeOKClient, ClientSocket, Waiting
  <2>4. CASE UDPR_IgnoreEarlier(c, m) \/ UDPR_IgnoreLateACC(c, m)
    BY <2>4, <2>t DEF UDPR_IgnoreEarlier, UDPR_IgnoreLateACC, Progress,
       TypeOKClient, ClientSocket
  <2>5. CASE \/ UDPR_GetCONRJT(c, m) \/ UDPR_GetOtherThanACC(c, m)
             \/ UDPR_GetRCVD(c, m) \/ UDPR_GetOtherThanRCVD(c, m)
    BY <2>5, <2>t, <1>p
       DEF UDPR_GetCONRJT, UDPR_GetOtherThanACC, UDPR_GetRCVD,
           UDPR_GetOtherThanRCVD, Quit, Progress, TypeOKClient, ClientSocket,
           Ended
  <2>6. CASE UDPR_GetNothing(c, m)
    BY <2>6, <1>p, RetransmitType
       DEF UDPR_GetNothing, TakesNothing, GiveUp, Retransmit, Quit, Progress,
           TypeOKClient, ClientSocket, Ended
  <2> QED BY <1>6, <2>1, <2>2, <2>3, <2>4, <2>5, <2>6 DEF UDPR_Receives
<1> QED BY <1>1, <1>2, <1>3, <1>4, <1>5, <1>6 DEF UDPR_Sends

LEMMA ClientStepSocket ==
  ASSUME TypeOK, NEW c \in Client, ClientStep(c) \/ ClientKilled(c)
  PROVE  TypeOKClient' /\ ClientSocket(c) /\ UNCHANGED server_vars
<1>1. TypeOKDatagrams /\ TypeOKClient /\ InFlight = InFlight \cap Datagram
  BY DEF TypeOK, TypeOKDatagrams
<1>2. UNCHANGED server_vars
  BY DEF ClientStep, ClientKilled, ClientSends, ClientReceives, ClientTimesOut
<1>3. CASE ClientKilled(c)
  BY <1>1, <1>2, <1>3, GotoType DEF ClientKilled, Killed, Quit, TypeOKClient,
     ClientSocket, Ended
<1>4. CASE \E m \in InFlight : IgnoreStranger(c, m)
  BY <1>1, <1>2, <1>4, TakesType DEF IgnoreStranger, TypeOKClient, ClientSocket
<1>5. ProtocolOf[c] = "UDP" \/ ProtocolOf[c] = "UDPR"
  BY ClientAssumption DEF Protocol
<1>6. CASE ClientStep(c) /\ ~ (\E m \in InFlight : IgnoreStranger(c, m))
  BY <1>1, <1>2, <1>5, <1>6, UDPClientType, UDPRClientType
     DEF ClientStep, ClientSends, ClientReceives, ClientTimesOut
<1> QED BY <1>3, <1>4, <1>6

LEMMA ClientStepType ==
  ASSUME TypeOK, NEW c \in Client, ClientStep(c) \/ ClientKilled(c)
  PROVE  TypeOK'
<1>1. TypeOKDatagrams /\ TypeOKClient
  BY DEF TypeOK
<1>2. TypeOKClient' /\ ClientSocket(c) /\ UNCHANGED server_vars
  BY ClientStepSocket
<1>3. TypeOKServer'
  BY <1>2 DEF TypeOK, TypeOKServer, server_vars
<1> QED BY <1>1, <1>2, <1>3, ClientSocketType DEF TypeOK

-----------------------------------------------------------------------------

LEMMA TypeInit ==
  ASSUME Init
  PROVE  TypeOK
<1>1. TypeOKDatagrams
  BY ScenarioAssumption, NetworkAssumption
     DEF Init, InitDatagrams, TypeOKDatagrams, InFlight
<1>2. TypeOKServer
  <2>1. s_received \in Seq(Piece)
    BY EmptySeq DEF Init, InitServer
  <2>2. s_retransmits \in 0 .. MAX_RETRANSMITS /\ sigints \in 0 .. MaxSigint
    BY NetworkAssumption, ServerAssumption DEF Init, InitServer
  <2>3. s_client_address \in [Protocol -> Addr \cup {NoAddr}]
    BY DEF Init, InitServer
  <2> QED BY <2>1, <2>2, <2>3 DEF Init, InitServer, TypeOKServer
<1>3. TypeOKClient
  <2>1. \A c \in Client : c_bytes_sent[c] <= occupied_size[c]
    BY ClientAssumption DEF Init, InitClient
  <2> QED BY <2>1, NetworkAssumption DEF Init, InitClient, TypeOKClient, Ended
<1> QED BY <1>1, <1>2, <1>3 DEF TypeOK

LEMMA TypeStep ==
  ASSUME TypeOK, [Next]_vars
  PROVE  TypeOK'
<1>1. CASE \E c \in Client : ClientStep(c) \/ ClientKilled(c)
  BY <1>1, ClientStepType
<1>2. CASE ServerReads
  BY <1>2, ServerReadsType DEF ServerReads
<1>3. CASE ServerWaits \/ ServerInterrupted
  BY <1>3, ServerAloneType DEF ServerWaits, ServerInterrupted
<1>4. CASE Network
  BY <1>4, NetworkType DEF Network, TypeOK, TypeOKServer, TypeOKClient,
     server_vars, client_vars
<1>5. CASE UNCHANGED vars
  BY <1>5 DEF vars, TypeOK, TypeOKDatagrams, TypeOKServer, TypeOKClient,
     dgram_vars, server_vars, client_vars, IsABag, InFlight, BagToSet
<1> QED BY <1>1, <1>2, <1>3, <1>4, <1>5 DEF Next, ServerStep

\* All variables keep their types: counters within their limits, addresses and
\* sessions among those there are, no client past the end of its file.
THEOREM TypeCorrect == Spec => []TypeOK
BY TypeInit, TypeStep, PTL DEF Spec

-----------------------------------------------------------------------------
(* Safety.  For a CONN without bytes the server sends RCVD to an address   *)
(* that has nothing to do with the session, so that only the session id    *)
(* tells another client that this RCVD is not its own.                     *)

EmptyFilesHaveOwnIds ==
  \A c, d \in Client :
    c # d /\ occupied_size[d] = 0 => SessionId[c] # SessionId[d]

LEMMA NextOffset ==
  ASSUME NEW id \in Nat
  PROVE  /\ OffsetOf(id) \in Nat /\ OffsetOf(0) = 0
         /\ OffsetOf(id + 1) = OffsetOf(id) + SEND_BUFF_SIZE
<1>1. SEND_BUFF_SIZE \in Nat
  BY ClientAssumption
<1> QED BY <1>1 DEF OffsetOf

\* A piece that starts where the others end makes them longer by its bytes.
LEMMA ContiguousAppend ==
  ASSUME NEW pieces \in Seq(Piece), NEW n \in Nat, NEW piece \in Piece,
         Contiguous(pieces, n), piece.off = n
  PROVE  Contiguous(Append(pieces, piece), n + piece.bytes)
<1> DEFINE longer == Append(pieces, piece)
<1>1. /\ Len(longer) = Len(pieces) + 1 /\ Len(pieces) \in Nat
      /\ \A i \in 1 .. Len(pieces) : longer[i] = pieces[i]
      /\ longer[Len(pieces) + 1] = piece
  BY AppendProperties, LenProperties
<1>2. CASE Len(pieces) = 0
  BY <1>1, <1>2 DEF Contiguous
<1>3. CASE Len(pieces) > 0
  <2>1. longer[1].off = 0
    BY <1>1, <1>3 DEF Contiguous
  <2>2. ASSUME NEW i \in 1 .. Len(pieces)
        PROVE  longer[i + 1].off = longer[i].off + longer[i].bytes
    <3>1. CASE i = Len(pieces)
      BY <1>1, <1>3, <3>1 DEF Contiguous
    <3>2. CASE i < Len(pieces)
      <4>1. i \in 1 .. Len(pieces) - 1 /\ i + 1 \in 1 .. Len(pieces)
        BY <1>1, <3>2
      <4> QED BY <1>1, <1>3, <4>1 DEF Contiguous
    <3> QED BY <1>1, <3>1, <3>2
  <2>3. longer[Len(longer)].off + longer[Len(longer)].bytes = n + piece.bytes
    BY <1>1
  <2> QED BY <1>1, <2>1, <2>2, <2>3 DEF Contiguous
<1> QED BY <1>1, <1>2, <1>3

\* A packet that the step puts on the wire tells the truth in the next state.
\* (m is always a bound variable where this is used: a packet written with state
\* variables would be read in the next state as well.)
TrueFromNowOn(m) ==
  Origin(m) /\ TrueCONN(m) /\ TrueDATA(m)' /\ TrueACC(m)' /\ TrueRCVD(m)'

LEMMA BeginningAppend ==
  ASSUME NEW c, NEW pieces \in Seq(Piece), NEW n \in Nat, NEW piece \in Piece,
         Beginning(c, pieces, n), piece.off = n, piece.of = c
  PROVE  Beginning(c, Append(pieces, piece), n + piece.bytes)
<1> DEFINE longer == Append(pieces, piece)
<1>1. /\ Len(longer) = Len(pieces) + 1 /\ Len(pieces) \in Nat
      /\ \A i \in 1 .. Len(pieces) : longer[i] = pieces[i]
      /\ longer[Len(pieces) + 1] = piece
  BY AppendProperties, LenProperties
<1>2. \A i \in 1 .. Len(longer) : longer[i].of = c
  BY <1>1 DEF Beginning
<1> QED BY <1>2, ContiguousAppend DEF Beginning

\* What was true of a packet stays true, and the new packets are true.
LEMMA PacketsStayTrue ==
  ASSUME TypeOK, TruePackets,
         \A m \in InFlight' : m \in InFlight \/ TrueFromNowOn(m),
         accepted \subseteq accepted', delivered \subseteq delivered',
         \A c \in Client : /\ c_package_id'[c] \in Nat
                           /\ c_package_id[c] <= c_package_id'[c]
  PROVE  TruePackets'
<1> SUFFICES ASSUME NEW m \in InFlight
             PROVE  TrueDATA(m)' /\ TrueACC(m)' /\ TrueRCVD(m)'
  BY DEF TruePackets, Origin, TrueCONN, TrueFromNowOn
<1>0. TrueDATA(m) /\ TrueACC(m) /\ TrueRCVD(m)
  BY DEF TruePackets
<1>1. m.id \in Nat /\ \A c \in Client : c_package_id[c] \in Nat
  BY DEF TypeOK, TypeOKDatagrams, TypeOKClient, Datagram
<1>2. TrueDATA(m)'
  BY <1>0, <1>1 DEF TrueDATA
<1>3. TrueACC(m)'
  BY <1>0 DEF TrueACC
<1>4. TrueRCVD(m)'
  BY <1>0 DEF TrueRCVD, WholeFileDelivered
<1> QED BY <1>2, <1>3, <1>4

\* The conjuncts of Inductive that speak of the clients, and those that speak of
\* the session.
ClientPart ==
  /\ \A c \in Client : ClientPosition(c)
  /\ SuccessMeansDelivered
  /\ \A c \in Client : ProtocolOf[c] = "UDPR" => AckedWasTaken(c)

ServerPart ==
  /\ SessionPosition
  /\ SessionHoldsPrefix
  /\ \A c \in Client : ProtocolOf[c] = "UDPR" => OneAhead(c)

LEMMA InductiveParts ==
  Inductive <=> TypeOK /\ TruePackets /\ ClientPart /\ ServerPart
BY DEF Inductive, ClientPart, ServerPart, StopAndWait

(* What the steps of the server do to the two parts.                       *)

LEMMA ServerKeepsClientPart ==
  ASSUME ClientPart, UNCHANGED client_vars,
         accepted \subseteq accepted', delivered \subseteq delivered'
  PROVE  ClientPart'
<1>1. SuccessMeansDelivered'
  BY DEF ClientPart, SuccessMeansDelivered, WholeFileDelivered, client_vars
<1>2. \A c \in Client : ClientPosition(c)'
  BY DEF ClientPart, ClientPosition, client_vars
<1>3. \A c \in Client : ProtocolOf[c] = "UDPR" => AckedWasTaken(c)'
  BY DEF ClientPart, AckedWasTaken, client_vars
<1> QED BY <1>1, <1>2, <1>3 DEF ClientPart

LEMMA SessionEnds ==
  ASSUME EndSession
  PROVE  ServerPart'
BY AddressAssumption
   DEF EndSession, NoConn, ServerPart, SessionPosition, SessionHoldsPrefix,
       OneAhead, Addr

\* A step that leaves the session alone, or closes it with the socket.
LEMMA SessionStays ==
  ASSUME TypeOK, ServerPart, s_pc' = s_pc \/ s_pc' = "exit",
         UNCHANGED <<s_conn, s_package_id, s_bytes_recvd, s_received>>,
         accepted \subseteq accepted',
         \A c \in Client : /\ c_package_id'[c] \in Nat
                           /\ c_package_id[c] <= c_package_id'[c]
  PROVE  ServerPart'
<1>1. SessionPosition'
  BY DEF ServerPart, SessionPosition
<1>2. SessionHoldsPrefix'
  BY DEF ServerPart, SessionHoldsPrefix, Beginning, Contiguous
<1>3. \A c \in Client : ProtocolOf[c] = "UDPR" => OneAhead(c)'
  BY DEF ServerPart, OneAhead, TypeOK, TypeOKServer, TypeOKClient
<1> QED BY <1>1, <1>2, <1>3 DEF ServerPart

\* The answers that promise nothing.
LEMMA AnswerTrue ==
  ASSUME NEW kind \in {"CONACC", "CONRJT", "RJT"}, NEW dst, NEW sid
  PROVE  TrueFromNowOn(Answer(kind, dst, sid))
BY AddressAssumption
   DEF TrueFromNowOn, Origin, TrueCONN, TrueDATA, TrueACC, TrueRCVD, Answer,
       Packet

LEMMA ACCTrue ==
  ASSUME NEW dst, NEW sid, NEW id,
         dst \in Client => <<dst, sid, id>> \in accepted'
  PROVE  TrueFromNowOn(ACC(dst, sid, id))
BY AddressAssumption
   DEF TrueFromNowOn, Origin, TrueCONN, TrueDATA, TrueACC, TrueRCVD, ACC, Packet

LEMMA RCVDTrue ==
  ASSUME NEW dst, NEW sid,
         dst \in Client /\ sid = SessionId[dst] => WholeFileDelivered(dst)'
  PROVE  TrueFromNowOn(Answer("RCVD", dst, sid))
BY AddressAssumption
   DEF TrueFromNowOn, Origin, TrueCONN, TrueDATA, TrueACC, TrueRCVD, Answer,
       Packet

\* What a datagram from the wire says, in a state that satisfies Inductive.
LEMMA PacketFacts ==
  ASSUME TypeOK, TruePackets, NEW m \in InFlight
  PROVE  /\ m \in Datagram
         /\ m.src \in Addr /\ m.sid \in Sid /\ m.id \in Nat
         /\ m.bytes \in Nat /\ m.off \in Nat
         /\ Origin(m) /\ TrueCONN(m) /\ TrueDATA(m) /\ TrueACC(m)
         /\ TrueRCVD(m)
BY DEF TypeOK, TypeOKDatagrams, TruePackets, Datagram

LEMMA SessionOpens ==
  ASSUME TypeOK, TruePackets, ServerPart, NEW m \in InFlight,
         check_if_correct_CONN(m), OpenSession(m), UNCHANGED client_vars
  PROVE  ServerPart'
<1>1. /\ s_pc' = "session" /\ s_package_id' = 0 /\ s_bytes_recvd' = 0
      /\ s_received' = <<>>
      /\ s_conn'.addr = m.src /\ s_conn'.sid = m.sid
      /\ s_conn'.proto = m.proto /\ s_conn'.bytes = m.bytes
  BY DEF OpenSession, ResetLocals
<1>2. m.src \in Client => /\ m.sid = SessionId[m.src]
                          /\ m.proto = ProtocolOf[m.src]
                          /\ m.bytes = occupied_size[m.src]
  BY PacketFacts DEF check_if_correct_CONN, TrueCONN
<1>3. SessionPosition'
  <2>1. OffsetOf(0) = 0
    BY NextOffset
  <2> QED BY <1>1, <1>2, <2>1 DEF SessionPosition
<1>4. SessionHoldsPrefix'
  BY <1>1 DEF SessionHoldsPrefix, Beginning, Contiguous
<1>5. \A c \in Client : OneAhead(c)'
  BY <1>1 DEF OneAhead, client_vars, TypeOK, TypeOKClient
<1> QED BY <1>3, <1>4, <1>5 DEF ServerPart

\* A DATA packet that the session takes continues what it holds.
LEMMA DATAContinues ==
  ASSUME TypeOK, TruePackets, ServerPart, NEW m \in InFlight, FromClient(m),
         check_if_correct_DATA_packet(m) = "SUCCESS"
  PROVE  /\ m.kind = "DATA" /\ m.sid = s_conn.sid /\ m.id = s_package_id
         /\ m.src = s_conn.addr
         /\ s_conn.addr \in Client =>
              /\ s_conn.sid = SessionId[s_conn.addr]
              /\ s_conn.bytes = occupied_size[s_conn.addr]
              /\ m.off = s_bytes_recvd
              /\ m.bytes = BytesAt(m.src, s_bytes_recvd)
              /\ ProtocolOf[m.src] = "UDPR" => m.id <= c_package_id[m.src]
              /\ Beginning(m.src, Append(s_received, PieceIn(m)),
                           s_bytes_recvd + m.bytes)
<1>1. /\ m.kind = "DATA" /\ m.sid = s_conn.sid /\ m.id = s_package_id
      /\ m.src = s_conn.addr /\ s_pc = "session"
  BY DEF check_if_correct_DATA_packet, FromClient, InSession
<1>2. ASSUME s_conn.addr \in Client
      PROVE  /\ s_conn.sid = SessionId[s_conn.addr]
             /\ s_conn.bytes = occupied_size[s_conn.addr]
             /\ s_bytes_recvd = OffsetOf(s_package_id)
             /\ Beginning(s_conn.addr, s_received, s_bytes_recvd)
  BY <1>1, <1>2 DEF ServerPart, SessionPosition, SessionHoldsPrefix
<1>3. ASSUME s_conn.addr \in Client
      PROVE  /\ m.off = OffsetOf(m.id)
             /\ m.bytes = BytesAt(m.src, m.off)
             /\ ProtocolOf[m.src] = "UDPR" => m.id <= c_package_id[m.src]
  BY <1>1, <1>3, PacketFacts DEF TrueDATA
<1>4. /\ PieceIn(m) \in Piece /\ PieceIn(m).of = m.src
      /\ PieceIn(m).off = m.off /\ PieceIn(m).bytes = m.bytes
  BY PacketFacts DEF Piece, PieceIn
<1>5. s_received \in Seq(Piece) /\ s_bytes_recvd \in Nat
  BY DEF TypeOK, TypeOKServer
<1>6. ASSUME s_conn.addr \in Client
      PROVE  Beginning(m.src, Append(s_received, PieceIn(m)),
                       s_bytes_recvd + m.bytes)
  BY <1>1, <1>2, <1>3, <1>4, <1>5, <1>6, BeginningAppend
<1> QED BY <1>1, <1>2, <1>3, <1>6

LEMMA SessionGrows ==
  ASSUME TypeOK, TruePackets, ServerPart, NEW m \in InFlight, TakeDATA(m),
         UNCHANGED client_vars
  PROVE  ServerPart'
<1>1. FromClient(m) /\ check_if_correct_DATA_packet(m) = "SUCCESS"
  BY DEF TakeDATA
<1>2. /\ s_pc = "session" /\ s_conn \in Conn /\ s_package_id \in Nat
      /\ s_bytes_recvd \in Nat
  BY <1>1 DEF FromClient, InSession, TypeOK, TypeOKServer
<1>3. /\ s_pc' = s_pc /\ s_conn' = s_conn /\ s_package_id' = s_package_id + 1
      /\ s_bytes_recvd' = s_bytes_recvd + m.bytes
      /\ s_received' = Append(s_received, PieceIn(m))
      /\ accepted' = accepted \cup {<<m.src, m.sid, m.id>>}
      /\ s_bytes_recvd + m.bytes < s_conn.bytes
  BY DEF TakeDATA
<1>4. SessionPosition'
  <2>1. \A id \in 0 .. s_package_id' - 1 :
          <<s_conn.addr, s_conn.sid, id>> \in accepted'
    <3> SUFFICES ASSUME NEW id \in 0 .. s_package_id' - 1
                 PROVE  <<s_conn.addr, s_conn.sid, id>> \in accepted'
      OBVIOUS
    <3>1. CASE id = s_package_id
      BY <1>1, <1>3, <3>1, DATAContinues
    <3>2. CASE id \in 0 .. s_package_id - 1
      BY <1>2, <1>3, <3>2 DEF ServerPart, SessionPosition
    <3> QED BY <1>2, <1>3, <3>1, <3>2
  <2>2. ASSUME s_conn.addr \in Client
        PROVE  s_bytes_recvd' = OffsetOf(s_package_id')
    <3>1. /\ m.bytes = BytesAt(s_conn.addr, s_bytes_recvd)
          /\ s_conn.bytes = occupied_size[s_conn.addr]
          /\ occupied_size[s_conn.addr] \in Nat /\ SEND_BUFF_SIZE \in Nat
      BY <1>1, <2>2, DATAContinues, ClientAssumption
    <3>2. m.bytes = SEND_BUFF_SIZE
      BY <1>2, <1>3, <3>1 DEF BytesAt
    <3>3. s_bytes_recvd = OffsetOf(s_package_id)
      BY <1>2, <2>2 DEF ServerPart, SessionPosition
    <3> QED BY <1>2, <1>3, <3>2, <3>3, NextOffset
  <2> QED BY <1>2, <1>3, <2>1, <2>2 DEF ServerPart, SessionPosition
<1>5. SessionHoldsPrefix'
  BY <1>1, <1>3, DATAContinues DEF SessionHoldsPrefix, Beginning, Contiguous
<1>6. ASSUME NEW c \in Client, ProtocolOf[c] = "UDPR"
      PROVE  OneAhead(c)'
  <2>1. s_conn.addr = c => s_package_id <= c_package_id[c]
    BY <1>1, <1>6, DATAContinues
  <2>2. c_package_id[c] \in Nat /\ c_package_id' = c_package_id
    BY DEF TypeOK, TypeOKClient, client_vars
  <2> QED BY <1>2, <1>3, <2>1, <2>2 DEF OneAhead
<1> QED BY <1>4, <1>5, <1>6 DEF ServerPart

\* The session of a client that ends with an RCVD has the client's whole file.
LEMMA WholeFileTaken ==
  ASSUME TypeOK, TruePackets, ServerPart, NEW m \in InFlight, TakeLastDATA(m),
         NEW c \in Client, s_conn.addr = c
  PROVE  WholeFileDelivered(c)'
<1> DEFINE file == Append(s_received, PieceIn(m))
           session == [addr |-> m.src, sid |-> m.sid, received |-> file]
<1>1. /\ FromClient(m) /\ check_if_correct_DATA_packet(m) = "SUCCESS"
      /\ s_bytes_recvd + m.bytes = s_conn.bytes
      /\ session \in delivered'
  BY DEF TakeLastDATA
<1>2. /\ m.src = c /\ m.sid = SessionId[c]
      /\ Beginning(c, file, occupied_size[c])
  BY <1>1, DATAContinues
<1>3. /\ session.addr = c /\ session.sid = SessionId[c]
      /\ session.received = file
  BY <1>2
<1> HIDE DEF file, session
<1>4. Beginning(c, session.received, occupied_size[c])
  BY <1>2, <1>3
<1> QED BY <1>1, <1>3, <1>4 DEF WholeFileDelivered

LEMMA NoDeliveryGrows ==
  ASSUME NoDelivery
  PROVE  accepted \subseteq accepted' /\ delivered \subseteq delivered'
BY DEF NoDelivery

\* What the acknowledgement of a DATA packet says, once it is taken, is true.
LEMMA AcknowledgementTrue ==
  ASSUME TypeOK, TruePackets, ServerPart, NEW m \in InFlight, FromClient(m),
         check_if_correct_DATA_packet(m) = "SUCCESS",
         accepted' = accepted \cup {<<m.src, m.sid, m.id>>}
  PROVE  \A d \in Acknowledgement(m) : TrueFromNowOn(d)
<1>1. <<m.src, s_conn.sid, s_package_id>> \in accepted'
  BY DATAContinues
<1> QED BY <1>1, ACCTrue DEF Acknowledgement, client_address

\* The RCVD that a CONN without bytes makes the server send is no other client's.
LEMMA EmptyCONNTrue ==
  ASSUME EmptyFilesHaveOwnIds, TypeOK, TruePackets, NEW m \in InFlight, NEW dst,
         AcceptEmptyCONN(m)
  PROVE  TrueFromNowOn(Answer("RCVD", dst, m.sid))
<1>1. m.kind = "CONN" /\ m.bytes = 0
  BY DEF AcceptEmptyCONN, check_if_correct_CONN
<1>2. CASE m.src \in Client
  <2>1. m.sid = SessionId[m.src] /\ occupied_size[m.src] = 0
    BY <1>1, <1>2, PacketFacts DEF TrueCONN
  <2>2. \A c \in Client : m.sid = SessionId[c] => c = m.src
    BY <1>2, <2>1 DEF EmptyFilesHaveOwnIds
  <2>3. WholeFileDelivered(m.src)'
    <3> DEFINE session == [addr |-> m.src, sid |-> m.sid, received |-> <<>>]
    <3>1. session \in delivered'
      BY DEF AcceptEmptyCONN
    <3>2. /\ session.addr = m.src /\ session.sid = SessionId[m.src]
          /\ Beginning(m.src, session.received, occupied_size[m.src])
      BY <2>1 DEF Beginning, Contiguous
    <3> HIDE DEF session
    <3> QED BY <3>1, <3>2 DEF WholeFileDelivered
  <2> QED BY <2>2, <2>3, RCVDTrue
<1>3. CASE m.src \notin Client
  <2>1. m \in Stray
    BY <1>1, <1>3, PacketFacts DEF Origin, Addr
  <2>2. \A c \in Client : m.sid # SessionId[c]
    BY <2>1, ForeignStrays
  <2> QED BY <2>2, RCVDTrue
<1> QED BY <1>2, <1>3

\* Whatever the server does with a datagram: what it sends is true, and the
\* session stays sound.
LEMMA ServerReadsSound ==
  ASSUME EmptyFilesHaveOwnIds, Inductive, NEW m \in InFlight, ServerReceives(m),
         UNCHANGED client_vars
  PROVE  TruePackets' /\ ClientPart' /\ ServerPart'
<1>i. TypeOK /\ TruePackets /\ ClientPart /\ ServerPart
  BY InductiveParts
<1>d. TypeOKDatagrams /\ TypeOKServer
  BY <1>i DEF TypeOK
<1>t. TypeOK'
  BY <1>i, ServerReadsType
<1>g. \A c \in Client : /\ c_package_id'[c] \in Nat
                        /\ c_package_id[c] <= c_package_id'[c]
  BY <1>i DEF TypeOK, TypeOKClient, client_vars
<1>q. ASSUME NEW D, Reply(m, D), \A d \in D : TrueFromNowOn(d),
             accepted \subseteq accepted', delivered \subseteq delivered',
             ServerPart'
      PROVE  TruePackets' /\ ClientPart' /\ ServerPart'
  <2>1. InFlight' \subseteq InFlight \cup D
    BY <1>q, <1>d DEF Reply, Routed, InFlight, TypeOKDatagrams, IsABag,
       BagToSet, SetToBag, (+), (-)
  <2> QED BY <1>i, <1>g, <1>q, <2>1, PacketsStayTrue, ServerKeepsClientPart
<1>k. ASSUME KeepSession, accepted \subseteq accepted'
      PROVE  ServerPart'
  BY <1>i, <1>g, <1>k, SessionStays DEF KeepSession
<1>a. \A kind \in {"CONACC", "CONRJT", "RJT"} : \A dst, sid :
        TrueFromNowOn(Answer(kind, dst, sid))
  BY AnswerTrue
<1>1. CASE RejectCONN(m)
  BY <1>1, <1>a, <1>k, <1>q, NoDeliveryGrows DEF RejectCONN
<1>2. CASE AcceptCONN(m)
  BY <1>2, <1>a, <1>i, <1>q, SessionOpens, NoDeliveryGrows DEF AcceptCONN
<1>3. CASE AcceptEmptyCONN(m)
  <2>1. \A dst : TrueFromNowOn(Answer("RCVD", dst, m.sid))
    BY <1>3, <1>i, EmptyCONNTrue
  <2> QED BY <1>3, <2>1, <1>a, <1>k, <1>q DEF AcceptEmptyCONN
<1>4. CASE SendCONACCFails(m)
  BY <1>4, <1>k, <1>q, NoDeliveryGrows DEF SendCONACCFails
<1>5. CASE TurnAway(m)
  BY <1>5, <1>a, <1>k, <1>q, NoDeliveryGrows DEF TurnAway
<1>6. CASE UDPR_Ignore(m)
  BY <1>6, <1>k, <1>q, NoDeliveryGrows DEF UDPR_Ignore
<1>7. CASE UDPR_Reject(m) \/ UDP_Reject(m) \/ LoseClient(m)
  BY <1>7, <1>a, <1>q, SessionEnds, NoDeliveryGrows
     DEF UDPR_Reject, UDP_Reject, LoseClient
<1>8. CASE TakeDATA(m)
  <2>1. \A d \in Acknowledgement(m) : TrueFromNowOn(d)
    BY <1>8, <1>i, AcknowledgementTrue DEF TakeDATA
  <2>2. ServerPart'
    BY <1>8, <1>i, SessionGrows
  <2> QED BY <1>8, <1>q, <2>1, <2>2 DEF TakeDATA
<1>9. CASE TakeLastDATA(m)
  <2>1. \A d \in Acknowledgement(m) : TrueFromNowOn(d)
    BY <1>9, <1>i, AcknowledgementTrue DEF TakeLastDATA
  <2>2. m.src = s_conn.addr
    BY <1>9, <1>i, DATAContinues DEF TakeLastDATA
  <2>3. \A d \in {Answer("RCVD", m.src, s_conn.sid)} : TrueFromNowOn(d)
    BY <1>9, <1>i, <2>2, WholeFileTaken, RCVDTrue
  <2> QED BY <1>9, <1>q, <2>1, <2>3, SessionEnds DEF TakeLastDATA, client_address
<1>10. CASE TakeTooMuchDATA(m)
  <2>1. \A d \in Acknowledgement(m) : TrueFromNowOn(d)
    BY <1>10, <1>i, AcknowledgementTrue DEF TakeTooMuchDATA
  <2> QED BY <1>10, <1>a, <1>q, <2>1, SessionEnds DEF TakeTooMuchDATA,
             client_address
<1>11. CASE GetNothing(m)
  <2>1. accepted \subseteq accepted' /\ delivered \subseteq delivered'
    BY <1>11, NoDeliveryGrows DEF GetNothing
  <2>2. ServerPart'
    BY <1>11, <1>i, <1>g, <2>1, SessionStays DEF GetNothing, Idle
  <2>3. ClientPart'
    BY <1>i, <2>1, ServerKeepsClientPart
  <2>4. InFlight' \subseteq InFlight
    BY <1>11, <1>d, CloseType, ReplyType DEF GetNothing
  <2>5. TruePackets'
    BY <1>i, <1>g, <2>1, <2>4, PacketsStayTrue
  <2> QED BY <2>2, <2>3, <2>5
<1> QED
  BY <1>1, <1>2, <1>3, <1>4, <1>5, <1>6, <1>7, <1>8, <1>9, <1>10, <1>11
     DEF ServerReceives

LEMMA ServerAloneSound ==
  ASSUME Inductive, ServerTimesOut \/ Sigint, UNCHANGED client_vars
  PROVE  TruePackets' /\ ClientPart' /\ ServerPart'
<1>i. TypeOK /\ TruePackets /\ ClientPart /\ ServerPart
  BY InductiveParts
<1>d. TypeOKDatagrams /\ TypeOKServer
  BY <1>i DEF TypeOK
<1>g. \A c \in Client : /\ c_package_id'[c] \in Nat
                        /\ c_package_id[c] <= c_package_id'[c]
  BY <1>i DEF TypeOK, TypeOKClient, client_vars
<1>a. accepted \subseteq accepted' /\ delivered \subseteq delivered'
  <2>1. NoDelivery
    BY DEF ServerTimesOut, Sigint, UDP_ServerTimeout, UDPR_ServerRetransmit,
       UDPR_ServerGiveUp, SigintWhileIdle, SigintInSession, SigintBetweenReads
  <2> QED BY <2>1, NoDeliveryGrows
<1>q. ASSUME \A d \in InFlight' : d \in InFlight \/ TrueFromNowOn(d)
      PROVE  TruePackets'
  BY <1>i, <1>g, <1>a, <1>q, PacketsStayTrue
<1>n. UNCHANGED dgram_vars => TruePackets'
  BY <1>q DEF dgram_vars, InFlight
<1>c. ClientPart'
  BY <1>i, <1>a, ServerKeepsClientPart
<1>k. ASSUME s_pc' = s_pc \/ s_pc' = "exit",
             UNCHANGED <<s_conn, s_package_id, s_bytes_recvd, s_received>>
      PROVE  ServerPart'
  BY <1>i, <1>g, <1>a, <1>k, SessionStays
<1>1. CASE UDP_ServerTimeout \/ UDPR_ServerGiveUp \/ SigintInSession
  BY <1>1, <1>n, <1>c, SessionEnds
     DEF UDP_ServerTimeout, UDPR_ServerGiveUp, SigintInSession
<1>2. CASE UDPR_ServerRetransmit
  <2>1. s_pc = "session" /\ s_package_id \in Nat
    BY <1>2, <1>d DEF UDPR_ServerRetransmit, TypeOKServer
  <2>2. s_package_id # 0 =>
          <<s_conn.addr, s_conn.sid, s_package_id - 1>> \in accepted'
    BY <2>1, <1>i, <1>a DEF ServerPart, SessionPosition
  <2>3. \A d \in {LastSent} : TrueFromNowOn(d)
    BY <2>2, AnswerTrue, ACCTrue DEF LastSent
  <2>4. InFlight' \subseteq InFlight \cup {LastSent}
    BY <1>2, <1>d DEF UDPR_ServerRetransmit, Send, Routed, InFlight,
       TypeOKDatagrams, IsABag, BagToSet, SetToBag, (+)
  <2>5. TruePackets'
    BY <2>3, <2>4, <1>q
  <2>6. ServerPart'
    BY <1>2, <1>k DEF UDPR_ServerRetransmit
  <2> QED BY <1>c, <2>5, <2>6
<1>3. CASE SigintWhileIdle
  <2>1. InFlight' \subseteq InFlight
    BY <1>3, <1>d, CloseType DEF SigintWhileIdle
  <2> QED BY <1>3, <1>c, <1>k, <1>q, <2>1 DEF SigintWhileIdle
<1>4. CASE SigintBetweenReads
  BY <1>4, <1>n, <1>c, <1>k DEF SigintBetweenReads, KeepSession
<1> QED BY <1>1, <1>2, <1>3, <1>4 DEF ServerTimesOut, Sigint

(* The steps of a client, reduced to what they do to its position.         *)

OthersStay(c) ==
  \A x \in Client \ {c} : /\ c_pc'[x] = c_pc[x]
                          /\ c_package_id'[x] = c_package_id[x]
                          /\ c_bytes_sent'[x] = c_bytes_sent[x]

Connecting == {"CONN", "wait_CONACC"}

Sending == {"DATA", "wait_ACC"}

\* The client stays where it is in its file.
Stays(c) ==
  /\ UNCHANGED <<c_package_id, c_bytes_sent>>
  /\ \/ c_pc'[c] \in {c_pc[c], "failed"}
     \/ c_pc[c] \in Connecting /\ c_pc'[c] \in Connecting
     \/ c_pc[c] \in Connecting /\ c_pc'[c] = AfterBytes(c, 0)
     \/ c_pc[c] \in Sending /\ c_pc'[c] \in Sending
     \/ /\ c_pc'[c] = "done"
        /\ \E m \in InFlight : m.dst = c /\ Own(c, m, "RCVD")

\* The client moves on by one packet, over UDPR because of an ACC.
Moves(c) ==
  /\ c_pc[c] \in Sending
  /\ NextPiece(c)
  /\ c_pc'[c] = AfterBytes(c, c_bytes_sent[c] + shift(c))
  /\ ProtocolOf[c] = "UDPR" =>
       \E m \in InFlight : m.dst = c /\ CurrentACC(c, m)

ClientMove(c) == OthersStay(c) /\ (Stays(c) \/ Moves(c))

LEMMA GotoMove ==
  ASSUME TypeOKClient, NEW c \in Client, NEW pc, Goto(c, pc)
  PROVE  c_pc'[c] = pc /\ \A x \in Client \ {c} : c_pc'[x] = c_pc[x]
BY DEF TypeOKClient, Goto

LEMMA NextPieceMove ==
  ASSUME TypeOKClient, NEW c \in Client, NextPiece(c)
  PROVE  /\ c_package_id'[c] = c_package_id[c] + 1
         /\ c_bytes_sent'[c] = c_bytes_sent[c] + shift(c)
         /\ \A x \in Client \ {c} : /\ c_package_id'[x] = c_package_id[x]
                                    /\ c_bytes_sent'[x] = c_bytes_sent[x]
BY DEF TypeOKClient, NextPiece

LEMMA UDPClientMove ==
  ASSUME TypeOKClient, NEW c \in Client, ProtocolOf[c] = "UDP",
         \/ UDP_Sends(c)
         \/ \E m \in InFlight : UDP_Receives(c, m)
         \/ UDP_Timeout(c)
  PROVE  ClientMove(c)
<1>g. \A pc : Goto(c, pc) =>
        c_pc'[c] = pc /\ \A x \in Client \ {c} : c_pc'[x] = c_pc[x]
  BY GotoMove
<1>1. CASE UDP_SendCONN(c)
  BY <1>1, <1>g DEF UDP_SendCONN, ClientMove, OthersStay, Stays, Connecting
<1>2. CASE UDP_SendFails(c) \/ UDP_Timeout(c)
  BY <1>2, <1>g DEF UDP_SendFails, UDP_Timeout, Quit, ClientMove, OthersStay,
     Stays
<1>3. CASE UDP_SendDATA(c)
  BY <1>3, <1>g, NextPieceMove DEF UDP_SendDATA, ClientMove, OthersStay, Moves,
     Sending
<1>4. ASSUME NEW m \in InFlight, UDP_Receives(c, m)
      PROVE  ClientMove(c)
  <2>1. CASE UDP_GetCONACC(c, m)
    BY <2>1, <1>g DEF UDP_GetCONACC, Response, Takes, ClientMove, OthersStay,
       Stays, Connecting
  <2>2. CASE UDP_GetRCVD(c, m)
    BY <2>2, <1>g DEF UDP_GetRCVD, Response, Takes, Quit, ClientMove,
       OthersStay, Stays
  <2>3. CASE UDP_GetWrongPacket(c, m)
    BY <2>3, <1>g DEF UDP_GetWrongPacket, Quit, ClientMove, OthersStay, Stays
  <2>4. CASE UDP_GetNothing(c, m)
    BY <2>4, <1>g DEF UDP_GetNothing, Quit, ClientMove, OthersStay, Stays
  <2> QED BY <1>4, <2>1, <2>2, <2>3, <2>4 DEF UDP_Receives
<1> QED BY <1>1, <1>2, <1>3, <1>4 DEF UDP_Sends

LEMMA UDPRClientMove ==
  ASSUME TypeOKClient, NEW c \in Client, ProtocolOf[c] = "UDPR",
         \/ UDPR_Sends(c)
         \/ \E m \in InFlight : UDPR_Receives(c, m)
         \/ UDPR_Timeout(c)
  PROVE  ClientMove(c)
<1>g. \A pc : Goto(c, pc) =>
        c_pc'[c] = pc /\ \A x \in Client \ {c} : c_pc'[x] = c_pc[x]
  BY GotoMove
<1>1. CASE UDPR_SendCONN(c)
  BY <1>1, <1>g DEF UDPR_SendCONN, ClientMove, OthersStay, Stays, Connecting
<1>2. CASE UDPR_SendCONNFails(c)
  BY <1>2, <1>g DEF UDPR_SendCONNFails, Retransmit, GiveUp, Quit, Progress,
     ClientMove, OthersStay, Stays
<1>3. CASE UDPR_SendDATA(c)
  BY <1>3, <1>g DEF UDPR_SendDATA, Progress, ClientMove, OthersStay, Stays,
     Sending
<1>4. CASE UDPR_SendDATAFails(c)
  BY <1>4, <1>g DEF UDPR_SendDATAFails, Quit, Progress, ClientMove, OthersStay,
     Stays
<1>5. CASE UDPR_Timeout(c)
  BY <1>5, <1>g DEF UDPR_Timeout, Retransmit, GiveUp, Quit, Progress,
     ClientMove, OthersStay, Stays, Connecting, Sending
<1>6. ASSUME NEW m \in InFlight, UDPR_Receives(c, m)
      PROVE  ClientMove(c)
  <2>1. CASE UDPR_GetCONACC(c, m)
    BY <2>1, <1>g DEF UDPR_GetCONACC, Response, Takes, Progress, ClientMove,
       OthersStay, Stays, Connecting
  <2>2. CASE UDPR_GetOtherThanCONACC(c, m) \/ UDPR_GetEarlyRCVD(c, m)
    BY <2>2, <1>g DEF UDPR_GetOtherThanCONACC, UDPR_GetEarlyRCVD, Response,
       Takes, Retransmit, GiveUp, Quit, Progress, ClientMove, OthersStay, Stays,
       Connecting, Sending
  <2>3. CASE UDPR_GetACC(c, m)
    BY <2>3, <1>g, NextPieceMove DEF UDPR_GetACC, Response, Takes, ClientMove,
       OthersStay, Moves, Sending
  <2>4. CASE UDPR_IgnoreEarlier(c, m) \/ UDPR_IgnoreLateACC(c, m)
    BY <2>4 DEF UDPR_IgnoreEarlier, UDPR_IgnoreLateACC, Progress, ClientMove,
       OthersStay, Stays
  <2>5. CASE UDPR_GetRCVD(c, m)
    BY <2>5, <1>g DEF UDPR_GetRCVD, Response, Takes, Quit, Progress,
       ClientMove, OthersStay, Stays
  <2>6. CASE \/ UDPR_GetCONRJT(c, m) \/ UDPR_GetOtherThanACC(c, m)
             \/ UDPR_GetOtherThanRCVD(c, m)
    BY <2>6, <1>g DEF UDPR_GetCONRJT, UDPR_GetOtherThanACC,
       UDPR_GetOtherThanRCVD, Quit, Progress, ClientMove, OthersStay, Stays
  <2>7. CASE UDPR_GetNothing(c, m)
    BY <2>7, <1>g DEF UDPR_GetNothing, TakesNothing, Retransmit, GiveUp, Quit,
       Progress, ClientMove, OthersStay, Stays, Connecting, Sending
  <2> QED BY <1>6, <2>1, <2>2, <2>3, <2>4, <2>5, <2>6, <2>7 DEF UDPR_Receives
<1> QED BY <1>1, <1>2, <1>3, <1>4, <1>5, <1>6 DEF UDPR_Sends

\* No client goes back in its file.
LEMMA ClientMoveGrows ==
  ASSUME TypeOKClient, NEW c \in Client, ClientMove(c)
  PROVE  \A x \in Client : /\ c_package_id'[x] \in Nat
                           /\ c_package_id[x] <= c_package_id'[x]
<1>1. \A x \in Client : c_package_id[x] \in Nat
  BY DEF TypeOKClient
<1>2. CASE Stays(c)
  BY <1>1, <1>2 DEF Stays
<1>3. CASE Moves(c)
  BY <1>1, <1>3, NextPieceMove DEF Moves
<1> QED BY <1>2, <1>3 DEF ClientMove

\* A packet further in its file, a client starts the next one where the last one
\* ends.
LEMMA MovesPosition ==
  ASSUME TypeOKClient, NEW c \in Client, ClientPosition(c), Moves(c)
  PROVE  ClientPosition(c)'
<1>1. /\ c_package_id'[c] = c_package_id[c] + 1
      /\ c_bytes_sent'[c] = c_bytes_sent[c] + shift(c)
      /\ c_pc'[c] = AfterBytes(c, c_bytes_sent'[c])
  BY NextPieceMove DEF Moves
<1>2. /\ c_bytes_sent[c] < occupied_size[c]
      /\ c_bytes_sent[c] = OffsetOf(c_package_id[c])
  BY DEF Moves, Sending, ClientPosition
<1>3. /\ occupied_size[c] \in Nat /\ SEND_BUFF_SIZE \in Nat
      /\ c_bytes_sent[c] \in Nat /\ c_package_id[c] \in Nat
  BY ClientAssumption DEF TypeOKClient
<1>4. c_bytes_sent'[c] < occupied_size[c] => shift(c) = SEND_BUFF_SIZE
  BY <1>1, <1>3 DEF shift
<1>5. c_bytes_sent'[c] < occupied_size[c] =>
        c_bytes_sent'[c] = OffsetOf(c_package_id'[c])
  BY <1>1, <1>2, <1>3, <1>4, NextOffset
<1>6. c_pc'[c] = IF c_bytes_sent'[c] < occupied_size[c] THEN "DATA"
                 ELSE "wait_RCVD"
  BY <1>1 DEF AfterBytes
<1> QED BY <1>5, <1>6 DEF ClientPosition

LEMMA StaysPosition ==
  ASSUME TypeOKClient, NEW c \in Client, ClientPosition(c), Stays(c)
  PROVE  ClientPosition(c)'
<1>1. UNCHANGED <<c_package_id, c_bytes_sent>>
  BY DEF Stays
<1>2. c_pc'[c] \in Connecting => c_pc[c] \in Connecting
  BY DEF Stays, Connecting, Sending, AfterBytes
<1>3. c_pc'[c] \in Sending =>
        \/ c_pc[c] \in Sending
        \/ c_pc[c] \in Connecting /\ c_pc'[c] = AfterBytes(c, 0)
  BY DEF Stays, Connecting, Sending
<1>4. c_pc'[c] \in Sending /\ c_pc[c] \in Connecting =>
        c_bytes_sent[c] < occupied_size[c]
  BY <1>3 DEF Sending, Connecting, AfterBytes, ClientPosition
<1> QED BY <1>1, <1>2, <1>3, <1>4 DEF ClientPosition, Connecting, Sending

LEMMA ClientMoveSound ==
  ASSUME Inductive, NEW c \in Client, ClientMove(c), UNCHANGED server_vars
  PROVE  ClientPart' /\ ServerPart'
<1>i. TypeOK /\ TruePackets /\ ClientPart /\ ServerPart
  BY InductiveParts
<1>t. TypeOKClient
  BY <1>i DEF TypeOK
<1>g. \A x \in Client : /\ c_package_id'[x] \in Nat
                        /\ c_package_id[x] <= c_package_id'[x]
  BY <1>t, ClientMoveGrows
<1>s. /\ accepted' = accepted /\ delivered' = delivered /\ s_pc' = s_pc
      /\ UNCHANGED <<s_conn, s_package_id, s_bytes_recvd, s_received>>
  BY DEF server_vars
<1>1. ServerPart'
  BY <1>i, <1>g, <1>s, SessionStays
<1>2. ASSUME NEW x \in Client
      PROVE  ClientPosition(x)'
  <2>1. ClientPosition(x)
    BY <1>i DEF ClientPart
  <2>2. CASE x # c
    BY <2>1, <2>2 DEF ClientMove, OthersStay, ClientPosition
  <2>3. CASE x = c
    BY <1>t, <2>1, <2>3, StaysPosition, MovesPosition DEF ClientMove
  <2> QED BY <2>2, <2>3
<1>3. SuccessMeansDelivered'
  <2> SUFFICES ASSUME NEW x \in Client, c_pc'[x] = "done"
               PROVE  WholeFileDelivered(x)
    BY <1>s DEF SuccessMeansDelivered, WholeFileDelivered
  <2>1. CASE c_pc[x] = "done"
    BY <1>i, <2>1 DEF ClientPart, SuccessMeansDelivered
  <2>2. CASE x = c /\ c_pc[x] # "done"
    <3>1. \E m \in InFlight : m.dst = c /\ Own(c, m, "RCVD")
      BY <2>2 DEF ClientMove, Stays, Moves, AfterBytes, Connecting, Sending
    <3> QED BY <1>i, <2>2, <3>1 DEF TruePackets, TrueRCVD, Own
  <2> QED BY <2>1, <2>2 DEF ClientMove, OthersStay
<1>4. ASSUME NEW x \in Client, ProtocolOf[x] = "UDPR"
      PROVE  AckedWasTaken(x)'
  <2>1. AckedWasTaken(x)
    BY <1>i, <1>4 DEF ClientPart
  <2>2. CASE c_package_id'[x] = c_package_id[x]
    BY <1>s, <2>1, <2>2 DEF AckedWasTaken
  <2>3. CASE x = c /\ Moves(c)
    <3>1. PICK m \in InFlight : m.dst = c /\ CurrentACC(c, m)
      BY <1>4, <2>3 DEF Moves
    <3>2. <<c, SessionId[c], c_package_id[c]>> \in accepted
      BY <1>i, <3>1 DEF TruePackets, TrueACC, CurrentACC, Own
    <3>3. c_package_id'[c] = c_package_id[c] + 1 /\ c_package_id[c] \in Nat
      BY <1>t, <2>3, NextPieceMove DEF Moves, TypeOKClient
    <3> QED BY <1>s, <2>1, <2>3, <3>2, <3>3 DEF AckedWasTaken
  <2> QED BY <2>2, <2>3 DEF ClientMove, OthersStay, Stays
<1> QED BY <1>1, <1>2, <1>3, <1>4 DEF ClientPart

\* What a client sends is true of it.
LEMMA ClientPacketsSound ==
  ASSUME Inductive, NEW c \in Client, ClientMove(c), ClientSocket(c),
         UNCHANGED server_vars
  PROVE  TruePackets'
<1>i. TypeOK /\ TruePackets /\ ClientPart
  BY InductiveParts
<1>t. TypeOKClient /\ TypeOKDatagrams
  BY <1>i DEF TypeOK
<1>g. \A x \in Client : /\ c_package_id'[x] \in Nat
                        /\ c_package_id[x] <= c_package_id'[x]
  BY <1>t, ClientMoveGrows
<1>q. ASSUME \A m \in InFlight' : m \in InFlight \/ TrueFromNowOn(m)
      PROVE  TruePackets'
  BY <1>i, <1>g, <1>q, PacketsStayTrue DEF server_vars
<1>c. c \notin Peer /\ c # Server
  BY AddressAssumption
<1>1. CASE UNCHANGED dgram_vars
  BY <1>1, <1>q DEF dgram_vars, InFlight
<1>2. CASE Close(c)
  BY <1>2, <1>t, <1>q, CloseType
<1>3. CASE \E m \in InFlight : Reply(m, {})
  <2>1. InFlight' \subseteq InFlight
    BY <1>3, <1>t DEF Reply, Routed, InFlight, TypeOKDatagrams, IsABag,
       BagToSet, SetToBag, (+), (-)
  <2> QED BY <1>q, <2>1
<1>4. CASE Send({CONN(c, SessionId[c], ProtocolOf[c], occupied_size[c])})
  <2> DEFINE d == CONN(c, SessionId[c], ProtocolOf[c], occupied_size[c])
  <2>1. InFlight' \subseteq InFlight \cup {d}
    BY <1>4, <1>t DEF Send, Routed, InFlight, TypeOKDatagrams, IsABag,
       BagToSet, SetToBag, (+)
  <2>2. TrueFromNowOn(d)
    BY <1>c DEF TrueFromNowOn, Origin, TrueCONN, TrueDATA, TrueACC, TrueRCVD,
       CONN, Packet
  <2> HIDE DEF d
  <2> QED BY <1>q, <2>1, <2>2
<1>5. CASE c_pc[c] = "DATA" /\ Send({NextDATA(c)})
  <2>1. InFlight' \subseteq InFlight \cup {NextDATA(c)}
    BY <1>5, <1>t DEF Send, Routed, InFlight, TypeOKDatagrams, IsABag,
       BagToSet, SetToBag, (+)
  <2>2. /\ c_bytes_sent[c] < occupied_size[c]
        /\ c_bytes_sent[c] = OffsetOf(c_package_id[c])
    BY <1>i, <1>5 DEF ClientPart, ClientPosition
  <2>3. shift(c) = BytesAt(c, c_bytes_sent[c])
    BY DEF shift, BytesAt
  <2>4. c_package_id[c] <= c_package_id'[c]
    BY <1>g
  <2>5. ASSUME NEW d, d = NextDATA(c)
        PROVE  TrueFromNowOn(d)
    <3>1. /\ d.kind = "DATA" /\ d.src = c /\ d.id = c_package_id[c]
          /\ d.off = c_bytes_sent[c] /\ d.bytes = BytesAt(c, d.off)
      BY <2>3, <2>5 DEF NextDATA, DATA, Packet
    <3>2. TrueDATA(d)'
      BY <2>2, <2>4, <3>1 DEF TrueDATA, BytesAt, OffsetOf
    <3> QED BY <1>c, <3>1, <3>2 DEF TrueFromNowOn, Origin, TrueCONN, TrueACC,
               TrueRCVD
  <2> QED BY <1>q, <2>1, <2>5
<1> QED BY <1>1, <1>2, <1>3, <1>4, <1>5 DEF ClientSocket

LEMMA ClientStepMove ==
  ASSUME TypeOK, NEW c \in Client, ClientStep(c) \/ ClientKilled(c)
  PROVE  ClientMove(c)
<1>1. TypeOKClient
  BY DEF TypeOK
<1>2. CASE ClientKilled(c)
  BY <1>1, <1>2, GotoMove DEF ClientKilled, Killed, Quit, ClientMove,
     OthersStay, Stays
<1>3. CASE \E m \in InFlight : IgnoreStranger(c, m)
  BY <1>3 DEF IgnoreStranger, ClientMove, OthersStay, Stays
<1>4. ProtocolOf[c] = "UDP" \/ ProtocolOf[c] = "UDPR"
  BY ClientAssumption DEF Protocol
<1>5. CASE ClientStep(c) /\ ~ (\E m \in InFlight : IgnoreStranger(c, m))
  BY <1>1, <1>4, <1>5, UDPClientMove, UDPRClientMove
     DEF ClientStep, ClientSends, ClientReceives, ClientTimesOut
<1> QED BY <1>2, <1>3, <1>5

LEMMA InductiveInit ==
  ASSUME EmptyFilesHaveOwnIds, Init
  PROVE  Inductive
<1>1. TypeOK
  BY TypeInit
<1>2. TruePackets
  <2>1. InFlight \subseteq Stray
    BY DEF Init, InitDatagrams, InFlight, Stray
  <2>2. ASSUME NEW m \in Stray
        PROVE  Origin(m) /\ TrueCONN(m) /\ TrueDATA(m) /\ TrueACC(m)
               /\ TrueRCVD(m)
    <3>1. m.src \in Peer /\ \A c \in Client : m.sid # SessionId[c]
      BY ScenarioAssumption, ForeignStrays DEF Stray
    <3>2. m.src \notin Client /\ m.src # Server
      BY <3>1, AddressAssumption
    <3> QED BY <3>1, <3>2 DEF Origin, TrueCONN, TrueDATA, TrueACC, TrueRCVD
  <2> QED BY <2>1, <2>2 DEF TruePackets
<1>3. ClientPart
  BY NextOffset, ClientAssumption
     DEF Init, InitClient, ClientPart, ClientPosition, SuccessMeansDelivered,
         AckedWasTaken
<1>4. ServerPart
  BY AddressAssumption DEF Init, InitServer, NoConn, ServerPart,
     SessionPosition, SessionHoldsPrefix, OneAhead, Addr
<1> QED BY <1>1, <1>2, <1>3, <1>4, InductiveParts

LEMMA InductiveStep ==
  ASSUME EmptyFilesHaveOwnIds, Inductive, [Next]_vars
  PROVE  Inductive'
<1>i. TypeOK /\ TruePackets /\ ClientPart /\ ServerPart
  BY InductiveParts
<1>t. TypeOK'
  BY <1>i, TypeStep
<1>1. CASE \E c \in Client : ClientStep(c) \/ ClientKilled(c)
  <2>1. PICK c \in Client : ClientStep(c) \/ ClientKilled(c)
    BY <1>1
  <2>2. ClientMove(c) /\ ClientSocket(c) /\ UNCHANGED server_vars
    BY <1>i, <2>1, ClientStepMove, ClientStepSocket
  <2>3. TruePackets' /\ ClientPart' /\ ServerPart'
    BY <2>2, ClientMoveSound, ClientPacketsSound
  <2> QED BY <1>t, <2>3, InductiveParts DEF Inductive, ClientPart, ServerPart,
             StopAndWait
<1>2. CASE ServerReads
  <2>1. TruePackets' /\ ClientPart' /\ ServerPart'
    BY <1>2, ServerReadsSound DEF ServerReads
  <2> QED BY <1>t, <2>1 DEF Inductive, ClientPart, ServerPart, StopAndWait
<1>3. CASE ServerWaits \/ ServerInterrupted
  <2>1. TruePackets' /\ ClientPart' /\ ServerPart'
    BY <1>3, ServerAloneSound DEF ServerWaits, ServerInterrupted
  <2> QED BY <1>t, <2>1 DEF Inductive, ClientPart, ServerPart, StopAndWait
<1>4. CASE Network \/ UNCHANGED vars
  <2>1. UNCHANGED <<server_vars, client_vars>>
    BY <1>4 DEF Network, vars
  <2>2. InFlight' \subseteq InFlight
    BY <1>i, <1>4, NetworkType DEF Network, vars, dgram_vars, InFlight, TypeOK
  <2>3. TruePackets'
    BY <1>i, <2>1, <2>2, PacketsStayTrue DEF server_vars, client_vars, TypeOK,
       TypeOKClient
  <2>4. ClientPart'
    BY <1>i, <2>1, ServerKeepsClientPart DEF server_vars
  <2>5. ServerPart'
    BY <1>i, <2>1, SessionStays DEF server_vars, client_vars, TypeOK,
       TypeOKClient
  <2> QED BY <1>t, <2>3, <2>4, <2>5 DEF Inductive, ClientPart, ServerPart,
             StopAndWait
<1> QED BY <1>1, <1>2, <1>3, <1>4 DEF Next, ServerStep

\* What is in flight stays true of its sender, and both sides stay where their
\* packets say, when no client with an empty file shares its session id: the
\* invariant the safety theorems rest on.
THEOREM InductiveInvariant ==
  ASSUME EmptyFilesHaveOwnIds
  PROVE  Spec => []Inductive
<1>1. Init => Inductive
  BY InductiveInit
<1>2. Inductive /\ [Next]_vars => Inductive'
  BY InductiveStep
<1> QED BY <1>1, <1>2, PTL DEF Spec

\* A client that ends with success has had its whole file taken in a session of
\* its own, for any number of clients and peers, any loss and duplication.
THEOREM SuccessIsDelivery ==
  ASSUME EmptyFilesHaveOwnIds
  PROVE  Spec => []SuccessMeansDelivered
<1>1. Inductive => SuccessMeansDelivered
  BY DEF Inductive
<1> QED BY <1>1, InductiveInvariant, PTL

\* The server's session with a client holds a gapless beginning of its file.
THEOREM SessionIsPrefix ==
  ASSUME EmptyFilesHaveOwnIds
  PROVE  Spec => []SessionHoldsPrefix
<1>1. Inductive => SessionHoldsPrefix
  BY DEF Inductive
<1> QED BY <1>1, InductiveInvariant, PTL

\* A UDPR client never goes past a packet the server has not taken, and the server
\* is never more than one packet ahead.
THEOREM StopAndWaitKept ==
  ASSUME EmptyFilesHaveOwnIds
  PROVE  Spec => []StopAndWait
<1>1. Inductive => StopAndWait
  BY DEF Inductive
<1> QED BY <1>1, InductiveInvariant, PTL

-----------------------------------------------------------------------------
(* Where RCVD goes when nobody declares an empty file.                     *)

NoEmptyFiles ==
  /\ \A c \in Client : occupied_size[c] > 0
  /\ \A m \in Stray : m.kind = "CONN" => m.bytes > 0

WellAddressed(m) ==
  m.src = Server /\ m.kind = "RCVD" /\ m.dst \in Client =>
    m.sid = SessionId[m.dst]

LEMMA NoEmptyCONN ==
  ASSUME NoEmptyFiles, TypeOK, TruePackets, NEW m \in InFlight
  PROVE  ~ AcceptEmptyCONN(m)
<1> SUFFICES ASSUME m.kind = "CONN", m.bytes = 0
             PROVE  FALSE
  BY DEF AcceptEmptyCONN, check_if_correct_CONN
<1>1. CASE m.src \in Client
  <2>1. occupied_size[m.src] = 0
    BY <1>1, PacketFacts DEF TrueCONN
  <2> QED BY <1>1, <2>1, ClientAssumption DEF NoEmptyFiles
<1>2. CASE m.src \notin Client
  <2>1. m \in Stray
    BY <1>2, PacketFacts DEF Origin, Addr
  <2> QED BY <2>1 DEF NoEmptyFiles
<1> QED BY <1>1, <1>2

LEMMA OtherKindWellAddressed ==
  ASSUME NEW kind \in Kind \ {"RCVD"}, NEW dst, NEW sid, NEW id
  PROVE  WellAddressed(Answer(kind, dst, sid)) /\ WellAddressed(ACC(dst, sid, id))
BY DEF WellAddressed, Answer, ACC, Packet

LEMMA WellAddressedStep ==
  ASSUME NoEmptyFiles, Inductive, RcvdReachesItsClient, [Next]_vars
  PROVE  RcvdReachesItsClient'
<1>i. TypeOK /\ TruePackets /\ ServerPart /\ TypeOKDatagrams /\ TypeOKClient
  BY InductiveParts DEF TypeOK
<1>w. ASSUME \A m \in InFlight' : m \in InFlight \/ WellAddressed(m)
      PROVE  RcvdReachesItsClient'
  BY <1>w DEF RcvdReachesItsClient, WellAddressed
<1>r. ASSUME NEW m \in InFlight, NEW D, Reply(m, D),
             \A d \in D : WellAddressed(d)
      PROVE  RcvdReachesItsClient'
  <2>1. InFlight' \subseteq InFlight \cup D
    BY <1>r, <1>i DEF Reply, Routed, InFlight, TypeOKDatagrams, IsABag,
       BagToSet, SetToBag, (+), (-)
  <2> QED BY <1>r, <1>w, <2>1
<1>s. ASSUME NEW d, Send({d}), WellAddressed(d)
      PROVE  RcvdReachesItsClient'
  <2>1. InFlight' \subseteq InFlight \cup {d}
    BY <1>s, <1>i DEF Send, Routed, InFlight, TypeOKDatagrams, IsABag,
       BagToSet, SetToBag, (+)
  <2> QED BY <1>s, <1>w, <2>1
<1>c. (\E a : Close(a)) => RcvdReachesItsClient'
  BY <1>i, <1>w, CloseType
<1>u. UNCHANGED dgram_vars => RcvdReachesItsClient'
  BY <1>w DEF dgram_vars, InFlight
<1>a. \A kind \in {"CONACC", "CONRJT", "RJT"} : \A dst, sid, id :
        WellAddressed(Answer(kind, dst, sid)) /\ WellAddressed(ACC(dst, sid, id))
  BY OtherKindWellAddressed DEF Kind
<1>1. ASSUME NEW c \in Client, ClientStep(c) \/ ClientKilled(c)
      PROVE  RcvdReachesItsClient'
  <2>1. ClientSocket(c)
    BY <1>1, <1>i, ClientStepSocket
  <2>2. WellAddressed(CONN(c, SessionId[c], ProtocolOf[c], occupied_size[c]))
    BY DEF WellAddressed, CONN, Packet
  <2>3. WellAddressed(NextDATA(c))
    BY DEF WellAddressed, NextDATA, DATA, Packet
  <2> QED BY <1>c, <1>u, <1>r, <1>s, <2>1, <2>2, <2>3 DEF ClientSocket
<1>2. ASSUME NEW m \in InFlight, ServerReceives(m)
      PROVE  RcvdReachesItsClient'
  <2>k. \A d \in Acknowledgement(m) : WellAddressed(d)
    BY <1>a DEF Acknowledgement
  <2>1. CASE GetNothing(m)
    BY <2>1, <1>c, <1>r DEF GetNothing
  <2>2. CASE RejectCONN(m) \/ AcceptCONN(m) \/ SendCONACCFails(m)
    BY <2>2, <1>a, <1>r DEF RejectCONN, AcceptCONN, SendCONACCFails
  <2>3. CASE TurnAway(m) \/ LoseClient(m) \/ UDPR_Ignore(m)
    BY <2>3, <1>a, <1>r DEF TurnAway, LoseClient, UDPR_Ignore
  <2>4. CASE UDPR_Reject(m) \/ UDP_Reject(m)
    BY <2>4, <1>a, <1>r DEF UDPR_Reject, UDP_Reject
  <2>5. CASE TakeDATA(m)
    BY <2>5, <2>k, <1>r DEF TakeDATA
  <2>6. CASE TakeLastDATA(m)
    <3>1. m.src \in Client => s_conn.sid = SessionId[m.src]
      BY <2>6, <1>i, DATAContinues DEF TakeLastDATA
    <3>2. WellAddressed(Answer("RCVD", client_address(m), s_conn.sid))
      BY <3>1 DEF WellAddressed, Answer, Packet, client_address
    <3> QED BY <2>6, <2>k, <3>2, <1>r DEF TakeLastDATA
  <2>7. CASE TakeTooMuchDATA(m)
    <3>1. \A d \in (IF s_conn.proto = "UDPR"
                    THEN {Answer("RJT", client_address(m), s_conn.sid)}
                    ELSE {}) : WellAddressed(d)
      BY <1>a
    <3> QED BY <2>7, <2>k, <3>1, <1>r DEF TakeTooMuchDATA
  <2> QED BY <1>2, <1>i, NoEmptyCONN, <2>1, <2>2, <2>3, <2>4, <2>5, <2>6, <2>7
             DEF ServerReceives
<1>3. CASE ServerTimesOut
  <2>1. WellAddressed(LastSent)
    BY <1>a DEF LastSent
  <2> QED BY <1>3, <1>u, <1>s, <2>1 DEF ServerTimesOut, UDP_ServerTimeout,
             UDPR_ServerRetransmit, UDPR_ServerGiveUp
<1>4. CASE Sigint
  BY <1>4, <1>u, <1>c DEF Sigint, SigintWhileIdle, SigintInSession,
     SigintBetweenReads
<1>5. CASE Network
  BY <1>5, <1>i, <1>w, NetworkType DEF Network
<1>6. CASE UNCHANGED vars
  BY <1>6, <1>u DEF vars
<1> QED
  BY <1>1, <1>2, <1>3, <1>4, <1>5, <1>6 DEF Next, ServerStep, ServerReads,
     ServerWaits, ServerInterrupted

\* The server's RCVD reaches no client but the one of its session when no file is
\* empty: the static client_address then always holds the session's client.
THEOREM RcvdAddressed ==
  ASSUME NoEmptyFiles
  PROVE  Spec => []RcvdReachesItsClient
<1>1. EmptyFilesHaveOwnIds
  BY DEF NoEmptyFiles, EmptyFilesHaveOwnIds
<1>2. Init => RcvdReachesItsClient
  <2> SUFFICES ASSUME Init, NEW m \in InFlight
               PROVE  m.src # Server
    BY DEF RcvdReachesItsClient
  <2>1. m \in Stray
    BY DEF Init, InitDatagrams, InFlight, Stray
  <2>2. m.src \in Peer
    BY <2>1, ScenarioAssumption DEF Stray
  <2> QED BY <2>2, AddressAssumption
<1>3. Inductive /\ RcvdReachesItsClient /\ [Next]_vars => RcvdReachesItsClient'
  BY WellAddressedStep
<1> QED BY <1>1, <1>2, <1>3, InductiveInvariant, PTL DEF Spec
=============================================================================
