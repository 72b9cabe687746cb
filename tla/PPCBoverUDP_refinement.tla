----------------------- MODULE PPCBoverUDP_refinement -----------------------
(***************************************************************************)
(* The proof that PPCB over UDP implements the abstract transfer of        *)
(* PPCBTransfer, for all clients, files, peers and bounds.                 *)
(***************************************************************************)
EXTENDS PPCBoverUDP_proofs

\* A session is with another program than the server itself, and lasts only while
\* bytes are missing (the loops of UDP_data_receive and UDPR_data_receive).
SessionLacksBytes ==
  s_pc = "session" => s_conn.addr # Server /\ s_bytes_recvd < s_conn.bytes

LEMMA LacksBytesStep ==
  ASSUME Inductive, SessionLacksBytes, [Next]_vars
  PROVE  SessionLacksBytes'
<1>i. TypeOK /\ TruePackets /\ TypeOKServer
  BY InductiveParts DEF TypeOK
<1>k. ASSUME s_pc' = s_pc \/ s_pc' # "session", UNCHANGED <<s_conn, s_bytes_recvd>>
      PROVE  SessionLacksBytes'
  BY <1>k DEF SessionLacksBytes
<1>e. EndSession => SessionLacksBytes'
  BY DEF EndSession, SessionLacksBytes
<1>1. CASE UNCHANGED server_vars
  BY <1>1, <1>k DEF server_vars
<1>2. ASSUME NEW m \in InFlight, ServerReceives(m)
      PROVE  SessionLacksBytes'
  <2>1. CASE AcceptCONN(m)
    <3>1. m.src # Server /\ m.bytes \in Nat /\ m.bytes > 0
      BY <1>i, <2>1, PacketFacts DEF AcceptCONN, check_if_correct_CONN, Origin
    <3> QED BY <2>1, <3>1 DEF AcceptCONN, OpenSession, ResetLocals,
               SessionLacksBytes
  <2>2. CASE TakeDATA(m)
    BY <2>2 DEF TakeDATA, FromClient, InSession, SessionLacksBytes
  <2>3. CASE \/ RejectCONN(m) \/ AcceptEmptyCONN(m) \/ SendCONACCFails(m)
             \/ TurnAway(m) \/ UDPR_Ignore(m)
    BY <2>3, <1>k DEF RejectCONN, AcceptEmptyCONN, SendCONACCFails, TurnAway,
       UDPR_Ignore, KeepSession
  <2>4. CASE GetNothing(m)
    BY <2>4, <1>k DEF GetNothing, Idle
  <2>5. CASE \/ LoseClient(m) \/ UDPR_Reject(m) \/ UDP_Reject(m)
             \/ TakeLastDATA(m) \/ TakeTooMuchDATA(m)
    BY <2>5, <1>e DEF LoseClient, UDPR_Reject, UDP_Reject, TakeLastDATA,
       TakeTooMuchDATA
  <2> QED BY <1>2, <2>1, <2>2, <2>3, <2>4, <2>5 DEF ServerReceives
<1>3. CASE ServerTimesOut \/ Sigint
  BY <1>3, <1>k, <1>e
     DEF ServerTimesOut, UDP_ServerTimeout, UDPR_ServerRetransmit,
         UDPR_ServerGiveUp, Sigint, SigintWhileIdle, SigintInSession,
         SigintBetweenReads, KeepSession
<1> QED
  BY <1>1, <1>2, <1>3 DEF Next, ClientStep, ClientSends, ClientReceives,
     ClientTimesOut, ClientKilled, ServerStep, ServerReads, ServerWaits,
     ServerInterrupted, Network, vars

-----------------------------------------------------------------------------
(* How the steps of the programs look in the abstract state.               *)

LEMMA ServingStays ==
  ASSUME s_pc' = s_pc \/ (s_pc # "session" /\ s_pc' # "session"),
         UNCHANGED <<s_conn, s_bytes_recvd>>
  PROVE  Serving' = Serving
BY DEF Serving

LEMMA CompleteStays ==
  ASSUME delivered' = delivered
  PROVE  Complete' = Complete
BY DEF Complete, WholeFileDelivered

LEMMA OutcomeStays ==
  ASSUME UNCHANGED client_vars
  PROVE  Outcome' = Outcome
BY DEF Outcome, client_vars

\* No session is the abstract Nobody.
LEMMA ServingSession ==
  ASSUME TypeOKServer, SessionLacksBytes, s_pc = "session"
  PROVE  /\ Serving \in Transfer!Session
         /\ Serving # NoSession
         /\ Serving.who = s_conn.addr
         /\ Serving.left = s_conn.bytes - s_bytes_recvd
<1>1. /\ s_conn.addr \in Client \cup Peer /\ s_conn.bytes \in Nat
      /\ s_bytes_recvd \in Nat /\ s_bytes_recvd < s_conn.bytes
  BY DEF TypeOKServer, SessionLacksBytes, Conn, Addr
<1>2. s_conn.bytes - s_bytes_recvd \in Nat \ {0}
  BY <1>1
<1>3. Serving = [who |-> s_conn.addr, left |-> s_conn.bytes - s_bytes_recvd]
  BY DEF Serving
<1>4. Serving.left # 0 /\ NoSession.left = 0
  BY <1>2, <1>3 DEF NoSession
<1> QED BY <1>1, <1>2, <1>3, <1>4 DEF Transfer!Session

\* The session that ends with an RCVD adds no one but its client.
LEMMA OneMoreComplete ==
  ASSUME NEW a, NEW sid, NEW file,
         delivered' = delivered \cup
                        {[addr |-> a, sid |-> sid, received |-> file]},
         a \in Client => WholeFileDelivered(a)'
  PROVE  Complete' = Complete \cup ({a} \cap Client)
<1> DEFINE d == [addr |-> a, sid |-> sid, received |-> file]
<1>1. d.addr = a
  OBVIOUS
<1>2. delivered' = delivered \cup {d}
  OBVIOUS
<1> HIDE DEF d
<1>3. ASSUME NEW c \in Client, c # a
      PROVE  WholeFileDelivered(c)' <=> WholeFileDelivered(c)
  BY <1>1, <1>2, <1>3 DEF WholeFileDelivered
<1>4. ASSUME NEW c \in Client, WholeFileDelivered(c)
      PROVE  WholeFileDelivered(c)'
  BY <1>2, <1>4 DEF WholeFileDelivered
<1> QED BY <1>3, <1>4 DEF Complete

LEMMA AbandonStep ==
  ASSUME TypeOKServer, SessionLacksBytes, s_pc = "session", EndSession,
         delivered' = delivered, UNCHANGED client_vars
  PROVE  Transfer!Abandon
<1>1. Serving # NoSession
  BY ServingSession
<1>2. Serving' = NoSession
  BY DEF EndSession, Serving, NoSession
<1> QED BY <1>1, <1>2, CompleteStays, OutcomeStays DEF Transfer!Abandon

LEMMA OpenStep ==
  ASSUME TypeOK, TypeOK', TruePackets, SessionLacksBytes', NEW m \in InFlight,
         AcceptCONN(m), UNCHANGED client_vars
  PROVE  Transfer!Open
<1>1. Serving = NoSession
  BY DEF AcceptCONN, Idle, Serving
<1>2. /\ s_pc' = "session" /\ s_conn'.addr = m.src /\ s_conn'.bytes = m.bytes
      /\ s_bytes_recvd' = 0
  BY DEF AcceptCONN, OpenSession, ResetLocals
<1>3. /\ Serving' \in Transfer!Session
      /\ Serving'.who = m.src /\ Serving'.left = m.bytes - 0
  <2>1. TypeOKServer'
    BY DEF TypeOK
  <2>2. /\ s_conn'.addr \in Client \cup Peer /\ s_conn'.bytes \in Nat
        /\ s_bytes_recvd' < s_conn'.bytes
    BY <1>2, <2>1 DEF TypeOKServer, SessionLacksBytes, Conn, Addr
  <2>3. Serving' = [who |-> s_conn'.addr,
                    left |-> s_conn'.bytes - s_bytes_recvd']
    BY <1>2 DEF Serving
  <2> QED BY <1>2, <2>2, <2>3 DEF Transfer!Session
<1>4. m.bytes \in Nat
  BY PacketFacts
<1>5. m.src \in Client => m.bytes = occupied_size[m.src]
  BY PacketFacts DEF AcceptCONN, check_if_correct_CONN, TrueCONN
<1>6. Complete' = Complete
  BY CompleteStays DEF AcceptCONN, NoDelivery
<1> QED BY <1>1, <1>3, <1>4, <1>5, <1>6, OutcomeStays DEF Transfer!Open

LEMMA TakeStep ==
  ASSUME TypeOK, TypeOK', TruePackets, SessionLacksBytes, SessionLacksBytes',
         NEW m \in InFlight, TakeDATA(m), UNCHANGED client_vars
  PROVE  Transfer!Take
<1>t. TypeOKServer /\ TypeOKServer' /\ m.bytes \in Nat
  BY PacketFacts DEF TypeOK
<1>1. /\ s_pc = "session" /\ s_pc' = "session" /\ s_conn' = s_conn
      /\ s_bytes_recvd' = s_bytes_recvd + m.bytes /\ delivered' = delivered
  BY DEF TakeDATA, FromClient, InSession
<1>2. /\ Serving # NoSession /\ Serving.who = s_conn.addr
      /\ Serving.left = s_conn.bytes - s_bytes_recvd
  BY <1>t, <1>1, ServingSession
<1>3. /\ s_conn.addr \in Client \cup Peer /\ s_conn.bytes \in Nat
      /\ s_bytes_recvd \in Nat /\ s_bytes_recvd' \in Nat
      /\ s_bytes_recvd' < s_conn.bytes
  BY <1>t, <1>1 DEF TypeOKServer, SessionLacksBytes, Conn, Addr
<1>4. Serving' = [who |-> s_conn.addr, left |-> s_conn.bytes - s_bytes_recvd']
  BY <1>1 DEF Serving
<1>5. s_conn.bytes - s_bytes_recvd' \in Nat \ {0}
  BY <1>3
<1>6. /\ Serving' \in Transfer!Session
      /\ Serving'.who = Serving.who /\ Serving'.left <= Serving.left
  BY <1>t, <1>1, <1>2, <1>3, <1>4, <1>5 DEF Transfer!Session
<1> QED BY <1>1, <1>2, <1>6, CompleteStays, OutcomeStays DEF Transfer!Take

LEMMA FinishStep ==
  ASSUME TypeOK, TruePackets, ServerPart, SessionLacksBytes,
         NEW m \in InFlight, TakeLastDATA(m), UNCHANGED client_vars
  PROVE  Transfer!Finish
<1>t. TypeOKServer
  BY DEF TypeOK
<1>1. /\ s_pc = "session" /\ m.src = s_conn.addr
      /\ delivered' = delivered \cup
           {[addr |-> m.src, sid |-> m.sid,
             received |-> Append(s_received, PieceIn(m))]}
  BY DEF TakeLastDATA, FromClient, InSession
<1>2. Serving # NoSession /\ Serving.who = m.src
  BY <1>t, <1>1, ServingSession
<1>3. Serving' = NoSession
  BY DEF TakeLastDATA, EndSession, Serving, NoSession
<1>4. m.src \in Client => WholeFileDelivered(m.src)'
  BY <1>1, WholeFileTaken
<1>5. Complete' = Complete \cup ({m.src} \cap Client)
  BY <1>1, <1>4, OneMoreComplete
<1> QED BY <1>2, <1>3, <1>5, OutcomeStays DEF Transfer!Finish

\* A CONN that declares no bytes completes its client's empty file at once; from
\* another program it changes nothing.
LEMMA EmptyFileStep ==
  ASSUME TypeOK, TruePackets, NEW m \in InFlight, AcceptEmptyCONN(m),
         UNCHANGED client_vars
  PROVE  \/ \E c \in Client : Transfer!TakeEmpty(c)
         \/ UNCHANGED Transfer!transfer_vars
<1>1. /\ s_pc = "idle" /\ m.kind = "CONN" /\ m.bytes = 0
      /\ UNCHANGED <<s_pc, s_conn, s_bytes_recvd>>
      /\ delivered' = delivered \cup
           {[addr |-> m.src, sid |-> m.sid, received |-> <<>>]}
  BY DEF AcceptEmptyCONN, Idle, check_if_correct_CONN, KeepSession
<1>2. Serving = NoSession /\ Serving' = Serving
  BY <1>1 DEF Serving
<1>3. m.src \in Client => /\ m.sid = SessionId[m.src]
                          /\ occupied_size[m.src] = 0
  BY <1>1, PacketFacts DEF TrueCONN
<1>4. m.src \in Client => WholeFileDelivered(m.src)'
  <2> DEFINE d == [addr |-> m.src, sid |-> m.sid, received |-> <<>>]
  <2>1. m.src \in Client =>
          /\ d.addr = m.src /\ d.sid = SessionId[m.src]
          /\ Beginning(m.src, d.received, occupied_size[m.src])
    BY <1>3 DEF Beginning, Contiguous
  <2>2. d \in delivered'
    BY <1>1
  <2> HIDE DEF d
  <2> QED BY <2>1, <2>2 DEF WholeFileDelivered
<1>5. Complete' = Complete \cup ({m.src} \cap Client)
  BY <1>1, <1>4, OneMoreComplete
<1>6. Outcome' = Outcome
  BY OutcomeStays
<1>7. CASE m.src \in Client
  BY <1>2, <1>3, <1>5, <1>6, <1>7 DEF Transfer!TakeEmpty
<1>8. CASE m.src \notin Client
  BY <1>2, <1>5, <1>6, <1>8 DEF Transfer!transfer_vars
<1> QED BY <1>7, <1>8

LEMMA ServerImplements ==
  ASSUME Inductive, TypeOK', SessionLacksBytes, SessionLacksBytes',
         \/ \E m \in InFlight : ServerReceives(m)
         \/ ServerTimesOut
         \/ Sigint,
         UNCHANGED client_vars
  PROVE  Transfer!Next \/ UNCHANGED Transfer!transfer_vars
<1>i. TypeOK /\ TypeOKServer /\ TruePackets /\ ServerPart
  BY InductiveParts DEF TypeOK
<1>k. ASSUME s_pc' = s_pc \/ (s_pc = "idle" /\ s_pc' = "exit"),
             UNCHANGED <<s_conn, s_bytes_recvd, delivered>>
      PROVE  UNCHANGED Transfer!transfer_vars
  BY <1>k, ServingStays, CompleteStays, OutcomeStays
     DEF Transfer!transfer_vars
<1>e. ASSUME s_pc = "session", EndSession, delivered' = delivered
      PROVE  Transfer!Next
  BY <1>i, <1>e, AbandonStep DEF Transfer!Next
<1>1. ASSUME NEW m \in InFlight, ServerReceives(m)
      PROVE  Transfer!Next \/ UNCHANGED Transfer!transfer_vars
  <2>1. CASE AcceptCONN(m)
    BY <1>i, <2>1, OpenStep DEF Transfer!Next
  <2>2. CASE TakeDATA(m)
    BY <1>i, <2>2, TakeStep DEF Transfer!Next
  <2>3. CASE TakeLastDATA(m)
    BY <1>i, <2>3, FinishStep DEF Transfer!Next
  <2>4. CASE AcceptEmptyCONN(m)
    BY <1>i, <2>4, EmptyFileStep DEF Transfer!Next
  <2>5. CASE \/ RejectCONN(m) \/ SendCONACCFails(m) \/ TurnAway(m)
             \/ UDPR_Ignore(m)
    BY <2>5, <1>k DEF RejectCONN, SendCONACCFails, TurnAway, UDPR_Ignore,
       KeepSession, NoDelivery
  <2>6. CASE GetNothing(m)
    BY <2>6, <1>k DEF GetNothing, Idle, NoDelivery
  <2>7. CASE LoseClient(m) \/ UDPR_Reject(m) \/ UDP_Reject(m)
    BY <2>7, <1>e DEF LoseClient, UDPR_Reject, UDP_Reject, FromClient,
       InSession, NoDelivery
  <2>8. CASE TakeTooMuchDATA(m)
    BY <2>8, <1>e DEF TakeTooMuchDATA, FromClient, InSession
  <2> QED BY <1>1, <2>1, <2>2, <2>3, <2>4, <2>5, <2>6, <2>7, <2>8
             DEF ServerReceives
<1>2. CASE UDP_ServerTimeout \/ UDPR_ServerGiveUp \/ SigintInSession
  BY <1>2, <1>e DEF UDP_ServerTimeout, UDPR_ServerGiveUp, SigintInSession,
     NoDelivery
<1>3. CASE UDPR_ServerRetransmit \/ SigintWhileIdle \/ SigintBetweenReads
  BY <1>3, <1>k DEF UDPR_ServerRetransmit, SigintWhileIdle,
     SigintBetweenReads, KeepSession, NoDelivery
<1> QED BY <1>1, <1>2, <1>3 DEF ServerTimesOut, Sigint

-----------------------------------------------------------------------------
(* The clients.                                                            *)

\* A client that has ended does nothing more.
LEMMA ClientAlive ==
  ASSUME NEW c \in Client, ClientStep(c) \/ ClientKilled(c)
  PROVE  c_pc[c] \notin Ended
<1>1. CASE ClientKilled(c)
  BY <1>1 DEF ClientKilled, Killed
<1>2. CASE ClientSends(c)
  BY <1>2 DEF ClientSends, UDP_Sends, UDP_SendCONN, UDP_SendFails,
     UDP_SendDATA, UDPR_Sends, UDPR_SendCONN, UDPR_SendCONNFails,
     UDPR_SendDATA, UDPR_SendDATAFails, Ended
<1>3. CASE ClientTimesOut(c)
  BY <1>3 DEF ClientTimesOut, UDP_Timeout, UDPR_Timeout, Waiting, Ended
<1>4. ASSUME NEW m \in InFlight, ClientReceives(c, m)
      PROVE  c_pc[c] \notin Ended
  <2>1. CASE IgnoreStranger(c, m)
    BY <2>1 DEF IgnoreStranger, Waiting, Ended
  <2>2. CASE UDP_Receives(c, m)
    BY <2>2 DEF UDP_Receives, UDP_GetCONACC, UDP_GetRCVD, UDP_GetWrongPacket,
       UDP_GetNothing, TakesNothing, Response, Takes, Waiting, Ended
  <2>3. CASE UDPR_Receives(c, m)
    BY <2>3 DEF UDPR_Receives, UDPR_GetCONRJT, UDPR_GetCONACC,
       UDPR_GetOtherThanCONACC, UDPR_GetACC, UDPR_IgnoreEarlier,
       UDPR_GetEarlyRCVD, UDPR_GetOtherThanACC, UDPR_GetRCVD,
       UDPR_IgnoreLateACC, UDPR_GetOtherThanRCVD, UDPR_GetNothing,
       TakesNothing, Response, Takes, Waiting, Ended
  <2> QED BY <1>4, <2>1, <2>2, <2>3 DEF ClientReceives
<1> QED BY <1>1, <1>2, <1>3, <1>4 DEF ClientStep

LEMMA ClientImplements ==
  ASSUME Inductive, Inductive', NEW c \in Client,
         ClientStep(c) \/ ClientKilled(c), UNCHANGED server_vars
  PROVE  Transfer!Next \/ UNCHANGED Transfer!transfer_vars
<1>1. TypeOK /\ TypeOK' /\ SuccessMeansDelivered'
  BY DEF Inductive
<1>2. c_pc[c] \notin Ended /\ \A x \in Client \ {c} : c_pc'[x] = c_pc[x]
  BY <1>1, ClientAlive, ClientStepMove DEF ClientMove, OthersStay
<1>3. Serving' = Serving /\ Complete' = Complete
  BY ServingStays, CompleteStays DEF server_vars
<1>4. Outcome[c] = "running"
  BY <1>2 DEF Outcome
<1>5. CASE c_pc'[c] \notin Ended
  <2>1. Outcome' = Outcome
    BY <1>2, <1>5 DEF Outcome
  <2> QED BY <1>3, <2>1 DEF Transfer!transfer_vars
<1>6. CASE c_pc'[c] = "done"
  <2>1. WholeFileDelivered(c)'
    BY <1>1, <1>6 DEF SuccessMeansDelivered
  <2>2. c \in Complete
    BY <1>3, <2>1 DEF Complete
  <2>3. Outcome' = [Outcome EXCEPT ![c] = "done"]
    BY <1>2, <1>6 DEF Outcome, Ended
  <2> QED BY <1>3, <1>4, <2>2, <2>3 DEF Transfer!Next, Transfer!Succeed
<1>7. CASE c_pc'[c] = "failed"
  <2>1. Outcome' = [Outcome EXCEPT ![c] = "failed"]
    BY <1>2, <1>7 DEF Outcome, Ended
  <2> QED BY <1>3, <1>4, <2>1 DEF Transfer!Next, Transfer!Fail
<1> QED BY <1>5, <1>6, <1>7 DEF Ended

-----------------------------------------------------------------------------

LEMMA TransferInit ==
  ASSUME Init
  PROVE  Transfer!Init
<1>1. s_pc = "idle" /\ delivered = {}
  BY DEF Init, InitServer
<1>2. Serving = NoSession /\ Complete = {}
  BY <1>1 DEF Serving, Complete, WholeFileDelivered
<1>3. \A c \in Client : c_pc[c] \in {"CONN", "failed"}
  BY DEF Init, InitClient
<1>4. Outcome \in [Client -> {"running", "failed"}]
  BY <1>3 DEF Outcome, Ended
<1> QED BY <1>2, <1>4 DEF Transfer!Init

LEMMA TransferStep ==
  ASSUME Inductive, Inductive', SessionLacksBytes, SessionLacksBytes',
         [Next]_vars
  PROVE  [Transfer!Next]_(Transfer!transfer_vars)
<1>t. TypeOK'
  BY DEF Inductive
<1>1. CASE \E c \in Client : ClientStep(c) \/ ClientKilled(c)
  <2>1. UNCHANGED server_vars
    BY <1>1 DEF ClientStep, ClientSends, ClientReceives, ClientTimesOut,
       ClientKilled
  <2> QED BY <1>1, <2>1, ClientImplements
<1>2. CASE ServerReads \/ ServerWaits \/ ServerInterrupted
  BY <1>t, <1>2, ServerImplements DEF ServerReads, ServerWaits,
     ServerInterrupted
<1>3. CASE Network \/ UNCHANGED vars
  <2>1. UNCHANGED <<server_vars, client_vars>>
    BY <1>3 DEF Network, vars
  <2> QED BY <2>1, ServingStays, CompleteStays, OutcomeStays
             DEF server_vars, Transfer!transfer_vars
<1> QED BY <1>1, <1>2, <1>3 DEF Next, ServerStep

\* The programs implement the abstract transfer: the server takes one client's
\* bytes at a time, the bytes that are left in a session only shrink, and no client
\* succeeds but one whose whole file was taken in one session, for any number of
\* clients and other programs, any files, loss and duplication.
THEOREM TransferImplemented ==
  ASSUME EmptyFilesHaveOwnIds
  PROVE  Spec => ImplementsTransfer
<1>1. Init => Transfer!Init
  BY TransferInit
<1>2. Init => SessionLacksBytes
  BY DEF Init, InitServer, SessionLacksBytes
<1>3. Inductive /\ SessionLacksBytes /\ [Next]_vars => SessionLacksBytes'
  BY LacksBytesStep
<1>4. /\ Inductive /\ Inductive' /\ SessionLacksBytes /\ SessionLacksBytes'
      /\ [Next]_vars
      => [Transfer!Next]_(Transfer!transfer_vars)
  BY TransferStep
<1> QED
  BY <1>1, <1>2, <1>3, <1>4, InductiveInvariant, PTL
     DEF Spec, ImplementsTransfer, Transfer!Spec
=============================================================================
