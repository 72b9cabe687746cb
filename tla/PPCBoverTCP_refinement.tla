----------------------- MODULE PPCBoverTCP_refinement -----------------------
(***************************************************************************)
(* The proof that PPCB over TCP implements the abstract transfer of        *)
(* PPCBTransfer, for all clients, files, other programs and bounds.        *)
(***************************************************************************)
EXTENDS PPCBoverTCP_proofs

InSession == t_pc \in {"header", "data"}

LEMMA ServingStays ==
  ASSUME t_pc' = t_pc, UNCHANGED <<t_client, t_conn, t_bytes_received, t_rest>>
  PROVE  Serving' = Serving
BY DEF Serving, NoSession

LEMMA NotServing ==
  /\ ~ InSession => Serving = NoSession
  /\ ~ InSession' => Serving' = NoSession
BY DEF InSession, Serving, NoSession

LEMMA CompleteStays ==
  ASSUME delivered' = delivered
  PROVE  Complete' = Complete
BY DEF Complete, WholeFileDelivered, Beginning

LEMMA OutcomeStays ==
  ASSUME UNCHANGED tcp_client_vars
  PROVE  Outcome' = Outcome
BY DEF Outcome, tcp_client_vars

\* Bytes are left in every session, and no session is the abstract Nobody.
LEMMA ServingSession ==
  ASSUME TypeOKTCPServer, SessionPlace, InSession
  PROVE  /\ Serving = [who |-> t_client,
                       left |-> t_conn.bytes - (t_bytes_received - t_rest)]
         /\ Serving \in Transfer!Session
         /\ Serving # NoSession
<1>1. /\ t_client \in Client \cup Peer /\ t_conn.bytes \in Nat
      /\ t_bytes_received \in Nat /\ t_rest \in Nat
      /\ t_bytes_received - t_rest < t_conn.bytes
      /\ t_rest <= t_bytes_received
  BY TCPServerAssumption DEF TypeOKTCPServer, SessionPlace, InSession, Party
<1>2. t_conn.bytes - (t_bytes_received - t_rest) \in Nat \ {0}
  BY <1>1
<1>3. Serving = [who |-> t_client,
                 left |-> t_conn.bytes - (t_bytes_received - t_rest)]
  BY DEF Serving, InSession
<1>4. Serving.left # 0 /\ NoSession.left = 0
  BY <1>2, <1>3 DEF NoSession
<1> QED BY <1>1, <1>2, <1>3, <1>4 DEF Transfer!Session

\* The session that ends with an RCVD adds no one but its client.
LEMMA OneMoreComplete ==
  ASSUME NEW a, NEW sid, NEW file,
         delivered' = delivered \cup
                        {[addr |-> a, sid |-> sid, received |-> file]},
         a \in Client => WholeFileDelivered(a)'
  PROVE  Complete' = Complete \cup ({a} \cap Client)
<1> DEFINE d == [addr |-> a, sid |-> sid, received |-> file]
<1>1. d.addr = a /\ delivered' = delivered \cup {d}
  OBVIOUS
<1> HIDE DEF d
<1>2. ASSUME NEW c \in Client, c # a
      PROVE  WholeFileDelivered(c)' <=> WholeFileDelivered(c)
  <2> DEFINE e == [addr |-> c, sid |-> SessionId[c],
                   received |-> Beginning(c, occupied_size[c])]
  <2>1. e.addr = c
    OBVIOUS
  <2>2. /\ WholeFileDelivered(c) <=> e \in delivered
        /\ WholeFileDelivered(c)' <=> e \in delivered'
    BY DEF WholeFileDelivered, Beginning
  <2> HIDE DEF e
  <2> QED BY <1>1, <1>2, <2>1, <2>2
<1>3. ASSUME NEW c \in Client, WholeFileDelivered(c)
      PROVE  WholeFileDelivered(c)'
  BY <1>1, <1>3 DEF WholeFileDelivered, Beginning
<1> QED BY <1>2, <1>3 DEF Complete

-----------------------------------------------------------------------------
(* How the steps of the server look in the abstract state.                 *)

\* The same in the state after a step.
LEMMA ServingSessionNext ==
  ASSUME TypeOKTCPServer', SessionPlace', InSession'
  PROVE  /\ Serving' = [who |-> t_client',
                        left |-> t_conn'.bytes - (t_bytes_received' - t_rest')]
         /\ Serving' \in Transfer!Session
<1>1. (TypeOKTCPServer /\ SessionPlace /\ InSession
        => /\ Serving = [who |-> t_client,
                         left |-> t_conn.bytes - (t_bytes_received - t_rest)]
           /\ Serving \in Transfer!Session)'
  BY ServingSession, PTL
<1> QED BY <1>1

LEMMA OpenStep ==
  ASSUME TCP_Inductive, TCP_Inductive', NEW c \in Party, NEW item,
         AcceptCONN(c, item), UNCHANGED tcp_client_vars
  PROVE  Transfer!Open
<1>1. /\ t_pc = "CONN" /\ t_pc' = "header" /\ delivered' = delivered
      /\ UNCHANGED <<t_bytes_received, t_rest>>
  BY DEF AcceptCONN, Reads
<1>2. Serving = NoSession
  BY <1>1, NotServing DEF InSession
<1>3. TypeOKTCPServer' /\ SessionPlace' /\ FilePlace'
  BY DEF TCP_Inductive, TCP_TypeOK
<1>4. /\ Serving' = [who |-> t_client',
                     left |-> t_conn'.bytes - (t_bytes_received' - t_rest')]
      /\ Serving' \in Transfer!Session
  BY <1>1, <1>3, ServingSessionNext DEF InSession
<1>5. t_bytes_received' = 0 /\ t_rest' = 0
  BY <1>1 DEF TCP_Inductive, SessionPlace
<1>6. Serving'.who \in Client => Serving'.left = occupied_size[Serving'.who]
  <2>1. Serving'.who = t_client'
    BY <1>4
  <2>2. t_client' \in Client => t_conn'.bytes = occupied_size[t_client']
    BY <1>1, <1>3 DEF FilePlace
  <2>3. Serving'.left = t_conn'.bytes - (t_bytes_received' - t_rest')
    BY <1>4
  <2>4. t_conn'.bytes \in Nat
    BY <1>1, <1>3 DEF SessionPlace
  <2>5. Serving'.left = t_conn'.bytes
    BY <1>5, <2>3, <2>4
  <2> QED BY <2>1, <2>2, <2>5
<1> QED BY <1>2, <1>1, <1>4, <1>6, CompleteStays, OutcomeStays DEF Transfer!Open

\* A header leaves what is left as it is, and a byte makes it one less.
LEMMA TakeStep ==
  ASSUME TCP_Inductive, TCP_Inductive', NEW c \in Party, NEW item,
         TCP_get_DATA_metainfo(c, item) \/ TCP_read_data_to_buf(c, item),
         UNCHANGED tcp_client_vars
  PROVE  Transfer!Take
<1>1. /\ InSession /\ InSession' /\ UNCHANGED <<t_client, t_conn, delivered>>
  BY DEF TCP_get_DATA_metainfo, TCP_read_data_to_buf, Reads, InSession
<1>2. /\ TypeOKTCPServer /\ SessionPlace
      /\ TypeOKTCPServer' /\ SessionPlace'
  BY DEF TCP_Inductive, TCP_TypeOK
<1>3. /\ Serving = [who |-> t_client,
                    left |-> t_conn.bytes - (t_bytes_received - t_rest)]
      /\ Serving # NoSession
  BY <1>1, <1>2, ServingSession
<1>4. /\ Serving' = [who |-> t_client',
                     left |-> t_conn'.bytes - (t_bytes_received' - t_rest')]
      /\ Serving' \in Transfer!Session
  BY <1>1, <1>2, ServingSessionNext
<1>5. t_bytes_received - t_rest <= t_bytes_received' - t_rest'
  <2>1. /\ t_bytes_received \in Nat /\ t_rest \in Nat
        /\ t_bytes_received' \in Nat /\ t_rest' \in Nat
    BY <1>2 DEF TypeOKTCPServer
  <2>2. CASE TCP_get_DATA_metainfo(c, item)
    <3>1. t_pc = "header" /\ t_rest' = item.bytes
          /\ t_bytes_received' = t_bytes_received + item.bytes
      BY <2>2 DEF TCP_get_DATA_metainfo, Reads
    <3>2. t_rest = 0
      BY <1>2, <3>1 DEF SessionPlace
    <3>3. item.bytes \in Nat
      BY <2>1, <3>1
    <3> QED BY <2>1, <3>1, <3>2, <3>3
  <2>3. CASE TCP_read_data_to_buf(c, item)
    BY <2>1, <2>3 DEF TCP_read_data_to_buf
  <2> QED BY <2>2, <2>3
<1>6. Serving'.who = Serving.who /\ Serving'.left <= Serving.left
  <2>1. /\ t_conn.bytes \in Nat /\ t_bytes_received - t_rest \in Int
        /\ t_bytes_received' - t_rest' \in Int
    BY <1>1, <1>2 DEF TypeOKTCPServer, SessionPlace, InSession
  <2>2. t_conn.bytes - (t_bytes_received' - t_rest')
          <= t_conn.bytes - (t_bytes_received - t_rest)
    BY <1>5, <2>1
  <2> QED BY <1>1, <1>3, <1>4, <2>2
<1> QED BY <1>1, <1>3, <1>4, <1>6, CompleteStays, OutcomeStays DEF Transfer!Take

LEMMA FinishStep ==
  ASSUME TCP_Inductive, TCP_Inductive', NEW c \in Party, NEW item,
         FinishSession(c, item), UNCHANGED tcp_client_vars
  PROVE  Transfer!Finish
<1> DEFINE new == [addr |-> c, sid |-> t_conn.sid,
                   received |-> Append(t_received, item)]
<1>1. /\ t_pc = "data" /\ c = t_client /\ t_pc' = "accept"
      /\ delivered' = delivered \cup {new}
  BY DEF FinishSession, Reads, NextClient
<1>2. Serving # NoSession /\ Serving.who = c
  BY <1>1, ServingSession DEF TCP_Inductive, TCP_TypeOK, InSession
<1>3. Serving' = NoSession
  BY <1>1, NotServing DEF InSession
<1>4. c \in Client => WholeFileDelivered(c)'
  <2> SUFFICES ASSUME c \in Client
               PROVE  WholeFileDelivered(c)'
    OBVIOUS
  <2>1. t_conn.sid = SessionId[c]
    BY <1>1 DEF TCP_Inductive, FilePlace
  <2>2. new.addr = c /\ new.received = Append(t_received, item)
    OBVIOUS
  <2>3. Append(t_received, item) = Beginning(c, occupied_size[c])
    <3> HIDE DEF new
    <3>1. \A s \in delivered' : s.addr \in Client =>
            s.received = Beginning(s.addr, occupied_size[s.addr])
      BY DEF TCP_Inductive, TCP_SessionHoldsPrefix, Beginning
    <3> QED BY <1>1, <2>2, <3>1
  <2> QED BY <1>1, <2>1, <2>3 DEF WholeFileDelivered, Beginning
<1>5. Complete' = Complete \cup ({c} \cap Client)
  BY <1>1, <1>4, OneMoreComplete
<1> QED BY <1>2, <1>3, <1>5, OutcomeStays DEF Transfer!Finish

\* A CONN that declares no bytes completes its client's empty file at once; from
\* another program it changes nothing.
LEMMA EmptyFileStep ==
  ASSUME TCP_Inductive, NEW c \in Party, NEW item, AcceptEmptyCONN(c, item),
         UNCHANGED tcp_client_vars
  PROVE  \/ \E x \in Client : Transfer!TakeEmpty(x)
         \/ UNCHANGED Transfer!transfer_vars
<1>1. /\ t_pc = "CONN" /\ c = t_client /\ t_pc' = "accept"
      /\ up[c] # <<>> /\ item = Head(up[c]) /\ item.bytes = 0
      /\ delivered' = delivered \cup
           {[addr |-> c, sid |-> item.sid, received |-> <<>>]}
  BY DEF AcceptEmptyCONN, Reads, NextClient
<1>2. Serving = NoSession /\ Serving' = NoSession
  BY <1>1, NotServing DEF InSession
<1>3. ASSUME c \in Client
      PROVE  /\ item.sid = SessionId[c] /\ occupied_size[c] = 0
             /\ <<>> = Beginning(c, occupied_size[c])
  <2>1. IsItem(c, 1, item)
    BY <1>1, <1>3, NextItem, InductiveParts DEF ItemsRead
  <2>2. item = CONN(SessionId[c], occupied_size[c])
    BY <1>3, <2>1, FirstItem
  <2>3. item.sid = SessionId[c] /\ item.bytes = occupied_size[c]
    BY <2>2 DEF CONN, Fixed
  <2> QED BY <1>1, <1>3, <2>3, BeginningEmpty
<1>4. c \in Client => WholeFileDelivered(c)'
  BY <1>1, <1>3 DEF WholeFileDelivered, Beginning
<1>5. Complete' = Complete \cup ({c} \cap Client)
  BY <1>1, <1>4, OneMoreComplete
<1>6. Outcome' = Outcome
  BY OutcomeStays
<1>7. CASE c \in Client
  BY <1>2, <1>3, <1>5, <1>6, <1>7 DEF Transfer!TakeEmpty
<1>8. CASE c \notin Client
  BY <1>2, <1>5, <1>6, <1>8 DEF Transfer!transfer_vars
<1> QED BY <1>7, <1>8

\* A session that fails is abandoned; a connection without a session leaves no
\* trace.
LEMMA AbortedStep ==
  ASSUME TCP_Inductive, NEW c \in Party, NEW rest,
         \/ /\ t_pc = "CONN" /\ AnswersAndCloses(c, rest, <<>>)
            /\ NextClient /\ UNCHANGED delivered
         \/ t_pc \in {"header", "data"} /\ Reject(c, rest),
         UNCHANGED tcp_client_vars
  PROVE  Transfer!Abandon \/ UNCHANGED Transfer!transfer_vars
<1>1. t_pc' = "accept" /\ delivered' = delivered
  BY DEF Reject, NextClient
<1>2. Serving' = NoSession /\ Complete' = Complete /\ Outcome' = Outcome
  BY <1>1, NotServing, CompleteStays, OutcomeStays DEF InSession
<1>3. CASE t_pc = "CONN"
  <2>1. Serving = NoSession
    BY <1>3, NotServing DEF InSession
  <2> QED BY <1>2, <2>1 DEF Transfer!transfer_vars
<1>4. CASE t_pc \in {"header", "data"}
  <2>1. Serving # NoSession
    BY <1>4, ServingSession DEF InSession, TCP_Inductive, TCP_TypeOK
  <2> QED BY <1>2, <2>1 DEF Transfer!Abandon
<1> QED BY <1>3, <1>4

LEMMA ServerImplements ==
  ASSUME TCP_Inductive, TCP_Inductive', ServerStep \/ ServerInterrupted
  PROVE  Transfer!Next \/ UNCHANGED Transfer!transfer_vars
<1>c. UNCHANGED tcp_client_vars
  BY DEF ServerStep, ServerInterrupted
<1>1. ASSUME NEW c \in Party, NEW item, TCP_ServerReads(c, item)
      PROVE  Transfer!Next \/ UNCHANGED Transfer!transfer_vars
  <2>1. CASE RefuseCONN(c, item)
    BY <1>c, <2>1, AbortedStep DEF RefuseCONN, Reads, Transfer!Next
  <2>2. CASE RejectHeader(c, item)
    BY <1>c, <2>2, AbortedStep DEF RejectHeader, Reads, Transfer!Next
  <2> QED BY <1>1, <1>c, <2>1, <2>2, OpenStep, TakeStep, FinishStep,
             EmptyFileStep DEF TCP_ServerReads, Transfer!Next
<1>2. ASSUME NEW c \in Party, ReadFails(c)
      PROVE  Transfer!Next \/ UNCHANGED Transfer!transfer_vars
  BY <1>2, <1>c, AbortedStep DEF ReadFails, Transfer!Next
<1>3. ASSUME ~ InSession, ~ InSession', delivered' = delivered
      PROVE  UNCHANGED Transfer!transfer_vars
  BY <1>3, <1>c, NotServing, CompleteStays, OutcomeStays
     DEF Transfer!transfer_vars
<1>4. ASSUME NEW c \in Party, TCP_wait_for_client(c)
      PROVE  UNCHANGED Transfer!transfer_vars
  BY <1>3, <1>4 DEF TCP_wait_for_client, InSession
<1>5. CASE SigintInAccept
  BY <1>3, <1>5 DEF SigintInAccept, InSession
<1>6. CASE SigintBetweenCalls
  BY <1>6, <1>c, ServingStays, CompleteStays, OutcomeStays
     DEF SigintBetweenCalls, session_vars, Transfer!transfer_vars
<1> QED BY <1>1, <1>2, <1>4, <1>5, <1>6 DEF ServerStep, ServerInterrupted,
           EndOfStream, TCP_ServerTimeout, SigintInSession

-----------------------------------------------------------------------------
(* The clients.                                                            *)

\* A client that has ended does nothing more.
LEMMA ClientMoves ==
  ASSUME TCP_TypeOK, NEW c \in Client, TCP_ClientStep(c) \/ Killed(c)
  PROVE  c_pc[c] \notin Ended /\ \A x \in Client \ {c} : c_pc'[x] = c_pc[x]
BY ClientStepCases DEF TCP_Connect, TCP_client_send_CONN, TCP_WritePart,
   TCP_WriteLast, check_CONACC, Leaves, Leave, Goto, Ended, TCP_TypeOK,
   TypeOKTCPClient

LEMMA ClientImplements ==
  ASSUME TCP_Inductive, TCP_Inductive', NEW c \in Client,
         TCP_ClientStep(c) \/ Killed(c), UNCHANGED tcp_server_vars
  PROVE  Transfer!Next \/ UNCHANGED Transfer!transfer_vars
<1>1. TCP_TypeOK /\ TCP_SuccessMeansDelivered'
  BY DEF TCP_Inductive
<1>2. c_pc[c] \notin Ended /\ \A x \in Client \ {c} : c_pc'[x] = c_pc[x]
  BY <1>1, ClientMoves
<1>3. Serving' = Serving /\ Complete' = Complete
  BY ServingStays, CompleteStays DEF tcp_server_vars
<1>4. Outcome[c] = "running"
  BY <1>2 DEF Outcome
<1>5. CASE c_pc'[c] \notin Ended
  <2>1. Outcome' = Outcome
    BY <1>2, <1>5 DEF Outcome
  <2> QED BY <1>3, <2>1 DEF Transfer!transfer_vars
<1>6. CASE c_pc'[c] = "done"
  <2>1. WholeFileDelivered(c)'
    BY <1>1, <1>6 DEF TCP_SuccessMeansDelivered
  <2>2. c \in Complete
    BY <1>3, <2>1 DEF Complete
  <2>3. Outcome' = [Outcome EXCEPT ![c] = "done"]
    BY <1>2, <1>6 DEF Outcome, Ended
  <2> QED BY <1>3, <1>4, <2>2, <2>3 DEF Transfer!Next, Transfer!Succeed
<1>7. CASE c_pc'[c] = "failed"
  <2>1. Outcome' = [Outcome EXCEPT ![c] = "failed"]
    BY <1>2, <1>7 DEF Outcome, Ended
  <2> QED BY <1>3, <1>4, <2>1 DEF Transfer!Next, Transfer!Fail
<1> QED BY <1>5, <1>6, <1>7 DEF Ended

-----------------------------------------------------------------------------

LEMMA TransferInit ==
  ASSUME Init
  PROVE  Transfer!Init
<1>1. t_pc = "accept" /\ delivered = {}
  BY DEF Init, InitTCPServer
<1>2. Serving = NoSession /\ Complete = {}
  BY <1>1 DEF Serving, NoSession, Complete, WholeFileDelivered
<1>3. \A c \in Client : c_pc[c] \in {"connect", "failed"}
  BY DEF Init, InitTCPClient
<1>4. Outcome \in [Client -> {"running", "failed"}]
  BY <1>3 DEF Outcome, Ended
<1> QED BY <1>2, <1>4 DEF Transfer!Init

LEMMA TransferStep ==
  ASSUME TCP_Inductive, TCP_Inductive', [Next]_vars
  PROVE  [Transfer!Next]_(Transfer!transfer_vars)
<1>1. CASE \E c \in Client : ClientStep(c) \/ ClientKilled(c)
  BY <1>1, ClientImplements DEF ClientStep, ClientKilled
<1>2. CASE ServerStep \/ ServerInterrupted
  BY <1>2, ServerImplements
<1>3. CASE (\E p \in Peer : PeerStep(p)) \/ UNCHANGED vars
  <2>1. UNCHANGED <<tcp_server_vars, tcp_client_vars>>
    BY <1>3 DEF PeerStep, vars
  <2> QED BY <2>1, ServingStays, CompleteStays, OutcomeStays
             DEF tcp_server_vars, Transfer!transfer_vars
<1> QED BY <1>1, <1>2, <1>3 DEF Next

\* The programs implement the abstract transfer over TCP: the server takes one
\* connection's bytes at a time, the bytes that are left in a session only shrink,
\* and no client succeeds but one whose whole file was taken in one session, for
\* any number of clients and connections, any files and any buffers.
THEOREM TCP_TransferImplemented == Spec => TCP_ImplementsTransfer
<1>1. Init => Transfer!Init
  BY TransferInit
<1>2. TCP_Inductive /\ TCP_Inductive' /\ [Next]_vars
        => [Transfer!Next]_(Transfer!transfer_vars)
  BY TransferStep
<1> QED
  BY <1>1, <1>2, TCP_InductiveInvariant, PTL
     DEF Spec, TCP_ImplementsTransfer, Transfer!Spec
=============================================================================
