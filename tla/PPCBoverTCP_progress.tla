------------------------ MODULE PPCBoverTCP_progress ------------------------
(***************************************************************************)
(* Theorems about PPCBoverTCP: how far clients and sessions get, and what  *)
(* is left to write when a file was read.                                  *)
(***************************************************************************)
EXTENDS PPCBoverTCP_proofs

(* What a client has still to write when its file was read.                *)

LEMMA DeliveredGrows ==
  ASSUME NEW c \in Client, WholeFileDelivered(c), delivered \subseteq delivered'
  PROVE  WholeFileDelivered(c)'
BY DEF WholeFileDelivered, Beginning

\* Nobody's client starts with a delivered file.
LEMMA WrittenInit ==
  ASSUME Init
  PROVE  TCP_DeliveredIsWritten
<1>1. delivered = {}
  BY DEF Init, InitTCPServer
<1> QED BY <1>1 DEF TCP_DeliveredIsWritten, WholeFileDelivered

\* The conjuncts of TCP_DeliveredIsWritten about one client.
NothingLeft(c) ==
  /\ c_pc[c] \notin {"connect", "CONN"}
  /\ c_pc[c] = "wait_CONACC" => occupied_size[c] = 0
  /\ c_pc[c] = "DATA" => /\ c_bytes_sent[c] + shift(c) = occupied_size[c]
                         /\ shift(c) < c_written[c]

LEMMA WrittenParts ==
  TCP_DeliveredIsWritten <=>
    \A c \in Client : WholeFileDelivered(c) => NothingLeft(c)
BY DEF TCP_DeliveredIsWritten, NothingLeft

\* A CONN that declares no bytes is all that its client writes.
LEMMA EmptyFileWritten ==
  ASSUME TCP_TypeOK, SessionPlace, Sound, NEW c \in Client, NEW item,
         AcceptEmptyCONN(c, item)
  PROVE  NothingLeft(c)
<1>1. /\ t_pc = "CONN" /\ c = t_client /\ up[c] # <<>> /\ item = Head(up[c])
      /\ item.bytes = 0 /\ c \in Party
  BY DEF AcceptEmptyCONN, Reads, Party
<1>2. ItemsRead(c) = 0
  BY <1>1 DEF ItemsRead
<1>3. IsItem(c, 1, item)
  BY <1>1, <1>2, NextItem
<1>4. occupied_size[c] = 0
  BY <1>1, <1>3, FirstItem DEF CONN, Fixed
<1>5. c_pc[c] # "DATA"
  <2>1. c_pc[c] = "DATA" => c_bytes_sent[c] < 0 /\ c_bytes_sent[c] \in Nat
    BY <1>4 DEF Sound, ClientsSound, ClientPlace, TCP_TypeOK, TypeOKTCPClient
  <2> QED BY <2>1
<1>6. c_pc[c] \notin {"connect", "CONN"}
  <2>1. link[c] = "open" /\ OnTheWay(c)
    BY <1>1 DEF Sound, Connections, ClientsSound
  <2>2. Len(up[c]) \in Nat /\ Len(up[c]) > 0
    BY <1>1, UpType DEF TCP_TypeOK
  <2>3. c_pc[c] \in {"connect", "CONN"} =>
          ItemsWritten(c) = 0 /\ c_pc[c] \notin Ended
    BY DEF ItemsWritten, Ended
  <2> QED BY <1>2, <2>1, <2>2, <2>3 DEF OnTheWay
<1> QED BY <1>4, <1>5, <1>6 DEF NothingLeft

\* Offsets and starts of the packets go the same way.
LEMMA OffsetsApart ==
  ASSUME NEW k \in Nat, NEW id \in Nat, k < id
  PROVE  OffsetOf(k) + SEND_BUFF_SIZE <= OffsetOf(id)
<1>1. SEND_BUFF_SIZE \in Nat
  BY TCPClientAssumption
<1>2. PICK d \in Nat : id = k + 1 + d
  <2>1. id - (k + 1) \in Nat
    OBVIOUS
  <2> QED BY <2>1
<1>3. d * SEND_BUFF_SIZE \in Nat /\ k * SEND_BUFF_SIZE \in Nat
  BY <1>1
<1>4. id * SEND_BUFF_SIZE
        = k * SEND_BUFF_SIZE + SEND_BUFF_SIZE + d * SEND_BUFF_SIZE
  BY <1>1, <1>2
<1> QED BY <1>1, <1>3, <1>4 DEF OffsetOf

\* The item that carries the last byte of a file is in the last structure, behind
\* all its other bytes.
LEMMA LastByteWritten ==
  ASSUME TCP_TypeOK, SessionPlace, Sound, NEW c \in Client, NEW item,
         FinishSession(c, item)
  PROVE  NothingLeft(c)
<1> DEFINE last == t_packet_id - 1
           n == t_bytes_received - t_rest
<1>1. /\ t_pc = "data" /\ c = t_client /\ up[c] # <<>>
      /\ t_rest = 1 /\ t_bytes_received = t_conn.bytes /\ c \in Party
  BY DEF FinishSession, Reads, Party
<1>2. /\ last \in Nat /\ n \in Nat
      /\ OffsetOf(last) < occupied_size[c]
      /\ t_bytes_received = OffsetOf(last) + BytesIn(c, last)
      /\ t_conn.bytes = occupied_size[c]
      /\ ItemsRead(c) = StartOf(last) + (n - OffsetOf(last))
  BY <1>1, NextByte
<1>3. n = t_bytes_received - 1
  BY <1>1
<1> HIDE DEF last, n
<1>4. /\ BytesIn(c, last) \in 1 .. SEND_BUFF_SIZE
      /\ SEND_BUFF_SIZE \in Nat /\ occupied_size[c] \in Nat
      /\ OffsetOf(last) \in Nat /\ StartOf(last) \in Nat /\ StartOf(last) >= 2
  BY <1>2, PieceFacts, Places, TCPClientAssumption
<1>5. OffsetOf(last) + BytesIn(c, last) = occupied_size[c]
  BY <1>1, <1>2
<1>6. ItemsRead(c) = StartOf(last) + BytesIn(c, last) - 1
  BY <1>1, <1>2, <1>3, <1>4, <1>5
<1>7. c_pc[c] \notin Ended => StartOf(last) + BytesIn(c, last) <= ItemsWritten(c)
  <2>1. link[c] = "open" /\ OnTheWay(c)
    BY <1>1 DEF Sound, Connections, ClientsSound
  <2>2. Len(up[c]) \in Nat /\ Len(up[c]) > 0
    BY <1>1, UpType DEF TCP_TypeOK
  <2> QED BY <1>4, <1>6, <2>1, <2>2 DEF OnTheWay
<1>8. c_pc[c] \notin {"connect", "CONN"}
  <2>1. c_pc[c] \in {"connect", "CONN"} =>
          ItemsWritten(c) = 0 /\ c_pc[c] \notin Ended
    BY DEF ItemsWritten, Ended
  <2> QED BY <1>4, <1>7, <2>1
<1>9. c_pc[c] # "wait_CONACC"
  <2> SUFFICES ASSUME c_pc[c] = "wait_CONACC" PROVE FALSE
    OBVIOUS
  <2>1. c_package_id[c] = 0 /\ c_written[c] = 0 /\ c_pc[c] \notin Ended
    BY DEF Sound, ClientsSound, ClientPlace, Ended
  <2>2. ItemsWritten(c) = StartOf(0) - 1 + 0
    BY <2>1 DEF ItemsWritten
  <2>3. StartOf(0) = 2
    BY Places
  <2> QED BY <1>4, <1>7, <2>1, <2>2, <2>3
<1>10. ASSUME c_pc[c] = "DATA"
       PROVE  /\ c_bytes_sent[c] + shift(c) = occupied_size[c]
              /\ shift(c) < c_written[c]
  <2> DEFINE id == c_package_id[c]
             w == c_written[c]
  <2>1. /\ id \in Nat /\ w \in 0 .. SEND_BUFF_SIZE
        /\ c_bytes_sent[c] = OffsetOf(id) /\ OffsetOf(id) < occupied_size[c]
        /\ shift(c) = BytesIn(c, id)
        /\ ItemsWritten(c) = StartOf(id) - 1 + w
        /\ StartOf(id) \in Nat
    BY <1>10, WritePlace
  <2>2. c_pc[c] \notin Ended
    BY <1>10 DEF Ended
  <2> HIDE DEF id, w
  <2>3. ~ id < last
    <3> SUFFICES ASSUME id < last PROVE FALSE
      OBVIOUS
    <3>1. StartOf(id) + SEND_BUFF_SIZE < StartOf(last)
      BY <1>2, <2>1, PacketsApart
    <3> QED BY <1>4, <1>7, <2>1, <2>2, <3>1
  <2>4. ~ last < id
    <3> SUFFICES ASSUME last < id PROVE FALSE
      OBVIOUS
    <3>1. OffsetOf(last) + SEND_BUFF_SIZE <= OffsetOf(id) /\ OffsetOf(id) \in Nat
      BY <1>2, <2>1, OffsetsApart, Places
    <3> QED BY <1>4, <1>5, <2>1, <3>1
  <2>5. id = last
    BY <1>2, <2>1, <2>3, <2>4
  <2>6. c_bytes_sent[c] + shift(c) = occupied_size[c]
    BY <1>5, <2>1, <2>5
  <2>7. shift(c) < w
    BY <1>4, <1>7, <2>1, <2>2, <2>5
  <2> QED BY <2>6, <2>7 DEF w
<1> QED BY <1>8, <1>9, <1>10 DEF NothingLeft

\* A step of the server delivers no file but one that is written.
LEMMA ServerDelivers ==
  ASSUME TCP_TypeOK, SessionPlace, Sound, TCP_DeliveredIsWritten,
         ServerStep \/ ServerInterrupted
  PROVE  TCP_DeliveredIsWritten'
<1>1. UNCHANGED tcp_client_vars
  BY DEF ServerStep, ServerInterrupted
<1>2. \/ delivered' = delivered
      \/ \E c \in Party : \E i \in 1 .. Len(up[c]) :
           AcceptEmptyCONN(c, up[c][i]) \/ FinishSession(c, up[c][i])
  <2>1. ASSUME NEW c \in Party, ReadFails(c) PROVE delivered' = delivered
    BY <2>1 DEF ReadFails, Reject
  <2>2. ASSUME NEW c \in Party, NEW item, TCP_ServerReads(c, item)
        PROVE  \/ delivered' = delivered
               \/ AcceptEmptyCONN(c, item) \/ FinishSession(c, item)
    BY <2>2 DEF TCP_ServerReads, AcceptCONN, RefuseCONN, TCP_get_DATA_metainfo,
       RejectHeader, Reject, TCP_read_data_to_buf
  <2> QED BY <2>1, <2>2 DEF ServerStep, ServerInterrupted, TCP_wait_for_client,
             EndOfStream, TCP_ServerTimeout, SigintInSession, SigintInAccept,
             SigintBetweenCalls
<1>3. ASSUME NEW c \in Client, WholeFileDelivered(c)'
      PROVE  NothingLeft(c)
  <2>1. CASE WholeFileDelivered(c)
    BY <2>1, WrittenParts
  <2>2. CASE ~ WholeFileDelivered(c)
    <3>1. delivered' # delivered
      BY <1>3, <2>2 DEF WholeFileDelivered, Beginning
    <3>2. PICK x \in Party : \E i \in 1 .. Len(up[x]) :
            AcceptEmptyCONN(x, up[x][i]) \/ FinishSession(x, up[x][i])
      BY <1>2, <3>1
    <3>3. x = c
      <4>1. PICK sid, received : delivered' = delivered \cup
              {[addr |-> x, sid |-> sid, received |-> received]}
        BY <3>2 DEF AcceptEmptyCONN, FinishSession
      <4>2. ASSUME NEW s \in delivered', s \notin delivered PROVE s.addr = x
        BY <4>1, <4>2
      <4>3. PICK s \in delivered' : s.addr = c /\ s \notin delivered
        <5> DEFINE whole == [addr |-> c, sid |-> SessionId[c],
                             received |-> Beginning(c, occupied_size[c])]
        <5>1. whole.addr = c
          OBVIOUS
        <5>2. whole \in delivered' /\ whole \notin delivered
          BY <1>3, <2>2 DEF WholeFileDelivered, Beginning
        <5> HIDE DEF whole
        <5> QED BY <5>1, <5>2
      <4>4. s.addr = x
        BY <4>1, <4>3
      <4> QED BY <4>3, <4>4
    <3> QED BY <3>2, <3>3, EmptyFileWritten, LastByteWritten
  <2> QED BY <2>1, <2>2
<1>4. \A c \in Client : NothingLeft(c)' <=> NothingLeft(c)
  BY <1>1 DEF NothingLeft, shift, tcp_client_vars
<1> QED BY <1>3, <1>4, WrittenParts DEF TCP_DeliveredIsWritten, NothingLeft

\* A client whose file was read writes on to the end of its structure, and ends.
LEMMA ClientWrites ==
  ASSUME TCP_TypeOK, Sound, TCP_DeliveredIsWritten, NEW c \in Client,
         TCP_ClientStep(c) \/ Killed(c), UNCHANGED tcp_server_vars
  PROVE  TCP_DeliveredIsWritten'
<1>1. ASSUME NEW x \in Client, WholeFileDelivered(x)'
      PROVE  WholeFileDelivered(x) /\ NothingLeft(x)
  BY <1>1, ServerUntouched, WrittenParts
<1>t. /\ c_pc \in [Client -> {"connect", "CONN", "DATA"} \cup Waiting \cup Ended]
      /\ c_bytes_sent \in [Client -> Nat]
      /\ c_written \in [Client -> 0 .. SEND_BUFF_SIZE]
      /\ occupied_size[c] \in Nat /\ SEND_BUFF_SIZE \in Nat
  BY TCPClientAssumption DEF TCP_TypeOK, TypeOKTCPClient
<1>2. ASSUME NEW x \in Client, x # c, NothingLeft(x)
      PROVE  NothingLeft(x)'
  <2>1. /\ c_pc'[x] = c_pc[x] /\ c_bytes_sent'[x] = c_bytes_sent[x]
        /\ c_written'[x] = c_written[x]
    BY <1>2, <1>t, ClientStepCases DEF Leaves, Leave, Goto, Progress, TCP_Connect,
       TCP_client_send_CONN, TCP_WritePart, TCP_WriteLast, check_CONACC
  <2> QED BY <1>2, <2>1 DEF NothingLeft, shift
<1>3. ASSUME NothingLeft(c)
      PROVE  NothingLeft(c)'
  <2>1. c_pc[c] \notin {"connect", "CONN"}
    BY <1>3 DEF NothingLeft
  <2>2. CASE TCP_WritePart(c)
    <3>1. /\ c_pc[c] = "DATA" /\ c_pc' = c_pc /\ c_bytes_sent' = c_bytes_sent
          /\ c_written'[c] = c_written[c] + 1
      BY <1>t, <2>2 DEF TCP_WritePart
    <3>2. shift(c)' = shift(c)
      BY <3>1 DEF shift
    <3>3. shift(c) \in Nat /\ c_written[c] \in Nat
      BY <1>t, ShiftFacts DEF TCP_TypeOK
    <3> QED BY <1>3, <3>1, <3>2, <3>3 DEF NothingLeft
  <2>3. CASE TCP_WriteLast(c)
    <3>1. c_pc[c] = "DATA" /\ c_pc'[c] = AfterBytes(c, c_bytes_sent[c] + shift(c))
      BY <1>t, <2>3 DEF TCP_WriteLast, Goto
    <3>2. c_pc'[c] = "wait_RCVD"
      BY <1>3, <3>1 DEF NothingLeft, AfterBytes
    <3> QED BY <3>2 DEF NothingLeft
  <2>4. ASSUME NEW i \in 1 .. Len(down[c]), check_CONACC(c, down[c][i])
        PROVE  NothingLeft(c)'
    <3>1. c_pc[c] = "wait_CONACC" /\ c_pc'[c] = AfterBytes(c, 0)
      BY <1>t, <2>4 DEF check_CONACC, Goto
    <3>2. c_pc'[c] = "wait_RCVD"
      BY <1>3, <3>1 DEF NothingLeft, AfterBytes
    <3> QED BY <3>2 DEF NothingLeft
  <2>5. CASE Leaves(c)
    <3>1. c_pc'[c] \in Ended
      BY <1>t, <2>5 DEF Leaves, Leave, Goto
    <3> QED BY <3>1 DEF NothingLeft, Ended
  <2> QED BY <2>1, <2>2, <2>3, <2>4, <2>5, ClientStepCases
          DEF TCP_Connect, TCP_client_send_CONN
<1>4. ASSUME NEW x \in Client, WholeFileDelivered(x)'
      PROVE  NothingLeft(x)'
  BY <1>1, <1>2, <1>3, <1>4
<1> QED BY <1>4 DEF TCP_DeliveredIsWritten, NothingLeft

\* When the server has read a client's whole file, the client has written all of
\* it, and at most the padding of its last structure is still to come.
THEOREM TCP_DeliveredWritten == Spec => []TCP_DeliveredIsWritten
<1>1. TCP_Inductive /\ TCP_DeliveredIsWritten /\ [Next]_vars
        => TCP_DeliveredIsWritten'
  <2> SUFFICES ASSUME TCP_Inductive, TCP_DeliveredIsWritten, [Next]_vars
               PROVE  TCP_DeliveredIsWritten'
    OBVIOUS
  <2>1. TCP_TypeOK /\ SessionPlace /\ Sound
    BY InductiveParts
  <2>2. ASSUME UNCHANGED <<delivered, tcp_client_vars>>
        PROVE  TCP_DeliveredIsWritten'
    BY <2>2 DEF TCP_DeliveredIsWritten, WholeFileDelivered, Beginning, shift,
       tcp_client_vars
  <2>3. ASSUME NEW c \in Client, ClientStep(c) \/ ClientKilled(c)
        PROVE  TCP_DeliveredIsWritten'
    BY <2>1, <2>3, ClientWrites DEF ClientStep, ClientKilled
  <2>4. ASSUME NEW p \in Peer, PeerStep(p)
        PROVE  TCP_DeliveredIsWritten'
    BY <2>2, <2>4 DEF PeerStep, tcp_server_vars
  <2>5. CASE ServerStep \/ ServerInterrupted
    BY <2>1, <2>5, ServerDelivers
  <2>6. CASE UNCHANGED vars
    BY <2>2, <2>6 DEF vars, tcp_server_vars
  <2> QED BY <2>3, <2>4, <2>5, <2>6 DEF Next
<1> QED BY <1>1, WrittenInit, TCP_InductiveInvariant, PTL DEF Spec

-----------------------------------------------------------------------------
(* The answers that wait for a client whose packets are all full.          *)

InSession(c) == c = t_client /\ t_pc \in {"header", "data"}

\* Until the server closes its end, a client finds nothing but the CONACC of its
\* session, and goes on only when it has read it.
AnswersSoFar(c) ==
  c_pc[c] \notin Ended =>
    /\ c \notin gone
    /\ link[c] \in {"none", "open"} =>
         /\ c_pc[c] \in {"connect", "CONN"} => ~ InSession(c) /\ down[c] = <<>>
         /\ c_pc[c] = "wait_CONACC" =>
              down[c] = IF InSession(c) THEN <<Answer("CONACC", SessionId[c])>>
                        ELSE <<>>
         /\ c_pc[c] \in {"DATA", "wait_RCVD"} => InSession(c) /\ down[c] = <<>>

\* A client that waits for RCVD has written all its packets.
FullyWritten(c) ==
  FillsPackets(c) /\ c_pc[c] = "wait_RCVD" =>
    OffsetOf(c_package_id[c]) = occupied_size[c]

\* The conjunct of TCP_RcvdWaits about one client.
RcvdThere(c) ==
  FillsPackets(c) /\ WholeFileDelivered(c) /\ c_pc[c] \notin Ended =>
    LET conacc == Answer("CONACC", SessionId[c])
        rcvd == Answer("RCVD", SessionId[c])
    IN  /\ link[c] = "shut"
        /\ \/ c_pc[c] = "wait_RCVD" /\ down[c] = <<rcvd>>
           \/ c_pc[c] = "wait_CONACC" /\ down[c] = <<conacc, rcvd>>

Awaited(c) == AnswersSoFar(c) /\ FullyWritten(c) /\ RcvdThere(c)

LEMMA FullPieces ==
  ASSUME NEW c \in Client, FillsPackets(c), NEW id \in Nat,
         OffsetOf(id) < occupied_size[c]
  PROVE  BytesIn(c, id) = SEND_BUFF_SIZE
<1>1. PICK k \in Nat : occupied_size[c] = OffsetOf(k)
  BY TCPClientAssumption DEF FillsPackets, OffsetOf
<1>2. ~ k < id /\ k # id
  <2>1. OffsetOf(k) \in Nat /\ OffsetOf(id) \in Nat /\ SEND_BUFF_SIZE \in Nat
    BY Places, TCPClientAssumption
  <2> QED BY <1>1, <2>1, OffsetsApart
<1>3. OffsetOf(id) + SEND_BUFF_SIZE <= occupied_size[c]
  BY <1>1, <1>2, OffsetsApart
<1>4. OffsetOf(id) \in Nat /\ occupied_size[c] \in Nat /\ SEND_BUFF_SIZE \in Nat
  BY Places, TCPClientAssumption
<1> QED BY <1>3, <1>4 DEF BytesIn

LEMMA SameOffset ==
  ASSUME NEW k \in Nat, NEW id \in Nat, OffsetOf(k) = OffsetOf(id)
  PROVE  k = id
<1>1. OffsetOf(k) \in Nat /\ SEND_BUFF_SIZE \in Nat /\ SEND_BUFF_SIZE > 0
  BY Places, TCPClientAssumption
<1>2. ~ k < id
  <2>1. k < id => OffsetOf(k) + SEND_BUFF_SIZE <= OffsetOf(id)
    BY OffsetsApart
  <2> QED BY <1>1, <2>1
<1>3. ~ id < k
  <2>1. id < k => OffsetOf(id) + SEND_BUFF_SIZE <= OffsetOf(k)
    BY OffsetsApart
  <2> QED BY <1>1, <2>1
<1> QED BY <1>2, <1>3

\* Nothing that a client looks at changes.
LEMMA AwaitedStays ==
  ASSUME NEW c \in Client, Awaited(c),
         c_pc'[c] = c_pc[c], c_package_id'[c] = c_package_id[c],
         link'[c] = link[c], c \notin gone => down'[c] = down[c],
         c \in gone' <=> c \in gone, InSession(c)' <=> InSession(c),
         WholeFileDelivered(c)' <=> WholeFileDelivered(c)
  PROVE  Awaited(c)'
<1>1. AnswersSoFar(c)'
  BY DEF Awaited, AnswersSoFar
<1>2. FullyWritten(c)'
  BY DEF Awaited, FullyWritten, FillsPackets, OffsetOf
<1>3. RcvdThere(c)'
  BY DEF Awaited, AnswersSoFar, RcvdThere, FillsPackets
<1> QED BY <1>1, <1>2, <1>3 DEF Awaited

\* The server closes its end, and the client's file is not delivered by that.
LEMMA AwaitedClosed ==
  ASSUME NEW c \in Client, Awaited(c), UNCHANGED tcp_client_vars, gone' = gone,
         link[c] = "open", link'[c] \in {"shut", "reset"},
         WholeFileDelivered(c)' <=> WholeFileDelivered(c)
  PROVE  Awaited(c)'
<1>1. AnswersSoFar(c)'
  BY DEF Awaited, AnswersSoFar, tcp_client_vars
<1>2. FullyWritten(c)'
  BY DEF Awaited, FullyWritten, FillsPackets, OffsetOf, tcp_client_vars
<1>3. RcvdThere(c)'
  BY DEF Awaited, RcvdThere, FillsPackets, tcp_client_vars
<1> QED BY <1>1, <1>2, <1>3 DEF Awaited

LEMMA OneLeft ==
  ASSUME NEW S, NEW s \in Seq(S), Len(s) = 1
  PROVE  Tail(s) = <<>>
<1>1. s # <<>>
  BY EmptySeq
<1>2. Tail(s) \in Seq(S) /\ Len(Tail(s)) = 0
  BY <1>1, HeadTailProperties
<1> QED BY <1>2, EmptySeq

\* The client of a session has its end of the connection, and has written as much
\* as the server has read and will find.
LEMMA ServedClient ==
  ASSUME TCP_TypeOK, Sound, NEW c \in Client, c = t_client, c_pc[c] \notin Ended
  PROVE  /\ link[c] = "open" /\ c \in Party
         /\ up[c] \in Seq(Item) /\ Len(up[c]) \in Nat
         /\ ItemsRead(c) \in Int
         /\ ItemsRead(c) + Len(up[c]) = ItemsWritten(c)
         /\ up[c] # <<>> => Len(up[c]) > 0
<1>1. c \in Party
  BY DEF Party
<1>2. link[c] = "open" /\ OnTheWay(c)
  BY <1>1 DEF Sound, Connections, ClientsSound
<1> QED BY <1>1, <1>2, UpType, ItemsReadType DEF OnTheWay, TCP_TypeOK, Sound

LEMMA CONNAwaited ==
  ASSUME TCP_TypeOK, Sound, NEW c \in Client, Awaited(c), c = t_client,
         c_pc[c] \notin Ended, t_pc = "CONN", up[c] # <<>>
  PROVE  /\ c_pc[c] = "wait_CONACC" /\ down[c] = <<>> /\ c \notin gone
         /\ Tail(up[c]) = <<>>
         /\ Head(up[c]) = CONN(SessionId[c], occupied_size[c])
<1>1. /\ link[c] = "open" /\ ItemsRead(c) = 0 /\ Len(up[c]) > 0
      /\ Len(up[c]) \in Nat /\ Len(up[c]) = ItemsWritten(c)
      /\ up[c] \in Seq(Item)
  BY ServedClient DEF ItemsRead
<1>2. c_pc[c] \notin {"connect", "CONN"}
  BY <1>1 DEF ItemsWritten
<1>3. c_pc[c] \notin {"DATA", "wait_RCVD"}
  BY <1>1 DEF Awaited, AnswersSoFar, InSession
<1>4. c_pc[c] = "wait_CONACC"
  BY <1>2, <1>3 DEF TCP_TypeOK, TypeOKTCPClient, Waiting, Ended
<1>5. down[c] = <<>> /\ c \notin gone
  BY <1>1, <1>4 DEF Awaited, AnswersSoFar, InSession
<1>6. Len(up[c]) = 1
  <2>1. c_package_id[c] = 0 /\ c_written[c] = 0
    BY <1>4 DEF Sound, ClientsSound, ClientPlace
  <2>2. ItemsWritten(c) = StartOf(0) - 1 + 0 /\ StartOf(0) = 2
    BY <1>4, <2>1, Places DEF ItemsWritten
  <2> QED BY <1>1, <2>2
<1>7. IsItem(c, 1, Head(up[c]))
  BY <1>1, NextItem
<1> QED BY <1>1, <1>4, <1>5, <1>6, <1>7, OneLeft, FirstItem

\* The server accepts the client's CONN.
LEMMA AwaitedAccepted ==
  ASSUME TCP_TypeOK, Sound, NEW c \in Client, Awaited(c), NEW item,
         AcceptCONN(c, item), UNCHANGED tcp_client_vars
  PROVE  Awaited(c)'
<1> DEFINE conacc == Answer("CONACC", SessionId[c])
<1>1. /\ t_pc = "CONN" /\ c = t_client /\ up[c] # <<>> /\ item = Head(up[c])
      /\ Answers(c, Tail(up[c]), <<Answer("CONACC", item.sid)>>)
      /\ t_pc' = "header" /\ UNCHANGED <<t_client, delivered>>
  BY DEF AcceptCONN, Reads
<1>2. link' = link /\ gone' = gone /\ c_pc' = c_pc /\ c_package_id' = c_package_id
  BY <1>1 DEF Answers, tcp_client_vars
<1>3. WholeFileDelivered(c)' <=> WholeFileDelivered(c)
  BY <1>1 DEF WholeFileDelivered, Beginning
<1>4. c_pc[c] \notin Ended => c_pc[c] = "wait_CONACC" /\ down'[c] = <<conacc>>
  <2> SUFFICES ASSUME c_pc[c] \notin Ended
               PROVE  c_pc[c] = "wait_CONACC" /\ down'[c] = <<conacc>>
    OBVIOUS
  <2>1. /\ c_pc[c] = "wait_CONACC" /\ down[c] = <<>> /\ c \notin gone
        /\ item = CONN(SessionId[c], occupied_size[c])
    BY <1>1, CONNAwaited
  <2>2. item.sid = SessionId[c]
    BY <2>1 DEF CONN, Fixed
  <2>3. <<>> \o <<conacc>> = <<conacc>>
    OBVIOUS
  <2>4. down'[c] = down[c] \o <<conacc>>
    BY <1>1, <2>1, <2>2 DEF Answers, TCP_TypeOK, TypeOKStreams, Party
  <2> QED BY <2>1, <2>3, <2>4
<1>5. InSession(c)'
  BY <1>1 DEF InSession
<1> HIDE DEF conacc
<1>6. AnswersSoFar(c)'
  BY <1>2, <1>4, <1>5 DEF conacc, Awaited, AnswersSoFar
<1>7. FullyWritten(c)'
  BY <1>2 DEF Awaited, FullyWritten, FillsPackets, OffsetOf
<1>8. c_pc[c] \notin Ended => link[c] = "open"
  BY <1>1, ServedClient
<1>9. RcvdThere(c)'
  BY <1>2, <1>3, <1>8 DEF Awaited, RcvdThere, FillsPackets
<1> QED BY <1>6, <1>7, <1>9 DEF Awaited

\* What the server writes last, when it leaves nothing unread.
LEMMA LastAnswers ==
  ASSUME TCP_TypeOK, NEW c \in Client, c \notin gone, down[c] = <<>>,
         NEW answers \in Seq(Packet), AnswersAndCloses(c, <<>>, answers)
  PROVE  link'[c] = "shut" /\ down'[c] = answers
<1>1. c \in Party /\ <<>> \o answers = answers
  BY DEF Party
<1> QED BY <1>1 DEF AnswersAndCloses, TCP_TypeOK, TypeOKStreams

LEMMA AwaitedEmpty ==
  ASSUME TCP_TypeOK, Sound, NEW c \in Client, Awaited(c), NEW item,
         AcceptEmptyCONN(c, item), UNCHANGED tcp_client_vars
  PROVE  Awaited(c)'
<1> DEFINE both == <<Answer("CONACC", item.sid), Answer("RCVD", item.sid)>>
<1>1. /\ t_pc = "CONN" /\ c = t_client /\ up[c] # <<>> /\ item = Head(up[c])
      /\ AnswersAndCloses(c, Tail(up[c]), both)
  BY DEF AcceptEmptyCONN, Reads
<1>2. /\ link'[c] \in {"shut", "reset"} /\ gone' = gone /\ c_pc' = c_pc
      /\ c_package_id' = c_package_id
  BY <1>1 DEF AnswersAndCloses, tcp_client_vars, TCP_TypeOK, TypeOKStreams, Party
<1>3. AnswersSoFar(c)' /\ FullyWritten(c)'
  BY <1>2 DEF Awaited, AnswersSoFar, FullyWritten, FillsPackets, OffsetOf
<1>4. ASSUME c_pc[c] \notin Ended
      PROVE  /\ c_pc[c] = "wait_CONACC" /\ item.sid = SessionId[c]
             /\ link'[c] = "shut" /\ down'[c] = both
  <2>1. /\ c_pc[c] = "wait_CONACC" /\ down[c] = <<>> /\ c \notin gone
        /\ Tail(up[c]) = <<>>
        /\ item = CONN(SessionId[c], occupied_size[c])
    BY <1>1, <1>4, CONNAwaited
  <2>2. item.sid = SessionId[c] /\ item.sid \in Sid
    BY <2>1, TCPClientAssumption DEF CONN, Fixed
  <2>3. both \in Seq(Packet)
    BY <2>2, AnswerType, TwoAnswers DEF Kind
  <2> HIDE DEF both
  <2>4. link'[c] = "shut" /\ down'[c] = both
    BY <1>1, <2>1, <2>3, LastAnswers
  <2> QED BY <2>1, <2>2, <2>4
<1>5. RcvdThere(c)'
  BY <1>2, <1>4 DEF RcvdThere, FillsPackets
<1> QED BY <1>3, <1>5 DEF Awaited

LEMMA OneMore ==
  ASSUME NEW m \in Nat, NEW s \in Nat, NEW k \in Nat, m + s - 1 + k = m + s
  PROVE  k = 1
OBVIOUS

\* The last declared byte is the last of what a client with full packets writes.
LEMMA LastByteRead ==
  ASSUME TCP_TypeOK, SessionPlace, Sound, NEW c \in Client, Awaited(c), NEW item,
         FinishSession(c, item), FillsPackets(c), c_pc[c] \notin Ended
  PROVE  /\ c_pc[c] = "wait_RCVD" /\ down[c] = <<>> /\ c \notin gone
         /\ Tail(up[c]) = <<>>
<1> DEFINE last == t_packet_id - 1
           n == t_bytes_received - t_rest
           id == c_package_id[c]
<1>1. /\ t_pc = "data" /\ c = t_client /\ up[c] # <<>>
      /\ t_rest = 1 /\ t_bytes_received = t_conn.bytes
  BY DEF FinishSession, Reads
<1>2. /\ last \in Nat /\ n \in Nat
      /\ OffsetOf(last) < occupied_size[c]
      /\ t_bytes_received = OffsetOf(last) + BytesIn(c, last)
      /\ t_conn.bytes = occupied_size[c]
      /\ ItemsRead(c) = StartOf(last) + (n - OffsetOf(last))
  BY <1>1, NextByte
<1>3. n = t_bytes_received - 1
  BY <1>1
<1>4. id \in Nat /\ SEND_BUFF_SIZE \in Nat \ {0} /\ occupied_size[c] \in Nat
  BY TCPClientAssumption DEF TCP_TypeOK, TypeOKTCPClient
<1> HIDE DEF last, n, id
<1>5. BytesIn(c, last) = SEND_BUFF_SIZE
  BY <1>2, FullPieces
<1>6. /\ OffsetOf(last) \in Nat /\ StartOf(last) \in Nat
      /\ OffsetOf(last + 1) = OffsetOf(last) + SEND_BUFF_SIZE
      /\ StartOf(last + 1) = StartOf(last) + SEND_BUFF_SIZE + 1
  BY <1>2, Places
<1>7. /\ link[c] = "open" /\ Len(up[c]) \in Nat /\ Len(up[c]) > 0
      /\ up[c] \in Seq(Item)
      /\ ItemsRead(c) + Len(up[c]) = ItemsWritten(c)
  BY <1>1, ServedClient
<1>8. c_pc[c] = "wait_RCVD"
  <2>1. NothingLeft(c)
    BY LastByteWritten
  <2>2. c_pc[c] # "wait_CONACC"
    BY <1>2, <1>4, <1>6, <2>1 DEF NothingLeft
  <2>3. c_pc[c] # "DATA"
    <3> SUFFICES ASSUME c_pc[c] = "DATA" PROVE FALSE
      OBVIOUS
    <3>1. /\ OffsetOf(id) < occupied_size[c] /\ shift(c) = BytesIn(c, id)
          /\ c_written[c] \in 0 .. SEND_BUFF_SIZE
      BY WritePlace DEF id
    <3>2. shift(c) = SEND_BUFF_SIZE
      BY <1>4, <3>1, FullPieces
    <3> QED BY <1>4, <2>1, <3>1, <3>2 DEF NothingLeft
  <2> QED BY <2>1, <2>2, <2>3 DEF NothingLeft, TCP_TypeOK, TypeOKTCPClient,
             Waiting, Ended
<1>9. down[c] = <<>> /\ c \notin gone
  BY <1>7, <1>8 DEF Awaited, AnswersSoFar
<1>10. id = last + 1
  <2>1. OffsetOf(id) = occupied_size[c]
    BY <1>8 DEF Awaited, FullyWritten, id
  <2>2. OffsetOf(id) = OffsetOf(last + 1)
    BY <1>1, <1>2, <1>5, <1>6, <2>1
  <2>3. last + 1 \in Nat
    BY <1>2
  <2> QED BY <1>4, <2>2, <2>3, SameOffset
<1>11. Len(up[c]) = 1
  <2>1. ItemsWritten(c) = StartOf(id) - 1 + c_written[c]
    BY <1>8 DEF ItemsWritten, id
  <2>2. c_written[c] = 0
    BY <1>8 DEF Sound, ClientsSound, ClientPlace
  <2>3. ItemsWritten(c) = StartOf(last) + SEND_BUFF_SIZE
    BY <1>4, <1>6, <1>10, <2>1, <2>2
  <2>4. ItemsRead(c) = StartOf(last) + SEND_BUFF_SIZE - 1
    BY <1>2, <1>3, <1>4, <1>5, <1>6
  <2>5. StartOf(last) + SEND_BUFF_SIZE - 1 + Len(up[c])
          = StartOf(last) + SEND_BUFF_SIZE
    BY <1>7, <2>3, <2>4
  <2>6. StartOf(last) \in Nat /\ SEND_BUFF_SIZE \in Nat /\ Len(up[c]) \in Nat
    BY <1>4, <1>6, <1>7
  <2> QED BY <2>5, <2>6, OneMore
<1> QED BY <1>7, <1>8, <1>9, <1>11, OneLeft

LEMMA AwaitedFinished ==
  ASSUME TCP_TypeOK, SessionPlace, Sound, NEW c \in Client, Awaited(c), NEW item,
         FinishSession(c, item), UNCHANGED tcp_client_vars
  PROVE  Awaited(c)'
<1> DEFINE one == <<Answer("RCVD", t_conn.sid)>>
<1>1. /\ t_pc = "data" /\ c = t_client /\ up[c] # <<>>
      /\ AnswersAndCloses(c, Tail(up[c]), one)
  BY DEF FinishSession, Reads
<1>2. /\ link'[c] \in {"shut", "reset"} /\ gone' = gone /\ c_pc' = c_pc
      /\ c_package_id' = c_package_id
  BY <1>1 DEF AnswersAndCloses, tcp_client_vars, TCP_TypeOK, TypeOKStreams, Party
<1>3. AnswersSoFar(c)' /\ FullyWritten(c)'
  BY <1>2 DEF Awaited, AnswersSoFar, FullyWritten, FillsPackets, OffsetOf
<1>4. ASSUME FillsPackets(c), c_pc[c] \notin Ended
      PROVE  /\ c_pc[c] = "wait_RCVD" /\ t_conn.sid = SessionId[c]
             /\ link'[c] = "shut" /\ down'[c] = one
  <2>1. /\ c_pc[c] = "wait_RCVD" /\ down[c] = <<>> /\ c \notin gone
        /\ Tail(up[c]) = <<>>
    BY <1>4, LastByteRead
  <2>2. t_conn.sid = SessionId[c] /\ t_conn.sid \in Sid
    BY <1>1, NextByte, TCPClientAssumption
  <2>3. one \in Seq(Packet)
    BY <2>2, AnswerType, OneAnswer DEF Kind
  <2> HIDE DEF one
  <2>4. link'[c] = "shut" /\ down'[c] = one
    BY <1>1, <2>1, <2>3, LastAnswers
  <2> QED BY <2>1, <2>2, <2>4
<1>5. RcvdThere(c)'
  BY <1>2, <1>4 DEF RcvdThere, FillsPackets
<1> QED BY <1>3, <1>5 DEF Awaited


\* The server gets on with another party.
LEMMA AwaitedOfOthers ==
  ASSUME NEW x \in Client, Awaited(x), UNCHANGED tcp_client_vars,
         NEW c, c # x, c = t_client, t_client' = c \/ t_pc' = "accept",
         gone' = gone, link'[x] = link[x], down'[x] = down[x],
         \/ delivered' = delivered
         \/ \E sid, received :
              delivered' = delivered \cup
                {[addr |-> c, sid |-> sid, received |-> received]}
  PROVE  Awaited(x)'
<1>1. WholeFileDelivered(x)' <=> WholeFileDelivered(x)
  <2> DEFINE whole == [addr |-> x, sid |-> SessionId[x],
                       received |-> Beginning(x, occupied_size[x])]
  <2>1. whole.addr = x
    OBVIOUS
  <2>2. \A sid, received :
          [addr |-> c, sid |-> sid, received |-> received].addr = c
    OBVIOUS
  <2>3. \A sid, received :
          whole # [addr |-> c, sid |-> sid, received |-> received]
    BY <2>1, <2>2
  <2>4. whole \in delivered' <=> whole \in delivered
    <3> HIDE DEF whole
    <3> QED BY <2>3
  <2> QED BY <2>4 DEF WholeFileDelivered, Beginning
<1>2. InSession(x)' <=> InSession(x)
  BY DEF InSession
<1> QED BY <1>1, <1>2, AwaitedStays DEF tcp_client_vars

\* The server turns a client down.
LEMMA AwaitedRejected ==
  ASSUME TCP_TypeOK, Sound, NEW c \in Client, Awaited(c), c = t_client,
         NEW rest, NEW answers, AnswersAndCloses(c, rest, answers),
         UNCHANGED <<delivered, tcp_client_vars>>
  PROVE  Awaited(c)'
<1>1. c \in Party /\ link[c] = "open"
  BY DEF Sound, Connections, Party
<1>2. gone' = gone /\ link'[c] \in {"shut", "reset"}
  BY <1>1 DEF AnswersAndCloses, TCP_TypeOK, TypeOKStreams
<1>3. WholeFileDelivered(c)' <=> WholeFileDelivered(c)
  BY DEF WholeFileDelivered, Beginning
<1> QED BY <1>1, <1>2, <1>3, AwaitedClosed

\* The server reads what needs no answer.
LEMMA AwaitedUnanswered ==
  ASSUME TCP_TypeOK, NEW c \in Client, Awaited(c), c = t_client,
         NEW rest, Answers(c, rest, <<>>),
         t_pc \in {"header", "data"}, t_pc' \in {"header", "data"},
         UNCHANGED <<t_client, delivered, tcp_client_vars>>
  PROVE  Awaited(c)'
<1>1. down[c] \in Seq(Packet) /\ c \in Party
  BY DEF TCP_TypeOK, TypeOKStreams, Party
<1>2. down[c] \o <<>> = down[c]
  BY <1>1
<1>3. c \notin gone => down'[c] = down[c]
  BY <1>1, <1>2 DEF Answers, TCP_TypeOK, TypeOKStreams
<1>4. link' = link /\ gone' = gone
  BY DEF Answers
<1>5. InSession(c)' <=> InSession(c)
  BY DEF InSession
<1>6. WholeFileDelivered(c)' <=> WholeFileDelivered(c)
  BY DEF WholeFileDelivered, Beginning
<1> QED BY <1>3, <1>4, <1>5, <1>6, AwaitedStays DEF tcp_client_vars

\* One step for each thing the server may do with what it reads.
LEMMA AwaitedOverReads ==
  ASSUME TCP_TypeOK, SessionPlace, Sound, NEW x \in Client, Awaited(x),
         NEW c \in Party, NEW item, TCP_ServerReads(c, item),
         UNCHANGED tcp_client_vars
  PROVE  Awaited(x)'
<1>1. c = t_client
  BY DEF TCP_ServerReads, AcceptCONN, AcceptEmptyCONN, RefuseCONN,
     TCP_get_DATA_metainfo, RejectHeader, TCP_read_data_to_buf, FinishSession,
     Reads
<1>2. CASE c # x
  <2>1. \/ \E rest, answers : Answers(c, rest, answers)
        \/ \E rest, answers : AnswersAndCloses(c, rest, answers)
    BY DEF TCP_ServerReads, AcceptCONN, AcceptEmptyCONN, RefuseCONN, Reject,
       TCP_get_DATA_metainfo, RejectHeader, TCP_read_data_to_buf, FinishSession
  <2>2. gone' = gone /\ link'[x] = link[x] /\ down'[x] = down[x]
    BY <1>2, <2>1 DEF Answers, AnswersAndCloses, TCP_TypeOK, TypeOKStreams, Party
  <2>3. t_client' = c \/ t_pc' = "accept"
    BY <1>1 DEF TCP_ServerReads, AcceptCONN, AcceptEmptyCONN, RefuseCONN, Reject,
       TCP_get_DATA_metainfo, RejectHeader, TCP_read_data_to_buf, FinishSession,
       NextClient
  <2>4. \/ delivered' = delivered
        \/ \E sid, received :
             delivered' = delivered \cup
               {[addr |-> c, sid |-> sid, received |-> received]}
    BY DEF TCP_ServerReads, AcceptCONN, AcceptEmptyCONN, RefuseCONN, Reject,
       TCP_get_DATA_metainfo, RejectHeader, TCP_read_data_to_buf, FinishSession
  <2> QED BY <1>1, <1>2, <2>2, <2>3, <2>4, AwaitedOfOthers
<1>3. CASE c = x
  <2>1. CASE AcceptCONN(c, item)
    BY <1>3, <2>1, AwaitedAccepted
  <2>2. CASE AcceptEmptyCONN(c, item)
    BY <1>3, <2>2, AwaitedEmpty
  <2>3. CASE RefuseCONN(c, item) \/ RejectHeader(c, item)
    <3>1. \E rest, answers : AnswersAndCloses(c, rest, answers)
      BY <2>3 DEF RefuseCONN, RejectHeader, Reject
    <3>2. delivered' = delivered
      BY <2>3 DEF RefuseCONN, RejectHeader, Reject
    <3> QED BY <1>1, <1>3, <3>1, <3>2, AwaitedRejected
  <2>4. CASE TCP_get_DATA_metainfo(c, item) \/ TCP_read_data_to_buf(c, item)
    <3>1. /\ t_pc \in {"header", "data"} /\ t_pc' \in {"header", "data"}
          /\ Answers(c, Tail(up[c]), <<>>) /\ UNCHANGED <<t_client, delivered>>
      BY <2>4 DEF TCP_get_DATA_metainfo, TCP_read_data_to_buf, Reads
    <3> QED BY <1>1, <1>3, <3>1, AwaitedUnanswered
  <2>5. CASE FinishSession(c, item)
    BY <1>3, <2>5, AwaitedFinished
  <2> QED BY <2>1, <2>2, <2>3, <2>4, <2>5 DEF TCP_ServerReads
<1> QED BY <1>2, <1>3

\* The end of the stream, the timer or a signal ends a session.
LEMMA AwaitedOverFailure ==
  ASSUME TCP_TypeOK, Sound, NEW x \in Client, Awaited(x),
         NEW c \in Party, ReadFails(c), UNCHANGED tcp_client_vars
  PROVE  Awaited(x)'
<1>1. /\ c = t_client /\ t_pc' = "accept" /\ delivered' = delivered
      /\ \E rest, answers : AnswersAndCloses(c, rest, answers)
  BY DEF ReadFails, Reject, NextClient
<1>2. CASE c = x
  BY <1>1, <1>2, AwaitedRejected
<1>3. CASE c # x
  <2>1. gone' = gone /\ link'[x] = link[x] /\ down'[x] = down[x]
    BY <1>1, <1>3 DEF AnswersAndCloses, TCP_TypeOK, TypeOKStreams, Party
  <2> QED BY <1>1, <1>3, <2>1, AwaitedOfOthers
<1> QED BY <1>2, <1>3

\* A step of the server.
LEMMA ServerAwaited ==
  ASSUME TCP_TypeOK, SessionPlace, Sound, NEW x \in Client, Awaited(x),
         ServerStep \/ ServerInterrupted
  PROVE  Awaited(x)'
<1>1. UNCHANGED tcp_client_vars
  BY DEF ServerStep, ServerInterrupted
<1>2. ASSUME delivered' = delivered
      PROVE  WholeFileDelivered(x)' <=> WholeFileDelivered(x)
  BY <1>2 DEF WholeFileDelivered, Beginning
<1>3. ASSUME NEW c \in Party, NEW item, TCP_ServerReads(c, item)
      PROVE  Awaited(x)'
  BY <1>1, <1>3, AwaitedOverReads
<1>4. ASSUME NEW c \in Party,
             EndOfStream(c) \/ TCP_ServerTimeout(c) \/ SigintInSession(c)
      PROVE  Awaited(x)'
  BY <1>1, <1>4, AwaitedOverFailure
     DEF EndOfStream, TCP_ServerTimeout, SigintInSession
<1>5. ASSUME NEW c \in Party, TCP_wait_for_client(c)
      PROVE  Awaited(x)'
  <2>1. /\ t_pc = "accept" /\ t_pc' = "CONN"
        /\ UNCHANGED <<link, down, gone, delivered>>
    BY <1>5 DEF TCP_wait_for_client, Accept
  <2>2. InSession(x)' <=> InSession(x)
    BY <2>1 DEF InSession
  <2> QED BY <1>1, <1>2, <2>1, <2>2, AwaitedStays DEF tcp_client_vars
<1>6. CASE SigintInAccept
  <2>1. /\ t_pc = "accept" /\ t_pc' = "exit" /\ StopListening
        /\ UNCHANGED <<down, gone, delivered>>
    BY <1>6 DEF SigintInAccept, StopListening
  <2>2. x \in Party
    BY DEF Party
  <2>3. CASE \E i \in 1 .. Len(backlog) : backlog[i] = x
    <3>1. link[x] = "open"
      BY <2>3 DEF Sound, Connections
    <3>2. link'[x] = "reset"
      BY <2>1, <2>2, <2>3 DEF StopListening
    <3> QED BY <1>1, <1>2, <2>1, <3>1, <3>2, AwaitedClosed
  <2>4. CASE ~ \E i \in 1 .. Len(backlog) : backlog[i] = x
    <3>1. link'[x] = link[x]
      BY <2>1, <2>2, <2>4 DEF StopListening
    <3>2. InSession(x)' <=> InSession(x)
      BY <2>1 DEF InSession
    <3> QED BY <1>1, <1>2, <2>1, <3>1, <3>2, AwaitedStays DEF tcp_client_vars
  <2> QED BY <2>3, <2>4
<1>7. CASE SigintBetweenCalls
  <2>1. UNCHANGED <<t_pc, t_client, link, down, gone, delivered>>
    BY <1>7 DEF SigintBetweenCalls, stream_vars
  <2>2. InSession(x)' <=> InSession(x)
    BY <2>1 DEF InSession
  <2> QED BY <1>1, <1>2, <2>1, <2>2, AwaitedStays DEF tcp_client_vars
<1> QED BY <1>3, <1>4, <1>5, <1>6, <1>7 DEF ServerStep, ServerInterrupted

\* A client writes what its packets have no room to lack, and then only waits.
LEMMA AwaitedWhileWriting ==
  ASSUME TCP_TypeOK, Sound, NEW c \in Client, Awaited(c),
         TCP_WritePart(c) \/ TCP_WriteLast(c), UNCHANGED tcp_server_vars
  PROVE  Awaited(c)'
<1> DEFINE id == c_package_id[c]
<1>1. /\ id \in Nat /\ c_bytes_sent[c] = OffsetOf(id)
      /\ OffsetOf(id) < occupied_size[c] /\ shift(c) = BytesIn(c, id)
  <2>1. c_pc[c] = "DATA"
    BY DEF TCP_WritePart, TCP_WriteLast
  <2> QED BY <2>1, WritePlace
<1>2. /\ c_pc[c] = "DATA" /\ c_pc'[c] \in {"DATA", "wait_RCVD"}
      /\ down' = down /\ gone' = gone
      /\ \/ link' = link
         \/ link[c] = "shut" /\ link'[c] \in {"shut", "reset"}
  BY DEF TCP_WritePart, TCP_WriteLast, Goto, AfterBytes, Write, TCP_TypeOK,
     TypeOKTCPClient, TypeOKStreams, Party
<1>3. InSession(c)' <=> InSession(c)
  BY DEF InSession, tcp_server_vars
<1>4. AnswersSoFar(c)'
  BY <1>2, <1>3 DEF Awaited, AnswersSoFar, Ended
<1>5. ASSUME FillsPackets(c), c_pc'[c] = "wait_RCVD"
      PROVE  OffsetOf(c_package_id'[c]) = occupied_size[c]
  <2>1. TCP_WriteLast(c)
    BY <1>2, <1>5 DEF TCP_WritePart
  <2>2. c_package_id'[c] = id + 1 /\ OffsetOf(id) + shift(c) = occupied_size[c]
    BY <1>1, <1>5, <2>1 DEF TCP_WriteLast, Goto, AfterBytes, TCP_TypeOK,
       TypeOKTCPClient
  <2>3. shift(c) = SEND_BUFF_SIZE
    BY <1>1, <1>5, FullPieces
  <2> HIDE DEF id
  <2> QED BY <1>1, <2>2, <2>3, Places
<1>6. FullyWritten(c)'
  BY <1>5 DEF FullyWritten, FillsPackets, OffsetOf
<1>7. RcvdThere(c)'
  <2>1. WholeFileDelivered(c)' <=> WholeFileDelivered(c)
    BY DEF WholeFileDelivered, Beginning, tcp_server_vars
  <2>2. ~ (FillsPackets(c) /\ WholeFileDelivered(c))
    BY <1>2 DEF Awaited, RcvdThere, Ended
  <2> QED BY <2>1, <2>2 DEF RcvdThere, FillsPackets
<1> QED BY <1>4, <1>6, <1>7 DEF Awaited

\* A client reads the CONACC of its session.
LEMMA AwaitedOverCONACC ==
  ASSUME TCP_TypeOK, Sound, TCP_DeliveredIsWritten, NEW c \in Client, Awaited(c),
         NEW i \in 1 .. Len(down[c]), check_CONACC(c, down[c][i]),
         UNCHANGED tcp_server_vars
  PROVE  Awaited(c)'
<1> DEFINE conacc == Answer("CONACC", SessionId[c])
           rcvd == Answer("RCVD", SessionId[c])
<1>1. /\ c_pc[c] = "wait_CONACC" /\ c_pc'[c] = AfterBytes(c, 0)
      /\ down[c] # <<>> /\ down'[c] = Tail(down[c])
      /\ link' = link /\ gone' = gone /\ c_package_id' = c_package_id
  BY DEF check_CONACC, Receive, Arrived, Goto, Progress, TCP_TypeOK,
     TypeOKTCPClient, TypeOKStreams, Party
<1>2. c_pc'[c] \in {"DATA", "wait_RCVD"}
  BY <1>1 DEF AfterBytes
<1>3. InSession(c)' <=> InSession(c)
  BY DEF InSession, tcp_server_vars
<1>4. Tail(<<conacc>>) = <<>> /\ Tail(<<conacc, rcvd>>) = <<rcvd>>
  OBVIOUS
<1> HIDE DEF conacc, rcvd
<1>5. link[c] \in {"none", "open"} => InSession(c) /\ down[c] = <<conacc>>
  BY <1>1 DEF Awaited, AnswersSoFar, conacc, Ended
<1>6. AnswersSoFar(c)'
  <2>1. c \notin gone
    BY <1>1 DEF Awaited, AnswersSoFar, Ended
  <2>2. link[c] \in {"none", "open"} => InSession(c) /\ down'[c] = <<>>
    BY <1>1, <1>4, <1>5
  <2> QED BY <1>1, <1>2, <1>3, <2>1, <2>2 DEF AnswersSoFar
<1>7. FullyWritten(c)'
  <2>1. c_package_id'[c] = 0
    BY <1>1 DEF Sound, ClientsSound, ClientPlace
  <2>2. c_pc'[c] = "wait_RCVD" => occupied_size[c] = 0
    BY <1>1 DEF AfterBytes
  <2>3. OffsetOf(0) = 0
    BY Places
  <2> QED BY <2>1, <2>2, <2>3 DEF FullyWritten, FillsPackets, OffsetOf
<1>8. ASSUME FillsPackets(c), WholeFileDelivered(c)
      PROVE  link'[c] = "shut" /\ c_pc'[c] = "wait_RCVD" /\ down'[c] = <<rcvd>>
  <2>1. link[c] = "shut" /\ down[c] = <<conacc, rcvd>>
    BY <1>1, <1>8 DEF Awaited, RcvdThere, conacc, rcvd, Ended
  <2>2. occupied_size[c] = 0
    BY <1>1, <1>8 DEF TCP_DeliveredIsWritten
  <2> QED BY <1>1, <1>4, <2>1, <2>2 DEF AfterBytes
<1>9. RcvdThere(c)'
  <2>1. WholeFileDelivered(c)' <=> WholeFileDelivered(c)
    BY DEF WholeFileDelivered, Beginning, tcp_server_vars
  <2> QED BY <1>8, <2>1 DEF RcvdThere, FillsPackets, rcvd
<1> QED BY <1>6, <1>7, <1>9 DEF Awaited

\* A step of a client, which another client does not notice.
LEMMA ClientAwaited ==
  ASSUME TCP_TypeOK, Sound, TCP_DeliveredIsWritten, NEW x \in Client, Awaited(x),
         NEW c \in Client, TCP_ClientStep(c) \/ Killed(c),
         UNCHANGED tcp_server_vars
  PROVE  Awaited(x)'
<1>1. InSession(x)' <=> InSession(x)
  BY DEF InSession, tcp_server_vars
<1>2. WholeFileDelivered(x)' <=> WholeFileDelivered(x)
  BY DEF WholeFileDelivered, Beginning, tcp_server_vars
<1>3. CASE x # c
  <2>1. /\ c_pc'[x] = c_pc[x] /\ c_package_id'[x] = c_package_id[x]
        /\ link'[x] = link[x] /\ down'[x] = down[x]
        /\ x \in gone' <=> x \in gone
    <3>1. CASE TCP_Connect(c)
      BY <1>3, <3>1 DEF TCP_Connect, Connect, Goto, Progress, TCP_TypeOK,
         TypeOKTCPClient, TypeOKStreams, Party
    <3>2. CASE TCP_client_send_CONN(c)
      BY <1>3, <3>2 DEF TCP_client_send_CONN, Write, Goto, Progress, TCP_TypeOK,
         TypeOKTCPClient, TypeOKStreams, Party
    <3>3. CASE TCP_WritePart(c) \/ TCP_WriteLast(c)
      BY <1>3, <3>3 DEF TCP_WritePart, TCP_WriteLast, Write, Goto, TCP_TypeOK,
         TypeOKTCPClient, TypeOKStreams, Party
    <3>4. ASSUME NEW i \in 1 .. Len(down[c]), check_CONACC(c, down[c][i])
          PROVE  <2>1!:
      BY <1>3, <3>4 DEF check_CONACC, Receive, Goto, Progress, TCP_TypeOK,
         TypeOKTCPClient, TypeOKStreams, Party
    <3>5. CASE Leaves(c)
      BY <1>3, <3>5 DEF Leaves, Leave, PartyCloses, Goto, Progress, TCP_TypeOK,
         TypeOKTCPClient, TypeOKStreams, Party
    <3> QED BY <3>1, <3>2, <3>3, <3>4, <3>5, ClientStepCases
  <2> QED BY <1>1, <1>2, <2>1, AwaitedStays
<1>4. CASE x = c
  <2>1. CASE TCP_WritePart(c) \/ TCP_WriteLast(c)
    BY <1>4, <2>1, AwaitedWhileWriting
  <2>2. ASSUME NEW i \in 1 .. Len(down[c]), check_CONACC(c, down[c][i])
        PROVE  Awaited(x)'
    BY <1>4, <2>2, AwaitedOverCONACC
  <2>3. CASE Leaves(c)
    <3>1. c_pc'[c] \in Ended
      BY <2>3 DEF Leaves, Leave, Goto, TCP_TypeOK, TypeOKTCPClient
    <3> QED BY <1>4, <3>1 DEF Awaited, AnswersSoFar, FullyWritten, RcvdThere,
               Ended
  <2>4. CASE TCP_Connect(c) \/ TCP_client_send_CONN(c)
    <3>1. /\ c_pc[c] \in {"connect", "CONN"}
          /\ c_pc'[c] \in {"CONN", "wait_CONACC"}
          /\ c_pc'[c] = "CONN" => link[c] = "none"
          /\ c_pc'[c] = "wait_CONACC" =>
               link[c] = "open" \/ link'[c] \in {"shut", "reset"}
          /\ down' = down /\ gone' = gone
      BY <2>4 DEF TCP_Connect, Connect, TCP_client_send_CONN, Write, Goto,
         TCP_TypeOK, TypeOKTCPClient, TypeOKStreams, Party
    <3>2. AnswersSoFar(x)'
      BY <1>1, <1>4, <3>1 DEF Awaited, AnswersSoFar, Ended
    <3>3. FullyWritten(x)'
      BY <1>4, <3>1 DEF FullyWritten
    <3>4. ~ (FillsPackets(c) /\ WholeFileDelivered(c))
      BY <1>4, <3>1 DEF Awaited, RcvdThere, Ended
    <3>5. RcvdThere(x)'
      BY <1>2, <1>4, <3>4 DEF RcvdThere, FillsPackets
    <3> QED BY <3>2, <3>3, <3>5 DEF Awaited
  <2> QED BY <2>1, <2>2, <2>3, <2>4, ClientStepCases
<1> QED BY <1>3, <1>4

LEMMA AwaitedInit ==
  ASSUME Init
  PROVE  \A c \in Client : Awaited(c)
<1> SUFFICES ASSUME NEW c \in Client PROVE Awaited(c)
  BY Zenon
<1>1. /\ c_pc[c] = IF c \in gone THEN "failed" ELSE "connect"
      /\ down[c] = <<>> /\ delivered = {} /\ t_pc = "accept"
  BY DEF Init, InitTCPClient, InitStreams, InitTCPServer, Party
<1> QED BY <1>1 DEF Awaited, AnswersSoFar, FullyWritten, RcvdThere, InSession,
           WholeFileDelivered, Ended

LEMMA AwaitedStep ==
  ASSUME TCP_TypeOK, SessionPlace, Sound, TCP_DeliveredIsWritten, [Next]_vars,
         NEW x \in Client, Awaited(x)
  PROVE  Awaited(x)'
<1>1. ASSUME NEW c \in Client, ClientStep(c) \/ ClientKilled(c)
      PROVE  Awaited(x)'
  BY <1>1, ClientAwaited DEF ClientStep, ClientKilled
<1>2. ASSUME UNCHANGED <<tcp_server_vars, tcp_client_vars>>,
             link'[x] = link[x], down'[x] = down[x], x \in gone' <=> x \in gone
      PROVE  Awaited(x)'
  <2>1. InSession(x)' <=> InSession(x)
    BY <1>2 DEF InSession, tcp_server_vars
  <2>2. WholeFileDelivered(x)' <=> WholeFileDelivered(x)
    BY <1>2 DEF WholeFileDelivered, Beginning, tcp_server_vars
  <2> QED BY <1>2, <2>1, <2>2, AwaitedStays DEF tcp_client_vars
<1>3. ASSUME NEW p \in Peer, PeerStep(p)
      PROVE  Awaited(x)'
  <2>1. x # p
    BY StreamAssumption
  <2>2. link'[x] = link[x] /\ down'[x] = down[x] /\ (x \in gone' <=> x \in gone)
    BY <1>3, <2>1 DEF PeerStep, PeerLeaves, Connect, PartyCloses, TCP_TypeOK,
       TypeOKStreams, Party
  <2> QED BY <1>2, <1>3, <2>2 DEF PeerStep
<1>4. CASE ServerStep \/ ServerInterrupted
  BY <1>4, ServerAwaited
<1>5. CASE UNCHANGED vars
  BY <1>2, <1>5 DEF vars, stream_vars
<1> QED BY <1>1, <1>3, <1>4, <1>5 DEF Next

\* When the server has read a file whose packets are all full, the connection of a
\* client that still runs is shut without a reset, and the RCVD is the next packet
\* on it, or the one after the CONACC (the end of TCP_server_handler): such a
\* client has nothing left to write and cannot fail in writing.
THEOREM TCP_RcvdWaiting == Spec => []TCP_RcvdWaits
<1> DEFINE AllAwaited == \A c \in Client : Awaited(c)
<1>1. Init => AllAwaited
  BY AwaitedInit, Zenon
<1>2. TCP_Inductive /\ TCP_DeliveredIsWritten /\ AllAwaited /\ [Next]_vars
        => AllAwaited'
  BY InductiveParts, AwaitedStep
<1>3. AllAwaited => TCP_RcvdWaits
  BY DEF Awaited, RcvdThere, TCP_RcvdWaits
<1> HIDE DEF AllAwaited
<1> QED BY <1>1, <1>2, <1>3, TCP_InductiveInvariant, TCP_DeliveredWritten, PTL
           DEF Spec

-----------------------------------------------------------------------------
(* No client and no session goes round in circles.                         *)

\* What the structures of a file's n bytes have items for, at the least.
LEMMA PaidByBytes ==
  ASSUME NEW n \in Nat, NEW m \in 0 .. n, NEW k \in Nat
  PROVE  /\ m * k \in Nat /\ m * k <= n * k
         /\ m < n => m * k + k <= n * k
<1>1. m * k \in Nat
  OBVIOUS
<1>2. PICK d \in Nat : n = m + d
  <2>1. n - m \in Nat /\ n = m + (n - m)
    OBVIOUS
  <2> QED BY <2>1
<1>3. n * k = m * k + d * k /\ d * k \in Nat
  BY <1>2
<1>4. ASSUME m < n
      PROVE  k <= d * k
  <2>1. d - 1 \in Nat
    BY <1>2, <1>4
  <2>2. (d - 1) * k \in Nat /\ (d - 1) * k = d * k - k
    BY <2>1
  <2> QED BY <1>3, <2>2
<1> QED BY <1>1, <1>3, <1>4

\* Each piece that is left has at least one byte, and pays for its structure.
LEMMA ItemsLeftType ==
  ASSUME TCP_TypeOK, SessionPlace, Sound, NEW c \in Client, c_pc[c] \notin Ended
  PROVE  ItemsLeft(c) \in Nat
<1> DEFINE left == occupied_size[c] - c_bytes_sent[c]
           room == SEND_BUFF_SIZE + 1
<1>1. /\ occupied_size[c] \in Nat /\ c_bytes_sent[c] \in Nat
      /\ c_bytes_sent[c] <= occupied_size[c]
      /\ c_written[c] \in 0 .. SEND_BUFF_SIZE /\ SEND_BUFF_SIZE \in Nat
      /\ c_pc[c] \in {"connect", "CONN", "DATA"} \cup Waiting
  BY TCPClientAssumption DEF TCP_TypeOK, TypeOKTCPClient
<1>2. left \in Nat /\ room \in Nat /\ c_written[c] < room /\ c_written[c] \in Nat
  BY <1>1
<1>3. ItemsLeft(c) = left * room - c_written[c]
  BY DEF ItemsLeft
<1>4. c_written[c] = 0 \/ 0 < left
  BY <1>1 DEF Sound, ClientsSound, ClientPlace, Waiting
<1> HIDE DEF left, room
<1>5. 0 \in 0 .. left /\ 0 * room = 0
  BY <1>2
<1>6. left * room \in Nat /\ (0 < left => 0 * room + room <= left * room)
  <2>1. left * room \in Nat
    BY <1>2
  <2> QED BY <1>2, <1>5, <2>1, PaidByBytes
<1> QED BY <1>2, <1>3, <1>4, <1>5, <1>6

LEMMA CallsLeftType ==
  ASSUME TCP_TypeOK, NEW c \in Client
  PROVE  TCP_CallsLeft[c_pc[c]] \in Nat
BY DEF TCP_TypeOK, TypeOKTCPClient, TCP_CallsLeft, Waiting, Ended

\* Writing the last item of a structure is paid for by the bytes of its piece.
LEMMA WriteLastDescends ==
  ASSUME TCP_TypeOK, SessionPlace, Sound, NEW c \in Client, TCP_WriteLast(c)
  PROVE  /\ ItemsLeft(c)' \in Nat /\ ItemsLeft(c)' < ItemsLeft(c)
         /\ c_pc[c] = "DATA" /\ c_pc'[c] \in {"DATA", "wait_RCVD"}
<1> DEFINE left == occupied_size[c] - c_bytes_sent[c]
           rest == occupied_size[c] - (c_bytes_sent[c] + shift(c))
           room == SEND_BUFF_SIZE + 1
<1>1. /\ occupied_size[c] \in Nat /\ c_bytes_sent[c] \in Nat
      /\ c_bytes_sent \in [Client -> Nat]
      /\ c_written \in [Client -> 0 .. SEND_BUFF_SIZE]
      /\ c_pc \in [Client -> {"connect", "CONN", "DATA"} \cup Waiting \cup Ended]
      /\ SEND_BUFF_SIZE \in Nat \ {0}
  BY TCPClientAssumption DEF TCP_TypeOK, TypeOKTCPClient
<1>2. /\ c_pc[c] = "DATA" /\ c_written[c] = SEND_BUFF_SIZE /\ c_written'[c] = 0
      /\ c_bytes_sent'[c] = c_bytes_sent[c] + shift(c)
      /\ c_pc'[c] = AfterBytes(c, c_bytes_sent[c] + shift(c))
  BY <1>1 DEF TCP_WriteLast, Goto
<1>3. shift(c) \in 0 .. SEND_BUFF_SIZE
      /\ c_bytes_sent[c] + shift(c) <= occupied_size[c]
  BY ShiftFacts DEF TCP_TypeOK
<1>4. c_bytes_sent[c] < occupied_size[c]
  BY <1>2 DEF Sound, ClientsSound, ClientPlace
<1>5. shift(c) > 0
  BY <1>1, <1>4 DEF shift
<1>6. left \in Nat /\ rest \in 0 .. left /\ rest < left /\ room \in Nat
      /\ room = SEND_BUFF_SIZE + 1
  BY <1>1, <1>3, <1>4, <1>5
<1>7. ItemsLeft(c) = left * room - SEND_BUFF_SIZE
  BY <1>2 DEF ItemsLeft
<1>8. ItemsLeft(c)' = rest * room - 0
  BY <1>2 DEF ItemsLeft
<1> HIDE DEF left, rest, room
<1>9. rest * room \in Nat /\ rest * room + room <= left * room
  BY <1>6, PaidByBytes
<1>10. left * room \in Nat
  BY <1>6
<1>11. ItemsLeft(c)' \in Nat /\ ItemsLeft(c)' < ItemsLeft(c)
  BY <1>1, <1>6, <1>7, <1>8, <1>9, <1>10
<1> QED BY <1>2, <1>11 DEF AfterBytes

\* Each step of a client uses up some of what it can still do.
LEMMA ClientDescends ==
  ASSUME TCP_TypeOK, SessionPlace, Sound, NEW c \in Client,
         TCP_ClientStep(c) \/ Killed(c)
  PROVE  TCP_Remaining(c)' \in 0 .. TCP_Remaining(c) - 1
<1>t. /\ c_pc \in [Client -> {"connect", "CONN", "DATA"} \cup Waiting \cup Ended]
      /\ c_written \in [Client -> 0 .. SEND_BUFF_SIZE]
      /\ occupied_size[c] \in Nat /\ SEND_BUFF_SIZE \in Nat
  BY TCPClientAssumption DEF TCP_TypeOK, TypeOKTCPClient
<1>1. ASSUME c_pc[c] \notin Ended,
             TCP_CallsLeft[c_pc'[c]] \in Nat,
             TCP_CallsLeft[c_pc'[c]] <= TCP_CallsLeft[c_pc[c]],
             ItemsLeft(c)' \in Nat, ItemsLeft(c)' <= ItemsLeft(c),
             \/ TCP_CallsLeft[c_pc'[c]] < TCP_CallsLeft[c_pc[c]]
             \/ ItemsLeft(c)' < ItemsLeft(c)
      PROVE  TCP_Remaining(c)' \in 0 .. TCP_Remaining(c) - 1
  <2>1. ItemsLeft(c) \in Nat /\ TCP_CallsLeft[c_pc[c]] \in Nat
    BY <1>1, ItemsLeftType, CallsLeftType
  <2>2. TCP_Remaining(c)' = TCP_CallsLeft[c_pc'[c]] + ItemsLeft(c)'
    BY DEF TCP_Remaining, TCP_CallsLeft
  <2>3. TCP_Remaining(c) = TCP_CallsLeft[c_pc[c]] + ItemsLeft(c)
    BY DEF TCP_Remaining
  <2> QED BY <1>1, <2>1, <2>2, <2>3
<1>2. ASSUME c_pc[c] \notin Ended, UNCHANGED <<c_bytes_sent, c_written>>,
             TCP_CallsLeft[c_pc'[c]] \in Nat,
             TCP_CallsLeft[c_pc'[c]] < TCP_CallsLeft[c_pc[c]]
      PROVE  TCP_Remaining(c)' \in 0 .. TCP_Remaining(c) - 1
  <2>1. ItemsLeft(c)' = ItemsLeft(c)
    BY <1>2 DEF ItemsLeft
  <2>2. ItemsLeft(c) \in Nat /\ TCP_CallsLeft[c_pc[c]] \in Nat
    BY <1>2, ItemsLeftType, CallsLeftType
  <2>3. TCP_CallsLeft[c_pc'[c]] <= TCP_CallsLeft[c_pc[c]]
    BY <1>2, <2>2
  <2>4. ItemsLeft(c)' \in Nat /\ ItemsLeft(c)' <= ItemsLeft(c)
    BY <2>1, <2>2
  <2> QED BY <1>1, <1>2, <2>3, <2>4
<1>3. CASE TCP_WritePart(c)
  <2>1. /\ c_pc[c] = "DATA" /\ c_pc' = c_pc /\ c_bytes_sent' = c_bytes_sent
        /\ c_written'[c] = c_written[c] + 1 /\ c_written[c] < SEND_BUFF_SIZE
    BY <1>t, <1>3 DEF TCP_WritePart
  <2> DEFINE all == (occupied_size[c] - c_bytes_sent[c]) * (SEND_BUFF_SIZE + 1)
  <2>2. ItemsLeft(c) = all - c_written[c] /\ ItemsLeft(c)' = all - c_written'[c]
    BY <2>1 DEF ItemsLeft
  <2>3. all \in Nat /\ SEND_BUFF_SIZE < all
    <3> DEFINE left == occupied_size[c] - c_bytes_sent[c]
               room == SEND_BUFF_SIZE + 1
    <3>1. left \in Nat /\ 0 < left /\ room \in Nat /\ SEND_BUFF_SIZE < room
      BY <1>t, <2>1 DEF Sound, ClientsSound, ClientPlace, TCP_TypeOK, TypeOKTCPClient
    <3>2. all = left * room
      OBVIOUS
    <3> HIDE DEF left, room, all
    <3>3. 0 \in 0 .. left /\ 0 * room = 0 /\ left * room \in Nat
      BY <3>1
    <3>4. 0 * room + room <= left * room
      BY <3>1, <3>3, PaidByBytes
    <3> QED BY <1>t, <3>1, <3>2, <3>3, <3>4
  <2> HIDE DEF all
  <2>4. c_written[c] \in 0 .. SEND_BUFF_SIZE
    BY <1>t
  <2>5. /\ ItemsLeft(c)' \in Nat /\ ItemsLeft(c)' <= ItemsLeft(c)
        /\ ItemsLeft(c)' < ItemsLeft(c)
    BY <1>t, <2>1, <2>2, <2>3, <2>4
  <2>6. TCP_CallsLeft[c_pc'[c]] = 2 /\ TCP_CallsLeft[c_pc[c]] = 2
    BY <2>1 DEF TCP_CallsLeft
  <2>7. c_pc[c] \notin Ended
    BY <2>1 DEF Ended
  <2> QED BY <1>1, <2>5, <2>6, <2>7
<1>4. CASE TCP_WriteLast(c)
  <2>1. /\ ItemsLeft(c)' \in Nat /\ ItemsLeft(c)' < ItemsLeft(c)
        /\ c_pc[c] = "DATA" /\ c_pc'[c] \in {"DATA", "wait_RCVD"}
    BY <1>4, WriteLastDescends
  <2>2. c_pc[c] \notin Ended
    BY <2>1 DEF Ended
  <2>3. TCP_CallsLeft[c_pc'[c]] \in 1 .. 2 /\ TCP_CallsLeft[c_pc[c]] = 2
    BY <2>1 DEF TCP_CallsLeft
  <2>4. ItemsLeft(c) \in Nat
    BY <2>2, ItemsLeftType
  <2>5. ItemsLeft(c)' <= ItemsLeft(c)
    BY <2>1, <2>4
  <2> QED BY <1>1, <2>1, <2>2, <2>3, <2>5
<1>5. ASSUME NEW i \in 1 .. Len(down[c]), check_CONACC(c, down[c][i])
      PROVE  TCP_Remaining(c)' \in 0 .. TCP_Remaining(c) - 1
  <2>1. /\ c_pc[c] = "wait_CONACC" /\ c_pc'[c] \in {"DATA", "wait_RCVD"}
        /\ UNCHANGED <<c_bytes_sent, c_written>>
    BY <1>t, <1>5 DEF check_CONACC, Goto, Progress, AfterBytes
  <2>2. TCP_CallsLeft[c_pc'[c]] \in 1 .. 2 /\ TCP_CallsLeft[c_pc[c]] = 3
    BY <2>1 DEF TCP_CallsLeft
  <2>3. c_pc[c] \notin Ended
    BY <2>1 DEF Ended
  <2> QED BY <1>2, <2>1, <2>2, <2>3
<1>6. CASE Leaves(c)
  <2>1. /\ c_pc[c] \notin Ended /\ c_pc'[c] \in Ended
        /\ UNCHANGED <<c_bytes_sent, c_written>>
    BY <1>t, <1>6 DEF Leaves, Leave, Goto, Progress
  <2>2. TCP_CallsLeft[c_pc'[c]] = 0
    BY <2>1 DEF TCP_CallsLeft, Ended
  <2>3. TCP_CallsLeft[c_pc[c]] > 0
    BY <1>t, <2>1 DEF TCP_CallsLeft, Ended, Waiting
  <2> QED BY <1>2, <2>1, <2>2, <2>3
<1>7. CASE TCP_Connect(c) \/ TCP_client_send_CONN(c)
  <2>1. /\ \/ c_pc[c] = "connect" /\ c_pc'[c] = "CONN"
           \/ c_pc[c] = "CONN" /\ c_pc'[c] = "wait_CONACC"
        /\ UNCHANGED <<c_bytes_sent, c_written>>
    BY <1>t, <1>7 DEF TCP_Connect, TCP_client_send_CONN, Goto, Progress
  <2>2. /\ TCP_CallsLeft[c_pc'[c]] \in Nat
        /\ TCP_CallsLeft[c_pc'[c]] < TCP_CallsLeft[c_pc[c]]
    BY <2>1 DEF TCP_CallsLeft
  <2>3. c_pc[c] \notin Ended
    BY <2>1 DEF Ended
  <2> QED BY <1>2, <2>1, <2>2, <2>3
<1> QED BY <1>3, <1>4, <1>5, <1>6, <1>7, ClientStepCases

\* Whatever the server and the network do, a client makes no more calls than its
\* file pays for: it cannot write or wait in circles.
THEOREM TCP_ClientsDescendAlways == Spec => TCP_ClientsDescend
<1>1. TCP_Inductive /\ [Next]_vars =>
        [\A c \in Client : TCP_ClientChanges(c) =>
           TCP_Remaining(c)' \in 0 .. TCP_Remaining(c) - 1]_vars
  <2> SUFFICES ASSUME TCP_Inductive, Next, NEW c \in Client, TCP_ClientChanges(c)
               PROVE  TCP_Remaining(c)' \in 0 .. TCP_Remaining(c) - 1
    OBVIOUS
  <2>1. TCP_TypeOK /\ SessionPlace /\ Sound
    BY InductiveParts
  <2>2. ~ UNCHANGED tcp_client_vars
    BY DEF TCP_ClientChanges, tcp_client_vars
  <2>3. PICK x \in Client : TCP_ClientStep(x) \/ Killed(x)
    BY <2>2 DEF Next, ClientStep, ClientKilled, PeerStep, ServerStep,
       ServerInterrupted
  <2>4. x = c
    <3> SUFFICES ASSUME x # c PROVE FALSE
      OBVIOUS
    <3>1. /\ c_pc'[c] = c_pc[c] /\ c_package_id'[c] = c_package_id[c]
          /\ c_bytes_sent'[c] = c_bytes_sent[c] /\ c_written'[c] = c_written[c]
      BY <2>1, <2>3, ClientStepCases DEF Leaves, Leave, Goto, Progress, TCP_Connect,
         TCP_client_send_CONN, TCP_WritePart, TCP_WriteLast, check_CONACC,
         TCP_TypeOK, TypeOKTCPClient
    <3> QED BY <3>1 DEF TCP_ClientChanges
  <2> QED BY <2>1, <2>3, <2>4, ClientDescends
<1> QED BY <1>1, TCP_InductiveInvariant, PTL DEF Spec, TCP_ClientsDescend

\* In a session the server's step reads a header, or a byte, or ends the session.
LEMMA SessionStepCases ==
  ASSUME ServerStep \/ ServerInterrupted, t_pc \in {"header", "data"},
         t_pc' \in {"header", "data"},
         ~ UNCHANGED <<t_pc, session_vars>>
  PROVE  \E item : \/ TCP_get_DATA_metainfo(t_client, item)
                   \/ TCP_read_data_to_buf(t_client, item)
<1>1. ~ NextClient
  BY DEF NextClient
<1>2. ASSUME NEW c, ReadFails(c) PROVE FALSE
  BY <1>1, <1>2 DEF ReadFails, Reject
<1>3. ASSUME NEW c, NEW item, TCP_ServerReads(c, item)
      PROVE  \/ TCP_get_DATA_metainfo(t_client, item)
             \/ TCP_read_data_to_buf(t_client, item)
  <2>1. c = t_client
    BY <1>3 DEF TCP_ServerReads, AcceptCONN, AcceptEmptyCONN, RefuseCONN,
       TCP_get_DATA_metainfo, RejectHeader, TCP_read_data_to_buf, FinishSession,
       Reads
  <2> QED BY <1>1, <1>3, <2>1 DEF TCP_ServerReads, AcceptCONN, AcceptEmptyCONN,
             RefuseCONN, RejectHeader, Reject, FinishSession, Reads
<1> QED BY <1>2, <1>3 DEF ServerStep, ServerInterrupted, TCP_wait_for_client,
           EndOfStream, TCP_ServerTimeout, SigintInSession, SigintInAccept,
           SigintBetweenCalls, session_vars

\* What is left of a session with a client only becomes less, and a header that
\* is read announces some of it.
THEOREM TCP_SessionDescendsAlways == Spec => TCP_SessionDescends
<1>1. TCP_Inductive /\ [Next]_vars =>
        [/\ t_pc \in {"header", "data"} /\ t_pc' \in {"header", "data"}
         /\ t_client \in Client
         /\ <<t_pc, session_vars>>' # <<t_pc, session_vars>>
         => TCP_SessionRemaining' \in 0 .. TCP_SessionRemaining - 1]_vars
  <2> SUFFICES ASSUME TCP_Inductive, Next,
                      t_pc \in {"header", "data"}, t_pc' \in {"header", "data"},
                      t_client \in Client,
                      ~ UNCHANGED <<t_pc, session_vars>>
               PROVE  TCP_SessionRemaining' \in 0 .. TCP_SessionRemaining - 1
    OBVIOUS
  <2>1. TCP_TypeOK /\ SessionPlace /\ Sound
    BY InductiveParts
  <2>2. ServerStep \/ ServerInterrupted
    BY DEF Next, ClientStep, ClientKilled, PeerStep, tcp_server_vars, session_vars
  <2>3. PICK item : \/ TCP_get_DATA_metainfo(t_client, item)
                    \/ TCP_read_data_to_buf(t_client, item)
    BY <2>2, SessionStepCases
  <2> DEFINE left == t_conn.bytes - (t_bytes_received - t_rest)
             next_left == t_conn'.bytes - (t_bytes_received' - t_rest')
  <2>4. /\ TCP_SessionRemaining = 2 * left + (IF t_pc = "header" THEN 1 ELSE 0)
        /\ TCP_SessionRemaining' =
             2 * next_left + (IF t_pc' = "header" THEN 1 ELSE 0)
    BY DEF TCP_SessionRemaining
  <2>5. /\ t_bytes_received \in Nat /\ t_rest \in Nat /\ t_conn.bytes \in Nat
        /\ t_rest <= t_bytes_received /\ t_bytes_received <= t_conn.bytes
    BY <2>1 DEF TCP_TypeOK, TypeOKTCPServer, SessionPlace
  <2>6. CASE TCP_get_DATA_metainfo(t_client, item)
    <3>1. /\ t_pc = "header" /\ up[t_client] # <<>> /\ item = Head(up[t_client])
          /\ t_bytes_received' = t_bytes_received + item.bytes
          /\ t_rest' = item.bytes /\ t_conn' = t_conn
          /\ t_pc' = IF item.bytes = 0 THEN "header" ELSE "data"
      BY <2>6 DEF TCP_get_DATA_metainfo, Reads
    <3>2. /\ item.bytes \in 1 .. SEND_BUFF_SIZE /\ t_rest = 0
          /\ SEND_BUFF_SIZE \in Nat
      BY <2>1, <3>1, NextHeader, TCPClientAssumption
    <3>3. next_left = left /\ left \in Nat
      <4>1. item.bytes \in Int
        BY <3>2
      <4>2. t_bytes_received' - t_rest' = t_bytes_received - t_rest
        BY <2>5, <3>1, <3>2, <4>1
      <4>3. next_left = left
        BY <3>1, <4>2
      <4> QED BY <2>5, <4>3
    <3>4. t_pc' = "data"
      BY <3>1, <3>2
    <3> HIDE DEF left, next_left
    <3>5. TCP_SessionRemaining = 2 * left + 1 /\ TCP_SessionRemaining' = 2 * left
      BY <2>4, <3>1, <3>3, <3>4
    <3> QED BY <3>3, <3>5
  <2>7. CASE TCP_read_data_to_buf(t_client, item)
    <3>1. /\ t_pc = "data" /\ t_bytes_received' = t_bytes_received
          /\ t_rest' = t_rest - 1 /\ t_conn' = t_conn
          /\ t_pc' \in {"header", "data"}
      BY <2>7 DEF TCP_read_data_to_buf, Reads
    <3>2. 0 < t_rest
      BY <2>1, <3>1 DEF SessionPlace
    <3>3. left \in Nat /\ next_left = left - 1 /\ next_left \in Nat
      BY <2>5, <3>1, <3>2
    <3> HIDE DEF left, next_left
    <3>4. /\ TCP_SessionRemaining = 2 * left
          /\ TCP_SessionRemaining' \in {2 * next_left, 2 * next_left + 1}
      BY <2>4, <3>1, <3>3
    <3> QED BY <3>3, <3>4
  <2> QED BY <2>3, <2>6, <2>7
<1> QED BY <1>1, TCP_InductiveInvariant, PTL DEF Spec, TCP_SessionDescends

-----------------------------------------------------------------------------
(* No connection is left behind.                                           *)

Queued(x) == \E i \in 1 .. Len(backlog) : backlog[i] = x

\* What keeps the server's client and the queue, and opens nothing, keeps nothing
\* open in vain.
LEMMA NothingOpened ==
  ASSUME TCP_NoConnectionKept, UNCHANGED <<t_client, backlog>>,
         \A x \in Party : link'[x] = "open" => link[x] = "open"
  PROVE  TCP_NoConnectionKept'
BY DEF TCP_NoConnectionKept

\* The server closes its end of the connection before it forgets the client.
LEMMA ClosedKept ==
  ASSUME TCP_TypeOK, TCP_NoConnectionKept, NEW rest, NEW answers,
         AnswersAndCloses(t_client, rest, answers), t_client \in Party
  PROVE  TCP_NoConnectionKept'
<1>1. /\ backlog' = backlog
      /\ \/ link' = [link EXCEPT ![t_client] = "shut"]
         \/ link' = [link EXCEPT ![t_client] = "reset"]
  BY DEF AnswersAndCloses
<1>2. \A x \in Party : link'[x] = "open" => link[x] = "open" /\ x # t_client
  BY <1>1 DEF TCP_TypeOK, TypeOKStreams
<1> QED BY <1>1, <1>2 DEF TCP_NoConnectionKept

LEMMA WaitForClientKept ==
  ASSUME TCP_TypeOK, TCP_NoConnectionKept, NEW c \in Party,
         TCP_wait_for_client(c)
  PROVE  TCP_NoConnectionKept'
<1>1. /\ t_pc = "accept" /\ t_client' = c /\ Accept(c)
      /\ t_client \notin Party
  BY TCPServerAssumption DEF TCP_wait_for_client, TCP_TypeOK, TypeOKTCPServer
<1>2. /\ link' = link /\ c = backlog[1]
      /\ Len(backlog') = Len(backlog) - 1 /\ Len(backlog) \in Nat
      /\ \A i \in 1 .. Len(backlog') : backlog'[i] = backlog[i + 1]
  BY <1>1, AcceptFacts, LenProperties DEF TCP_TypeOK, TypeOKStreams
<1>3. ASSUME NEW i \in 1 .. Len(backlog), i # 1
      PROVE  i - 1 \in 1 .. Len(backlog') /\ backlog'[i - 1] = backlog[i]
  BY <1>2, <1>3
<1>4. ASSUME NEW x \in Party, link'[x] = "open", x # t_client'
      PROVE  Queued(x)'
  <2>1. PICK i \in 1 .. Len(backlog) : backlog[i] = x
    BY <1>1, <1>2, <1>4 DEF TCP_NoConnectionKept
  <2>2. i # 1
    BY <1>1, <1>2, <1>4, <2>1
  <2> QED BY <1>3, <2>1, <2>2 DEF Queued
<1> QED BY <1>4 DEF TCP_NoConnectionKept, Queued

\* What waits for accept() when the server ends is reset with its socket.
LEMMA SigintInAcceptKept ==
  ASSUME TCP_TypeOK, TCP_NoConnectionKept, SigintInAccept
  PROVE  TCP_NoConnectionKept'
<1>1. /\ t_client' = t_client /\ t_client \notin Party
      /\ link' = [x \in Party |-> IF Queued(x) THEN "reset" ELSE link[x]]
  BY TCPServerAssumption DEF SigintInAccept, StopListening, Queued, TCP_TypeOK,
     TypeOKTCPServer
<1> QED BY <1>1 DEF TCP_NoConnectionKept, Queued

LEMMA ServerKeepsNone ==
  ASSUME TCP_TypeOK, TCP_NoConnectionKept, ServerStep \/ ServerInterrupted
  PROVE  TCP_NoConnectionKept'
<1>1. ASSUME NEW c, NEW item, TCP_ServerReads(c, item)
      PROVE  TCP_NoConnectionKept'
  <2>1. c = t_client /\ t_client \in Party
    BY <1>1, TCPServerAssumption DEF TCP_ServerReads, AcceptCONN, AcceptEmptyCONN,
       RefuseCONN, TCP_get_DATA_metainfo, RejectHeader, TCP_read_data_to_buf,
       FinishSession, Reads, TCP_TypeOK, TypeOKTCPServer
  <2>2. CASE \/ AcceptCONN(c, item) \/ TCP_get_DATA_metainfo(c, item)
             \/ TCP_read_data_to_buf(c, item)
    BY <2>2, NothingOpened DEF AcceptCONN, TCP_get_DATA_metainfo,
       TCP_read_data_to_buf, Answers
  <2>3. CASE \/ AcceptEmptyCONN(c, item) \/ RefuseCONN(c, item)
             \/ RejectHeader(c, item) \/ FinishSession(c, item)
    BY <2>1, <2>3, ClosedKept DEF AcceptEmptyCONN, RefuseCONN, RejectHeader,
       Reject, FinishSession
  <2> QED BY <1>1, <2>2, <2>3 DEF TCP_ServerReads
<1>2. ASSUME NEW c, ReadFails(c)
      PROVE  TCP_NoConnectionKept'
  <2>1. c = t_client /\ t_client \in Party
    BY <1>2, TCPServerAssumption DEF ReadFails, TCP_TypeOK, TypeOKTCPServer
  <2> QED BY <1>2, <2>1, ClosedKept DEF ReadFails, Reject
<1>3. CASE SigintBetweenCalls
  BY <1>3, NothingOpened DEF SigintBetweenCalls, stream_vars
<1> QED BY <1>1, <1>2, <1>3, WaitForClientKept, SigintInAcceptKept
        DEF ServerStep, ServerInterrupted, EndOfStream, TCP_ServerTimeout,
            SigintInSession

\* A connection that a client or another program opens waits in the queue.
LEMMA ConnectKept ==
  ASSUME TCP_TypeOK, TCP_NoConnectionKept, NEW c \in Party, Connect(c),
         UNCHANGED t_client
  PROVE  TCP_NoConnectionKept'
<1>1. /\ \A x \in Party \ {c} : link'[x] = link[x]
      /\ Len(backlog') = Len(backlog) + 1 /\ Len(backlog) \in Nat
      /\ backlog'[Len(backlog) + 1] = c
      /\ \A i \in 1 .. Len(backlog) : backlog'[i] = backlog[i]
  BY ConnectFacts, LenProperties DEF TCP_TypeOK, TypeOKStreams
<1>2. \A i \in 1 .. Len(backlog) : i \in 1 .. Len(backlog')
  BY <1>1
<1>3. Len(backlog) + 1 \in 1 .. Len(backlog')
  BY <1>1
<1>4. ASSUME NEW x \in Party, link'[x] = "open", x # t_client'
      PROVE  Queued(x)'
  <2>1. CASE x = c
    BY <1>1, <1>3, <2>1 DEF Queued
  <2>2. CASE x # c
    <3>1. PICK i \in 1 .. Len(backlog) : backlog[i] = x
      BY <1>1, <1>4, <2>2 DEF TCP_NoConnectionKept
    <3> QED BY <1>1, <1>2, <3>1 DEF Queued
  <2> QED BY <2>1, <2>2
<1> QED BY <1>4 DEF TCP_NoConnectionKept, Queued

LEMMA PartyKeepsNone ==
  ASSUME TCP_TypeOK, TCP_NoConnectionKept, UNCHANGED t_client, NEW c \in Party,
         \/ Connect(c)
         \/ \E item \in Item : Write(c, item)
         \/ \E item : Receive(c, item)
         \/ \E unread : PartyCloses(c, unread)
  PROVE  TCP_NoConnectionKept'
<1>1. ASSUME NEW item \in Item, Write(c, item)
      PROVE  TCP_NoConnectionKept'
  <2>1. /\ backlog' = backlog
        /\ \A x \in Party : link'[x] = "open" => link[x] = "open"
    BY <1>1, WriteFacts DEF TCP_TypeOK
  <2> QED BY <2>1, NothingOpened
<1>2. ASSUME NEW item, Receive(c, item)
      PROVE  TCP_NoConnectionKept'
  BY <1>2, NothingOpened DEF Receive
<1>3. ASSUME NEW unread, PartyCloses(c, unread)
      PROVE  TCP_NoConnectionKept'
  BY <1>3, NothingOpened DEF PartyCloses
<1> QED BY <1>1, <1>2, <1>3, ConnectKept

LEMMA ClientCalls ==
  ASSUME TCP_TypeOK, NEW c \in Client, TCP_ClientStep(c) \/ Killed(c)
  PROVE  \/ Connect(c)
         \/ \E item \in Item : Write(c, item)
         \/ \E item : Receive(c, item)
         \/ \E unread : PartyCloses(c, unread)
<1>1. CASE TCP_client_send_CONN(c)
  BY <1>1, ItemTypes DEF TCP_client_send_CONN, TCP_TypeOK
<1>2. CASE TCP_WritePart(c) \/ TCP_WriteLast(c)
  <2>1. c_written[c] \in Nat /\ SEND_BUFF_SIZE \in Nat /\ c_pc[c] = "DATA"
    BY <1>2, TCPClientAssumption DEF TCP_WritePart, TCP_WriteLast, TCP_TypeOK,
       TypeOKTCPClient
  <2>2. /\ Structure(c, c_written[c] + 1) \in Item
        /\ Structure(c, SEND_BUFF_SIZE + 1) \in Item
    BY <2>1, ItemTypes DEF TCP_TypeOK
  <2> QED BY <1>2, <2>2 DEF TCP_WritePart, TCP_WriteLast
<1>3. ASSUME NEW i \in 1 .. Len(down[c]), check_CONACC(c, down[c][i])
      PROVE  \E item : Receive(c, item)
  BY <1>3 DEF check_CONACC
<1>4. CASE TCP_Connect(c)
  BY <1>4 DEF TCP_Connect
<1>5. CASE Leaves(c)
  BY <1>5 DEF Leaves, Leave
<1> QED BY <1>1, <1>2, <1>3, <1>4, <1>5, ClientStepCases

\* At any time, every open connection is the one that the server serves or waits
\* for accept(): none is forgotten with its descriptor open.
THEOREM TCP_NoneKept == Spec => []TCP_NoConnectionKept
<1>1. Init => TCP_NoConnectionKept
  BY DEF Init, InitStreams, TCP_NoConnectionKept
<1>2. TCP_TypeOK /\ TCP_NoConnectionKept /\ [Next]_vars => TCP_NoConnectionKept'
  <2> SUFFICES ASSUME TCP_TypeOK, TCP_NoConnectionKept, [Next]_vars
               PROVE  TCP_NoConnectionKept'
    OBVIOUS
  <2>1. ASSUME NEW c \in Client, ClientStep(c) \/ ClientKilled(c)
        PROVE  TCP_NoConnectionKept'
    <3>1. (TCP_ClientStep(c) \/ Killed(c)) /\ UNCHANGED t_client /\ c \in Party
      BY <2>1 DEF ClientStep, ClientKilled, tcp_server_vars, Party
    <3> QED BY <3>1, ClientCalls, PartyKeepsNone
  <2>2. ASSUME NEW p \in Peer, PeerStep(p)
        PROVE  TCP_NoConnectionKept'
    BY <2>2, PartyKeepsNone DEF PeerStep, PeerLeaves, tcp_server_vars, Party
  <2>3. CASE UNCHANGED vars
    BY <2>3, NothingOpened DEF vars, stream_vars, tcp_server_vars
  <2> QED BY <2>1, <2>2, <2>3, ServerKeepsNone DEF Next
<1> QED BY <1>1, <1>2, TCP_TypeCorrect, PTL DEF Spec
=============================================================================
