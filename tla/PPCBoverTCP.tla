---------------------------- MODULE PPCBoverTCP ----------------------------
(***************************************************************************)
(* The PPCB system over TCP: one ppcbs, several ppcbc, and the connections *)
(* of other programs.                                                      *)
(***************************************************************************)
EXTENDS TCPServer, TCPClient

vars == <<stream_vars, tcp_server_vars, tcp_client_vars>>

Init == InitStreams /\ InitTCPServer /\ InitTCPClient

ClientStep(c) == TCP_ClientStep(c) /\ UNCHANGED tcp_server_vars

ClientKilled(c) == Killed(c) /\ UNCHANGED tcp_server_vars

\* Another program connects with what it has to write, and stays or leaves.
PeerLeaves(p) == link[p] # "none" /\ p \notin gone /\ PartyCloses(p, down[p])

PeerStep(p) ==
  /\ Connect(p) \/ PeerLeaves(p)
  /\ UNCHANGED <<tcp_server_vars, tcp_client_vars>>

ServerStep ==
  /\ \E c \in Party :
       \/ TCP_wait_for_client(c)
       \/ \E i \in 1 .. Len(up[c]) : TCP_ServerReads(c, up[c][i])
       \/ EndOfStream(c)
       \/ TCP_ServerTimeout(c)
  /\ UNCHANGED tcp_client_vars

ServerInterrupted ==
  /\ \/ SigintInAccept
     \/ SigintBetweenCalls
     \/ \E c \in Party : SigintInSession(c)
  /\ UNCHANGED tcp_client_vars

Next ==
  \/ \E c \in Client : ClientStep(c) \/ ClientKilled(c)
  \/ \E p \in Peer : PeerStep(p)
  \/ ServerStep
  \/ ServerInterrupted

Spec == Init /\ [][Next]_vars

\* Every process of PPCB keeps running: its next call, what has arrived for it,
\* or its timer.  Other programs, signals and faults owe nothing.
FairSpec ==
  /\ Spec
  /\ \A c \in Client : WF_vars(ClientStep(c))
  /\ WF_vars(ServerStep)

-----------------------------------------------------------------------------

TCP_TypeOK == TypeOKStreams /\ TypeOKTCPServer /\ TypeOKTCPClient

\* The first n bytes of client c's file.
Beginning(c, n) == [i \in 1 .. n |-> Byte(c, i - 1)]

WholeFileDelivered(c) ==
  [addr |-> c, sid |-> SessionId[c],
   received |-> Beginning(c, occupied_size[c])] \in delivered

\* A client that reports success has had its whole file read by the server, byte
\* for byte (README 32-34): TCP_server_handler writes RCVD only after the last
\* declared byte, and TCP_client_handler takes nothing else for it.
TCP_SuccessMeansDelivered ==
  \A c \in Client : c_pc[c] = "done" => WholeFileDelivered(c)

\* What the server has read as data from a client is a beginning of that client's
\* file and nothing else, although the client's DATA structures are longer than
\* the packets they hold (send_data_wrapper, TCP_get_DATA_metainfo); a session
\* that ends with RCVD has read the whole file.
TCP_SessionHoldsPrefix ==
  /\ t_pc \in {"header", "data"} /\ t_client \in Client =>
       /\ t_received = Beginning(t_client, Len(t_received))
       /\ Len(t_received) = t_bytes_received - t_rest
       /\ t_bytes_received <= occupied_size[t_client]
  /\ \A s \in delivered : s.addr \in Client =>
       s.received = Beginning(s.addr, occupied_size[s.addr])

\* When the whole file of a client was read, all that the client may still have
\* to write is the padding behind its last piece (the loop of
\* TCP_client_send_DATA, whose last structure send_data_wrapper writes in full).
TCP_DeliveredIsWritten ==
  \A c \in Client : WholeFileDelivered(c) =>
    /\ c_pc[c] \notin {"connect", "CONN"}
    /\ c_pc[c] = "wait_CONACC" => occupied_size[c] = 0
    /\ c_pc[c] = "DATA" => /\ c_bytes_sent[c] + shift(c) = occupied_size[c]
                           /\ shift(c) < c_written[c]

FillsPackets(c) == \E k \in 0 .. occupied_size[c] : occupied_size[c] = k * SEND_BUFF_SIZE

\* When no packet of a file is shorter than its structure, the server has read all
\* that the client wrote when it closes: no reset cuts off its answers, and the
\* client, which has nothing more to write, finds the RCVD next on its connection,
\* for an empty file behind the CONACC (the end of TCP_server_handler and of
\* TCP_client_handler).
TCP_RcvdWaits ==
  \A c \in Client :
    FillsPackets(c) /\ WholeFileDelivered(c) /\ c_pc[c] \notin Ended =>
      LET conacc == Answer("CONACC", SessionId[c])
          rcvd == Answer("RCVD", SessionId[c])
      IN  /\ link[c] = "shut"
          /\ \/ c_pc[c] = "wait_RCVD" /\ down[c] = <<rcvd>>
             \/ c_pc[c] = "wait_CONACC" /\ down[c] = <<conacc, rcvd>>

\* The server's end of every connection gets closed, by TCP_server_handler before
\* it looks for another client or by the end of ppcbs: what is open waits for
\* accept() or is being served (server_TCP_lib.c:199).
TCP_NoConnectionKept ==
  \A c \in Party :
    link[c] = "open" => c = t_client \/ \E i \in 1 .. Len(backlog) : backlog[i] = c

\* The most that a client can still do: each byte of its file that is left pays for
\* the items of a structure.
TCP_CallsLeft ==
  [connect |-> 5, CONN |-> 4, wait_CONACC |-> 3, DATA |-> 2, wait_RCVD |-> 1,
   done |-> 0, failed |-> 0]

ItemsLeft(c) ==
  (occupied_size[c] - c_bytes_sent[c]) * (SEND_BUFF_SIZE + 1) - c_written[c]

TCP_Remaining(c) == TCP_CallsLeft[c_pc[c]] + ItemsLeft(c)

TCP_ClientChanges(c) ==
  <<c_pc[c], c_package_id[c], c_bytes_sent[c], c_written[c]>>' #
    <<c_pc[c], c_package_id[c], c_bytes_sent[c], c_written[c]>>

\* Whatever the server does, a client gets on with each of its steps and writes no
\* structure, and no part of one, for nothing (TCP_client_handler and writen()).
TCP_ClientsDescend ==
  [][\A c \in Client :
       TCP_ClientChanges(c) =>
         TCP_Remaining(c)' \in 0 .. TCP_Remaining(c) - 1]_vars

\* The bytes of the file that the server has yet to read, and the headers in front
\* of them.
TCP_SessionRemaining ==
  2 * (t_conn.bytes - (t_bytes_received - t_rest))
    + (IF t_pc = "header" THEN 1 ELSE 0)

\* With a client, no header is read in vain, and no read brings the server back to
\* where it was (the loop of TCP_server_handler, whose TCP_get_DATA_metainfo would
\* take headers that announce no bytes for ever).
TCP_SessionDescends ==
  [][/\ t_pc \in {"header", "data"} /\ t_pc' \in {"header", "data"}
     /\ t_client \in Client
     /\ <<t_pc, session_vars>>' # <<t_pc, session_vars>>
     => TCP_SessionRemaining' \in 0 .. TCP_SessionRemaining - 1]_vars

-----------------------------------------------------------------------------
(* The inductive invariant behind the safety properties: what is under way *)
(* on a client's connection is the part of its packets between what the    *)
(* server has read and what the client has written.                        *)

OffsetOf(id) == id * SEND_BUFF_SIZE

BytesIn(c, id) ==
  IF occupied_size[c] - OffsetOf(id) < SEND_BUFF_SIZE
  THEN occupied_size[c] - OffsetOf(id) ELSE SEND_BUFF_SIZE

\* The items of a DATA packet of client c, from 0 to SEND_BUFF_SIZE, and the place
\* of the first of them in all that c writes.
PacketItem(c, id, i) ==
  IF i = 0 THEN DATA(SessionId[c], id, BytesIn(c, id))
  ELSE IF i <= BytesIn(c, id) THEN Byte(c, OffsetOf(id) + i - 1)
  ELSE Padding

StartOf(id) == 2 + id * (SEND_BUFF_SIZE + 1)

\* The n-th item that client c writes.
IsItem(c, n, item) ==
  \/ n = 1 /\ item = CONN(SessionId[c], occupied_size[c])
  \/ \E id \in 0 .. occupied_size[c], i \in 0 .. SEND_BUFF_SIZE :
       n = StartOf(id) + i /\ item = PacketItem(c, id, i)

ItemsWritten(c) ==
  IF c_pc[c] \in {"connect", "CONN"} THEN 0
  ELSE StartOf(c_package_id[c]) - 1 + c_written[c]

ItemsRead(c) ==
  IF c # t_client \/ t_pc = "CONN" THEN 0
  ELSE IF t_pc = "header" THEN StartOf(t_packet_id) - 1
  ELSE StartOf(t_packet_id - 1)
         + (t_bytes_received - t_rest - OffsetOf(t_packet_id - 1))

OnTheWay(c) ==
  link[c] = "open" =>
    /\ \A i \in 1 .. Len(up[c]) : IsItem(c, ItemsRead(c) + i, up[c][i])
    /\ c_pc[c] \notin Ended => ItemsRead(c) + Len(up[c]) = ItemsWritten(c)

TrueRCVD(c) ==
  \A i \in 1 .. Len(down[c]) :
    down[c][i] = Answer("RCVD", SessionId[c]) => WholeFileDelivered(c)

\* A connection is open until the server closes its end, and waits for accept()
\* once.
Connections ==
  /\ \A i \in 1 .. Len(backlog) :
       /\ link[backlog[i]] = "open" /\ backlog[i] # t_client
       /\ \A j \in 1 .. Len(backlog) : backlog[i] = backlog[j] => i = j
  /\ t_client \in Party => link[t_client] = "open"
  /\ \A c \in Client : link[c] # "open" => up[c] = <<>>

\* Where a client stands in its file.
ClientPlace(c) ==
  /\ c_pc[c] \in {"connect", "CONN", "wait_CONACC"} =>
       c_package_id[c] = 0 /\ c_bytes_sent[c] = 0 /\ c_written[c] = 0
  /\ c_pc[c] = "DATA" =>
       /\ c_bytes_sent[c] < occupied_size[c]
       /\ c_bytes_sent[c] = OffsetOf(c_package_id[c])
  /\ c_pc[c] = "wait_RCVD" => c_written[c] = 0

\* Where the server stands in a session, and in the file of a client.
SessionPlace ==
  /\ t_pc \in {"accept", "CONN"} =>
       /\ t_packet_id = 0 /\ t_bytes_received = 0 /\ t_rest = 0
       /\ t_received = <<>>
  /\ t_pc = "header" => t_rest = 0 /\ t_bytes_received < t_conn.bytes
  /\ t_pc = "data" => /\ 0 < t_rest /\ t_rest <= t_bytes_received
                      /\ t_bytes_received <= t_conn.bytes
  /\ t_pc \in {"header", "data"} => t_conn \in [sid : Sid, bytes : Nat]

FilePlace ==
  t_pc \in {"header", "data"} /\ t_client \in Client =>
    /\ t_conn = [sid |-> SessionId[t_client], bytes |-> occupied_size[t_client]]
    /\ t_pc = "header" => t_bytes_received = OffsetOf(t_packet_id)
    /\ t_pc = "data" =>
         LET last == t_packet_id - 1
         IN  /\ 0 <= last
             /\ t_bytes_received = OffsetOf(last) + BytesIn(t_client, last)
             /\ t_rest <= BytesIn(t_client, last)

\* The conjunction that every step preserves.
TCP_Inductive ==
  /\ TCP_TypeOK
  /\ Connections
  /\ SessionPlace /\ FilePlace
  /\ \A c \in Client : ClientPlace(c) /\ OnTheWay(c) /\ TrueRCVD(c)
  /\ TCP_SuccessMeansDelivered /\ TCP_SessionHoldsPrefix

-----------------------------------------------------------------------------
(* Refinement and liveness.                                                *)

\* The abstract transfer, seen in the state of the programs.
NoSession == [who |-> Nobody, left |-> 0]

Serving ==
  IF t_pc \in {"header", "data"}
  THEN [who |-> t_client,
        left |-> t_conn.bytes - (t_bytes_received - t_rest)]
  ELSE NoSession

Complete == {c \in Client : WholeFileDelivered(c)}

Outcome ==
  [c \in Client |-> IF c_pc[c] \in Ended THEN c_pc[c] ELSE "running"]

Transfer == INSTANCE PPCBTransfer WITH
  Other <- Peer, Size <- occupied_size, Nobody <- NoSession,
  serving <- Serving, complete <- Complete, outcome <- Outcome

\* The programs implement the abstract transfer over TCP as they do over UDP.
TCP_ImplementsTransfer == Transfer!Spec

\* Every client comes to an end, also one that is writing to a server that has
\* turned it down (SO_RCVTIMEO of ppcb_client.c, the errors of writen).
TCP_ClientsTerminate == \A c \in Client : <>(c_pc[c] \in Ended)

\* The server always gets to the next accept() or to its end, whatever the program
\* at the other end does or fails to do (set_timeout_for_client_socket).
TCP_ServerFreed == t_pc \in {"CONN", "header", "data"} ~> t_pc \in {"accept", "exit"}

\* The fields of a packet follow one another without padding, and the data of a
\* DATA packet is as long as its count says (README 41 and 67), so that a client
\* whose file was read to its end has nothing more to write and cannot fail in
\* writing it.  send_data_wrapper writes the whole structure.
NoFailureAfterDelivery ==
  [][\A c \in Client :
       c_pc[c] = "DATA" /\ WholeFileDelivered(c) => c_pc'[c] # "failed"]_vars
=============================================================================
