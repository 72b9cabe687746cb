---------------------------- MODULE PPCBoverUDP ----------------------------
(***************************************************************************)
(* The PPCB system over UDP: one ppcbs, several ppcbc over UDP and UDPR,   *)
(* other programs' datagrams, and the network.                             *)
(***************************************************************************)
EXTENDS UDPServer, UDPClient, UDPRClient, FiniteSets

\* May a timer run out only when no datagram is under way or about to be sent?
CONSTANT Prompt

ASSUME PromptAssumption == Prompt \in BOOLEAN

vars == <<dgram_vars, server_vars, client_vars>>

Init == InitDatagrams /\ InitServer /\ InitClient

-----------------------------------------------------------------------------
(* Steps of one process, with what they leave alone.                       *)

ClientSends(c) ==
  /\ IF ProtocolOf[c] = "UDP" THEN UDP_Sends(c) ELSE UDPR_Sends(c)
  /\ UNCHANGED server_vars

ClientReceives(c, m) ==
  /\ \/ IgnoreStranger(c, m)
     \/ ProtocolOf[c] = "UDP" /\ UDP_Receives(c, m)
     \/ ProtocolOf[c] = "UDPR" /\ UDPR_Receives(c, m)
  /\ UNCHANGED server_vars

Quiescent == InFlight = {} /\ \A c \in Client : c_pc[c] \in Waiting \cup Ended

ClientTimesOut(c) ==
  /\ Prompt => Quiescent
  /\ IF ProtocolOf[c] = "UDP" THEN UDP_Timeout(c) ELSE UDPR_Timeout(c)
  /\ UNCHANGED server_vars

ClientKilled(c) == Killed(c) /\ UNCHANGED server_vars

ServerReads == \E m \in InFlight : ServerReceives(m) /\ UNCHANGED client_vars

ServerWaits ==
  (Prompt => Quiescent) /\ ServerTimesOut /\ UNCHANGED client_vars

ServerInterrupted == Sigint /\ UNCHANGED client_vars

Network ==
  /\ \E m \in InFlight : Lose(m) \/ Duplicate(m)
  /\ UNCHANGED <<server_vars, client_vars>>

ClientStep(c) ==
  \/ ClientSends(c)
  \/ \E m \in InFlight : ClientReceives(c, m)
  \/ ClientTimesOut(c)

ServerStep == ServerReads \/ ServerWaits

Next ==
  \/ \E c \in Client : ClientStep(c) \/ ClientKilled(c)
  \/ ServerStep
  \/ ServerInterrupted
  \/ Network

Spec == Init /\ [][Next]_vars

\* Every process keeps running: its next send, the next datagram or its timer.
\* The network, the signals and the faults owe nothing.
FairSpec ==
  /\ Spec
  /\ \A c \in Client : WF_vars(ClientStep(c))
  /\ WF_vars(ServerStep)

-----------------------------------------------------------------------------

TypeOK ==
  /\ TypeOKDatagrams
  /\ TypeOKServer
  /\ TypeOKClient

\* The pieces cover the n bytes of a file from its first to its last, each one
\* starting where the piece before it ends.
Contiguous(pieces, n) ==
  LET last == Len(pieces)
  IN  IF last = 0 THEN n = 0
      ELSE /\ pieces[1].off = 0
           /\ \A i \in 1 .. last - 1 :
                pieces[i + 1].off = pieces[i].off + pieces[i].bytes
           /\ pieces[last].off + pieces[last].bytes = n

\* The pieces are those of the first n bytes of client c's file.
Beginning(c, pieces, n) ==
  Contiguous(pieces, n) /\ \A i \in 1 .. Len(pieces) : pieces[i].of = c

WholeFileDelivered(c) ==
  \E d \in delivered : /\ d.addr = c /\ d.sid = SessionId[c]
                       /\ Beginning(c, d.received, occupied_size[c])

\* A client that reports success has had its whole file delivered, complete
\* and in order, in a session of its own: README 32-34 as the handlers of both
\* sides bring it about (RCVD ends the transfer of UDP_client_handler and
\* UDPR_client_handler).
SuccessMeansDelivered ==
  \A c \in Client : c_pc[c] = "done" => WholeFileDelivered(c)

\* Within a session of a client the server holds a gapless beginning of that
\* client's file, as long as bytes_recvd says, whatever was lost, repeated or
\* overtaken (check_if_correct_DATA_packet, handle_ret_val).
SessionHoldsPrefix ==
  s_pc = "session" /\ s_conn.addr \in Client =>
    Beginning(s_conn.addr, s_received, s_bytes_recvd)

\* What the ACCs of client c said is so.
AckedWasTaken(c) ==
  \A id \in 0 .. c_package_id[c] - 1 : <<c, SessionId[c], id>> \in accepted

OneAhead(c) == s_conn.addr = c => s_package_id <= c_package_id[c] + 1

\* Stop and wait: all packets a UDPR client went past were taken by the server
\* (UDPR_client_handle_ACC), and in a session of the client the server is never
\* more than the one packet ahead whose ACC is under way.
StopAndWait ==
  \A c \in Client : ProtocolOf[c] = "UDPR" => AckedWasTaken(c) /\ OneAhead(c)

\* The server's RCVD is addressed to the client whose session it closes, although
\* send_RCVD is called with a static address that other senders are written to
\* (UDP_data_receive, UDPR_data_receive).
RcvdReachesItsClient ==
  \A m \in InFlight :
    m.src = Server /\ m.kind = "RCVD" /\ m.dst \in Client =>
      m.sid = SessionId[m.dst]

\* When the whole file of a client was taken, the client has nothing new to send: a
\* UDP client waits for RCVD, a UDPR client is at its last packet or past it.  So an
\* RCVD that comes in place of an ACC is never taken for one of an earlier packet
\* (the loops of UDP_client_send_DATA and UDPR_client_send_DATA,
\* UDPR_client_handle_ACC).
DeliveredIsSent ==
  \A c \in Client : WholeFileDelivered(c) /\ occupied_size[c] > 0 =>
    /\ c_pc[c] \notin {"CONN", "wait_CONACC"}
    /\ c_pc[c] \in {"DATA", "wait_ACC"} =>
         /\ ProtocolOf[c] = "UDPR"
         /\ c_bytes_sent[c] + shift(c) = occupied_size[c]

\* The copies of the packets of client c that are under way beyond the first of
\* each packet.
Copies(c) == UNION {{m} \X (2 .. net[m]) : m \in {d \in InFlight : d.src = c}}

\* What a client sent more than once is under way at most as often as
\* nbr_of_retransmits, which it shares between CONN and all DATA packets, and the
\* network's copies allow (UDPR_client_handler, UDPR_client_handle_ACC): nobody
\* floods the server, and plain UDP repeats nothing.
RepeatsArePaidFor ==
  \A c \in Client : Cardinality(Copies(c)) <= c_retransmits[c] + duplicates

\* The most that client c can still do: each byte of its file and each
\* retransmission pays for being sent and being waited for.
CallsLeft ==
  [CONN |-> 5, wait_CONACC |-> 4, DATA |-> 3, wait_ACC |-> 2, wait_RCVD |-> 1,
   done |-> 0, failed |-> 0]

Remaining(c) ==
  2 * ((occupied_size[c] - c_bytes_sent[c])
       + (MAX_RETRANSMITS - c_retransmits[c]))
  + CallsLeft[c_pc[c]]

\* A client gets on, or repeats itself.
ClientChanges(c) ==
  <<c_pc[c], c_package_id[c], c_bytes_sent[c], c_retransmits[c]>>' #
    <<c_pc[c], c_package_id[c], c_bytes_sent[c], c_retransmits[c]>>

\* Whatever answers come, and in whatever order, no client goes round in circles:
\* each step it takes uses up something of which it has a limited amount
\* (UDPR_client_handler with UDPR_client_handle_ACC, UDP_client_handler).
ClientsDescend ==
  [][\A c \in Client :
       ClientChanges(c) => Remaining(c)' \in 0 .. Remaining(c) - 1]_vars

SessionRemaining ==
  (s_conn.bytes - s_bytes_recvd) + (MAX_RETRANSMITS - s_retransmits)

SessionChanges ==
  <<s_conn, s_package_id, s_bytes_recvd, s_retransmits>>' #
    <<s_conn, s_package_id, s_bytes_recvd, s_retransmits>>

\* The server writes to the session's client.
SessionAnswers ==
  /\ UNCHANGED duplicates
  /\ \E m \in BagToSet(net') :
       /\ m.src = Server /\ m.dst = s_conn.addr
       /\ m \notin InFlight \/ net'[m] > net[m]

\* In a session with a client the server takes bytes that are left of the client's
\* file, or spends one of its retransmissions, whenever it changes its state or
\* writes to the client: it answers no client without end, and no datagram brings
\* a session back to where it was (UDP_data_receive, UDPR_data_receive with
\* handle_ret_val and do_retransmission).
SessionDescends ==
  [][/\ s_pc = "session" /\ s_pc' = "session" /\ s_conn.addr \in Client
     /\ SessionChanges \/ SessionAnswers
     => SessionRemaining' \in 0 .. SessionRemaining - 1]_vars

-----------------------------------------------------------------------------
(* The inductive invariant behind the safety properties: what the packets  *)
(* in flight tell their receivers is and stays true.                       *)

\* The piece of client c's file that the packet with this id carries.
OffsetOf(id) == id * SEND_BUFF_SIZE

BytesAt(c, off) ==
  IF occupied_size[c] - off < SEND_BUFF_SIZE THEN occupied_size[c] - off
  ELSE SEND_BUFF_SIZE

Origin(m) ==
  /\ m.src \in Peer => m \in Stray
  /\ m.src = Server => m.kind \notin {"CONN", "DATA"}

TrueCONN(m) ==
  m.kind = "CONN" /\ m.src \in Client =>
    /\ m.sid = SessionId[m.src]
    /\ m.proto = ProtocolOf[m.src]
    /\ m.bytes = occupied_size[m.src]

TrueDATA(m) ==
  m.kind = "DATA" /\ m.src \in Client =>
    /\ m.off = OffsetOf(m.id)
    /\ m.off < occupied_size[m.src]
    /\ m.bytes = BytesAt(m.src, m.off)
    /\ ProtocolOf[m.src] = "UDPR" => m.id <= c_package_id[m.src]

TrueACC(m) ==
  m.kind = "ACC" /\ m.dst \in Client /\ m.sid = SessionId[m.dst] =>
    <<m.dst, m.sid, m.id>> \in accepted

TrueRCVD(m) ==
  m.kind = "RCVD" /\ m.dst \in Client /\ m.sid = SessionId[m.dst] =>
    WholeFileDelivered(m.dst)

TruePackets ==
  \A m \in InFlight :
    Origin(m) /\ TrueCONN(m) /\ TrueDATA(m) /\ TrueACC(m) /\ TrueRCVD(m)

\* Where a client stands in its file.
ClientPosition(c) ==
  /\ c_pc[c] \in {"CONN", "wait_CONACC"} =>
       c_package_id[c] = 0 /\ c_bytes_sent[c] = 0
  /\ c_pc[c] \in {"DATA", "wait_ACC"} => c_bytes_sent[c] < occupied_size[c]
  /\ c_bytes_sent[c] < occupied_size[c] =>
       c_bytes_sent[c] = OffsetOf(c_package_id[c])

\* Where the server stands in a session with a client.
SessionPosition ==
  s_pc = "session" =>
    /\ \A id \in 0 .. s_package_id - 1 :
         <<s_conn.addr, s_conn.sid, id>> \in accepted
    /\ s_conn.addr \in Client =>
         /\ s_conn.sid = SessionId[s_conn.addr]
         /\ s_conn.proto = ProtocolOf[s_conn.addr]
         /\ s_conn.bytes = occupied_size[s_conn.addr]
         /\ s_bytes_recvd = OffsetOf(s_package_id)

\* The conjunction that every step preserves.  It holds whatever session ids the
\* clients draw, two equal ones included.
Inductive ==
  /\ TypeOK
  /\ TruePackets
  /\ \A c \in Client : ClientPosition(c)
  /\ SessionPosition
  /\ SuccessMeansDelivered /\ SessionHoldsPrefix /\ StopAndWait

-----------------------------------------------------------------------------
(* Refinement and liveness.                                                *)

\* The abstract transfer, seen in the state of the programs.
NoSession == [who |-> NoAddr, left |-> 0]

Serving ==
  IF s_pc = "session"
  THEN [who |-> s_conn.addr, left |-> s_conn.bytes - s_bytes_recvd]
  ELSE NoSession

Complete == {c \in Client : WholeFileDelivered(c)}

Outcome ==
  [c \in Client |-> IF c_pc[c] \in Ended THEN c_pc[c] ELSE "running"]

Transfer == INSTANCE PPCBTransfer WITH
  Other <- Peer, Size <- occupied_size, Nobody <- NoSession,
  serving <- Serving, complete <- Complete, outcome <- Outcome

\* The programs implement the abstract transfer: one session at a time, the
\* bytes left only shrink, and no client succeeds that was not served whole.
ImplementsTransfer == Transfer!Spec

\* Every client comes to an end, with success or without: each wait is bounded
\* by the timer and each repetition by MAX_RETRANSMITS (README 36-38).
ClientsTerminate == \A c \in Client : <>(c_pc[c] \in Ended)

\* The server always gets free for the next client, whatever becomes of the
\* one it serves (the timer UDP_server_handler sets before a session).
ServerFreed == s_pc = "session" ~> s_pc # "session"

-----------------------------------------------------------------------------
(* What the README and the comments say, and the programs do not keep.     *)

Consumed(m) == m \notin BagToSet(net') \/ net'[m] < net[m]

\* A CONN that comes again from the client of the session is ignored: README 38
\* and the comment at server_UDP_lib.c:431.  handle_ret_val ends the session
\* once the first DATA packet was taken.
RepeatedCONNIgnored ==
  [][\A m \in InFlight :
       /\ Consumed(m)
       /\ s_pc = "session" /\ s_conn.proto = "UDPR"
       /\ m = CONN(s_conn.addr, s_conn.sid, "UDPR", s_conn.bytes)
       => UNCHANGED <<s_pc, s_conn, s_package_id, s_bytes_recvd>>]_vars

\* An ACC of a packet that was acknowledged before does not fail a client that
\* waits for RCVD: README 38 and the comment at client_UDPR_lib.c:389.  (Read
\* where no timer can run out while a datagram is under way, and with nothing
\* else than RCVD under way to c, so that it is m that made it fail.)
OldACCIgnored ==
  [][\A c \in Client, m \in InFlight :
       /\ c_pc[c] = "wait_RCVD"
       /\ m.dst = c /\ Own(c, m, "ACC") /\ m.sized /\ m.id < c_package_id[c]
       /\ {d \in InFlight : d.dst = c}
            \subseteq {m, Answer("RCVD", c, SessionId[c])}
       => c_pc'[c] # "failed"]_vars

\* A client that is alone with the server succeeds on a network that loses and
\* duplicates nothing and is faster than the timers: by README 34 a client ends
\* after it has sent all data and received RCVD.  handle_ACC takes an RCVD that
\* overtakes the last ACC for a lost packet and sends the data again.
LoneTransferSucceeds == \A c \in Client : <>(c_pc[c] = "done")

\* A SIGINT ends the server with proper socket closure: the comment at
\* server_UDP_lib.c:512.
SigintEndsServer == finish ~> s_pc = "exit"
=============================================================================
