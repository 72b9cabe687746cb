----------------------------- MODULE UDPServer -----------------------------
(***************************************************************************)
(* ppcbs serving UDP (server_UDP_lib.c): it answers one client at a time,  *)
(* over plain UDP or over UDP with retransmission (UDPR).  One action is   *)
(* what the server does from the return of one recvfrom() to the next      *)
(* call: nothing else reads its locals, and its sends only reach others    *)
(* through the network.                                                    *)
(***************************************************************************)
EXTENDS Datagrams, Sequences

CONSTANTS
  MAX_ALLOWED_PACKET_SIZE,
  MaxSigint                  \* bound: how many SIGINTs the server gets

ASSUME ServerAssumption ==
  /\ MAX_ALLOWED_PACKET_SIZE \in Nat \ {0}
  /\ MaxSigint \in Nat

VARIABLES
  s_pc,             \* "idle", "session" (in a .._data_receive), or "exit"
  s_conn,           \* conn and the address its sender had
  s_package_id,     \* curr_package_id; 0 also means is_first_DATA_packet
  s_bytes_recvd,    \* bytes_recvd
  s_retransmits,    \* nbr_of_retransmits
  s_client_address, \* the static client_address of each .._data_receive
  finish,           \* the flag catch_int sets
  sigints,          \* how many SIGINTs came (for the bound)
  s_received,       \* history: the pieces taken in this session, in order
  accepted,         \* history: <<address, session, id>> of every DATA taken
  delivered         \* history: the sessions that ended with an RCVD

server_vars == <<s_pc, s_conn, s_package_id, s_bytes_recvd, s_retransmits,
                 s_client_address, finish, sigints, s_received, accepted,
                 delivered>>

NoConn == [addr |-> NoAddr, sid |-> "none", proto |-> "none", bytes |-> 0]

Conn == [addr : Addr, sid : Sid, proto : Protocol, bytes : Nat]

\* A piece of the file of `of'.
Piece == [of : Addr, off : Nat, bytes : Nat]

PieceIn(m) == [of |-> m.src, off |-> m.off, bytes |-> m.bytes]

-----------------------------------------------------------------------------

\* Mutant: bytes_recvd kept from the session before.
KeepBytes ==
  /\ s_package_id' = 0
  /\ UNCHANGED s_bytes_recvd
  /\ s_retransmits' = 0
  /\ s_received' = <<>>

\* The locals of a data_receive function as it starts.
ResetLocals ==
  /\ s_package_id' = 0
  /\ s_bytes_recvd' = 0
  /\ s_retransmits' = 0
  /\ s_received' = <<>>

OpenSession(m) ==
  /\ s_pc' = "session"
  /\ s_conn' = [addr |-> m.src, sid |-> m.sid, proto |-> m.proto,
                bytes |-> m.bytes]
  /\ ResetLocals

\* Back in UDP_server_handler, waiting for the next CONN.
EndSession == s_pc' = "idle" /\ s_conn' = NoConn /\ ResetLocals

KeepSession ==
  UNCHANGED <<s_pc, s_conn, s_package_id, s_bytes_recvd, s_retransmits,
              s_received>>

\* recvfrom() wrote the sender of m to the static client_address.
NoteSender(m) ==
  s_client_address' = [s_client_address EXCEPT ![s_conn.proto] = m.src]

signal_vars == <<finish, sigints>>

NoDelivery == UNCHANGED <<accepted, delivered>>

-----------------------------------------------------------------------------
(* Waiting for a CONN: read_data_to_buffer compares the sender with        *)
(* itself, so that every datagram comes through.                           *)

Idle(m) == s_pc = "idle" /\ m.dst = Server

check_if_correct_CONN(m) ==
  m.sized /\ m.kind = "CONN" /\ m.proto \in Protocol

\* A datagram without bytes counts as a failed read, after which the server looks
\* whether it was told to finish.
GetNothing(m) ==
  /\ Idle(m)
  /\ Empty(m)
  /\ IF finish THEN s_pc' = "exit" /\ Close(Server)
     ELSE s_pc' = "idle" /\ Reply(m, {})
  /\ UNCHANGED <<s_conn, s_package_id, s_bytes_recvd, s_retransmits,
                 s_received, s_client_address, signal_vars>> /\ NoDelivery

\* Anything else but a well-formed CONN is answered with CONRJT.
RejectCONN(m) ==
  /\ Idle(m)
  /\ ~ Empty(m)
  /\ ~ check_if_correct_CONN(m)
  /\ Reply(m, {Answer("CONRJT", m.src, m.sid)})
  /\ KeepSession /\ NoDelivery
  /\ UNCHANGED <<s_client_address, signal_vars>>

AcceptCONN(m) ==
  /\ Idle(m)
  /\ check_if_correct_CONN(m)
  /\ m.bytes > 0
  /\ Reply(m, {Answer("CONACC", m.src, m.sid)})
  /\ OpenSession(m) /\ NoDelivery
  /\ UNCHANGED <<s_client_address, signal_vars>>

\* A CONN that declares no bytes: the loop of data_receive is not entered, and
\* RCVD goes to whatever address its static client_address was left with.
AcceptEmptyCONN(m) ==
  /\ Idle(m)
  /\ check_if_correct_CONN(m)
  /\ m.bytes = 0
  /\ Reply(m, {Answer("CONACC", m.src, m.sid),
               Answer("RCVD", s_client_address[m.proto], m.sid)})
  /\ delivered' = delivered \cup
                    {[addr |-> m.src, sid |-> m.sid, received |-> <<>>]}
  /\ KeepSession
  /\ UNCHANGED <<s_client_address, signal_vars, accepted>>

\* sendto() of the CONACC fails: the server goes back to waiting.
SendCONACCFails(m) ==
  /\ Faults
  /\ Idle(m)
  /\ check_if_correct_CONN(m)
  /\ Reply(m, {})
  /\ KeepSession /\ NoDelivery
  /\ UNCHANGED <<s_client_address, signal_vars>>

-----------------------------------------------------------------------------
(* In a session.                                                           *)

InSession(m) == s_pc = "session" /\ m.dst = Server

\* read_data_to_buffer turns other senders away and goes on waiting.  A datagram
\* without bytes leaves the structure it is copied to as the stack held it, which
\* may look like DATA.
TurnAway(m) ==
  /\ InSession(m)
  /\ m.src # s_conn.addr
  /\ \/ /\ m.kind = "CONN" /\ m.sized
        /\ Reply(m, {Answer("CONRJT", m.src, m.sid)})
     \/ /\ m.kind = "DATA" \/ Empty(m)
        /\ Reply(m, {Answer("RJT", m.src, m.sid)})
     \/ m.kind # "DATA" /\ ~ (m.kind = "CONN" /\ m.sized) /\ Reply(m, {})
  /\ NoteSender(m)
  /\ KeepSession /\ NoDelivery
  /\ UNCHANGED signal_vars

\* Mutant: the check without the packet id.
NoIdCheck(m) ==
  IF m.kind # "DATA" THEN "WRONG_PACKAGE_TYPE_ID"
  ELSE IF m.sid # s_conn.sid THEN "WRONG_SESSION_ID"
  ELSE IF m.bytes > MAX_ALLOWED_PACKET_SIZE THEN "ERROR"
  ELSE IF ~ m.sized THEN "WRONG_PACKAGE_SIZE"
  ELSE "SUCCESS"

check_if_correct_DATA_packet(m) ==
  IF m.kind # "DATA" THEN "WRONG_PACKAGE_TYPE_ID"
  ELSE IF m.sid # s_conn.sid THEN "WRONG_SESSION_ID"
  ELSE IF m.id # s_package_id THEN "WRONG_PACKAGE_ID"
  ELSE IF m.bytes > MAX_ALLOWED_PACKET_SIZE THEN "ERROR"
  ELSE IF ~ m.sized THEN "WRONG_PACKAGE_SIZE"
  ELSE "SUCCESS"

\* Mutant: read_data_to_buffer without the comparison of the senders.
FromAnyone(m) == InSession(m) /\ ~ Empty(m)

FromClient(m) == InSession(m) /\ m.src = s_conn.addr /\ ~ Empty(m)

\* A datagram without bytes from the client ends its session without an answer.
LoseClient(m) ==
  /\ InSession(m)
  /\ m.src = s_conn.addr /\ Empty(m)
  /\ Reply(m, {})
  /\ NoteSender(m)
  /\ EndSession /\ NoDelivery
  /\ UNCHANGED signal_vars

\* UDPR: what handle_ret_val answers CONTINUE to.
Repeated(m) ==
  LET verdict == check_if_correct_DATA_packet(m)
  IN  \/ /\ verdict = "WRONG_PACKAGE_TYPE_ID"
         /\ m.kind = "CONN" /\ m.sized /\ s_package_id = 0
      \/ /\ verdict = "WRONG_PACKAGE_ID"
         /\ m.id < s_package_id /\ m.sized

\* UDPR: what handle_ret_val answers with RJT before it returns ERROR.
OutOfTurn(m) ==
  LET verdict == check_if_correct_DATA_packet(m)
  IN  \/ verdict \in {"WRONG_SESSION_ID", "ERROR", "WRONG_PACKAGE_SIZE"}
      \/ verdict = "WRONG_PACKAGE_ID" /\ m.id > s_package_id

\* The session of a UDPR client goes on as if m had not come.
UDPR_Ignore(m) ==
  /\ FromClient(m)
  /\ s_conn.proto = "UDPR"
  /\ Repeated(m)
  /\ Reply(m, {})
  /\ NoteSender(m)
  /\ KeepSession /\ NoDelivery
  /\ UNCHANGED signal_vars

UDPR_Reject(m) ==
  /\ FromClient(m)
  /\ s_conn.proto = "UDPR"
  /\ check_if_correct_DATA_packet(m) # "SUCCESS"
  /\ ~ Repeated(m)
  /\ Reply(m, IF OutOfTurn(m) THEN {Answer("RJT", m.src, s_conn.sid)} ELSE {})
  /\ NoteSender(m)
  /\ EndSession /\ NoDelivery
  /\ UNCHANGED signal_vars

UDP_Reject(m) ==
  /\ FromClient(m)
  /\ s_conn.proto = "UDP"
  /\ check_if_correct_DATA_packet(m) # "SUCCESS"
  /\ Reply(m, {Answer("RJT", m.src, s_conn.sid)})
  /\ NoteSender(m)
  /\ EndSession /\ NoDelivery
  /\ UNCHANGED signal_vars

\* Mutant: the static address as it was before recvfrom() wrote to it.
LastAddress(m) == s_client_address[s_conn.proto]

\* Whom the session answers: client_address, to which recvfrom() wrote m's sender.
client_address(m) == m.src

\* A correct DATA packet is taken; only UDPR acknowledges it.
Acknowledgement(m) ==
  IF s_conn.proto = "UDPR"
  THEN {ACC(client_address(m), s_conn.sid, s_package_id)} ELSE {}

TakeDATA(m) ==
  /\ FromClient(m)
  /\ check_if_correct_DATA_packet(m) = "SUCCESS"
  /\ s_bytes_recvd + m.bytes < s_conn.bytes
  /\ Reply(m, Acknowledgement(m))
  /\ NoteSender(m)
  /\ s_package_id' = s_package_id + 1
  /\ s_bytes_recvd' = s_bytes_recvd + m.bytes
  /\ s_received' = Append(s_received, PieceIn(m))
  /\ accepted' = accepted \cup {<<m.src, m.sid, m.id>>}
  /\ UNCHANGED <<s_pc, s_conn, s_retransmits, delivered, signal_vars>>

\* The packet with which the declared number of bytes is there.
TakeLastDATA(m) ==
  /\ FromClient(m)
  /\ check_if_correct_DATA_packet(m) = "SUCCESS"
  /\ s_bytes_recvd + m.bytes = s_conn.bytes
  /\ Reply(m, Acknowledgement(m) \cup
              {Answer("RCVD", client_address(m), s_conn.sid)})
  /\ NoteSender(m)
  /\ accepted' = accepted \cup {<<m.src, m.sid, m.id>>}
  /\ delivered' = delivered \cup
       {[addr |-> m.src, sid |-> m.sid,
         received |-> Append(s_received, PieceIn(m))]}
  /\ EndSession
  /\ UNCHANGED signal_vars

\* More bytes than declared: acknowledged all the same, then given up.
TakeTooMuchDATA(m) ==
  /\ FromClient(m)
  /\ check_if_correct_DATA_packet(m) = "SUCCESS"
  /\ s_bytes_recvd + m.bytes > s_conn.bytes
  /\ Reply(m, Acknowledgement(m) \cup
              (IF s_conn.proto = "UDPR"
               THEN {Answer("RJT", client_address(m), s_conn.sid)} ELSE {}))
  /\ NoteSender(m)
  /\ accepted' = accepted \cup {<<m.src, m.sid, m.id>>}
  /\ EndSession
  /\ UNCHANGED <<delivered, signal_vars>>

-----------------------------------------------------------------------------
(* MAX_WAIT seconds pass without a datagram.                               *)

\* Mutant: the timer is only set once data has come.
TimeoutAfterDATA ==
  /\ s_pc = "session" /\ s_conn.proto = "UDP" /\ s_package_id > 0
  /\ EndSession /\ NoDelivery
  /\ UNCHANGED <<dgram_vars, s_client_address, signal_vars>>

UDP_ServerTimeout ==
  /\ s_pc = "session" /\ s_conn.proto = "UDP"
  /\ EndSession /\ NoDelivery
  /\ UNCHANGED <<dgram_vars, s_client_address, signal_vars>>

\* Mutant: the id of the packet that is awaited, not of the last one.
AwaitedACC ==
  IF s_package_id = 0 THEN Answer("CONACC", s_conn.addr, s_conn.sid)
  ELSE ACC(s_conn.addr, s_conn.sid, s_package_id)

\* do_retransmission: the packet that was sent last, to the session's client.
LastSent ==
  IF s_package_id = 0 THEN Answer("CONACC", s_conn.addr, s_conn.sid)
  ELSE ACC(s_conn.addr, s_conn.sid, s_package_id - 1)

\* Mutant: the repetition is not counted.
ServerRetransmitForFree ==
  /\ s_pc = "session" /\ s_conn.proto = "UDPR"
  /\ s_retransmits < MAX_RETRANSMITS
  /\ Send({LastSent})
  /\ KeepSession /\ NoDelivery
  /\ UNCHANGED <<s_client_address, signal_vars>>

UDPR_ServerRetransmit ==
  /\ s_pc = "session" /\ s_conn.proto = "UDPR"
  /\ s_retransmits < MAX_RETRANSMITS
  /\ s_retransmits' = s_retransmits + 1
  /\ Send({LastSent})
  /\ NoDelivery
  /\ UNCHANGED <<s_pc, s_conn, s_package_id, s_bytes_recvd, s_received,
                 s_client_address, signal_vars>>

UDPR_ServerGiveUp ==
  /\ s_pc = "session" /\ s_conn.proto = "UDPR"
  /\ s_retransmits >= MAX_RETRANSMITS
  /\ EndSession /\ NoDelivery
  /\ UNCHANGED <<dgram_vars, s_client_address, signal_vars>>

-----------------------------------------------------------------------------
(* SIGINT.  The handler sets finish and interrupts recvfrom() with EINTR;  *)
(* only UDP_server_handler looks at finish, and only after a failed read.  *)

Interrupted == sigints < MaxSigint /\ sigints' = sigints + 1 /\ finish' = TRUE

SigintWhileIdle ==
  /\ Interrupted
  /\ s_pc = "idle"
  /\ s_pc' = "exit"
  /\ Close(Server)
  /\ UNCHANGED <<s_conn, s_package_id, s_bytes_recvd, s_retransmits,
                 s_received, s_client_address>> /\ NoDelivery

SigintInSession ==
  /\ Interrupted
  /\ s_pc = "session"
  /\ EndSession /\ NoDelivery
  /\ UNCHANGED <<dgram_vars, s_client_address>>

\* The signal comes while the server is not blocked in recvfrom().
SigintBetweenReads ==
  /\ Interrupted
  /\ s_pc # "exit"
  /\ KeepSession /\ NoDelivery
  /\ UNCHANGED <<dgram_vars, s_client_address>>

-----------------------------------------------------------------------------

InitServer ==
  /\ s_pc = "idle"
  /\ s_conn = NoConn
  /\ s_package_id = 0 /\ s_bytes_recvd = 0 /\ s_retransmits = 0
  /\ s_client_address = [p \in Protocol |-> NoAddr]
  /\ finish = FALSE /\ sigints = 0
  /\ s_received = <<>> /\ accepted = {} /\ delivered = {}

ServerReceives(m) ==
  \/ GetNothing(m)
  \/ RejectCONN(m)
  \/ AcceptCONN(m)
  \/ AcceptEmptyCONN(m)
  \/ SendCONACCFails(m)
  \/ TurnAway(m)
  \/ LoseClient(m)
  \/ UDPR_Ignore(m)
  \/ UDPR_Reject(m)
  \/ UDP_Reject(m)
  \/ TakeDATA(m)
  \/ TakeLastDATA(m)
  \/ TakeTooMuchDATA(m)

ServerTimesOut ==
  \/ UDP_ServerTimeout
  \/ UDPR_ServerRetransmit
  \/ UDPR_ServerGiveUp

Sigint ==
  \/ SigintWhileIdle
  \/ SigintInSession
  \/ SigintBetweenReads

TypeOKServer ==
  /\ s_pc \in {"idle", "session", "exit"}
  /\ IF s_pc = "session" THEN s_conn \in Conn ELSE s_conn = NoConn
  /\ s_package_id \in Nat
  /\ s_bytes_recvd \in Nat
  /\ s_retransmits \in 0 .. MAX_RETRANSMITS
  /\ s_client_address \in [Protocol -> Addr \cup {NoAddr}]
  /\ finish \in BOOLEAN
  /\ sigints \in 0 .. MaxSigint
  /\ s_received \in Seq(Piece)
  /\ accepted \subseteq Addr \X Sid \X Nat
  /\ delivered \subseteq [addr : Addr, sid : Sid, received : Seq(Piece)]
=============================================================================
