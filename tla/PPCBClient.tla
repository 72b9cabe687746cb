---------------------------- MODULE PPCBClient ----------------------------
(***************************************************************************)
(* What the UDP and the UDPR client share: the transfer a ppcbc process    *)
(* makes (ppcb_client.c), its locals, and wait_for_server_response.        *)
(***************************************************************************)
EXTENDS Datagrams

CONSTANTS
  ProtocolOf,        \* the protocol each client was started with
  SessionId,         \* the session id each client drew
  occupied_size,     \* how many bytes each client read from its stdin
  SEND_BUFF_SIZE

ASSUME ClientAssumption ==
  /\ ProtocolOf \in [Client -> Protocol]
  /\ SessionId \in [Client -> Sid]
  /\ occupied_size \in [Client -> Nat]
  /\ SEND_BUFF_SIZE \in Nat \ {0}

\* The peers do not know the ids that the clients draw.
ASSUME ForeignStrays ==
  \A m \in Stray : m.sid \notin {SessionId[c] : c \in Client}

VARIABLES
  c_pc,           \* the call the client is in, or how it ended
  c_package_id,   \* curr_package_id; 0 also means is_before_first_acc
  c_bytes_sent,   \* bytes_sent; the bytes left are occupied_size - bytes_sent
  c_retransmits,  \* nbr_of_retransmits
  c_server_ip     \* real_server_s_addr; NoIp also means first_wait

client_vars == <<c_pc, c_package_id, c_bytes_sent, c_retransmits, c_server_ip>>

Waiting == {"wait_CONACC", "wait_ACC", "wait_RCVD"}

Ended == {"done", "failed"}

Goto(c, pc) == c_pc' = [c_pc EXCEPT ![c] = pc]

\* The handler returns: ppcbc closes its socket and exits.
Quit(c, outcome) == Goto(c, outcome) /\ Close(c)

-----------------------------------------------------------------------------

\* The server's IP is the one the first datagram ever received came from.
real_server_s_addr(c, m) ==
  IF c_server_ip[c] = NoIp THEN IpOf[m.src] ELSE c_server_ip[c]

\* Client c, blocked at pc, takes m off its socket.
Takes(c, m, pc) ==
  /\ c_pc[c] = pc
  /\ m.dst = c /\ ~ Empty(m)
  /\ c_server_ip' = [c_server_ip EXCEPT ![c] = real_server_s_addr(c, m)]

FromServer(c, m) ==
  /\ IpOf[m.src] = real_server_s_addr(c, m)
  /\ PortOf[m.src] = PortOf[Server]

\* wait_for_server_response returns SUCCESS with m in the buffer.
Response(c, m, pc) == Takes(c, m, pc) /\ FromServer(c, m)

\* A datagram without bytes, whoever sent it, is taken for an error of recvfrom()
\* before its sender is looked at.
TakesNothing(c, m) ==
  c_pc[c] \in Waiting /\ m.dst = c /\ Empty(m) /\ UNCHANGED c_server_ip

\* wait_for_server_response drops m and waits on.
IgnoreStranger(c, m) ==
  /\ c_pc[c] \in Waiting
  /\ Takes(c, m, c_pc[c])
  /\ ~ FromServer(c, m)
  /\ Reply(m, {})
  /\ UNCHANGED <<c_pc, c_package_id, c_bytes_sent, c_retransmits>>

Own(c, m, kind) == m.kind = kind /\ m.sid = SessionId[c]

-----------------------------------------------------------------------------
(* The pieces of the input.                                                *)

\* Mutant: a full packet, however few bytes are left.
FullPacket(c) == SEND_BUFF_SIZE

\* The number of bytes of the packet to send next.
shift(c) ==
  LET bytes_left == occupied_size[c] - c_bytes_sent[c]
  IN  IF bytes_left < SEND_BUFF_SIZE THEN bytes_left ELSE SEND_BUFF_SIZE

NextDATA(c) ==
  DATA(c, SessionId[c], c_package_id[c], c_bytes_sent[c], shift(c))

NextPiece(c) ==
  /\ c_package_id' = [c_package_id EXCEPT ![c] = @ + 1]
  /\ c_bytes_sent' = [c_bytes_sent EXCEPT ![c] = @ + shift(c)]

\* Mutant: one comparison too weak.
AfterMoreBytes(c, n) == IF n <= occupied_size[c] THEN "DATA" ELSE "wait_RCVD"

\* Where a client goes that has n bytes acknowledged or sent.
AfterBytes(c, n) == IF n < occupied_size[c] THEN "DATA" ELSE "wait_RCVD"

-----------------------------------------------------------------------------

\* A client is killed: it has no handler for the signals that end it.
Killed(c) ==
  /\ Faults
  /\ c_pc[c] \notin Ended
  /\ Quit(c, "failed")
  /\ UNCHANGED <<c_package_id, c_bytes_sent, c_retransmits, c_server_ip>>

\* A client may end before it sends anything: for its arguments, its input, or
\* the server's name.
InitClient ==
  /\ c_pc = [c \in Client |-> IF c \in open THEN "CONN" ELSE "failed"]
  /\ c_package_id = [c \in Client |-> 0]
  /\ c_bytes_sent = [c \in Client |-> 0]
  /\ c_retransmits = [c \in Client |-> 0]
  /\ c_server_ip = [c \in Client |-> NoIp]

TypeOKClient ==
  /\ c_pc \in [Client -> {"CONN", "DATA"} \cup Waiting \cup Ended]
  /\ c_package_id \in [Client -> Nat]
  /\ c_bytes_sent \in [Client -> Nat]
  /\ \A c \in Client : c_bytes_sent[c] <= occupied_size[c]
  /\ c_retransmits \in [Client -> 0 .. MAX_RETRANSMITS]
  /\ c_server_ip \in [Client -> {IpOf[x] : x \in Addr} \cup {NoIp}]
=============================================================================
