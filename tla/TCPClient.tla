----------------------------- MODULE TCPClient -----------------------------
(***************************************************************************)
(* ppcbc over TCP (client_TCP_lib.c).  For every piece of its input it     *)
(* writes a whole DATA structure, with room for SEND_BUFF_SIZE bytes.      *)
(***************************************************************************)
EXTENDS Streams

CONSTANTS
  SessionId,         \* the session id each client drew
  occupied_size,     \* how many bytes each client read from its stdin
  SEND_BUFF_SIZE,
  Faults             \* may a client be killed?

ASSUME TCPClientAssumption ==
  /\ SessionId \in [Client -> Sid]
  /\ occupied_size \in [Client -> Nat]
  /\ SEND_BUFF_SIZE \in Nat \ {0}
  /\ Faults \in BOOLEAN

VARIABLES
  c_pc,           \* the call the client is in, or how it ended
  c_package_id,   \* curr_package_id
  c_bytes_sent,   \* bytes_sent, counted when the piece is written
  c_written       \* how many items of the structure writen() has written

tcp_client_vars == <<c_pc, c_package_id, c_bytes_sent, c_written>>

Waiting == {"wait_CONACC", "wait_RCVD"}

Ended == {"done", "failed"}

Goto(c, pc) == c_pc' = [c_pc EXCEPT ![c] = pc]

Progress(c) == UNCHANGED <<c_package_id, c_bytes_sent, c_written>>

\* The handler returns: ppcbc closes its socket and exits.
Leave(c, outcome, unread) ==
  Goto(c, outcome) /\ PartyCloses(c, unread) /\ Progress(c)

Quit(c, outcome) == Leave(c, outcome, down[c])

-----------------------------------------------------------------------------

TCP_Connect(c) ==
  c_pc[c] = "connect" /\ Connect(c) /\ Goto(c, "CONN") /\ Progress(c)

TCP_ConnectFails(c) ==
  c_pc[c] = "connect" /\ ~ listening /\ Quit(c, "failed")

TCP_client_send_CONN(c) ==
  /\ c_pc[c] = "CONN"
  /\ Write(c, CONN(SessionId[c], occupied_size[c]))
  /\ Goto(c, "wait_CONACC") /\ Progress(c)

\* Mutant: one comparison too weak, and a structure without a piece after the last.
AfterMoreBytes(c, n) == IF n > occupied_size[c] THEN "wait_RCVD" ELSE "DATA"

AfterBytes(c, n) == IF n = occupied_size[c] THEN "wait_RCVD" ELSE "DATA"

check_CONACC(c, item) ==
  /\ c_pc[c] = "wait_CONACC"
  /\ Receive(c, item)
  /\ item = Answer("CONACC", SessionId[c])
  /\ Goto(c, AfterBytes(c, 0)) /\ Progress(c)

-----------------------------------------------------------------------------
(* TCP_client_send_DATA and send_data_wrapper.                             *)

\* Mutant: a full packet, however few bytes are left.
FullPacket(c) == SEND_BUFF_SIZE

\* Mutant: what would be left behind full packets.
RestOfPacket(c) == (occupied_size[c] - c_bytes_sent[c]) % SEND_BUFF_SIZE

shift(c) ==
  LET bytes_left == occupied_size[c] - c_bytes_sent[c]
  IN  IF bytes_left < SEND_BUFF_SIZE THEN bytes_left ELSE SEND_BUFF_SIZE

\* Mutant: every piece is copied from the beginning of the input.
SameStart(c, i) ==
  IF i = 1 THEN DATA(SessionId[c], c_package_id[c], shift(c))
  ELSE IF i <= 1 + shift(c) THEN Byte(c, i - 2)
  ELSE Padding

\* Mutant: the header counts the room of the structure, not the piece in it.
FullHeader(c, i) ==
  IF i = 1 THEN DATA(SessionId[c], c_package_id[c], SEND_BUFF_SIZE)
  ELSE IF i <= 1 + shift(c) THEN Byte(c, c_bytes_sent[c] + i - 2)
  ELSE Padding

\* Item i of the DATA structure, which always has 1 + SEND_BUFF_SIZE of them.
Structure(c, i) ==
  IF i = 1 THEN DATA(SessionId[c], c_package_id[c], shift(c))
  ELSE IF i <= 1 + shift(c) THEN Byte(c, c_bytes_sent[c] + i - 2)
  ELSE Padding

TCP_WritePart(c) ==
  /\ c_pc[c] = "DATA"
  /\ c_written[c] < SEND_BUFF_SIZE
  /\ Write(c, Structure(c, c_written[c] + 1))
  /\ c_written' = [c_written EXCEPT ![c] = @ + 1]
  /\ UNCHANGED <<c_pc, c_package_id, c_bytes_sent>>

\* writen() is done, and the next piece is cut.
TCP_WriteLast(c) ==
  /\ c_pc[c] = "DATA"
  /\ c_written[c] = SEND_BUFF_SIZE
  /\ Write(c, Structure(c, SEND_BUFF_SIZE + 1))
  /\ c_written' = [c_written EXCEPT ![c] = 0]
  /\ c_package_id' = [c_package_id EXCEPT ![c] = @ + 1]
  /\ c_bytes_sent' = [c_bytes_sent EXCEPT ![c] = @ + shift(c)]
  /\ Goto(c, AfterBytes(c, c_bytes_sent[c] + shift(c)))

\* Mutant: send_data_wrapper goes on after a failed write().
OnlyCONNFails(c) ==
  c_pc[c] = "CONN" /\ Unwritable(c) /\ Quit(c, "failed")

TCP_WriteFails(c) ==
  c_pc[c] \in {"CONN", "DATA"} /\ Unwritable(c) /\ Quit(c, "failed")

-----------------------------------------------------------------------------

\* Mutant: the type of the packet is not looked at.
AnyAnswer(c, item) ==
  /\ c_pc[c] = "wait_RCVD"
  /\ Arrived(c, item) /\ item.sid = SessionId[c]
  /\ Leave(c, "done", Tail(down[c]))

check_RCVD(c, item) ==
  /\ c_pc[c] = "wait_RCVD"
  /\ Arrived(c, item) /\ item = Answer("RCVD", SessionId[c])
  /\ Leave(c, "done", Tail(down[c]))

\* RJT, or anything else in place of the awaited packet.
TCP_GetWrongPacket(c, item) ==
  /\ Arrived(c, item)
  /\ \/ c_pc[c] = "wait_CONACC" /\ item # Answer("CONACC", SessionId[c])
     \/ c_pc[c] = "wait_RCVD" /\ item # Answer("RCVD", SessionId[c])
  /\ Leave(c, "failed", Tail(down[c]))

TCP_GetNothing(c) == c_pc[c] \in Waiting /\ AtEnd(c) /\ Quit(c, "failed")

TCP_Timeout(c) == c_pc[c] \in Waiting /\ Quit(c, "failed")

Killed(c) == Faults /\ c_pc[c] \notin Ended /\ Quit(c, "failed")

-----------------------------------------------------------------------------

\* A client may end before it connects: for its arguments, its input, or the
\* server's name.
InitTCPClient ==
  /\ c_pc = [c \in Client |-> IF c \in gone THEN "failed" ELSE "connect"]
  /\ c_package_id = [c \in Client |-> 0]
  /\ c_bytes_sent = [c \in Client |-> 0]
  /\ c_written = [c \in Client |-> 0]

TCP_ClientStep(c) ==
  \/ TCP_Connect(c)
  \/ TCP_ConnectFails(c)
  \/ TCP_client_send_CONN(c)
  \/ TCP_WritePart(c)
  \/ TCP_WriteLast(c)
  \/ TCP_WriteFails(c)
  \/ \E i \in 1 .. Len(down[c]) :
       \/ check_CONACC(c, down[c][i])
       \/ check_RCVD(c, down[c][i])
       \/ TCP_GetWrongPacket(c, down[c][i])
  \/ TCP_GetNothing(c)
  \/ TCP_Timeout(c)

TypeOKTCPClient ==
  /\ c_pc \in [Client -> {"connect", "CONN", "DATA"} \cup Waiting \cup Ended]
  /\ c_package_id \in [Client -> Nat]
  /\ c_bytes_sent \in [Client -> Nat]
  /\ \A c \in Client : c_bytes_sent[c] <= occupied_size[c]
  /\ c_written \in [Client -> 0 .. SEND_BUFF_SIZE]
=============================================================================
