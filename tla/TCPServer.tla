----------------------------- MODULE TCPServer -----------------------------
(***************************************************************************)
(* ppcbs serving TCP (server_TCP_lib.c): one accepted connection at a time *)
(* is read to its end.                                                     *)
(***************************************************************************)
EXTENDS Streams

CONSTANTS
  MAX_ALLOWED_PACKET_SIZE,
  MaxSigint,                 \* bound: how many SIGINTs the server gets
  Nobody                     \* client_fd is -1

ASSUME TCPServerAssumption ==
  /\ MAX_ALLOWED_PACKET_SIZE \in Nat \ {0} /\ MaxSigint \in Nat
  /\ Nobody \notin Party

VARIABLES
  t_pc,              \* what is waited for: "accept", "CONN", "header" or
                     \* "data" (the two reads of a DATA packet), or "exit"
  t_client,          \* client_fd
  t_conn,            \* the session id and the length that CONN gave
  t_packet_id,       \* curr_packet_id
  t_bytes_received,  \* nbr_of_bytes_received: what the headers have announced
  t_rest,            \* how much of the packet's data is still to be read
  finish,            \* the flag catch_int sets
  sigints,           \* how many SIGINTs came (for the bound)
  t_received,        \* history: what was read as data in this session
  delivered          \* history: the sessions that ended with an RCVD

tcp_server_vars == <<t_pc, t_client, t_conn, t_packet_id, t_bytes_received,
                     t_rest, finish, sigints, t_received, delivered>>

session_vars == <<t_conn, t_packet_id, t_bytes_received, t_rest, t_received>>

signal_vars == <<finish, sigints>>

NoConn == [sid |-> "none", bytes |-> 0]

\* Mutant: nbr_of_bytes_received kept from the connection before.
KeepBytes ==
  /\ t_pc' = "accept" /\ t_client' = Nobody /\ t_conn' = NoConn
  /\ t_packet_id' = 0 /\ UNCHANGED t_bytes_received /\ t_rest' = 0
  /\ t_received' = <<>>

\* The server waits for the next connection.
NextClient ==
  /\ t_pc' = "accept" /\ t_client' = Nobody /\ t_conn' = NoConn
  /\ t_packet_id' = 0 /\ t_bytes_received' = 0 /\ t_rest' = 0
  /\ t_received' = <<>>

-----------------------------------------------------------------------------
(* Accepting a connection.                                                 *)

TCP_wait_for_client(c) ==
  /\ t_pc = "accept"
  /\ Accept(c)
  /\ t_pc' = "CONN" /\ t_client' = c
  /\ UNCHANGED <<session_vars, signal_vars, delivered>>

\* read() has item for the server in this call.
Reads(c, item, pc) ==
  /\ t_pc = pc /\ c = t_client
  /\ up[c] # <<>> /\ item = Head(up[c])

IsCONN(item) == item.kind = "CONN" /\ item.tcp

AcceptCONN(c, item) ==
  /\ Reads(c, item, "CONN")
  /\ IsCONN(item) /\ item.bytes > 0
  /\ Answers(c, Tail(up[c]), <<Answer("CONACC", item.sid)>>)
  /\ t_pc' = "header"
  /\ t_conn' = [sid |-> item.sid, bytes |-> item.bytes]
  /\ UNCHANGED <<t_client, t_packet_id, t_bytes_received, t_rest, t_received,
                 signal_vars, delivered>>

\* A CONN that declares no bytes is answered with CONACC and RCVD.
AcceptEmptyCONN(c, item) ==
  /\ Reads(c, item, "CONN")
  /\ IsCONN(item) /\ item.bytes = 0
  /\ AnswersAndCloses(c, Tail(up[c]),
                      <<Answer("CONACC", item.sid), Answer("RCVD", item.sid)>>)
  /\ NextClient
  /\ delivered' = delivered \cup
                    {[addr |-> c, sid |-> item.sid, received |-> <<>>]}
  /\ UNCHANGED signal_vars

\* Mutant: a client that is turned down keeps its descriptor.
RefuseWithoutClose(c, item) ==
  /\ Reads(c, item, "CONN")
  /\ ~ IsCONN(item) \/ c \in gone
  /\ Answers(c, Tail(up[c]), <<>>)
  /\ NextClient
  /\ UNCHANGED <<signal_vars, delivered>>

\* Something else than CONN, or CONACC cannot be written.
RefuseCONN(c, item) ==
  /\ Reads(c, item, "CONN")
  /\ ~ IsCONN(item) \/ c \in gone
  /\ AnswersAndCloses(c, Tail(up[c]), <<>>)
  /\ NextClient
  /\ UNCHANGED <<signal_vars, delivered>>

-----------------------------------------------------------------------------
(* Reading DATA packets.                                                   *)

\* handle_RJT_sending, with what is left of the stream.
Reject(c, rest) ==
  /\ AnswersAndCloses(c, rest, <<Answer("RJT", t_conn.sid)>>)
  /\ NextClient
  /\ UNCHANGED delivered

IsDATA(item) ==
  /\ item.kind = "DATA" /\ item.sid = t_conn.sid /\ item.id = t_packet_id
  /\ item.bytes <= MAX_ALLOWED_PACKET_SIZE

\* Mutant: the announced bytes are not counted.
UncountedHeader(c, item) ==
  /\ Reads(c, item, "header")
  /\ IsDATA(item)
  /\ t_bytes_received + item.bytes <= t_conn.bytes
  /\ Answers(c, Tail(up[c]), <<>>)
  /\ t_packet_id' = t_packet_id + 1
  /\ t_rest' = item.bytes
  /\ t_pc' = IF item.bytes = 0 THEN "header" ELSE "data"
  /\ UNCHANGED <<t_client, t_conn, t_bytes_received, t_received, signal_vars,
                 delivered>>

\* TCP_get_DATA_metainfo: the header announces data that fits.
TCP_get_DATA_metainfo(c, item) ==
  /\ Reads(c, item, "header")
  /\ IsDATA(item)
  /\ t_bytes_received + item.bytes <= t_conn.bytes
  /\ Answers(c, Tail(up[c]), <<>>)
  /\ t_bytes_received' = t_bytes_received + item.bytes
  /\ t_packet_id' = t_packet_id + 1
  /\ t_rest' = item.bytes
  /\ t_pc' = IF item.bytes = 0 THEN "header" ELSE "data"
  /\ UNCHANGED <<t_client, t_conn, t_received, signal_vars, delivered>>

\* Not the next DATA packet, or more data than CONN declared.
RejectHeader(c, item) ==
  /\ Reads(c, item, "header")
  /\ ~ (IsDATA(item) /\ t_bytes_received + item.bytes <= t_conn.bytes)
  /\ Reject(c, Tail(up[c]))
  /\ UNCHANGED signal_vars

\* TCP_read_data_to_buf gets the next of the packet's bytes, whatever they are.
TCP_read_data_to_buf(c, item) ==
  /\ Reads(c, item, "data")
  /\ t_rest > 1 \/ t_bytes_received < t_conn.bytes
  /\ Answers(c, Tail(up[c]), <<>>)
  /\ t_received' = Append(t_received, item)
  /\ t_rest' = t_rest - 1
  /\ t_pc' = IF t_rest = 1 THEN "header" ELSE "data"
  /\ UNCHANGED <<t_client, t_conn, t_packet_id, t_bytes_received, signal_vars,
                 delivered>>

\* The last of the declared bytes: RCVD, and no look at what follows.
FinishSession(c, item) ==
  /\ Reads(c, item, "data")
  /\ t_rest = 1 /\ t_bytes_received = t_conn.bytes
  /\ AnswersAndCloses(c, Tail(up[c]), <<Answer("RCVD", t_conn.sid)>>)
  /\ delivered' = delivered \cup
       {[addr |-> c, sid |-> t_conn.sid,
         received |-> Append(t_received, item)]}
  /\ NextClient
  /\ UNCHANGED signal_vars

-----------------------------------------------------------------------------
(* readn() fails: end of the stream, MAX_WAIT seconds, or EINTR.           *)

ReadFails(c) ==
  /\ c = t_client
  /\ \/ /\ t_pc = "CONN"
        /\ AnswersAndCloses(c, up[c], <<>>)
        /\ NextClient /\ UNCHANGED delivered
     \/ t_pc \in {"header", "data"} /\ Reject(c, up[c])

EndOfStream(c) ==
  /\ c \in gone /\ up[c] = <<>>
  /\ ReadFails(c)
  /\ UNCHANGED signal_vars

\* Mutant: no timer runs once CONN has come.
TimeoutBeforeCONN(c) == t_pc = "CONN" /\ ReadFails(c) /\ UNCHANGED signal_vars

TCP_ServerTimeout(c) == ReadFails(c) /\ UNCHANGED signal_vars

Interrupted == sigints < MaxSigint /\ sigints' = sigints + 1 /\ finish' = TRUE

SigintInSession(c) == Interrupted /\ ReadFails(c)

\* Only a failed accept() makes the server look at finish.
SigintInAccept ==
  /\ Interrupted
  /\ t_pc = "accept"
  /\ t_pc' = "exit"
  /\ StopListening
  /\ UNCHANGED <<t_client, session_vars, delivered>>

SigintBetweenCalls ==
  /\ Interrupted
  /\ t_pc # "exit"
  /\ UNCHANGED <<stream_vars, t_pc, t_client, session_vars, delivered>>

-----------------------------------------------------------------------------

InitTCPServer ==
  /\ t_pc = "accept" /\ t_client = Nobody /\ t_conn = NoConn
  /\ t_packet_id = 0 /\ t_bytes_received = 0 /\ t_rest = 0
  /\ finish = FALSE /\ sigints = 0
  /\ t_received = <<>> /\ delivered = {}

TCP_ServerReads(c, item) ==
  \/ AcceptCONN(c, item)
  \/ AcceptEmptyCONN(c, item)
  \/ RefuseCONN(c, item)
  \/ TCP_get_DATA_metainfo(c, item)
  \/ RejectHeader(c, item)
  \/ TCP_read_data_to_buf(c, item)
  \/ FinishSession(c, item)

TypeOKTCPServer ==
  /\ t_pc \in {"accept", "CONN", "header", "data", "exit"}
  /\ t_client \in Party \cup {Nobody}
  /\ t_client = Nobody <=> t_pc \in {"accept", "exit"}
  /\ t_conn \in [sid : Sid, bytes : Nat] \cup {NoConn}
  /\ t_packet_id \in Nat /\ t_bytes_received \in Nat /\ t_rest \in Nat
  /\ finish \in BOOLEAN /\ sigints \in 0 .. MaxSigint
  /\ t_received \in Seq(Item)
  /\ delivered \subseteq [addr : Party, sid : Sid, received : Seq(Item)]
=============================================================================
