------------------------------ MODULE Streams ------------------------------
(***************************************************************************)
(* The TCP connections between the clients and the server, as the code uses *)
(* them through connect, accept, read, write and close.  The kernels' side  *)
(* is outside src/.  A packet's fixed part is read and written as one item, *)
(* because a part of it is worth to readn()'s callers what its absence is;  *)
(* the bytes after the fixed part of a DATA packet are items of their own.  *)
(***************************************************************************)
EXTENDS Integers, Sequences

CONSTANTS
  Client,      \* the ppcbc processes, each with one connection
  Peer,        \* connections of other programs
  Sid,         \* session ids
  Scenario,    \* which clients run and what the other programs have to write
  Window,      \* how many items the buffers of a connection hold
  QUEUE_LEN    \* how many connections may wait for accept()

Party == Client \cup Peer

Kind == {"CONN", "CONACC", "DATA", "RJT", "RCVD"}

\* The fixed part of a packet; `bytes' is the length that CONN or DATA declares
\* and `tcp' says whether the protocol id of a CONN is TCP_PROTOCOL.
Packet == [kind : Kind, sid : Sid, tcp : BOOLEAN, id : Nat, bytes : Nat]

\* The bytes of a file, and those that are no part of any.
Content == [kind : {"byte"}, of : Party, off : Nat]
Padding == [kind |-> "padding"]

Item == Packet \cup Content \cup {Padding}

ASSUME StreamAssumption ==
  /\ Client \cap Peer = {}
  /\ Window \in Nat \ {0} /\ QUEUE_LEN \in Nat \ {0}

\* A scenario is a set of clients that get as far as connecting, and the items
\* that each other program writes on its connection.
ASSUME ScenarioAssumption ==
  \A s \in Scenario :
    s.clients \subseteq Client /\ s.scripts \in [Peer -> Seq(Item)]

VARIABLES
  up,         \* what each party has written and the server has not read; for
              \* a peer, from the start, all it is going to write
  down,       \* what the server has written and the party has not read
  backlog,    \* the connections that wait for accept(), in order
  link,       \* "none"; "open"; "shut" when the server has closed its end;
              \* "reset" when the party's kernel has learnt that it did so
              \* without reading everything
  gone,       \* the parties that have closed their end
  listening   \* is the server's socket open?

stream_vars == <<up, down, backlog, link, gone, listening>>

-----------------------------------------------------------------------------
(* The packets, as the init_ functions fill them in.                       *)

Fixed(kind, sid, id, n) ==
  [kind |-> kind, sid |-> sid, tcp |-> TRUE, id |-> id, bytes |-> n]

CONN(sid, n) == Fixed("CONN", sid, 0, n)

DATA(sid, id, n) == Fixed("DATA", sid, id, n)

\* CONACC, RJT and RCVD.  (No receiver reads the id of an RJT.)
Answer(kind, sid) == Fixed(kind, sid, 0, 0)

Byte(c, off) == [kind |-> "byte", of |-> c, off |-> off]

-----------------------------------------------------------------------------
(* The party's end.                                                        *)

Beginnings(s) == {SubSeq(s, 1, n) : n \in 0 .. Len(s)}

Connect(c) ==
  /\ listening /\ link[c] = "none"
  /\ Len(backlog) < QUEUE_LEN
  /\ backlog' = Append(backlog, c)
  /\ link' = [link EXCEPT ![c] = "open"]
  /\ UNCHANGED <<up, down, gone, listening>>

\* write() takes an item.  What is written to a server that has closed its end
\* is answered with a reset, which comes at once or later.
Write(c, item) ==
  /\ \/ /\ link[c] = "open" /\ Len(up[c]) < Window
        /\ up' = [up EXCEPT ![c] = Append(@, item)]
        /\ UNCHANGED link
     \/ /\ link[c] = "shut"
        /\ link' \in {link, [link EXCEPT ![c] = "reset"]}
        /\ UNCHANGED up
  /\ UNCHANGED <<down, backlog, gone, listening>>

\* write() returns -1 with EPIPE or ECONNRESET.
Unwritable(c) == link[c] = "reset"

\* read() has the item for the party.
Arrived(c, item) == down[c] # <<>> /\ item = Head(down[c])

Receive(c, item) ==
  /\ Arrived(c, item)
  /\ down' = [down EXCEPT ![c] = Tail(@)]
  /\ UNCHANGED <<up, backlog, link, gone, listening>>

\* read() returns 0, or -1 with ECONNRESET.
AtEnd(c) == down[c] = <<>> /\ link[c] \in {"shut", "reset"}

\* The party closes its end.  If it leaves something unread, a reset is sent that
\* discards what of its own bytes has not got through.
PartyCloses(c, unread) ==
  /\ gone' = gone \cup {c}
  /\ down' = [down EXCEPT ![c] = <<>>]
  /\ IF unread = <<>> THEN UNCHANGED up
     ELSE \E s \in Beginnings(up[c]) : up' = [up EXCEPT ![c] = s]
  /\ UNCHANGED <<backlog, link, listening>>

-----------------------------------------------------------------------------
(* The server's end.                                                       *)

Accept(c) ==
  /\ backlog # <<>> /\ c = Head(backlog)
  /\ backlog' = Tail(backlog)
  /\ UNCHANGED <<up, down, link, gone, listening>>

\* The server has `rest' of the stream unread and writes the answers.
Answers(c, rest, answers) ==
  /\ up' = [up EXCEPT ![c] = rest]
  /\ down' = [down EXCEPT ![c] = IF c \in gone THEN <<>> ELSE @ \o answers]
  /\ UNCHANGED <<backlog, link, gone, listening>>

\* The same, and the server closes its end.  When it leaves something unread that
\* has arrived, a reset is sent that discards what of its answers has not got
\* through; what arrives later is answered with a reset.
AnswersAndCloses(c, rest, answers) ==
  LET sent == IF c \in gone THEN <<>> ELSE down[c] \o answers
  IN  /\ up' = [up EXCEPT ![c] = <<>>]
      /\ \/ /\ link' = [link EXCEPT ![c] = "shut"]
            /\ down' = [down EXCEPT ![c] = sent]
         \/ /\ rest # <<>>
            /\ link' = [link EXCEPT ![c] = "reset"]
            /\ \E s \in Beginnings(sent) : down' = [down EXCEPT ![c] = s]
      /\ UNCHANGED <<backlog, gone, listening>>

\* The server's socket is closed: the waiting connections are reset.
StopListening ==
  /\ listening' = FALSE
  /\ backlog' = <<>>
  /\ link' = [c \in Party |-> IF \E i \in 1 .. Len(backlog) : backlog[i] = c
                              THEN "reset" ELSE link[c]]
  /\ up' = [c \in Party |-> IF \E i \in 1 .. Len(backlog) : backlog[i] = c
                            THEN <<>> ELSE up[c]]
  /\ UNCHANGED <<down, gone>>

InitStreams ==
  /\ \E s \in Scenario :
       /\ up = [c \in Party |-> IF c \in Peer THEN s.scripts[c] ELSE <<>>]
       /\ gone = Client \ s.clients
  /\ down = [c \in Party |-> <<>>]
  /\ backlog = <<>>
  /\ link = [c \in Party |-> "none"]
  /\ listening = TRUE

TypeOKStreams ==
  /\ up \in [Party -> Seq(Item)]
  /\ down \in [Party -> Seq(Packet)]
  /\ backlog \in Seq(Party)
  /\ link \in [Party -> {"none", "open", "shut", "reset"}]
  /\ gone \subseteq Party
  /\ listening \in BOOLEAN
=============================================================================
