------------------------------- MODULE MCTCP -------------------------------
(***************************************************************************)
(* Instances of PPCBoverTCP for TLC.                                       *)
(***************************************************************************)
EXTENDS PPCBoverTCP, TCPTests

CONSTANTS a, b, w, p, sa, sp, sx, sy

\* All clients draw the same session id.
SameSessionId == [c \in Client |-> sa]

\* A padded packet, an empty file, and two packets as long as their structures.
Sizes304 == [c \in Client |-> IF c = a THEN 3 ELSE IF c = b THEN 0 ELSE 4]
Size1 == [c \in Client |-> 1]

MCFixedIds == <<sx, sy>>

\* Another program writes what a test writes, or a CONN that declares no bytes, a
\* header without its data, a packet longer than is allowed, a packet of no bytes.
Tests ==
  LET one == CONN(sp, 1)
  IN  TCP_UDP_client_tests \cup
      {<<CONN(sp, 0)>>,
       <<one, DATA(sp, 0, 1)>>,
       <<one, DATA(sp, 0, 3)>>,
       <<one, DATA(sp, 0, 0), DATA(sp, 1, 1), Byte(p, 0)>>}

Saying(clients, s) == [clients |-> clients, scripts |-> [x \in Peer |-> s]]

OnlyClients == {Saying(Client, <<>>)}

\* Two clients and a program that sends a first piece and no more; a client with full
\* packets and one with an empty file; the client with the padded packet and one of
\* the tests.
ClientsAndTests ==
  {Saying({a, b}, <<conn>> \o data(0, PieceSize)), Saying({b, w}, <<>>)} \cup
  {Saying({a}, test) : test \in Tests}
=============================================================================
