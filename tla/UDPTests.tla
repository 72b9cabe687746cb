------------------------------ MODULE UDPTests ------------------------------
(***************************************************************************)
(* The test client over UDP (client_tests_lib.c), which ppcbc runs in      *)
(* place of a transfer when DO_TESTS is set.  It reads no answer and its   *)
(* pauses are only time, so that a test is the sequence of datagrams that  *)
(* it sends.                                                               *)
(***************************************************************************)
EXTENDS Datagrams, Sequences

LOCAL INSTANCE SequencesExt

CONSTANTS
  Tester,      \* the address of the socket of a test
  NewSocket,   \* the address of the second one that some tests open
  session_id,
  FixedIds,    \* the ids the tests use in its place: <<2137, 2136>>
  FileSize,    \* vec->occupied_size, which the tests send in a single packet
  PieceSize,   \* what a first piece of the file has: 5, 6 or 7 bytes
  Excess       \* by how much a test declares too many: 20 bytes

ASSUME TesterAssumption ==
  /\ {Tester, NewSocket} \subseteq Peer
  /\ {session_id, FixedIds[1], FixedIds[2]} \subseteq Sid
  /\ FileSize \in Nat /\ PieceSize \in 1 .. FileSize - 1 /\ Excess \in Nat \ {0}

conn(protocol) == CONN(Tester, session_id, protocol, FileSize)

data(id, n) == DATA(Tester, session_id, id, 0, n)

\* A packet whose length is not the one its type calls for.
Missized(m) == [m EXCEPT !.sized = FALSE]

-----------------------------------------------------------------------------

\* Another session's DATA, and with it the unused end of the structure; the
\* protocol number of TCP; DATA_ID in a CONN; nothing more than a CONN.
WrongCONN(protocol) ==
  {<<CONN(Tester, FixedIds[1], protocol, FileSize),
     Missized(DATA(Tester, FixedIds[2], 0, 0, FileSize))>>,
   <<CONN(Tester, session_id, "none", FileSize)>>,
   <<Missized([conn(protocol) EXCEPT !.kind = "DATA"])>>,
   <<conn(protocol)>>}

\* CONN twice before the socket is closed.
UDP_send_WRONG_CONN(protocol) ==
  WrongCONN(protocol) \cup {<<conn(protocol), conn(protocol)>>}

\* The same, and then the CONN of a new client.
UDPR_send_WRONG_CONN(protocol) ==
  WrongCONN(protocol) \cup
  {<<conn(protocol), conn(protocol),
     CONN(NewSocket, FixedIds[1], protocol, FileSize)>>}

\* The second packet is of another session; CONN_ID in a DATA; a second packet
\* with the id of the first one, and with one that is not its turn; fewer bytes
\* than declared, and the CONN of a new client; more bytes than declared; a
\* packet longer than its count says.
WrongDATA(protocol) ==
  {<<CONN(Tester, session_id, protocol, 2 * FileSize), data(0, FileSize),
     DATA(Tester, FixedIds[1], 1, 0, FileSize)>>,
   <<conn(protocol), Missized([data(0, FileSize) EXCEPT !.kind = "CONN"])>>,
   <<conn(protocol), data(0, PieceSize), data(0, FileSize - PieceSize)>>,
   <<conn(protocol), data(0, PieceSize), data(3, FileSize - PieceSize)>>,
   <<CONN(Tester, session_id, protocol, FileSize + Excess),
     data(0, PieceSize), data(1, FileSize),
     CONN(NewSocket, session_id, protocol, FileSize)>>,
   <<conn(protocol), data(0, PieceSize), data(1, FileSize)>>,
   <<conn(protocol), Missized(data(0, PieceSize))>>}

\* A first piece and no more.
UDP_send_WRONG_DATA(protocol) ==
  WrongDATA(protocol) \cup {<<conn(protocol), data(0, PieceSize)>>}

\* The first piece twice; CONN once more after DATA, and before it; the whole
\* file, late; a packet of somebody else between two pieces.
UDPR_send_WRONG_DATA(protocol) ==
  WrongDATA(protocol) \cup
  {<<conn(protocol), data(0, PieceSize), data(0, PieceSize)>>,
   <<conn(protocol), data(0, PieceSize), conn(protocol)>>,
   <<conn(protocol), data(0, FileSize)>>,
   <<conn(protocol), conn(protocol), data(0, FileSize)>>,
   <<conn(protocol), data(0, PieceSize),
     DATA(NewSocket, FixedIds[1], 0, 0, FileSize),
     data(1, FileSize - PieceSize)>>}

TCP_UDP_client_tests(protocol) ==
  IF protocol = "UDP"
  THEN UDP_send_WRONG_CONN(protocol) \cup UDP_send_WRONG_DATA(protocol)
  ELSE UDPR_send_WRONG_CONN(protocol) \cup UDPR_send_WRONG_DATA(protocol)

\* What a test puts on the wire: sendto() keeps no order.
Sent(test) == ToBag(test)
=============================================================================
