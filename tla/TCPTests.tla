------------------------------ MODULE TCPTests ------------------------------
(***************************************************************************)
(* The test client over TCP (client_tests_lib.c), which ppcbc runs in      *)
(* place of a transfer when DO_TESTS is set.  It reads no answer and leaves *)
(* most of its connections open, so that a test is what it writes.         *)
(***************************************************************************)
EXTENDS Streams

CONSTANTS
  Tester,      \* the connection of a test
  session_id,
  FixedIds,    \* the ids the tests use in its place: <<2137, 2136>>
  FileSize,    \* vec->occupied_size, which the tests send in a single packet
  PieceSize,   \* what a first piece of the file has: 5, 6 or 7 bytes
  Excess       \* by how much a test declares too many: 20 bytes

ASSUME TesterAssumption ==
  /\ Tester \in Peer
  /\ {session_id, FixedIds[1], FixedIds[2]} \subseteq Sid
  /\ FileSize \in Nat /\ PieceSize \in 1 .. FileSize - 1 /\ Excess \in Nat \ {0}

conn == CONN(session_id, FileSize)

\* DATA with n bytes of the file.
package(sid, id, n) == <<DATA(sid, id, n)>> \o [i \in 1 .. n |-> Byte(Tester, i - 1)]

data(id, n) == package(session_id, id, n)

-----------------------------------------------------------------------------

\* Another session's DATA; the protocol number of UDP; DATA_ID in a CONN; nothing
\* more than a CONN, which may come late; CONN twice; and the connection opened
\* for the next test, when there is none.
TCP_send_WRONG_CONN ==
  {<<CONN(FixedIds[1], FileSize)>> \o package(FixedIds[2], 0, FileSize),
   <<[conn EXCEPT !.tcp = FALSE]>>,
   <<[conn EXCEPT !.kind = "DATA"]>>,
   <<conn>>,
   <<conn, conn>>,
   <<>>}

\* The second packet is of another session; CONN_ID in a DATA; a first piece and
\* no more; a second packet with the id of the first one, and with one that is not
\* its turn; fewer bytes than declared; more bytes than declared; more bytes than
\* the packet's count says, as many as another header has.
TCP_send_WRONG_DATA ==
  {<<CONN(session_id, 2 * FileSize)>> \o data(0, FileSize)
     \o package(FixedIds[1], 1, FileSize),
   <<conn, [DATA(session_id, 0, FileSize) EXCEPT !.kind = "CONN"]>>
     \o [i \in 1 .. FileSize |-> Byte(Tester, i - 1)],
   <<conn>> \o data(0, PieceSize),
   <<conn>> \o data(0, PieceSize) \o data(0, FileSize - PieceSize),
   <<conn>> \o data(0, PieceSize) \o data(3, FileSize - PieceSize),
   <<CONN(session_id, FileSize + Excess)>> \o data(0, PieceSize)
     \o data(1, FileSize),
   <<conn>> \o data(0, PieceSize) \o data(1, FileSize),
   <<conn>> \o data(0, PieceSize) \o <<Padding>>}

TCP_UDP_client_tests == TCP_send_WRONG_CONN \cup TCP_send_WRONG_DATA
=============================================================================
