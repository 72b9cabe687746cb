------------------------------- MODULE MCUDP -------------------------------
(***************************************************************************)
(* Instances of PPCBoverUDP for TLC.                                       *)
(***************************************************************************)
EXTENDS PPCBoverUDP, UDPTests

CONSTANTS a, b, p, q, S, sa, sb, sp, sx, sy

\* a, b and p run on hosts of their own; q is another host's program that
\* happens to use the server's port number.
MCIpOf == [x \in {a, b, p, q, S} |-> x]
MCPortOf == [x \in {a, b, p, q, S} |-> IF x \in {q, S} THEN "server port"
                                       ELSE "another port"]

\* Clients started in the same second draw the same session id: main() seeds
\* rand() with time(NULL).
SameSessionId == [c \in Client |-> sa]

MCSessionId == [c \in Client |-> IF c = a THEN sa ELSE sb]

BothUDPR == [c \in Client |-> "UDPR"]
BothUDP == [c \in Client |-> "UDP"]
UDPandUDPR == [c \in Client |-> IF c = a THEN "UDP" ELSE "UDPR"]

\* A file of two packets, the second one not full, and one that a single full
\* packet carries.
Sizes32 == [c \in Client |-> IF c = a THEN 3 ELSE 2]
Size3 == [c \in Client |-> 3]
Size1 == [c \in Client |-> 1]
SecondEmpty == [c \in Client |-> IF c = a THEN 1 ELSE 0]

\* The clients alone.
NobodyElse == [clients |-> Client, strays |-> EmptyBag]

OnlyClients == {NobodyElse}

\* A datagram without bytes.
Nothing(src, dst) ==
  [Packet("nothing", src, dst, sp, "none", 0, 0, 0) EXCEPT !.sized = FALSE]

\* q sends an ACC to the server's client b, or p a datagram without bytes to a.
Intruders ==
  {[clients |-> Client,
    strays |-> SetToBag({Packet("ACC", q, b, sp, "none", 0, 0, 0)})],
   [clients |-> {a}, strays |-> SetToBag({Nothing(p, a)})]}

MCFixedIds == <<sx, sy>>

\* A program opens a session and then sends packets of no bytes and of too many,
\* a CONN that declares no bytes, and a datagram without bytes.
Odd == SetToBag({CONN(p, sp, "UDPR", 1), CONN(p, sp, "UDPR", 0),
                 DATA(p, sp, 0, 0, 0), DATA(p, sp, 0, 0, 3), Nothing(p, S)})

\* Two clients; one of them and that program; one and a datagram without bytes;
\* one and a test.
ClientsAndTests ==
  {NobodyElse, [clients |-> {a}, strays |-> Odd],
   [clients |-> {a}, strays |-> SetToBag({Nothing(p, a)})]} \cup
  {[clients |-> {b}, strays |-> Sent(test)] :
     test \in TCP_UDP_client_tests("UDP") \cup TCP_UDP_client_tests("UDPR")}
=============================================================================
