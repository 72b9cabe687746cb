----------------------------- MODULE Datagrams -----------------------------
(***************************************************************************)
(* The UDP sockets of the PPCB programs and the network between them, as   *)
(* the code uses them through sendto() and recvfrom(): datagrams may be    *)
(* lost, duplicated, delayed without bound and reordered.  The network is  *)
(* outside src/; the packets it carries are those of packet_structures.c.  *)
(***************************************************************************)
EXTENDS Integers, Bags

CONSTANTS
  Client,          \* addresses of the ppcbc processes, one transfer each
  Peer,            \* addresses of other programs that send datagrams
  Server,          \* the address of the ppcbs process
  NoAddr,          \* a zeroed struct sockaddr_in
  IpOf,            \* the IP address of each address
  PortOf,          \* the port of each address
  NoIp,            \* real_server_s_addr before the first datagram arrived
  Sid,             \* session ids
  Scenario,        \* which clients run and what the peers have sent
  LossyNetwork,    \* may the network lose datagrams?
  MaxDuplicates,   \* bound: how many times the network duplicates one
  Faults,          \* may sendto() fail and a client be killed?
  MAX_RETRANSMITS  \* of protconst.h: how often a packet is sent again

Addr == Client \cup Peer \cup {Server}

Protocol == {"UDP", "UDPR"}

\* "nothing" is a datagram without a single byte.
Kind == {"CONN", "CONACC", "CONRJT", "DATA", "ACC", "RJT", "RCVD", "nothing"}

\* A datagram: the fields of all packet structures in one record.  `bytes' is
\* the length CONN declares or the length of the piece that DATA carries, `off'
\* names the piece by its position in the client's file, and `sized' says that
\* the datagram has exactly the length its type and `bytes' call for.
Datagram == [kind : Kind, src : Addr, dst : Addr \cup {NoAddr}, sid : Sid,
             proto : Protocol \cup {"none"}, id : Nat, bytes : Nat, off : Nat,
             sized : BOOLEAN]

ASSUME AddressAssumption ==
  /\ Server \notin Client \cup Peer
  /\ Client \cap Peer = {}
  /\ NoAddr \notin Addr
  /\ NoIp \notin {IpOf[a] : a \in Addr}

\* A scenario is a set of clients that get as far as sending, and the bag of the
\* datagrams that the peers send, which wait for no answer.
ASSUME ScenarioAssumption ==
  \A s \in Scenario :
    /\ s.clients \subseteq Client
    /\ IsABag(s.strays)
    /\ \A m \in BagToSet(s.strays) : m \in Datagram /\ m.src \in Peer

\* The datagrams of all peers.
Stray == UNION {BagToSet(s.strays) : s \in Scenario}

ASSUME NetworkAssumption ==
  /\ LossyNetwork \in BOOLEAN /\ MaxDuplicates \in Nat
  /\ Faults \in BOOLEAN /\ MAX_RETRANSMITS \in Nat

VARIABLES
  net,         \* the datagrams in flight or in a socket's queue, as a bag
  open,        \* the processes whose socket is open
  duplicates   \* how many datagrams the network has duplicated

dgram_vars == <<net, open, duplicates>>

InFlight == BagToSet(net)

-----------------------------------------------------------------------------
(* The packets, as the init_ functions fill them in.                       *)

Packet(kind, src, dst, sid, proto, id, off, n) ==
  [kind |-> kind, src |-> src, dst |-> dst, sid |-> sid, proto |-> proto,
   id |-> id, off |-> off, bytes |-> n, sized |-> TRUE]

CONN(c, sid, proto, n) == Packet("CONN", c, Server, sid, proto, 0, 0, n)

DATA(c, sid, id, off, n) == Packet("DATA", c, Server, sid, "none", id, off, n)

ACC(dst, sid, id) == Packet("ACC", Server, dst, sid, "none", id, 0, 0)

\* CONACC, CONRJT, RJT and RCVD.  (No receiver reads the id of an RJT.)
Answer(kind, dst, sid) == Packet(kind, Server, dst, sid, "none", 0, 0, 0)

\* recvfrom() returns 0 for m.
Empty(m) == m.kind = "nothing"

-----------------------------------------------------------------------------
(* sendto(), recvfrom() and close() of the processes.                      *)

\* A datagram for a closed socket, or for a program that is not modelled, is
\* read by nobody.
Routed(S) == SetToBag({m \in S : m.dst \in open})

\* The process sends the datagrams in S.
Send(S) == net' = net (+) Routed(S) /\ UNCHANGED <<open, duplicates>>

\* A process takes m off its socket and sends the datagrams in S.
Reply(m, S) ==
  /\ net' = (net (-) SetToBag({m})) (+) Routed(S)
  /\ UNCHANGED <<open, duplicates>>

\* Process a closes its socket: what is still under way to it is dropped.
Close(a) ==
  /\ open' = open \ {a}
  /\ net' = [m \in {d \in InFlight : d.dst # a} |-> net[m]]
  /\ UNCHANGED duplicates

-----------------------------------------------------------------------------
(* What the network does on its own.                                       *)

Lose(m) ==
  /\ LossyNetwork
  /\ net' = net (-) SetToBag({m})
  /\ UNCHANGED <<open, duplicates>>

Duplicate(m) ==
  /\ duplicates < MaxDuplicates
  /\ net' = net (+) SetToBag({m})
  /\ duplicates' = duplicates + 1
  /\ UNCHANGED open

InitDatagrams ==
  /\ \E s \in Scenario : net = s.strays /\ open = s.clients \cup {Server}
  /\ duplicates = 0

TypeOKDatagrams ==
  /\ IsABag(net) /\ InFlight \subseteq Datagram
  /\ open \subseteq Client \cup {Server}
  /\ duplicates \in 0 .. MaxDuplicates
=============================================================================
