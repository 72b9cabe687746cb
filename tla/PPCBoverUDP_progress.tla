------------------------ MODULE PPCBoverUDP_progress ------------------------
(***************************************************************************)
(* Theorems about PPCBoverUDP: what the two sides pay for their steps, for *)
(* all clients, files, peers and bounds.                                   *)
(***************************************************************************)
EXTENDS PPCBoverUDP_proofs, FiniteSetTheorems

(* How often what p has sent is under way.                                 *)

\* Nothing more of what p has sent is under way.
NoMoreFrom(p) ==
  \A m \in InFlight' : m.src = p => m \in InFlight /\ net'[m] <= net[m]

LEMMA CopiesType ==
  ASSUME TypeOKDatagrams
  PROVE  \A m \in InFlight : net[m] \in Nat /\ net[m] >= 1
BY DEF TypeOKDatagrams, IsABag, InFlight, BagToSet

LEMMA SendFrom ==
  ASSUME TypeOKDatagrams, NEW p, NEW d, d.src # p, Send({d})
  PROVE  NoMoreFrom(p)
BY CopiesType
   DEF TypeOKDatagrams, NoMoreFrom, Send, Routed, InFlight, IsABag, BagToSet,
       SetToBag, (+)

LEMMA ReplyFrom ==
  ASSUME TypeOKDatagrams, NEW p, NEW m \in InFlight, NEW D,
         \A d \in D : d.src # p, Reply(m, D)
  PROVE  NoMoreFrom(p)
BY CopiesType
   DEF TypeOKDatagrams, NoMoreFrom, Reply, Routed, InFlight, IsABag, BagToSet,
       SetToBag, (+), (-)

LEMMA CloseFrom ==
  ASSUME TypeOKDatagrams, NEW p, NEW a, Close(a)
  PROVE  NoMoreFrom(p)
BY CopiesType DEF NoMoreFrom, Close, InFlight, BagToSet

LEMMA LoseFrom ==
  ASSUME TypeOKDatagrams, NEW p, NEW m \in InFlight, Lose(m)
  PROVE  NoMoreFrom(p)
BY CopiesType
   DEF TypeOKDatagrams, NoMoreFrom, Lose, InFlight, IsABag, BagToSet, SetToBag,
       (-)

LEMMA StillFrom ==
  ASSUME TypeOKDatagrams, NEW p, UNCHANGED net
  PROVE  NoMoreFrom(p)
BY CopiesType DEF NoMoreFrom, InFlight

LEMMA NoMoreCopies ==
  ASSUME TypeOKDatagrams, TypeOKDatagrams', NEW p, NoMoreFrom(p)
  PROVE  Copies(p)' \subseteq Copies(p)
BY CopiesType DEF Copies, NoMoreFrom, TypeOKDatagrams, IsABag, InFlight,
                  BagToSet

\* One datagram more: a copy more only if it was under way already.
LEMMA OneMoreCopy ==
  ASSUME TypeOKDatagrams, NEW p, NEW d,
         net' = net (+) Routed({d}) \/ net' = net (+) SetToBag({d})
  PROVE  \E x : /\ Copies(p)' \subseteq Copies(p) \cup {x}
                /\ d \notin InFlight => Copies(p)' \subseteq Copies(p)
<1>1. \A m \in InFlight' :
        \/ m \in InFlight /\ net'[m] = net[m]
        \/ m = d /\ d \in InFlight /\ net'[m] = net[d] + 1
        \/ m = d /\ d \notin InFlight /\ net'[m] = 1
  <2>1. CASE net' = net (+) SetToBag({d})
    BY <2>1, CopiesType DEF TypeOKDatagrams, InFlight, IsABag, BagToSet,
       SetToBag, (+)
  <2>2. CASE net' = net (+) Routed({d})
    <3>1. CASE d.dst \in open
      <4>1. Routed({d}) = SetToBag({d})
        BY <3>1 DEF Routed
      <4> QED BY <2>1, <2>2, <4>1
    <3>2. CASE d.dst \notin open
      <4>1. Routed({d}) = SetToBag({})
        BY <3>2 DEF Routed
      <4>2. /\ DOMAIN net' = DOMAIN net
            /\ \A m \in DOMAIN net : net'[m] = net[m] + 0
        BY <2>2, <4>1 DEF SetToBag, (+)
      <4> QED BY <4>2, CopiesType DEF InFlight, BagToSet
    <3> QED BY <3>1, <3>2
  <2> QED BY <2>1, <2>2
<1>2. \A x \in Copies(p)' :
        \/ x \in Copies(p)
        \/ d \in InFlight /\ x = <<d, net[d] + 1>>
  <2> SUFFICES ASSUME NEW m \in InFlight', m.src = p, NEW i \in 2 .. net'[m]
               PROVE  \/ <<m, i>> \in Copies(p)
                      \/ d \in InFlight /\ <<m, i>> = <<d, net[d] + 1>>
    BY DEF Copies
  <2>1. CASE m \in InFlight /\ net'[m] = net[m]
    BY <2>1 DEF Copies
  <2>2. CASE m = d /\ d \in InFlight /\ net'[m] = net[d] + 1
    <3>1. i \in 2 .. net[d] \/ i = net[d] + 1
      BY <2>2, CopiesType
    <3> QED BY <2>2, <3>1 DEF Copies
  <2>3. CASE m = d /\ d \notin InFlight /\ net'[m] = 1
    BY <2>3
  <2> QED BY <1>1, <2>1, <2>2, <2>3
<1> QED BY <1>2

-----------------------------------------------------------------------------
(* The turns of a client: what it pays, and what it writes.                *)

\* What a client does to the datagrams in flight without writing.
Hears(c) ==
  UNCHANGED dgram_vars \/ Close(c) \/ \E m \in InFlight : Reply(m, {})

SamePiece(c) == UNCHANGED <<c_package_id, c_bytes_sent>>

SameBudget(c) == c_retransmits'[c] = c_retransmits[c]

\* It waits on, or ends.
WaitsOrEnds(c) ==
  /\ Hears(c) /\ SamePiece(c) /\ SameBudget(c)
  /\ c_pc[c] \notin Ended
  /\ c_pc'[c] \in {c_pc[c]} \cup Ended

Repeats(c) ==
  /\ Hears(c) /\ SamePiece(c)
  /\ c_retransmits[c] < MAX_RETRANSMITS
  /\ c_retransmits'[c] = c_retransmits[c] + 1
  /\ \/ c_pc[c] \in Connecting /\ c_pc'[c] = "CONN"
     \/ c_pc[c] = "wait_ACC" /\ c_pc'[c] = "DATA"

WritesCONN(c) ==
  /\ Send({CONN(c, SessionId[c], ProtocolOf[c], occupied_size[c])})
  /\ SamePiece(c) /\ SameBudget(c)
  /\ c_pc[c] = "CONN" /\ c_pc'[c] = "wait_CONACC"

Starts(c) ==
  /\ Hears(c) /\ SamePiece(c) /\ SameBudget(c)
  /\ c_pc[c] = "wait_CONACC" /\ c_pc'[c] = AfterBytes(c, 0)

WritesDATA(c) ==
  /\ Send({NextDATA(c)})
  /\ SameBudget(c)
  /\ c_pc[c] = "DATA"
  /\ \/ SamePiece(c) /\ ProtocolOf[c] = "UDPR" /\ c_pc'[c] = "wait_ACC"
     \/ /\ NextPiece(c)
        /\ c_pc'[c] = AfterBytes(c, c_bytes_sent[c] + shift(c))

GoesOn(c) ==
  /\ Hears(c) /\ SameBudget(c)
  /\ NextPiece(c)
  /\ c_pc[c] = "wait_ACC"
  /\ c_pc'[c] = AfterBytes(c, c_bytes_sent[c] + shift(c))

ClientTurn(c) ==
  /\ \A x \in Client \ {c} : c_retransmits'[x] = c_retransmits[x]
  /\ \/ WaitsOrEnds(c) \/ Repeats(c) \/ WritesCONN(c) \/ Starts(c)
     \/ WritesDATA(c) \/ GoesOn(c)

LEMMA RetransmitTurn ==
  ASSUME TypeOKClient, NEW c \in Client, NEW pc, Retransmit(c, pc)
  PROVE  /\ c_retransmits[c] < MAX_RETRANSMITS
         /\ c_retransmits'[c] = c_retransmits[c] + 1
         /\ \A x \in Client \ {c} : c_retransmits'[x] = c_retransmits[x]
         /\ c_pc'[c] = pc
BY GotoMove DEF Retransmit, TypeOKClient

LEMMA EndTurn ==
  ASSUME TypeOKClient, NEW c \in Client, NEW outcome \in Ended,
         Quit(c, outcome), UNCHANGED <<c_package_id, c_bytes_sent, c_retransmits>>,
         c_pc[c] \notin Ended
  PROVE  ClientTurn(c)
BY GotoMove DEF Quit, ClientTurn, WaitsOrEnds, Hears, SamePiece, SameBudget

LEMMA UDPClientTurn ==
  ASSUME TypeOKClient, NEW c \in Client, ProtocolOf[c] = "UDP",
         \/ UDP_Sends(c)
         \/ \E m \in InFlight : UDP_Receives(c, m)
         \/ UDP_Timeout(c)
  PROVE  ClientTurn(c)
<1>g. \A pc : Goto(c, pc) => c_pc'[c] = pc
  BY GotoMove
<1>1. CASE UDP_SendCONN(c)
  BY <1>1, <1>g DEF UDP_SendCONN, ClientTurn, WritesCONN, SamePiece, SameBudget
<1>2. CASE UDP_SendFails(c) \/ UDP_Timeout(c)
  BY <1>2, EndTurn DEF UDP_SendFails, UDP_Timeout, Waiting, Ended
<1>3. CASE UDP_SendDATA(c)
  BY <1>3, <1>g DEF UDP_SendDATA, ClientTurn, WritesDATA, SameBudget
<1>4. ASSUME NEW m \in InFlight, UDP_Receives(c, m)
      PROVE  ClientTurn(c)
  <2>1. CASE UDP_GetCONACC(c, m)
    BY <2>1, <1>g DEF UDP_GetCONACC, Response, Takes, ClientTurn, Starts, Hears,
       SamePiece, SameBudget
  <2>2. CASE UDP_GetRCVD(c, m)
    BY <2>2, EndTurn DEF UDP_GetRCVD, Response, Takes, Ended
  <2>3. CASE UDP_GetWrongPacket(c, m)
    BY <2>3, EndTurn DEF UDP_GetWrongPacket, Response, Takes, Ended
  <2>4. CASE UDP_GetNothing(c, m)
    BY <2>4, EndTurn DEF UDP_GetNothing, TakesNothing, Waiting, Ended
  <2> QED BY <1>4, <2>1, <2>2, <2>3, <2>4 DEF UDP_Receives
<1> QED BY <1>1, <1>2, <1>3, <1>4 DEF UDP_Sends

LEMMA UDPRClientTurn ==
  ASSUME TypeOKClient, NEW c \in Client, ProtocolOf[c] = "UDPR",
         \/ UDPR_Sends(c)
         \/ \E m \in InFlight : UDPR_Receives(c, m)
         \/ UDPR_Timeout(c)
  PROVE  ClientTurn(c)
<1>g. \A pc : Goto(c, pc) => c_pc'[c] = pc
  BY GotoMove
<1>r. ASSUME NEW pc, Retransmit(c, pc), Hears(c), Progress(c),
             \/ c_pc[c] \in Connecting /\ pc = "CONN"
             \/ c_pc[c] = "wait_ACC" /\ pc = "DATA"
      PROVE  ClientTurn(c)
  BY <1>r, RetransmitTurn DEF Progress, ClientTurn, Repeats, SamePiece
<1>q. ASSUME GiveUp(c), Progress(c), c_pc[c] \notin Ended
      PROVE  ClientTurn(c)
  BY <1>q, EndTurn DEF GiveUp, Progress, Ended
<1>f. ASSUME NEW outcome \in Ended, Quit(c, outcome), UNCHANGED c_retransmits,
             Progress(c), c_pc[c] \notin Ended
      PROVE  ClientTurn(c)
  BY <1>f, EndTurn DEF Progress
<1>1. CASE UDPR_SendCONN(c)
  BY <1>1, <1>g DEF UDPR_SendCONN, ClientTurn, WritesCONN, SamePiece, SameBudget
<1>2. CASE UDPR_SendCONNFails(c)
  BY <1>2, <1>r, <1>q DEF UDPR_SendCONNFails, Hears, Connecting, Ended
<1>3. CASE UDPR_SendDATA(c)
  BY <1>3, <1>g DEF UDPR_SendDATA, Progress, ClientTurn, WritesDATA, SamePiece,
     SameBudget
<1>4. CASE UDPR_SendDATAFails(c)
  BY <1>4, <1>f DEF UDPR_SendDATAFails, Ended
<1>5. CASE UDPR_Timeout(c)
  BY <1>5, <1>r, <1>q, <1>f DEF UDPR_Timeout, Hears, Connecting, Ended
<1>6. ASSUME NEW m \in InFlight, UDPR_Receives(c, m)
      PROVE  ClientTurn(c)
  <2>1. CASE UDPR_GetCONACC(c, m)
    BY <2>1, <1>g DEF UDPR_GetCONACC, Response, Takes, Progress, ClientTurn,
       Starts, Hears, SamePiece, SameBudget
  <2>2. CASE UDPR_GetOtherThanCONACC(c, m) \/ UDPR_GetEarlyRCVD(c, m)
    BY <2>2, <1>r, <1>q DEF UDPR_GetOtherThanCONACC, UDPR_GetEarlyRCVD,
       Response, Takes, Hears, Connecting, Ended
  <2>3. CASE UDPR_GetACC(c, m)
    BY <2>3, <1>g DEF UDPR_GetACC, Response, Takes, ClientTurn, GoesOn, Hears,
       SameBudget
  <2>4. CASE UDPR_IgnoreEarlier(c, m) \/ UDPR_IgnoreLateACC(c, m)
    BY <2>4 DEF UDPR_IgnoreEarlier, UDPR_IgnoreLateACC, Response, Takes,
       Progress, ClientTurn, WaitsOrEnds, Hears, SamePiece, SameBudget, Ended
  <2>5. CASE UDPR_GetRCVD(c, m)
    BY <2>5, <1>f DEF UDPR_GetRCVD, Response, Takes, Ended
  <2>6. CASE \/ UDPR_GetCONRJT(c, m) \/ UDPR_GetOtherThanACC(c, m)
             \/ UDPR_GetOtherThanRCVD(c, m)
    BY <2>6, <1>f DEF UDPR_GetCONRJT, UDPR_GetOtherThanACC,
       UDPR_GetOtherThanRCVD, Response, Takes, Ended
  <2>7. CASE UDPR_GetNothing(c, m)
    BY <2>7, <1>r, <1>q, <1>f DEF UDPR_GetNothing, Hears, Connecting, Ended
  <2> QED BY <1>6, <2>1, <2>2, <2>3, <2>4, <2>5, <2>6, <2>7 DEF UDPR_Receives
<1> QED BY <1>1, <1>2, <1>3, <1>4, <1>5, <1>6 DEF UDPR_Sends

LEMMA ClientStepTurn ==
  ASSUME TypeOK, NEW c \in Client, ClientStep(c) \/ ClientKilled(c)
  PROVE  ClientTurn(c)
<1>1. TypeOKClient
  BY DEF TypeOK
<1>2. CASE ClientKilled(c)
  BY <1>1, <1>2, EndTurn DEF ClientKilled, Killed, Ended
<1>3. CASE \E m \in InFlight : IgnoreStranger(c, m)
  BY <1>3 DEF IgnoreStranger, ClientTurn, WaitsOrEnds, Hears, SamePiece,
     SameBudget, Waiting, Ended
<1>4. ProtocolOf[c] = "UDP" \/ ProtocolOf[c] = "UDPR"
  BY ClientAssumption DEF Protocol
<1>5. CASE ClientStep(c) /\ ~ (\E m \in InFlight : IgnoreStranger(c, m))
  BY <1>1, <1>4, <1>5, UDPClientTurn, UDPRClientTurn
     DEF ClientStep, ClientSends, ClientReceives, ClientTimesOut
<1> QED BY <1>2, <1>3, <1>5

-----------------------------------------------------------------------------
(* Every change of a client takes something away from it.                  *)

Placed == \A c \in Client : ClientPosition(c)

LEMMA OneActor ==
  ASSUME TypeOK, [Next]_vars
  PROVE  \/ \E c \in Client : ClientStep(c) \/ ClientKilled(c)
         \/ UNCHANGED client_vars
BY DEF Next, ServerStep, ServerReads, ServerWaits, ServerInterrupted, Network,
       vars

LEMMA PlacedStep ==
  ASSUME TypeOK, Placed, [Next]_vars
  PROVE  Placed'
<1>t. TypeOKClient
  BY DEF TypeOK
<1>1. ASSUME NEW c \in Client, ClientMove(c), NEW x \in Client
      PROVE  ClientPosition(x)'
  <2>1. CASE x # c
    BY <1>1, <2>1 DEF Placed, ClientMove, OthersStay, ClientPosition
  <2>2. CASE x = c
    BY <1>1, <1>t, <2>2, StaysPosition, MovesPosition DEF Placed, ClientMove
  <2> QED BY <2>1, <2>2
<1>2. CASE UNCHANGED client_vars
  BY <1>2 DEF Placed, ClientPosition, client_vars
<1> QED BY <1>1, <1>2, OneActor, ClientStepMove DEF Placed

LEMMA PlacedInit ==
  ASSUME Init
  PROVE  Placed
BY NextOffset, ClientAssumption DEF Init, InitClient, Placed, ClientPosition

\* A packet that a client sends has bytes, and never more than it has left.
LEMMA ShiftPositive ==
  ASSUME TypeOKClient, Placed, NEW c \in Client, c_pc[c] \in Sending
  PROVE  /\ shift(c) \in Nat /\ shift(c) > 0
         /\ c_bytes_sent[c] + shift(c) <= occupied_size[c]
BY ClientAssumption DEF TypeOKClient, Placed, ClientPosition, Sending, shift

LEMMA PaidTwice ==
  ASSUME NEW n \in Nat, NEW k \in Nat, NEW calls \in 0 .. 5, NEW rest \in 0 .. 5,
         k < n, rest <= calls + 1
  PROVE  2 * k + rest \in 0 .. 2 * n + calls - 1
OBVIOUS

LEMMA TurnDescends ==
  ASSUME TypeOKClient, TypeOKClient', Placed, NEW c \in Client, ClientTurn(c),
         ClientChanges(c)
  PROVE  Remaining(c)' \in 0 .. Remaining(c) - 1
<1> DEFINE left == occupied_size[c] - c_bytes_sent[c]
           tries == MAX_RETRANSMITS - c_retransmits[c]
           next_left == occupied_size[c] - c_bytes_sent'[c]
           next_tries == MAX_RETRANSMITS - c_retransmits'[c]
<1>a. /\ occupied_size[c] \in Nat /\ c_bytes_sent[c] \in Nat
      /\ c_bytes_sent[c] <= occupied_size[c]
      /\ MAX_RETRANSMITS \in Nat /\ c_retransmits[c] \in 0 .. MAX_RETRANSMITS
      /\ c_pc[c] \in {"CONN", "DATA"} \cup Waiting \cup Ended
  BY ClientAssumption, NetworkAssumption DEF TypeOKClient
<1>b. /\ c_bytes_sent'[c] \in Nat /\ c_bytes_sent'[c] <= occupied_size[c]
      /\ c_retransmits'[c] \in 0 .. MAX_RETRANSMITS
      /\ c_pc'[c] \in {"CONN", "DATA"} \cup Waiting \cup Ended
  BY DEF TypeOKClient
<1>c. left \in Nat /\ tries \in Nat /\ next_left \in Nat /\ next_tries \in Nat
  BY <1>a, <1>b
<1>d. /\ Remaining(c) = 2 * (left + tries) + CallsLeft[c_pc[c]]
      /\ Remaining(c)' = 2 * (next_left + next_tries) + CallsLeft[c_pc'[c]]
  BY DEF Remaining
<1>e. CallsLeft[c_pc[c]] \in 0 .. 5 /\ CallsLeft[c_pc'[c]] \in 0 .. 5
  BY <1>a, <1>b DEF CallsLeft, Waiting, Ended
<1> HIDE DEF left, tries, next_left, next_tries
<1>s. ASSUME next_left = left, next_tries = tries,
             CallsLeft[c_pc'[c]] < CallsLeft[c_pc[c]]
      PROVE  Remaining(c)' \in 0 .. Remaining(c) - 1
  BY <1>c, <1>d, <1>e, <1>s
<1>p. ASSUME next_left + next_tries < left + tries,
             CallsLeft[c_pc'[c]] <= CallsLeft[c_pc[c]] + 1
      PROVE  Remaining(c)' \in 0 .. Remaining(c) - 1
  <2>1. left + tries \in Nat /\ next_left + next_tries \in Nat
    BY <1>c
  <2> QED BY <1>d, <1>e, <1>p, <2>1, PaidTwice
<1>f. SamePiece(c) => next_left = left
  BY DEF left, next_left, SamePiece
<1>g. SameBudget(c) => next_tries = tries
  BY DEF tries, next_tries, SameBudget
<1>h. NextPiece(c) /\ c_pc[c] \in Sending => next_left < left
  <2> SUFFICES ASSUME NextPiece(c), c_pc[c] \in Sending
               PROVE  next_left < left
    OBVIOUS
  <2>1. shift(c) \in Nat /\ shift(c) > 0
    BY ShiftPositive
  <2>2. c_bytes_sent'[c] = c_bytes_sent[c] + shift(c)
    BY NextPieceMove
  <2> QED BY <1>a, <2>1, <2>2 DEF left, next_left
<1>1. CASE WaitsOrEnds(c)
  <2>1. c_pc'[c] # c_pc[c]
    BY <1>1, <1>f DEF WaitsOrEnds, SamePiece, SameBudget, ClientChanges
  <2>2. CallsLeft[c_pc'[c]] < CallsLeft[c_pc[c]]
    BY <1>1, <1>a, <2>1 DEF WaitsOrEnds, CallsLeft, Waiting, Ended
  <2> QED BY <1>1, <1>s, <1>f, <1>g, <2>2 DEF WaitsOrEnds
<1>2. CASE Repeats(c)
  <2>1. next_left = left /\ next_tries = tries - 1
    BY <1>2, <1>a, <1>f DEF Repeats, tries, next_tries
  <2>2. CallsLeft[c_pc'[c]] <= CallsLeft[c_pc[c]] + 1
    BY <1>2 DEF Repeats, CallsLeft, Connecting
  <2> QED BY <1>p, <1>c, <2>1, <2>2
<1>3. CASE WritesCONN(c)
  BY <1>3, <1>s, <1>f, <1>g DEF WritesCONN, CallsLeft
<1>4. CASE Starts(c)
  BY <1>4, <1>s, <1>f, <1>g DEF Starts, AfterBytes, CallsLeft
<1>5. CASE WritesDATA(c)
  <2>1. CASE SamePiece(c) /\ c_pc'[c] = "wait_ACC"
    BY <1>5, <1>s, <1>f, <1>g, <2>1 DEF WritesDATA, CallsLeft
  <2>2. CASE /\ NextPiece(c)
             /\ c_pc'[c] = AfterBytes(c, c_bytes_sent[c] + shift(c))
    <3>1. next_left < left /\ next_tries = tries
      BY <1>5, <1>g, <1>h, <2>2 DEF WritesDATA, Sending
    <3>2. CallsLeft[c_pc'[c]] <= CallsLeft[c_pc[c]] + 1
      BY <1>5, <2>2 DEF WritesDATA, AfterBytes, CallsLeft
    <3> QED BY <1>c, <1>p, <3>1, <3>2
  <2> QED BY <1>5, <2>1, <2>2 DEF WritesDATA
<1>6. CASE GoesOn(c)
  <2>1. next_left < left /\ next_tries = tries
    BY <1>6, <1>g, <1>h DEF GoesOn, Sending
  <2>2. CallsLeft[c_pc'[c]] <= CallsLeft[c_pc[c]] + 1
    BY <1>6 DEF GoesOn, AfterBytes, CallsLeft
  <2> QED BY <1>c, <1>p, <2>1, <2>2
<1> QED BY <1>1, <1>2, <1>3, <1>4, <1>5, <1>6 DEF ClientTurn

\* No client goes round in circles, whatever answers come and in whatever order:
\* what a client still can do is bounded from its start, by twice the bytes of its
\* file and the retransmissions, and every change takes some of it.
THEOREM ClientsDescendAlways == Spec => ClientsDescend
<1> DEFINE Descent == \A c \in Client :
             ClientChanges(c) => Remaining(c)' \in 0 .. Remaining(c) - 1
<1>1. Init => Placed
  BY PlacedInit
<1>2. TypeOK /\ Placed /\ [Next]_vars => Placed'
  BY PlacedStep
<1>3. TypeOK /\ TypeOK' /\ Placed /\ [Next]_vars => [Descent]_vars
  <2> SUFFICES ASSUME TypeOK, TypeOK', Placed, [Next]_vars,
                      NEW x \in Client, ClientChanges(x)
               PROVE  Remaining(x)' \in 0 .. Remaining(x) - 1
    OBVIOUS
  <2>1. ~ UNCHANGED client_vars
    BY DEF ClientChanges, client_vars
  <2>2. PICK c \in Client : ClientStep(c) \/ ClientKilled(c)
    BY <2>1, OneActor
  <2>3. ClientMove(c) /\ ClientTurn(c)
    BY <2>2, ClientStepMove, ClientStepTurn
  <2>4. x = c
    BY <2>3 DEF ClientMove, ClientTurn, OthersStay, ClientChanges
  <2> QED BY <2>3, <2>4, TurnDescends DEF TypeOK
<1> QED BY <1>1, <1>2, <1>3, TypeCorrect, PTL DEF Spec, ClientsDescend

-----------------------------------------------------------------------------
(* Every copy under way was paid for.                                      *)

LEMMA CardinalityGrows ==
  ASSUME NEW S, NEW T, NEW x, IsFiniteSet(S), T \subseteq S \cup {x}
  PROVE  /\ IsFiniteSet(T)
         /\ Cardinality(S) \in Nat /\ Cardinality(T) \in Nat
         /\ Cardinality(T) <= Cardinality(S) + 1
         /\ T \subseteq S => Cardinality(T) <= Cardinality(S)
<1>1. /\ IsFiniteSet(S \cup {x})
      /\ Cardinality(S \cup {x}) <= Cardinality(S) + 1
      /\ Cardinality(S) \in Nat /\ Cardinality(S \cup {x}) \in Nat
  BY FS_AddElement, FS_CardinalityType
<1>2. IsFiniteSet(T) /\ Cardinality(T) <= Cardinality(S \cup {x})
  BY <1>1, FS_Subset
<1>3. Cardinality(T) \in Nat
  BY <1>2, FS_CardinalityType
<1>4. T \subseteq S => Cardinality(T) <= Cardinality(S)
  BY FS_Subset
<1> QED BY <1>1, <1>2, <1>3, <1>4

\* The packet that client c is about to write.
NextPacket(c) ==
  {d \in {CONN(c, SessionId[c], ProtocolOf[c], occupied_size[c])} :
     c_pc[c] = "CONN"}
  \cup {d \in {NextDATA(c)} : c_pc[c] = "DATA"}

\* The copies are paid for, and the next one is when the next packet is one that
\* is under way.
PaidFor(c) ==
  /\ IsFiniteSet(Copies(c))
  /\ Cardinality(Copies(c)) <= c_retransmits[c] + duplicates
  /\ NextPacket(c) \cap InFlight # {} =>
       Cardinality(Copies(c)) + 1 <= c_retransmits[c] + duplicates

\* No packet is under way that the client has not come to yet.
SentSoFar(c) ==
  \A m \in InFlight : m.src = c /\ m.kind = "DATA" =>
    c_pc[c] \notin Connecting /\ m.id <= c_package_id[c]

Paid == \A c \in Client : PaidFor(c) /\ SentSoFar(c)

\* The client, or another party, writes nothing in c's name.
LEMMA PaidKept ==
  ASSUME TypeOK, TypeOK', NEW c \in Client, PaidFor(c), NoMoreFrom(c),
         c_retransmits[c] <= c_retransmits'[c], duplicates <= duplicates',
         \/ NextPacket(c)' \subseteq NextPacket(c)
         \/ NextPacket(c)' \cap InFlight' = {}
         \/ c_retransmits[c] < c_retransmits'[c]
  PROVE  PaidFor(c)'
<1>1. Copies(c)' \subseteq Copies(c)
  BY NoMoreCopies DEF TypeOK
<1>2. /\ IsFiniteSet(Copies(c)') /\ Cardinality(Copies(c)') \in Nat
      /\ Cardinality(Copies(c)') <= Cardinality(Copies(c))
      /\ Cardinality(Copies(c)) \in Nat
  BY <1>1, CardinalityGrows DEF PaidFor
<1>3. /\ c_retransmits[c] \in Nat /\ c_retransmits'[c] \in Nat
      /\ duplicates \in Nat /\ duplicates' \in Nat
  BY NetworkAssumption DEF TypeOK, TypeOKClient, TypeOKDatagrams
<1>4. \A d \in NextPacket(c)' : d.src = c
  BY DEF NextPacket, NextDATA, CONN, DATA, Packet
<1>5. NextPacket(c)' \cap InFlight' # {} =>
        \/ NextPacket(c) \cap InFlight # {}
        \/ c_retransmits[c] < c_retransmits'[c]
  BY <1>4 DEF NoMoreFrom
<1>6. NextPacket(c)' \cap InFlight' # {} =>
        Cardinality(Copies(c)') + 1 <= c_retransmits'[c] + duplicates'
  BY <1>2, <1>3, <1>5 DEF PaidFor
<1> QED BY <1>2, <1>3, <1>6 DEF PaidFor

LEMMA SentSoFarKept ==
  ASSUME TypeOK, NEW c \in Client, SentSoFar(c), NoMoreFrom(c),
         c_pc[c] \notin Connecting => c_pc'[c] \notin Connecting,
         c_package_id'[c] \in Nat, c_package_id[c] <= c_package_id'[c]
  PROVE  SentSoFar(c)'
BY DEF SentSoFar, NoMoreFrom, TypeOK, TypeOKClient, TypeOKDatagrams, Datagram

\* A step in which c does nothing and nobody writes in its name.
LEMMA OthersPay ==
  ASSUME TypeOK, TypeOK', NEW c \in Client, PaidFor(c), SentSoFar(c),
         NoMoreFrom(c), duplicates <= duplicates', c_pc'[c] = c_pc[c],
         c_package_id'[c] = c_package_id[c], c_bytes_sent'[c] = c_bytes_sent[c],
         c_retransmits'[c] = c_retransmits[c]
  PROVE  PaidFor(c)' /\ SentSoFar(c)'
<1>1. NextPacket(c)' = NextPacket(c)
  BY DEF NextPacket, NextDATA, shift
<1>2. c_retransmits[c] \in Nat /\ c_package_id[c] \in Nat
  BY NetworkAssumption DEF TypeOK, TypeOKClient
<1> QED BY <1>1, <1>2, PaidKept, SentSoFarKept

LEMMA DuplicatePaid ==
  ASSUME TypeOK, TypeOK', NEW c \in Client, PaidFor(c), SentSoFar(c),
         NEW m \in InFlight, Duplicate(m), UNCHANGED client_vars
  PROVE  PaidFor(c)' /\ SentSoFar(c)'
<1>1. PICK x : Copies(c)' \subseteq Copies(c) \cup {x}
  BY OneMoreCopy DEF TypeOK, Duplicate
<1>2. /\ IsFiniteSet(Copies(c)') /\ Cardinality(Copies(c)') \in Nat
      /\ Cardinality(Copies(c)') <= Cardinality(Copies(c)) + 1
      /\ Cardinality(Copies(c)) \in Nat
  BY <1>1, CardinalityGrows DEF PaidFor
<1>3. /\ c_retransmits[c] \in Nat /\ c_retransmits'[c] = c_retransmits[c]
      /\ duplicates \in Nat /\ duplicates' = duplicates + 1
  BY NetworkAssumption DEF TypeOK, TypeOKClient, TypeOKDatagrams, Duplicate,
     client_vars
<1>4. InFlight' \subseteq InFlight
  BY NetworkType DEF TypeOK
<1>5. NextPacket(c)' = NextPacket(c)
  BY DEF NextPacket, NextDATA, shift, client_vars
<1>6. PaidFor(c)'
  BY <1>2, <1>3, <1>4, <1>5 DEF PaidFor
<1>7. SentSoFar(c)'
  BY <1>4 DEF SentSoFar, client_vars
<1> QED BY <1>6, <1>7

LEMMA HearsOnly ==
  ASSUME TypeOKDatagrams, NEW p, NEW c, Hears(c)
  PROVE  NoMoreFrom(p) /\ UNCHANGED duplicates
<1>1. CASE UNCHANGED dgram_vars
  BY <1>1, StillFrom DEF dgram_vars
<1>2. CASE Close(c)
  BY <1>2, CloseFrom DEF Close
<1>3. CASE \E m \in InFlight : Reply(m, {})
  BY <1>3, ReplyFrom DEF Reply
<1> QED BY <1>1, <1>2, <1>3 DEF Hears

LEMMA WritesOwn ==
  ASSUME TypeOKDatagrams, NEW p, NEW c \in Client, p # c, ClientTurn(c)
  PROVE  NoMoreFrom(p) /\ UNCHANGED duplicates
<1>1. CASE Hears(c)
  BY <1>1, HearsOnly
<1>2. CASE WritesCONN(c)
  <2>1. CONN(c, SessionId[c], ProtocolOf[c], occupied_size[c]).src # p
    BY DEF CONN, Packet
  <2> QED BY <1>2, <2>1, SendFrom DEF WritesCONN, Send
<1>3. CASE WritesDATA(c)
  <2>1. NextDATA(c).src # p
    BY DEF NextDATA, DATA, Packet
  <2> QED BY <1>3, <2>1, SendFrom DEF WritesDATA, Send
<1> QED BY <1>1, <1>2, <1>3 DEF ClientTurn, WaitsOrEnds, Repeats, Starts, GoesOn

LEMMA InFlightAfterSend ==
  ASSUME TypeOKDatagrams, NEW d, Send({d})
  PROVE  InFlight' \subseteq InFlight \cup {d}
BY DEF TypeOKDatagrams, Send, Routed, InFlight, IsABag, BagToSet, SetToBag, (+)

LEMMA WritingPaid ==
  ASSUME TypeOK, TypeOK', NEW c \in Client, PaidFor(c), NEW d \in NextPacket(c),
         Send({d}), SameBudget(c), NextPacket(c)' \cap InFlight' = {}
  PROVE  PaidFor(c)'
<1>1. PICK x : /\ Copies(c)' \subseteq Copies(c) \cup {x}
               /\ d \notin InFlight => Copies(c)' \subseteq Copies(c)
  BY OneMoreCopy DEF TypeOK, Send
<1>2. /\ IsFiniteSet(Copies(c)') /\ Cardinality(Copies(c)') \in Nat
      /\ Cardinality(Copies(c)') <= Cardinality(Copies(c)) + 1
      /\ d \notin InFlight => Cardinality(Copies(c)') <= Cardinality(Copies(c))
      /\ Cardinality(Copies(c)) \in Nat
  BY <1>1, CardinalityGrows DEF PaidFor
<1>3. /\ c_retransmits[c] \in Nat /\ c_retransmits'[c] = c_retransmits[c]
      /\ duplicates \in Nat /\ duplicates' = duplicates
  BY NetworkAssumption DEF TypeOK, TypeOKClient, TypeOKDatagrams, Send,
     SameBudget
<1>4. CASE d \in InFlight
  <2>1. Cardinality(Copies(c)) + 1 <= c_retransmits[c] + duplicates
    BY <1>4 DEF PaidFor
  <2> QED BY <1>2, <1>3, <2>1 DEF PaidFor
<1>5. CASE d \notin InFlight
  BY <1>2, <1>3, <1>5 DEF PaidFor
<1> QED BY <1>4, <1>5

\* What c writes next it has not written yet, once it went past a packet.
LEMMA NextIsNew ==
  ASSUME TypeOK, NEW c \in Client, NEW D,
         \A m \in D : m.src = c /\ m.kind = "DATA" => m.id <= c_package_id[c],
         NextPiece(c), c_pc'[c] \in {"DATA", "wait_RCVD"}
  PROVE  NextPacket(c)' \cap D = {}
<1> SUFFICES ASSUME NEW m \in NextPacket(c)', m \in D
             PROVE  FALSE
  OBVIOUS
<1>1. m.src = c /\ m.kind = "DATA" /\ m.id = c_package_id'[c]
  BY DEF NextPacket, NextDATA, DATA, Packet
<1>2. c_package_id'[c] = c_package_id[c] + 1 /\ c_package_id[c] \in Nat
  BY NextPieceMove DEF TypeOK, TypeOKClient
<1> QED BY <1>1, <1>2

LEMMA TurnPaid ==
  ASSUME TypeOK, TypeOK', NEW c \in Client, PaidFor(c), SentSoFar(c), Placed,
         ClientTurn(c)
  PROVE  PaidFor(c)' /\ SentSoFar(c)'
<1>t. /\ TypeOKClient /\ TypeOKDatagrams
      /\ c_package_id[c] \in Nat /\ c_package_id'[c] \in Nat
      /\ c_retransmits[c] \in Nat /\ duplicates \in Nat
      /\ c_pc[c] \in {"CONN", "DATA"} \cup Waiting \cup Ended
  BY NetworkAssumption DEF TypeOK, TypeOKClient, TypeOKDatagrams
<1>a. \A n : AfterBytes(c, n) \in {"DATA", "wait_RCVD"}
  BY DEF AfterBytes
<1>p. SamePiece(c) => c_package_id'[c] = c_package_id[c]
  BY DEF SamePiece
<1>n. NextPiece(c) => c_package_id'[c] = c_package_id[c] + 1
  BY <1>t, NextPieceMove
<1>h. Hears(c) => NoMoreFrom(c) /\ duplicates' = duplicates
  BY <1>t, HearsOnly
<1>1. CASE WaitsOrEnds(c)
  <2>1. NextPacket(c)' \subseteq NextPacket(c)
    BY <1>1 DEF WaitsOrEnds, SamePiece, NextPacket, NextDATA, shift, Ended
  <2>2. c_pc[c] \notin Connecting => c_pc'[c] \notin Connecting
    BY <1>1 DEF WaitsOrEnds, Ended, Connecting
  <2> QED BY <1>1, <1>t, <1>p, <1>h, <2>1, <2>2, PaidKept, SentSoFarKept
             DEF WaitsOrEnds, SameBudget
<1>2. CASE Repeats(c)
  <2>1. c_pc[c] \notin Connecting => c_pc'[c] \notin Connecting
    BY <1>2 DEF Repeats, Connecting
  <2> QED BY <1>2, <1>t, <1>p, <1>h, <2>1, PaidKept, SentSoFarKept DEF Repeats
<1>3. CASE WritesCONN(c)
  <2> DEFINE d == CONN(c, SessionId[c], ProtocolOf[c], occupied_size[c])
  <2>1. d \in NextPacket(c)
    BY <1>3 DEF WritesCONN, NextPacket
  <2>2. NextPacket(c)' = {}
    BY <1>3 DEF WritesCONN, NextPacket
  <2>3. PaidFor(c)'
    BY <1>3, <2>1, <2>2, WritingPaid DEF WritesCONN
  <2>4. InFlight' \subseteq InFlight \cup {d}
    BY <1>3, <1>t, InFlightAfterSend DEF WritesCONN
  <2>5. d.kind # "DATA"
    BY DEF CONN, Packet
  <2>6. SentSoFar(c)'
    BY <1>3, <2>4, <2>5 DEF SentSoFar, WritesCONN, Connecting
  <2> QED BY <2>3, <2>6
<1>4. CASE Starts(c)
  <2>1. \A m \in InFlight : ~ (m.src = c /\ m.kind = "DATA")
    BY <1>4 DEF SentSoFar, Starts, Connecting
  <2>2. \A m \in InFlight' : ~ (m.src = c /\ m.kind = "DATA")
    BY <1>4, <1>h, <2>1 DEF NoMoreFrom, Starts
  <2>3. \A m \in NextPacket(c)' : m.src = c /\ m.kind = "DATA"
    BY <1>4, <1>a DEF Starts, NextPacket, NextDATA, DATA, Packet
  <2>4. NextPacket(c)' \cap InFlight' = {}
    BY <2>2, <2>3
  <2>5. PaidFor(c)'
    BY <1>4, <1>t, <1>h, <2>4, PaidKept DEF Starts, SameBudget
  <2>6. SentSoFar(c)'
    BY <2>2 DEF SentSoFar
  <2> QED BY <2>5, <2>6
<1>5. CASE WritesDATA(c)
  <2> DEFINE d == NextDATA(c)
  <2>1. d \in NextPacket(c) /\ Send({d}) /\ SameBudget(c)
    BY <1>5 DEF WritesDATA, NextPacket
  <2>2. d.src = c /\ d.kind = "DATA" /\ d.id = c_package_id[c]
    BY DEF NextDATA, DATA, Packet
  <2>3. InFlight' \subseteq InFlight \cup {d}
    BY <1>5, <1>t, InFlightAfterSend DEF WritesDATA
  <2> HIDE DEF d
  <2>4. \A m \in InFlight' :
          m.src = c /\ m.kind = "DATA" => m.id <= c_package_id[c]
    BY <1>t, <2>2, <2>3 DEF SentSoFar
  <2>5. NextPacket(c)' \cap InFlight' = {}
    <3>1. CASE c_pc'[c] = "wait_ACC"
      BY <3>1 DEF NextPacket
    <3>2. CASE NextPiece(c) /\ c_pc'[c] \in {"DATA", "wait_RCVD"}
      BY <2>4, <3>2, NextIsNew
    <3> QED BY <1>5, <1>a, <3>1, <3>2 DEF WritesDATA
  <2>6. c_pc'[c] \notin Connecting /\ c_package_id[c] <= c_package_id'[c]
    BY <1>5, <1>t, <1>a, <1>p, <1>n DEF WritesDATA, Connecting
  <2>7. \A m \in InFlight' : m.src = c /\ m.kind = "DATA" => m.id \in Nat
    BY DEF TypeOK, TypeOKDatagrams, Datagram
  <2>8. SentSoFar(c)'
    BY <1>t, <2>4, <2>6, <2>7 DEF SentSoFar
  <2>9. PaidFor(c)'
    BY <2>1, <2>5, WritingPaid
  <2> QED BY <2>8, <2>9
<1>6. CASE GoesOn(c)
  <2>1. NoMoreFrom(c) /\ duplicates' = duplicates /\ SameBudget(c)
    BY <1>6, <1>h DEF GoesOn
  <2>2. \A m \in InFlight' :
          m.src = c /\ m.kind = "DATA" => m.id <= c_package_id[c]
    BY <2>1 DEF NoMoreFrom, SentSoFar
  <2>3. NextPacket(c)' \cap InFlight' = {}
    BY <1>6, <1>a, <2>2, NextIsNew DEF GoesOn
  <2>4. PaidFor(c)'
    BY <1>t, <2>1, <2>3, PaidKept DEF SameBudget
  <2>5. SentSoFar(c)'
    BY <1>6, <1>t, <1>a, <1>n, <2>1, SentSoFarKept DEF GoesOn, Connecting
  <2> QED BY <2>4, <2>5
<1> QED BY <1>1, <1>2, <1>3, <1>4, <1>5, <1>6 DEF ClientTurn

(* The server writes in nobody's name but its own.                         *)

ServerWrites(p) == NoMoreFrom(p) /\ UNCHANGED duplicates

LEMMA ServerReadsWrite ==
  ASSUME TypeOKDatagrams, NEW p, p # Server, NEW m \in InFlight,
         ServerReceives(m)
  PROVE  ServerWrites(p)
<1>a. \A kind, dst, sid, id : /\ Answer(kind, dst, sid).src # p
                              /\ ACC(dst, sid, id).src # p
  BY DEF Answer, ACC, Packet
<1>r. ASSUME NEW D, Reply(m, D), \A d \in D : d.src # p
      PROVE  ServerWrites(p)
  BY <1>r, ReplyFrom DEF ServerWrites, Reply
<1>c. Close(Server) => ServerWrites(p)
  BY CloseFrom DEF ServerWrites, Close
<1>k. \A d \in Acknowledgement(m) : d.src # p
  BY <1>a DEF Acknowledgement
<1>1. CASE GetNothing(m)
  BY <1>1, <1>c, <1>r DEF GetNothing
<1>2. CASE RejectCONN(m) \/ AcceptCONN(m) \/ SendCONACCFails(m)
  <2>1. \A kind : \A d \in {Answer(kind, m.src, m.sid)} : d.src # p
    BY <1>a
  <2> QED BY <1>2, <1>r, <2>1 DEF RejectCONN, AcceptCONN, SendCONACCFails
<1>3. CASE AcceptEmptyCONN(m)
  <2>1. \A d \in {Answer("CONACC", m.src, m.sid),
                  Answer("RCVD", s_client_address[m.proto], m.sid)} : d.src # p
    BY <1>a
  <2> QED BY <1>3, <1>r, <2>1 DEF AcceptEmptyCONN
<1>4. CASE TurnAway(m) \/ LoseClient(m) \/ UDPR_Ignore(m)
  <2>1. \A d \in {Answer("CONRJT", m.src, m.sid), Answer("RJT", m.src, m.sid)} :
          d.src # p
    BY <1>a
  <2> QED BY <1>4, <1>r, <2>1 DEF TurnAway, LoseClient, UDPR_Ignore
<1>5. CASE UDPR_Reject(m)
  <2>1. \A d \in (IF OutOfTurn(m) THEN {Answer("RJT", m.src, s_conn.sid)}
                  ELSE {}) : d.src # p
    BY <1>a
  <2> QED BY <1>5, <1>r, <2>1 DEF UDPR_Reject
<1>6. CASE UDP_Reject(m)
  <2>1. Answer("RJT", m.src, s_conn.sid).src # p
    BY <1>a
  <2> QED BY <1>6, <1>r, <2>1 DEF UDP_Reject
<1>7. CASE TakeDATA(m)
  BY <1>7, <1>k, <1>r DEF TakeDATA
<1>8. CASE TakeLastDATA(m)
  <2>1. Answer("RCVD", client_address(m), s_conn.sid).src # p
    BY <1>a
  <2> QED BY <1>8, <1>k, <1>r, <2>1 DEF TakeLastDATA
<1>9. CASE TakeTooMuchDATA(m)
  <2>1. \A d \in (IF s_conn.proto = "UDPR"
                  THEN {Answer("RJT", client_address(m), s_conn.sid)}
                  ELSE {}) : d.src # p
    BY <1>a
  <2> QED BY <1>9, <1>k, <1>r, <2>1 DEF TakeTooMuchDATA
<1> QED BY <1>1, <1>2, <1>3, <1>4, <1>5, <1>6, <1>7, <1>8, <1>9
           DEF ServerReceives

LEMMA ServerAloneWrites ==
  ASSUME TypeOKDatagrams, NEW p, p # Server, ServerTimesOut \/ Sigint
  PROVE  ServerWrites(p)
<1>1. LastSent.src # p
  BY DEF LastSent, Answer, ACC, Packet
<1>2. Send({LastSent}) => ServerWrites(p)
  BY <1>1, SendFrom DEF ServerWrites, Send
<1>3. UNCHANGED dgram_vars => ServerWrites(p)
  BY StillFrom DEF ServerWrites, dgram_vars
<1>4. Close(Server) => ServerWrites(p)
  BY CloseFrom DEF ServerWrites, Close
<1> QED BY <1>2, <1>3, <1>4
  DEF ServerTimesOut, UDP_ServerTimeout, UDPR_ServerRetransmit,
      UDPR_ServerGiveUp, Sigint, SigintWhileIdle, SigintInSession,
      SigintBetweenReads

LEMMA PaidStep ==
  ASSUME TypeOK, TypeOK', Placed, Paid, [Next]_vars
  PROVE  Paid'
<1> SUFFICES ASSUME NEW x \in Client
             PROVE  PaidFor(x)' /\ SentSoFar(x)'
  BY DEF Paid
<1>x. PaidFor(x) /\ SentSoFar(x) /\ x # Server
  BY AddressAssumption DEF Paid
<1>t. TypeOKDatagrams /\ duplicates \in Nat
  BY NetworkAssumption DEF TypeOK, TypeOKDatagrams
<1>s. ASSUME ServerWrites(x), UNCHANGED client_vars
      PROVE  PaidFor(x)' /\ SentSoFar(x)'
  BY <1>s, <1>t, <1>x, OthersPay DEF ServerWrites, client_vars
<1>1. ASSUME NEW c \in Client, ClientStep(c) \/ ClientKilled(c)
      PROVE  PaidFor(x)' /\ SentSoFar(x)'
  <2>1. ClientMove(c) /\ ClientTurn(c)
    BY <1>1, ClientStepMove, ClientStepTurn
  <2>2. CASE x = c
    BY <1>x, <2>1, <2>2, TurnPaid
  <2>3. CASE x # c
    <3>1. NoMoreFrom(x) /\ duplicates <= duplicates'
      BY <1>t, <2>1, <2>3, WritesOwn
    <3> QED BY <1>x, <2>1, <2>3, <3>1, OthersPay
               DEF ClientMove, OthersStay, ClientTurn
  <2> QED BY <2>2, <2>3
<1>2. CASE ServerReads \/ ServerWaits \/ ServerInterrupted
  BY <1>2, <1>s, <1>t, <1>x, ServerReadsWrite, ServerAloneWrites
     DEF ServerReads, ServerWaits, ServerInterrupted
<1>3. CASE Network
  <2>1. PICK m \in InFlight : Lose(m) \/ Duplicate(m)
    BY <1>3 DEF Network
  <2>2. CASE Lose(m)
    BY <1>3, <1>s, <1>t, <2>2, LoseFrom DEF Network, Lose, ServerWrites
  <2>3. CASE Duplicate(m)
    BY <1>3, <1>x, <2>3, DuplicatePaid DEF Network
  <2> QED BY <2>1, <2>2, <2>3
<1>4. CASE UNCHANGED vars
  BY <1>4, <1>s, <1>t, StillFrom DEF vars, dgram_vars, ServerWrites
<1> QED BY <1>1, <1>2, <1>3, <1>4 DEF Next, ServerStep

LEMMA PaidAlways == Spec => []Paid
<1>1. Init => Placed
  BY PlacedInit
<1>2. TypeOK /\ Placed /\ [Next]_vars => Placed'
  BY PlacedStep
<1>3. Init => Paid
  <2> SUFFICES ASSUME Init, NEW c \in Client
               PROVE  PaidFor(c) /\ SentSoFar(c)
    BY DEF Paid
  <2>1. \A m \in InFlight : m.src # c
    BY ScenarioAssumption, AddressAssumption DEF Init, InitDatagrams, InFlight
  <2>2. Copies(c) = {}
    BY <2>1 DEF Copies
  <2>3. IsFiniteSet(Copies(c)) /\ Cardinality(Copies(c)) = 0
    BY <2>2, FS_EmptySet
  <2>4. c_retransmits[c] = 0 /\ duplicates = 0
    BY DEF Init, InitClient, InitDatagrams
  <2>5. \A d \in NextPacket(c) : d.src = c
    BY DEF NextPacket, NextDATA, CONN, DATA, Packet
  <2> QED BY <2>1, <2>3, <2>4, <2>5 DEF PaidFor, SentSoFar
<1>4. TypeOK /\ TypeOK' /\ Placed /\ Paid /\ [Next]_vars => Paid'
  BY PaidStep
<1> QED BY <1>1, <1>2, <1>3, <1>4, TypeCorrect, PTL DEF Spec

\* Nothing is under way twice that was not paid for: beyond the first of each, the
\* packets of a client under way are at most as many as its retransmissions and the
\* network's copies, whatever is lost and whoever answers what.
THEOREM RepeatsPaid == Spec => []RepeatsArePaidFor
<1>1. Paid => RepeatsArePaidFor
  BY DEF Paid, PaidFor, RepeatsArePaidFor
<1> QED BY <1>1, PaidAlways, PTL

-----------------------------------------------------------------------------
(* What a session takes and answers is paid for by the file.               *)

\* Every DATA of a client brings bytes.
Bringing(c) ==
  \A m \in InFlight : m.src = c /\ m.kind = "DATA" => m.bytes > 0

SessionLacks == s_pc = "session" => s_bytes_recvd < s_conn.bytes

\* Who writes in the name of client c: c itself.
LEMMA WrittenByClient ==
  ASSUME TypeOK, NEW c \in Client, [Next]_vars
  PROVE  \A m \in InFlight' : m.src = c =>
           \/ m \in InFlight
           \/ m.kind = "CONN"
           \/ c_pc[c] = "DATA" /\ m = NextDATA(c)
<1>t. TypeOKDatagrams /\ c # Server
  BY AddressAssumption DEF TypeOK
<1>1. ASSUME NEW x \in Client, ClientStep(x) \/ ClientKilled(x), x # c
      PROVE  NoMoreFrom(c)
  BY <1>1, <1>t, ClientStepTurn, WritesOwn
<1>2. CASE ClientStep(c) \/ ClientKilled(c)
  <2>1. ClientTurn(c)
    BY <1>2, ClientStepTurn
  <2>2. CASE Hears(c)
    BY <1>t, <2>2, HearsOnly DEF NoMoreFrom
  <2>3. CASE WritesCONN(c)
    <3>1. CONN(c, SessionId[c], ProtocolOf[c], occupied_size[c]).kind = "CONN"
      BY DEF CONN, Packet
    <3> QED BY <1>t, <2>3, <3>1, InFlightAfterSend DEF WritesCONN
  <2>4. CASE WritesDATA(c)
    BY <1>t, <2>4, InFlightAfterSend DEF WritesDATA
  <2> QED BY <2>1, <2>2, <2>3, <2>4
             DEF ClientTurn, WaitsOrEnds, Repeats, Starts, GoesOn
<1>3. CASE ServerReads \/ ServerWaits \/ ServerInterrupted
  BY <1>3, <1>t, ServerReadsWrite, ServerAloneWrites
     DEF ServerReads, ServerWaits, ServerInterrupted, ServerWrites, NoMoreFrom
<1>4. CASE Network \/ UNCHANGED vars
  BY <1>4, <1>t, NetworkType DEF Network, vars, dgram_vars, InFlight
<1> QED BY <1>1, <1>2, <1>3, <1>4 DEF Next, ServerStep, NoMoreFrom

LEMMA BringingStep ==
  ASSUME TypeOK, Placed, NEW c \in Client, Bringing(c), [Next]_vars
  PROVE  Bringing(c)'
<1>1. c_pc[c] = "DATA" => NextDATA(c).bytes > 0
  BY ShiftPositive DEF TypeOK, NextDATA, DATA, Packet, Sending
<1>2. ASSUME NEW m \in InFlight', m.src = c, m.kind = "DATA"
      PROVE  m.bytes > 0
  BY <1>1, <1>2, WrittenByClient DEF Bringing
<1> QED BY <1>2 DEF Bringing

\* Of what is under way, a reply adds to the datagrams it sends alone.
LEMMA NothingAnswered ==
  ASSUME TypeOKDatagrams, TypeOKDatagrams',
         \A d \in InFlight' : d.src = Server /\ d.dst = s_conn.addr =>
                             d \in InFlight /\ net'[d] <= net[d]
  PROVE  ~ SessionAnswers
<1> SUFFICES ASSUME SessionAnswers
             PROVE  FALSE
  OBVIOUS
<1>1. PICK d : /\ d \in InFlight' /\ d.src = Server /\ d.dst = s_conn.addr
               /\ d \notin InFlight \/ net'[d] > net[d]
  BY DEF SessionAnswers, InFlight
<1>2. d \in InFlight /\ net'[d] <= net[d]
  BY <1>1
<1>3. net[d] \in Nat
  BY <1>2, CopiesType
<1>4. net'[d] \in Nat
  BY <1>1 DEF TypeOKDatagrams, IsABag, InFlight, BagToSet
<1> QED BY <1>1, <1>2, <1>3, <1>4

LEMMA ReplyAdds ==
  ASSUME TypeOKDatagrams, NEW m \in InFlight, NEW D, Reply(m, D),
         NEW d \in InFlight', d \notin D
  PROVE  d \in InFlight /\ net'[d] <= net[d]
BY CopiesType
   DEF TypeOKDatagrams, Reply, Routed, InFlight, IsABag, BagToSet, SetToBag,
       (+), (-)

\* What the server does in a session that goes on.
LEMMA SessionReads ==
  ASSUME TypeOK, TypeOKDatagrams', NEW m \in InFlight, ServerReceives(m),
         s_pc = "session", s_pc' = "session", s_conn.addr \in Client,
         Bringing(s_conn.addr), SessionChanges \/ SessionAnswers
  PROVE  TakeDATA(m) /\ m.bytes \in Nat /\ m.bytes > 0
<1>t. TypeOKDatagrams
  BY DEF TypeOK
<1>n. TypeOKDatagrams'
  OBVIOUS
<1>r. ASSUME NEW D, Reply(m, D), \A d \in D : d.dst # s_conn.addr, KeepSession
      PROVE  FALSE
  <2>1. ~ SessionChanges
    BY <1>r DEF SessionChanges, KeepSession
  <2>2. \A d \in InFlight' :
          d.dst = s_conn.addr => d \in InFlight /\ net'[d] <= net[d]
    BY <1>r, <1>t, ReplyAdds
  <2>3. ~ SessionAnswers
    BY <1>n, <1>t, <2>2, NothingAnswered
  <2> QED BY <2>1, <2>3
<1>1. CASE TurnAway(m)
  <2>1. /\ Answer("CONRJT", m.src, m.sid).dst # s_conn.addr
        /\ Answer("RJT", m.src, m.sid).dst # s_conn.addr
    BY <1>1 DEF TurnAway, Answer, Packet
  <2> QED BY <1>1, <1>r, <2>1 DEF TurnAway
<1>2. CASE UDPR_Ignore(m)
  BY <1>2, <1>r DEF UDPR_Ignore
<1>3. CASE TakeDATA(m)
  <2>1. m.kind = "DATA" /\ m.src = s_conn.addr
    BY <1>3 DEF TakeDATA, FromClient, check_if_correct_DATA_packet
  <2>2. m.bytes \in Nat
    BY <1>t DEF TypeOKDatagrams, Datagram
  <2> QED BY <1>3, <2>1, <2>2 DEF Bringing
<1>4. ~ (\/ GetNothing(m) \/ RejectCONN(m) \/ AcceptCONN(m)
         \/ AcceptEmptyCONN(m) \/ SendCONACCFails(m))
  BY DEF GetNothing, RejectCONN, AcceptCONN, AcceptEmptyCONN, SendCONACCFails,
     Idle
<1>5. ~ (\/ LoseClient(m) \/ UDPR_Reject(m) \/ UDP_Reject(m) \/ TakeLastDATA(m)
         \/ TakeTooMuchDATA(m))
  BY DEF LoseClient, UDPR_Reject, UDP_Reject, TakeLastDATA, TakeTooMuchDATA,
     EndSession
<1> QED BY <1>1, <1>2, <1>3, <1>4, <1>5 DEF ServerReceives

LEMMA LacksStep ==
  ASSUME TypeOK, SessionLacks, [Next]_vars
  PROVE  SessionLacks'
<1> SUFFICES ASSUME s_pc' = "session"
             PROVE  s_bytes_recvd' < s_conn'.bytes
  BY DEF SessionLacks
<1>1. ASSUME s_pc = "session", UNCHANGED <<s_conn, s_bytes_recvd>>
      PROVE  s_bytes_recvd' < s_conn'.bytes
  BY <1>1 DEF SessionLacks
<1>2. ASSUME NEW m \in InFlight, ServerReceives(m)
      PROVE  s_bytes_recvd' < s_conn'.bytes
  <2>1. CASE AcceptCONN(m)
    BY <2>1 DEF AcceptCONN, OpenSession, ResetLocals
  <2>2. CASE TakeDATA(m)
    BY <2>2 DEF TakeDATA
  <2>3. CASE TurnAway(m) \/ UDPR_Ignore(m)
    BY <1>1, <2>3 DEF TurnAway, UDPR_Ignore, KeepSession, InSession, FromClient
  <2>4. ~ (\/ GetNothing(m) \/ RejectCONN(m) \/ AcceptEmptyCONN(m)
           \/ SendCONACCFails(m))
    BY DEF GetNothing, RejectCONN, AcceptEmptyCONN, SendCONACCFails, Idle,
       KeepSession
  <2>5. ~ (\/ LoseClient(m) \/ UDPR_Reject(m) \/ UDP_Reject(m)
           \/ TakeLastDATA(m) \/ TakeTooMuchDATA(m))
    BY DEF LoseClient, UDPR_Reject, UDP_Reject, TakeLastDATA, TakeTooMuchDATA,
       EndSession
  <2> QED BY <1>2, <2>1, <2>2, <2>3, <2>4, <2>5 DEF ServerReceives
<1>3. CASE ServerTimesOut \/ Sigint
  BY <1>1, <1>3 DEF ServerTimesOut, UDP_ServerTimeout, UDPR_ServerRetransmit,
     UDPR_ServerGiveUp, Sigint, SigintWhileIdle, SigintInSession,
     SigintBetweenReads, EndSession, KeepSession
<1>4. CASE UNCHANGED server_vars
  BY <1>1, <1>4 DEF server_vars
<1> QED BY <1>2, <1>3, <1>4
  DEF Next, ServerStep, ServerReads, ServerWaits, ServerInterrupted, ClientStep,
      ClientSends, ClientReceives, ClientTimesOut, ClientKilled, Network, vars

\* One step of a session with a client.
SessionDescent ==
  /\ s_pc = "session" /\ s_pc' = "session" /\ s_conn.addr \in Client
  /\ SessionChanges \/ SessionAnswers
  => SessionRemaining' \in 0 .. SessionRemaining - 1

LEMMA SessionStepDescends ==
  ASSUME TypeOK, SessionLacks, \A c \in Client : Bringing(c), [Next]_vars
  PROVE  SessionDescent
<1> SUFFICES ASSUME s_pc = "session", s_pc' = "session", s_conn.addr \in Client,
                    SessionChanges \/ SessionAnswers
             PROVE  SessionRemaining' \in 0 .. SessionRemaining - 1
  BY DEF SessionDescent
<1>n. TypeOKDatagrams'
  BY TypeStep DEF TypeOK
<1>t. /\ TypeOKDatagrams /\ TypeOKDatagrams' /\ duplicates \in Nat
      /\ s_conn \in Conn /\ s_bytes_recvd \in Nat
      /\ s_bytes_recvd < s_conn.bytes
      /\ MAX_RETRANSMITS \in Nat /\ s_retransmits \in 0 .. MAX_RETRANSMITS
  BY <1>n, NetworkAssumption
     DEF TypeOK, TypeOKDatagrams, TypeOKServer, SessionLacks
<1>b. s_conn.bytes \in Nat
  BY <1>t DEF Conn
<1>s. ASSUME NoMoreFrom(Server), UNCHANGED server_vars
      PROVE  FALSE
  <2>1. ~ SessionChanges
    BY <1>s DEF SessionChanges, server_vars
  <2>2. ~ SessionAnswers
    BY <1>s, <1>t, NothingAnswered DEF NoMoreFrom
  <2> QED BY <2>1, <2>2
<1>1. ASSUME NEW c \in Client, ClientStep(c) \/ ClientKilled(c)
      PROVE  FALSE
  <2>1. c # Server
    BY AddressAssumption
  <2>2. NoMoreFrom(Server)
    BY <1>1, <1>t, <2>1, ClientStepTurn, WritesOwn
  <2> QED BY <1>1, <1>s, <2>2 DEF ClientStep, ClientSends, ClientReceives,
             ClientTimesOut, ClientKilled
<1>2. ASSUME NEW m \in InFlight, ServerReceives(m)
      PROVE  SessionRemaining' \in 0 .. SessionRemaining - 1
  <2>1. TakeDATA(m) /\ m.bytes \in Nat /\ m.bytes > 0
    BY <1>2, <1>t, SessionReads
  <2>2. /\ s_bytes_recvd' = s_bytes_recvd + m.bytes
        /\ s_bytes_recvd + m.bytes < s_conn.bytes
        /\ s_conn' = s_conn /\ s_retransmits' = s_retransmits
    BY <2>1 DEF TakeDATA
  <2> QED BY <1>t, <1>b, <2>1, <2>2 DEF SessionRemaining
<1>3. CASE ServerTimesOut
  <2>1. UDPR_ServerRetransmit
    BY <1>3 DEF ServerTimesOut, UDP_ServerTimeout, UDPR_ServerGiveUp, EndSession
  <2>2. /\ s_retransmits' = s_retransmits + 1
        /\ s_retransmits < MAX_RETRANSMITS
        /\ s_conn' = s_conn /\ s_bytes_recvd' = s_bytes_recvd
    BY <2>1 DEF UDPR_ServerRetransmit
  <2> QED BY <1>t, <1>b, <2>2 DEF SessionRemaining
<1>4. CASE Sigint
  <2>1. KeepSession /\ UNCHANGED dgram_vars
    BY <1>4 DEF Sigint, SigintWhileIdle, SigintInSession, SigintBetweenReads,
       EndSession
  <2>2. ~ SessionChanges
    BY <2>1 DEF SessionChanges, KeepSession
  <2>3. ~ SessionAnswers
    BY <1>t, <2>1, StillFrom, NothingAnswered DEF NoMoreFrom, dgram_vars
  <2> QED BY <2>2, <2>3
<1>5. CASE Network
  <2>1. PICK m \in InFlight : Lose(m) \/ Duplicate(m)
    BY <1>5 DEF Network
  <2>2. CASE Lose(m)
    BY <1>5, <1>s, <1>t, <2>2, LoseFrom DEF Network
  <2>3. CASE Duplicate(m)
    BY <1>5, <1>t, <2>3 DEF Network, Duplicate, SessionChanges, SessionAnswers,
       server_vars
  <2> QED BY <2>1, <2>2, <2>3
<1>6. CASE UNCHANGED vars
  BY <1>6, <1>s, <1>t, StillFrom DEF vars, dgram_vars
<1> QED BY <1>1, <1>2, <1>3, <1>4, <1>5, <1>6
  DEF Next, ServerStep, ServerReads, ServerWaits, ServerInterrupted

\* A session with a client is finite in what it does: whenever the server changes
\* its state in it, or writes to the client, fewer bytes of the file are left or
\* fewer retransmissions.
THEOREM SessionDescendsAlways == Spec => SessionDescends
<1> DEFINE BringingAll == \A c \in Client : Bringing(c)
<1>1. Init => Placed
  BY PlacedInit
<1>2. TypeOK /\ Placed /\ [Next]_vars => Placed'
  BY PlacedStep
<1>3. Init => BringingAll /\ SessionLacks
  <2> SUFFICES ASSUME Init
               PROVE  BringingAll /\ SessionLacks
    OBVIOUS
  <2>1. \A m \in InFlight : m.src \in Peer
    BY ScenarioAssumption DEF Init, InitDatagrams, InFlight
  <2>2. BringingAll
    BY <2>1, AddressAssumption DEF Bringing
  <2> QED BY <2>2 DEF Init, InitServer, SessionLacks
<1>4. TypeOK /\ Placed /\ BringingAll /\ [Next]_vars => BringingAll'
  BY BringingStep
<1>5. TypeOK /\ SessionLacks /\ [Next]_vars => SessionLacks'
  BY LacksStep
<1>6. /\ TypeOK /\ SessionLacks /\ BringingAll /\ [Next]_vars
      => [SessionDescent]_vars
  BY SessionStepDescends
<1> HIDE DEF BringingAll
<1> QED BY <1>1, <1>2, <1>3, <1>4, <1>5, <1>6, TypeCorrect, PTL
           DEF Spec, SessionDescends, SessionDescent

-----------------------------------------------------------------------------
(* What a client has still to send when its file was taken.                *)

\* A UDP client goes past a packet when it writes it.
PastItsPackets(c) ==
  ProtocolOf[c] = "UDP" =>
    /\ c_pc[c] # "wait_ACC"
    /\ \A m \in InFlight : m.src = c /\ m.kind = "DATA" => m.id < c_package_id[c]

LEMMA PastKept ==
  ASSUME TypeOK, NEW c \in Client, PastItsPackets(c), NoMoreFrom(c),
         ProtocolOf[c] = "UDP" => c_pc'[c] # "wait_ACC",
         c_package_id'[c] \in Nat, c_package_id[c] <= c_package_id'[c]
  PROVE  PastItsPackets(c)'
BY DEF PastItsPackets, NoMoreFrom, TypeOK, TypeOKClient, TypeOKDatagrams, Datagram

LEMMA TurnPast ==
  ASSUME TypeOK, TypeOK', NEW c \in Client, PastItsPackets(c), ClientTurn(c)
  PROVE  PastItsPackets(c)'
<1>t. /\ TypeOKDatagrams /\ TypeOKClient
      /\ c_package_id[c] \in Nat /\ c_package_id'[c] \in Nat
  BY DEF TypeOK, TypeOKClient
<1>a. \A n : AfterBytes(c, n) \in {"DATA", "wait_RCVD"}
  BY DEF AfterBytes
<1>n. NextPiece(c) => c_package_id'[c] = c_package_id[c] + 1
  BY <1>t, NextPieceMove
<1>w. ProtocolOf[c] = "UDP" => c_pc[c] # "wait_ACC"
  BY DEF PastItsPackets
<1>1. CASE WaitsOrEnds(c) \/ Repeats(c) \/ Starts(c) \/ GoesOn(c)
  <2>1. NoMoreFrom(c)
    BY <1>1, <1>t, HearsOnly DEF WaitsOrEnds, Repeats, Starts, GoesOn
  <2>2. c_package_id[c] <= c_package_id'[c]
    BY <1>1, <1>t, <1>n DEF WaitsOrEnds, Repeats, Starts, GoesOn, SamePiece
  <2>3. ProtocolOf[c] = "UDP" => c_pc'[c] # "wait_ACC"
    BY <1>1, <1>a, <1>w DEF WaitsOrEnds, Repeats, Starts, GoesOn, Ended
  <2> QED BY <1>t, <2>1, <2>2, <2>3, PastKept
<1>2. CASE WritesCONN(c)
  <2> DEFINE d == CONN(c, SessionId[c], ProtocolOf[c], occupied_size[c])
  <2>1. InFlight' \subseteq InFlight \cup {d} /\ d.kind = "CONN"
    BY <1>2, <1>t, InFlightAfterSend DEF WritesCONN, CONN, Packet
  <2> QED BY <1>2, <2>1 DEF WritesCONN, SamePiece, PastItsPackets
<1>3. CASE WritesDATA(c)
  <2>1. InFlight' \subseteq InFlight \cup {NextDATA(c)}
    BY <1>3, <1>t, InFlightAfterSend DEF WritesDATA
  <2>2. NextDATA(c).id = c_package_id[c]
    BY DEF NextDATA, DATA, Packet
  <2> SUFFICES ASSUME ProtocolOf[c] = "UDP"
               PROVE  PastItsPackets(c)'
    BY DEF PastItsPackets
  <2>3. /\ c_pc'[c] # "wait_ACC"
        /\ c_package_id'[c] = c_package_id[c] + 1
    BY <1>3, <1>a, <1>n DEF WritesDATA
  <2>4. ASSUME NEW m \in InFlight', m.src = c, m.kind = "DATA"
        PROVE  m.id < c_package_id'[c]
    <3>1. CASE m \in InFlight
      <4>1. m.id \in Nat /\ m.id < c_package_id[c]
        BY <2>4, <3>1 DEF PastItsPackets, TypeOK, TypeOKDatagrams, Datagram
      <4> QED BY <1>t, <2>3, <4>1
    <3>2. CASE m = NextDATA(c)
      BY <1>t, <2>2, <2>3, <3>2
    <3> QED BY <2>1, <3>1, <3>2
  <2> QED BY <2>3, <2>4 DEF PastItsPackets
<1> QED BY <1>1, <1>2, <1>3 DEF ClientTurn

LEMMA PastStep ==
  ASSUME TypeOK, TypeOK', NEW c \in Client, PastItsPackets(c), [Next]_vars
  PROVE  PastItsPackets(c)'
<1>t. TypeOKDatagrams /\ c # Server /\ c_package_id[c] \in Nat
  BY AddressAssumption DEF TypeOK, TypeOKClient
<1>s. ASSUME NoMoreFrom(c), c_pc'[c] = c_pc[c], c_package_id'[c] = c_package_id[c]
      PROVE  PastItsPackets(c)'
  BY <1>s, <1>t, PastKept DEF PastItsPackets
<1>1. ASSUME NEW x \in Client, ClientStep(x) \/ ClientKilled(x)
      PROVE  PastItsPackets(c)'
  <2>1. ClientMove(x) /\ ClientTurn(x)
    BY <1>1, ClientStepMove, ClientStepTurn
  <2>2. CASE x # c
    <3>1. NoMoreFrom(c)
      BY <1>t, <2>1, <2>2, WritesOwn
    <3> QED BY <1>s, <2>1, <2>2, <3>1 DEF ClientMove, OthersStay
  <2>3. CASE x = c
    BY <2>1, <2>3, TurnPast
  <2> QED BY <2>2, <2>3
<1>2. CASE ServerReads \/ ServerWaits \/ ServerInterrupted
  <2>1. NoMoreFrom(c)
    BY <1>2, <1>t, ServerReadsWrite, ServerAloneWrites
       DEF ServerReads, ServerWaits, ServerInterrupted, ServerWrites
  <2> QED BY <1>2, <1>s, <2>1
             DEF ServerReads, ServerWaits, ServerInterrupted, client_vars
<1>3. CASE Network
  <2>1. InFlight' \subseteq InFlight
    BY <1>3, <1>t, NetworkType DEF Network
  <2> QED BY <1>3, <2>1 DEF Network, PastItsPackets, client_vars
<1>4. CASE UNCHANGED vars
  BY <1>4, <1>s, <1>t, StillFrom DEF vars, dgram_vars, client_vars
<1> QED BY <1>1, <1>2, <1>3, <1>4 DEF Next, ServerStep

\* The conjuncts of DeliveredIsSent about one client.
NothingNew(c) ==
  /\ c_pc[c] \notin {"CONN", "wait_CONACC"}
  /\ c_pc[c] \in {"DATA", "wait_ACC"} =>
       /\ ProtocolOf[c] = "UDPR"
       /\ c_bytes_sent[c] + shift(c) = occupied_size[c]

LEMMA OffsetsApart ==
  ASSUME NEW k \in Nat, NEW id \in Nat, k < id
  PROVE  OffsetOf(k) + SEND_BUFF_SIZE <= OffsetOf(id)
<1>1. SEND_BUFF_SIZE \in Nat
  BY ClientAssumption
<1>2. PICK d \in Nat : id = k + 1 + d
  <2>1. id - (k + 1) \in Nat
    OBVIOUS
  <2> QED BY <2>1
<1>3. d * SEND_BUFF_SIZE \in Nat /\ k * SEND_BUFF_SIZE \in Nat
  BY <1>1
<1>4. id * SEND_BUFF_SIZE
        = k * SEND_BUFF_SIZE + SEND_BUFF_SIZE + d * SEND_BUFF_SIZE
  BY <1>1, <1>2
<1> QED BY <1>1, <1>3, <1>4 DEF OffsetOf

\* The packet that brings the last byte of a file is the last one of its client.
LEMMA LastPacketSent ==
  ASSUME TypeOK, TruePackets, ServerPart, NEW c \in Client, ClientPosition(c),
         SentSoFar(c), PastItsPackets(c),
         NEW m \in InFlight, TakeLastDATA(m), s_conn.addr = c
  PROVE  NothingNew(c)
<1>1. /\ FromClient(m) /\ check_if_correct_DATA_packet(m) = "SUCCESS"
      /\ s_bytes_recvd + m.bytes = s_conn.bytes
  BY DEF TakeLastDATA
<1>2. /\ m.kind = "DATA" /\ m.src = c
      /\ m.off = s_bytes_recvd /\ m.bytes = BytesAt(c, m.off)
      /\ m.off + m.bytes = occupied_size[c]
  BY <1>1, DATAContinues
<1>3. m.off = OffsetOf(m.id) /\ m.id \in Nat /\ m.off \in Nat
  BY <1>2, PacketFacts DEF TrueDATA
<1>4. /\ c_pc[c] \notin Connecting /\ m.id <= c_package_id[c]
      /\ ProtocolOf[c] = "UDP" =>
           c_pc[c] # "wait_ACC" /\ m.id < c_package_id[c]
  BY <1>2 DEF SentSoFar, PastItsPackets
<1>5. ASSUME c_pc[c] \in Sending
      PROVE  /\ ProtocolOf[c] = "UDPR"
             /\ c_bytes_sent[c] + shift(c) = occupied_size[c]
  <2>1. /\ c_bytes_sent[c] < occupied_size[c]
        /\ c_bytes_sent[c] = OffsetOf(c_package_id[c])
        /\ c_package_id[c] \in Nat /\ c_bytes_sent[c] \in Nat
        /\ occupied_size[c] \in Nat
    BY <1>5, ClientAssumption DEF ClientPosition, Sending, TypeOK, TypeOKClient
  <2>2. ~ m.id < c_package_id[c]
    <3> SUFFICES ASSUME m.id < c_package_id[c] PROVE FALSE
      OBVIOUS
    <3>1. OffsetOf(m.id) + SEND_BUFF_SIZE <= OffsetOf(c_package_id[c])
      BY <1>3, <2>1, OffsetsApart
    <3>2. m.bytes <= SEND_BUFF_SIZE /\ m.bytes \in Int /\ SEND_BUFF_SIZE \in Nat
      BY <1>2, <1>3, <2>1, ClientAssumption DEF BytesAt
    <3> QED BY <1>2, <1>3, <2>1, <3>1, <3>2
  <2>3. m.id = c_package_id[c]
    BY <1>3, <1>4, <2>1, <2>2
  <2>4. shift(c) = m.bytes
    BY <1>2, <1>3, <2>1, <2>3 DEF shift, BytesAt
  <2>5. ProtocolOf[c] = "UDPR"
    BY <1>4, <2>2, ClientAssumption DEF Protocol
  <2> QED BY <1>2, <1>3, <2>1, <2>3, <2>4, <2>5
<1> QED BY <1>4, <1>5 DEF NothingNew, Connecting, Sending

\* A client with nothing new to send does not come to have any.
LEMMA NothingNewTurn ==
  ASSUME TypeOKClient, NEW c \in Client, ClientTurn(c), NothingNew(c)
  PROVE  NothingNew(c)'
<1>1. CASE WaitsOrEnds(c)
  BY <1>1 DEF WaitsOrEnds, SamePiece, NothingNew, shift, Ended
<1>2. CASE Repeats(c)
  BY <1>2 DEF Repeats, SamePiece, NothingNew, shift, Connecting
<1>3. CASE WritesCONN(c) \/ Starts(c)
  BY <1>3 DEF WritesCONN, Starts, NothingNew
<1>4. c_pc[c] \in {"DATA", "wait_ACC"} =>
        AfterBytes(c, c_bytes_sent[c] + shift(c)) = "wait_RCVD"
  BY ClientAssumption DEF NothingNew, AfterBytes
<1>5. CASE WritesDATA(c)
  BY <1>4, <1>5 DEF WritesDATA, SamePiece, NothingNew, shift
<1>6. CASE GoesOn(c)
  BY <1>4, <1>6 DEF GoesOn, NothingNew
<1> QED BY <1>1, <1>2, <1>3, <1>5, <1>6 DEF ClientTurn

\* Only the end of a session with a client completes the client's file, unless the
\* file is empty.
LEMMA CompletedByLast ==
  ASSUME [Next]_vars, NEW c \in Client, occupied_size[c] > 0,
         ~ WholeFileDelivered(c), WholeFileDelivered(c)'
  PROVE  /\ UNCHANGED client_vars
         /\ \E m \in InFlight : TakeLastDATA(m) /\ s_conn.addr = c
<1>1. PICK d \in delivered' :
        /\ d.addr = c /\ d.sid = SessionId[c]
        /\ Beginning(c, d.received, occupied_size[c])
  BY DEF WholeFileDelivered, Beginning, Contiguous
<1>2. d \notin delivered
  BY <1>1 DEF WholeFileDelivered
<1>3. ServerReads
  <2>1. delivered' # delivered
    BY <1>1, <1>2
  <2>2. ~ ServerTimesOut /\ ~ Sigint
    BY <2>1 DEF ServerTimesOut, Sigint, UDP_ServerTimeout,
       UDPR_ServerRetransmit, UDPR_ServerGiveUp, SigintWhileIdle,
       SigintInSession, SigintBetweenReads, NoDelivery
  <2>3. ~ UNCHANGED server_vars
    BY <2>1 DEF server_vars
  <2>4. \A x : ~ ClientStep(x) /\ ~ ClientKilled(x)
    BY <2>3 DEF ClientStep, ClientSends, ClientReceives, ClientTimesOut,
       ClientKilled
  <2>5. ~ ServerWaits /\ ~ ServerInterrupted /\ ~ Network /\ ~ UNCHANGED vars
    BY <2>2, <2>3 DEF ServerWaits, ServerInterrupted, Network, vars
  <2> QED BY <2>4, <2>5 DEF Next, ServerStep
<1>4. PICK m \in InFlight : ServerReceives(m)
  BY <1>3 DEF ServerReads
<1>5. ~ AcceptEmptyCONN(m)
  <2> SUFFICES ASSUME AcceptEmptyCONN(m) PROVE FALSE
    OBVIOUS
  <2>1. d.received = <<>>
    BY <1>1, <1>2 DEF AcceptEmptyCONN
  <2>2. occupied_size[c] = 0
    BY <1>1, <2>1 DEF Beginning, Contiguous
  <2> QED BY <2>2
<1>6. TakeLastDATA(m)
  BY <1>1, <1>2, <1>4, <1>5 DEF ServerReceives, GetNothing, RejectCONN,
     AcceptCONN, SendCONACCFails, TurnAway, LoseClient, UDPR_Ignore, UDPR_Reject,
     UDP_Reject, TakeDATA, TakeTooMuchDATA, NoDelivery
<1>7. s_conn.addr = c
  BY <1>1, <1>2, <1>6 DEF TakeLastDATA, FromClient
<1> QED BY <1>3, <1>6, <1>7 DEF ServerReads

LEMMA NothingNewStep ==
  ASSUME Inductive, [Next]_vars, NEW c \in Client, SentSoFar(c),
         PastItsPackets(c), occupied_size[c] > 0,
         WholeFileDelivered(c) => NothingNew(c), WholeFileDelivered(c)'
  PROVE  NothingNew(c)'
<1>i. /\ TypeOK /\ TypeOKClient /\ TruePackets /\ ServerPart /\ ClientPosition(c)
  BY InductiveParts DEF ClientPart, TypeOK
<1>1. CASE WholeFileDelivered(c)
  <2>1. CASE c_pc'[c] = c_pc[c] /\ c_bytes_sent'[c] = c_bytes_sent[c]
    BY <1>1, <2>1 DEF NothingNew, shift
  <2>2. CASE UNCHANGED client_vars
    BY <2>1, <2>2 DEF client_vars
  <2>3. ASSUME NEW x \in Client, ClientStep(x) \/ ClientKilled(x)
        PROVE  NothingNew(c)'
    <3>1. ClientMove(x) /\ ClientTurn(x)
      BY <1>i, <2>3, ClientStepMove, ClientStepTurn
    <3>2. CASE x # c
      BY <2>1, <3>1, <3>2 DEF ClientMove, OthersStay
    <3> QED BY <1>1, <1>i, <3>1, <3>2, NothingNewTurn
  <2> QED BY <1>i, <2>2, <2>3, OneActor
<1>2. CASE ~ WholeFileDelivered(c)
  <2>1. /\ UNCHANGED client_vars
        /\ \E m \in InFlight : TakeLastDATA(m) /\ s_conn.addr = c
    BY <1>2, CompletedByLast
  <2>2. NothingNew(c)
    BY <1>i, <2>1, LastPacketSent
  <2> QED BY <2>1, <2>2 DEF NothingNew, shift, client_vars
<1> QED BY <1>1, <1>2

AllPast == \A c \in Client : PastItsPackets(c)

\* Once a client's file was taken, the client has sent all of it: UDP has written
\* its last packet, and UDPR can only repeat the last one.
THEOREM DeliveredSent ==
  ASSUME EmptyFilesHaveOwnIds
  PROVE  Spec => []DeliveredIsSent
<1>1. Init => AllPast /\ DeliveredIsSent
  <2> SUFFICES ASSUME Init
               PROVE  AllPast /\ DeliveredIsSent
    OBVIOUS
  <2>1. ASSUME NEW c \in Client
        PROVE  PastItsPackets(c)
    <3>1. \A m \in InFlight : m.src # c
      BY ScenarioAssumption, AddressAssumption DEF Init, InitDatagrams, InFlight
    <3>2. c_pc[c] # "wait_ACC"
      BY DEF Init, InitClient
    <3> QED BY <3>1, <3>2 DEF PastItsPackets
  <2>2. delivered = {}
    BY DEF Init, InitServer
  <2> QED BY <2>1, <2>2 DEF AllPast, DeliveredIsSent, WholeFileDelivered
<1>2. TypeOK /\ TypeOK' /\ AllPast /\ [Next]_vars => AllPast'
  BY PastStep DEF AllPast
<1>3. Inductive /\ Paid /\ AllPast /\ DeliveredIsSent /\ [Next]_vars
        => DeliveredIsSent'
  <2> SUFFICES ASSUME Inductive, Paid, AllPast, DeliveredIsSent, [Next]_vars,
                      NEW c \in Client, WholeFileDelivered(c)',
                      occupied_size[c] > 0
               PROVE  NothingNew(c)'
    BY DEF DeliveredIsSent, NothingNew
  <2>1. /\ SentSoFar(c) /\ PastItsPackets(c)
        /\ WholeFileDelivered(c) => NothingNew(c)
    BY DEF Paid, AllPast, DeliveredIsSent, NothingNew
  <2> QED BY <2>1, NothingNewStep
<1> QED BY <1>1, <1>2, <1>3, TypeCorrect, PaidAlways, InductiveInvariant, PTL
        DEF Spec
=============================================================================
