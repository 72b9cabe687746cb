---------------------------- MODULE UDPRClient ----------------------------
(***************************************************************************)
(* ppcbc over UDP with retransmission (client_UDPR_lib.c): a stop-and-wait *)
(* sender with one budget of retransmissions for the whole transfer.       *)
(***************************************************************************)
EXTENDS PPCBClient

\* Mutant: the repetition is not counted.
RetransmitForFree(c, pc) ==
  /\ c_retransmits[c] < MAX_RETRANSMITS
  /\ UNCHANGED c_retransmits
  /\ Goto(c, pc)

\* nbr_of_retransmits++ and send the same packet once more.
Retransmit(c, pc) ==
  /\ c_retransmits[c] < MAX_RETRANSMITS
  /\ c_retransmits' = [c_retransmits EXCEPT ![c] = @ + 1]
  /\ Goto(c, pc)

\* nbr_of_retransmits++ goes over the limit.
GiveUp(c) ==
  /\ c_retransmits[c] >= MAX_RETRANSMITS
  /\ Quit(c, "failed")
  /\ UNCHANGED c_retransmits

Progress(c) == UNCHANGED <<c_package_id, c_bytes_sent>>

-----------------------------------------------------------------------------
(* Establishing the connection.                                            *)

UDPR_SendCONN(c) ==
  /\ c_pc[c] = "CONN"
  /\ Send({CONN(c, SessionId[c], "UDPR", occupied_size[c])})
  /\ Goto(c, "wait_CONACC")
  /\ UNCHANGED <<c_package_id, c_bytes_sent, c_retransmits, c_server_ip>>

\* A failed sendto() counts as a retransmission here.
UDPR_SendCONNFails(c) ==
  /\ Faults
  /\ c_pc[c] = "CONN"
  /\ \/ Retransmit(c, "CONN") /\ UNCHANGED dgram_vars
     \/ GiveUp(c)
  /\ Progress(c) /\ UNCHANGED c_server_ip

UDPR_GetCONRJT(c, m) ==
  /\ Response(c, m, "wait_CONACC")
  /\ Own(c, m, "CONRJT")
  /\ Quit(c, "failed")
  /\ Progress(c) /\ UNCHANGED c_retransmits

UDPR_GetCONACC(c, m) ==
  /\ Response(c, m, "wait_CONACC")
  /\ Own(c, m, "CONACC") /\ m.sized
  /\ Reply(m, {})
  /\ Goto(c, AfterBytes(c, 0))
  /\ Progress(c) /\ UNCHANGED c_retransmits

\* Any other datagram from the server makes the client send CONN again.
UDPR_GetOtherThanCONACC(c, m) ==
  /\ Response(c, m, "wait_CONACC")
  /\ ~ Own(c, m, "CONRJT")
  /\ ~ (Own(c, m, "CONACC") /\ m.sized)
  /\ \/ Retransmit(c, "CONN") /\ Reply(m, {})
     \/ GiveUp(c)
  /\ Progress(c)

-----------------------------------------------------------------------------
(* Sending the data, one acknowledged packet after the other.              *)

UDPR_SendDATA(c) ==
  /\ c_pc[c] = "DATA"
  /\ Send({NextDATA(c)})
  /\ Goto(c, "wait_ACC")
  /\ Progress(c) /\ UNCHANGED <<c_retransmits, c_server_ip>>

UDPR_SendDATAFails(c) ==
  /\ Faults
  /\ c_pc[c] = "DATA"
  /\ Quit(c, "failed")
  /\ Progress(c) /\ UNCHANGED <<c_retransmits, c_server_ip>>

\* Mutant: an ACC of any packet will do.
AnyACC(c, m) == Own(c, m, "ACC") /\ m.sized

CurrentACC(c, m) ==
  Own(c, m, "ACC") /\ m.sized /\ m.id = c_package_id[c]

\* A repeated CONACC before the first ACC, or an ACC of an earlier packet.
EarlierPacket(c, m) ==
  \/ Own(c, m, "CONACC") /\ m.sized /\ c_package_id[c] = 0
  \/ Own(c, m, "ACC") /\ m.sized /\ m.id < c_package_id[c]

\* An RCVD in place of the ACC counts as a timeout.
EarlyRCVD(c, m) == Own(c, m, "RCVD") /\ m.sized

UDPR_GetACC(c, m) ==
  /\ Response(c, m, "wait_ACC")
  /\ CurrentACC(c, m)
  /\ Reply(m, {})
  /\ NextPiece(c)
  /\ Goto(c, AfterBytes(c, c_bytes_sent[c] + shift(c)))
  /\ UNCHANGED c_retransmits

UDPR_IgnoreEarlier(c, m) ==
  /\ Response(c, m, "wait_ACC")
  /\ EarlierPacket(c, m)
  /\ Reply(m, {})
  /\ Progress(c) /\ UNCHANGED <<c_pc, c_retransmits>>

UDPR_GetEarlyRCVD(c, m) ==
  /\ Response(c, m, "wait_ACC")
  /\ EarlyRCVD(c, m)
  /\ \/ Retransmit(c, "DATA") /\ Reply(m, {})
     \/ GiveUp(c)
  /\ Progress(c)

UDPR_GetOtherThanACC(c, m) ==
  /\ Response(c, m, "wait_ACC")
  /\ ~ (CurrentACC(c, m) \/ EarlierPacket(c, m) \/ EarlyRCVD(c, m))
  /\ Quit(c, "failed")
  /\ Progress(c) /\ UNCHANGED c_retransmits

-----------------------------------------------------------------------------
(* Waiting for RCVD.                                                       *)

\* The limit handle_RCVD is called with: it is never moved on from 0.
last_package_idx == 0

LateACC(c, m) == Own(c, m, "ACC") /\ m.sized /\ m.id <= last_package_idx

UDPR_GetRCVD(c, m) ==
  /\ Response(c, m, "wait_RCVD")
  /\ Own(c, m, "RCVD") /\ m.sized
  /\ Quit(c, "done")
  /\ Progress(c) /\ UNCHANGED c_retransmits

UDPR_IgnoreLateACC(c, m) ==
  /\ Response(c, m, "wait_RCVD")
  /\ LateACC(c, m)
  /\ Reply(m, {})
  /\ Progress(c) /\ UNCHANGED <<c_pc, c_retransmits>>

UDPR_GetOtherThanRCVD(c, m) ==
  /\ Response(c, m, "wait_RCVD")
  /\ ~ (LateACC(c, m) \/ (Own(c, m, "RCVD") /\ m.sized))
  /\ Quit(c, "failed")
  /\ Progress(c) /\ UNCHANGED c_retransmits

-----------------------------------------------------------------------------

\* wait_for_server_response takes the 0 of recvfrom() for a timeout when errno
\* still is EAGAIN from one before, else for an error.
UDPR_GetNothing(c, m) ==
  /\ TakesNothing(c, m)
  /\ \/ c_pc[c] = "wait_CONACC" /\ Retransmit(c, "CONN") /\ Reply(m, {})
     \/ c_pc[c] = "wait_CONACC" /\ GiveUp(c)
     \/ /\ c_pc[c] = "wait_ACC" /\ c_retransmits[c] > 0
        /\ Retransmit(c, "DATA") /\ Reply(m, {})
     \/ /\ c_pc[c] \in {"wait_ACC", "wait_RCVD"}
        /\ Quit(c, "failed") /\ UNCHANGED c_retransmits
  /\ Progress(c)

\* MAX_WAIT seconds pass: the packet sent last goes out again, except that
\* nothing is left to be sent when RCVD is awaited.
UDPR_Timeout(c) ==
  /\ \/ c_pc[c] = "wait_CONACC" /\ Retransmit(c, "CONN") /\ UNCHANGED dgram_vars
     \/ c_pc[c] = "wait_ACC" /\ Retransmit(c, "DATA") /\ UNCHANGED dgram_vars
     \/ c_pc[c] \in {"wait_CONACC", "wait_ACC"} /\ GiveUp(c)
     \/ c_pc[c] = "wait_RCVD" /\ Quit(c, "failed") /\ UNCHANGED c_retransmits
  /\ Progress(c) /\ UNCHANGED c_server_ip

UDPR_Sends(c) ==
  \/ UDPR_SendCONN(c)
  \/ UDPR_SendCONNFails(c)
  \/ UDPR_SendDATA(c)
  \/ UDPR_SendDATAFails(c)

UDPR_Receives(c, m) ==
  \/ UDPR_GetCONRJT(c, m)
  \/ UDPR_GetCONACC(c, m)
  \/ UDPR_GetOtherThanCONACC(c, m)
  \/ UDPR_GetACC(c, m)
  \/ UDPR_IgnoreEarlier(c, m)
  \/ UDPR_GetEarlyRCVD(c, m)
  \/ UDPR_GetOtherThanACC(c, m)
  \/ UDPR_GetRCVD(c, m)
  \/ UDPR_IgnoreLateACC(c, m)
  \/ UDPR_GetOtherThanRCVD(c, m)
  \/ UDPR_GetNothing(c, m)
=============================================================================
