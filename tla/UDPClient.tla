----------------------------- MODULE UDPClient -----------------------------
(***************************************************************************)
(* ppcbc over plain UDP (client_UDP_lib.c): nothing is sent twice, and     *)
(* whatever is not the expected answer ends the transfer.                  *)
(***************************************************************************)
EXTENDS PPCBClient

UDP_SendCONN(c) ==
  /\ c_pc[c] = "CONN"
  /\ Send({CONN(c, SessionId[c], "UDP", occupied_size[c])})
  /\ Goto(c, "wait_CONACC")
  /\ UNCHANGED <<c_package_id, c_bytes_sent, c_retransmits, c_server_ip>>

\* sendto() fails for the CONN or for a DATA packet.
UDP_SendFails(c) ==
  /\ Faults
  /\ c_pc[c] \in {"CONN", "DATA"}
  /\ Quit(c, "failed")
  /\ UNCHANGED <<c_package_id, c_bytes_sent, c_retransmits, c_server_ip>>

UDP_GetCONACC(c, m) ==
  /\ Response(c, m, "wait_CONACC")
  /\ Own(c, m, "CONACC") /\ m.sized
  /\ Reply(m, {})
  /\ Goto(c, AfterBytes(c, 0))
  /\ UNCHANGED <<c_package_id, c_bytes_sent, c_retransmits>>

UDP_SendDATA(c) ==
  /\ c_pc[c] = "DATA"
  /\ Send({NextDATA(c)})
  /\ NextPiece(c)
  /\ Goto(c, AfterBytes(c, c_bytes_sent[c] + shift(c)))
  /\ UNCHANGED <<c_retransmits, c_server_ip>>

UDP_GetRCVD(c, m) ==
  /\ Response(c, m, "wait_RCVD")
  /\ Own(c, m, "RCVD") /\ m.sized
  /\ Quit(c, "done")
  /\ UNCHANGED <<c_package_id, c_bytes_sent, c_retransmits>>

\* CONRJT, RJT, or anything else in place of the awaited packet.
UDP_GetWrongPacket(c, m) ==
  /\ \/ /\ Response(c, m, "wait_CONACC")
        /\ ~ (Own(c, m, "CONACC") /\ m.sized)
     \/ /\ Response(c, m, "wait_RCVD")
        /\ ~ (Own(c, m, "RCVD") /\ m.sized)
  /\ Quit(c, "failed")
  /\ UNCHANGED <<c_package_id, c_bytes_sent, c_retransmits>>

\* UDP ends on an error as on a timeout.
UDP_GetNothing(c, m) ==
  /\ TakesNothing(c, m)
  /\ Quit(c, "failed")
  /\ UNCHANGED <<c_package_id, c_bytes_sent, c_retransmits>>

\* Mutant: no timer runs while RCVD is awaited.
TimeoutBeforeDATA(c) ==
  /\ c_pc[c] = "wait_CONACC"
  /\ Quit(c, "failed")
  /\ UNCHANGED <<c_package_id, c_bytes_sent, c_retransmits, c_server_ip>>

UDP_Timeout(c) ==
  /\ c_pc[c] \in Waiting
  /\ Quit(c, "failed")
  /\ UNCHANGED <<c_package_id, c_bytes_sent, c_retransmits, c_server_ip>>

UDP_Sends(c) == UDP_SendCONN(c) \/ UDP_SendFails(c) \/ UDP_SendDATA(c)

UDP_Receives(c, m) ==
  \/ UDP_GetCONACC(c, m)
  \/ UDP_GetRCVD(c, m)
  \/ UDP_GetWrongPacket(c, m)
  \/ UDP_GetNothing(c, m)
=============================================================================
