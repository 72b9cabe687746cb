---------------------------- MODULE PPCBTransfer ----------------------------
(***************************************************************************)
(* What PPCB promises, with the packets left out: the server serves one    *)
(* client at a time and takes the client's bytes in that session; a client *)
(* may report success only when all of its bytes have been taken in one    *)
(* session, and may fail at any time.                                      *)
(***************************************************************************)
EXTENDS Naturals

CONSTANTS
  Client,    \* the clients, with one file each
  Other,     \* whoever else the server may serve
  Size,      \* the number of bytes of each client's file, in [Client -> Nat]
  Nobody     \* stands for no session

VARIABLES
  serving,   \* who is served, and how many bytes of the file are left
  complete,  \* the clients whose file was taken as a whole
  outcome    \* how each client's transfer stands

transfer_vars == <<serving, complete, outcome>>

Session == [who : Client \cup Other, left : Nat \ {0}]

Init ==
  /\ serving = Nobody
  /\ complete = {}
  /\ outcome \in [Client -> {"running", "failed"}]

\* A session starts: never while there is another one.
Open ==
  /\ serving = Nobody
  /\ serving' \in Session
  /\ serving'.who \in Client => serving'.left = Size[serving'.who]
  /\ UNCHANGED <<complete, outcome>>

\* Some of the bytes that are left are taken.
Take ==
  /\ serving # Nobody
  /\ serving' \in Session
  /\ serving'.who = serving.who
  /\ serving'.left <= serving.left
  /\ UNCHANGED <<complete, outcome>>

\* All the bytes that are left are taken: the session is over.
Finish ==
  /\ serving # Nobody
  /\ serving' = Nobody
  /\ complete' = complete \cup ({serving.who} \cap Client)
  /\ UNCHANGED outcome

\* The session ends before all bytes are there.
Abandon ==
  /\ serving # Nobody
  /\ serving' = Nobody
  /\ UNCHANGED <<complete, outcome>>

\* A file without bytes needs no session.
TakeEmpty(c) ==
  /\ serving = Nobody
  /\ Size[c] = 0
  /\ complete' = complete \cup {c}
  /\ UNCHANGED <<serving, outcome>>

Succeed(c) ==
  /\ outcome[c] = "running"
  /\ c \in complete
  /\ outcome' = [outcome EXCEPT ![c] = "done"]
  /\ UNCHANGED <<serving, complete>>

Fail(c) ==
  /\ outcome[c] = "running"
  /\ outcome' = [outcome EXCEPT ![c] = "failed"]
  /\ UNCHANGED <<serving, complete>>

Next ==
  \/ Open \/ Take \/ Finish \/ Abandon
  \/ \E c \in Client : TakeEmpty(c) \/ Succeed(c) \/ Fail(c)

Spec == Init /\ [][Next]_transfer_vars
=============================================================================
