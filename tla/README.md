# PPCB in TLA+

PPCB carries a byte string from a client (`ppcbc`) to a server (`ppcbs`) over
TCP, over UDP, or over UDP with retransmission (UDPR). This directory models the
programs as they are written in C, checks the models with TLC on small instances
and proves the main safety properties with TLAPS for every instance.

In short:

- **Safe.** Over UDP, with or without retransmission, and over TCP, a client that
  reports success has had its whole file taken, gapless and in order, in a session
  of its own (`SuccessMeansDelivered`, `TCP_SuccessMeansDelivered`, both proved).
  Over UDP this is so for any loss, duplication, delay and reordering, for any
  number of clients, for strangers that do not know the session ids, and even when
  clients draw equal session ids. All three protocols implement one abstract
  transfer (`ImplementsTransfer`, `TCP_ImplementsTransfer`, both proved).
- **Terminating.** Over UDP and TCP, every client ends and the server always gets
  free again (checked), while foreign traffic is finite. What every client and every
  session with a client does is bounded by its file and its retransmissions, whatever
  the network does (`ClientsDescend`, `SessionDescends` and their TCP counterparts,
  proved).
- **Nothing left behind.** When the server holds a client's whole file, the client
  has nothing new to send (`DeliveredIsSent`, `TCP_DeliveredIsWritten`, proved), and
  no TCP connection stays open that nobody serves (`TCP_NoConnectionKept`, proved).
- **Not everything the documents say.** Eight runs end in counterexamples: an
  empty file's RCVD goes to an earlier client; a late CONN, a late ACC and an
  early RCVD each abort a correct transfer; a SIGINT during a session does not end
  the server; a TCP client fails after its file was delivered, because it is still
  writing padding; the vector that holds the input is written beyond its end; the
  bytes behind a NUL are not sent.

## 1. Inventory

| Component | Source | State | Operations | Hard behaviour | What makes it correct |
|---|---|---|---|---|---|
| Packets, sockets | `packet_structures.c`, `helper_func.c` | datagrams under way | `init_*`, `sendto_wrapper`, `recvfrom`, `close` | loss, duplication, reordering | what a packet says was true of its sender and stays true |
| UDP/UDPR server | `server_UDP_lib.c`, `server.c`, `common.c` | the session: `conn`, `curr_package_id`, `bytes_recvd`, `nbr_of_retransmits`, two static `client_address`, `finish` | wait for CONN, two receive loops, `do_retransmission`, `handle_ret_val`, rejection of strangers, SIGINT | strangers in a session, stale static address, repeated packets, empty datagrams, EINTR | one session at a time, no foreign or repeated bytes in it, always free again |
| UDP client | `client_UDP_lib.c`, `helper_func.c`, `ppcb_client.c` | package id, bytes sent, address of the server | CONN, CONACC, DATA..., RCVD | the server is busy, dies or is slow | success only when delivered; always ends |
| UDPR client | `client_UDPR_lib.c`, `helper_func.c`, `ppcb_client.c` | the same, and a budget of retransmissions | the same with an ACC per packet | late, repeated and overtaken answers | stop and wait; repetitions within the budget; success only when delivered; always ends |
| TCP server and client | `server_TCP_lib.c`, `client_TCP_lib.c`, `common.c` | stream position, current packet | accept, `readn`/`writen`, RJT, RCVD | partial reads and writes, closes, SIGINT | packets found at their boundaries; success only when delivered |
| Input buffer | `my_vec.c`, cutting loops of the clients | `buff`, `occupied_size`, `buff_size`; 32-bit counters | `read_stdin`, growing, `strncpy`, `init_DATA` | NUL bytes, 2^32 bytes, capacity, reads of any length | the pieces put together are the input, and the loops end |
| Test client | `client_tests_lib.c` | none | 44 sequences of wrong or odd packets | it drives the servers through their error branches | the servers keep clients' sessions intact and get free |
| Command line, errors, timing CSV, course examples | `common.c`, `err.c`, `helper_func.c`, `UDP/`, `TCP/`, `TCP_concurrent/` | none that matters later | | | not modelled, see section 7 |

Components interact only by packets and by opening and closing connections. The
server handles one session at a time
in one thread; a client is one process that makes one transfer. Within a process
the only concurrency is SIGINT in the server. So one action of a model stands for
all a process does from the return of one blocking call to the next blocking
call: nobody can observe the steps in between, except through packets, and
packets can be delayed at will. A client reads its whole input before it sends
anything and cuts it while it sends; the input buffer is therefore a system of its
own, and the protocol modules know a piece by its place in the file.

The hazards of this code, each at its line, are listed in `PROJECT.json`.

## 2. Modules

| Module | What it is |
|---|---|
| `Datagrams` | Packets as records, the bag of datagrams in flight, `Send`, `Reply` (one `recvfrom` and the `sendto`s that follow it), `Close`, and the network's `Lose` and `Duplicate`. A bag has no order: reordering and delay need no action. |
| `UDPServer` | `UDP_server_handler` and all it calls. |
| `PPCBClient` | What both clients share: locals, `wait_for_server_response`, how the input is cut. |
| `UDPClient`, `UDPRClient` | `UDP_client_handler` and `UDPR_client_handler`. |
| `PPCBTransfer` | The abstract transfer: somebody is served, bytes that are left shrink, a client may succeed once its file was taken whole. |
| `PPCBoverUDP` | The programs and the network composed; `Spec`, `FairSpec`; the properties; the inductive invariant; the refinement mapping. |
| `PPCBoverUDP_proofs`, `PPCBoverUDP_refinement` | The theorems about it: invariants, and that it implements `PPCBTransfer`. |
| `PPCBoverUDP_progress` | More theorems about it: what clients and sessions use up, and what is paid for. |
| `Streams` | TCP connections: what each side has written and the other has not read, the backlog of `listen`, closes, resets. |
| `TCPServer`, `TCPClient` | `TCP_server_handler` and `TCP_client_handler` and all they call. |
| `PPCBoverTCP` | Server, clients and connections of other programs composed; the properties; the inductive invariant; the refinement mapping onto the same `PPCBTransfer`. |
| `PPCBoverTCP_proofs`, `PPCBoverTCP_refinement`, `PPCBoverTCP_progress` | The theorems about it, divided in the same way. |
| `InputBuffer` | A client and its file: the vector filled from stdin, its growth, and the three loops that cut it into packets. |
| `InputBuffer_proofs` | The theorems about it. |
| `UDPTests`, `TCPTests` | Every case of the test client, as the datagrams or items it sends. |
| `MCUDP`, `MCTCP`, `MCInput` | Instances for TLC. |

The constant `Scenario` of `Datagrams` and `Streams` says who takes part: the
clients that get as far as sending or connecting, and what other programs send. A
run starts in any scenario of the set, so that one run covers a pair of clients
and each test in turn.

### State and actions against the code

Server. `s_pc` is "idle" in the read of `UDP_server_handler`, "session" in the
read of `UDP_data_receive` or `UDPR_data_receive` (which of them says
`s_conn.proto`), "exit" after the socket is closed. `s_package_id`,
`s_bytes_recvd` and `s_retransmits` are the locals of the receive functions and
`s_client_address` their static address, one for each of the two functions.
`is_first_DATA_packet` is `s_package_id = 0`. Three variables are history and
influence nothing: `s_received` (the pieces of this session), `accepted` (every
DATA ever taken), `delivered` (sessions that ended with RCVD).

| Action | Code |
|---|---|
| `RejectCONN`, `AcceptCONN`, `AcceptEmptyCONN`, `SendCONACCFails` | `UDP_server_handler` after its read, up to the next read |
| `GetNothing`, `LoseClient` | a datagram without bytes, which every read takes for an error: the idle server goes on, a session ends |
| `TurnAway` | the branch of `read_data_to_buffer` for other senders |
| `TakeDATA`, `TakeLastDATA`, `TakeTooMuchDATA` | one round of a receive loop with a correct packet, with what follows the loop when it ends |
| `UDPR_Ignore`, `UDPR_Reject` | `handle_ret_val` with CONTINUE, with ERROR |
| `UDP_Reject` | the error branch of `UDP_data_receive` |
| `UDP_ServerTimeout`, `UDPR_ServerRetransmit`, `UDPR_ServerGiveUp` | EAGAIN in a session |
| `SigintWhileIdle`, `SigintInSession`, `SigintBetweenReads` | `catch_int`, and the EINTR it causes if a read is blocked |

Clients. `c_pc` names the call the client is in: about to send CONN or DATA,
waiting for CONACC, ACC or RCVD, or ended. `ppcbc` exits with 0 in every case;
"done" is the normal end of the handler and "failed" its early returns.
`c_package_id` and `c_bytes_sent` are `curr_package_id` and `bytes_sent`,
`c_server_ip` is `real_server_s_addr`. Each action is one branch of the code
between a send and the next wait; a timeout or an unexpected packet that leads to
the same packet being sent again goes back to the sending state through
`Retransmit`, which also counts. `UDP_GetNothing` and `UDPR_GetNothing` are what the
clients do when `recvfrom` returns 0: they look at an `errno` that this call has
not set, so that both outcomes of that look are possible.

TCP server. `t_pc` names the call the server is blocked in: `accept`, the read of
a CONN, of a DATA header (`TCP_get_DATA_metainfo`) or of the data
(`TCP_read_data_to_buf`). `t_bytes_received` is `nbr_of_bytes_received`, which
counts the data of a packet as soon as its header was read; `t_rest` is what of it
is still to be read. `finish` is looked at only after a failed `accept`.

| Action | Code |
|---|---|
| `TCP_wait_for_client` | `accept` succeeds, timers are set |
| `AcceptCONN`, `AcceptEmptyCONN`, `RefuseCONN` | `TCP_handle_conn_init`, CONACC, and for no bytes RCVD and `close` |
| `TCP_get_DATA_metainfo`, `RejectHeader` | the header and the check of the total; RJT and `close` |
| `TCP_read_data_to_buf`, `FinishSession` | the data; after the last declared byte RCVD and `close` |
| `EndOfStream`, `TCP_ServerTimeout`, `SigintInSession` | `readn` returns too little or -1, with what its caller does then |
| `SigintInAccept`, `SigintBetweenCalls` | EINTR in `accept`; the flag alone |

TCP client. `c_pc` is the call it is in. `Structure(c, i)` is item i of the `DATA`
structure that `send_data_wrapper` writes in full: header, bytes of the piece,
padding. `TCP_WritePart` and `TCP_WriteLast` are the rounds of `writen`, so that the
server can read, reject or close while a packet is half written.

Input buffer. `phase` is the function the process is in: "reading" in `read_stdin`,
"cutting" in one of the three loops (which one says `protocol`), then "sent", or
"aborted" when a call fails or the memory behind the vector was not the process's
own. `vec` is the occupied part of `buff`, `buff_size` its size, and `bytes_left`,
`bytes_sent`, `start_cpy_pos` are the locals of the loops. `short_read`, `overruns`
and `output` (the bytes of all packets) are history.

| Action | Code |
|---|---|
| `PushBack`, `GrowAndPushBack`, `Overrun` | one `read` and `push_back_str_to_vec`: it fits; it fits after `realocate_my_vec`; it does not fit even then |
| `EndOfInput`, `ReadFails` | the end of `read_stdin`, and the start of the loop |
| `CutPacket`, `AllSent` | one round of a `_client_send_DATA`, with `init_DATA`; the end of the loop |

### Abstractions

- A TCP stream is a sequence of items: the fixed part of a packet, or one byte of
  data. A fixed part is read whole or not at all, because `readn_error_handler`
  turns a part of it into the same error as none. The data is read byte by byte,
  and what is read is kept, whatever it is.
- What the kernels do to a connection is nondeterministic where the code cannot
  know: a reset after a close with unread data may discard what was not read yet
  on the other side, and may be noticed at once or later.
- In the protocol modules the contents of a file are left out. A piece is known by
  its owner, offset and length, which is enough to say "gapless, in order, of this
  client". What the bytes are is the subject of `InputBuffer`; there a byte of the
  file has the number of its place, or is NUL.
- What `strncpy` writes beyond the vector stays readable until the next growth,
  and may or may not be there afterwards, or the process may be stopped: these are
  the outcomes a build can produce.
- `sized` stands for every comparison of a datagram's length with its structure.
- A sender's failing `sendto` is modelled where the code looks at it
  (`Faults`). Where the server ignores the result it is the same as the loss of
  that datagram.
- The server's id in RJT is read by nobody and left out.
- Numbers are unbounded: 64-bit ids do not wrap in any transfer that fits on a
  disk. The 32-bit counters of the loops are counted modulo `Wrap` in `InputBuffer`;
  the protocol modules are about files that these can count.
- The tests read no answer and their pauses are only time, so a test is what it
  sends. Over UDP this is a bag: a datagram may be late.
- `MAX_WAIT` is not a number: a timer may run out at any moment. With
  `Prompt = TRUE` it runs out only when nothing is under way; two violation runs
  use this so that the counterexample is not just a timer that was too short.

## 3. Runs

Two bytes make a full packet (`SEND_BUFF_SIZE = 2`). A file of 3 bytes is a full
packet and a short last one; one of 2 bytes is exactly a full packet.
`MAX_RETRANSMITS = 1` reaches both the retransmission and the limit; a second one
repeats the same transition. Two clients are enough for one to be served
while the other interferes.

| Run | Instance | Distinct states | Shows |
|---|---|---|---|
| `udpr` | UDPR clients a (3 bytes) and b (2 bytes) **with the same session id**, lossy network, both sides retransmit. Scenarios: a and b; a and a program that declares a byte, then sends packets of no bytes and of too many, a CONN for 0 bytes and an empty datagram; a and an empty datagram sent to it; b and each test over UDP and over UDPR | 692 869 | `SuccessMeansDelivered`, `SessionHoldsPrefix`, `StopAndWait`, `RepeatsArePaidFor`, `Inductive`, `ImplementsTransfer`, `SessionDescends` |
| `mixed` | a over UDP (3 bytes), b over UDPR (2 bytes), failing sends, killed clients, one SIGINT. Scenarios: both, and a stranger on the server's port number that sends an ACC; a, and an empty datagram sent to it | 60 633 | `TypeOK`, `SuccessMeansDelivered`, `SessionHoldsPrefix`, `RcvdReachesItsClient`, `DeliveredIsSent`, `ImplementsTransfer`, `ClientsDescend`, `ClientsTerminate`, `ServerFreed` |
| `tcp` | a (3 bytes: a full packet and a padded one), b (an empty file) and w (4 bytes: two full packets), the same session id, killed clients, resets, one SIGINT. Scenarios: a and b, and a connection that stops after a first piece; b and w; a and each test, or a connection that says nothing, declares nothing, or announces too much, too little or no bytes | 102 905 | `TCP_TypeOK`, `TCP_Inductive`, `TCP_SuccessMeansDelivered`, `TCP_SessionHoldsPrefix`, `TCP_DeliveredIsWritten`, `TCP_RcvdWaits`, `TCP_NoConnectionKept`, `TCP_ImplementsTransfer`, `TCP_ClientsDescend`, `TCP_SessionDescends`, `TCP_ClientsTerminate`, `TCP_ServerFreed` |
| `input` | each of the three loops, every file of up to 9 bytes with up to two NULs, read in pieces of any length | 33 657 | `InputTypeOK`, `BytesFollowInput`, `SentIsWhole`, `OverrunIsEarly`, `PiecesHaveBytes`, `InputIsSent` |

Deadlock is not checked: a finished system (all clients ended, server idle, nothing
under way) has no next step, and this is the normal end. So is a client whose file
was cut to its end.

Loss is off in `mixed` and duplication in all passing runs, to keep
the instances small. Retransmissions put real second copies of CONN, DATA, CONACC
and ACC on the wire, a datagram can stay under way for ever, and the theorems
cover any loss and duplication. `mixed` and `tcp` check liveness, and `udpr`, whose
state space is the largest, does not.

In `tcp`, `Window = 2` items fit into a connection, less than one DATA structure, so
that a client blocks in `writen`; `QUEUE_LEN = 2` of the connections fit into
the backlog; `MaxSigint = 1`, because a second SIGINT in the same place repeats the
transition and one is enough for the server to leave in `accept`. The tests declare
a file of 2 bytes, a first piece of 1 and 2 bytes too many.

In `input`, the vector starts with `INIT_VEC_SIZE = 2` bytes and a read asks for
`INPUT_BUFF_SIZE = 4`, the same proportion as in the code, so that one growth takes
a full read and no more; 9 bytes reach the third growth. A packet holds
`SEND_BUFF_SIZE = 3` bytes, so that pieces are not aligned with reads; the counters
wrap at 8, so that files of 8 and 9 bytes are beyond them.

Runs that end in a counterexample, each about one sentence of the documents:

| Run | Property | What happens |
|---|---|---|
| `stale_rcvd` | `RcvdReachesItsClient` | After a session of a, b declares 0 bytes. The receive loop is not entered, and RCVD with b's session id goes to a's address, left in the static `client_address`. |
| `repeated_conn` | `RepeatedCONNIgnored` | CONACC is slow, the client sends CONN again, goes on, and the second CONN arrives after the first DATA: the session ends. A comment in the tests (`client_tests_lib.c:990`) expects what the code does, README 38 and the comment in the server the opposite. |
| `late_acc` | `OldACCIgnored` | The ACC of packet 1 is duplicated; the copy meets a client that waits for RCVD and compares ids with 0, which is never moved on. |
| `early_rcvd` | `LoneTransferSucceeds` | RCVD overtakes the last ACC: the client sends its data again, the idle server answers CONRJT, and the client fails. |
| `sigint` | `SigintEndsServer` | The signal arrives during a session: the session is dropped and the server waits for the next CONN. |
| `tcp_padding` | `NoFailureAfterDelivery` | The server has the last declared byte, writes RCVD and closes; the client is still writing the unused end of its `DATA` structure, gets a reset and fails without reading RCVD. |
| `input_overrun` | `PuttingIsSafe` | A short read is followed by a full one: the vector is doubled once, which is not enough, and bytes are written beyond it. |
| `input_nul` | `FileIsSent` | What follows a NUL byte in the same piece is sent as NULs. |

`RcvdReachesItsClient` passes in `mixed` and fails in `stale_rcvd`: it holds as
long as no client has an empty file, which is what `RcvdAddressed` proves.

### Fairness

`FairSpec` asks for weak fairness of each client's steps and of the server's
steps, taken together per process: a process that could go on is scheduled, a
blocked one is woken by a datagram in its queue, by its connection or by
`SO_RCVTIMEO`. Both are what the kernel provides. Nothing is asked of the network,
of other programs, of signals or of faults, and not that a datagram in flight is
ever read before the timer runs out. The supply of datagrams is finite: each send
is paid for by progress or by the budget (`ClientsDescend`, `SessionDescends`).

`FairInputSpec` asks for weak fairness of the reads and of the loop: stdin holds a
file, so that `read` always returns, and the loops do not block for good. Nothing
is asked of the length of a read, nor that a process is ever stopped for an overrun.

## 4. Properties

- `SuccessMeansDelivered`: see above. It fails as soon as the server mixes up
  senders or does not look at the packet id.
- `SessionHoldsPrefix`: during a session with a client the server's pieces are a
  gapless beginning of that client's file, `bytes_recvd` long.
- `StopAndWait`: what a UDPR client regards as acknowledged was taken, and the
  server is at most one packet ahead of its client.
- `RepeatsArePaidFor`: what of a client's packets is under way more than once is
  at most what its budget of retransmissions and the network's copies account for.
  The budget is one for the connection, all packets and early answers, and is
  spent in three functions.
- `RcvdReachesItsClient`: an RCVD on the way to a client carries that client's
  session id.
- `DeliveredIsSent`: once the server has taken a client's whole file, the client has
  sent every packet of it, and over UDPR can only repeat the last one. A UDPR client
  accepts an RCVD where it waits for an ACC, without looking at the packet it is
  at (`UDPR_client_handle_ACC`): this is why no packet is skipped by that.
- `ClientsDescend`: each change of a client makes `Remaining`, its bytes, its
  retransmissions and the calls it has left, smaller. An answer that puts a client
  back to where it was, without a retransmission spent, would break it.
- `SessionDescends`: whenever the server changes its state in a session with a
  client, or writes to the client, bytes or retransmissions of the session have
  been used up. A datagram that is answered for nothing breaks it, even if the
  session's variables stay as they are. It speaks of clients, which send no DATA
  without bytes; another program can do that for as long as its packet ids last.
- `ImplementsTransfer`: every step is a step of `PPCBTransfer` or changes nothing
  it can see.
- `ClientsTerminate`, `ServerFreed`: liveness, as above.
- `TCP_SuccessMeansDelivered`: the same over TCP; the client takes nothing but the
  RCVD of its session, and the server writes it only after the last declared byte.
- `TCP_SessionHoldsPrefix`: no padding, header or foreign byte is ever read as data
  of a client; what is read is a beginning of its file, and at RCVD all of it.
- `TCP_DeliveredIsWritten`: once the server has read a client's whole file, the
  client is at its last structure with all bytes of it written, or past it: what
  can still go wrong is the padding (`tcp_padding`), never the file.
- `TCP_RcvdWaits`: when all packets of a file are as long as their structures
  (`FillsPackets`, an empty file included) and the server has read it, its client, if
  it has not ended, has written everything; the connection is shut without a reset,
  and the RCVD is next on it, or behind the CONACC of an empty file. A structure
  written too much, or a server that leaves something unread, breaks it.
- `TCP_NoConnectionKept`: every open connection is in the backlog or is served.
  `close` is called in four places of `server_TCP_lib.c` (168, 242, 255, 324); a
  branch without it would leave a client waiting and a descriptor lost.
- `TCP_ClientsDescend`, `TCP_SessionDescends`: as over UDP. A client writes at most
  `SEND_BUFF_SIZE + 1` items for each byte of its file; in a session with a client
  the server reads no header in vain.
- `TCP_ImplementsTransfer`: the same abstract transfer. Kept counters, a session
  that outlives its connection, or an early success break it.
- `TCP_ClientsTerminate`: also a client that is blocked in `writen` while the server
  turns it down, or that waits in the backlog.
- `TCP_ServerFreed`: no silent, slow or vanished connection holds the server. The
  SIGINT in a session, which over TCP too ends only the session, does not either.
- `BytesFollowInput`: unless something was written beyond the vector, what is in it
  and what goes into the packets are the bytes of the file in their places, and a
  byte is lost only behind a NUL.
- `SentIsWhole`: a loop ends only when all bytes were sent, and never for a file
  that its 32-bit counters cannot count.
- `PiecesHaveBytes`: no piece is empty as long as the counters can count the file.
- `OverrunIsEarly`: only after a short read, only at the first two growths, and by
  fewer than `INIT_VEC_SIZE` bytes.
- `InputIsSent`: a file that the counters can count is cut to its end.
- `TypeOK`, `TCP_TypeOK`, `InputTypeOK` are the type invariants; `Inductive` and
  `TCP_Inductive` are the invariants of the proofs.

What `SentIsWhole` says of files of 2^32 bytes and more is that the client never
finishes them: when the counter has come round, `bytes_left` is 0, and the loop
sends packets of no bytes for ever, although README 22 says that a client's DATA has
a length other than zero.

## 5. Theorems

For every value of the constants that satisfies the named assumptions of the
modules: `AddressAssumption`, `ScenarioAssumption`, `NetworkAssumption`,
`ServerAssumption`, `ClientAssumption`, `ForeignStrays`, `PromptAssumption` over UDP;
`StreamAssumption`, `ScenarioAssumption`, `TCPServerAssumption`,
`TCPClientAssumption` over TCP; `InputAssumption` for the input.

| Theorem | Statement |
|---|---|
| `TypeCorrect` | `Spec => []TypeOK` |
| `InductiveInvariant` | `EmptyFilesHaveOwnIds` gives `Spec => []Inductive` |
| `SuccessIsDelivery` | ... `Spec => []SuccessMeansDelivered` |
| `SessionIsPrefix` | ... `Spec => []SessionHoldsPrefix` |
| `StopAndWaitKept` | ... `Spec => []StopAndWait` |
| `TransferImplemented` | ... `Spec => ImplementsTransfer` |
| `RcvdAddressed` | `NoEmptyFiles` gives `Spec => []RcvdReachesItsClient` |
| `DeliveredSent` | `EmptyFilesHaveOwnIds` gives `Spec => []DeliveredIsSent` |
| `RepeatsPaid` | `Spec => []RepeatsArePaidFor` |
| `ClientsDescendAlways`, `SessionDescendsAlways` | `Spec => ClientsDescend`, `Spec => SessionDescends` |
| `TCP_TypeCorrect` | `Spec => []TCP_TypeOK` |
| `TCP_InductiveInvariant` | `Spec => []TCP_Inductive` |
| `TCP_SuccessIsDelivery` | `Spec => []TCP_SuccessMeansDelivered` |
| `TCP_SessionIsPrefix` | `Spec => []TCP_SessionHoldsPrefix` |
| `TCP_TransferImplemented` | `Spec => TCP_ImplementsTransfer` |
| `TCP_DeliveredWritten`, `TCP_NoneKept` | `Spec => []TCP_DeliveredIsWritten`, `[]TCP_NoConnectionKept` |
| `TCP_ClientsDescendAlways`, `TCP_SessionDescendsAlways` | `Spec => TCP_ClientsDescend`, `Spec => TCP_SessionDescends` |
| `TCP_RcvdWaiting` | `Spec => []TCP_RcvdWaits` |
| `InputInvariant`, `InputTypeCorrect` | `InputSpec => []InputInductive`, `[]InputTypeOK` |
| `BytesFollow`, `SentWhole`, `OverrunEarly`, `PiecesBytes` | `InputSpec => []BytesFollowInput`, `[]SentIsWhole`, `[]OverrunIsEarly`, `[]PiecesHaveBytes` |
| `TextIsSent` | `InputSpec => [](TextFile => FileIsSent)` |

`ForeignStrays` says that other programs do not use the clients' session ids,
which are random 64-bit numbers. Without it a stranger that uses the server's port
number and answers first would be the server for that client. Over TCP nothing of
the kind is needed: a connection has one program at its other end.

`EmptyFilesHaveOwnIds` says that of two clients with the same session id, neither
has an empty file. It is there because of the bug behind `stale_rcvd`:
the RCVD of an empty transfer goes to a client served before, which would take
it for its own if the ids were equal, and report success. With the bug repaired
the assumption is not needed; for non-empty files the theorems hold with equal
ids as well. `NoEmptyFiles`, that no CONN declares 0 bytes, is what
`RcvdReachesItsClient` needs for the same reason.

**The argument over UDP.** None of the properties is inductive by itself: that an
ACC may be believed depends on which ACCs can be in flight. `Inductive` adds

- `TruePackets`: a DATA of a client carries the piece of its file that its id
  names and, for UDPR, not a piece the client has not come to yet; an ACC with a
  client's session id names a packet in `accepted`; an RCVD with a client's
  session id means its file is in `delivered`. All of these stay true as time
  goes on, so that copies and delays do no harm.
- `ClientPosition`: a client with bytes left is at the offset its packet id names.
- `SessionPosition`: a session with a client has that client's parameters, is at
  the offset its packet id names, and has taken all earlier ids.

Lemmas first say what the socket operations do to the set of datagrams in flight
(`SendType`, `ReplyType`, `CloseType`, `NetworkType`). Client steps are then
reduced to the few moves they can make (`ClientMove`): stay, begin, send, go past
an acknowledged packet, end. Server steps are reduced to a session that opens,
grows or ends (`SessionOpens`, `SessionGrows`, `SessionEnds`). The two halves
of the invariant, `ClientPart` and `ServerPart`, are preserved separately, and
`InductiveStep` puts them together. The refinement needs one fact more, that a
session lacks bytes (`SessionLacksBytes`); it then follows server step by server
step and client step by client step, an accepted CONN being the abstract start, a
DATA the abstract take, and so on.

**The argument over TCP.** What a server may read depends on what is under way, and
that on where both sides stand. `TCP_Inductive` numbers the items a client writes
(`IsItem`: its CONN, then for every packet a header, bytes and padding) and says

- `OnTheWay`: what is under way on a client's connection are the items between the
  number the server has read (`ItemsRead`) and the number the client has written
  (`ItemsWritten`);
- `ClientPlace`, `SessionPlace`, `FilePlace`: where the locals of each side stand in
  the file and in the packet;
- `TrueRCVD`: an RCVD with a client's id on its connection means its file was
  delivered;
- `Connections`: a connection waits for `accept` once, is open until the server
  closes it, and what comes after that is discarded.

From these follows that a header is read where a header was written, although the
server takes the declared bytes of a piece and the client writes the whole structure:
only the last piece is shorter, and nothing is read behind it. There is a lemma for
each kind of server step (the session goes on, closes, or the server turns a party
down) and of client step; a step of one party leaves the connections of all others
alone. The refinement rests on the same invariant.

**The argument for the input.** `InputInductive` adds to the properties how far the
vector can be filled at each size (`Filling`), that as long as all reads are full
there is always room (`FullReadsFit`), and where a loop stands (`Cutting`):
`bytes_sent` and `bytes_left` make up `occupied_size` modulo `Wrap`. Growing copies
with `strncpy` as well, so a lemma says that what `strncpy` does to bytes that follow
the file still follows it.

**What is used up, over UDP.** Liveness is out of the prover's reach, but what it
rests on is not: `ClientsDescend` and `SessionDescends` say that a number that
cannot fall below 0 falls with each step, so that no network, however it repeats and
reorders, can make a client or a session with a client go on for ever. All that a
client can do in one step is one of a few moves (`ClientTurn`: it hears something
and waits or ends, repeats, writes CONN, starts, writes a DATA, goes on past one),
and each of them takes bytes, a retransmission or a call. On the server's side, a
datagram that adds to a session carries bytes, because every DATA of a client
does (`Bringing`), and every other answer to the client is a retransmission.
`RepeatsArePaidFor` is a statement about the bag of datagrams under way; it follows
from an invariant (`Paid`) of two parts: the copies beyond the first, plus the
packet that the client is about to write if it is under way already, are at most
the retransmissions and the network's copies (`PaidFor`); and what is under way was
written up to where the client is (`SentSoFar`), so that a packet is new when the
client comes to it. For `DeliveredIsSent`, a DATA under way of a UDP client has an
id that its client is past (`PastItsPackets`), and the packet that completes a file
is its last.

**What is used up, over TCP.** The same measures: `TCP_ClientsDescend` counts the
items of the structures that the bytes left pay for, and `TCP_SessionDescends` the
bytes and headers still to be read. The second needs `TCP_Inductive`: only because a
header is read where a header was written does it announce bytes (`NextHeader`).
`TCP_DeliveredIsWritten` follows from the numbering of the items: the last declared
byte was read, so it was written. `TCP_NoConnectionKept` is inductive by itself, up
to types, and holds for any number of connections of any programs.

**The other half of two findings.** `TCP_RcvdWaiting` says what the padding of
`tcp_padding` costs: a client whose packets are all full has nothing left to write
when its file was delivered, so it cannot fail in writing, and no reset takes the
RCVD from it. It can still be killed, or give up by its timer before it looks. The
proof is one more invariant (`Awaited`): until the server closes its end, a client
finds nothing but the CONACC of its session and goes on only when it has read it
(`AnswersSoFar`), a client that waits for RCVD has written all its packets
(`FullyWritten`), and so the structure whose last byte ends the session is the last
thing on the connection (`LastByteRead`): the server leaves nothing unread.
`TextIsSent` is the same for `input_nul`: a file without NUL bytes is sent as it is,
unless the vector was overrun.

**Only model-checked.** Liveness under fairness: `ClientsTerminate`, `ServerFreed`,
their TCP counterparts and `InputIsSent` (outside this prover's reach, as is
`ENABLED`). What a recursive definition computes for all inputs is not provable here,
and nothing of that kind is stated. Every invariant and every other action property
of a passing run is a theorem.

## 6. Plan

Done: the modules above, which were built in the order UDP, TCP, input, tests, with
the proofs of each after its runs. What is left:

1. At-most-once delivery over UDP: when can a late CONN and late DATA make the
   server deliver a file twice; a session that nobody is left to talk to.
2. Holding the server: an endless supply of foreign datagrams, and of DATA of
   length 0, against `ServerFreed` and `TCP_ServerFreed`, whose runs let other
   programs send finitely much. `SessionDescends` and `TCP_SessionDescends` show that
   no client does this.

## 7. Not modelled

- Foreign datagrams without end (the hazard at `server_UDP_lib.c:119`, which no
  property covers): the other programs of a run send finitely many.
- `recvfrom` errors other than EAGAIN and EINTR.
- Errors of `accept` other than EINTR, and a server's `write` that fails while the
  connection is open: answers are a few bytes and the first on their connection.
- Truncation of long datagrams to the receive buffer: they are not `sized`.
- Printing of received data: the calls are commented out in
  `server_UDP_lib.c` (307 and 496), although the repository's README asks for it.
- Argument parsing, name resolution, error messages, the CSV of timings: no
  behaviour depends on them later.
- `my_vec_push_back`, `my_vec_get` and `my_vec_print`, which nobody calls, and the
  saturation of `new_size` at 2^64.
- The course examples in `UDP/`, `TCP/` and `TCP_concurrent/`: other programs, from
  which neither `ppcbs` nor `ppcbc` is built.

Comments that the code does not keep and no run is about: `my_vec.c:103` says that a
terminating NUL is added; `helper_func.c:131` that what strangers send is ignored,
while an empty datagram is acted on before its sender is looked at.

## 8. Running

    tlc -workers 2 -config udpr.cfg MCUDP.tla
    tlc -workers 2 -config tcp.cfg MCTCP.tla
    tlc -workers 2 -config input.cfg MCInput.tla
    tlapm PPCBoverUDP_proofs.tla
    tlapm PPCBoverUDP_refinement.tla
    tlapm PPCBoverUDP_progress.tla
    tlapm PPCBoverTCP_proofs.tla
    tlapm PPCBoverTCP_refinement.tla
    tlapm PPCBoverTCP_progress.tla
    tlapm InputBuffer_proofs.tla

`udpr` and `mixed` take a minute or two, the other passing runs less. `PROJECT.json`
lists the runs, the source lines of every definition, and for each
checked property a mutation of the model that breaks it; the mutated definitions
stand next to the originals, marked "Mutant".
