---------------------------- MODULE InputBuffer ----------------------------
(***************************************************************************)
(* What a ppcbc process does with its file: it reads stdin into a growing  *)
(* vector (my_vec.c) and cuts the vector into the DATA packets it sends    *)
(* (the loops of TCP_, UDP_ and UDPR_client_send_DATA).  Packets that are  *)
(* sent again carry the same piece: UDPRClient models them.                *)
(***************************************************************************)
EXTENDS Integers, Sequences

CONSTANTS
  Byte,             \* the values of a char
  NUL,              \* the one that ends a string
  File,             \* the files a client may be started with
  INIT_VEC_SIZE,
  INPUT_BUFF_SIZE,
  SEND_BUFF_SIZE,
  Wrap              \* a uint32_t counts modulo this

ASSUME InputAssumption ==
  /\ NUL \in Byte
  /\ File \subseteq Seq(Byte)
  /\ INIT_VEC_SIZE \in Nat \ {0}
  /\ INPUT_BUFF_SIZE \in 1 .. 2 * INIT_VEC_SIZE
  /\ SEND_BUFF_SIZE \in Nat \ {0}
  /\ Wrap \in Nat \ {0}

VARIABLES
  protocol,       \* which of the three loops cuts the vector
  file,           \* what stdin holds
  phase,          \* the function the process is in, or how it ended
  vec,            \* the occupied part of vec->buff; occupied_size is its length
  buff_size,      \* vec->buff_size
  short_read,     \* history: a read() brought less than it was asked for
  overruns,       \* history: the buff_sizes beyond which bytes were written
  bytes_left,     \* the 32-bit counters of the loop
  bytes_sent,
  start_cpy_pos,
  output          \* history: the bytes of all DATA packets, in order

read_vars == <<vec, buff_size, short_read, overruns>>

cut_vars == <<bytes_left, bytes_sent, start_cpy_pos, output>>

input_vars == <<protocol, file, phase, read_vars, cut_vars>>

occupied_size == Len(vec)

\* strncpy() of as many bytes as s has: after a NUL it only pads.
strncpy(s) ==
  [i \in 1 .. Len(s) |-> IF \E j \in 1 .. i : s[j] = NUL THEN NUL ELSE s[i]]

-----------------------------------------------------------------------------
(* Reading stdin.                                                          *)

\* read() returns n of the bytes that are left.
read_buff(n) == SubSeq(file, occupied_size + 1, occupied_size + n)

Arrives(n) ==
  /\ phase = "reading"
  /\ n \in 1 .. INPUT_BUFF_SIZE
  /\ occupied_size + n <= Len(file)

\* push_back_str_to_vec sees no need to grow.
Fits(n) == occupied_size + n < buff_size

Put(moved, n) ==
  /\ vec' = moved \o strncpy(read_buff(n))
  /\ short_read' = (short_read \/ n < INPUT_BUFF_SIZE)
  /\ UNCHANGED <<protocol, file, cut_vars>>

PushBack(n) ==
  /\ Arrives(n)
  /\ Fits(n)
  /\ Put(vec, n)
  /\ UNCHANGED <<phase, buff_size, overruns>>

\* What was written beyond the block may be gone when the next one is cleared.
Remains ==
  {vec, [i \in 1 .. Len(vec) |-> IF i <= buff_size THEN vec[i] ELSE NUL]}

\* Mutant: the vector grows by what it started with.
GrownByInit == buff_size + INIT_VEC_SIZE

\* realocate_my_vec doubles the block, once.
new_size == 2 * buff_size

\* Mutant: the last byte makes room for a NUL.
AllButLast(s) ==
  [i \in 1 .. Len(s) |-> IF i = Len(s) THEN NUL ELSE strncpy(s)[i]]

\* The bytes in the new block: those of the old one, as strncpy() copies them.
Moved(s) == strncpy(s)

GrowAndPushBack(n) ==
  /\ Arrives(n)
  /\ ~ Fits(n)
  /\ occupied_size + n <= new_size
  /\ \E old \in Remains : Put(Moved(old), n)
  /\ buff_size' = new_size
  /\ UNCHANGED <<phase, overruns>>

\* The doubled block is too small all the same: the bytes beyond it are written
\* to memory of others, and the process is stopped for it or it is not.
Overrun(n) ==
  /\ Arrives(n)
  /\ ~ Fits(n)
  /\ occupied_size + n > new_size
  /\ \E old \in Remains : Put(Moved(old), n)
  /\ buff_size' = new_size
  /\ overruns' = overruns \cup {new_size}
  /\ phase' \in {"reading", "aborted"}

\* read() fails, or there is no memory.
ReadFails ==
  /\ phase = "reading"
  /\ phase' = "aborted"
  /\ UNCHANGED <<protocol, file, read_vars, cut_vars>>

\* Mutant: the counter has the width of occupied_size.
CountAllBytes ==
  /\ phase = "reading"
  /\ occupied_size = Len(file)
  /\ phase' = "cutting"
  /\ bytes_left' = occupied_size
  /\ UNCHANGED <<protocol, file, read_vars, bytes_sent, start_cpy_pos, output>>

EndOfInput ==
  /\ phase = "reading"
  /\ occupied_size = Len(file)
  /\ phase' = "cutting"
  /\ bytes_left' = occupied_size % Wrap
  /\ UNCHANGED <<protocol, file, read_vars, bytes_sent, start_cpy_pos, output>>

-----------------------------------------------------------------------------
(* Cutting the vector into packets.                                        *)

\* Mutant: as long as there is a full packet.
MoreFullPackets == bytes_left >= SEND_BUFF_SIZE

\* Mutant: one comparison too weak, and an empty packet after the last one.
MoreOrEqual == bytes_sent <= occupied_size

More == IF protocol = "udpr" THEN bytes_sent < occupied_size
        ELSE bytes_sent # occupied_size

shift == IF bytes_left < SEND_BUFF_SIZE THEN bytes_left ELSE SEND_BUFF_SIZE

\* One strncpy() to buff and another one to the packet.
seq_of_bytes(n) ==
  strncpy(strncpy(SubSeq(vec, start_cpy_pos + 1, start_cpy_pos + n)))

\* Only UDPR moves on behind a piece that is not full.
next_cpy_pos ==
  IF protocol = "udpr" \/ shift = SEND_BUFF_SIZE THEN start_cpy_pos + shift
  ELSE start_cpy_pos

CutPacket ==
  /\ phase = "cutting"
  /\ More
  /\ output' = output \o seq_of_bytes(shift)
  /\ bytes_sent' = (bytes_sent + shift) % Wrap
  /\ bytes_left' = bytes_left - shift
  /\ start_cpy_pos' = next_cpy_pos
  /\ UNCHANGED <<protocol, file, phase, read_vars>>

AllSent ==
  /\ phase = "cutting"
  /\ ~ More
  /\ phase' = "sent"
  /\ UNCHANGED <<protocol, file, read_vars, cut_vars>>

-----------------------------------------------------------------------------

InputInit ==
  /\ protocol \in {"tcp", "udp", "udpr"}
  /\ file \in File
  /\ phase = "reading"
  /\ vec = <<>> /\ buff_size = INIT_VEC_SIZE
  /\ short_read = FALSE /\ overruns = {}
  /\ bytes_left = 0 /\ bytes_sent = 0 /\ start_cpy_pos = 0
  /\ output = <<>>

Reads ==
  \/ \E n \in 1 .. INPUT_BUFF_SIZE :
       PushBack(n) \/ GrowAndPushBack(n) \/ Overrun(n)
  \/ EndOfInput

Cuts == CutPacket \/ AllSent

InputNext == Reads \/ ReadFails \/ Cuts

InputSpec == InputInit /\ [][InputNext]_input_vars

\* stdin holds a file, so that read() always returns, and nothing blocks the
\* loops for good.
FairInputSpec ==
  InputSpec /\ WF_input_vars(Reads) /\ WF_input_vars(Cuts)

-----------------------------------------------------------------------------

InputTypeOK ==
  /\ protocol \in {"tcp", "udp", "udpr"}
  /\ file \in File
  /\ phase \in {"reading", "cutting", "sent", "aborted"}
  /\ vec \in Seq(Byte)
  /\ buff_size \in Nat
  /\ short_read \in BOOLEAN
  /\ overruns \subseteq Nat
  /\ bytes_left \in 0 .. Wrap - 1 /\ bytes_sent \in 0 .. Wrap - 1
  /\ start_cpy_pos \in Nat
  /\ output \in Seq(Byte)

\* Byte by byte the beginning of the file, with NULs from its first NUL on.
Follows(bytes) ==
  /\ Len(bytes) <= Len(file)
  /\ \A i \in 1 .. Len(bytes) :
       /\ bytes[i] \in {file[i], NUL}
       /\ (\A j \in 1 .. i : file[j] # NUL) => bytes[i] = file[i]

\* However the reads split the input, and however often the vector grows, what
\* is kept and what goes into the packets are the bytes of the file in their
\* places, lost only behind a NUL: push_back_str_to_vec, realocate_my_vec and
\* the loops of the three _client_send_DATA.
BytesFollowInput == overruns = {} => Follows(vec) /\ Follows(output)

\* The loops end only when all bytes were sent, and never for a file that the
\* 32-bit counters cannot count (client_UDP_lib.c:80, client_UDPR_lib.c:284,
\* client_TCP_lib.c:90).
SentIsWhole ==
  phase = "sent" => Len(output) = Len(file) /\ Len(file) < Wrap

\* No packet without data is sent for a file that the counters can count
\* (README 22): the lengths that the three loops cut.
PiecesHaveBytes == phase = "cutting" /\ More /\ Len(file) < Wrap => shift > 0

\* Bytes are written beyond the block only after a read() brought less than it
\* was asked for, only at the first two growths, and fewer than INIT_VEC_SIZE of
\* them: push_back_str_to_vec grows once, whatever is to be put.
OverrunIsEarly ==
  /\ overruns # {} => short_read
  /\ overruns \subseteq {2 * INIT_VEC_SIZE, 4 * INIT_VEC_SIZE}
  /\ occupied_size < buff_size + INIT_VEC_SIZE

\* A file that the counters can count is sent to its end, whatever the reads
\* bring, unless the process is stopped: the loops of the three
\* _client_send_DATA.
InputIsSent == Len(file) < Wrap ~> phase \in {"sent", "aborted"}

-----------------------------------------------------------------------------
(* The inductive invariant behind the safety properties.                   *)

\* How far the vector is filled at each size it can have.
Filling ==
  /\ overruns = {} => occupied_size <= buff_size
  /\ \/ buff_size = INIT_VEC_SIZE /\ occupied_size < INIT_VEC_SIZE
          /\ overruns = {}
     \/ buff_size = 2 * INIT_VEC_SIZE /\ occupied_size < 3 * INIT_VEC_SIZE
          /\ overruns \subseteq {2 * INIT_VEC_SIZE}
     \/ buff_size = 4 * INIT_VEC_SIZE /\ occupied_size < 5 * INIT_VEC_SIZE
          /\ overruns \subseteq {2 * INIT_VEC_SIZE, 4 * INIT_VEC_SIZE}
     \/ buff_size >= 8 * INIT_VEC_SIZE /\ occupied_size <= buff_size
          /\ overruns \subseteq {2 * INIT_VEC_SIZE, 4 * INIT_VEC_SIZE}

\* As long as all reads are full, what they bring fits.
FullReadsFit ==
  ~ short_read =>
    /\ overruns = {}
    /\ \/ buff_size = INIT_VEC_SIZE /\ occupied_size = 0
       \/ buff_size >= INPUT_BUFF_SIZE /\ occupied_size <= buff_size

\* Where the loop stands in the vector.
Cutting ==
  /\ phase \in {"reading", "aborted"} =>
       output = <<>> /\ bytes_sent = 0 /\ start_cpy_pos = 0
  /\ phase \in {"cutting", "sent"} =>
       /\ occupied_size = Len(file)
       /\ bytes_sent + bytes_left = occupied_size % Wrap
       /\ Len(output) = bytes_sent
       /\ bytes_left > 0 => start_cpy_pos = bytes_sent
       /\ bytes_left = 0 => start_cpy_pos <= occupied_size
  /\ phase = "sent" => bytes_sent = occupied_size

InputInductive ==
  /\ InputTypeOK
  /\ occupied_size <= Len(file)
  /\ Filling /\ FullReadsFit /\ Cutting
  /\ BytesFollowInput

-----------------------------------------------------------------------------
(* What the header and the README say, and the program does not keep.      *)

\* The vector is an "API for safe putting" that "takes care of memory
\* management" (my_vec.h:8-9): what push_back_str_to_vec puts fits the block.
PuttingIsSafe == overruns = {}

\* The client sends the sequence of bytes it was given (README 6): the pieces
\* that the three _client_send_DATA cut make up the file.
FileIsSent == phase = "sent" /\ overruns = {} => output = file
=============================================================================
